------------------------------- MODULE ApduIo -------------------------------
(***************************************************************************)
(* The reply channel of io.c, as functions on a record:                     *)
(*   state   G_io_state                                                     *)
(*   output  the reply staged in G_io_apdu_buffer (NoReply: G_output_len 0) *)
(*   sent    the reply handed to the transport by the current step          *)
(*   ret     what the last call returned: 0 or -1                           *)
(* io_exchange is the blocking call of the system library; the application  *)
(* stands in it, in one of its two forms, whenever it is at rest:           *)
(*   "sync"   CHANNEL_APDU: the staged reply has been sent, and a command   *)
(*            is awaited;                                                   *)
(*   "async"  IO_ASYNCH_REPLY: the reply to the last command is still owed, *)
(*            and a callback of the user interface is to send it.           *)
(***************************************************************************)
EXTENDS AppData

IoState == {"READY", "RECEIVED", "WAITING"}

\* io_send_response, if the reply to a received command did not make the
\* channel ready for the next one.
SendResponseNotReady(ch, r) ==
  IF ch.state = "WAITING"
  THEN [ch EXCEPT !.state = "READY", !.output = NoReply, !.sent = r, !.ret = 0]
  ELSE [ch EXCEPT !.output = r, !.ret = 0]

\* io_send_response.
SendResponse(ch, r) ==
  IF ch.state = "READY" THEN [ch EXCEPT !.output = r, !.ret = -1]
  ELSE IF ch.state = "RECEIVED"
       THEN [ch EXCEPT !.state = "READY", !.output = r, !.ret = 0]
  ELSE [ch EXCEPT !.state = "READY", !.output = NoReply, !.sent = r, !.ret = 0]

\* io_recv_command, up to the io_exchange it blocks in.  The WAITING branch
\* does not block: it fails.
RecvCommand(ch) ==
  IF ch.state = "READY"
  THEN [ch EXCEPT !.state = "RECEIVED", !.output = NoReply, !.ret = 0,
                  !.sent = IF ch.output # NoReply THEN ch.output ELSE ch.sent]
  ELSE IF ch.state = "RECEIVED" THEN [ch EXCEPT !.state = "WAITING", !.ret = 0]
  ELSE [ch EXCEPT !.state = "READY", !.ret = -1]

\* The form of io_exchange that RecvCommand(ch) blocks in.
SiteOf(ch) == IF ch.state = "READY" THEN "sync" ELSE "async"

\* The return from io_exchange with a command, to the end of io_recv_command.
Received(ch, site) ==
  IF site = "sync" THEN [ch EXCEPT !.output = NoReply]
                   ELSE [ch EXCEPT !.state = "RECEIVED"]
=============================================================================
