------------------------------ MODULE NulsApp ------------------------------
(***************************************************************************)
(* The NULS application: main.c, io.c, the dispatcher, the handlers, the    *)
(* validation callbacks and the screens they belong to, with the host at    *)
(* the other end of the APDU channel.                                       *)
(*                                                                          *)
(* The program is one thread.  It is at rest only inside io_exchange, so a  *)
(* step is what it does between two rests: the handling of one command up   *)
(* to the next io_recv_command, or one callback of the user interface,      *)
(* which the system library runs from inside io_exchange.                   *)
(***************************************************************************)
EXTENDS ApduIo, SequencesExt

CONSTANTS
  Liberties,   \* what the host may do beyond the protocol, see HostMay
  MaxPieces    \* bound on the pieces sent, and hashed, in one session

ASSUME HostAssumption ==
  /\ Liberties \subseteq {"impatient", "malformed", "disordered"}
  /\ MaxPieces \in Nat

VARIABLES
  ioState,     \* G_io_state
  output,      \* the staged reply: G_io_apdu_buffer with G_output_len > 0
  site,        \* the io_exchange the program stands in, or "off"
  context,     \* G_context
  screen,      \* the flow on top of G_ux, and the transaction it was opened for
  storage,     \* N_storage, in flash
  pending,     \* host: the command whose reply is owed
  inbox,       \* the command that has arrived and has not been received yet
  answer,      \* host: the last reply, and the command it came for
  sent         \* host: what it sent in the current signing session

io == <<ioState, output, site>>
host == <<pending, answer, sent>>
vars == <<io, context, screen, storage, inbox, host>>

---------------------------------------------------------------------------
(* Types.                                                                   *)

\* G_context.  hashed is what the running hash has taken in; parse tells how
\* the parser's position relates to it: "aligned" while consumed and unread
\* bytes make up what was hashed, "done" after PARSING_OK, "scrambled" once
\* an error left bytes in raw_tx that the parser has already been over.
\* left is message_len - raw_tx_len of a personal message, -1 if exceeded.
Context ==
  [req : {"CONFIRM_ADDRESS", "CONFIRM_TRANSACTION"},
   state : {"STATE_NONE", "STATE_PARSED", "STATE_APPROVED"},
   key : Key \cup {NoKey}, alg : Alg, hashed : Seq(Piece),
   parse : {"aligned", "done", "scrambled"},
   messageLen : Nat, left : Nat \cup {-1},
   digest : Digest, sig : Signature \cup {NoSig}]

\* explicit_bzero(&G_context).
ZeroContext ==
  [req |-> "CONFIRM_ADDRESS", state |-> "STATE_NONE", key |-> NoKey,
   alg |-> "none", hashed |-> <<>>, parse |-> "aligned", messageLen |-> 0,
   left |-> 0, digest |-> ZeroDigest, sig |-> NoSig]

Screen == [kind : {"menu", "settings", "notBlind", "pubkey", "transaction"},
           tx : Tx \cup {NoTx}]
Menu == [kind |-> "menu", tx |-> NoTx]
\* The flows in which the user decides what the pending command gets.
Decision == {"notBlind", "pubkey", "transaction"}

Storage == [initialized : BOOLEAN, dataAllowed : BOOLEAN]

NoAnswer == [cmd |-> NoCommand, reply |-> NoReply]
NoSession == [path |-> NoKey, len |-> 0, data |-> <<>>]

TypeOK ==
  /\ ioState \in IoState
  /\ output \in Reply \cup {NoReply}
  /\ site \in {"sync", "async", "off"}
  /\ context \in Context
  /\ screen \in Screen
  /\ storage \in Storage
  /\ pending \in Command \cup {NoCommand}
  /\ inbox \in Command \cup {NoCommand}
  /\ answer \in [cmd : Command \cup {NoCommand}, reply : Reply \cup {NoReply}]
  /\ sent \in [path : Path \cup {NoKey}, len : 0 .. MaxLen, data : Seq(Piece)]

---------------------------------------------------------------------------
(* Rest to rest.                                                            *)

Here == [state |-> ioState, output |-> output, sent |-> NoReply, ret |-> 0]

\* The channel when a command has been received and its handler runs.
Woken == Received(Here, site)

\* A reply reaches the host.
Deliver(r) ==
  IF r = NoReply THEN UNCHANGED <<pending, answer>>
  ELSE /\ pending' = NoCommand
       /\ answer' = [cmd |-> pending, reply |-> r]

\* The loop of app_main comes round: io_recv_command, up to its io_exchange.
Resume(ch) ==
  LET next == RecvCommand(ch) IN
  /\ ioState' = next.state
  /\ output' = next.output
  /\ site' = SiteOf(ch)
  /\ Deliver(next.sent)

\* If main wrote the default settings on every start.
InitialiseAlways(st) == [initialized |-> TRUE, dataAllowed |-> FALSE]

\* First start of the application: main writes the default settings.
Initialise(st) ==
  IF st.initialized THEN st
  ELSE [initialized |-> TRUE, dataAllowed |-> FALSE]

\* A turn of the loop of main: the interface and the USB are set up again,
\* app_main resets the channel and the context and waits for a command.
\* Whatever was staged or owed is forgotten.
Restart ==
  /\ ioState' = "RECEIVED"
  /\ output' = NoReply
  /\ site' = "sync"
  /\ context' = ZeroContext
  /\ screen' = Menu
  /\ storage' = Initialise(storage)

\* A handler returns to app_main, which returns to main if the result is
\* negative.  RecvCommand fails only in state WAITING.
Return(ch, c, s) ==
  IF ch.ret < 0 \/ ch.state = "WAITING"
  THEN Restart /\ UNCHANGED <<pending, answer>>
  ELSE /\ Resume(ch)
       /\ context' = c
       /\ screen' = s
       /\ UNCHANGED storage

Answer(r, c) == Return(SendResponse(Woken, r), c, screen)
Show(s, c) == Return(Woken, c, s)

\* An exception in a handler: app_main replies, and continues its loop
\* whatever io_send_sw returned.
Throw(c, s) ==
  Return([SendResponse(Woken, Status("EXCEPTION")) EXCEPT !.ret = 0], c, s)

\* The application takes the command that has arrived; it is Accepted if
\* the dispatcher calls the handler of instruction ins.
Take == inbox # NoCommand /\ inbox' = NoCommand /\ UNCHANGED sent
Accepted(ins) == Framed(inbox) /\ Refusal(inbox) = "none" /\ inbox.ins = ins

---------------------------------------------------------------------------
(* Commands that are refused, and the two simple ones.                      *)

\* app_main continues its loop whatever io_send_sw returned.
BadFrame ==
  /\ Take
  /\ ~Framed(inbox)
  /\ Resume(SendResponse(Woken, Status("WRONG_DATA_LENGTH")))
  /\ UNCHANGED <<context, screen, storage>>

Refuse ==
  /\ Take
  /\ Framed(inbox) /\ Refusal(inbox) # "none"
  /\ Answer(Status(Refusal(inbox)), context)

GetVersion ==
  /\ Take
  /\ Accepted("GET_CONFIGURATION")
  /\ Answer(Status("OK"), context)

\* The reply init_public_key sends when it fails.
PathError(path) ==
  Status(IF path = ShortPath THEN "WRONG_DATA_LENGTH" ELSE "DERIVATION")

\* The flow of ui_display_public_key; and if it had the callbacks of the
\* review of a transaction.
PubkeyReviewForTx == [kind |-> "transaction", tx |-> NoTx]
PubkeyReview == [kind |-> "pubkey", tx |-> NoTx]

\* handler_get_public_key.  When init_public_key fails it has staged a reply,
\* but the handler returns -1.
GetPublicKey ==
  /\ Take
  /\ Accepted("GET_PUBLIC_KEY")
  /\ LET c == [ZeroContext EXCEPT !.key = inbox.path]
     IN IF inbox.path \notin Key
        THEN Return([SendResponse(Woken, PathError(inbox.path))
                       EXCEPT !.ret = -1], ZeroContext, screen)
        ELSE IF inbox.p1 = 1
        THEN Show(PubkeyReview, c)
        ELSE Answer(KeyReply(c.key), c)

---------------------------------------------------------------------------
(* SIGN_TX.                                                                 *)

\* If the first chunk did not initialise the hash it starts.
SessionWithoutHash(c, alg) ==
  IF c.p1 = 0
  THEN [ZeroContext EXCEPT !.req = "CONFIRM_TRANSACTION", !.key = c.path,
                           !.alg = context.alg,
                           !.messageLen = c.len, !.left = c.len]
  ELSE context

\* The context a signing command starts from: zeroed and with a fresh hash
\* for the first chunk, the current one for a later chunk.
Session(c, alg) ==
  IF c.p1 = 0
  THEN [ZeroContext EXCEPT !.req = "CONFIRM_TRANSACTION", !.key = c.path,
                           !.alg = alg,
                           !.messageLen = IF alg = "keccak" THEN c.len ELSE 0,
                           !.left = IF alg = "keccak" THEN c.len ELSE 0]
  ELSE context

\* The first chunk names a path that fails: init_public_key has replied, the
\* handler replies again, and in state READY that returns -1.
BadPath ==
  /\ Take
  /\ \E ins \in Signing : Accepted(ins)
  /\ inbox.p1 = 0 /\ inbox.path \notin Key
  /\ Return(SendResponse(SendResponse(Woken, PathError(inbox.path)),
                         Status("TX_PARSING_FAIL")), ZeroContext, screen)

\* A later chunk without a session.
BadState ==
  /\ Take
  /\ \E ins \in Signing : Accepted(ins)
  /\ inbox.p1 = 1 /\ context.req # "CONFIRM_TRANSACTION"
  /\ Answer(Status("BAD_STATE"), context)

\* The guard under which a chunk is absorbed.
Absorbs(ins) ==
  /\ Accepted(ins)
  /\ IF inbox.p1 = 0 THEN inbox.path \in Key
                       ELSE context.req = "CONFIRM_TRANSACTION"

\* Both hashes live in the same union; a chunk that goes into the other one's
\* state leaves a value that is neither hash of anything.
Hash(c, alg, data) ==
  [c EXCEPT !.hashed = @ \o data, !.alg = IF @ = alg THEN alg ELSE "mixed"]

\* A chunk may find raw_tx too full of what the parser has not consumed, if it
\* is not the first.  Nothing of it is taken in.
SignTxTooLong ==
  /\ Take
  /\ Absorbs("SIGN_TX")
  /\ inbox.p1 = 1
  /\ Answer(Status("WRONG_TX_LENGTH"), context)

\* What transaction_deserialize may say once c has taken the chunk in.  A
\* parser that is aligned tells a complete transaction from its beginnings;
\* one that has finished finds the chunk left over; one that is scrambled
\* reads old bytes as new fields and may find anything.
ParseStatus(c) ==
  IF c.parse = "scrambled" THEN {"OK", "PARTIAL", "ERROR"}
  ELSE IF c.parse = "done" THEN {"ERROR"}
  ELSE IF c.hashed \in Tx THEN {"OK"}
  ELSE IF \E t \in Tx : IsStrictPrefix(c.hashed, t) THEN {"PARTIAL"}
  ELSE {"ERROR"}

\* The transactions the parsed fields may amount to.
ParsedTx(c) == IF c.parse = "scrambled" THEN Tx ELSE {c.hashed}

TxChunk == Hash(Session(inbox, "sha256"), "sha256", inbox.data)

SignTxMore ==
  /\ Take
  /\ Absorbs("SIGN_TX")
  /\ inbox.more /\ "PARTIAL" \in ParseStatus(TxChunk)
  /\ Answer(Status("OK"), TxChunk)

\* The chunk that should have been the last is not, or the parser objects:
\* raw_tx is left as it is and the session stays open.
SignTxFail ==
  /\ Take
  /\ Absorbs("SIGN_TX")
  /\ \/ "ERROR" \in ParseStatus(TxChunk)
     \/ ~inbox.more /\ "PARTIAL" \in ParseStatus(TxChunk)
  /\ Answer(Status("TX_PARSING_FAIL"),
            [TxChunk EXCEPT !.parse = IF @ = "done" THEN @ ELSE "scrambled"])

\* Whether __init refuses the type of t; and if it never did.
DisplayedAlways(t) == FALSE
NotDisplayable(t) == t \in Blind /\ ~storage.dataAllowed

\* STATE_PARSED and the digest, whatever p2 said; then ui_display_sign_tx.
SignTxDone ==
  /\ Take
  /\ Absorbs("SIGN_TX")
  /\ "OK" \in ParseStatus(TxChunk)
  /\ LET c == [TxChunk EXCEPT !.state = "STATE_PARSED", !.parse = "done",
                 !.digest = [alg |-> TxChunk.alg, len |-> 0,
                             data |-> TxChunk.hashed]]
     IN \E t \in ParsedTx(TxChunk) :
          IF NotDisplayable(t)
          THEN Show([kind |-> "notBlind", tx |-> t], c)
          ELSE \/ Show([kind |-> "transaction", tx |-> t], c)
               \* a contract call reads its address before the flow is opened;
               \* by then the steps and the callback of an open review are its own
               \/ /\ t \in Unshowable
                  /\ Throw(c, IF screen.kind \in {"pubkey", "transaction"}
                              THEN [kind |-> "transaction", tx |-> t]
                              ELSE screen)

---------------------------------------------------------------------------
(* SIGN_NS.                                                                 *)

\* The chunk is hashed and counted before the lengths are compared.
NsChunk ==
  LET s == Session(inbox, "keccak")
      n == Len(inbox.data)
  IN [Hash(s, "keccak", inbox.data) EXCEPT
        !.parse = IF @ = "done" THEN @ ELSE "scrambled",
        !.left = IF n > s.left THEN -1 ELSE s.left - n]

\* If a message that is shorter than announced counted as complete.
LengthVerdictLax(c) ==
  IF c.alg # "keccak" THEN {"over", "exact", "under"}
  ELSE IF c.left = -1 THEN {"over"} ELSE {"exact"}

\* The comparison of message_len with raw_tx_len.  After SIGN_TX chunks they
\* count the bytes of a transaction and what the parser left of them.
LengthVerdict(c) ==
  IF c.alg # "keccak" THEN {"over", "exact", "under"}
  ELSE IF c.left = -1 THEN {"over"}
  ELSE IF c.left = 0 THEN {"exact"}
  ELSE {"under"}

SignNsRefuse ==
  /\ Take
  /\ Absorbs("SIGN_NS")
  /\ \/ /\ "over" \in LengthVerdict(NsChunk)
        /\ Answer(Status("WRONG_TX_LENGTH"), NsChunk)
     \/ /\ "under" \in LengthVerdict(NsChunk) /\ ~inbox.more
        /\ Answer(Status("TX_PARSING_FAIL"), NsChunk)

SignNsMore ==
  /\ Take
  /\ Absorbs("SIGN_NS")
  /\ inbox.more /\ LengthVerdict(NsChunk) # {"over"}
  /\ Answer(Status("OK"), NsChunk)

\* If crypto_sign_message took the state of the hash for the hash.
SignState(c) == [c EXCEPT !.sig = [key |-> c.key, digest |-> c.hashed]]

\* crypto_sign_message: the signature of the digest under the key, or an error.
Sign(c) == [c EXCEPT !.sig = [key |-> c.key, digest |-> c.digest]]

\* The last chunk is signed at once; the handler returns 0 whatever
\* io_send_response returned.
SignNsDone ==
  /\ Take
  /\ Absorbs("SIGN_NS")
  /\ ~inbox.more /\ "exact" \in LengthVerdict(NsChunk)
  /\ LET c == [NsChunk EXCEPT !.state = "STATE_PARSED",
                 !.digest = [alg |-> NsChunk.alg, len |-> NsChunk.messageLen,
                             data |-> NsChunk.hashed]]
     IN \/ Return([SendResponse(Woken, SigReply(NoKey, Sign(c).sig))
                     EXCEPT !.ret = 0], Sign(c), screen)
        \/ Return([SendResponse(Woken, Status("SIGNATURE_FAIL"))
                     EXCEPT !.ret = 0], c, screen)

Handle ==
  \/ BadFrame \/ Refuse \/ GetVersion \/ GetPublicKey
  \/ BadPath \/ BadState
  \/ SignTxTooLong \/ SignTxMore \/ SignTxFail \/ SignTxDone
  \/ SignNsRefuse \/ SignNsMore \/ SignNsDone

---------------------------------------------------------------------------
(* The user.  A callback runs inside io_exchange, sends its reply on the     *)
(* channel as it finds it, and shows the menu; CallbackStaying would not.   *)

CallbackStaying(kind, r, c) ==
  LET ch == SendResponse(Here, r) IN
  /\ screen.kind = kind
  /\ ioState' = ch.state
  /\ output' = ch.output
  /\ Deliver(ch.sent)
  /\ context' = c
  /\ UNCHANGED <<screen, site, storage, inbox, sent>>

Callback(kind, r, c) ==
  LET ch == SendResponse(Here, r) IN
  /\ screen.kind = kind
  /\ ioState' = ch.state
  /\ output' = ch.output
  /\ Deliver(ch.sent)
  /\ context' = c
  /\ screen' = Menu
  /\ UNCHANGED <<site, storage, inbox, sent>>

ApprovePubkey == Callback("pubkey", KeyReply(context.key), context)
RejectPubkey == Callback("pubkey", Status("DENY"), context)
DenyNotBlind == Callback("notBlind", Status("NOT_SIGNATURE_FAIL"), context)

\* If a signature that fails went without a reply.
AcceptTxSilent ==
  LET c == [context EXCEPT !.state = "STATE_APPROVED"] IN
  \/ Callback("transaction", SigReply(c.key, Sign(c).sig), Sign(c))
  \/ /\ screen.kind = "transaction" /\ screen' = Menu
     /\ UNCHANGED <<io, context, storage, inbox, host>>

\* validate_transaction looks at nothing but the choice.
AcceptTx ==
  LET c == [context EXCEPT !.state = "STATE_APPROVED"] IN
  \/ Callback("transaction", SigReply(c.key, Sign(c).sig), Sign(c))
  \/ Callback("transaction", Status("SIGNATURE_FAIL"),
              [c EXCEPT !.state = "STATE_NONE"])

RejectTx ==
  Callback("transaction", Status("DENY"), [context EXCEPT !.state = "STATE_NONE"])

Decide == ApprovePubkey \/ RejectPubkey \/ DenyNotBlind \/ AcceptTx \/ RejectTx

\* The page with the address that does not fit: the exception unwinds to
\* app_main, which replies and waits for a command; the review stays open.
PageThrows ==
  /\ screen.kind = "transaction" /\ screen.tx \in Unshowable
  /\ Resume(SendResponse(Here, Status("EXCEPTION")))
  /\ UNCHANGED <<context, screen, storage, inbox, sent>>

OpenSettings ==
  /\ screen.kind = "menu" /\ site # "off"
  /\ screen' = [Menu EXCEPT !.kind = "settings"]
  /\ UNCHANGED <<io, context, storage, inbox, host>>

CloseSettings ==
  /\ screen.kind = "settings"
  /\ screen' = Menu
  /\ UNCHANGED <<io, context, storage, inbox, host>>

SwitchBlindSigning ==
  /\ screen.kind = "settings"
  /\ storage' = [storage EXCEPT !.dataAllowed = ~@]
  /\ UNCHANGED <<io, context, screen, inbox, host>>

---------------------------------------------------------------------------
(* The system: the application is started, reset or left.  The host sees    *)
(* the connection go.                                                       *)

Disconnect ==
  /\ pending' = NoCommand /\ inbox' = NoCommand
  /\ answer' = NoAnswer /\ sent' = NoSession

Launch == site = "off" /\ Restart /\ Disconnect

IoReset == site # "off" /\ Restart /\ Disconnect

Quit ==
  /\ site # "off" /\ screen.kind = "menu"
  /\ ioState' = "READY" /\ output' = NoReply /\ site' = "off"
  /\ context' = ZeroContext
  /\ Disconnect
  /\ UNCHANGED <<screen, storage>>

---------------------------------------------------------------------------
(* The host.  It sends one command at a time, starts a signing session with *)
(* chunk 0 and goes on with it only while the replies are empty successes.  *)
(* Each liberty lifts one of these rules: an impatient host gives a command *)
(* up, a malformed one sends commands with defects and bad paths, a         *)
(* disordered one sends any chunk at any time.                              *)

HostMay(what) == what \in Liberties

Continuing(ins) ==
  /\ answer # NoAnswer /\ answer.reply = Status("OK")
  /\ answer.cmd # NoCommand
  /\ answer.cmd.ins = ins /\ answer.cmd.more

\* The path of a command that names none.
AnyKey == CHOOSE k \in Key : TRUE

Paths == IF HostMay("malformed") THEN Path ELSE Key

FirstChunks ==
  {Cmd("SIGN_TX", 0, more, path, 0, data) :
     more \in BOOLEAN, path \in Paths, data \in Chunk}
  \cup
  {Cmd("SIGN_NS", 0, more, path, len, data) :
     more \in BOOLEAN, path \in Paths, len \in 0 .. MaxLen, data \in Chunk}

LaterChunks ==
  {Cmd(ins, 1, more, AnyKey, 0, data) :
     ins \in Signing, more \in BOOLEAN, data \in Chunk \ {<<>>}}

OtherCommands ==
  {Cmd("GET_CONFIGURATION", 0, FALSE, AnyKey, 0, <<>>)}
  \cup
  {Cmd("GET_PUBLIC_KEY", p1, FALSE, path, 0, <<>>) :
     p1 \in {0, 1}, path \in Paths}

DefectiveCommands ==
  {[Cmd("SIGN_TX", 1, TRUE, AnyKey, 0, <<>>)
      EXCEPT !.defects = {d}] : d \in Defect}

Sendable ==
  OtherCommands \cup FirstChunks
  \cup {c \in LaterChunks : /\ Continuing(c.ins) \/ HostMay("disordered")
                            /\ Len(sent.data) < MaxPieces
                            /\ Len(context.hashed) < MaxPieces}
  \cup (IF HostMay("malformed") THEN DefectiveCommands ELSE {})

\* What the host has sent in the session, once it has sent c.
SentWith(c) ==
  IF c.ins \notin Signing THEN NoSession
  ELSE IF c.p1 = 0 THEN [path |-> c.path, len |-> c.len, data |-> c.data]
  ELSE [sent EXCEPT !.data = @ \o c.data]

Send(c) ==
  /\ pending = NoCommand /\ inbox = NoCommand /\ site # "off"
  /\ pending' = c /\ inbox' = c
  /\ answer' = NoAnswer
  /\ sent' = SentWith(c)
  /\ UNCHANGED <<io, context, screen, storage>>

GiveUp ==
  /\ HostMay("impatient")
  /\ pending # NoCommand /\ inbox = NoCommand
  /\ pending' = NoCommand /\ answer' = NoAnswer
  /\ UNCHANGED <<io, context, screen, storage, inbox, sent>>

---------------------------------------------------------------------------

Init ==
  /\ ioState = "READY" /\ output = NoReply /\ site = "off"
  /\ context = ZeroContext
  /\ screen = Menu
  /\ storage \in [initialized : {FALSE}, dataAllowed : BOOLEAN]
  /\ pending = NoCommand /\ inbox = NoCommand
  /\ answer = NoAnswer /\ sent = NoSession

User == Decide \/ PageThrows \/ OpenSettings \/ CloseSettings \/ SwitchBlindSigning
System == Launch \/ IoReset \/ Quit
Host == GiveUp \/ \E c \in Sendable : Send(c)

Next == Handle \/ User \/ System \/ Host

\* The application handles a command it has been sent, and the user answers
\* the question on the screen; nothing obliges anyone else.
Fairness == WF_vars(Handle) /\ WF_vars(Decide)

Spec == Init /\ [][Next]_vars /\ Fairness

---------------------------------------------------------------------------
(* Properties.                                                              *)

\* The reply channel, for any host (io.c): a reply is staged at rest only by a
\* callback that found the program waiting for a new command, and the state
\* in which io_recv_command would fail is never the one a handler leaves.
ChannelOK ==
  /\ output # NoReply => ioState = "READY" /\ site = "sync"
  /\ site = "sync" => ioState \in {"RECEIVED", "READY"}
  /\ site = "async" => ioState \in {"WAITING", "READY"}

\* A command that the application has read and not answered is one the user
\* is being asked about, and every question on the screen belongs to such a
\* command: no command is forgotten, and no question outlives its command
\* (io.c with the ui_display_* and validate_* functions).
DecisionAwaited ==
  /\ pending # NoCommand /\ inbox = NoCommand <=> screen.kind \in Decision
  /\ screen.kind \in Decision => site = "async" /\ ioState = "WAITING"

\* A review of a transaction the application cannot display is opened only
\* while blind signing is enabled, and stays open only as long as it is,
\* for any host (__init in bagl_display.c, menu_bagl.c).
BlindNeedsSetting ==
  screen.kind = "transaction" /\ screen.tx \in Blind => storage.dataAllowed

\* The signature the user gives on the review of a transaction is over that
\* transaction: what was hashed chunk by chunk is what was parsed for the
\* screen (sign_tx.c, validate.c).
SignedIsReviewed ==
  [][screen.kind = "transaction" /\ context'.sig # context.sig
       /\ context'.sig # NoSig
     => /\ context'.sig.digest.alg = "sha256"
        /\ context'.sig.digest.data = screen.tx]_vars

\* A signature made while a command is being handled, without a question to
\* the user, is over a personal message: a keccak digest that begins with the
\* magic string and announces the length of what follows (sign_ns.c).
UnreviewedIsPersonal ==
  [][inbox # NoCommand /\ inbox' = NoCommand /\ context'.sig # context.sig /\ context'.sig # NoSig
     => /\ context'.sig.digest.alg = "keccak"
        /\ context'.sig.digest.len = Len(context'.sig.digest.data)]_vars

\* A context becomes approved only if its transaction had been parsed
\* (types.h, state_e; validate_transaction).
ApprovedWasParsed ==
  [][context'.state = "STATE_APPROVED" /\ context.state # "STATE_APPROVED"
     => context.state = "STATE_PARSED"]_vars

\* The blind signing setting survives resets and restarts: only the user
\* changes it, in the settings (main.c, menu_bagl.c).
SettingKept ==
  [][storage'.dataAllowed # storage.dataAllowed
     => screen.kind = "settings" \/ ~storage.initialized]_vars

\* No command is left behind: when the program waits for a new command, the
\* previous one has had its reply (io.c, app_main).
NoCommandForgotten ==
  site = "sync" /\ ioState = "RECEIVED" /\ inbox = NoCommand
    => pending = NoCommand

\* The contract with the host, with its liveness.
Exchange == INSTANCE ApduExchange
ExchangeSpec == Exchange!Spec
=============================================================================
