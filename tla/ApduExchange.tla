---------------------------- MODULE ApduExchange ----------------------------
(***************************************************************************)
(* What the application promises the host: every command gets one reply,    *)
(* no reply comes unasked, and the reply is one that fits the command and   *)
(* the chunks of the session it belongs to.  In particular a signature is   *)
(* over exactly the chunks the host sent, in order, under the key of the    *)
(* path it named.                                                           *)
(***************************************************************************)
EXTENDS AppData

VARIABLES pending, answer, sent

exchange == <<pending, answer, sent>>

\* The digest SIGN_TX signs and the one SIGN_NS signs.
TxDigest(data) == [alg |-> "sha256", len |-> 0, data |-> data]
NsDigest(len, data) == [alg |-> "keccak", len |-> len, data |-> data]

Signed(key, digest) == [key |-> key, digest |-> digest]

ErrorReplies == {Status(e) : e \in Errors}

\* The replies that fit command c in a session in which the host sent s.
Fitting(c, s) ==
  IF ~Framed(c) THEN {Status("WRONG_DATA_LENGTH")}
  ELSE IF Refusal(c) # "none" THEN {Status(Refusal(c))}
  ELSE CASE c.ins = "GET_CONFIGURATION" -> {Status("OK")}
         [] c.ins = "GET_PUBLIC_KEY" ->
              {KeyReply(c.path)} \cup (IF c.p1 = 1 THEN {Status("DENY")} ELSE {})
         [] c.ins = "SIGN_TX" ->
              ErrorReplies
              \cup (IF c.more THEN {Status("OK")} ELSE {})
              \cup (IF s.data \in Tx
                    THEN {SigReply(s.path, Signed(s.path, TxDigest(s.data)))}
                    ELSE {})
         [] c.ins = "SIGN_NS" ->
              ErrorReplies
              \cup (IF c.more THEN {Status("OK")}
                    ELSE IF Len(s.data) = s.len
                    THEN {SigReply(NoKey, Signed(s.path, NsDigest(s.len, s.data)))}
                    ELSE {})

NoAnswer == [cmd |-> NoCommand, reply |-> NoReply]

Init ==
  /\ pending = NoCommand /\ answer = NoAnswer
  /\ sent = [path |-> NoKey, len |-> 0, data |-> <<>>]

Send ==
  /\ pending = NoCommand
  /\ pending' \in Command
  /\ answer' = NoAnswer
  /\ sent' = IF pending'.ins \notin Signing
             THEN [path |-> NoKey, len |-> 0, data |-> <<>>]
             ELSE IF pending'.p1 = 0
             THEN [path |-> pending'.path, len |-> pending'.len,
                   data |-> pending'.data]
             ELSE [sent EXCEPT !.data = @ \o pending'.data]

GetReply ==
  /\ pending # NoCommand
  /\ \E r \in Fitting(pending, sent) : answer' = [cmd |-> pending, reply |-> r]
  /\ pending' = NoCommand
  /\ UNCHANGED sent

\* The connection goes: nobody owes anybody anything.
Disconnect ==
  /\ pending' = NoCommand /\ answer' = NoAnswer
  /\ sent' = [path |-> NoKey, len |-> 0, data |-> <<>>]

Next == Send \/ GetReply \/ Disconnect

Spec == Init /\ [][Next]_exchange /\ WF_exchange(GetReply)
=============================================================================
