----------------------------- MODULE TxVerdict -----------------------------
(***************************************************************************)
(* What the parser promises handler_sign_tx, and NulsApp takes for granted: *)
(* its verdict on a chunk depends on what has been sent of the transaction, *)
(* not on how it was cut.  The review opens exactly at the end, more is     *)
(* asked for before the end only, and a transaction is refused if it is too *)
(* long, incomplete at the last chunk, or needs more memory than there is.  *)
(***************************************************************************)
EXTENDS Integers

CONSTANTS
  Shapes,          \* the transactions
  Size(_),         \* how long one is
  Reviewable(_)    \* whether there is memory for it

VARIABLES
  shape,    \* the transaction that is sent
  given,    \* how much of it has been
  more,     \* whether the last chunk announced another one
  phase     \* "idle" when the host is to go on

session == <<shape, given, more, phase>>

Init == shape \in Shapes /\ given = 0 /\ more = TRUE /\ phase = "idle"

\* The reasons to refuse a session with these values.
MayRefuse(n, m) ==
  \/ n < Size(shape) /\ ~m
  \/ n > Size(shape)
  \/ ~Reviewable(shape)

\* A chunk arrives; it may be refused before it has been looked at.
Give ==
  /\ phase = "idle"
  /\ given' \in Nat /\ given' >= given /\ more' \in BOOLEAN
  /\ \/ phase' = "parsing"
     \/ phase' = "failed" /\ MayRefuse(given', more')
  /\ UNCHANGED shape

Accept == given = Size(shape) /\ phase' = "done"
AskForMore == given < Size(shape) /\ more /\ phase' = "idle"
Refuse == MayRefuse(given, more) /\ phase' = "failed"

\* The verdict on the chunk.
Conclude ==
  /\ phase = "parsing"
  /\ Accept \/ AskForMore \/ Refuse
  /\ UNCHANGED <<shape, given, more>>

NewSession ==
  /\ phase \in {"done", "failed"}
  /\ shape' \in Shapes /\ given' = 0 /\ more' = TRUE /\ phase' = "idle"

Next == Give \/ Conclude \/ NewSession

\* Every chunk gets its verdict.
Spec == Init /\ [][Next]_session /\ WF_session(Conclude)
=============================================================================
