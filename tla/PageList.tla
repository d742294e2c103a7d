------------------------------ MODULE PageList ------------------------------
(***************************************************************************)
(* What a review looks like to its user: a title, the pages 1 .. length,    *)
(* then the two ways out, one after the other.  The buttons move one place  *)
(* at a time, and the review ends only at one of the ways out.              *)
(***************************************************************************)
EXTENDS Integers

VARIABLES length, pos

Closed == -1
Accept == length + 1
Reject == length + 2

Init == length \in Nat /\ pos = Closed

Open == pos = Closed /\ length' \in Nat /\ pos' = 0
Forward == pos \in 0 .. length + 1 /\ pos' = pos + 1 /\ UNCHANGED length
Backward == pos \in 1 .. length + 2 /\ pos' = pos - 1 /\ UNCHANGED length
\* length means nothing while the review is closed.
Decide == pos \in {Accept, Reject} /\ pos' = Closed /\ length' \in Nat

Next == Open \/ Forward \/ Backward \/ Decide

Spec == Init /\ [][Next]_<<length, pos>>
=============================================================================
