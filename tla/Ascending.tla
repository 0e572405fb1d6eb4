------------------------------ MODULE Ascending ------------------------------
(***************************************************************************)
(* Loops of the call manager that go through a container in order and pick *)
(* some of its entries are modelled by the sequence of the picked          *)
(* positions.  It is what SelectSeq computes, written as a function that   *)
(* recurs on the number of entries gone through, about which the proof     *)
(* system can reason (see AscendingProofs).                                *)
(***************************************************************************)
EXTENDS Naturals, Sequences

\* The members of S among 1..n, in increasing order.
Ascending(S, n) ==
    LET upTo[k \in 0..n] ==
            IF k = 0 THEN <<>>
            ELSE IF k \in S THEN Append(upTo[k - 1], k)
            ELSE upTo[k - 1]
    IN upTo[n]
=============================================================================
