----------------------------- MODULE MCTransfers -----------------------------
(* Three accounts of four bytes: a cache window holds two of them, and the *)
(* two chunks of six bytes meet in the middle of the second record.        *)
EXTENDS Transfers

Unequal == [a \in Accounts |-> a]
=============================================================================
