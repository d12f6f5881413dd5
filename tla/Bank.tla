-------------------------------- MODULE Bank --------------------------------
(***************************************************************************)
(* What the ftx programs promise: transfers between accounts, one after    *)
(* the other, each computed from the balances it finds.  Threads, locks,   *)
(* the cache and the file do not appear.                                   *)
(***************************************************************************)
EXTENDS Integers

CONSTANTS
  Accounts,
  Amounts,      (* amounts a thread may want to transfer                   *)
  MaxBalance,   (* 9999999, seven digits                                   *)
  Opening       (* the balances in the beginning                           *)

VARIABLE balance

Lesser(m, n) == IF m < n THEN m ELSE n

(* What a transfer of m moves: no more than there is, no more than fits.   *)
(* Mutant: the receiver's balance may outgrow its field.                   *)
DeltaUncapped(from, to, m) == Lesser(from, m)

Delta(from, to, m) == Lesser(Lesser(from, m), MaxBalance - to)

Init == balance = Opening

Transfer(a, b, m) ==
  LET d == Delta(balance[a], balance[b], m)
  IN  balance' = [balance EXCEPT ![a] = @ - d, ![b] = @ + d]

Next == \E a, b \in Accounts : a # b /\ \E m \in Amounts : Transfer(a, b, m)

Spec == Init /\ [][Next]_balance

=============================================================================
