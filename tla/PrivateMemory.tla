---------------------------- MODULE PrivateMemory ----------------------------
(***************************************************************************)
(* What the kernel promises each process: a memory of its own.  Only the   *)
(* process itself changes it, by storing, mapping zeroed pages and         *)
(* unmapping pages; a forked child starts with a copy of its parent's      *)
(* memory.  Physical pages, sharing and copy-on-write do not appear.       *)
(***************************************************************************)
CONSTANTS Procs, Addrs, Values, Zero, Unmapped

VARIABLES
  alive,    (* processes that exist                                        *)
  mem       (* mem[p][a]: what p reads at a, or Unmapped                   *)

vars == <<alive, mem>>

Mapped(p)   == {a \in Addrs : mem[p][a] # Unmapped}
UnmappedAll == [a \in Addrs |-> Unmapped]

Init ==
  /\ alive \subseteq Procs
  /\ \E S \in SUBSET Addrs :
       mem = [p \in Procs |-> IF p \in alive
                              THEN [a \in Addrs |-> IF a \in S THEN Zero ELSE Unmapped]
                              ELSE UnmappedAll]

Store(p, a, v) ==
  /\ p \in alive /\ a \in Mapped(p)
  /\ mem' = [mem EXCEPT ![p][a] = v]
  /\ UNCHANGED alive

Map(p, S) ==
  /\ p \in alive /\ S \cap Mapped(p) = {}
  /\ mem' = [mem EXCEPT ![p] = [a \in Addrs |-> IF a \in S THEN Zero ELSE @[a]]]
  /\ UNCHANGED alive

Unmap(p, S) ==
  /\ p \in alive
  /\ mem' = [mem EXCEPT ![p] = [a \in Addrs |-> IF a \in S THEN Unmapped ELSE @[a]]]
  /\ UNCHANGED alive

Fork(p, c) ==
  /\ p \in alive /\ c \notin alive
  /\ alive' = alive \cup {c}
  /\ mem' = [mem EXCEPT ![c] = mem[p]]

Die(p) ==
  /\ p \in alive
  /\ alive' = alive \ {p}
  /\ mem' = [mem EXCEPT ![p] = UnmappedAll]

Next ==
  \E p \in Procs :
    \/ \E a \in Addrs, v \in Values : Store(p, a, v)
    \/ \E S \in SUBSET Addrs : Map(p, S) \/ Unmap(p, S)
    \/ \E c \in Procs : Fork(p, c)
    \/ Die(p)

Spec == Init /\ [][Next]_vars

=============================================================================
