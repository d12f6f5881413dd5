---------------------------- MODULE RegionLocks ----------------------------
(***************************************************************************)
(* What the file locks of io61 promise their callers: a lock covers a      *)
(* range of bytes, and no two threads hold locks that have a byte in       *)
(* common.  Chunks, counts, waiting and waking do not appear.              *)
(***************************************************************************)
EXTENDS Integers

CONSTANT Locks    (* locks threads may take: thread, start, len, ...       *)

VARIABLE held     (* the locks that are held                               *)

Bytes(l) == l.start..(l.start + l.len - 1)

Conflict(l, k) == l.thread # k.thread /\ Bytes(l) \cap Bytes(k) # {}

Init == held = {}

Acquire(l) ==
  /\ l \notin held
  /\ \A k \in held : ~Conflict(l, k)
  /\ held' = held \cup {l}

Release(l) ==
  /\ l \in held
  /\ held' = held \ {l}

Next == \E l \in Locks : Acquire(l) \/ Release(l)

Spec == Init /\ [][Next]_held

=============================================================================
