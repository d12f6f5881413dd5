-------------------------------- MODULE Heap --------------------------------
(***************************************************************************)
(* What an allocator of blocks promises: a block that is handed out lies   *)
(* in the buffer, is aligned and shares no byte with another; its bytes    *)
(* change only when its owner stores; a resized block keeps what fits; and *)
(* a pointer that was freed is known as such until it is handed out again. *)
(***************************************************************************)
EXTENDS Integers, FiniteSets

CONSTANTS Align, Size, Bytes, Outside

VARIABLES
  live,       (* live[p]: the bytes of the block at p                      *)
  dead,       (* pointers that were freed and not handed out since         *)
  stopped     (* why the program was ended, and over which pointer         *)

vars == <<live, dead, stopped>>

Init ==
  live = << >> /\ dead = {} /\ stopped = [kind |-> "none", ptr |-> Outside]

(* Bytes that the block at p of f occupies; an empty block has its pointer *)
(* for itself.                                                             *)
Span(f, p) ==
  LET n == Cardinality(DOMAIN f[p]) IN p..(p + IF n = 0 THEN 0 ELSE n - 1)

Others(f, p) == [q \in DOMAIN f \ {p} |-> f[q]]

(* Nothing but the block at p has changed. *)
Only(p) == Others(live', p) = Others(live, p)

Handed(p) ==
  /\ p \in DOMAIN live' \ DOMAIN live
  /\ p % Align = 0 /\ Span(live', p) \subseteq 0..(Size - 1)
  /\ \A q \in DOMAIN live : Span(live, q) \cap Span(live', p) = {}

Malloc(p) ==
  Handed(p) /\ Only(p) /\ dead' = dead \ {p} /\ UNCHANGED stopped

Free(p) ==
  /\ p \in DOMAIN live /\ live' = Others(live, p)
  /\ dead' = dead \cup {p} /\ UNCHANGED stopped

(* d begins with the bytes of c. *)
Prefix(c, d) == DOMAIN c \subseteq DOMAIN d /\ \A i \in DOMAIN c : d[i] = c[i]

Grow(p, q) ==
  /\ p \in DOMAIN live /\ Handed(q)
  /\ Prefix(live[p], live'[q])
  /\ Others(live', q) = Others(live, p)
  /\ dead' = (dead \cup {p}) \ {q} /\ UNCHANGED stopped

Shrink(p) ==
  /\ p \in DOMAIN live \cap DOMAIN live'
  /\ Prefix(live'[p], live[p]) /\ Only(p)
  /\ UNCHANGED <<dead, stopped>>

Write(p) ==
  /\ p \in DOMAIN live
  /\ \E v \in Bytes : live' = [live EXCEPT ![p] = [i \in DOMAIN @ |-> v]]
  /\ UNCHANGED <<dead, stopped>>

(* The program ends: p is no block, and it is known whether it was one, or *)
(* p is a block that was written behind.                                   *)
Stop(p) ==
  /\ \E k \in {"double free", "not in heap", "not allocated", "inside",
               "undefined", "wild write"} :
       /\ stopped' = [kind |-> k, ptr |-> p]
       /\ k = "wild write" <=> p \in DOMAIN live
       /\ k = "double free" <=> p \in dead
       /\ k = "inside" =>
            \E q \in DOMAIN live : p # q /\ p \in Span(live, q)
       /\ k = "not allocated" =>
            ~ \E q \in DOMAIN live : p \in Span(live, q)
  /\ UNCHANGED <<live, dead>>

Next ==
  /\ stopped.kind = "none"
  /\ \/ \E p \in 0..(Size - 1) :
          \/ Malloc(p) \/ Free(p) \/ Shrink(p) \/ Write(p)
          \/ \E q \in 0..(Size - 1) : Grow(p, q)
     \/ \E p \in 0..(Size - 1) \cup {Outside} : Stop(p)

Spec == Init /\ [][Next]_vars

=============================================================================
