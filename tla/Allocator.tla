------------------------------ MODULE Allocator ------------------------------
(***************************************************************************)
(* The debugging allocator of pset1/m61.cc: m61_malloc, m61_free,          *)
(* m61_calloc and m61_realloc over one buffer, with the maps               *)
(* allocated_blocks and free_blocks, the set freed of pointers, the        *)
(* statistics, and the marker bytes behind each block by which a write     *)
(* beyond its end is noticed.                                              *)
(*                                                                         *)
(* A pointer into the buffer is its position (ptoi); any other pointer is  *)
(* Outside.  The client is part of the model: it stores into its blocks,   *)
(* sometimes beyond their end, and frees pointers that are not its own.    *)
(* The calls work on a record, the heap, because m61_realloc calls         *)
(* m61_malloc and m61_free.                                                *)
(***************************************************************************)
EXTENDS Integers, FiniteSets, FiniteSetsExt

CONSTANTS
  Align,      (* ALIGNMENT, 16 in the code                                 *)
  Size,       (* default_buffer.size, 8 MiB in the code                    *)
  Requests,   (* sizes that clients ask m61_malloc and m61_realloc for     *)
  Arrays,     (* pairs of a count and a size given to m61_calloc           *)
  Bytes,      (* what a byte of the buffer may hold                        *)
  Marker,     (* MARKER, '!'                                               *)
  Zero,       (* the byte 0                                                *)
  Outside,    (* a pointer that is not into the buffer                     *)
  Strays,     (* pointers that clients may give to m61_free by mistake     *)
  MaxTotal,   (* bound on the number of allocations                        *)
  MaxFail     (* bound on the number of allocations that fail              *)

ASSUME AllocatorAssumption ==
  /\ Align \in Nat \ {0} /\ Size \in Nat \ {0} /\ Size % Align = 0
  /\ Requests \subseteq Nat /\ Arrays \subseteq Nat \X Nat
  /\ {Marker, Zero} \subseteq Bytes /\ Marker # Zero
  /\ Outside \notin Int /\ Strays \subseteq (0..(Size - 1)) \cup {Outside}
  /\ MaxTotal \in Nat /\ MaxFail \in Nat

Positions == 0..(Size - 1)

VARIABLES
  heap,       (* the record of                                             *)
              (*   blocks  allocated_blocks: start -> [sz, pad], where pad *)
              (*           is the metadata's alignment_sz                  *)
              (*   free    free_blocks: start -> length                    *)
              (*   freed   pointers freed and not returned again since     *)
              (*   mem     the bytes of the buffer                         *)
              (*   lost    history: bytes that shrinking took from blocks  *)
              (*           and gave to nobody                              *)
  stats,      (* global_stats, heap_min and heap_max as positions; without *)
              (* the two sums that are only ever added to                  *)
  smashed,    (* history: blocks the client has written behind             *)
  report      (* memory bug that ended the program: its kind, "none" while *)
              (* it runs, "undefined" for the decrement of begin(); and    *)
              (* the pointer it is about                                   *)

vars == <<heap, stats, smashed, report>>

Span(from, n) == from..(from + n - 1)

(* The bytes of block b of h with its padding, and of free block f.        *)
Extent(h, b) == Span(b, h.blocks[b].sz + h.blocks[b].pad)
Room(h, f) == Span(f, h.free[f])

Init ==
  /\ heap = [blocks |-> << >>, free |-> [p \in {0} |-> Size], freed |-> {},
             mem |-> [i \in Positions |-> Zero], lost |-> {}]
  /\ stats = [nactive |-> 0, ntotal |-> 0, nfail |-> 0,
              active_size |-> 0, heap_min |-> 0, heap_max |-> 0]
  /\ smashed = {}
  /\ report = [kind |-> "none", ptr |-> Outside]

Running == report.kind = "none"

-----------------------------------------------------------------------------
(* A function f with x mapped to y, and without the elements of X.         *)
With(f, x, y) == [z \in DOMAIN f \cup {x} |-> IF z = x THEN y ELSE f[z]]
Less(f, X) == [z \in DOMAIN f \ X |-> f[z]]

Fill(m, S, v) == [i \in Positions |-> IF i \in S THEN v ELSE m[i]]

(* One more Align where the size is a multiple of it, so that every block  *)
(* has a marker byte.                                                      *)
Extra(sz) == IF sz % Align = 0 THEN Align ELSE 0

(* Bytes from the end of a block of sz bytes at p to the next multiple.    *)
Rounding(p, sz) == (Align - ((p + sz) % Align)) % Align

(* alignment_sz.  Mutant: Rounding alone.                                  *)
Padding(p, sz) == Rounding(p, sz) + Extra(sz)

(* The free blocks that the loop of m61_malloc accepts: the test leaves    *)
(* out the padding that rounds a size up.                                  *)
(* Mutant: it leaves out the extra padding, too.                           *)
FitsTight(h, sz) == {b \in DOMAIN h.free : sz < Size /\ h.free[b] >= sz}

Fits(h, sz) == {b \in DOMAIN h.free : sz < Size /\ h.free[b] >= sz + Extra(sz)}

(* m61_malloc takes the first free block that fits, and what it leaves of  *)
(* it stays free.                                                          *)
Taken(h, sz) ==
  LET b   == Min(Fits(h, sz))
      pad == Padding(b, sz)
      end == b + sz + pad
      cut == Less(h.free, {b})
  IN  [h EXCEPT !.blocks = With(@, b, [sz |-> sz, pad |-> pad]),
                !.free = IF end < b + h.free[b]
                         THEN With(cut, end, b + h.free[b] - end) ELSE cut,
                !.freed = @ \ {b},
                !.mem = Fill(@, Span(b + sz, pad), Marker),
                !.lost = @ \ Span(b, sz + pad)]

(* Mutant: heap_max is where the last block begins.                        *)
CountedStart(s, b, sz) ==
  [s EXCEPT !.nactive = @ + 1, !.ntotal = @ + 1, !.active_size = @ + sz,
            !.heap_max = Max({@, b})]

Counted(s, b, sz) ==
  [s EXCEPT !.nactive = @ + 1, !.ntotal = @ + 1,
            !.active_size = @ + sz,
            !.heap_min = IF s.ntotal = 0 THEN b ELSE Min({@, b}),
            !.heap_max = IF s.ntotal = 0 THEN b + sz ELSE Max({@, b + sz})]

Refused(s) == [s EXCEPT !.nfail = @ + 1]

(* m61_free merges the block at p with the next free block if that begins  *)
(* where p ends, and then the previous free block with p.                  *)
Following(f, p) == {q \in DOMAIN f : q > p /\ \A r \in DOMAIN f : r > p => q <= r}
Preceding(f, p) == {q \in DOMAIN f : q < p /\ \A r \in DOMAIN f : r < p => r <= q}

MergeRight(f, p) ==
  LET R == {q \in Following(f, p) : q - p = f[p]}
  IN  Less([f EXCEPT ![p] = @ + IF R = {} THEN 0 ELSE f[Min(R)]], R)

(* Mutant: the previous block is not looked at.                            *)
MergeNothing(f, p) == f

MergeLeft(f, p) ==
  LET L == {q \in Preceding(f, p) : p - q = f[q]}
  IN  IF L = {} THEN f ELSE Less([f EXCEPT ![Min(L)] = @ + f[p]], {p})

Coalesce(f, p) == MergeLeft(MergeRight(f, p), p)

Given(h, p) ==
  [h EXCEPT !.blocks = Less(@, {p}),
            !.free = Coalesce(With(@, p, h.blocks[p].sz + h.blocks[p].pad), p),
            !.freed = @ \cup {p}]

Discounted(s, sz) ==
  [s EXCEPT !.nactive = @ - 1, !.active_size = @ - sz]

Intact(h, p) ==
  \A i \in Span(p + h.blocks[p].sz, h.blocks[p].pad) : h.mem[i] = Marker

Report(kind, p) ==
  report' = [kind |-> kind, ptr |-> p] /\ UNCHANGED <<heap, stats, smashed>>

-----------------------------------------------------------------------------
(* m61_malloc.  A failure is bounded by MaxFail, a success by MaxTotal.    *)
MallocFails(sz) ==
  /\ Fits(heap, sz) = {} /\ stats.nfail < MaxFail
  /\ stats' = Refused(stats)
  /\ UNCHANGED <<heap, smashed, report>>

MallocFits(sz) ==
  /\ Fits(heap, sz) # {} /\ stats.ntotal < MaxTotal
  /\ heap' = Taken(heap, sz)
  /\ stats' = Counted(stats, Min(Fits(heap, sz)), sz)
  /\ UNCHANGED <<smashed, report>>

Malloc(sz) == Running /\ (MallocFits(sz) \/ MallocFails(sz))

(* m61_calloc. *)
Calloc(count, sz) ==
  /\ Running
  /\ IF count > Size \/ sz > Size
     THEN /\ stats.nfail < MaxFail
          /\ stats' = Refused(stats)
          /\ UNCHANGED <<heap, smashed, report>>
     ELSE \/ MallocFails(count * sz)
          \/ LET n == count * sz IN
             /\ Fits(heap, n) # {} /\ stats.ntotal < MaxTotal
             /\ LET b == Min(Fits(heap, n)) IN
                /\ heap' = [Taken(heap, n) EXCEPT !.mem = Fill(@, Span(b, n), Zero)]
                /\ stats' = Counted(stats, b, n)
             /\ UNCHANGED <<smashed, report>>

(* m61_free of a pointer that is not the start of an active block: the     *)
(* report, then abort().                                                   *)
Below(q) == {b \in DOMAIN heap.blocks : b <= q}

BadFree(q) ==
  /\ Running /\ q \notin DOMAIN heap.blocks
  /\ \/ q \in heap.freed /\ Report("double free", q)
     \/ q \notin heap.freed /\ q \notin Positions /\ Report("not in heap", q)
     \/ /\ q \in Positions \ heap.freed
        /\ IF Below(q) = {} THEN Report("undefined", q)
           ELSE LET b == Max(Below(q)) IN
                Report(IF b + heap.blocks[b].sz > q THEN "inside" ELSE "not allocated", q)

Free(p) ==
  /\ Running /\ p \in DOMAIN heap.blocks
  /\ IF Intact(heap, p)
     THEN /\ heap' = Given(heap, p)
          /\ stats' = Discounted(stats, heap.blocks[p].sz)
          /\ smashed' = smashed \ {p}
          /\ UNCHANGED report
     ELSE Report("wild write", p)

(* m61_realloc of an active block to a size that is not 0 and not larger.  *)
(* alignment_sz would grow by the difference, but sz has been overwritten  *)
(* before the difference is taken: the bytes are nobody's from then on.    *)
(* Mutant: the marker stays where it was.                                  *)
ShrunkUnmarked(h, p, sz) ==
  [h EXCEPT !.blocks[p].sz = sz,
            !.lost = @ \cup Span(p + sz + h.blocks[p].pad, h.blocks[p].sz - sz)]

Shrunk(h, p, sz) ==
  [h EXCEPT !.blocks[p].sz = sz,
            !.mem = Fill(@, Span(p + sz, h.blocks[p].pad), Marker),
            !.lost = @ \cup Span(p + sz + h.blocks[p].pad, h.blocks[p].sz - sz)]

Shrink(p, sz) ==
  /\ Running /\ p \in DOMAIN heap.blocks \ DOMAIN heap.free /\ sz \in 1..heap.blocks[p].sz
  /\ heap' = Shrunk(heap, p, sz)
  /\ smashed' = smashed \ {p}
  /\ UNCHANGED <<stats, report>>

(* m61_realloc of an active block to a larger size: m61_malloc, a copy of  *)
(* the old bytes, m61_free.  If that reports a wild write the program ends *)
(* at once, and what m61_malloc has done is not recorded.                  *)
(* Mutant: one byte too few is copied.                                     *)
CopiedShort(h, from, to, n) ==
  [h EXCEPT !.mem = [i \in Positions |->
     IF i \in Span(to, n - 1) THEN @[from + i - to] ELSE @[i]]]

Copied(h, from, to, n) ==
  [h EXCEPT !.mem = [i \in Positions |->
     IF i \in Span(to, n) THEN @[from + i - to] ELSE @[i]]]

Grow(p, sz) ==
  /\ Running /\ p \in DOMAIN heap.blocks \ DOMAIN heap.free /\ sz > heap.blocks[p].sz
  /\ \/ MallocFails(sz)
     \/ /\ Fits(heap, sz) # {} /\ stats.ntotal < MaxTotal
        /\ LET old == heap.blocks[p].sz
               b   == Min(Fits(heap, sz))
           IN  IF Intact(heap, p)
               THEN /\ heap' = Given(Copied(Taken(heap, sz), p, b, old), p)
                    /\ stats' = Discounted(Counted(stats, b, sz), old)
                    /\ smashed' = smashed \ {p}
                    /\ UNCHANGED report
               ELSE Report("wild write", p)

(* The client fills its block with v, or goes one byte too far and         *)
(* overwrites a marker.                                                    *)
Store(p, n, v) ==
  /\ Running /\ p \in DOMAIN heap.blocks /\ v \notin {Marker, Zero}
  /\ heap' = [heap EXCEPT !.mem = Fill(@, Span(p, n), v)]
  /\ smashed' = IF n <= heap.blocks[p].sz THEN smashed ELSE smashed \cup {p}
  /\ UNCHANGED <<stats, report>>

(* m61_realloc of nullptr is m61_malloc; of a block to size 0 it is        *)
(* m61_free; of any other pointer it reports and changes nothing.          *)
Next ==
  \/ \E sz \in Requests : Malloc(sz)
  \/ \E a \in Arrays : Calloc(a[1], a[2])
  \/ \E q \in Strays : BadFree(q)
  \/ \E p \in DOMAIN heap.blocks :
       \/ Free(p)
       \/ \E sz \in Requests : Shrink(p, sz) \/ Grow(p, sz)
       \/ \E v \in Bytes, over \in {0, 1} : Store(p, heap.blocks[p].sz + over, v)

Spec == Init /\ [][Next]_vars

-----------------------------------------------------------------------------
TypeOK ==
  /\ DOMAIN heap.blocks \subseteq Positions
  /\ \A b \in DOMAIN heap.blocks : heap.blocks[b] \in [sz : Nat, pad : Nat \ {0}]
  /\ DOMAIN heap.free \subseteq Positions
  /\ \A f \in DOMAIN heap.free : heap.free[f] \in Nat \ {0}
  /\ heap.freed \subseteq Positions /\ heap.lost \subseteq Positions
  /\ heap.mem \in [Positions -> Bytes]
  /\ smashed \subseteq DOMAIN heap.blocks

(* Every byte of the buffer belongs to one active block, or to one free    *)
(* block, or is one that a shrinking m61_realloc has lost, in every order  *)
(* of calls (m61.cc:87-102, 202-228, 289-295).                             *)
Tiles ==
  /\ (UNION {Extent(heap, b) : b \in DOMAIN heap.blocks})
       \cup (UNION {Room(heap, f) : f \in DOMAIN heap.free}) \cup heap.lost = Positions
  /\ \A b, c \in DOMAIN heap.blocks : b # c => Extent(heap, b) \cap Extent(heap, c) = {}
  /\ \A f, g \in DOMAIN heap.free : f # g => Room(heap, f) \cap Room(heap, g) = {}
  /\ \A b \in DOMAIN heap.blocks : heap.lost \cap Extent(heap, b) = {}
  /\ \A f \in DOMAIN heap.free : heap.lost \cap Room(heap, f) = {}
  /\ \A b \in DOMAIN heap.blocks, f \in DOMAIN heap.free :
       Extent(heap, b) \cap Room(heap, f) = {}

(* Free memory is never split between two blocks that touch, so a request  *)
(* fails only if no stretch of free memory is large enough                 *)
(* (m61.cc:205-228).                                                       *)
Coalesced ==
  \A f, g \in DOMAIN heap.free : f + heap.free[f] # g

(* m61_free reports a wild write of exactly the blocks that were written   *)
(* behind, never of one whose neighbours were used, reallocated or freed   *)
(* (m61.cc:95, 183-195, 295).                                              *)
MarkersIntact ==
  \A p \in DOMAIN heap.blocks : p \in smashed <=> ~Intact(heap, p)

(* The statistics agree with the maps.  active_size may be too large, once *)
(* a block has shrunk (m61.cc:117-129, 198-199).                           *)
StatsCover ==
  LET active == DOMAIN heap.blocks
      sum == MapThenSumSet(LAMBDA b : heap.blocks[b].sz, active)
  IN  /\ stats.nactive = Cardinality(active)
      /\ stats.active_size >= sum
      /\ \A b \in active : /\ stats.heap_min <= b
                           /\ b + heap.blocks[b].sz <= stats.heap_max

Blocks == INSTANCE Heap WITH
  live <- [b \in DOMAIN heap.blocks |->
             [i \in 0..(heap.blocks[b].sz - 1) |-> heap.mem[b + i]]],
  dead <- heap.freed,
  stopped <- report

(* Each active block is memory of its owner's, whatever is done to the     *)
(* others, and pointers are recognised as freed until they are returned    *)
(* again (m61.cc:73-306).                                                  *)
OwnMemory == Blocks!Spec

=============================================================================
