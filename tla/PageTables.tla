----------------------------- MODULE PageTables -----------------------------
(***************************************************************************)
(* Physical pages and per-process page tables of the WeensyOS kernel       *)
(* (pset3/kernel.cc, k-hardware.cc, k-vmiter.cc): the reference counts of  *)
(* physpages, what the page tables map, and the allocator the system calls *)
(* are built from.  Every handler runs with interrupts disabled, so the    *)
(* operators below describe what a whole loop of kalloc, kfree and try_map *)
(* calls does; Kernel.tla uses them inside one action per handler.         *)
(*                                                                         *)
(* Addresses are page numbers.  Virtual page 0 stands for the console page *)
(* in the low identity-mapped region, the only page below PROC_START_ADDR  *)
(* that a process may access; process memory starts at virtual page 1.     *)
(***************************************************************************)
EXTENDS Integers, FiniteSets

CONSTANTS
  NPages,     (* number of allocatable physical pages                      *)
  PidMax,     (* PID_MAX, slots of ptable; slot 0 is never used            *)
  LowTables,  (* page-table pages below the root that map the low region   *)
              (* and process memory below HighVA (3 in the code)           *)
  HighVA,     (* first page that needs one more level-1 page-table page    *)
  MemSize,    (* MEMSIZE_VIRTUAL in pages                                  *)
  Limit,      (* pages of address space modelled, some beyond MemSize      *)
  Values      (* what a program may write into a page, with Zero           *)

Zero == 0

ASSUME PageTablesAssumption ==
  /\ NPages \in Nat
  /\ PidMax \in Nat /\ PidMax > 1
  /\ LowTables \in Nat
  /\ HighVA \in Nat /\ MemSize \in Nat /\ Limit \in Nat
  /\ 1 < HighVA /\ 1 < MemSize /\ MemSize <= Limit
  /\ Zero \in Values /\ Values \subseteq Nat

Pids      == 0..(PidMax - 1)
Pages     == 1..NPages
NoPage    == 0
Console   == NPages + 1
VAs       == 0..(Limit - 1)
ProcStart == 1

(* Page-table pages of one process: the root, LowTables intermediate ones  *)
(* and the second level-1 page, allocated when a page >= HighVA is mapped. *)
Tables    == 0..(LowTables + 1)
HighTable == LowTables + 1

VARIABLES
  refcount,   (* physpages[pg].refcount                                    *)
  data,       (* what page pg holds                                        *)
  table,      (* table[p][i]: the page-table pages of p, or NoPage         *)
  pte         (* pte[p][va]: level-1 entry, its page and its permissions   *)

memVars == <<refcount, data, table, pte>>

Entries == [pa : Pages \cup {NoPage, Console}, perm : SUBSET {"P", "W", "U", "C"}]

MemTypeOK ==
  /\ refcount \in [Pages -> Nat]
  /\ data \in [Pages -> Values]
  /\ table \in [Pids -> [Tables -> Pages \cup {NoPage}]]
  /\ pte \in [Pids -> [VAs -> Entries]]

-----------------------------------------------------------------------------
(* Page-table entries, as vmiter's predicates read them.                   *)

Absent      == [pa |-> NoPage, perm |-> {}]
Present(e)  == "P" \in e.perm
Writable(e) == {"P", "W"} \subseteq e.perm
User(e)     == {"P", "U"} \subseteq e.perm

NoTables  == [i \in Tables |-> NoPage]
NoEntries == [va \in VAs |-> Absent]

-----------------------------------------------------------------------------
(* kalloc takes the first allocatable page whose refcount is 0.  Grant(n)  *)
(* holds the one list of n pages that n successive calls return, and is    *)
(* empty when one of them would return nullptr.                            *)

FreePages == {pg \in Pages : refcount[pg] = 0}

FirstFree(n) == {pg \in FreePages : Cardinality({q \in FreePages : q < pg}) < n}

Grant(n) == {f \in [1..n -> FirstFree(n)] : \A i, j \in 1..n : i < j => f[i] < f[j]}

Enough(n) == Cardinality(FreePages) >= n

-----------------------------------------------------------------------------
(* kfree: n[pg] calls for page pg.  The assertion in kfree fails when a    *)
(* page is freed more often than it is counted; a page that reaches 0 is   *)
(* cleared.                                                                *)

KfreeAsserts(n) == \A pg \in Pages : n[pg] <= refcount[pg]

(* Mutants: the count drops twice; the page is cleared at every kfree. *)
KfreeTwice(n) ==
  /\ refcount' = [pg \in Pages |-> refcount[pg] - 2 * n[pg]]
  /\ data' = [pg \in Pages |-> IF n[pg] > 0 THEN Zero ELSE data[pg]]

KfreeClears(n) ==
  /\ refcount' = [pg \in Pages |-> refcount[pg] - n[pg]]
  /\ data' = [pg \in Pages |-> IF n[pg] > 0 THEN Zero ELSE data[pg]]

Kfree(n) ==
  /\ refcount' = [pg \in Pages |-> refcount[pg] - n[pg]]
  /\ data' = [pg \in Pages |-> IF n[pg] > 0 /\ n[pg] = refcount[pg]
                               THEN Zero ELSE data[pg]]

(* free_everything(ptable[p].pagetable): one kfree for each user mapping   *)
(* below MEMSIZE_VIRTUAL that is not the console, one for each page-table  *)
(* page.                                                                   *)
UserCount(p, S, pg) == Cardinality({va \in S : User(pte[p][va]) /\ pte[p][va].pa = pg})

TableCount(p, S, pg) == Cardinality({i \in S : table[p][i] = pg})

(* Mutants: the root is freed with the other tables and once more; the     *)
(* second level-1 table is missed.                                         *)
EverythingRootTwice(p) ==
  [pg \in Pages |-> UserCount(p, 0..(MemSize - 1), pg) + TableCount(p, Tables, pg)
                    + TableCount(p, {0}, pg)]

EverythingOneTable(p) ==
  [pg \in Pages |-> UserCount(p, 0..(MemSize - 1), pg)
                    + TableCount(p, Tables \ {HighTable}, pg)]

Everything(p) ==
  [pg \in Pages |-> UserCount(p, 0..(MemSize - 1), pg) + TableCount(p, Tables, pg)]

-----------------------------------------------------------------------------
(* find_free_vmemory(len) with npages = len / PAGESIZE, as the set that     *)
(* holds the address it returns, empty when it returns 0.  The scan stops  *)
(* at the first run of npages absent pages.  When there is none it ends    *)
(* with the start of the run of absent pages that reaches MEMSIZE_VIRTUAL, *)
(* however short.                                                          *)

AllAbsent(p, S) == \A va \in S : ~Present(pte[p][va])

Least(S) == {x \in S : \A y \in S : x <= y}

FindFreeVmemory(p, npages) ==
  LET runs  == {va \in ProcStart..(MemSize - npages) :
                  npages > 0 /\ AllAbsent(p, va..(va + npages - 1))}
      tails == {va \in ProcStart..(MemSize - 1) : AllAbsent(p, va..(MemSize - 1))}
  IN  IF runs # {} THEN Least(runs) ELSE Least(tails)

=============================================================================
