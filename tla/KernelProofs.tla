---------------------------- MODULE KernelProofs ----------------------------
(***************************************************************************)
(* Theorems about the kernel of Kernel.tla, for every number of pages and  *)
(* processes, every program image and every set of system-call arguments.  *)
(***************************************************************************)
EXTENDS KernelProperties, FiniteSetTheorems, TLAPS

-----------------------------------------------------------------------------
(* Operators on page tables.                                               *)

(* free_everything counts each page a natural number of times. *)
LEMMA EverythingType ==
  ASSUME NEW p \in Pids
  PROVE  Everything(p) \in [Pages -> Nat]
<1>. USE PageTablesAssumption
<1>1. IsFiniteSet(0..(MemSize - 1))
  BY FS_Interval
<1>2. IsFiniteSet(Tables)
  BY FS_Interval DEF Tables
<1>3. ASSUME NEW pg \in Pages
      PROVE  /\ Cardinality({va \in 0..(MemSize - 1) :
                               User(pte[p][va]) /\ pte[p][va].pa = pg}) \in Nat
             /\ Cardinality({i \in Tables : table[p][i] = pg}) \in Nat
  <2>1. IsFiniteSet({va \in 0..(MemSize - 1) : User(pte[p][va]) /\ pte[p][va].pa = pg})
    BY <1>1, FS_Subset
  <2>2. IsFiniteSet({i \in Tables : table[p][i] = pg})
    BY <1>2, FS_Subset
  <2>. QED  BY <2>1, <2>2, FS_CardinalityType
<1>. QED  BY <1>3 DEF Everything, UserCount, TableCount

(* kfree keeps the counts natural as long as its assertion holds. *)
LEMMA KfreeType ==
  ASSUME MemTypeOK, NEW n \in [Pages -> Nat], KfreeAsserts(n), Kfree(n)
  PROVE  refcount' \in [Pages -> Nat] /\ data' \in [Pages -> Values]
BY PageTablesAssumption DEF MemTypeOK, KfreeAsserts, Kfree

(* kalloc returns free pages. *)
LEMMA GrantType ==
  ASSUME NEW n, NEW f \in Grant(n)
  PROVE  f \in [1..n -> Pages] /\ \A i \in 1..n : refcount[f[i]] = 0
BY DEF Grant, FirstFree, FreePages

(* Take marks the pages it is given as used once and clears them. *)
LEMMA TakeType ==
  ASSUME MemTypeOK, NEW f, Take(f)
  PROVE  refcount' \in [Pages -> Nat] /\ data' \in [Pages -> Values]
BY PageTablesAssumption DEF MemTypeOK, Take

(* A request that is not empty covers at least one page; the kalloc calls  *)
(* of syscall_mmap are numbered 1 to NCalls, the page-table page between   *)
(* the pages.                                                              *)
LEMMA CeilType ==
  ASSUME NEW len \in Nat
  PROVE  Ceil(len) \in Nat /\ (len > 0 => Ceil(len) >= 1)
BY DEF Ceil

LEMMA MmapAddrType ==
  ASSUME NEW va \in VAs, NEW len \in Nat, NEW a \in MmapAddr(va, len)
  PROVE  a \in Nat /\ a >= ProcStart
BY PageTablesAssumption DEF MmapAddr, FindFreeVmemory, Least, VAs, ProcStart

LEMMA CallsType ==
  ASSUME NEW a \in Nat, NEW len \in Nat \ {0}
  PROVE  /\ TableCall(a, len) \in Nat
         /\ NCalls(a, len) \in Nat
         /\ TableCall(a, len) <= NCalls(a, len)
         /\ \A w \in VAs : w \in a..(a + Ceil(len) - 1) =>
              PageCall(a, len, w) \in 1..NCalls(a, len)
<1>1. Ceil(len) \in Nat /\ Ceil(len) >= 1
  BY CeilType
<1>2. TableCall(a, len) \in Nat /\ TableCall(a, len) <= Ceil(len) + 1
  BY <1>1, PageTablesAssumption DEF TableCall
<1>. QED
  BY <1>1, <1>2, PageTablesAssumption DEF NCalls, PageCall, VAs

-----------------------------------------------------------------------------
(* The type invariant.  Reading or copying through an entry needs the page *)
(* it names to exist, so type correctness is inductive only with the fact  *)
(* that every present entry of process memory names an allocatable page.   *)

MapsPages ==
  \A p \in Pids, va \in VAs :
    va >= ProcStart /\ pte[p][va].perm # {}
      => Present(pte[p][va]) /\ pte[p][va].pa \in Pages

TypeInv == TypeOK /\ MapsPages

LEMMA DiscardType ==
  ASSUME TypeInv, NEW p \in Pids, KfreeAsserts(Everything(p)), Discard(p)
  PROVE  /\ MemTypeOK' /\ MapsPages'
         /\ state' \in [Pids -> {"P_FREE", "P_RUNNABLE", "P_FAULTED"}]
         /\ sleep' = sleep
<1>1. refcount' \in [Pages -> Nat] /\ data' \in [Pages -> Values]
  BY EverythingType, KfreeType DEF Discard, TypeInv, TypeOK
<1>2. NoTables \in [Tables -> Pages \cup {NoPage}] /\ NoEntries \in [VAs -> Entries]
  BY DEF NoTables, NoEntries, Absent, Entries
<1>3. table' \in [Pids -> [Tables -> Pages \cup {NoPage}]] /\ pte' \in [Pids -> [VAs -> Entries]]
  BY <1>2 DEF Discard, TypeInv, TypeOK, MemTypeOK
<1>4. MapsPages'
  BY DEF Discard, TypeInv, TypeOK, MemTypeOK, MapsPages, NoEntries, Absent, Present
<1>. QED  BY <1>1, <1>3, <1>4 DEF MemTypeOK, Discard, TypeInv, TypeOK

LEMMA ExitType ==
  ASSUME TypeInv, mode = "user", ExitCurrent
  PROVE  TypeInv'
<1>1. CASE KfreeAsserts(Everything(current))
  <2>1. current \in Pids /\ Discard(current) /\ Schedule(state', sleep)
    BY <1>1 DEF ExitCurrent, TypeInv, TypeOK
  <2>. QED  BY <1>1, <2>1, DiscardType DEF Schedule, TypeInv, TypeOK
<1>2. CASE ~KfreeAsserts(Everything(current))
  BY <1>2 DEF ExitCurrent, Panic, TypeInv, TypeOK, MemTypeOK, MapsPages
<1>. QED  BY <1>1, <1>2

(* Each process set up at boot takes its pages from its own part of        *)
(* physical memory, which has room for all of them.                        *)
LEMMA SetupPageType ==
  ASSUME NEW p \in 1..NInit, NEW i \in 1..PagesPerProcess,
         PagesPerProcess \in Nat
  PROVE  SetupPage(p, i) \in Pages
<1>. DEFINE k == PagesPerProcess
<1>1. NInit \in Nat /\ NInit * k <= NPages /\ NPages \in Nat
  BY KernelAssumption, SetupAssumption, PageTablesAssumption
<1>2. (p - 1) * k >= 0 /\ (p - 1) * k + k <= NInit * k
  <2>. HIDE DEF k
  <2>1. k \in Nat
    BY DEF k
  <2>. QED  BY <1>1, <2>1
<1>. HIDE DEF k
<1>3. (p - 1) * k \in Int /\ k \in Nat /\ i \in 1..k
  BY DEF k
<1>. QED  BY <1>1, <1>2, <1>3 DEF SetupPage, Pages, k

LEMMA ImageFinite ==
  /\ Cardinality(DOMAIN Image) \in Nat
  /\ \A va \in VAs : Cardinality({w \in DOMAIN Image : w <= va}) \in
                        0..Cardinality(DOMAIN Image)
  /\ PagesPerProcess \in Nat
<1>1. IsFiniteSet(DOMAIN Image)
  <2>1. IsFiniteSet(ProcStart..(MemSize - 2))
    BY FS_Interval, PageTablesAssumption DEF ProcStart
  <2>2. DOMAIN Image \in SUBSET (ProcStart..(MemSize - 2))
    BY KernelAssumption
  <2>. QED  BY <2>1, <2>2, FS_Subset
<1>2. ASSUME NEW va \in VAs
      PROVE  Cardinality({w \in DOMAIN Image : w <= va}) \in 0..Cardinality(DOMAIN Image)
  <2>1. {w \in DOMAIN Image : w <= va} \in SUBSET (DOMAIN Image)
    OBVIOUS
  <2>2. /\ IsFiniteSet({w \in DOMAIN Image : w <= va})
        /\ Cardinality({w \in DOMAIN Image : w <= va}) <= Cardinality(DOMAIN Image)
    BY <1>1, <2>1, FS_Subset
  <2>. QED  BY <1>1, <2>2, FS_CardinalityType
<1>3. Cardinality(DOMAIN Image) \in Nat
  BY <1>1, FS_CardinalityType
<1>. QED  BY <1>2, <1>3, PageTablesAssumption DEF PagesPerProcess, SetupTables

LEMMA InitType == Init => TypeInv
<1>. SUFFICES ASSUME Init PROVE TypeInv
  OBVIOUS
<1>. DEFINE c == Cardinality(DOMAIN Image)
<1>1. c \in Nat /\ SetupTables \in Nat /\ PagesPerProcess = c + SetupTables + 1 /\ SetupTables >= LowTables + 1
      /\ (StackVA >= HighVA => SetupTables = LowTables + 2) /\ LowTables \in Nat
  BY ImageFinite, PageTablesAssumption DEF PagesPerProcess, SetupTables, StackVA
<1>2. ASSUME NEW p \in 1..NInit, NEW va \in VAs
      PROVE  /\ SetupEntry(p, va) \in Entries
             /\ va >= ProcStart /\ SetupEntry(p, va).perm # {}
                => Present(SetupEntry(p, va)) /\ SetupEntry(p, va).pa \in Pages
  <2>1. ImageIndex(va) \in 1..PagesPerProcess
    BY <1>1, ImageFinite DEF ImageIndex, SetupTables
  <2>2. SetupPage(p, ImageIndex(va)) \in Pages
    BY <2>1, SetupPageType, ImageFinite
  <2>3. SetupPage(p, LowTables + c + 2) \in Pages
    <3>1. LowTables + c + 2 \in 1..PagesPerProcess
      BY <1>1
    <3>. QED  BY <3>1, SetupPageType, ImageFinite
  <2>4. CASE va = 0
    BY <2>4 DEF SetupEntry, Entries, ProcStart
  <2>5. CASE va # 0 /\ va \in DOMAIN Image
    BY <2>2, <2>5 DEF SetupEntry, ImagePerm, Entries, Present
  <2>6. CASE va # 0 /\ va \notin DOMAIN Image /\ va = StackVA
    BY <2>3, <2>6 DEF SetupEntry, Entries, Present
  <2>7. CASE va # 0 /\ va \notin DOMAIN Image /\ va # StackVA
    BY <2>7 DEF SetupEntry, Absent, Entries, Present
  <2>. QED  BY <2>4, <2>5, <2>6, <2>7
<1>3. ASSUME NEW p \in 1..NInit
      PROVE  SetupTable(p) \in [Tables -> Pages \cup {NoPage}]
  <2>1. ASSUME NEW i \in Tables, i # HighTable
        PROVE  SetupPage(p, i + 1) \in Pages
    <3>1. i + 1 \in 1..PagesPerProcess
      BY <1>1, <2>1, PageTablesAssumption DEF Tables, HighTable
    <3>. QED  BY <3>1, SetupPageType, ImageFinite
  <2>2. SetupPage(p, PagesPerProcess) \in Pages
    <3>1. PagesPerProcess \in 1..PagesPerProcess
      BY <1>1
    <3>. QED  BY <3>1, SetupPageType, ImageFinite
  <2>. QED  BY <2>1, <2>2 DEF SetupTable
<1>4. pte \in [Pids -> [VAs -> Entries]] /\ MapsPages
  BY <1>2 DEF Init, MapsPages, NoEntries, Absent, Entries, Present
<1>5. table \in [Pids -> [Tables -> Pages \cup {NoPage}]]
  BY <1>3 DEF Init, NoTables
<1>6. current \in Pids
  BY PageTablesAssumption DEF Init, Pids
<1>. QED  BY <1>4, <1>5, <1>6, PageTablesAssumption DEF Init, TypeInv, TypeOK, MemTypeOK

LEMMA PanicType == ASSUME TypeInv, Panic PROVE TypeInv'
BY DEF Panic, TypeInv, TypeOK, MemTypeOK, MapsPages

LEMMA SchedulingType ==
  ASSUME TypeInv,
         \/ Timer \/ Yield \/ \E t \in SleepCalls : Sleep(t)
         \/ \E va \in VAs : Fault(va)
  PROVE  TypeInv'
<1>1. CASE Timer
  <2>1. sleep' \in [Pids -> Nat]
    BY <1>1 DEF Timer, TypeInv, TypeOK
  <2>2. mode' \in {"user", "spin"} /\ current' \in Pids
    BY <1>1 DEF Timer, Schedule, TypeInv, TypeOK
  <2>. QED  BY <1>1, <2>1, <2>2 DEF Timer, memVars, TypeInv, TypeOK, MemTypeOK, MapsPages
<1>2. CASE Yield
  BY <1>2 DEF Yield, Schedule, memVars, TypeInv, TypeOK, MemTypeOK, MapsPages
<1>3. ASSUME NEW t \in SleepCalls, Sleep(t) PROVE TypeInv'
  <2>1. t \in Nat
    BY KernelAssumption
  <2>. QED  BY <1>3, <2>1 DEF Sleep, Schedule, memVars, TypeInv, TypeOK, MemTypeOK, MapsPages
<1>4. ASSUME NEW va \in VAs, Fault(va) PROVE TypeInv'
  BY <1>4 DEF Fault, Schedule, memVars, TypeInv, TypeOK, MemTypeOK, MapsPages
<1>. QED  BY <1>1, <1>2, <1>3, <1>4

LEMMA KillType ==
  ASSUME TypeInv, NEW c \in KillCalls, Kill(c[1], c[2])
  PROVE  TypeInv'
<1>1. c[2] \in Pids
  BY KernelAssumption
<1>2. CASE KfreeAsserts(Everything(c[2])) /\ c[2] # current
  <2>1. Discard(c[2]) /\ UNCHANGED <<mode, current>>
    BY <1>2 DEF Kill
  <2>. QED  BY <1>1, <1>2, <2>1, DiscardType DEF TypeInv, TypeOK
<1>3. CASE ~(KfreeAsserts(Everything(c[2])) /\ c[2] # current)
  BY <1>3, PanicType DEF Kill
<1>. QED  BY <1>2, <1>3

(* An entry that passes the copy-on-write test names a page. *)
LEMMA CowEntry ==
  ASSUME TypeInv, NEW va \in VAs, va >= ProcStart, CowTest(pte[current][va])
  PROVE  /\ pte[current][va] \in Entries
         /\ pte[current][va].pa \in Pages
         /\ Present(pte[current][va])
         /\ CowPerm(pte[current][va]) \in SUBSET {"P", "W", "U", "C"}
BY DEF TypeInv, TypeOK, MemTypeOK, MapsPages, CowTest, Present, CowPerm, Entries

LEMMA CowType ==
  ASSUME TypeInv, NEW va \in VAs, CowReuse(va) \/ CowCopy(va) \/ CowNoMemory(va)
  PROVE  TypeInv'
<1>. DEFINE e == pte[current][va]
<1>1. /\ mode = "user" /\ va >= ProcStart /\ CowTest(e)
      /\ e \in Entries /\ e.pa \in Pages /\ Present(e)
      /\ CowPerm(e) \in SUBSET {"P", "W", "U", "C"} /\ Present([pa |-> 0, perm |-> CowPerm(e)])
  BY CowEntry DEF CowReuse, CowCopy, CowNoMemory, CowPerm, Present
<1>2. ASSUME NEW pg \in Pages,
             pte' = [pte EXCEPT ![current][va] = [pa |-> pg, perm |-> CowPerm(e)]]
      PROVE  pte' \in [Pids -> [VAs -> Entries]] /\ MapsPages'
  <2>1. [pa |-> pg, perm |-> CowPerm(e)] \in Entries
    BY <1>1 DEF Entries
  <2>2. pte' \in [Pids -> [VAs -> Entries]]
    BY <1>2, <2>1 DEF TypeInv, TypeOK, MemTypeOK
  <2>3. ASSUME NEW p \in Pids, NEW w \in VAs, w >= ProcStart, pte'[p][w].perm # {}
        PROVE  Present(pte'[p][w]) /\ pte'[p][w].pa \in Pages
    <3>1. CASE p = current /\ w = va
      BY <1>1, <1>2, <3>1 DEF TypeInv, TypeOK, MemTypeOK, Present
    <3>2. CASE ~(p = current /\ w = va)
      BY <1>2, <2>3, <3>2 DEF TypeInv, TypeOK, MemTypeOK, MapsPages
    <3>. QED  BY <3>1, <3>2
  <2>. QED  BY <2>2, <2>3 DEF MapsPages
<1>3. CASE CowReuse(va)
  BY <1>1, <1>2, <1>3 DEF CowReuse, Return, TypeInv, TypeOK, MemTypeOK
<1>4. CASE CowCopy(va)
  <2>1. PICK f \in Grant(1) :
          IF refcount[e.pa] > 0
          THEN /\ pte' = [pte EXCEPT ![current][va] = [pa |-> f[1], perm |-> CowPerm(e)]]
               /\ refcount' = [refcount EXCEPT ![f[1]] = 1, ![e.pa] = @ - 1]
               /\ data' = [data EXCEPT ![f[1]] = data[e.pa]]
               /\ UNCHANGED table
               /\ Return
          ELSE Panic
    BY <1>4 DEF CowCopy, MoveReference
  <2>2. f[1] \in Pages /\ refcount[f[1]] = 0
    BY GrantType
  <2>3. CASE refcount[e.pa] > 0
    <3>1. refcount' \in [Pages -> Nat] /\ data' \in [Pages -> Values]
      <4>1. refcount \in [Pages -> Nat] /\ data \in [Pages -> Values]
        BY DEF TypeInv, TypeOK, MemTypeOK
      <4>2. e.pa \in Pages
        BY <1>1
      <4>. HIDE DEF e
      <4>3. /\ refcount' = [refcount EXCEPT ![f[1]] = 1, ![e.pa] = @ - 1]
            /\ data' = [data EXCEPT ![f[1]] = data[e.pa]]
        BY <2>1, <2>3
      <4>4. f[1] # e.pa
        BY <2>2, <2>3
      <4>. QED  BY <4>1, <4>2, <4>3, <4>4, <2>2, <2>3
    <3>. QED  BY <1>2, <2>1, <2>2, <2>3, <3>1 DEF Return, TypeInv, TypeOK, MemTypeOK
  <2>4. CASE ~(refcount[e.pa] > 0)
    BY <2>1, <2>4, PanicType
  <2>. QED  BY <2>3, <2>4
<1>5. CASE CowNoMemory(va)
  BY <1>5, ExitType DEF CowNoMemory
<1>. QED  BY <1>3, <1>4, <1>5

LEMMA StoreType ==
  ASSUME TypeInv, NEW va \in VAs, NEW v \in Values, Store(va, v)
  PROVE  TypeInv'
BY DEF Store, Return, TypeInv, TypeOK, MemTypeOK, MapsPages

LEMMA MunmapType ==
  ASSUME TypeInv, NEW c \in UnmapCalls, Munmap(c)
  PROVE  TypeInv'
<1>. DEFINE gone == {va \in c.va..(c.va + Ceil(c.len) - 1) :
                       va < MemSize /\ User(pte[current][va])}
            n    == [pg \in Pages |-> Cardinality({va \in gone : pte[current][va].pa = pg})]
<1>1. n \in [Pages -> Nat]
  <2>1. IsFiniteSet(c.va..(c.va + Ceil(c.len) - 1))
    BY CeilType, KernelAssumption, FS_Interval
  <2>2. ASSUME NEW pg \in Pages
        PROVE  Cardinality({va \in gone : pte[current][va].pa = pg}) \in Nat
    <3>1. {va \in gone : pte[current][va].pa = pg} \in SUBSET (c.va..(c.va + Ceil(c.len) - 1))
      OBVIOUS
    <3>. QED  BY <2>1, <3>1, FS_Subset, FS_CardinalityType
  <2>. QED  BY <2>2
<1>2. CASE KfreeAsserts(n) /\ \A va \in gone : pte[current][va].pa # Console
  <2>1. /\ Kfree(n)
        /\ pte' = [pte EXCEPT ![current] =
                     [va \in VAs |-> IF va \in gone THEN Absent ELSE @[va]]]
        /\ UNCHANGED table
        /\ Return
    BY <1>2 DEF Munmap
  <2>2. refcount' \in [Pages -> Nat] /\ data' \in [Pages -> Values]
    BY <1>1, <1>2, <2>1, KfreeType DEF TypeInv, TypeOK
  <2>3. pte' \in [Pids -> [VAs -> Entries]]
    BY <2>1 DEF TypeInv, TypeOK, MemTypeOK, Absent, Entries
  <2>4. MapsPages'
    BY <2>1 DEF TypeInv, TypeOK, MemTypeOK, MapsPages, Absent, Present
  <2>. QED  BY <2>1, <2>2, <2>3, <2>4 DEF Return, TypeInv, TypeOK, MemTypeOK
<1>3. CASE ~(KfreeAsserts(n) /\ \A va \in gone : pte[current][va].pa # Console)
  BY <1>3, PanicType DEF Munmap
<1>. QED  BY <1>2, <1>3

LEMMA LinkTableType ==
  ASSUME TypeInv, NEW pg \in Pages, LinkTable(current, pg)
  PROVE  table' \in [Pids -> [Tables -> Pages \cup {NoPage}]]
BY DEF LinkTable, TypeInv, TypeOK, MemTypeOK

LEMMA MmapPagesType ==
  ASSUME TypeInv, NEW va \in VAs, NEW len \in Nat \ {0},
         NEW perm \in {{"P", "U"}, {"P", "W", "U"}}, MmapPages(va, len, perm)
  PROVE  TypeInv'
<1>. DEFINE Done(a, f) ==
       /\ Take(f)
       /\ pte' = [pte EXCEPT ![current] =
                    [w \in VAs |-> IF w \in a..(a + Ceil(len) - 1)
                                   THEN [pa |-> f[PageCall(a, len, w)], perm |-> perm]
                                   ELSE pte[current][w]]]
       /\ IF TableCall(a, len) = 0 THEN UNCHANGED table
          ELSE LinkTable(current, f[TableCall(a, len)])
<1>0. PICK a \in MmapAddr(va, len) : \E f \in Grant(NCalls(a, len)) : Done(a, f)
  BY DEF MmapPages
<1>1. PICK f \in Grant(NCalls(a, len)) : Done(a, f)
  BY <1>0
<1>2. a \in Nat
  BY MmapAddrType
<1>3. f \in [1..NCalls(a, len) -> Pages]
  BY GrantType
<1>4. refcount' \in [Pages -> Nat] /\ data' \in [Pages -> Values]
  BY <1>1, TakeType DEF TypeInv, TypeOK
<1>5. ASSUME NEW w \in VAs, w \in a..(a + Ceil(len) - 1)
      PROVE  f[PageCall(a, len, w)] \in Pages
  BY <1>2, <1>3, <1>5, CallsType
<1>6. pte' \in [Pids -> [VAs -> Entries]]
  <2>1. ASSUME NEW w \in VAs, w \in a..(a + Ceil(len) - 1)
        PROVE  [pa |-> f[PageCall(a, len, w)], perm |-> perm] \in Entries
    BY <1>5, <2>1 DEF Entries
  <2>. QED  BY <1>1, <2>1 DEF TypeInv, TypeOK, MemTypeOK
<1>7. MapsPages'
  BY <1>1, <1>5 DEF TypeInv, TypeOK, MemTypeOK, MapsPages, Present
<1>8. table' \in [Pids -> [Tables -> Pages \cup {NoPage}]]
  <2>1. CASE TableCall(a, len) = 0
    BY <1>1, <2>1 DEF TypeInv, TypeOK, MemTypeOK
  <2>2. CASE TableCall(a, len) # 0
    <3>1. TableCall(a, len) \in 1..NCalls(a, len)
      BY <1>2, <2>2, CallsType
    <3>2. f[TableCall(a, len)] \in Pages
      BY <1>3, <3>1
    <3>3. LinkTable(current, f[TableCall(a, len)])
      BY <1>1, <2>2
    <3>. QED  BY <3>2, <3>3, LinkTableType
  <2>. QED  BY <2>1, <2>2
<1>. QED  BY <1>4, <1>6, <1>7, <1>8 DEF MmapPages, Return, TypeInv, TypeOK, MemTypeOK

LEMMA MmapRollbackType ==
  ASSUME TypeInv, NEW va \in VAs, NEW len \in Nat \ {0}, MmapRollback(va, len)
  PROVE  TypeInv'
<1>1. PICK a \in MmapAddr(va, len) :
        /\ TableCall(a, len) # 0
        /\ \E f \in Grant(TableCall(a, len)) :
             /\ refcount' = [refcount EXCEPT ![f[TableCall(a, len)]] = 1]
             /\ LinkTable(current, f[TableCall(a, len)])
  BY DEF MmapRollback
<1>2. PICK f \in Grant(TableCall(a, len)) :
        /\ refcount' = [refcount EXCEPT ![f[TableCall(a, len)]] = 1]
        /\ LinkTable(current, f[TableCall(a, len)])
  BY <1>1
<1>3. TableCall(a, len) \in 1..TableCall(a, len)
  BY <1>1, MmapAddrType, CallsType
<1>4. f[TableCall(a, len)] \in Pages
  BY <1>3, GrantType
<1>. QED
  BY <1>2, <1>4 DEF MmapRollback, LinkTable, Return, TypeInv, TypeOK, MemTypeOK, MapsPages

LEMMA MmapType ==
  ASSUME TypeInv,
         \/ \E c \in MmapCalls : Mmap(c)
         \/ \E va \in AllocCalls : PageAlloc(va)
  PROVE  TypeInv'
<1>1. ASSUME NEW c \in MmapCalls, Mmap(c) PROVE TypeInv'
  <2>1. c.va \in VAs /\ c.len \in Nat \ {0} /\ c.perm \in {{"P", "U"}, {"P", "W", "U"}}
    BY KernelAssumption, PageTablesAssumption DEF VAs
  <2>. QED  BY <1>1, <2>1, MmapPagesType, MmapRollbackType DEF Mmap
<1>2. ASSUME NEW va \in AllocCalls, PageAlloc(va) PROVE TypeInv'
  <2>1. va \in VAs
    BY KernelAssumption, PageTablesAssumption DEF VAs, ProcStart
  <2>. QED  BY <1>2, <2>1, MmapPagesType DEF PageAlloc
<1>. QED  BY <1>1, <1>2

(* Sharing keeps an entry's page and the fact that it is present. *)
LEMMA MarkSharedType ==
  ASSUME TypeInv, NEW S \in SUBSET SharedPages, NEW va \in VAs
  PROVE  /\ MarkShared(S)[va] \in Entries
         /\ MarkShared(S)[va].pa = pte[current][va].pa
         /\ va >= ProcStart /\ MarkShared(S)[va].perm # {}
              => Present(MarkShared(S)[va]) /\ MarkShared(S)[va].pa \in Pages
<1>1. pte[current][va] \in Entries /\ current \in Pids
  BY DEF TypeInv, TypeOK, MemTypeOK
<1>2. CASE va \in S
  <2>1. User(pte[current][va]) /\ va >= ProcStart
    BY <1>2 DEF SharedPages, ProcStart
  <2>. QED
    BY <1>1, <1>2, <2>1 DEF MarkShared, SharedEntry, User, Present, Entries, TypeInv, MapsPages
<1>3. CASE va \notin S
  BY <1>1, <1>3 DEF MarkShared, TypeInv, MapsPages
<1>. QED  BY <1>2, <1>3

LEMMA ForkType == ASSUME TypeInv, Fork PROVE TypeInv'
<1>1. PICK child \in FreeSlots, f \in Grant(ForkCalls) :
        /\ table' = [table EXCEPT ![child] =
                       [i \in Tables |-> IF i + 1 \in DOMAIN f THEN f[i + 1] ELSE NoPage]]
        /\ pte' = [pte EXCEPT
                     ![child] = [va \in VAs |-> IF va \in SharedPages \cup {0}
                                                THEN MarkShared(SharedPages)[va]
                                                ELSE Absent],
                     ![current] = MarkShared(SharedPages)]
        /\ refcount' = [pg \in Pages |->
                          refcount[pg] + Shares(pg)
                          + IF \E i \in DOMAIN f : f[i] = pg THEN 1 ELSE 0]
        /\ state' = [state EXCEPT ![child] = "P_RUNNABLE"]
  BY DEF Fork
<1>2. child \in Pids /\ current \in Pids
  BY DEF FreeSlots, TypeInv, TypeOK
<1>3. table' \in [Pids -> [Tables -> Pages \cup {NoPage}]]
  <2>1. f \in [1..ForkCalls -> Pages]
    BY GrantType
  <2>2. [i \in Tables |-> IF i + 1 \in DOMAIN f THEN f[i + 1] ELSE NoPage]
          \in [Tables -> Pages \cup {NoPage}]
    BY <2>1
  <2>. QED  BY <1>1, <1>2, <2>2 DEF TypeInv, TypeOK, MemTypeOK
<1>4. refcount' \in [Pages -> Nat]
  <2>1. IsFiniteSet(SharedPages)
    <3>1. IsFiniteSet(ProcStart..(MemSize - 1))
      BY FS_Interval, PageTablesAssumption DEF ProcStart
    <3>. QED  BY <3>1, FS_Subset DEF SharedPages
  <2>2. ASSUME NEW pg \in Pages
        PROVE  Shares(pg) \in Nat
    BY <2>1, FS_Subset, FS_CardinalityType DEF Shares
  <2>. QED  BY <1>1, <2>2 DEF TypeInv, TypeOK, MemTypeOK
<1>5. /\ MarkShared(SharedPages) \in [VAs -> Entries]
      /\ [va \in VAs |-> IF va \in SharedPages \cup {0}
                         THEN MarkShared(SharedPages)[va] ELSE Absent] \in [VAs -> Entries]
  BY MarkSharedType DEF MarkShared, Absent, Entries
<1>6. pte' \in [Pids -> [VAs -> Entries]]
  BY <1>1, <1>2, <1>5 DEF TypeInv, TypeOK, MemTypeOK
<1>7. MapsPages'
  <2>. SUFFICES ASSUME NEW p \in Pids, NEW va \in VAs, va >= ProcStart, pte'[p][va].perm # {}
                PROVE  Present(pte'[p][va]) /\ pte'[p][va].pa \in Pages
    BY DEF MapsPages
  <2>1. CASE p = current
    <3>1. pte'[p][va] = MarkShared(SharedPages)[va]
      BY <1>1, <1>2, <2>1 DEF TypeInv, TypeOK, MemTypeOK
    <3>. QED  BY <3>1, MarkSharedType
  <2>2. CASE p = child /\ p # current
    <3>1. \/ pte'[p][va] = MarkShared(SharedPages)[va]
          \/ pte'[p][va] = Absent
      BY <1>1, <1>2, <2>2 DEF TypeInv, TypeOK, MemTypeOK
    <3>. QED  BY <3>1, MarkSharedType DEF Absent
  <2>3. CASE p # child /\ p # current
    BY <1>1, <2>3 DEF TypeInv, TypeOK, MemTypeOK, MapsPages
  <2>. QED  BY <2>1, <2>2, <2>3
<1>. QED  BY <1>1, <1>2, <1>3, <1>4, <1>6, <1>7 DEF Fork, TypeInv, TypeOK, MemTypeOK

LEMMA ForkRollbackType == ASSUME TypeInv, ForkRollback PROVE TypeInv'
<1>. DEFINE S == {va \in SharedPages : va < HighVA}
<1>1. pte' = [pte EXCEPT ![current] = MarkShared(S)] /\ current \in Pids
  BY DEF ForkRollback, TypeInv, TypeOK
<1>2. MarkShared(S) \in [VAs -> Entries]
  BY MarkSharedType DEF MarkShared
<1>3. MapsPages'
  <2>. SUFFICES ASSUME NEW p \in Pids, NEW va \in VAs, va >= ProcStart, pte'[p][va].perm # {}
                PROVE  Present(pte'[p][va]) /\ pte'[p][va].pa \in Pages
    BY DEF MapsPages
  <2>1. CASE p = current
    <3>1. pte'[p][va] = MarkShared(S)[va]
      BY <1>1, <2>1 DEF TypeInv, TypeOK, MemTypeOK
    <3>. QED  BY <3>1, MarkSharedType
  <2>2. CASE p # current
    BY <1>1, <2>2 DEF TypeInv, TypeOK, MemTypeOK, MapsPages
  <2>. QED  BY <2>1, <2>2
<1>. QED  BY <1>1, <1>2, <1>3 DEF ForkRollback, Return, TypeInv, TypeOK, MemTypeOK

LEMMA NextType == ASSUME TypeInv, [Next]_vars PROVE TypeInv'
<1>1. CASE Next
  <2>1. ASSUME Exit PROVE TypeInv'
    BY <2>1, ExitType DEF Exit
  <2>. QED
    BY <1>1, <2>1, SchedulingType, KillType, CowType, StoreType, MmapType, MunmapType,
       ForkType, ForkRollbackType DEF Next
<1>2. CASE UNCHANGED vars
  BY <1>2 DEF vars, TypeInv, TypeOK, MemTypeOK, MapsPages
<1>. QED  BY <1>1, <1>2

(* Every count, page, entry and process state keeps its type; in           *)
(* particular no reference count drops below 0 (kernel.cc:163).            *)
THEOREM TypeCorrect == Spec => []TypeOK
<1>1. Init => TypeInv
  BY InitType
<1>2. TypeInv /\ [Next]_vars => TypeInv'
  BY NextType
<1>3. TypeInv => TypeOK
  BY DEF TypeInv
<1>. QED  BY <1>1, <1>2, <1>3, PTL DEF Spec

-----------------------------------------------------------------------------
(* run() resumes a live process.  That the process resumed has its page    *)
(* tables follows only if every process has them, faulted and sleeping     *)
(* ones included, since any of them may be chosen, or forked, later.       *)

LiveTables ==
  \A p \in Pids : state[p] # "P_FREE" =>
    /\ \A i \in 0..LowTables : table[p][i] # NoPage
    /\ \A va \in VAs : Present(pte[p][va]) /\ va >= HighVA => table[p][HighTable] # NoPage

Running == mode = "user" => state[current] = "P_RUNNABLE" /\ sleep[current] = 0

RunInv == TypeInv /\ LiveTables /\ Running

LEMMA InitRuns == Init => LiveTables /\ Running
<1>. SUFFICES ASSUME Init PROVE LiveTables /\ Running
  OBVIOUS
<1>1. ASSUME NEW p \in Pids, state[p] # "P_FREE"
      PROVE  /\ \A i \in 0..LowTables : table[p][i] # NoPage
             /\ \A va \in VAs : Present(pte[p][va]) /\ va >= HighVA
                                => table[p][HighTable] # NoPage
  <2>1. p \in 1..NInit /\ table[p] = SetupTable(p)
        /\ pte[p] = [va \in VAs |-> SetupEntry(p, va)]
    BY <1>1 DEF Init
  <2>2. ASSUME NEW i \in 0..LowTables
        PROVE  table[p][i] # NoPage
    <3>1. i \in Tables /\ i # HighTable /\ i + 1 \in 1..PagesPerProcess
      BY PageTablesAssumption, ImageFinite
         DEF Tables, HighTable, PagesPerProcess, SetupTables
    <3>2. SetupPage(p, i + 1) \in Pages
      BY <2>1, <3>1, SetupPageType, ImageFinite
    <3>. QED  BY <2>1, <3>1, <3>2 DEF SetupTable, Pages, NoPage
  <2>3. ASSUME NEW va \in VAs, Present(pte[p][va]), va >= HighVA
        PROVE  table[p][HighTable] # NoPage
    <3>1. va = StackVA /\ StackVA >= HighVA
      BY <2>1, <2>3, KernelAssumption, PageTablesAssumption
         DEF SetupEntry, Absent, Present
    <3>2. PagesPerProcess \in 1..PagesPerProcess
      BY ImageFinite, PageTablesAssumption DEF PagesPerProcess, SetupTables
    <3>3. SetupPage(p, PagesPerProcess) \in Pages
      BY <2>1, <3>2, SetupPageType, ImageFinite
    <3>4. HighTable \in Tables
      BY PageTablesAssumption DEF HighTable, Tables
    <3>. QED  BY <2>1, <3>1, <3>3, <3>4 DEF SetupTable, Pages, NoPage
  <2>. QED  BY <2>2, <2>3
<1>2. 1 \in Pids /\ 1 \in 1..NInit
  BY PageTablesAssumption, KernelAssumption DEF Pids
<1>3. Running
  BY <1>2 DEF Init, Running
<1>. QED  BY <1>1, <1>3 DEF LiveTables

(* schedule() chooses a process that may run, or nobody. *)
LEMMA ScheduleRuns ==
  ASSUME NEW st, NEW sl, Schedule(st, sl)
  PROVE  mode' = "user" => st[current'] = "P_RUNNABLE" /\ sl[current'] = 0
BY DEF Schedule

LEMMA DiscardRuns ==
  ASSUME TypeInv, LiveTables, NEW p \in Pids, Discard(p)
  PROVE  LiveTables'
BY DEF Discard, LiveTables, TypeInv, TypeOK, MemTypeOK

LEMMA ExitRuns ==
  ASSUME TypeInv, LiveTables, mode = "user", ExitCurrent
  PROVE  LiveTables' /\ Running'
<1>1. CASE KfreeAsserts(Everything(current))
  <2>1. current \in Pids /\ Discard(current) /\ Schedule(state', sleep)
    BY <1>1 DEF ExitCurrent, TypeInv, TypeOK
  <2>2. sleep' = sleep
    BY <2>1 DEF Discard
  <2>. QED  BY <2>1, <2>2, DiscardRuns, ScheduleRuns DEF Running
<1>2. CASE ~KfreeAsserts(Everything(current))
  BY <1>2 DEF ExitCurrent, Panic, LiveTables, Running
<1>. QED  BY <1>1, <1>2

LEMMA PanicRuns == ASSUME LiveTables, Panic PROVE LiveTables' /\ Running'
BY DEF Panic, LiveTables, Running

LEMMA SchedulingRuns ==
  ASSUME RunInv,
         \/ Timer \/ Yield \/ \E t \in SleepCalls : Sleep(t)
         \/ \E va \in VAs : Fault(va)
  PROVE  LiveTables' /\ Running'
<1>1. CASE Timer
  BY <1>1, ScheduleRuns DEF Timer, memVars, RunInv, LiveTables, Running
<1>2. CASE Yield
  BY <1>2, ScheduleRuns DEF Yield, memVars, RunInv, LiveTables, Running
<1>3. ASSUME NEW t \in SleepCalls, Sleep(t) PROVE LiveTables' /\ Running'
  BY <1>3, ScheduleRuns DEF Sleep, memVars, RunInv, LiveTables, Running
<1>4. ASSUME NEW va \in VAs, Fault(va) PROVE LiveTables' /\ Running'
  <2>1. Running'
    BY <1>4, ScheduleRuns DEF Fault, Running
  <2>2. LiveTables'
    BY <1>4 DEF Fault, memVars, RunInv, Running, TypeInv, TypeOK, LiveTables
  <2>. QED  BY <2>1, <2>2
<1>. QED  BY <1>1, <1>2, <1>3, <1>4

LEMMA KillRuns ==
  ASSUME RunInv, NEW c \in KillCalls, Kill(c[1], c[2])
  PROVE  LiveTables' /\ Running'
<1>1. c[2] \in Pids
  BY KernelAssumption
<1>2. CASE KfreeAsserts(Everything(c[2])) /\ c[2] # current
  <2>1. Discard(c[2]) /\ UNCHANGED <<mode, current>>
    BY <1>2 DEF Kill
  <2>2. Running'
    BY <1>1, <1>2, <2>1 DEF Discard, RunInv, Running, TypeInv, TypeOK
  <2>. QED  BY <1>1, <2>1, <2>2, DiscardRuns DEF RunInv
<1>3. CASE ~(KfreeAsserts(Everything(c[2])) /\ c[2] # current)
  BY <1>3, PanicRuns DEF Kill, RunInv
<1>. QED  BY <1>2, <1>3

(* Changing entries of the running process without making a page present   *)
(* keeps its tables sufficient.                                            *)
LEMMA EntriesRun ==
  ASSUME RunInv, Return, UNCHANGED table,
         \A p \in Pids, va \in VAs : Present(pte'[p][va]) => Present(pte[p][va])
  PROVE  LiveTables' /\ Running'
BY DEF RunInv, Return, LiveTables, Running

LEMMA CowRuns ==
  ASSUME RunInv, NEW va \in VAs, CowReuse(va) \/ CowCopy(va) \/ CowNoMemory(va)
  PROVE  LiveTables' /\ Running'
<1>1. /\ mode = "user" /\ Present(pte[current][va])
  BY CowEntry DEF CowReuse, CowCopy, CowNoMemory, RunInv
<1>2. ASSUME NEW x, pte' = [pte EXCEPT ![current][va] = x], Return, UNCHANGED table
      PROVE  LiveTables' /\ Running'
  <2>1. ASSUME NEW p \in Pids, NEW w \in VAs, Present(pte'[p][w])
        PROVE  Present(pte[p][w])
    BY <1>1, <1>2, <2>1 DEF RunInv, TypeInv, TypeOK, MemTypeOK
  <2>. QED  BY <1>2, <2>1, EntriesRun
<1>3. CASE CowReuse(va)
  BY <1>2, <1>3 DEF CowReuse
<1>4. CASE CowCopy(va)
  <2>. DEFINE e == pte[current][va]
  <2>1. PICK f \in Grant(1) :
          \/ /\ pte' = [pte EXCEPT ![current][va] = [pa |-> f[1], perm |-> CowPerm(e)]]
             /\ UNCHANGED table
             /\ Return
          \/ Panic
    BY <1>4 DEF CowCopy
  <2>. QED  BY <1>2, <2>1, PanicRuns DEF RunInv
<1>5. CASE CowNoMemory(va)
  BY <1>5, ExitRuns DEF CowNoMemory, RunInv
<1>. QED  BY <1>3, <1>4, <1>5

LEMMA StoreRuns ==
  ASSUME RunInv, NEW va \in VAs, NEW v \in Values, Store(va, v)
  PROVE  LiveTables' /\ Running'
BY EntriesRun DEF Store

LEMMA MunmapRuns ==
  ASSUME RunInv, NEW c \in UnmapCalls, Munmap(c)
  PROVE  LiveTables' /\ Running'
<1>. DEFINE gone == {va \in c.va..(c.va + Ceil(c.len) - 1) :
                       va < MemSize /\ User(pte[current][va])}
<1>1. CASE Panic
  BY <1>1, PanicRuns DEF RunInv
<1>2. CASE ~Panic
  <2>1. /\ pte' = [pte EXCEPT ![current] =
                     [va \in VAs |-> IF va \in gone THEN Absent ELSE pte[current][va]]]
        /\ UNCHANGED table
        /\ Return
    BY <1>2 DEF Munmap
  <2>2. ASSUME NEW p \in Pids, NEW w \in VAs, Present(pte'[p][w])
        PROVE  Present(pte[p][w])
    BY <2>1, <2>2 DEF Absent, Present, RunInv, TypeInv, TypeOK, MemTypeOK
  <2>. QED  BY <2>1, <2>2, EntriesRun
<1>. QED  BY <1>1, <1>2

LEMMA MmapPagesRuns ==
  ASSUME RunInv, NEW va \in VAs, NEW len \in Nat \ {0}, NEW perm, MmapPages(va, len, perm)
  PROVE  LiveTables' /\ Running'
<1>. DEFINE Done(a, f) ==
       /\ pte' = [pte EXCEPT ![current] =
                    [w \in VAs |-> IF w \in a..(a + Ceil(len) - 1)
                                   THEN [pa |-> f[PageCall(a, len, w)], perm |-> perm]
                                   ELSE pte[current][w]]]
       /\ IF TableCall(a, len) = 0 THEN UNCHANGED table
          ELSE LinkTable(current, f[TableCall(a, len)])
<1>1. PICK a \in MmapAddr(va, len) : \E f \in Grant(NCalls(a, len)) : Done(a, f)
  BY DEF MmapPages
<1>2. PICK f \in Grant(NCalls(a, len)) : Done(a, f)
  BY <1>1
<1>3. a \in Nat /\ Ceil(len) \in Nat
  BY MmapAddrType, CeilType
<1>4. /\ UNCHANGED <<mode, current, state, sleep>> /\ mode = "user"
      /\ current \in Pids /\ HighTable \in Tables /\ HighTable \notin 0..LowTables
  BY PageTablesAssumption
     DEF MmapPages, Return, RunInv, TypeInv, TypeOK, HighTable, Tables
<1>5. CASE TableCall(a, len) = 0
  <2>1. table' = table
    BY <1>2, <1>5
  <2>2. table[current][HighTable] # NoPage \/ a + Ceil(len) <= HighVA
    BY <1>3, <1>5, PageTablesAssumption DEF TableCall
  <2>3. ASSUME NEW w \in VAs, Present(pte'[current][w]), w >= HighVA
        PROVE  Present(pte[current][w]) \/ table[current][HighTable] # NoPage
    <3>1. CASE w \in a..(a + Ceil(len) - 1)
      BY <1>3, <2>2, <2>3, <3>1, PageTablesAssumption DEF VAs
    <3>2. CASE w \notin a..(a + Ceil(len) - 1)
      BY <1>2, <1>4, <2>3, <3>2 DEF RunInv, TypeInv, TypeOK, MemTypeOK
    <3>. QED  BY <3>1, <3>2
  <2>4. \A p \in Pids : p # current => pte'[p] = pte[p]
    BY <1>2 DEF RunInv, TypeInv, TypeOK, MemTypeOK
  <2>. QED  BY <1>4, <2>1, <2>3, <2>4 DEF RunInv, LiveTables, Running
<1>6. CASE TableCall(a, len) # 0
  <2>1. TableCall(a, len) \in 1..NCalls(a, len)
    BY <1>3, <1>6, CallsType
  <2>2. f[TableCall(a, len)] \in Pages
    BY <2>1, GrantType
  <2>3. table' = [table EXCEPT ![current][HighTable] = f[TableCall(a, len)]]
    BY <1>2, <1>6 DEF LinkTable
  <2>4. table'[current][HighTable] # NoPage
    BY <1>4, <2>2, <2>3 DEF RunInv, TypeInv, TypeOK, MemTypeOK, Pages, NoPage
  <2>5. \A i \in 0..LowTables : table'[current][i] = table[current][i]
    BY <1>4, <2>3, PageTablesAssumption DEF RunInv, TypeInv, TypeOK, MemTypeOK, Tables
  <2>6. \A p \in Pids : p # current => table'[p] = table[p] /\ pte'[p] = pte[p]
    BY <1>2, <2>3 DEF RunInv, TypeInv, TypeOK, MemTypeOK
  <2>. QED  BY <1>4, <2>4, <2>5, <2>6 DEF RunInv, LiveTables, Running
<1>. QED  BY <1>5, <1>6

LEMMA MmapRollbackRuns ==
  ASSUME RunInv, NEW va \in VAs, NEW len \in Nat \ {0}, MmapRollback(va, len)
  PROVE  LiveTables' /\ Running'
<1>1. PICK a \in MmapAddr(va, len) :
        /\ TableCall(a, len) # 0
        /\ \E f \in Grant(TableCall(a, len)) : LinkTable(current, f[TableCall(a, len)])
  BY DEF MmapRollback
<1>2. PICK f \in Grant(TableCall(a, len)) : LinkTable(current, f[TableCall(a, len)])
  BY <1>1
<1>3. TableCall(a, len) \in 1..TableCall(a, len)
  BY <1>1, MmapAddrType, CallsType
<1>4. f[TableCall(a, len)] \in Pages
  BY <1>3, GrantType
<1>5. /\ UNCHANGED <<pte, mode, current, state, sleep>>
      /\ current \in Pids /\ HighTable \in Tables
  BY PageTablesAssumption
     DEF MmapRollback, Return, RunInv, TypeInv, TypeOK, HighTable, Tables
<1>6. ASSUME NEW p \in Pids, NEW i \in Tables, table[p][i] # NoPage
      PROVE  table'[p][i] # NoPage
  BY <1>2, <1>4, <1>5, <1>6 DEF LinkTable, RunInv, TypeInv, TypeOK, MemTypeOK, Pages, NoPage
<1>7. 0..LowTables \subseteq Tables
  BY PageTablesAssumption DEF Tables
<1>. QED  BY <1>5, <1>6, <1>7 DEF RunInv, LiveTables, Running

LEMMA MmapRuns ==
  ASSUME RunInv,
         \/ \E c \in MmapCalls : Mmap(c)
         \/ \E va \in AllocCalls : PageAlloc(va)
  PROVE  LiveTables' /\ Running'
<1>1. ASSUME NEW c \in MmapCalls, Mmap(c) PROVE LiveTables' /\ Running'
  <2>1. c.va \in VAs /\ c.len \in Nat \ {0}
    BY KernelAssumption, PageTablesAssumption DEF VAs
  <2>. QED  BY <1>1, <2>1, MmapPagesRuns, MmapRollbackRuns DEF Mmap
<1>2. ASSUME NEW va \in AllocCalls, PageAlloc(va) PROVE LiveTables' /\ Running'
  <2>1. va \in VAs
    BY KernelAssumption, PageTablesAssumption DEF VAs, ProcStart
  <2>. QED  BY <1>2, <2>1, MmapPagesRuns DEF PageAlloc
<1>. QED  BY <1>1, <1>2

(* Marking pages copy-on-write makes no page present that was not. *)
LEMMA MarkSharedPresent ==
  ASSUME NEW S \in SUBSET SharedPages, NEW va \in VAs, Present(MarkShared(S)[va])
  PROVE  Present(pte[current][va])
BY DEF MarkShared, SharedPages, User, Present

LEMMA ForkRuns == ASSUME RunInv, Fork PROVE LiveTables' /\ Running'
<1>1. PICK child \in FreeSlots, f \in Grant(ForkCalls) :
        /\ table' = [table EXCEPT ![child] =
                       [i \in Tables |-> IF i + 1 \in DOMAIN f THEN f[i + 1] ELSE NoPage]]
        /\ pte' = [pte EXCEPT
                     ![child] = [va \in VAs |-> IF va \in SharedPages \cup {0}
                                                THEN MarkShared(SharedPages)[va]
                                                ELSE Absent],
                     ![current] = MarkShared(SharedPages)]
        /\ state' = [state EXCEPT ![child] = "P_RUNNABLE"]
  BY DEF Fork
<1>2. /\ child \in Pids /\ current \in Pids /\ child # current
      /\ UNCHANGED <<mode, current, sleep>> /\ mode = "user"
  BY DEF FreeSlots, Fork, RunInv, Running, TypeInv, TypeOK
<1>3. f \in [1..ForkCalls -> Pages]
  BY GrantType
<1>4. \A i \in 0..LowTables : table'[child][i] # NoPage
  <2>1. ForkCalls \in {LowTables + 1, LowTables + 2}
    BY PageTablesAssumption DEF ForkCalls
  <2>2. ASSUME NEW i \in 0..LowTables
        PROVE  i \in Tables /\ i + 1 \in 1..ForkCalls
    BY <2>1, PageTablesAssumption DEF Tables
  <2>. QED  BY <1>1, <1>2, <1>3, <2>2 DEF RunInv, TypeInv, TypeOK, MemTypeOK, Pages, NoPage
<1>5. ASSUME NEW va \in VAs, Present(pte'[child][va]), va >= HighVA
      PROVE  table'[child][HighTable] # NoPage
  <2>1. va \in SharedPages
    <3>1. pte'[child] = [w \in VAs |-> IF w \in SharedPages \cup {0}
                                      THEN MarkShared(SharedPages)[w] ELSE Absent]
      BY <1>1, <1>2 DEF RunInv, TypeInv, TypeOK, MemTypeOK
    <3>2. va # 0
      BY <1>5, PageTablesAssumption DEF VAs
    <3>. QED  BY <1>5, <3>1, <3>2 DEF Absent, Present
  <2>2. ForkCalls = LowTables + 2
    BY <1>5, <2>1, PageTablesAssumption DEF ForkCalls
  <2>3. HighTable \in Tables /\ HighTable + 1 \in 1..ForkCalls
    BY <2>2, PageTablesAssumption DEF HighTable, Tables
  <2>. QED  BY <1>1, <1>2, <1>3, <2>3 DEF RunInv, TypeInv, TypeOK, MemTypeOK, Pages, NoPage
<1>6. ASSUME NEW p \in Pids, p # child
      PROVE  /\ table'[p] = table[p] /\ state'[p] = state[p]
             /\ \A va \in VAs : Present(pte'[p][va]) => Present(pte[p][va])
  <2>1. table'[p] = table[p] /\ state'[p] = state[p]
    BY <1>1, <1>6 DEF RunInv, TypeInv, TypeOK, MemTypeOK
  <2>2. CASE p = current
    <3>1. pte'[p] = MarkShared(SharedPages)
      BY <1>1, <1>2, <2>2 DEF RunInv, TypeInv, TypeOK, MemTypeOK
    <3>. QED  BY <2>1, <2>2, <3>1, MarkSharedPresent
  <2>3. CASE p # current
    BY <1>1, <1>6, <2>1, <2>3 DEF RunInv, TypeInv, TypeOK, MemTypeOK
  <2>. QED  BY <2>2, <2>3
<1>7. LiveTables'
  BY <1>4, <1>5, <1>6 DEF RunInv, LiveTables
<1>8. Running'
  BY <1>2, <1>6 DEF RunInv, Running
<1>. QED  BY <1>7, <1>8

LEMMA ForkRollbackRuns == ASSUME RunInv, ForkRollback PROVE LiveTables' /\ Running'
<1>. DEFINE S == {va \in SharedPages : va < HighVA}
<1>1. ASSUME NEW p \in Pids, NEW va \in VAs, Present(pte'[p][va])
      PROVE  Present(pte[p][va])
  <2>1. CASE p = current
    <3>1. pte'[p][va] = MarkShared(S)[va]
      BY <2>1 DEF ForkRollback, RunInv, TypeInv, TypeOK, MemTypeOK
    <3>. QED  BY <1>1, <2>1, <3>1, MarkSharedPresent
  <2>2. CASE p # current
    BY <1>1, <2>2 DEF ForkRollback, RunInv, TypeInv, TypeOK, MemTypeOK
  <2>. QED  BY <2>1, <2>2
<1>. QED  BY <1>1, EntriesRun DEF ForkRollback

LEMMA NextRuns == ASSUME RunInv, [Next]_vars PROVE RunInv'
<1>1. TypeInv'
  BY NextType DEF RunInv
<1>2. CASE Next
  <2>1. ASSUME Exit PROVE LiveTables' /\ Running'
    BY <2>1, ExitRuns DEF Exit, RunInv
  <2>. QED
    BY <1>1, <1>2, <2>1, SchedulingRuns, KillRuns, CowRuns, StoreRuns, MmapRuns, MunmapRuns,
       ForkRuns, ForkRollbackRuns DEF Next, RunInv
<1>3. CASE UNCHANGED vars
  BY <1>1, <1>3 DEF vars, RunInv, LiveTables, Running
<1>. QED  BY <1>2, <1>3

(* The process that run() resumes is runnable and awake, its root and low  *)
(* page tables are linked, and so is the high one if it maps a page there  *)
(* (kernel.cc:679-688, check_pagetable): no handler, not even a fork or an *)
(* mmap that runs out of memory halfway, leaves a process that cannot run. *)
THEOREM RunsLive == Spec => []RunsLiveProcess
<1>1. Init => RunInv
  BY InitType, InitRuns DEF RunInv
<1>2. RunInv /\ [Next]_vars => RunInv'
  BY NextRuns
<1>3. RunInv => RunsLiveProcess
  BY DEF RunInv, TypeInv, TypeOK, LiveTables, Running, RunsLiveProcess
<1>. QED  BY <1>1, <1>2, <1>3, PTL DEF Spec

-----------------------------------------------------------------------------
(* Sharing: reference counts, copy-on-write, and the refinement of         *)
(* PrivateMemory.  Every step is described by what it does to the set of   *)
(* entries, and of table slots, that name a page; the difference between   *)
(* the count of the page and the size of these sets, Spare, never becomes  *)
(* negative, and that is what makes the rest hold.                         *)

-----------------------------------------------------------------------------
(* Counting references.  The entries e that map page pg, and the slots of  *)
(* t that hold it; of one process, its part of both.                       *)
UsesOf(e, pg) == {m \in Pids \X VAs : Present(e[m[1]][m[2]]) /\ e[m[1]][m[2]].pa = pg}
SlotsOf(t, pg) == {s \in TableSlots : t[s[1]][s[2]] = pg}

Held(e, p, pg) == {va \in VAs : Present(e[p][va]) /\ e[p][va].pa = pg}
Owned(t, p, pg) == {i \in Tables : t[p][i] = pg}

(* What pg is counted beyond the references to it.                         *)
Spare(pg) == refcount[pg] - (Cardinality(UsesOf(pte, pg)) + Cardinality(SlotsOf(table, pg)))

(* There are finitely many of each.                                        *)
LEMMA RefsFinite ==
  /\ IsFiniteSet(Pids) /\ IsFiniteSet(VAs) /\ IsFiniteSet(Tables)
  /\ IsFiniteSet(Pids \X VAs) /\ IsFiniteSet(TableSlots)
<1>1. IsFiniteSet(Pids) /\ IsFiniteSet(VAs) /\ IsFiniteSet(Tables)
  BY PageTablesAssumption, FS_Interval DEF Pids, VAs, Tables
<1>. QED BY <1>1, FS_Product DEF TableSlots

LEMMA CountTypes ==
  ASSUME NEW e, NEW t, NEW p, NEW pg
  PROVE  /\ IsFiniteSet(UsesOf(e, pg)) /\ Cardinality(UsesOf(e, pg)) \in Nat
         /\ IsFiniteSet(SlotsOf(t, pg)) /\ Cardinality(SlotsOf(t, pg)) \in Nat
         /\ IsFiniteSet(Held(e, p, pg)) /\ Cardinality(Held(e, p, pg)) \in Nat
         /\ IsFiniteSet(Owned(t, p, pg)) /\ Cardinality(Owned(t, p, pg)) \in Nat
<1>1. /\ UsesOf(e, pg) \in SUBSET (Pids \X VAs) /\ SlotsOf(t, pg) \in SUBSET TableSlots
      /\ Held(e, p, pg) \in SUBSET VAs /\ Owned(t, p, pg) \in SUBSET Tables
  BY DEF UsesOf, SlotsOf, Held, Owned
<1>2. /\ IsFiniteSet(UsesOf(e, pg)) /\ IsFiniteSet(SlotsOf(t, pg))
      /\ IsFiniteSet(Held(e, p, pg)) /\ IsFiniteSet(Owned(t, p, pg))
  BY <1>1, RefsFinite, FS_Subset
<1>. QED BY <1>2, FS_CardinalityType

(* A row of a table is as large as what is in it.                          *)
LEMMA RowSize ==
  ASSUME NEW p, NEW V, IsFiniteSet(V)
  PROVE  IsFiniteSet({p} \X V) /\ Cardinality({p} \X V) = Cardinality(V)
<1>1. IsFiniteSet({p}) /\ Cardinality({p}) = 1
  BY FS_Singleton
<1>2. /\ IsFiniteSet({p} \X V)
      /\ Cardinality({p} \X V) = Cardinality({p}) * Cardinality(V)
  BY <1>1, FS_Product
<1>3. Cardinality(V) \in Nat
  BY FS_CardinalityType
<1>. QED BY <1>1, <1>2, <1>3

(* Removing a row of a set removes as many elements.                       *)
LEMMA RowOut ==
  ASSUME NEW S, IsFiniteSet(S), NEW p, NEW V, IsFiniteSet(V), {p} \X V \subseteq S
  PROVE  /\ Cardinality(S \ ({p} \X V)) = Cardinality(S) - Cardinality(V)
<1>1. IsFiniteSet({p} \X V) /\ Cardinality({p} \X V) = Cardinality(V)
  BY RowSize
<1>. DEFINE T == {p} \X V
<1>2. S \cap T = T /\ Cardinality(T) = Cardinality(V)
  BY <1>1
<1>. HIDE DEF T
<1>3. Cardinality(S \ T) = Cardinality(S) - Cardinality(S \cap T)
  BY FS_Difference
<1>. QED BY <1>2, <1>3 DEF T

(* If only the entries of p change, so does only its part of the count.    *)
LEMMA UsesChange ==
  ASSUME NEW e, NEW d, NEW p \in Pids, NEW pg, \A q \in Pids : q # p => d[q] = e[q]
  PROVE  Cardinality(UsesOf(d, pg)) - Cardinality(Held(d, p, pg))
           = Cardinality(UsesOf(e, pg)) - Cardinality(Held(e, p, pg))
<1>1. ASSUME NEW c
      PROVE  Cardinality(UsesOf(c, pg) \ ({p} \X Held(c, p, pg)))
               = Cardinality(UsesOf(c, pg)) - Cardinality(Held(c, p, pg))
  <2>1. {p} \X Held(c, p, pg) \subseteq UsesOf(c, pg)
    BY DEF UsesOf, Held
  <2>. QED BY <2>1, RowOut, CountTypes
<1>2. UsesOf(d, pg) \ ({p} \X Held(d, p, pg)) = UsesOf(e, pg) \ ({p} \X Held(e, p, pg))
  <2>1. ASSUME NEW c, NEW m
        PROVE  m \in UsesOf(c, pg) \ ({p} \X Held(c, p, pg))
                 <=> m \in Pids \X VAs /\ m[1] # p /\ Present(c[m[1]][m[2]]) /\ c[m[1]][m[2]].pa = pg
    BY DEF UsesOf, Held
  <2>. QED BY <2>1
<1>. QED BY <1>1, <1>2

LEMMA SlotsChange ==
  ASSUME NEW t, NEW d, NEW p \in Pids, NEW pg, \A q \in Pids : q # p => d[q] = t[q]
  PROVE  Cardinality(SlotsOf(d, pg)) - Cardinality(Owned(d, p, pg))
           = Cardinality(SlotsOf(t, pg)) - Cardinality(Owned(t, p, pg))
<1>1. ASSUME NEW c
      PROVE  Cardinality(SlotsOf(c, pg) \ ({p} \X Owned(c, p, pg)))
               = Cardinality(SlotsOf(c, pg)) - Cardinality(Owned(c, p, pg))
  <2>1. {p} \X Owned(c, p, pg) \subseteq SlotsOf(c, pg)
    BY DEF SlotsOf, Owned, TableSlots
  <2>. QED BY <2>1, RowOut, CountTypes
<1>2. SlotsOf(d, pg) \ ({p} \X Owned(d, p, pg)) = SlotsOf(t, pg) \ ({p} \X Owned(t, p, pg))
  <2>1. ASSUME NEW c, NEW m
        PROVE  m \in SlotsOf(c, pg) \ ({p} \X Owned(c, p, pg))
                 <=> m \in Pids \X Tables /\ m[1] # p /\ c[m[1]][m[2]] = pg
    BY DEF SlotsOf, Owned, TableSlots
  <2>. QED BY <2>1
<1>. QED BY <1>1, <1>2

(* A page with two references is counted twice, and with one, once.        *)
LEMMA TwoUses ==
  ASSUME NEW S, IsFiniteSet(S), NEW m \in S, NEW n \in S, m # n
  PROVE  Cardinality(S) >= 2
<1>1. IsFiniteSet(S \ {m}) /\ Cardinality(S \ {m}) = Cardinality(S) - 1
  BY FS_RemoveElement
<1>2. IsFiniteSet((S \ {m}) \ {n}) /\ Cardinality((S \ {m}) \ {n}) = Cardinality(S \ {m}) - 1
  BY <1>1, FS_RemoveElement
<1>3. Cardinality((S \ {m}) \ {n}) \in Nat /\ Cardinality(S) \in Nat
  BY <1>2, FS_CardinalityType
<1>. QED BY <1>1, <1>2, <1>3

LEMMA OneUse ==
  ASSUME NEW S, IsFiniteSet(S), NEW m \in S
  PROVE  Cardinality(S) >= 1
<1>1. Cardinality(S) \in Nat /\ Cardinality(S) # 0
  BY FS_EmptySet, FS_CardinalityType
<1>. QED BY <1>1

LEMMA SpareType ==
  ASSUME NEW pg, refcount[pg] \in Int
  PROVE  Spare(pg) \in Int
BY CountTypes DEF Spare

(* A step that changes entries and tables of one process only.             *)
LEMMA SpareChange ==
  ASSUME NEW p \in Pids, NEW pg, refcount[pg] \in Int, refcount'[pg] \in Int,
         \A q \in Pids : q # p => pte'[q] = pte[q] /\ table'[q] = table[q]
  PROVE  Spare(pg)' = Spare(pg) + (refcount'[pg] - refcount[pg])
                      - (Cardinality(Held(pte', p, pg)) - Cardinality(Held(pte, p, pg)))
                      - (Cardinality(Owned(table', p, pg)) - Cardinality(Owned(table, p, pg)))
<1>1. Cardinality(UsesOf(pte', pg)) - Cardinality(Held(pte', p, pg))
        = Cardinality(UsesOf(pte, pg)) - Cardinality(Held(pte, p, pg))
  BY UsesChange
<1>2. Cardinality(SlotsOf(table', pg)) - Cardinality(Owned(table', p, pg))
        = Cardinality(SlotsOf(table, pg)) - Cardinality(Owned(table, p, pg))
  BY SlotsChange
<1>3. Spare(pg)' = refcount'[pg] - (Cardinality(UsesOf(pte', pg)) + Cardinality(SlotsOf(table', pg)))
  BY DEF Spare, UsesOf, SlotsOf
<1>4. /\ Cardinality(UsesOf(pte', pg)) \in Nat /\ Cardinality(SlotsOf(table', pg)) \in Nat
      /\ Cardinality(Held(pte', p, pg)) \in Nat /\ Cardinality(Owned(table', p, pg)) \in Nat
      /\ Cardinality(UsesOf(pte, pg)) \in Nat /\ Cardinality(SlotsOf(table, pg)) \in Nat
      /\ Cardinality(Held(pte, p, pg)) \in Nat /\ Cardinality(Owned(table, p, pg)) \in Nat
  BY CountTypes
<1>5. Spare(pg) = refcount[pg] - (Cardinality(UsesOf(pte, pg)) + Cardinality(SlotsOf(table, pg)))
  BY DEF Spare
<1>. DEFINE u == Cardinality(UsesOf(pte', pg))    v == Cardinality(UsesOf(pte, pg))
            s == Cardinality(SlotsOf(table', pg)) t == Cardinality(SlotsOf(table, pg))
            h == Cardinality(Held(pte', p, pg))   k == Cardinality(Held(pte, p, pg))
            o == Cardinality(Owned(table', p, pg)) q == Cardinality(Owned(table, p, pg))
            c == refcount'[pg]                    d == refcount[pg]
            y == Spare(pg)'                       x == Spare(pg)
<1>6. /\ u - h = v - k /\ s - o = t - q /\ y = c - (u + s) /\ x = d - (v + t)
      /\ u \in Int /\ v \in Int /\ s \in Int /\ t \in Int /\ h \in Int /\ k \in Int
      /\ o \in Int /\ q \in Int /\ c \in Int /\ d \in Int
  BY <1>1, <1>2, <1>3, <1>4, <1>5
<1>. HIDE DEF u, v, s, t, h, k, o, q, c, d, x, y
<1>7. y = x + (c - d) - (h - k) - (o - q)
  BY <1>6
<1>. QED BY <1>7 DEF u, v, s, t, h, k, o, q, c, d, x, y

(* What a process holds is part of the whole.                              *)
LEMMA PartOf ==
  ASSUME NEW e, NEW t, NEW p \in Pids, NEW pg
  PROVE  /\ Cardinality(Held(e, p, pg)) <= Cardinality(UsesOf(e, pg))
         /\ Cardinality(Owned(t, p, pg)) <= Cardinality(SlotsOf(t, pg))
<1>1. {p} \X Held(e, p, pg) \in SUBSET UsesOf(e, pg) /\ {p} \X Owned(t, p, pg) \in SUBSET SlotsOf(t, pg)
  BY DEF UsesOf, Held, SlotsOf, Owned, TableSlots
<1>2. /\ Cardinality({p} \X Held(e, p, pg)) <= Cardinality(UsesOf(e, pg))
      /\ Cardinality({p} \X Owned(t, p, pg)) <= Cardinality(SlotsOf(t, pg))
  BY <1>1, CountTypes, FS_Subset
<1>. QED BY <1>2, RowSize, CountTypes

-----------------------------------------------------------------------------
(* The inductive invariant of sharing.  The low page that a process may    *)
(* access is the console,                                                  *)
ConsoleOnly == \A p \in Pids : Present(pte[p][0]) => pte[p][0].pa = Console

(* a slot that is free maps nothing and has no tables,                     *)
FreeEmpty == \A p \in Pids : state[p] = "P_FREE" => pte[p] = NoEntries /\ table[p] = NoTables

(* and every reference to a page is counted.  A count may be higher: a     *)
(* mapping past the end of process memory is never freed.                  *)
Covered == \A pg \in Pages : Spare(pg) >= 0

SharingInv == RunInv /\ ConsoleOnly /\ FreeEmpty /\ Covered /\ NoSharedWrites

(* No mapping lies past the end of process memory, and all are the user's. *)
Within ==
  \A p \in Pids, va \in VAs :
    Present(pte[p][va]) => va < MemSize /\ (va >= ProcStart => User(pte[p][va]))

(* A step keeps what is spare, or adds to it,                              *)
Grows == \A pg \in Pages : Spare(pg)' >= Spare(pg)

(* and keeps it exactly.                                                   *)
Keeps == \A pg \in Pages : Spare(pg)' = Spare(pg)

(* A page that is free is not referred to.                                 *)
LEMMA FreeUnused ==
  ASSUME Covered, NEW pg \in Pages, refcount[pg] = 0
  PROVE  /\ UsesOf(pte, pg) = {} /\ SlotsOf(table, pg) = {}
         /\ \A p \in Pids : Held(pte, p, pg) = {} /\ Owned(table, p, pg) = {}
         /\ Spare(pg) = 0
<1>1. /\ IsFiniteSet(UsesOf(pte, pg)) /\ Cardinality(UsesOf(pte, pg)) \in Nat
      /\ IsFiniteSet(SlotsOf(table, pg)) /\ Cardinality(SlotsOf(table, pg)) \in Nat
  BY CountTypes
<1>2. Cardinality(UsesOf(pte, pg)) = 0 /\ Cardinality(SlotsOf(table, pg)) = 0
  BY <1>1 DEF Covered, Spare
<1>3. UsesOf(pte, pg) = {} /\ SlotsOf(table, pg) = {}
  BY <1>1, <1>2, FS_EmptySet
<1>4. ASSUME NEW p \in Pids
      PROVE  Held(pte, p, pg) = {} /\ Owned(table, p, pg) = {}
  <2>1. ASSUME NEW va \in Held(pte, p, pg) PROVE <<p, va>> \in UsesOf(pte, pg)
    BY DEF UsesOf, Held
  <2>2. ASSUME NEW i \in Owned(table, p, pg) PROVE <<p, i>> \in SlotsOf(table, pg)
    BY DEF SlotsOf, Owned, TableSlots
  <2>. QED BY <1>3, <2>1, <2>2
<1>. QED BY <1>2, <1>3, <1>4 DEF Spare

(* kfree is never called more often than the count allows when a process   *)
(* is taken apart, and the references go with the count.                   *)
LEMMA EverythingIs ==
  ASSUME TypeInv, ConsoleOnly, NEW p \in Pids, NEW pg \in Pages
  PROVE  /\ Everything(p)[pg] \in Nat
         /\ Everything(p)[pg] <= Cardinality(Held(pte, p, pg)) + Cardinality(Owned(table, p, pg))
         /\ Within => Everything(p)[pg] = Cardinality(Held(pte, p, pg)) + Cardinality(Owned(table, p, pg))
<1>. DEFINE U == {va \in 0..(MemSize - 1) : User(pte[p][va]) /\ pte[p][va].pa = pg}
<1>1. Everything(p)[pg] = Cardinality(U) + Cardinality(Owned(table, p, pg))
  BY DEF Everything, UserCount, TableCount, Owned
<1>2. U \subseteq Held(pte, p, pg)
  BY PageTablesAssumption DEF Held, VAs, User, Present
<1>3. IsFiniteSet(U) /\ Cardinality(U) \in Nat /\ Cardinality(U) <= Cardinality(Held(pte, p, pg))
  BY <1>2, CountTypes, FS_Subset, FS_CardinalityType
<1>4. Within => U = Held(pte, p, pg)
  <2>. SUFFICES ASSUME Within, NEW va \in Held(pte, p, pg) PROVE va \in U
    BY <1>2
  <2>1. va \in VAs /\ Present(pte[p][va]) /\ pte[p][va].pa = pg
    BY DEF Held
  <2>2. va # 0
    BY <2>1, PageTablesAssumption DEF ConsoleOnly, Console, Pages
  <2>3. va < MemSize /\ User(pte[p][va]) /\ va >= 0
    BY <2>1, <2>2, PageTablesAssumption DEF Within, VAs, ProcStart
  <2>. QED BY <2>1, <2>3, PageTablesAssumption DEF VAs
<1>5. Cardinality(Held(pte, p, pg)) \in Nat /\ Cardinality(Owned(table, p, pg)) \in Nat
  BY CountTypes
<1>. HIDE DEF U
<1>. QED BY <1>1, <1>3, <1>4, <1>5

LEMMA EverythingCovered ==
  ASSUME TypeInv, ConsoleOnly, Covered, NEW p \in Pids
  PROVE  KfreeAsserts(Everything(p))
<1>. SUFFICES ASSUME NEW pg \in Pages PROVE Everything(p)[pg] <= refcount[pg]
  BY DEF KfreeAsserts
<1>1. Everything(p)[pg] \in Nat /\ refcount[pg] \in Nat
  BY EverythingIs DEF TypeInv, TypeOK, MemTypeOK
<1>2. Cardinality(UsesOf(pte, pg)) + Cardinality(SlotsOf(table, pg)) <= refcount[pg]
  BY <1>1, CountTypes DEF Covered, Spare
<1>. QED BY <1>1, <1>2, EverythingIs, PartOf, CountTypes

LEMMA DiscardSpare ==
  ASSUME TypeInv, ConsoleOnly, NEW p \in Pids, Discard(p)
  PROVE  Grows /\ (Within => Keeps)
<1>. SUFFICES ASSUME NEW pg \in Pages
              PROVE  Spare(pg)' >= Spare(pg) /\ (Within => Spare(pg)' = Spare(pg))
  BY DEF Grows, Keeps
<1>1. refcount[pg] \in Nat /\ Everything(p)[pg] \in Nat /\ refcount'[pg] = refcount[pg] - Everything(p)[pg]
  BY EverythingIs DEF Discard, Kfree, TypeInv, TypeOK, MemTypeOK
<1>2. /\ \A q \in Pids : q # p => pte'[q] = pte[q] /\ table'[q] = table[q]
      /\ pte'[p] = NoEntries /\ table'[p] = NoTables
  BY DEF Discard, TypeInv, TypeOK, MemTypeOK
<1>3. Held(pte', p, pg) = {} /\ Owned(table', p, pg) = {}
  BY <1>2 DEF Held, Owned, NoEntries, NoTables, Absent, Present, NoPage, Pages
<1>4. Cardinality({}) = 0
  BY FS_EmptySet
<1>5. /\ Spare(pg) \in Int
      /\ Cardinality(Held(pte, p, pg)) \in Nat /\ Cardinality(Owned(table, p, pg)) \in Nat
  BY <1>1, CountTypes, SpareType
<1>6. Spare(pg)' = Spare(pg) + (refcount'[pg] - refcount[pg])
                   - (Cardinality(Held(pte', p, pg)) - Cardinality(Held(pte, p, pg)))
                   - (Cardinality(Owned(table', p, pg)) - Cardinality(Owned(table, p, pg)))
  BY <1>1, <1>2, SpareChange
<1>7. Spare(pg)' = Spare(pg) - Everything(p)[pg]
                   + Cardinality(Held(pte, p, pg)) + Cardinality(Owned(table, p, pg))
  BY <1>1, <1>3, <1>4, <1>5, <1>6
<1>. QED BY <1>1, <1>5, <1>7, EverythingIs

(* Changing permissions only changes no count.                             *)
LEMMA SameUses ==
  ASSUME NEW e, NEW d, NEW pg,
         \A p \in Pids, va \in VAs :
           (Present(d[p][va]) <=> Present(e[p][va])) /\ d[p][va].pa = e[p][va].pa
  PROVE  UsesOf(d, pg) = UsesOf(e, pg)
BY DEF UsesOf

LEMMA SamePages ==
  ASSUME UNCHANGED <<refcount, table>>,
         \A p \in Pids, va \in VAs :
           (Present(pte'[p][va]) <=> Present(pte[p][va])) /\ pte'[p][va].pa = pte[p][va].pa
  PROVE  Keeps
<1>. SUFFICES ASSUME NEW pg \in Pages PROVE Spare(pg)' = Spare(pg)
  BY DEF Keeps
<1>1. UsesOf(pte', pg) = UsesOf(pte, pg)
  BY SameUses
<1>2. Spare(pg)' = refcount'[pg] - (Cardinality(UsesOf(pte', pg)) + Cardinality(SlotsOf(table', pg)))
  BY DEF Spare, UsesOf, SlotsOf
<1>. QED BY <1>1, <1>2 DEF Spare

LEMMA CowReuseSpare ==
  ASSUME TypeInv, NEW va \in VAs, CowReuse(va)
  PROVE  Keeps
<1>. DEFINE e == pte[current][va]
<1>1. Present(e) /\ current \in Pids /\ pte \in [Pids -> [VAs -> Entries]]
  BY CowEntry DEF CowReuse, TypeInv, TypeOK, MemTypeOK
<1>2. Present([pa |-> e.pa, perm |-> CowPerm(e)])
  BY <1>1 DEF CowPerm, Present
<1>3. pte' = [pte EXCEPT ![current][va] = [pa |-> e.pa, perm |-> CowPerm(e)]]
      /\ UNCHANGED <<refcount, table>>
  BY DEF CowReuse
<1>4. ASSUME NEW p \in Pids, NEW w \in VAs
      PROVE  (Present(pte'[p][w]) <=> Present(pte[p][w])) /\ pte'[p][w].pa = pte[p][w].pa
  <2>1. CASE p = current /\ w = va
    <3>1. pte'[p][w] = [pa |-> e.pa, perm |-> CowPerm(e)]
      BY <1>1, <1>3, <2>1
    <3>. QED BY <1>1, <1>2, <2>1, <3>1
  <2>2. CASE ~(p = current /\ w = va)
    BY <1>1, <1>3, <2>2
  <2>. QED BY <2>1, <2>2
<1>. QED BY <1>3, <1>4, SamePages

(* The entry moves from the old page to the new one.                       *)
LEMMA CowCopySpare ==
  ASSUME TypeInv, Covered, NEW va \in VAs, NEW old, NEW new, NEW perm,
         va >= ProcStart, Present(pte[current][va]), pte[current][va].pa = old, old \in Pages,
         new \in Pages, refcount[new] = 0, "P" \in perm,
         pte' = [pte EXCEPT ![current][va] = [pa |-> new, perm |-> perm]],
         MoveReference(old, new), UNCHANGED table
  PROVE  Keeps
<1>. SUFFICES ASSUME NEW pg \in Pages PROVE Spare(pg)' = Spare(pg)
  BY DEF Keeps
<1>1. /\ current \in Pids /\ pte \in [Pids -> [VAs -> Entries]] /\ refcount \in [Pages -> Nat]
  BY DEF TypeInv, TypeOK, MemTypeOK
<1>2. va \in Held(pte, current, old) /\ Held(pte, current, new) = {} /\ old # new
  <2>1. va \in Held(pte, current, old)
    BY DEF Held
  <2>2. Held(pte, current, new) = {}
    BY <1>1, FreeUnused
  <2>. QED BY <2>1, <2>2
<1>3. /\ pte'[current][va] = [pa |-> new, perm |-> perm]
      /\ \A w \in VAs : w # va => pte'[current][w] = pte[current][w]
      /\ \A q \in Pids : q # current => pte'[q] = pte[q] /\ table'[q] = table[q]
      /\ Owned(table', current, pg) = Owned(table, current, pg)
  BY <1>1 DEF Owned
<1>4. refcount' = [refcount EXCEPT ![new] = 1, ![old] = @ - 1]
  BY DEF MoveReference
<1>5. refcount'[pg] = IF pg = new THEN 1 ELSE IF pg = old THEN refcount[pg] - 1 ELSE refcount[pg]
  BY <1>1, <1>2, <1>4
<1>6. refcount[pg] \in Int /\ refcount'[pg] \in Int /\ refcount[new] = 0
  BY <1>1, <1>5
<1>7. Spare(pg)' = Spare(pg) + (refcount'[pg] - refcount[pg])
                   - (Cardinality(Held(pte', current, pg)) - Cardinality(Held(pte, current, pg)))
                   - (Cardinality(Owned(table', current, pg)) - Cardinality(Owned(table, current, pg)))
  BY <1>1, <1>3, <1>6, SpareChange
<1>8. /\ Spare(pg) \in Int /\ Cardinality(Owned(table, current, pg)) \in Nat
      /\ Cardinality(Held(pte, current, pg)) \in Nat /\ IsFiniteSet(Held(pte, current, pg))
  BY <1>6, CountTypes, SpareType
<1>9. Cardinality(Held(pte', current, pg)) - Cardinality(Held(pte, current, pg))
        = refcount'[pg] - refcount[pg]
  <2>1. CASE pg = new
    <3>1. Held(pte', current, pg) = {va}
      BY <1>2, <1>3, <2>1 DEF Held, Present
    <3>2. Cardinality({va}) = 1 /\ Cardinality({}) = 0
      BY FS_Singleton, FS_EmptySet
    <3>. QED BY <1>2, <1>5, <1>6, <2>1, <3>1, <3>2
  <2>2. CASE pg = old
    <3>1. Held(pte', current, pg) = Held(pte, current, pg) \ {va}
      BY <1>2, <1>3, <2>2 DEF Held
    <3>2. Cardinality(Held(pte, current, pg) \ {va}) = Cardinality(Held(pte, current, pg)) - 1
      BY <1>2, <1>8, <2>2, FS_RemoveElement
    <3>3. refcount'[pg] = refcount[pg] - 1
      BY <1>2, <1>5, <2>2
    <3>4. Cardinality(Held(pte', current, pg)) = Cardinality(Held(pte, current, pg)) - 1
      BY <3>1, <3>2, Zenon
    <3>. QED BY <1>6, <1>8, <3>3, <3>4
  <2>3. CASE pg # new /\ pg # old
    <3>1. Held(pte', current, pg) = Held(pte, current, pg)
      BY <1>3, <2>3 DEF Held
    <3>. QED BY <1>5, <1>6, <1>8, <2>3, <3>1
  <2>. QED BY <2>1, <2>2, <2>3
<1>. QED BY <1>3, <1>6, <1>7, <1>8, <1>9

(* sys_munmap drops one reference for each entry it clears.                *)
LEMMA MunmapSpare ==
  ASSUME TypeInv, NEW gone \in SUBSET VAs, \A va \in gone : Present(pte[current][va]),
         Kfree([pg \in Pages |-> Cardinality({va \in gone : pte[current][va].pa = pg})]),
         pte' = [pte EXCEPT ![current] = [va \in VAs |-> IF va \in gone THEN Absent
                                                         ELSE pte[current][va]]],
         UNCHANGED table
  PROVE  Keeps
<1>. SUFFICES ASSUME NEW pg \in Pages PROVE Spare(pg)' = Spare(pg)
  BY DEF Keeps
<1>. DEFINE G == {va \in gone : pte[current][va].pa = pg}
<1>1. /\ current \in Pids /\ pte \in [Pids -> [VAs -> Entries]] /\ refcount \in [Pages -> Nat]
  BY DEF TypeInv, TypeOK, MemTypeOK
<1>2. G \subseteq Held(pte, current, pg) /\ IsFiniteSet(G) /\ Cardinality(G) \in Nat
  <2>1. G \in SUBSET Held(pte, current, pg)
    BY DEF Held
  <2>. QED BY <2>1, CountTypes, FS_Subset, FS_CardinalityType
<1>3. refcount'[pg] = refcount[pg] - Cardinality(G)
  BY DEF Kfree
<1>4. /\ \A w \in VAs : pte'[current][w] = IF w \in gone THEN Absent ELSE pte[current][w]
      /\ \A q \in Pids : q # current => pte'[q] = pte[q] /\ table'[q] = table[q]
      /\ Owned(table', current, pg) = Owned(table, current, pg)
  BY <1>1 DEF Owned
<1>5. Held(pte', current, pg) = Held(pte, current, pg) \ G
  BY <1>4 DEF Held, Absent, Present
<1>6. Cardinality(Held(pte', current, pg)) = Cardinality(Held(pte, current, pg)) - Cardinality(G)
  <2>1. Held(pte, current, pg) \cap G = G
    BY <1>2
  <2>. HIDE DEF G
  <2>2. Cardinality(Held(pte, current, pg) \ G)
          = Cardinality(Held(pte, current, pg)) - Cardinality(Held(pte, current, pg) \cap G)
    BY CountTypes, FS_Difference
  <2>. QED BY <1>5, <2>1, <2>2
<1>7. refcount[pg] \in Int /\ refcount'[pg] \in Int
  BY <1>1, <1>2, <1>3
<1>8. Spare(pg)' = Spare(pg) + (refcount'[pg] - refcount[pg])
                   - (Cardinality(Held(pte', current, pg)) - Cardinality(Held(pte, current, pg)))
                   - (Cardinality(Owned(table', current, pg)) - Cardinality(Owned(table, current, pg)))
  BY <1>1, <1>4, <1>7, SpareChange
<1>9. /\ Spare(pg) \in Int /\ Cardinality(Owned(table, current, pg)) \in Nat
      /\ Cardinality(Held(pte, current, pg)) \in Nat
  BY <1>7, CountTypes, SpareType
<1>. HIDE DEF G
<1>. QED BY <1>2, <1>3, <1>4, <1>6, <1>7, <1>8, <1>9

(* The pages that successive calls of kalloc return are different.         *)
LEMMA GrantDiffers ==
  ASSUME NEW n \in Nat, NEW f \in Grant(n), NEW i \in 1..n, NEW j \in 1..n, i # j
  PROVE  f[i] # f[j]
<1>1. f[i] \in Nat /\ f[j] \in Nat
  BY GrantType, PageTablesAssumption DEF Pages
<1>2. i < j \/ j < i
  OBVIOUS
<1>3. i < j => f[i] < f[j]
  BY DEF Grant
<1>4. j < i => f[j] < f[i]
  BY DEF Grant
<1>. QED BY <1>1, <1>2, <1>3, <1>4

(* Each call of kalloc in syscall_mmap is for one page, or for the table.  *)
LEMMA CallsOnto ==
  ASSUME NEW a \in Nat, NEW len \in Nat \ {0}
  PROVE  /\ \A w, x \in a..(a + Ceil(len) - 1) : PageCall(a, len, w) = PageCall(a, len, x) => w = x
         /\ \A w \in a..(a + Ceil(len) - 1) : /\ PageCall(a, len, w) \in 1..NCalls(a, len)
                                              /\ PageCall(a, len, w) # TableCall(a, len)
         /\ \A i \in 1..NCalls(a, len) : i # TableCall(a, len) =>
              \E w \in a..(a + Ceil(len) - 1) : PageCall(a, len, w) = i
<1>. DEFINE n == Ceil(len)  c == TableCall(a, len)
<1>1. n \in Nat /\ n >= 1
  BY CeilType
<1>2. c \in Nat /\ c <= n + 1
  BY <1>1, PageTablesAssumption DEF TableCall
<1>3. NCalls(a, len) = n + IF c = 0 THEN 0 ELSE 1
  BY DEF NCalls
<1>4. \A w : PageCall(a, len, w) = IF c # 0 /\ w - a + 1 >= c THEN w - a + 1 + 1 ELSE w - a + 1
  BY DEF PageCall
<1>. HIDE DEF n, c
<1>5. \A w, x \in a..(a + n - 1) : PageCall(a, len, w) = PageCall(a, len, x) => w = x
  BY <1>1, <1>2, <1>4
<1>6. \A w \in a..(a + n - 1) : /\ PageCall(a, len, w) \in 1..NCalls(a, len)
                                /\ PageCall(a, len, w) # c
  BY <1>1, <1>2, <1>3, <1>4
<1>7. ASSUME NEW i \in 1..NCalls(a, len), i # c
      PROVE  \E w \in a..(a + n - 1) : PageCall(a, len, w) = i
  <2>1. CASE c = 0 \/ i < c
    <3>1. a + i - 1 \in a..(a + n - 1) /\ PageCall(a, len, a + i - 1) = i
      BY <1>1, <1>2, <1>3, <1>4, <1>7, <2>1
    <3>. QED BY <3>1
  <2>2. CASE c # 0 /\ i > c
    <3>1. a + i - 2 \in a..(a + n - 1) /\ PageCall(a, len, a + i - 2) = i
      BY <1>1, <1>2, <1>3, <1>4, <1>7, <2>2
    <3>. QED BY <3>1
  <2>. QED BY <1>2, <1>3, <1>7, <2>1, <2>2
<1>. QED BY <1>5, <1>6, <1>7 DEF n, c

(* The range that is mapped lies within the modelled addresses.            *)
LEMMA MmapRange ==
  ASSUME NEW va \in 0..(MemSize - 1), NEW len \in Nat \ {0}, 2 * (MemSize - 1) + len <= 2 * Limit,
         NEW a \in MmapAddr(va, len)
  PROVE  a \in ProcStart..(MemSize - 1) /\ a..(a + Ceil(len) - 1) \subseteq VAs
<1>1. a \in ProcStart..(MemSize - 1)
  BY PageTablesAssumption DEF MmapAddr, FindFreeVmemory, Least, ProcStart
<1>2. a + Ceil(len) <= Limit /\ Ceil(len) \in Nat
  BY <1>1, PageTablesAssumption DEF Ceil, ProcStart
<1>. QED BY <1>1, <1>2, PageTablesAssumption DEF VAs, ProcStart

(* What syscall_mmap does once the address is found.                       *)
Mapped(a, len, perm, f) ==
  /\ Take(f)
  /\ pte' = [pte EXCEPT ![current] =
               [w \in VAs |-> IF w \in a..(a + Ceil(len) - 1)
                              THEN [pa |-> f[PageCall(a, len, w)], perm |-> perm]
                              ELSE pte[current][w]]]
  /\ IF TableCall(a, len) = 0 THEN UNCHANGED table
     ELSE LinkTable(current, f[TableCall(a, len)])

(* Its effect on one process,                                              *)
LEMMA MappedIs ==
  ASSUME TypeInv, NEW a \in Nat, NEW len \in Nat \ {0}, NEW perm,
         NEW f \in Grant(NCalls(a, len)), Mapped(a, len, perm, f)
  PROVE  /\ \A q \in Pids : q # current => pte'[q] = pte[q] /\ table'[q] = table[q]
         /\ \A w \in VAs : pte'[current][w] = IF w \in a..(a + Ceil(len) - 1)
                                              THEN [pa |-> f[PageCall(a, len, w)], perm |-> perm]
                                              ELSE pte[current][w]
         /\ \A i \in Tables : table'[current][i] = IF i = HighTable /\ TableCall(a, len) # 0
                                                   THEN f[TableCall(a, len)] ELSE table[current][i]
         /\ TableCall(a, len) # 0 => table[current][HighTable] = NoPage
<1>1. /\ current \in Pids /\ pte \in [Pids -> [VAs -> Entries]]
      /\ table \in [Pids -> [Tables -> Pages \cup {NoPage}]]
  BY DEF TypeInv, TypeOK, MemTypeOK
<1>2. TableCall(a, len) # 0 => table[current][HighTable] = NoPage
  BY DEF TableCall
<1>3. CASE TableCall(a, len) = 0
  BY <1>1, <1>2, <1>3 DEF Mapped
<1>4. CASE TableCall(a, len) # 0
  <2>1. table' = [table EXCEPT ![current][HighTable] = f[TableCall(a, len)]]
    BY <1>4 DEF Mapped, LinkTable
  <2>2. /\ \A q \in Pids : q # current => table'[q] = table[q]
        /\ \A i \in Tables : table'[current][i] = IF i = HighTable THEN f[TableCall(a, len)]
                                                  ELSE table[current][i]
    BY <1>1, <2>1
  <2>3. /\ \A q \in Pids : q # current => pte'[q] = pte[q]
        /\ \A w \in VAs : pte'[current][w] = IF w \in a..(a + Ceil(len) - 1)
                                             THEN [pa |-> f[PageCall(a, len, w)], perm |-> perm]
                                             ELSE pte[current][w]
    BY <1>1 DEF Mapped
  <2>. QED BY <1>2, <1>4, <2>2, <2>3
<1>. QED BY <1>3, <1>4

(* on a page that it takes,                                                *)
LEMMA MappedTaken ==
  ASSUME TypeInv, Covered, NEW a \in Nat, NEW len \in Nat \ {0}, NEW perm, "P" \in perm,
         a..(a + Ceil(len) - 1) \subseteq VAs,
         NEW f \in Grant(NCalls(a, len)), Mapped(a, len, perm, f), NEW i \in 1..NCalls(a, len)
  PROVE  Cardinality(Held(pte', current, f[i])) + Cardinality(Owned(table', current, f[i])) = 1
<1>. DEFINE R == a..(a + Ceil(len) - 1)  c == TableCall(a, len)
<1>1. f[i] \in Pages /\ refcount[f[i]] = 0 /\ NCalls(a, len) \in Nat /\ current \in Pids
  BY GrantType, CallsType DEF TypeInv, TypeOK
<1>2. Held(pte, current, f[i]) = {} /\ Owned(table, current, f[i]) = {}
  BY <1>1, FreeUnused
<1>3. \A w \in VAs : pte'[current][w] = IF w \in R
                                        THEN [pa |-> f[PageCall(a, len, w)], perm |-> perm]
                                        ELSE pte[current][w]
  BY MappedIs
<1>12. \A j \in Tables : table'[current][j] = IF j = HighTable /\ c # 0
                                              THEN f[c] ELSE table[current][j]
  BY MappedIs
<1>4. \A w \in R : PageCall(a, len, w) \in 1..NCalls(a, len)
  BY CallsOnto
<1>5. \A w \in R : f[PageCall(a, len, w)] = f[i] <=> PageCall(a, len, w) = i
  BY <1>1, <1>4, GrantDiffers
<1>6. \A w \in VAs : w \in Held(pte', current, f[i]) <=> w \in R /\ PageCall(a, len, w) = i
  <2>. SUFFICES ASSUME NEW w \in VAs
                PROVE  w \in Held(pte', current, f[i]) <=> w \in R /\ PageCall(a, len, w) = i
    OBVIOUS
  <2>1. CASE w \in R
    <3>1. pte'[current][w] = [pa |-> f[PageCall(a, len, w)], perm |-> perm]
      BY <1>3, <2>1
    <3>2. Present(pte'[current][w]) /\ pte'[current][w].pa = f[PageCall(a, len, w)]
      BY <3>1 DEF Present
    <3>. QED BY <1>5, <2>1, <3>2 DEF Held
  <2>2. CASE w \notin R
    <3>1. pte'[current][w] = pte[current][w] /\ w \notin Held(pte, current, f[i])
      BY <1>2, <1>3, <2>2
    <3>. QED BY <2>2, <3>1 DEF Held
  <2>. QED BY <2>1, <2>2
<1>7. c # 0 => c \in 1..NCalls(a, len) /\ (f[c] = f[i] <=> c = i)
  <2>1. c \in Nat /\ c <= NCalls(a, len)
    BY CallsType
  <2>2. c # 0 => c \in 1..NCalls(a, len)
    BY <1>1, <2>1
  <2>. QED BY <1>1, <2>2, GrantDiffers
<1>8. \A j \in Tables : j \in Owned(table', current, f[i]) <=> j = HighTable /\ c = i
  BY <1>2, <1>12, <1>7 DEF Owned
<1>9. HighTable \in Tables
  BY PageTablesAssumption DEF HighTable, Tables
<1>13. Cardinality({}) = 0 /\ \A x : Cardinality({x}) = 1
  BY FS_Singleton, FS_EmptySet
<1>10. CASE c = i
  <2>1. Held(pte', current, f[i]) = {}
    BY <1>6, <1>10, CallsOnto DEF Held
  <2>2. Owned(table', current, f[i]) = {HighTable}
    BY <1>8, <1>9, <1>10 DEF Owned
  <2>3. Cardinality(Held(pte', current, f[i])) = 0 /\ Cardinality(Owned(table', current, f[i])) = 1
    BY <1>13, <2>1, <2>2, Zenon
  <2>. QED BY <2>3
<1>11. CASE c # i
  <2>1. PICK w \in R : PageCall(a, len, w) = i
    BY <1>11, CallsOnto
  <2>2. Held(pte', current, f[i]) = {w}
    <3>1. \A x \in R : PageCall(a, len, x) = i => x = w
      BY <2>1, CallsOnto
    <3>. QED BY <1>6, <2>1, <3>1 DEF Held
  <2>3. Owned(table', current, f[i]) = {}
    BY <1>8, <1>11 DEF Owned
  <2>4. Cardinality(Held(pte', current, f[i])) = 1 /\ Cardinality(Owned(table', current, f[i])) = 0
    BY <1>13, <2>2, <2>3, Zenon
  <2>. QED BY <2>4
<1>. QED BY <1>10, <1>11

(* and on one that it does not take.                                       *)
LEMMA MappedSpare ==
  ASSUME TypeInv, Covered, NEW a \in Nat, NEW len \in Nat \ {0}, NEW perm, "P" \in perm,
         a..(a + Ceil(len) - 1) \subseteq VAs,
         NEW f \in Grant(NCalls(a, len)), Mapped(a, len, perm, f)
  PROVE  Grows /\ (AllAbsent(current, a..(a + Ceil(len) - 1)) => Keeps)
<1>. DEFINE R == a..(a + Ceil(len) - 1)  c == TableCall(a, len)
<1>. SUFFICES ASSUME NEW pg \in Pages
              PROVE  Spare(pg)' >= Spare(pg) /\ (AllAbsent(current, R) => Spare(pg)' = Spare(pg))
  BY DEF Grows, Keeps
<1>. DEFINE h == Cardinality(Held(pte', current, pg))  k == Cardinality(Held(pte, current, pg))
            o == Cardinality(Owned(table', current, pg))  q == Cardinality(Owned(table, current, pg))
<1>1. /\ NCalls(a, len) \in Nat /\ f \in [1..NCalls(a, len) -> Pages]
      /\ current \in Pids /\ refcount \in [Pages -> Nat]
  BY GrantType, CallsType DEF TypeInv, TypeOK, MemTypeOK
<1>2. refcount'[pg] = IF \E i \in 1..NCalls(a, len) : f[i] = pg THEN 1 ELSE refcount[pg]
  BY <1>1 DEF Mapped, Take
<1>3. refcount[pg] \in Int /\ refcount'[pg] \in Int
  BY <1>1, <1>2
<1>4. Spare(pg)' = Spare(pg) + (refcount'[pg] - refcount[pg]) - (h - k) - (o - q)
  <2>1. \A p \in Pids : p # current => pte'[p] = pte[p] /\ table'[p] = table[p]
    BY MappedIs
  <2>. QED BY <1>1, <1>3, <2>1, SpareChange
<1>5. Spare(pg) \in Int /\ h \in Nat /\ k \in Nat /\ o \in Nat /\ q \in Nat
  BY <1>3, CountTypes, SpareType
<1>6. CASE \E i \in 1..NCalls(a, len) : f[i] = pg
  <2>1. PICK i \in 1..NCalls(a, len) : f[i] = pg
    BY <1>6
  <2>2. h + o = 1
    BY <2>1, MappedTaken
  <2>3. refcount[pg] = 0 /\ refcount'[pg] = 1
    BY <1>2, <2>1, GrantType
  <2>4. Held(pte, current, pg) = {} /\ Owned(table, current, pg) = {} /\ Cardinality({}) = 0
    BY <1>1, <2>3, FreeUnused, FS_EmptySet
  <2>5. k = 0 /\ q = 0
    BY <2>4
  <2>. HIDE DEF h, k, o, q
  <2>6. Spare(pg)' = Spare(pg) + (1 - 0) - (h - 0) - (o - 0)
    BY <1>4, <2>3, <2>5
  <2>7. Spare(pg)' = Spare(pg)
    BY <1>5, <2>2, <2>6
  <2>. QED BY <1>5, <2>7
<1>7. CASE ~\E i \in 1..NCalls(a, len) : f[i] = pg
  <2>1. refcount'[pg] = refcount[pg]
    BY <1>2, <1>7
  <2>2. Owned(table', current, pg) = Owned(table, current, pg)
    <3>1. c # 0 => c \in 1..NCalls(a, len)
      <4>1. c \in Nat /\ c <= NCalls(a, len)
        BY CallsType
      <4>. HIDE DEF c
      <4>. QED BY <1>1, <4>1
    <3>2. ASSUME NEW j \in Tables PROVE table'[current][j] = pg <=> table[current][j] = pg
      <4>1. table'[current][j] = IF j = HighTable /\ c # 0 THEN f[c] ELSE table[current][j]
        BY MappedIs
      <4>2. c # 0 => table[current][HighTable] = NoPage /\ NoPage # pg
        BY MappedIs DEF NoPage, Pages
      <4>. QED BY <1>7, <3>1, <4>1, <4>2
    <3>. QED BY <3>2 DEF Owned
  <2>3. \A w \in VAs : w \in Held(pte', current, pg) <=> w \in Held(pte, current, pg) /\ w \notin R
    <3>1. \A w \in VAs : pte'[current][w] = IF w \in R
                                            THEN [pa |-> f[PageCall(a, len, w)], perm |-> perm]
                                            ELSE pte[current][w]
      BY MappedIs
    <3>2. \A w \in R : PageCall(a, len, w) \in 1..NCalls(a, len)
      BY CallsOnto
    <3>. SUFFICES ASSUME NEW w \in VAs
                  PROVE  w \in Held(pte', current, pg) <=> w \in Held(pte, current, pg) /\ w \notin R
      OBVIOUS
    <3>3. CASE w \in R
      <4>0. pte'[current][w] = [pa |-> f[PageCall(a, len, w)], perm |-> perm]
        BY <3>1, <3>3
      <4>1. pte'[current][w].pa = f[PageCall(a, len, w)]
        BY <4>0
      <4>. QED BY <1>7, <3>2, <3>3, <4>1 DEF Held
    <3>4. CASE w \notin R
      <4>1. pte'[current][w] = pte[current][w]
        BY <3>1, <3>4
      <4>. QED BY <3>4, <4>1 DEF Held
    <3>. QED BY <3>3, <3>4
  <2>4. Held(pte', current, pg) \in SUBSET Held(pte, current, pg)
    BY <2>3 DEF Held
  <2>5. h <= k
    BY <2>4, CountTypes, FS_Subset
  <2>6. AllAbsent(current, R) => h = k
    <3>1. AllAbsent(current, R) => Held(pte', current, pg) = Held(pte, current, pg)
      BY <2>3 DEF Held, AllAbsent
    <3>. QED BY <3>1
  <2>7. o = q
    BY <2>2
  <2>. HIDE DEF h, k, o, q
  <2>. QED BY <1>3, <1>4, <1>5, <2>1, <2>5, <2>6, <2>7
<1>. QED BY <1>6, <1>7

(* When the pages run out, only the table that was linked is taken.        *)
LEMMA RollbackSpare ==
  ASSUME TypeInv, Covered, NEW n \in Nat \ {0}, NEW f \in Grant(n),
         table[current][HighTable] = NoPage, UNCHANGED pte,
         refcount' = [refcount EXCEPT ![f[n]] = 1], LinkTable(current, f[n])
  PROVE  Keeps
<1>. SUFFICES ASSUME NEW pg \in Pages PROVE Spare(pg)' = Spare(pg)
  BY DEF Keeps
<1>. DEFINE o == Cardinality(Owned(table', current, pg))  q == Cardinality(Owned(table, current, pg))
            k == Cardinality(Held(pte, current, pg))
<1>1. /\ current \in Pids /\ refcount \in [Pages -> Nat] /\ pte \in [Pids -> [VAs -> Entries]]
      /\ table \in [Pids -> [Tables -> Pages \cup {NoPage}]]
      /\ f[n] \in Pages /\ refcount[f[n]] = 0
  <2>1. n \in 1..n
    OBVIOUS
  <2>2. f[n] \in Pages /\ refcount[f[n]] = 0
    BY <2>1, GrantType
  <2>. QED BY <2>2 DEF TypeInv, TypeOK, MemTypeOK
<1>2. HighTable \in Tables
  BY PageTablesAssumption DEF HighTable, Tables
<1>3. /\ \A p \in Pids : p # current => table'[p] = table[p]
      /\ \A i \in Tables : table'[current][i] = IF i = HighTable THEN f[n] ELSE table[current][i]
  BY <1>1, <1>2 DEF LinkTable
<1>4. refcount'[pg] = IF pg = f[n] THEN 1 ELSE refcount[pg]
  BY <1>1
<1>5. refcount[pg] \in Int /\ refcount'[pg] \in Int
  BY <1>1, <1>4
<1>6. Spare(pg)' = Spare(pg) + (refcount'[pg] - refcount[pg]) - (k - k) - (o - q)
  <2>1. \A p \in Pids : p # current => pte'[p] = pte[p] /\ table'[p] = table[p]
    BY <1>3
  <2>. QED BY <1>1, <1>5, <2>1, SpareChange
<1>7. Spare(pg) \in Int /\ k \in Nat /\ o \in Nat /\ q \in Nat
  BY <1>5, CountTypes, SpareType
<1>8. o - q = refcount'[pg] - refcount[pg]
  <2>1. CASE pg = f[n]
    <3>1. Owned(table, current, pg) = {}
      BY <1>1, <2>1, FreeUnused
    <3>2. Owned(table', current, pg) = {HighTable}
      BY <1>2, <1>3, <2>1, <3>1 DEF Owned
    <3>3. Cardinality({}) = 0 /\ Cardinality({HighTable}) = 1
      BY FS_Singleton, FS_EmptySet
    <3>4. o = 1 /\ q = 0
      BY <3>1, <3>2, <3>3, Zenon
    <3>. QED BY <1>1, <1>4, <2>1, <3>4
  <2>2. CASE pg # f[n]
    <3>1. Owned(table', current, pg) = Owned(table, current, pg)
      BY <1>3, <2>2 DEF Owned, NoPage, Pages
    <3>2. o = q
      BY <3>1
    <3>3. refcount'[pg] = refcount[pg]
      BY <1>4, <2>2
    <3>. HIDE DEF o, q
    <3>. QED BY <1>5, <1>7, <3>2, <3>3
  <2>. QED BY <2>1, <2>2
<1>. HIDE DEF o, q, k
<1>. QED BY <1>5, <1>6, <1>7, <1>8

(* Marking pages shared leaves them mapped.                                *)
LEMMA MarkSharedIs ==
  ASSUME NEW S, NEW va \in VAs
  PROVE  /\ Present(MarkShared(S)[va]) <=> Present(pte[current][va])
         /\ MarkShared(S)[va].pa = pte[current][va].pa
         /\ Writable(MarkShared(S)[va]) => Writable(pte[current][va]) /\ va \notin S
         /\ MarkShared(S)[va] = IF va \in S THEN SharedEntry(pte[current][va]) ELSE pte[current][va]
<1>1. MarkShared(S)[va] = IF va \in S THEN SharedEntry(pte[current][va]) ELSE pte[current][va]
  BY DEF MarkShared
<1>2. ASSUME NEW e
      PROVE  /\ Present(SharedEntry(e)) <=> Present(e)
             /\ SharedEntry(e).pa = e.pa /\ ~Writable(SharedEntry(e))
  <2>1. SharedEntry(e).pa = e.pa
    BY DEF SharedEntry
  <2>2. SharedEntry(e).perm = (e.perm \ {"W"}) \cup IF Writable(e) THEN {"C"} ELSE {}
    BY DEF SharedEntry
  <2>3. "P" \in SharedEntry(e).perm <=> "P" \in e.perm
    BY <2>2
  <2>4. "W" \notin SharedEntry(e).perm
    BY <2>2
  <2>. QED BY <2>1, <2>3, <2>4 DEF Present, Writable
<1>. QED BY <1>1, <1>2

(* The step of fork, by its parts.                                         *)
LEMMA ForkIs ==
  ASSUME RunInv, FreeEmpty, Fork
  PROVE  \E child \in Pids, f \in Grant(ForkCalls) :
           /\ child # current /\ state[child] = "P_FREE" /\ current \in Pids
           /\ pte[child] = NoEntries /\ table[child] = NoTables
           /\ \A p \in Pids : p # child => table'[p] = table[p]
           /\ \A i \in Tables : table'[child][i] = IF i + 1 \in 1..ForkCalls THEN f[i + 1] ELSE NoPage
           /\ \A p \in Pids : p # child /\ p # current => pte'[p] = pte[p]
           /\ pte'[current] = MarkShared(SharedPages)
           /\ \A va \in VAs : pte'[child][va] = IF va \in SharedPages \cup {0}
                                                THEN MarkShared(SharedPages)[va] ELSE Absent
           /\ \A pg \in Pages :
                refcount'[pg] = refcount[pg] + Shares(pg)
                                + IF \E i \in 1..ForkCalls : f[i] = pg THEN 1 ELSE 0
           /\ state' = [state EXCEPT ![child] = "P_RUNNABLE"]
<1>1. PICK child \in FreeSlots, f \in Grant(ForkCalls) :
        /\ table' = [table EXCEPT ![child] =
                       [i \in Tables |-> IF i + 1 \in DOMAIN f THEN f[i + 1] ELSE NoPage]]
        /\ pte' = [pte EXCEPT
                     ![child] = [va \in VAs |-> IF va \in SharedPages \cup {0}
                                                THEN MarkShared(SharedPages)[va]
                                                ELSE Absent],
                     ![current] = MarkShared(SharedPages)]
        /\ refcount' = [pg \in Pages |->
                          refcount[pg] + Shares(pg)
                          + IF \E i \in DOMAIN f : f[i] = pg THEN 1 ELSE 0]
        /\ state' = [state EXCEPT ![child] = "P_RUNNABLE"]
  BY DEF Fork
<1>2. /\ current \in Pids /\ pte \in [Pids -> [VAs -> Entries]]
      /\ table \in [Pids -> [Tables -> Pages \cup {NoPage}]] /\ refcount \in [Pages -> Nat]
      /\ state[current] = "P_RUNNABLE"
  BY DEF RunInv, TypeInv, TypeOK, MemTypeOK, Fork, Running
<1>3. child \in Pids /\ state[child] = "P_FREE" /\ child # current
  BY <1>2 DEF FreeSlots
<1>4. pte[child] = NoEntries /\ table[child] = NoTables
  BY <1>3 DEF FreeEmpty
<1>5. DOMAIN f = 1..ForkCalls
  BY GrantType
<1>6. /\ \A p \in Pids : p # child => table'[p] = table[p]
      /\ \A i \in Tables : table'[child][i] = IF i + 1 \in 1..ForkCalls THEN f[i + 1] ELSE NoPage
  BY <1>1, <1>2, <1>3, <1>5
<1>7. /\ \A p \in Pids : p # child /\ p # current => pte'[p] = pte[p]
      /\ pte'[current] = MarkShared(SharedPages)
      /\ \A va \in VAs : pte'[child][va] = IF va \in SharedPages \cup {0}
                                           THEN MarkShared(SharedPages)[va] ELSE Absent
  BY <1>1, <1>2, <1>3
<1>8. \A pg \in Pages :
        refcount'[pg] = refcount[pg] + Shares(pg)
                        + IF \E i \in 1..ForkCalls : f[i] = pg THEN 1 ELSE 0
  BY <1>1, <1>5
<1>9. state' = [state EXCEPT ![child] = "P_RUNNABLE"]
  BY <1>1
<1>. DEFINE Step(c, g) ==
       /\ c # current /\ state[c] = "P_FREE" /\ current \in Pids
       /\ pte[c] = NoEntries /\ table[c] = NoTables
       /\ \A p \in Pids : p # c => table'[p] = table[p]
       /\ \A i \in Tables : table'[c][i] = IF i + 1 \in 1..ForkCalls THEN g[i + 1] ELSE NoPage
       /\ \A p \in Pids : p # c /\ p # current => pte'[p] = pte[p]
       /\ pte'[current] = MarkShared(SharedPages)
       /\ \A va \in VAs : pte'[c][va] = IF va \in SharedPages \cup {0}
                                        THEN MarkShared(SharedPages)[va] ELSE Absent
       /\ \A pg \in Pages :
            refcount'[pg] = refcount[pg] + Shares(pg)
                            + IF \E i \in 1..ForkCalls : g[i] = pg THEN 1 ELSE 0
       /\ state' = [state EXCEPT ![c] = "P_RUNNABLE"]
<1>10. Step(child, f)
  BY <1>2, <1>3, <1>4, <1>6, <1>7, <1>8, <1>9
<1>11. \E c \in Pids, g \in Grant(ForkCalls) : Step(c, g)
  <2>. HIDE DEF Step
  <2>. QED BY <1>3, <1>10
<1>. QED BY <1>11

(* fork counts each page that the child shares, and its tables.            *)
LEMMA ForkSpare ==
  ASSUME RunInv, FreeEmpty, ConsoleOnly, Covered, Fork
  PROVE  Keeps
<1>1. PICK child \in Pids, f \in Grant(ForkCalls) :
           /\ child # current /\ state[child] = "P_FREE" /\ current \in Pids
           /\ pte[child] = NoEntries /\ table[child] = NoTables
           /\ \A p \in Pids : p # child => table'[p] = table[p]
           /\ \A i \in Tables : table'[child][i] = IF i + 1 \in 1..ForkCalls THEN f[i + 1] ELSE NoPage
           /\ \A p \in Pids : p # child /\ p # current => pte'[p] = pte[p]
           /\ pte'[current] = MarkShared(SharedPages)
           /\ \A va \in VAs : pte'[child][va] = IF va \in SharedPages \cup {0}
                                                THEN MarkShared(SharedPages)[va] ELSE Absent
           /\ \A pg \in Pages :
                refcount'[pg] = refcount[pg] + Shares(pg)
                                + IF \E i \in 1..ForkCalls : f[i] = pg THEN 1 ELSE 0
  BY ForkIs
<1>. SUFFICES ASSUME NEW pg \in Pages PROVE Spare(pg)' = Spare(pg)
  BY DEF Keeps
<1>2. TypeInv /\ pte \in [Pids -> [VAs -> Entries]] /\ refcount \in [Pages -> Nat]
  BY DEF RunInv, TypeInv, TypeOK, MemTypeOK
<1>. DEFINE e == [pte EXCEPT ![current] = MarkShared(SharedPages)]
<1>3. UsesOf(e, pg) = UsesOf(pte, pg)
  <2>1. ASSUME NEW p \in Pids, NEW va \in VAs
        PROVE  (Present(e[p][va]) <=> Present(pte[p][va])) /\ e[p][va].pa = pte[p][va].pa
    <3>1. CASE p = current
      <4>1. e[p] = MarkShared(SharedPages)
        BY <1>1, <1>2, <3>1
      <4>. QED BY <3>1, <4>1, MarkSharedIs
    <3>2. CASE p # current
      BY <1>2, <3>2
    <3>. QED BY <3>1, <3>2
  <2>. HIDE DEF e
  <2>. QED BY <2>1, SameUses
<1>4. /\ \A p \in Pids : p # child => pte'[p] = e[p]
      /\ e[child] = NoEntries
  BY <1>1, <1>2
<1>. HIDE DEF e
<1>. DEFINE h == Cardinality(Held(pte', child, pg))    k == Cardinality(Held(e, child, pg))
            o == Cardinality(Owned(table', child, pg)) q == Cardinality(Owned(table, child, pg))
            u == Cardinality(UsesOf(pte', pg))    v == Cardinality(UsesOf(pte, pg))
            s == Cardinality(SlotsOf(table', pg)) t == Cardinality(SlotsOf(table, pg))
<1>5. u - h = v - k
  <2>1. Cardinality(UsesOf(pte', pg)) - Cardinality(Held(pte', child, pg))
          = Cardinality(UsesOf(e, pg)) - Cardinality(Held(e, child, pg))
    BY <1>4, UsesChange
  <2>. QED BY <1>3, <2>1
<1>6. s - o = t - q
  BY <1>1, SlotsChange
<1>7. k = 0 /\ q = 0
  <2>1. Held(e, child, pg) = {}
    BY <1>4 DEF Held, NoEntries, Absent, Present
  <2>2. Owned(table, child, pg) = {}
    BY <1>1 DEF Owned, NoTables, NoPage, Pages
  <2>. QED BY <2>1, <2>2, FS_EmptySet, Zenon
<1>8. h = Shares(pg)
  <2>1. ASSUME NEW va \in VAs
        PROVE  va \in Held(pte', child, pg) <=> va \in SharedPages /\ pte[current][va].pa = pg
    <3>1. CASE va \in SharedPages
      <4>1. pte'[child][va] = MarkShared(SharedPages)[va] /\ Present(pte[current][va])
        BY <1>1, <3>1 DEF SharedPages, User, Present
      <4>. QED BY <3>1, <4>1, MarkSharedIs DEF Held
    <3>2. CASE va = 0
      <4>1. pte'[child][va] = MarkShared(SharedPages)[va] /\ va \notin SharedPages
        BY <1>1, <3>2 DEF SharedPages, ProcStart
      <4>2. Present(pte'[child][va]) => pte'[child][va].pa = Console
        BY <1>1, <3>2, <4>1, MarkSharedIs DEF ConsoleOnly
      <4>3. Console # pg
        BY PageTablesAssumption DEF Console, Pages
      <4>. QED BY <4>1, <4>2, <4>3 DEF Held
    <3>3. CASE va \notin SharedPages /\ va # 0
      <4>1. pte'[child][va] = Absent
        BY <1>1, <3>3
      <4>. QED BY <3>3, <4>1 DEF Held, Absent, Present
    <3>. QED BY <3>1, <3>2, <3>3
  <2>2. SharedPages \subseteq VAs
    BY PageTablesAssumption DEF SharedPages, VAs, ProcStart
  <2>3. Held(pte', child, pg) = {va \in SharedPages : pte[current][va].pa = pg}
    BY <2>1, <2>2 DEF Held
  <2>. QED BY <2>3 DEF Shares
<1>9. o = IF \E i \in 1..ForkCalls : f[i] = pg THEN 1 ELSE 0
  <2>1. ForkCalls \in Nat /\ ForkCalls <= LowTables + 2 /\ LowTables \in Nat
    BY PageTablesAssumption DEF ForkCalls
  <2>2. CASE \E i \in 1..ForkCalls : f[i] = pg
    <3>1. PICK i \in 1..ForkCalls : f[i] = pg
      BY <2>2
    <3>2. i - 1 \in Tables
      BY <2>1, <3>1 DEF Tables
    <3>3. ASSUME NEW j \in Tables PROVE table'[child][j] = pg <=> j = i - 1
      <4>1. CASE j + 1 \in 1..ForkCalls
        <5>1. f[j + 1] = pg <=> j + 1 = i
          BY <2>1, <3>1, <4>1, GrantDiffers
        <5>2. j \in Int
          BY DEF Tables
        <5>. QED BY <1>1, <4>1, <5>1, <5>2
      <4>2. CASE j + 1 \notin 1..ForkCalls
        BY <1>1, <3>1, <4>2 DEF NoPage, Pages, Tables
      <4>. QED BY <4>1, <4>2
    <3>4. Owned(table', child, pg) = {i - 1}
      BY <3>2, <3>3 DEF Owned
    <3>5. Cardinality({i - 1}) = 1
      BY FS_Singleton
    <3>. QED BY <2>2, <3>4, <3>5
  <2>3. CASE ~\E i \in 1..ForkCalls : f[i] = pg
    <3>1. Owned(table', child, pg) = {}
      BY <1>1, <2>3 DEF Owned, NoPage, Pages
    <3>. QED BY <2>3, <3>1, FS_EmptySet
  <2>. QED BY <2>2, <2>3
<1>10. /\ u \in Nat /\ v \in Nat /\ s \in Nat /\ t \in Nat
       /\ h \in Nat /\ o \in Nat /\ refcount[pg] \in Nat
  BY <1>2, CountTypes
<1>11. Spare(pg)' = refcount'[pg] - (u + s) /\ Spare(pg) = refcount[pg] - (v + t)
  BY DEF Spare, UsesOf, SlotsOf
<1>12. refcount'[pg] = refcount[pg] + Shares(pg) + IF \E i \in 1..ForkCalls : f[i] = pg THEN 1 ELSE 0
  BY <1>1
<1>. HIDE DEF h, k, o, q, u, v, s, t
<1>13. refcount'[pg] = refcount[pg] + h + o
  BY <1>8, <1>9, <1>12
<1>. QED BY <1>5, <1>6, <1>7, <1>10, <1>11, <1>13

-----------------------------------------------------------------------------
(* Every step keeps the references counted.                                *)

(* The calls that search for room map only pages that were absent.         *)
RoomFound ==
  \A c \in MmapCalls : \A a \in MmapAddr(c.va, c.len) : AllAbsent(current, a..(a + Ceil(c.len) - 1))

(* One page is always found room for.                                      *)
LEMMA OnePageFits ==
  ASSUME NEW va \in 1..(MemSize - 1), NEW a \in MmapAddr(va, 2)
  PROVE  a \in ProcStart..(MemSize - 1) /\ AllAbsent(current, a..(a + Ceil(2) - 1))
<1>1. Ceil(2) = 1 /\ 2 \div 2 = 1
  BY DEF Ceil
<1>2. ASSUME a \in FindFreeVmemory(current, 1)
      PROVE  a \in ProcStart..(MemSize - 1) /\ AllAbsent(current, a..a)
  BY <1>2, PageTablesAssumption DEF FindFreeVmemory, Least, AllAbsent, ProcStart
<1>3. a..(a + Ceil(2) - 1) = a..a
  <2>1. a \in Int
    BY <1>1, <1>2, PageTablesAssumption DEF MmapAddr, ProcStart
  <2>. QED BY <1>1, <2>1
<1>4. CASE a = va /\ AllAbsent(current, va..(va + Ceil(2) - 1))
  BY <1>4 DEF ProcStart
<1>. QED BY <1>1, <1>2, <1>3, <1>4 DEF MmapAddr

LEMMA MmapPagesSpare ==
  ASSUME TypeInv, Covered, NEW va \in 0..(MemSize - 1), NEW len \in Nat \ {0},
         2 * (MemSize - 1) + len <= 2 * Limit, NEW perm, "P" \in perm, MmapPages(va, len, perm)
  PROVE  /\ Grows
         /\ (\A a \in MmapAddr(va, len) : AllAbsent(current, a..(a + Ceil(len) - 1))) => Keeps
<1>1. PICK a \in MmapAddr(va, len) : \E f \in Grant(NCalls(a, len)) : Mapped(a, len, perm, f)
  BY DEF MmapPages, Mapped
<1>2. PICK f \in Grant(NCalls(a, len)) : Mapped(a, len, perm, f)
  BY <1>1
<1>3. a \in Nat /\ a..(a + Ceil(len) - 1) \subseteq VAs
  BY MmapRange DEF ProcStart
<1>. QED BY <1>2, <1>3, MappedSpare

LEMMA MmapRollbackSpare ==
  ASSUME TypeInv, Covered, NEW va \in 0..(MemSize - 1), NEW len \in Nat \ {0},
         2 * (MemSize - 1) + len <= 2 * Limit, MmapRollback(va, len)
  PROVE  Keeps
<1>1. PICK a \in MmapAddr(va, len) :
        /\ TableCall(a, len) # 0
        /\ \E f \in Grant(TableCall(a, len)) :
             /\ refcount' = [refcount EXCEPT ![f[TableCall(a, len)]] = 1]
             /\ LinkTable(current, f[TableCall(a, len)])
  BY DEF MmapRollback
<1>2. PICK f \in Grant(TableCall(a, len)) :
        /\ refcount' = [refcount EXCEPT ![f[TableCall(a, len)]] = 1]
        /\ LinkTable(current, f[TableCall(a, len)])
  BY <1>1
<1>3. a \in Nat
  BY MmapRange DEF ProcStart
<1>4. TableCall(a, len) \in Nat \ {0}
  BY <1>1, <1>3, CallsType
<1>5. table[current][HighTable] = NoPage
  BY <1>1 DEF TableCall
<1>6. UNCHANGED pte
  BY DEF MmapRollback
<1>. QED BY <1>2, <1>4, <1>5, <1>6, RollbackSpare

LEMMA ExitSpare ==
  ASSUME TypeInv, ConsoleOnly, ExitCurrent
  PROVE  Grows /\ (Within => Keeps)
<1>1. CASE KfreeAsserts(Everything(current))
  BY <1>1, DiscardSpare DEF ExitCurrent, TypeInv, TypeOK
<1>2. CASE ~KfreeAsserts(Everything(current))
  <2>1. UNCHANGED <<refcount, pte, table>>
    BY <1>2 DEF ExitCurrent, Panic
  <2>2. Keeps
    BY <2>1, SamePages
  <2>. QED BY <2>2, SpareType DEF Keeps, Grows, TypeInv, TypeOK, MemTypeOK
<1>. QED BY <1>1, <1>2

LEMMA KeepsGrows == ASSUME TypeInv, Keeps PROVE Grows
BY SpareType DEF Keeps, Grows, TypeInv, TypeOK, MemTypeOK

LEMMA CowSpare ==
  ASSUME TypeInv, ConsoleOnly, Covered, NEW va \in VAs, CowReuse(va) \/ CowCopy(va) \/ CowNoMemory(va)
  PROVE  Grows /\ (Within => Keeps)
<1>1. CASE CowReuse(va)
  BY <1>1, CowReuseSpare, KeepsGrows
<1>2. CASE CowNoMemory(va)
  BY <1>2, ExitSpare DEF CowNoMemory
<1>3. CASE CowCopy(va)
  <2>. DEFINE e == pte[current][va]
  <2>1. PICK f \in Grant(1) :
          IF refcount[e.pa] > 0
          THEN /\ pte' = [pte EXCEPT ![current][va] = [pa |-> f[1], perm |-> CowPerm(e)]]
               /\ MoveReference(e.pa, f[1]) /\ UNCHANGED table
          ELSE Panic
    BY <1>3 DEF CowCopy
  <2>2. /\ va >= ProcStart /\ Present(e) /\ e.pa \in Pages /\ "P" \in CowPerm(e)
    BY <1>3, CowEntry DEF CowCopy, CowPerm, Present
  <2>3. f[1] \in Pages /\ refcount[f[1]] = 0
    BY GrantType
  <2>4. CASE refcount[e.pa] > 0
    <3>1. Keeps
      BY <2>1, <2>2, <2>3, <2>4, CowCopySpare
    <3>. QED BY <3>1, KeepsGrows
  <2>5. CASE ~(refcount[e.pa] > 0)
    <3>1. UNCHANGED <<refcount, pte, table>>
      BY <2>1, <2>5 DEF Panic
    <3>2. Keeps
      BY <3>1, SamePages
    <3>. QED BY <3>2, KeepsGrows
  <2>. QED BY <2>4, <2>5
<1>. QED BY <1>1, <1>2, <1>3

LEMMA MunmapAllSpare ==
  ASSUME TypeInv, NEW c \in UnmapCalls, Munmap(c)
  PROVE  Keeps
<1>. DEFINE gone == {va \in c.va..(c.va + Ceil(c.len) - 1) : va < MemSize /\ User(pte[current][va])}
            n == [pg \in Pages |-> Cardinality({va \in gone : pte[current][va].pa = pg})]
<1>1. c.va \in Nat /\ c.len \in Nat
  BY KernelAssumption
<1>2. gone \in SUBSET VAs
  BY <1>1, PageTablesAssumption DEF VAs, Ceil
<1>3. \A va \in gone : Present(pte[current][va])
  BY DEF User, Present
<1>4. \/ /\ Kfree(n) /\ UNCHANGED table
         /\ pte' = [pte EXCEPT ![current] = [va \in VAs |-> IF va \in gone THEN Absent
                                                            ELSE pte[current][va]]]
      \/ UNCHANGED <<refcount, pte, table>>
  BY DEF Munmap, Panic
<1>. HIDE DEF gone
<1>. QED BY <1>2, <1>3, <1>4, MunmapSpare, SamePages

LEMMA MmapSpare ==
  ASSUME TypeInv, Covered,
         \/ \E c \in MmapCalls : Mmap(c)
         \/ \E va \in AllocCalls : PageAlloc(va)
  PROVE  Grows /\ (RoomFound => Keeps)
<1>1. ASSUME NEW c \in MmapCalls, Mmap(c)
      PROVE  Grows /\ (RoomFound => Keeps)
  <2>1. /\ c.va \in 0..(MemSize - 1) /\ c.len \in Nat \ {0} /\ "P" \in c.perm
        /\ 2 * (MemSize - 1) + c.len <= 2 * Limit
    BY KernelAssumption
  <2>2. CASE MmapPages(c.va, c.len, c.perm)
    BY <2>1, <2>2, MmapPagesSpare DEF RoomFound
  <2>3. CASE MmapRollback(c.va, c.len)
    BY <2>1, <2>3, MmapRollbackSpare, KeepsGrows
  <2>. QED BY <1>1, <2>2, <2>3 DEF Mmap
<1>2. ASSUME NEW va \in AllocCalls, PageAlloc(va)
      PROVE  Grows /\ (RoomFound => Keeps)
  <2>1. va \in 1..(MemSize - 1) /\ va \in 0..(MemSize - 1) /\ 2 * (MemSize - 1) + 2 <= 2 * Limit
    BY KernelAssumption, PageTablesAssumption DEF ProcStart
  <2>2. \A a \in MmapAddr(va, 2) : AllAbsent(current, a..(a + Ceil(2) - 1))
    BY <2>1, OnePageFits
  <2>3. MmapPages(va, 2, {"P", "W", "U"}) /\ "P" \in {"P", "W", "U"} /\ 2 \in Nat \ {0}
    BY <1>2 DEF PageAlloc
  <2>. QED BY <2>1, <2>2, <2>3, MmapPagesSpare
<1>. QED BY <1>1, <1>2

LEMMA NextSpare ==
  ASSUME RunInv, ConsoleOnly, FreeEmpty, Covered, [Next]_vars
  PROVE  Grows /\ (Within /\ RoomFound => Keeps)
<1>0. TypeInv
  BY DEF RunInv
<1>1. CASE UNCHANGED <<refcount, pte, table>>
  BY <1>0, <1>1, SamePages, KeepsGrows
<1>2. CASE Timer \/ Yield \/ (\E t \in SleepCalls : Sleep(t)) \/ \E va \in VAs : Fault(va)
  BY <1>1, <1>2 DEF Timer, Yield, Sleep, Fault, memVars
<1>3. CASE Exit
  BY <1>0, <1>3, ExitSpare DEF Exit
<1>4. ASSUME NEW c \in KillCalls, Kill(c[1], c[2])
      PROVE  Grows /\ (Within /\ RoomFound => Keeps)
  <2>1. c[2] \in Pids
    BY KernelAssumption
  <2>2. Discard(c[2]) \/ UNCHANGED <<refcount, pte, table>>
    BY <1>4 DEF Kill, Panic
  <2>. QED BY <1>0, <1>1, <2>1, <2>2, DiscardSpare
<1>5. ASSUME NEW va \in VAs, CowReuse(va) \/ CowCopy(va) \/ CowNoMemory(va)
      PROVE  Grows /\ (Within /\ RoomFound => Keeps)
  BY <1>0, <1>5, CowSpare
<1>6. CASE \E va \in VAs, v \in Values : Store(va, v)
  BY <1>1, <1>6 DEF Store
<1>7. CASE (\E c \in MmapCalls : Mmap(c)) \/ \E va \in AllocCalls : PageAlloc(va)
  BY <1>0, <1>7, MmapSpare
<1>8. CASE \E c \in UnmapCalls : Munmap(c)
  BY <1>0, <1>8, MunmapAllSpare, KeepsGrows
<1>9. CASE Fork
  BY <1>0, <1>9, ForkSpare, KeepsGrows
<1>10. CASE ForkRollback
  <2>1. /\ UNCHANGED <<refcount, table>> /\ current \in Pids /\ pte \in [Pids -> [VAs -> Entries]]
        /\ pte' = [pte EXCEPT ![current] = MarkShared({va \in SharedPages : va < HighVA})]
    BY <1>0, <1>10 DEF ForkRollback, TypeInv, TypeOK, MemTypeOK
  <2>2. ASSUME NEW p \in Pids, NEW va \in VAs
        PROVE  (Present(pte'[p][va]) <=> Present(pte[p][va])) /\ pte'[p][va].pa = pte[p][va].pa
    <3>1. CASE p = current
      BY <2>1, <3>1, MarkSharedIs
    <3>2. CASE p # current
      BY <2>1, <3>2
    <3>. QED BY <3>1, <3>2
  <2>. QED BY <1>0, <2>1, <2>2, SamePages, KeepsGrows
<1>11. CASE UNCHANGED vars
  BY <1>1, <1>11 DEF vars
<1>. QED BY <1>2, <1>3, <1>4, <1>5, <1>6, <1>7, <1>8, <1>9, <1>10, <1>11 DEF Next

-----------------------------------------------------------------------------
(* No step shares a page that can be written.                              *)

(* A mapping is of the console, or of an allocatable page.                 *)
LEMMA PageIs ==
  ASSUME TypeInv, ConsoleOnly, NEW m \in Mappings
  PROVE  /\ m \in Pids \X VAs /\ m[1] \in Pids /\ m[2] \in VAs /\ m = <<m[1], m[2]>>
         /\ Present(pte[m[1]][m[2]])
         /\ PageOf(m) = Console <=> m[2] = 0
         /\ PageOf(m) # Console => PageOf(m) \in Pages
         /\ PageOf(m) # NoPage
<1>1. /\ m \in Pids \X VAs /\ m[1] \in Pids /\ m[2] \in VAs /\ m = <<m[1], m[2]>>
      /\ Present(pte[m[1]][m[2]])
  BY DEF Mappings
<1>2. CASE m[2] = 0
  BY <1>1, <1>2, PageTablesAssumption DEF ConsoleOnly, PageOf, NoPage, Console
<1>3. CASE m[2] # 0
  <2>1. m[2] >= ProcStart
    BY <1>1, <1>3, PageTablesAssumption DEF VAs, ProcStart
  <2>2. PageOf(m) \in Pages
    BY <1>1, <2>1 DEF TypeInv, MapsPages, PageOf, Present
  <2>. QED BY <1>1, <1>3, <2>2, PageTablesAssumption DEF Pages, Console, NoPage
<1>. QED BY <1>1, <1>2, <1>3

(* A free page is neither mapped nor in a table.                           *)
LEMMA NewUnmapped ==
  ASSUME Covered, NEW pg \in Pages, refcount[pg] = 0
  PROVE  /\ \A m \in Mappings : PageOf(m) # pg
         /\ \A t \in TableSlots : table[t[1]][t[2]] # pg
BY FreeUnused DEF UsesOf, SlotsOf, Mappings, PageOf

(* A step that adds no mapping, no permission to write and no table.       *)
LEMMA FewerShared ==
  ASSUME NoSharedWrites, TypeInv, ConsoleOnly,
         \A p \in Pids, va \in VAs :
           Present(pte'[p][va]) => /\ Present(pte[p][va]) /\ pte'[p][va].pa = pte[p][va].pa
                                   /\ Writable(pte'[p][va]) => Writable(pte[p][va]),
         \A p \in Pids, i \in Tables : table'[p][i] \in {table[p][i], NoPage}
  PROVE  NoSharedWrites'
<1>1. ASSUME NEW m \in Mappings'
      PROVE  /\ m \in Mappings /\ PageOf(m)' = PageOf(m) /\ PageOf(m) # NoPage
             /\ Writable(pte'[m[1]][m[2]]) => Writable(pte[m[1]][m[2]])
  <2>1. m \in Pids \X VAs /\ m[1] \in Pids /\ m[2] \in VAs /\ Present(pte'[m[1]][m[2]])
    BY DEF Mappings
  <2>2. m \in Mappings /\ PageOf(m)' = PageOf(m)
    BY <2>1 DEF Mappings, PageOf
  <2>. QED BY <2>1, <2>2, PageIs
<1>2. ASSUME NEW m \in Mappings', NEW n \in Mappings', m # n, PageOf(m)' = PageOf(n)', PageOf(m)' # Console
      PROVE  ~Writable(pte'[m[1]][m[2]])
  BY <1>1, <1>2 DEF NoSharedWrites
<1>3. ASSUME NEW m \in Mappings', NEW t \in TableSlots
      PROVE  table'[t[1]][t[2]] # PageOf(m)'
  <2>1. t[1] \in Pids /\ t[2] \in Tables
    BY DEF TableSlots
  <2>2. table'[t[1]][t[2]] = table[t[1]][t[2]] \/ table'[t[1]][t[2]] = NoPage
    BY <2>1
  <2>. QED BY <1>1, <2>2 DEF NoSharedWrites
<1>. QED BY <1>2, <1>3 DEF NoSharedWrites, Console

LEMMA CowReuseUnshared ==
  ASSUME SharingInv, NEW va \in VAs, CowReuse(va)
  PROVE  NoSharedWrites'
<1>. DEFINE e == pte[current][va]  x == <<current, va>>
<1>1. /\ TypeInv /\ ConsoleOnly /\ Covered /\ NoSharedWrites /\ current \in Pids
      /\ pte \in [Pids -> [VAs -> Entries]]
  BY DEF SharingInv, RunInv, TypeInv, TypeOK, MemTypeOK
<1>2. Present(e) /\ e.pa \in Pages /\ refcount[e.pa] = 1 /\ table' = table
      /\ pte' = [pte EXCEPT ![current][va] = [pa |-> e.pa, perm |-> CowPerm(e)]]
  BY <1>1, CowEntry DEF CowReuse
<1>3. ASSUME NEW m \in Mappings'
      PROVE  /\ m \in Mappings /\ PageOf(m)' = PageOf(m)
             /\ m # x => pte'[m[1]][m[2]] = pte[m[1]][m[2]]
  <2>1. m \in Pids \X VAs /\ m[1] \in Pids /\ m[2] \in VAs /\ Present(pte'[m[1]][m[2]])
        /\ m = <<m[1], m[2]>>
    BY DEF Mappings
  <2>2. CASE m = x
    <3>1. pte'[m[1]][m[2]].pa = pte[m[1]][m[2]].pa
      BY <1>1, <1>2, <2>2
    <3>. QED BY <1>2, <2>1, <2>2, <3>1 DEF Mappings, PageOf
  <2>3. CASE m # x
    <3>1. pte'[m[1]][m[2]] = pte[m[1]][m[2]]
      BY <1>1, <1>2, <2>1, <2>3
    <3>. QED BY <2>1, <3>1 DEF Mappings, PageOf
  <2>. QED BY <2>2, <2>3
<1>4. ASSUME NEW m \in Mappings, m # x PROVE PageOf(m) # e.pa
  <2>1. SUFFICES ASSUME PageOf(m) = e.pa PROVE FALSE
    OBVIOUS
  <2>2. m \in UsesOf(pte, e.pa) /\ x \in UsesOf(pte, e.pa)
    BY <1>1, <1>2, <2>1 DEF UsesOf, Mappings, PageOf
  <2>3. Cardinality(UsesOf(pte, e.pa)) >= 2
    BY <1>4, <2>2, TwoUses, CountTypes
  <2>4. Cardinality(SlotsOf(table, e.pa)) \in Nat /\ Cardinality(UsesOf(pte, e.pa)) \in Nat
    BY CountTypes
  <2>5. Spare(e.pa) >= 0
    BY <1>1, <1>2 DEF Covered
  <2>. HIDE DEF e
  <2>. QED BY <1>2, <2>3, <2>4, <2>5 DEF Spare
<1>5. ASSUME NEW m \in Mappings', NEW n \in Mappings', m # n, PageOf(m)' = PageOf(n)', PageOf(m)' # Console
      PROVE  ~Writable(pte'[m[1]][m[2]])
  <2>0. PageOf(x) = e.pa
    BY DEF PageOf
  <2>1. PageOf(m) = PageOf(n) /\ m \in Mappings /\ n \in Mappings /\ PageOf(m) # Console
    BY <1>3, <1>5
  <2>2. m # x
    BY <1>4, <1>5, <2>0, <2>1
  <2>3. ~Writable(pte[m[1]][m[2]])
    BY <1>1, <1>5, <2>1 DEF NoSharedWrites
  <2>. QED BY <1>3, <2>2, <2>3
<1>6. ASSUME NEW m \in Mappings', NEW t \in TableSlots
      PROVE  table'[t[1]][t[2]] # PageOf(m)'
  BY <1>1, <1>2, <1>3 DEF NoSharedWrites
<1>. QED BY <1>5, <1>6 DEF NoSharedWrites, Console

(* The page of a copy is new.                                              *)
LEMMA CowCopyUnshared ==
  ASSUME SharingInv, NEW va \in VAs, NEW new \in Pages, refcount[new] = 0, NEW perm, UNCHANGED table,
         pte' = [pte EXCEPT ![current][va] = [pa |-> new, perm |-> perm]]
  PROVE  NoSharedWrites'
<1>. DEFINE x == <<current, va>>
<1>1. /\ TypeInv /\ ConsoleOnly /\ Covered /\ NoSharedWrites /\ current \in Pids
      /\ pte \in [Pids -> [VAs -> Entries]]
  BY DEF SharingInv, RunInv, TypeInv, TypeOK, MemTypeOK
<1>2. /\ \A m \in Mappings : PageOf(m) # new
      /\ \A t \in TableSlots : table[t[1]][t[2]] # new
  BY <1>1, NewUnmapped
<1>3. ASSUME NEW m \in Mappings'
      PROVE  /\ m = x => PageOf(m)' = new
             /\ m # x => m \in Mappings /\ PageOf(m)' = PageOf(m) /\ pte'[m[1]][m[2]] = pte[m[1]][m[2]]
  <2>1. m \in Pids \X VAs /\ m[1] \in Pids /\ m[2] \in VAs /\ Present(pte'[m[1]][m[2]])
        /\ m = <<m[1], m[2]>>
    BY DEF Mappings
  <2>2. CASE m = x
    BY <1>1, <2>2 DEF PageOf
  <2>3. CASE m # x
    <3>1. pte'[m[1]][m[2]] = pte[m[1]][m[2]]
      BY <1>1, <2>1, <2>3
    <3>. QED BY <2>1, <2>3, <3>1 DEF Mappings, PageOf
  <2>. QED BY <2>2, <2>3
<1>5. ASSUME NEW m \in Mappings', NEW n \in Mappings', m # n, PageOf(m)' = PageOf(n)', PageOf(m)' # Console
      PROVE  ~Writable(pte'[m[1]][m[2]])
  <2>1. m # x /\ n # x
    BY <1>2, <1>3, <1>5
  <2>. QED BY <1>1, <1>3, <1>5, <2>1 DEF NoSharedWrites
<1>6. ASSUME NEW m \in Mappings', NEW t \in TableSlots
      PROVE  table'[t[1]][t[2]] # PageOf(m)'
  BY <1>1, <1>2, <1>3 DEF NoSharedWrites
<1>. QED BY <1>5, <1>6 DEF NoSharedWrites, Console

(* So are the pages of a request.                                          *)
LEMMA MappedUnshared ==
  ASSUME SharingInv, NEW a \in Nat, NEW len \in Nat \ {0}, NEW perm,
         NEW f \in Grant(NCalls(a, len)), Mapped(a, len, perm, f)
  PROVE  NoSharedWrites'
<1>. DEFINE R == a..(a + Ceil(len) - 1)  c == TableCall(a, len)  N == NCalls(a, len)
            New(m) == m[1] = current /\ m[2] \in R
            Call(m) == PageCall(a, len, m[2])
<1>1. /\ TypeInv /\ ConsoleOnly /\ Covered /\ NoSharedWrites /\ current \in Pids
      /\ N \in Nat
  BY CallsType DEF SharingInv, RunInv, TypeInv, TypeOK
<1>7. /\ \A q \in Pids : q # current => pte'[q] = pte[q] /\ table'[q] = table[q]
      /\ \A w \in VAs : pte'[current][w] = IF w \in R THEN [pa |-> f[PageCall(a, len, w)], perm |-> perm]
                                                      ELSE pte[current][w]
      /\ \A i \in Tables : table'[current][i] = IF i = HighTable /\ c # 0 THEN f[c] ELSE table[current][i]
  BY <1>1, MappedIs
<1>2. ASSUME NEW i \in 1..N
      PROVE  /\ f[i] \in Pages /\ f[i] # Console
             /\ \A m \in Mappings : PageOf(m) # f[i]
             /\ \A t \in TableSlots : table[t[1]][t[2]] # f[i]
  <2>1. f[i] \in Pages /\ refcount[f[i]] = 0
    BY GrantType
  <2>. QED BY <1>1, <2>1, NewUnmapped, PageTablesAssumption DEF Pages, Console
<1>3. ASSUME NEW m \in Mappings'
      PROVE  /\ m \in Pids \X VAs /\ m = <<m[1], m[2]>>
             /\ New(m) => PageOf(m)' = f[Call(m)] /\ Call(m) \in 1..N /\ Call(m) # c
             /\ ~New(m) => m \in Mappings /\ PageOf(m)' = PageOf(m) /\ pte'[m[1]][m[2]] = pte[m[1]][m[2]]
  <2>1. m \in Pids \X VAs /\ m[1] \in Pids /\ m[2] \in VAs /\ Present(pte'[m[1]][m[2]])
        /\ m = <<m[1], m[2]>>
    BY DEF Mappings
  <2>2. CASE New(m)
    <3>1. pte'[m[1]][m[2]] = [pa |-> f[PageCall(a, len, m[2])], perm |-> perm]
      BY <2>1, <2>2, <1>7
    <3>2. Call(m) \in 1..N /\ Call(m) # c
      BY <2>2, CallsOnto
    <3>. QED BY <2>1, <2>2, <3>1, <3>2 DEF PageOf
  <2>3. CASE ~New(m)
    <3>1. pte'[m[1]][m[2]] = pte[m[1]][m[2]]
      <4>1. CASE m[1] = current
        BY <2>1, <2>3, <4>1, <1>7
      <4>2. CASE m[1] # current
        BY <2>1, <4>2, <1>7
      <4>. QED BY <4>1, <4>2
    <3>. QED BY <2>1, <2>3, <3>1 DEF Mappings, PageOf
  <2>. QED BY <2>2, <2>3
<1>4. ASSUME NEW m \in Mappings', NEW n \in Mappings', m # n, PageOf(m)' = PageOf(n)', PageOf(m)' # Console
      PROVE  ~Writable(pte'[m[1]][m[2]])
  <2>1. CASE New(m) /\ New(n)
    <3>1. m[2] # n[2]
      BY <1>3, <1>4, <2>1
    <3>2. Call(m) # Call(n)
      BY <2>1, <3>1, CallsOnto
    <3>3. f[Call(m)] # f[Call(n)]
      BY <1>1, <1>3, <2>1, <3>2, GrantDiffers
    <3>. QED BY <1>3, <1>4, <2>1, <3>3
  <2>2. CASE New(m) /\ ~New(n)
    BY <1>2, <1>3, <1>4, <2>2
  <2>3. CASE ~New(m) /\ New(n)
    BY <1>2, <1>3, <1>4, <2>3
  <2>4. CASE ~New(m) /\ ~New(n)
    BY <1>1, <1>3, <1>4, <2>4 DEF NoSharedWrites
  <2>. QED BY <2>1, <2>2, <2>3, <2>4
<1>5. ASSUME NEW m \in Mappings', NEW t \in TableSlots
      PROVE  table'[t[1]][t[2]] # PageOf(m)'
  <2>1. t[1] \in Pids /\ t[2] \in Tables
    BY DEF TableSlots
  <2>2. CASE t[1] = current /\ t[2] = HighTable /\ c # 0
    <3>1. table'[t[1]][t[2]] = f[c] /\ c \in 1..N
      <4>1. table'[t[1]][t[2]] = f[c]
        BY <2>1, <2>2, <1>7
      <4>2. c \in Nat /\ c <= N
        BY CallsType
      <4>. QED BY <2>2, <4>1, <4>2
    <3>2. CASE New(m)
      BY <1>1, <1>3, <3>1, <3>2, GrantDiffers
    <3>3. CASE ~New(m)
      BY <1>2, <1>3, <3>1, <3>3
    <3>. QED BY <3>2, <3>3
  <2>3. CASE ~(t[1] = current /\ t[2] = HighTable /\ c # 0)
    <3>1. table'[t[1]][t[2]] = table[t[1]][t[2]]
      <4>1. CASE t[1] = current
        BY <2>1, <2>3, <4>1, <1>7
      <4>2. CASE t[1] # current
        BY <2>1, <4>2, <1>7
      <4>. QED BY <4>1, <4>2
    <3>2. CASE New(m)
      BY <1>2, <1>3, <3>1, <3>2
    <3>3. CASE ~New(m)
      BY <1>1, <1>3, <3>1, <3>3 DEF NoSharedWrites
    <3>. QED BY <3>2, <3>3
  <2>. QED BY <2>2, <2>3
<1>. QED BY <1>4, <1>5 DEF NoSharedWrites, Console

(* What a child maps, its parent maps too, and neither can write it.       *)
LEMMA ForkUnshared ==
  ASSUME SharingInv, Fork
  PROVE  NoSharedWrites'
<1>1. PICK child \in Pids, f \in Grant(ForkCalls) :
           /\ child # current /\ state[child] = "P_FREE" /\ current \in Pids
           /\ pte[child] = NoEntries /\ table[child] = NoTables
           /\ \A p \in Pids : p # child => table'[p] = table[p]
           /\ \A i \in Tables : table'[child][i] = IF i + 1 \in 1..ForkCalls THEN f[i + 1] ELSE NoPage
           /\ \A p \in Pids : p # child /\ p # current => pte'[p] = pte[p]
           /\ pte'[current] = MarkShared(SharedPages)
           /\ \A va \in VAs : pte'[child][va] = IF va \in SharedPages \cup {0}
                                                THEN MarkShared(SharedPages)[va] ELSE Absent
  BY ForkIs DEF SharingInv
<1>2. TypeInv /\ ConsoleOnly /\ Covered /\ NoSharedWrites /\ 0 \notin SharedPages
  BY DEF SharingInv, RunInv, SharedPages, ProcStart
<1>. DEFINE Source(m) == IF m[1] = child THEN <<current, m[2]>> ELSE m
            W(m) == Writable(pte'[m[1]][m[2]])
<1>3. ASSUME NEW m \in Mappings'
      PROVE  /\ Source(m) \in Mappings /\ PageOf(m)' = PageOf(Source(m)) /\ m = <<m[1], m[2]>>
             /\ m[1] = child => m[2] \in SharedPages \cup {0}
             /\ W(m) => Writable(pte[Source(m)[1]][Source(m)[2]])
             /\ m[1] \in {child, current} /\ m[2] \in SharedPages => ~W(m)
             /\ m[2] = 0 => PageOf(m)' = Console
  <2>1. m \in Pids \X VAs /\ m[1] \in Pids /\ m[2] \in VAs /\ Present(pte'[m[1]][m[2]])
        /\ m = <<m[1], m[2]>>
    BY DEF Mappings
  <2>2. CASE m[1] = child
    <3>1. m[2] \in SharedPages \cup {0} /\ pte'[m[1]][m[2]] = MarkShared(SharedPages)[m[2]]
      BY <1>1, <2>1, <2>2 DEF Absent, Present
    <3>2. /\ Present(pte[current][m[2]]) /\ pte'[m[1]][m[2]].pa = pte[current][m[2]].pa
          /\ W(m) => Writable(pte[current][m[2]]) /\ m[2] \notin SharedPages
      BY <2>1, <3>1, MarkSharedIs
    <3>3. Source(m) = <<current, m[2]>> /\ Source(m) \in Mappings /\ PageOf(m)' = PageOf(Source(m))
      BY <1>1, <2>1, <2>2, <3>2 DEF Mappings, PageOf
    <3>4. m[2] = 0 => PageOf(m)' = Console
      BY <1>2, <3>3, PageIs
    <3>. QED BY <2>1, <2>2, <3>1, <3>2, <3>3, <3>4
  <2>3. CASE m[1] = current
    <3>1. /\ Present(pte[current][m[2]]) /\ pte'[m[1]][m[2]].pa = pte[current][m[2]].pa
          /\ W(m) => Writable(pte[current][m[2]]) /\ m[2] \notin SharedPages
      <4>1. pte'[m[1]][m[2]] = MarkShared(SharedPages)[m[2]]
        BY <1>1, <2>3
      <4>. QED BY <2>1, <4>1, MarkSharedIs
    <3>2. Source(m) = m /\ Source(m) \in Mappings /\ PageOf(m)' = PageOf(Source(m))
      BY <1>1, <2>1, <2>3, <3>1 DEF Mappings, PageOf
    <3>3. m[2] = 0 => PageOf(m)' = Console
      BY <1>2, <3>2, PageIs
    <3>. QED BY <1>1, <2>1, <2>3, <3>1, <3>2, <3>3
  <2>4. CASE m[1] # child /\ m[1] # current
    <3>1. Source(m) = m /\ pte'[m[1]][m[2]] = pte[m[1]][m[2]]
      BY <1>1, <2>1, <2>4
    <3>2. Source(m) \in Mappings /\ PageOf(m)' = PageOf(Source(m))
      BY <2>1, <3>1 DEF Mappings, PageOf
    <3>3. m[2] = 0 => PageOf(m)' = Console
      BY <1>2, <3>1, <3>2, PageIs
    <3>. QED BY <2>1, <2>4, <3>1, <3>2, <3>3
  <2>. QED BY <2>2, <2>3, <2>4
<1>4. ASSUME NEW m \in Mappings', NEW n \in Mappings', m # n, PageOf(m)' = PageOf(n)', PageOf(m)' # Console
      PROVE  ~W(m)
  <2>1. SUFFICES ASSUME W(m) PROVE FALSE
    OBVIOUS
  <2>2. m[1] # child /\ Source(m) = m
    BY <1>3, <1>4, <2>1
  <2>3. Writable(pte[m[1]][m[2]]) /\ m \in Mappings /\ PageOf(m)' = PageOf(m)
    BY <1>3, <2>1, <2>2
  <2>4. Source(n) \in Mappings /\ PageOf(Source(n)) = PageOf(m) /\ PageOf(m) # Console
    BY <1>3, <1>4, <2>3
  <2>5. CASE Source(n) # m
    BY <1>2, <2>3, <2>4, <2>5 DEF NoSharedWrites
  <2>6. CASE Source(n) = m
    <3>1. n[1] = child /\ m = <<current, n[2]>>
      BY <1>4, <2>6
    <3>2. n[2] \in SharedPages
      BY <1>3, <1>4, <3>1
    <3>. QED BY <1>3, <2>1, <3>1, <3>2
  <2>. QED BY <2>5, <2>6
<1>5. ASSUME NEW m \in Mappings', NEW t \in TableSlots
      PROVE  table'[t[1]][t[2]] # PageOf(m)'
  <2>1. t[1] \in Pids /\ t[2] \in Tables
    BY DEF TableSlots
  <2>2. Source(m) \in Mappings /\ PageOf(m)' = PageOf(Source(m)) /\ PageOf(m)' # NoPage
    BY <1>2, <1>3, PageIs
  <2>3. CASE t[1] = child /\ t[2] + 1 \in 1..ForkCalls
    <3>1. table'[t[1]][t[2]] = f[t[2] + 1]
      BY <1>1, <2>1, <2>3
    <3>2. f[t[2] + 1] \in Pages /\ refcount[f[t[2] + 1]] = 0
      BY <2>3, GrantType
    <3>. QED BY <1>2, <2>2, <3>1, <3>2, NewUnmapped
  <2>4. CASE t[1] = child /\ t[2] + 1 \notin 1..ForkCalls
    BY <1>1, <2>1, <2>2, <2>4
  <2>5. CASE t[1] # child
    BY <1>1, <1>2, <2>1, <2>2, <2>5 DEF NoSharedWrites
  <2>. QED BY <2>3, <2>4, <2>5
<1>. QED BY <1>4, <1>5 DEF NoSharedWrites, Console

(* Linking a free page as a table shares nothing.                          *)
LEMMA RollbackUnshared ==
  ASSUME SharingInv, NEW va \in VAs, NEW len \in Nat \ {0}, MmapRollback(va, len)
  PROVE  NoSharedWrites'
<1>1. PICK a \in MmapAddr(va, len) :
        /\ TableCall(a, len) # 0
        /\ \E f \in Grant(TableCall(a, len)) : LinkTable(current, f[TableCall(a, len)])
  BY DEF MmapRollback
<1>2. PICK f \in Grant(TableCall(a, len)) : LinkTable(current, f[TableCall(a, len)])
  BY <1>1
<1>. DEFINE new == f[TableCall(a, len)]
<1>3. new \in Pages /\ refcount[new] = 0
  <2>1. TableCall(a, len) \in 1..TableCall(a, len)
    BY <1>1, MmapAddrType, CallsType
  <2>. QED BY <2>1, GrantType
<1>4. Covered /\ NoSharedWrites /\ table \in [Pids -> [Tables -> Pages \cup {NoPage}]] /\ UNCHANGED pte
  BY DEF SharingInv, RunInv, TypeInv, TypeOK, MemTypeOK, MmapRollback
<1>5. \A m \in Mappings : PageOf(m) # new
  BY <1>3, <1>4, NewUnmapped
<1>6. ASSUME NEW t \in TableSlots PROVE table'[t[1]][t[2]] \in {new, table[t[1]][t[2]]}
  <2>1. t[1] \in Pids /\ t[2] \in Tables
    BY DEF TableSlots
  <2>. QED BY <1>2, <1>4, <2>1 DEF LinkTable
<1>7. Mappings' = Mappings /\ \A m \in Mappings : PageOf(m)' = PageOf(m) /\ pte'[m[1]][m[2]] = pte[m[1]][m[2]]
  BY <1>4 DEF Mappings, PageOf
<1>8. ASSUME NEW m \in Mappings', NEW n \in Mappings', m # n, PageOf(m)' = PageOf(n)', PageOf(m)' # Console
      PROVE  ~Writable(pte'[m[1]][m[2]])
  BY <1>4, <1>7, <1>8 DEF NoSharedWrites
<1>9. ASSUME NEW m \in Mappings', NEW t \in TableSlots PROVE table'[t[1]][t[2]] # PageOf(m)'
  BY <1>4, <1>5, <1>6, <1>7 DEF NoSharedWrites
<1>. QED BY <1>8, <1>9 DEF NoSharedWrites, Console

(* No step of munmap or of a process that ends makes a page writable.      *)
LEMMA DiscardUnshared ==
  ASSUME SharingInv, NEW p \in Pids, Discard(p)
  PROVE  NoSharedWrites'
<1>1. /\ TypeInv /\ ConsoleOnly /\ NoSharedWrites
      /\ pte \in [Pids -> [VAs -> Entries]] /\ table \in [Pids -> [Tables -> Pages \cup {NoPage}]]
  BY DEF SharingInv, RunInv, TypeInv, TypeOK, MemTypeOK
<1>2. ASSUME NEW q \in Pids
      PROVE  /\ \A va \in VAs : Present(pte'[q][va]) => pte'[q][va] = pte[q][va]
             /\ \A i \in Tables : table'[q][i] \in {table[q][i], NoPage}
  BY <1>1 DEF Discard, NoEntries, NoTables, Absent, Present
<1>. QED BY <1>1, <1>2, FewerShared

LEMMA MunmapUnshared ==
  ASSUME SharingInv, NEW c \in UnmapCalls, Munmap(c)
  PROVE  NoSharedWrites'
<1>1. TypeInv /\ ConsoleOnly /\ NoSharedWrites /\ pte \in [Pids -> [VAs -> Entries]]
  BY DEF SharingInv, RunInv, TypeInv, TypeOK, MemTypeOK
<1>2. /\ UNCHANGED table
      /\ \A q \in Pids, va \in VAs : Present(pte'[q][va]) => pte'[q][va] = pte[q][va]
  BY <1>1 DEF Munmap, Panic, Absent, Present
<1>. QED BY <1>1, <1>2, FewerShared

LEMMA MmapPagesUnshared ==
  ASSUME SharingInv, NEW va \in VAs, NEW len \in Nat \ {0}, NEW perm, MmapPages(va, len, perm)
  PROVE  NoSharedWrites'
<1>1. PICK a \in MmapAddr(va, len) : \E f \in Grant(NCalls(a, len)) : Mapped(a, len, perm, f)
  BY DEF MmapPages, Mapped
<1>2. a \in Nat
  BY MmapAddrType
<1>. QED BY <1>1, <1>2, MappedUnshared

LEMMA NextUnshared ==
  ASSUME SharingInv, [Next]_vars
  PROVE  NoSharedWrites'
<1>0. TypeInv /\ ConsoleOnly /\ Covered /\ NoSharedWrites /\ current \in Pids
  BY DEF SharingInv, RunInv, TypeInv, TypeOK
<1>1. CASE UNCHANGED <<pte, table>>
  BY <1>0, <1>1, FewerShared
<1>2. CASE Timer \/ Yield \/ (\E t \in SleepCalls : Sleep(t)) \/ \E va \in VAs : Fault(va)
  BY <1>1, <1>2 DEF Timer, Yield, Sleep, Fault, memVars
<1>3. ASSUME ExitCurrent PROVE NoSharedWrites'
  <2>1. Discard(current) \/ UNCHANGED <<pte, table>>
    BY <1>3 DEF ExitCurrent, Panic
  <2>. QED BY <1>0, <1>1, <2>1, DiscardUnshared
<1>4. ASSUME NEW c \in KillCalls, Kill(c[1], c[2]) PROVE NoSharedWrites'
  <2>1. c[2] \in Pids
    BY KernelAssumption
  <2>2. Discard(c[2]) \/ UNCHANGED <<pte, table>>
    BY <1>4 DEF Kill, Panic
  <2>. QED BY <1>1, <2>1, <2>2, DiscardUnshared
<1>5. ASSUME NEW va \in VAs, CowReuse(va) \/ CowCopy(va) \/ CowNoMemory(va) PROVE NoSharedWrites'
  <2>1. CASE CowReuse(va)
    BY <2>1, CowReuseUnshared
  <2>2. CASE CowNoMemory(va)
    BY <1>3, <2>2 DEF CowNoMemory
  <2>3. CASE CowCopy(va)
    <3>1. PICK f \in Grant(1) :
            \/ UNCHANGED table /\ pte' = [pte EXCEPT ![current][va] =
                                           [pa |-> f[1], perm |-> CowPerm(pte[current][va])]]
            \/ UNCHANGED <<pte, table>>
      BY <2>3 DEF CowCopy, Panic
    <3>2. f[1] \in Pages /\ refcount[f[1]] = 0
      BY GrantType
    <3>. QED BY <1>1, <3>1, <3>2, CowCopyUnshared
  <2>. QED BY <1>5, <2>1, <2>2, <2>3
<1>6. CASE \E va \in VAs, v \in Values : Store(va, v)
  BY <1>1, <1>6 DEF Store
<1>7. ASSUME NEW c \in MmapCalls, Mmap(c) PROVE NoSharedWrites'
  <2>1. c.va \in VAs /\ c.len \in Nat \ {0}
    BY KernelAssumption, PageTablesAssumption DEF VAs
  <2>. QED BY <1>7, <2>1, MmapPagesUnshared, RollbackUnshared DEF Mmap
<1>8. ASSUME NEW va \in AllocCalls, PageAlloc(va) PROVE NoSharedWrites'
  <2>1. va \in VAs
    BY KernelAssumption, PageTablesAssumption DEF VAs, ProcStart
  <2>. QED BY <1>8, <2>1, MmapPagesUnshared DEF PageAlloc
<1>9. CASE \E c \in UnmapCalls : Munmap(c)
  BY <1>9, MunmapUnshared
<1>10. CASE Fork
  BY <1>10, ForkUnshared
<1>11. CASE ForkRollback
  <2>1. /\ UNCHANGED table /\ pte \in [Pids -> [VAs -> Entries]]
        /\ pte' = [pte EXCEPT ![current] = MarkShared({va \in SharedPages : va < HighVA})]
    BY <1>0, <1>11 DEF ForkRollback, TypeInv, TypeOK, MemTypeOK
  <2>2. ASSUME NEW p \in Pids, NEW va \in VAs, Present(pte'[p][va])
        PROVE  /\ Present(pte[p][va]) /\ pte'[p][va].pa = pte[p][va].pa
               /\ Writable(pte'[p][va]) => Writable(pte[p][va])
    <3>1. CASE p = current
      BY <1>0, <2>1, <2>2, <3>1, MarkSharedIs
    <3>2. CASE p # current
      BY <2>1, <2>2, <3>2
    <3>. QED BY <3>1, <3>2
  <2>. QED BY <1>0, <2>1, <2>2, FewerShared
<1>12. CASE UNCHANGED vars
  BY <1>1, <1>12 DEF vars
<1>. QED BY <1>2, <1>3, <1>4, <1>5, <1>6, <1>7, <1>8, <1>9, <1>10, <1>11, <1>12 DEF Next, Exit

-----------------------------------------------------------------------------
(* No step maps a page for a free slot, or the low page elsewhere.         *)
LEMMA CallEmpties ==
  ASSUME RunInv, ConsoleOnly, FreeEmpty, mode = "user",
         \A q \in Pids : state'[q] = "P_FREE" => state[q] = "P_FREE",
         \A q \in Pids : q # current => pte'[q] = pte[q] /\ table'[q] = table[q],
         Present(pte'[current][0]) => Present(pte[current][0]) /\ pte'[current][0].pa = pte[current][0].pa
  PROVE  ConsoleOnly' /\ FreeEmpty'
<1>1. current \in Pids /\ state[current] # "P_FREE"
  BY DEF RunInv, Running, TypeInv, TypeOK
<1>2. ConsoleOnly'
  BY <1>1 DEF ConsoleOnly, Console
<1>3. FreeEmpty'
  BY <1>1 DEF FreeEmpty, NoEntries, NoTables
<1>. QED BY <1>2, <1>3

LEMMA DiscardEmpties ==
  ASSUME RunInv, ConsoleOnly, FreeEmpty, NEW p \in Pids, Discard(p)
  PROVE  ConsoleOnly' /\ FreeEmpty'
<1>1. /\ pte'[p] = NoEntries /\ table'[p] = NoTables
      /\ \A q \in Pids : q # p => pte'[q] = pte[q] /\ table'[q] = table[q] /\ state'[q] = state[q]
  BY DEF Discard, RunInv, TypeInv, TypeOK, MemTypeOK
<1>2. 0 \in VAs
  BY PageTablesAssumption DEF VAs
<1>3. ~Present(pte'[p][0])
  BY <1>1, <1>2 DEF NoEntries, Absent, Present
<1>4. ConsoleOnly'
  BY <1>1, <1>3 DEF ConsoleOnly, Console
<1>5. FreeEmpty'
  BY <1>1 DEF FreeEmpty, NoEntries, NoTables
<1>. QED BY <1>4, <1>5

LEMMA ForkEmpties ==
  ASSUME RunInv, ConsoleOnly, FreeEmpty, Fork
  PROVE  ConsoleOnly' /\ FreeEmpty'
<1>1. PICK child \in Pids :
           /\ child # current /\ current \in Pids
           /\ \A p \in Pids : p # child => table'[p] = table[p]
           /\ \A p \in Pids : p # child /\ p # current => pte'[p] = pte[p]
           /\ pte'[current] = MarkShared(SharedPages)
           /\ \A va \in VAs : pte'[child][va] = IF va \in SharedPages \cup {0}
                                                THEN MarkShared(SharedPages)[va] ELSE Absent
           /\ state' = [state EXCEPT ![child] = "P_RUNNABLE"]
  BY ForkIs
<1>2. 0 \in VAs /\ state \in [Pids -> {"P_FREE", "P_RUNNABLE", "P_FAULTED"}] /\ state[current] # "P_FREE"
  BY PageTablesAssumption DEF VAs, RunInv, Running, Fork, TypeInv, TypeOK
<1>3. pte'[child][0] = MarkShared(SharedPages)[0] /\ pte'[current][0] = MarkShared(SharedPages)[0]
  BY <1>1, <1>2
<1>4. /\ Present(MarkShared(SharedPages)[0]) => Present(pte[current][0])
      /\ MarkShared(SharedPages)[0].pa = pte[current][0].pa
  BY <1>2, MarkSharedIs
<1>5. ASSUME NEW p \in Pids, Present(pte'[p][0]) PROVE pte'[p][0].pa = Console
  BY <1>1, <1>3, <1>4, <1>5 DEF ConsoleOnly
<1>6. ASSUME NEW p \in Pids, state'[p] = "P_FREE" PROVE pte'[p] = NoEntries /\ table'[p] = NoTables
  BY <1>1, <1>2, <1>6 DEF FreeEmpty
<1>. QED BY <1>5, <1>6 DEF ConsoleOnly, FreeEmpty, Console, NoEntries, NoTables

LEMMA MmapPagesLow ==
  ASSUME TypeInv, NEW va \in VAs, NEW len \in Nat \ {0}, NEW perm, MmapPages(va, len, perm)
  PROVE  /\ \A q \in Pids : q # current => pte'[q] = pte[q] /\ table'[q] = table[q]
         /\ pte'[current][0] = pte[current][0] /\ state' = state /\ mode = "user"
<1>1. PICK a \in MmapAddr(va, len) : \E f \in Grant(NCalls(a, len)) : Mapped(a, len, perm, f)
  BY DEF MmapPages, Mapped
<1>2. PICK f \in Grant(NCalls(a, len)) : Mapped(a, len, perm, f)
  BY <1>1
<1>3. a \in Nat /\ a >= ProcStart /\ Ceil(len) \in Nat /\ 0 \in VAs
  BY MmapAddrType, CeilType, PageTablesAssumption DEF VAs
<1>4. \A w \in VAs : pte'[current][w] = IF w \in a..(a + Ceil(len) - 1)
                                       THEN [pa |-> f[PageCall(a, len, w)], perm |-> perm]
                                       ELSE pte[current][w]
  BY <1>2, <1>3, MappedIs
<1>5. 0 \notin a..(a + Ceil(len) - 1)
  BY <1>3 DEF ProcStart
<1>6. \A q \in Pids : q # current => pte'[q] = pte[q] /\ table'[q] = table[q]
  BY <1>2, <1>3, MappedIs
<1>. QED BY <1>3, <1>4, <1>5, <1>6 DEF MmapPages, Return

LEMMA NextEmpties ==
  ASSUME RunInv, ConsoleOnly, FreeEmpty, [Next]_vars
  PROVE  ConsoleOnly' /\ FreeEmpty'
<1>0. /\ TypeInv /\ current \in Pids /\ pte \in [Pids -> [VAs -> Entries]] /\ 0 \in VAs
      /\ table \in [Pids -> [Tables -> Pages \cup {NoPage}]]
      /\ state \in [Pids -> {"P_FREE", "P_RUNNABLE", "P_FAULTED"}]
  BY PageTablesAssumption DEF RunInv, TypeInv, TypeOK, MemTypeOK, VAs
<1>1. CASE UNCHANGED <<pte, table, state>>
  BY <1>1 DEF ConsoleOnly, FreeEmpty, Console, NoEntries, NoTables
<1>2. CASE Timer \/ Yield \/ \E t \in SleepCalls : Sleep(t)
  BY <1>1, <1>2 DEF Timer, Yield, Sleep, memVars
<1>3. ASSUME NEW va \in VAs, Fault(va) PROVE ConsoleOnly' /\ FreeEmpty'
  BY <1>0, <1>3, CallEmpties DEF Fault, memVars
<1>4. ASSUME ExitCurrent PROVE ConsoleOnly' /\ FreeEmpty'
  BY <1>0, <1>1, <1>4, DiscardEmpties DEF ExitCurrent, Panic
<1>5. ASSUME NEW c \in KillCalls, Kill(c[1], c[2]) PROVE ConsoleOnly' /\ FreeEmpty'
  <2>1. c[2] \in Pids
    BY KernelAssumption
  <2>. QED BY <1>1, <1>5, <2>1, DiscardEmpties DEF Kill, Panic
<1>6. ASSUME NEW va \in VAs, CowReuse(va) \/ CowCopy(va) \/ CowNoMemory(va)
      PROVE  ConsoleOnly' /\ FreeEmpty'
  <2>1. CASE CowNoMemory(va)
    BY <1>4, <2>1 DEF CowNoMemory
  <2>2. CASE UNCHANGED <<pte, table, state>>
    BY <1>1, <2>2
  <2>3. ASSUME NEW x, pte' = [pte EXCEPT ![current][va] = x], UNCHANGED <<table, state>>, mode = "user",
               va >= ProcStart
        PROVE  ConsoleOnly' /\ FreeEmpty'
    <3>1. /\ \A q \in Pids : q # current => pte'[q] = pte[q] /\ table'[q] = table[q]
          /\ pte'[current][0] = pte[current][0]
      BY <1>0, <2>3 DEF ProcStart
    <3>. QED BY <2>3, <3>1, CallEmpties
  <2>4. CASE CowReuse(va)
    BY <2>3, <2>4 DEF CowReuse, Return
  <2>5. CASE CowCopy(va)
    <3>1. PICK f \in Grant(1) :
            \/ /\ pte' = [pte EXCEPT ![current][va] = [pa |-> f[1], perm |-> CowPerm(pte[current][va])]]
               /\ UNCHANGED <<table, state>>
            \/ UNCHANGED <<pte, table, state>>
      BY <2>5 DEF CowCopy, Panic, Return
    <3>. QED BY <2>2, <2>3, <2>5, <3>1 DEF CowCopy
  <2>. QED BY <1>6, <2>1, <2>4, <2>5
<1>7. CASE \E va \in VAs, v \in Values : Store(va, v)
  BY <1>1, <1>7 DEF Store, Return
<1>8. ASSUME NEW va \in VAs, NEW len \in Nat \ {0}, NEW perm, MmapPages(va, len, perm)
      PROVE  ConsoleOnly' /\ FreeEmpty'
  BY <1>0, <1>8, MmapPagesLow, CallEmpties
<1>9. ASSUME NEW va \in VAs, NEW len \in Nat \ {0}, MmapRollback(va, len)
      PROVE  ConsoleOnly' /\ FreeEmpty'
  <2>1. /\ \A q \in Pids : q # current => table'[q] = table[q]
        /\ UNCHANGED <<pte, state>> /\ mode = "user"
    BY <1>0, <1>9 DEF MmapRollback, LinkTable, Return
  <2>. QED BY <2>1, CallEmpties
<1>10. CASE (\E c \in MmapCalls : Mmap(c)) \/ \E va \in AllocCalls : PageAlloc(va)
  <2>1. ASSUME NEW c \in MmapCalls PROVE c.va \in VAs /\ c.len \in Nat \ {0}
    BY KernelAssumption, PageTablesAssumption DEF VAs
  <2>2. ASSUME NEW va \in AllocCalls PROVE va \in VAs /\ 2 \in Nat \ {0}
    BY KernelAssumption, PageTablesAssumption DEF VAs, ProcStart
  <2>. QED BY <1>8, <1>9, <1>10, <2>1, <2>2 DEF Mmap, PageAlloc
<1>11. ASSUME NEW c \in UnmapCalls, Munmap(c) PROVE ConsoleOnly' /\ FreeEmpty'
  <2>1. UNCHANGED <<table, state>> /\ mode = "user"
    BY <1>11 DEF Munmap, Panic, Return
  <2>2. /\ \A q \in Pids : q # current => pte'[q] = pte[q]
        /\ \A va \in VAs : Present(pte'[current][va]) => pte'[current][va] = pte[current][va]
    BY <1>0, <1>11 DEF Munmap, Panic, Absent, Present
  <2>. QED BY <1>0, <2>1, <2>2, CallEmpties
<1>12. CASE ForkRollback
  <2>1. /\ UNCHANGED <<table, state>> /\ mode = "user"
        /\ \A q \in Pids : q # current => pte'[q] = pte[q]
        /\ pte'[current] = MarkShared({va \in SharedPages : va < HighVA})
    BY <1>0, <1>12 DEF ForkRollback, Return
  <2>2. Present(pte'[current][0]) => Present(pte[current][0]) /\ pte'[current][0].pa = pte[current][0].pa
    BY <1>0, <2>1, MarkSharedIs
  <2>. QED BY <2>1, <2>2, CallEmpties
<1>13. CASE UNCHANGED vars
  BY <1>1, <1>13 DEF vars
<1>. QED BY <1>2, <1>3, <1>4, <1>5, <1>6, <1>7, <1>10, <1>11, <1>12, <1>13, ForkEmpties DEF Next, Exit

(* The invariant of sharing is inductive.                                  *)
LEMMA NextSharing == ASSUME SharingInv, [Next]_vars PROVE SharingInv'
<1>1. RunInv /\ ConsoleOnly /\ FreeEmpty /\ Covered
  BY DEF SharingInv
<1>2. RunInv' /\ ConsoleOnly' /\ FreeEmpty' /\ NoSharedWrites'
  BY <1>1, NextRuns, NextEmpties, NextUnshared
<1>3. Grows
  BY <1>1, NextSpare
<1>4. Covered'
  <2>1. ASSUME NEW pg \in Pages PROVE Spare(pg)' >= 0
    <3>1. Spare(pg)' >= Spare(pg) /\ Spare(pg) >= 0
      BY <1>1, <1>3 DEF Grows, Covered
    <3>2. Spare(pg) \in Int
      BY <1>1, SpareType DEF RunInv, TypeInv, TypeOK, MemTypeOK
    <3>3. Spare(pg)' \in Int
      <4>0. MemTypeOK'
        BY <1>2 DEF RunInv, TypeInv, TypeOK
      <4>1. refcount'[pg] \in Int
        BY <4>0 DEF MemTypeOK, Pages
      <4>2. Cardinality(UsesOf(pte', pg)) \in Nat /\ Cardinality(SlotsOf(table', pg)) \in Nat
        BY CountTypes
      <4>3. Spare(pg)' = refcount'[pg] - (Cardinality(UsesOf(pte', pg)) + Cardinality(SlotsOf(table', pg)))
        BY DEF Spare, UsesOf, SlotsOf
      <4>. QED BY <4>1, <4>2, <4>3
    <3>. QED BY <3>1, <3>2, <3>3
  <2>. QED BY <2>1 DEF Covered, Pages
<1>. QED BY <1>2, <1>4 DEF SharingInv

-----------------------------------------------------------------------------
(* The pages of the image take one index each, all of those between the    *)
(* low tables and the stack.                                               *)
LEMMA ImageRank ==
  LET c == Cardinality(DOMAIN Image)
      I == (LowTables + 2)..(LowTables + 1 + c)
  IN  /\ c \in Nat
      /\ \A v \in DOMAIN Image : ImageIndex(v) \in I
      /\ \A v, w \in DOMAIN Image : ImageIndex(v) = ImageIndex(w) => v = w
      /\ \A i \in I : \E v \in DOMAIN Image : ImageIndex(v) = i
<1>. DEFINE D == DOMAIN Image  c == Cardinality(D)  Upto(v) == {w \in D : w <= v}
            I == (LowTables + 2)..(LowTables + 1 + c)
<1>1. D \subseteq VAs /\ D \subseteq Nat /\ IsFiniteSet(D)
  <2>1. D \in SUBSET VAs /\ D \subseteq Nat
    BY KernelAssumption, PageTablesAssumption DEF VAs, ProcStart
  <2>. QED BY <2>1, RefsFinite, FS_Subset
<1>2. c \in Nat /\ \A v \in D : Cardinality(Upto(v)) \in 0..c
  BY <1>1, ImageFinite
<1>3. ASSUME NEW v \in D
      PROVE  IsFiniteSet(Upto(v)) /\ v \in Upto(v) /\ Cardinality(Upto(v)) >= 1
  <2>1. Upto(v) \in SUBSET D /\ v \in Upto(v)
    BY <1>1
  <2>2. IsFiniteSet(Upto(v))
    BY <1>1, <2>1, FS_Subset
  <2>. QED BY <2>1, <2>2, OneUse
<1>4. ASSUME NEW v \in D, NEW w \in D, v < w
      PROVE  Cardinality(Upto(v)) # Cardinality(Upto(w))
  <2>1. Upto(v) \in SUBSET Upto(w) /\ w \notin Upto(v)
    BY <1>1, <1>4
  <2>2. Cardinality(Upto(w)) = Cardinality(Upto(v)) => Upto(w) = Upto(v)
    BY <1>3, <2>1, FS_Subset
  <2>. QED BY <1>3, <2>1, <2>2
<1>5. \A v : ImageIndex(v) = 1 + LowTables + Cardinality(Upto(v))
  BY DEF ImageIndex
<1>. HIDE DEF Upto
<1>6. ASSUME NEW v \in D PROVE ImageIndex(v) \in I
  BY <1>2, <1>3, <1>5, PageTablesAssumption
<1>7. ASSUME NEW v \in D, NEW w \in D, ImageIndex(v) = ImageIndex(w) PROVE v = w
  <2>1. Cardinality(Upto(v)) = Cardinality(Upto(w))
    BY <1>2, <1>5, <1>7, PageTablesAssumption
  <2>2. v \in Nat /\ w \in Nat
    BY <1>1
  <2>. QED BY <1>4, <2>1, <2>2
<1>. DEFINE r == [v \in D |-> ImageIndex(v)]
<1>8. r \in Injection(D, I)
  <2>1. r \in [D -> I]
    BY <1>6
  <2>2. \A v, w \in D : r[v] = r[w] => v = w
    BY <1>7
  <2>. QED BY <2>1, <2>2 DEF Injection, IsInjective
<1>9. IsFiniteSet(I) /\ Cardinality(I) = c
  <2>. DEFINE a == LowTables + 2  b == LowTables + 1 + c
  <2>1. a \in Int /\ b \in Int /\ (IF a > b THEN 0 ELSE b - a + 1) = c
    BY <1>2, PageTablesAssumption
  <2>. HIDE DEF a, b
  <2>2. IsFiniteSet(a..b) /\ Cardinality(a..b) = c
    BY <2>1, FS_Interval
  <2>. QED BY <2>2 DEF a, b
<1>10. r \in Surjection(D, I)
  <2>. HIDE DEF r, I, c
  <2>. QED BY <1>8, <1>9, FS_Injection DEF c
<1>11. \A i \in I : \E v \in D : ImageIndex(v) = i
  <2>1. \A i \in I : \E v \in D : r[v] = i
    BY <1>10 DEF Surjection
  <2>. QED BY <2>1
<1>. QED BY <1>2, <1>6, <1>7, <1>11

(* Setup gives each process pages of its own, one after the other.         *)
LEMMA SetupPages ==
  LET k == PagesPerProcess IN
  /\ k \in Nat
  /\ \A p \in 1..NInit, i \in 1..k : SetupPage(p, i) \in 1..(NInit * k)
  /\ \A p, q \in 1..NInit, i, j \in 1..k : SetupPage(p, i) = SetupPage(q, j) => p = q /\ i = j
  /\ \A pg \in 1..(NInit * k) : \E p \in 1..NInit, i \in 1..k : SetupPage(p, i) = pg
<1>. DEFINE k == PagesPerProcess
<1>1. k \in Nat /\ NInit \in Nat
  BY ImageFinite, KernelAssumption, PageTablesAssumption
<1>2. \A p, i : SetupPage(p, i) = (p - 1) * k + i
  BY DEF SetupPage
<1>. HIDE DEF k
<1>3. ASSUME NEW p \in Int, NEW q \in Int, p <= q
      PROVE  p * k <= q * k /\ p * k \in Int
  <2>1. (q - p) * k >= 0
    BY <1>1, <1>3
  <2>2. (q - p) * k = q * k - p * k
    BY <1>1
  <2>. QED BY <1>1, <2>1, <2>2
<1>4. \A p \in Int : (p + 1) * k = p * k + k
  BY <1>1
<1>5. ASSUME NEW p \in 1..NInit, NEW i \in 1..k PROVE SetupPage(p, i) \in 1..(NInit * k)
  <2>1. 0 * k <= (p - 1) * k /\ p * k <= NInit * k /\ p * k = (p - 1) * k + k /\ 0 * k = 0
    BY <1>1, <1>3, <1>4
  <2>. QED BY <1>1, <1>2, <1>3, <2>1
<1>6. ASSUME NEW p \in 1..NInit, NEW q \in 1..NInit, NEW i \in 1..k, NEW j \in 1..k,
             SetupPage(p, i) = SetupPage(q, j)
      PROVE  p = q /\ i = j
  <2>1. ASSUME NEW x \in 1..NInit, NEW y \in 1..NInit, x < y
        PROVE  \A a, b \in 1..k : SetupPage(x, a) < SetupPage(y, b)
    <3>1. x * k <= (y - 1) * k /\ x * k = (x - 1) * k + k
      BY <1>1, <1>3, <1>4, <2>1
    <3>2. (x - 1) * k \in Int /\ (y - 1) * k \in Int
      BY <1>1
    <3>. QED BY <1>1, <1>2, <3>1, <3>2
  <2>2. p = q
    <3>1. SetupPage(p, i) \in Int /\ SetupPage(q, j) \in Int
      BY <1>5
    <3>. QED BY <1>6, <2>1, <3>1
  <2>3. (p - 1) * k \in Int
    BY <1>1
  <2>. QED BY <1>2, <1>6, <2>2, <2>3
<1>7. \A pg \in 1..(NInit * k) : \E p \in 1..NInit, i \in 1..k : SetupPage(p, i) = pg
  <2>. DEFINE S == (1..NInit) \X (1..k)  T == 1..(NInit * k)  f == [x \in S |-> SetupPage(x[1], x[2])]
  <2>1. IsFiniteSet(1..NInit) /\ Cardinality(1..NInit) = NInit /\ IsFiniteSet(1..k) /\ Cardinality(1..k) = k
    BY <1>1, FS_Interval
  <2>2. IsFiniteSet(S) /\ Cardinality(S) = NInit * k
    <3>. DEFINE A == 1..NInit  B == 1..k
    <3>. HIDE DEF A, B
    <3>1. IsFiniteSet(A \X B) /\ Cardinality(A \X B) = Cardinality(A) * Cardinality(B)
      BY <2>1, FS_Product DEF A, B
    <3>. QED BY <2>1, <3>1 DEF A, B
  <2>3. IsFiniteSet(T) /\ Cardinality(T) = NInit * k
    <3>1. NInit * k \in Nat
      BY <1>1
    <3>. QED BY <3>1, FS_Interval
  <2>4. f \in Injection(S, T)
    <3>1. f \in [S -> T]
      BY <1>5
    <3>2. ASSUME NEW x \in S, NEW y \in S, f[x] = f[y] PROVE x = y
      <4>1. x[1] = y[1] /\ x[2] = y[2]
        BY <1>6, <3>2
      <4>. QED BY <4>1
    <3>. QED BY <3>1, <3>2 DEF Injection, IsInjective
  <2>5. f \in Surjection(S, T)
    <3>. HIDE DEF f, S, T
    <3>. QED BY <2>2, <2>3, <2>4, FS_Injection
  <2>6. \A pg \in T : \E x \in S : f[x] = pg
    BY <2>5 DEF Surjection
  <2>. QED BY <2>6
<1>. QED BY <1>1, <1>5, <1>6, <1>7 DEF k

(* The index of the page of each address and of each table at setup.       *)
EntryIndex(va) == IF va \in DOMAIN Image THEN ImageIndex(va)
                  ELSE LowTables + Cardinality(DOMAIN Image) + 2
SlotIndex(i) == IF i # HighTable THEN i + 1 ELSE PagesPerProcess

SetupVAs   == DOMAIN Image \cup {StackVA}
SetupSlots == {i \in Tables : i # HighTable \/ StackVA >= HighVA}

(* Every index is used, and only once.                                     *)
LEMMA IndexOnce ==
  /\ SetupVAs \subseteq VAs /\ 0 \notin SetupVAs
  /\ \A va \in SetupVAs : EntryIndex(va) \in 1..PagesPerProcess
  /\ \A i \in SetupSlots : SlotIndex(i) \in 1..PagesPerProcess
  /\ \A v, w \in SetupVAs : EntryIndex(v) = EntryIndex(w) => v = w
  /\ \A i, j \in SetupSlots : SlotIndex(i) = SlotIndex(j) => i = j
  /\ \A va \in SetupVAs, i \in SetupSlots : EntryIndex(va) # SlotIndex(i)
  /\ \A x \in 1..PagesPerProcess : \/ \E va \in SetupVAs : EntryIndex(va) = x
                                   \/ \E i \in SetupSlots : SlotIndex(i) = x
<1>. DEFINE D == DOMAIN Image  c == Cardinality(D)  k == PagesPerProcess  I == (LowTables + 2)..(LowTables + 1 + c)
<1>1. /\ c \in Nat /\ LowTables \in Nat
      /\ \A v \in D : ImageIndex(v) \in I
      /\ \A v, w \in D : ImageIndex(v) = ImageIndex(w) => v = w
      /\ \A x \in I : \E v \in D : ImageIndex(v) = x
  BY ImageRank, PageTablesAssumption
<1>2. /\ k = IF StackVA >= HighVA THEN LowTables + c + 3 ELSE LowTables + c + 2
      /\ StackVA \in Nat /\ HighVA \in Nat
  BY <1>1, PageTablesAssumption DEF PagesPerProcess, SetupTables, StackVA
<1>3. StackVA \notin D /\ D \subseteq VAs /\ StackVA \in VAs /\ 0 \notin D /\ StackVA # 0
  BY KernelAssumption, PageTablesAssumption DEF VAs, StackVA, ProcStart
<1>4. Tables = 0..(LowTables + 1) /\ HighTable = LowTables + 1
  BY DEF Tables, HighTable
<1>5. /\ \A va \in D : EntryIndex(va) = ImageIndex(va)
      /\ EntryIndex(StackVA) = LowTables + c + 2
      /\ \A i : SlotIndex(i) = IF i # HighTable THEN i + 1 ELSE k
  BY <1>3 DEF EntryIndex, SlotIndex
<1>. HIDE DEF k, c
<1>6. /\ \A va \in D : EntryIndex(va) \in I
      /\ LowTables + c + 2 \notin I
      /\ \A i \in SetupSlots : /\ SlotIndex(i) \in 1..(LowTables + 1) \/ SlotIndex(i) = LowTables + c + 3
                              /\ SlotIndex(i) \in 1..k
  <2>1. ASSUME NEW i \in SetupSlots
        PROVE  /\ SlotIndex(i) \in 1..(LowTables + 1) \/ SlotIndex(i) = LowTables + c + 3
               /\ SlotIndex(i) \in 1..k
    <3>1. i \in 0..(LowTables + 1) /\ (i # HighTable \/ StackVA >= HighVA)
      BY <1>4 DEF SetupSlots
    <3>. QED BY <1>1, <1>2, <1>4, <1>5, <3>1
  <2>. QED BY <1>1, <1>5, <2>1
<1>7. I \subseteq 1..k /\ LowTables + c + 2 \in 1..k /\ LowTables + c + 3 \notin I
      /\ (1..(LowTables + 1)) \cap I = {}
  BY <1>1, <1>2
<1>8. ASSUME NEW i \in SetupSlots, NEW j \in SetupSlots, SlotIndex(i) = SlotIndex(j) PROVE i = j
  <2>1. i \in 0..(LowTables + 1) /\ j \in 0..(LowTables + 1)
    BY <1>4 DEF SetupSlots
  <2>2. k > LowTables + 1
    BY <1>1, <1>2
  <2>. QED BY <1>1, <1>4, <1>5, <1>8, <2>1, <2>2
<1>9. ASSUME NEW x \in 1..k
      PROVE  \/ \E va \in SetupVAs : EntryIndex(va) = x
             \/ \E i \in SetupSlots : SlotIndex(i) = x
  <2>1. CASE x \in I
    BY <1>1, <1>5, <2>1 DEF SetupVAs
  <2>2. CASE x = LowTables + c + 2
    BY <1>5, <2>2 DEF SetupVAs
  <2>3. CASE x <= LowTables + 1
    <3>1. x - 1 \in SetupSlots /\ x - 1 # HighTable
      BY <1>1, <1>4, <2>3 DEF SetupSlots
    <3>2. SlotIndex(x - 1) = x
      BY <1>5, <3>1
    <3>. QED BY <3>1, <3>2
  <2>4. CASE x = LowTables + c + 3
    <3>1. StackVA >= HighVA /\ x = k
      BY <1>1, <1>2, <2>4
    <3>2. HighTable \in SetupSlots /\ SlotIndex(HighTable) = x
      BY <1>1, <1>4, <1>5, <3>1 DEF SetupSlots
    <3>. QED BY <3>2
  <2>. QED BY <1>1, <1>2, <2>1, <2>2, <2>3, <2>4
<1>10. \A v, w \in SetupVAs : EntryIndex(v) = EntryIndex(w) => v = w
  BY <1>1, <1>5, <1>6 DEF SetupVAs
<1>11. \A va \in SetupVAs : EntryIndex(va) \in I \cup {LowTables + c + 2}
  BY <1>5, <1>6 DEF SetupVAs
<1>12. \A va \in SetupVAs, i \in SetupSlots : EntryIndex(va) # SlotIndex(i)
  BY <1>1, <1>6, <1>7, <1>11
<1>13. SetupVAs \subseteq VAs /\ 0 \notin SetupVAs
  BY <1>3 DEF SetupVAs
<1>. QED BY <1>6, <1>7, <1>8, <1>9, <1>10, <1>11, <1>12, <1>13 DEF k

(* What is set up.                                                         *)
LEMMA SetupIs ==
  ASSUME Init, NEW pg \in Pages
  PROVE  /\ \A m \in Pids \X VAs : m \in UsesOf(pte, pg) <=>
              m[1] \in 1..NInit /\ m[2] \in SetupVAs /\ SetupPage(m[1], EntryIndex(m[2])) = pg
         /\ \A t \in TableSlots : t \in SlotsOf(table, pg) <=>
              t[1] \in 1..NInit /\ t[2] \in SetupSlots /\ SetupPage(t[1], SlotIndex(t[2])) = pg
         /\ 1..NInit \subseteq Pids
<1>1. 1..NInit \subseteq Pids /\ Console # pg /\ NoPage # pg
  BY KernelAssumption, PageTablesAssumption DEF Pids, Console, NoPage, Pages
<1>2. ASSUME NEW m \in Pids \X VAs
      PROVE  m \in UsesOf(pte, pg) <=>
               m[1] \in 1..NInit /\ m[2] \in SetupVAs /\ SetupPage(m[1], EntryIndex(m[2])) = pg
  <2>1. m[1] \in Pids /\ m[2] \in VAs
    OBVIOUS
  <2>2. CASE m[1] \notin 1..NInit
    BY <2>1, <2>2 DEF Init, UsesOf, NoEntries, Absent, Present
  <2>3. CASE m[1] \in 1..NInit
    <3>1. pte[m[1]][m[2]] = SetupEntry(m[1], m[2])
      BY <2>1, <2>3 DEF Init
    <3>2. CASE m[2] = 0
      <4>1. SetupEntry(m[1], m[2]).pa = Console
        BY <3>2 DEF SetupEntry
      <4>. QED BY <1>1, <3>1, <3>2, <4>1, IndexOnce DEF UsesOf
    <3>3. CASE m[2] # 0 /\ m[2] \in DOMAIN Image
      <4>1. Present(SetupEntry(m[1], m[2])) /\ SetupEntry(m[1], m[2]).pa = SetupPage(m[1], EntryIndex(m[2]))
        BY <3>3 DEF SetupEntry, EntryIndex, ImagePerm, Present
      <4>. QED BY <2>3, <3>1, <3>3, <4>1 DEF UsesOf, SetupVAs
    <3>4. CASE m[2] # 0 /\ m[2] \notin DOMAIN Image /\ m[2] = StackVA
      <4>1. Present(SetupEntry(m[1], m[2])) /\ SetupEntry(m[1], m[2]).pa = SetupPage(m[1], EntryIndex(m[2]))
        BY <3>4 DEF SetupEntry, EntryIndex, Present
      <4>. QED BY <2>3, <3>1, <3>4, <4>1 DEF UsesOf, SetupVAs
    <3>5. CASE m[2] # 0 /\ m[2] \notin DOMAIN Image /\ m[2] # StackVA
      <4>1. ~Present(SetupEntry(m[1], m[2]))
        BY <3>5 DEF SetupEntry, Absent, Present
      <4>. QED BY <3>1, <3>5, <4>1 DEF UsesOf, SetupVAs
    <3>. QED BY <3>2, <3>3, <3>4, <3>5
  <2>. QED BY <2>2, <2>3
<1>3. ASSUME NEW t \in TableSlots
      PROVE  t \in SlotsOf(table, pg) <=>
               t[1] \in 1..NInit /\ t[2] \in SetupSlots /\ SetupPage(t[1], SlotIndex(t[2])) = pg
  <2>1. t[1] \in Pids /\ t[2] \in Tables
    BY DEF TableSlots
  <2>2. CASE t[1] \notin 1..NInit
    BY <1>1, <2>1, <2>2 DEF Init, SlotsOf, NoTables
  <2>3. CASE t[1] \in 1..NInit
    <3>1. table[t[1]][t[2]] = SetupTable(t[1])[t[2]]
      BY <2>1, <2>3 DEF Init
    <3>2. SetupTable(t[1])[t[2]] = IF t[2] \in SetupSlots THEN SetupPage(t[1], SlotIndex(t[2])) ELSE NoPage
      BY <2>1 DEF SetupTable, SetupSlots, SlotIndex
    <3>. QED BY <1>1, <2>3, <3>1, <3>2 DEF SlotsOf
  <2>. QED BY <2>2, <2>3
<1>. QED BY <1>1, <1>2, <1>3

(* At setup every page is counted once for its one use.                    *)
LEMMA InitSpare ==
  ASSUME Init, NEW pg \in Pages
  PROVE  Spare(pg) = 0
<1>. DEFINE k == PagesPerProcess  U == UsesOf(pte, pg)  S == SlotsOf(table, pg)
<1>1. /\ \A m \in Pids \X VAs : m \in U <=>
           m[1] \in 1..NInit /\ m[2] \in SetupVAs /\ SetupPage(m[1], EntryIndex(m[2])) = pg
      /\ \A t \in TableSlots : t \in S <=>
           t[1] \in 1..NInit /\ t[2] \in SetupSlots /\ SetupPage(t[1], SlotIndex(t[2])) = pg
      /\ 1..NInit \subseteq Pids
  BY SetupIs
<1>2. U \subseteq Pids \X VAs /\ S \subseteq TableSlots /\ SetupSlots \subseteq Tables
  BY DEF UsesOf, SlotsOf, SetupSlots
<1>3. /\ k \in Nat
      /\ \A p \in 1..NInit, i \in 1..k : SetupPage(p, i) \in 1..(NInit * k)
      /\ \A p, q \in 1..NInit, i, j \in 1..k : SetupPage(p, i) = SetupPage(q, j) => p = q /\ i = j
      /\ \A x \in 1..(NInit * k) : \E p \in 1..NInit, i \in 1..k : SetupPage(p, i) = x
  BY SetupPages
<1>4. refcount[pg] = IF pg <= NInit * k THEN 1 ELSE 0
  BY DEF Init
<1>5. pg \in Nat /\ pg >= 1 /\ NInit * k \in Nat
  <2>1. NInit \in Nat
    BY KernelAssumption, PageTablesAssumption
  <2>. HIDE DEF k
  <2>. QED BY <1>3, <2>1, PageTablesAssumption DEF Pages
<1>6. Spare(pg) = refcount[pg] - (Cardinality(U) + Cardinality(S))
  BY DEF Spare
<1>7. \A va \in SetupVAs : EntryIndex(va) \in 1..k
  BY IndexOnce
<1>8. \A i \in SetupSlots : SlotIndex(i) \in 1..k
  BY IndexOnce
<1>9. Cardinality({}) = 0 /\ \A x : Cardinality({x}) = 1
  BY FS_EmptySet, FS_Singleton
<1>10. /\ \A v, w \in SetupVAs : EntryIndex(v) = EntryIndex(w) => v = w
       /\ \A i, j \in SetupSlots : SlotIndex(i) = SlotIndex(j) => i = j
       /\ \A va \in SetupVAs, i \in SetupSlots : EntryIndex(va) # SlotIndex(i)
       /\ \A x \in 1..k : \/ \E va \in SetupVAs : EntryIndex(va) = x
                          \/ \E i \in SetupSlots : SlotIndex(i) = x
       /\ SetupVAs \subseteq VAs
  BY IndexOnce
<1>. HIDE DEF k, U, S
<1>11. CASE pg > NInit * k
  <2>1. pg \notin 1..(NInit * k)
    BY <1>5, <1>11
  <2>2. U = {}
    BY <1>1, <1>2, <1>3, <1>7, <2>1
  <2>3. S = {}
    BY <1>1, <1>2, <1>3, <1>8, <2>1
  <2>. QED BY <1>4, <1>5, <1>6, <1>9, <1>11, <2>2, <2>3
<1>12. CASE pg <= NInit * k
  <2>1. PICK p \in 1..NInit, x \in 1..k : SetupPage(p, x) = pg
    BY <1>3, <1>5, <1>12
  <2>2. \A m \in Pids \X VAs : m \in U <=> m[1] = p /\ m[2] \in SetupVAs /\ EntryIndex(m[2]) = x
    BY <1>1, <1>3, <1>7, <2>1
  <2>3. \A t \in TableSlots : t \in S <=> t[1] = p /\ t[2] \in SetupSlots /\ SlotIndex(t[2]) = x
    BY <1>1, <1>3, <1>8, <2>1
  <2>4. CASE \E va \in SetupVAs : EntryIndex(va) = x
    <3>1. PICK va \in SetupVAs : EntryIndex(va) = x
      BY <2>4
    <3>2. <<p, va>> \in Pids \X VAs
      BY <1>1, <1>10, <3>1
    <3>3. U = {<<p, va>>}
      <4>1. <<p, va>> \in U
        BY <2>2, <3>1, <3>2
      <4>2. ASSUME NEW m \in U PROVE m = <<p, va>>
        <5>1. m \in Pids \X VAs /\ m = <<m[1], m[2]>>
          BY <1>2, <4>2
        <5>2. m[1] = p /\ m[2] = va
          BY <1>10, <2>2, <3>1, <5>1
        <5>. QED BY <5>1, <5>2
      <4>. QED BY <4>1, <4>2
    <3>4. S = {}
      BY <1>2, <1>10, <2>3, <3>1
    <3>5. Cardinality(U) = 1 /\ Cardinality(S) = 0
      BY <1>9, <3>3, <3>4, Zenon
    <3>. QED BY <1>4, <1>6, <1>12, <3>5
  <2>5. CASE \E i \in SetupSlots : SlotIndex(i) = x
    <3>1. PICK i \in SetupSlots : SlotIndex(i) = x
      BY <2>5
    <3>2. <<p, i>> \in TableSlots
      BY <1>1, <1>2, <3>1 DEF TableSlots
    <3>3. S = {<<p, i>>}
      <4>1. <<p, i>> \in S
        BY <2>3, <3>1, <3>2
      <4>2. ASSUME NEW t \in S PROVE t = <<p, i>>
        <5>1. t \in TableSlots /\ t = <<t[1], t[2]>>
          BY <1>2, <4>2 DEF TableSlots
        <5>2. t[1] = p /\ t[2] = i
          BY <1>10, <2>3, <3>1, <5>1
        <5>. QED BY <5>1, <5>2
      <4>. QED BY <4>1, <4>2
    <3>4. U = {}
      BY <1>2, <1>10, <2>2, <3>1
    <3>5. Cardinality(S) = 1 /\ Cardinality(U) = 0
      BY <1>9, <3>3, <3>4, Zenon
    <3>. QED BY <1>4, <1>6, <1>12, <3>5
  <2>. QED BY <1>10, <2>4, <2>5
<1>. QED BY <1>5, <1>11, <1>12

(* As long as no page is counted twice, none is shared.                    *)
LEMMA OnceUnshared ==
  ASSUME TypeInv, ConsoleOnly, Covered, \A pg \in Pages : refcount[pg] <= 1
  PROVE  NoSharedWrites
<1>1. ASSUME NEW pg \in Pages
      PROVE  /\ IsFiniteSet(UsesOf(pte, pg)) /\ IsFiniteSet(SlotsOf(table, pg))
             /\ Cardinality(UsesOf(pte, pg)) \in Nat /\ Cardinality(SlotsOf(table, pg)) \in Nat
             /\ Cardinality(UsesOf(pte, pg)) + Cardinality(SlotsOf(table, pg)) <= 1
  <2>1. refcount[pg] \in Nat /\ refcount[pg] <= 1 /\ Spare(pg) >= 0
    BY DEF TypeInv, TypeOK, MemTypeOK, Covered
  <2>. QED BY <2>1, CountTypes DEF Spare
<1>2. ASSUME NEW m \in Mappings, NEW n \in Mappings, m # n, PageOf(m) = PageOf(n), PageOf(m) # Console
      PROVE  FALSE
  <2>1. PageOf(m) \in Pages /\ m \in UsesOf(pte, PageOf(m)) /\ n \in UsesOf(pte, PageOf(m))
    BY <1>2, PageIs DEF UsesOf, Mappings, PageOf
  <2>2. Cardinality(UsesOf(pte, PageOf(m))) >= 2
    BY <1>1, <1>2, <2>1, TwoUses
  <2>. QED BY <1>1, <2>1, <2>2
<1>3. ASSUME NEW m \in Mappings, NEW t \in TableSlots, table[t[1]][t[2]] = PageOf(m) PROVE FALSE
  <2>1. t[1] \in Pids /\ t[2] \in Tables
    BY DEF TableSlots
  <2>2. PageOf(m) \in Pages
    <3>1. table[t[1]][t[2]] \in Pages \cup {NoPage}
      BY <2>1 DEF TypeInv, TypeOK, MemTypeOK
    <3>. QED BY <1>3, <3>1, PageIs
  <2>3. m \in UsesOf(pte, PageOf(m)) /\ t \in SlotsOf(table, PageOf(m))
    BY <1>3, PageIs DEF UsesOf, SlotsOf, PageOf
  <2>4. Cardinality(UsesOf(pte, PageOf(m))) >= 1 /\ Cardinality(SlotsOf(table, PageOf(m))) >= 1
    BY <1>1, <2>2, <2>3, OneUse
  <2>. QED BY <1>1, <2>2, <2>4
<1>. QED BY <1>2, <1>3 DEF NoSharedWrites

LEMMA InitSharing == Init => SharingInv
<1>. SUFFICES ASSUME Init PROVE SharingInv
  OBVIOUS
<1>1. TypeInv /\ RunInv
  BY InitType, InitRuns DEF RunInv
<1>2. Covered
  BY InitSpare DEF Covered
<1>3. 0 \in VAs
  BY PageTablesAssumption DEF VAs
<1>4. ConsoleOnly
  BY <1>3 DEF Init, ConsoleOnly, SetupEntry, NoEntries, Absent, Present
<1>5. FreeEmpty
  BY DEF Init, FreeEmpty
<1>6. \A pg \in Pages : refcount[pg] <= 1
  BY DEF Init
<1>. QED BY <1>1, <1>2, <1>4, <1>5, <1>6, OnceUnshared DEF SharingInv

LEMMA SharingAlways == Spec => []SharingInv
<1>1. Init => SharingInv
  BY InitSharing
<1>2. SharingInv /\ [Next]_vars => SharingInv'
  BY NextSharing
<1>. QED BY <1>1, <1>2, PTL DEF Spec

(* A page that an entry or a page table refers to is counted at least as   *)
(* often, whatever programs call: kfree never gives back a page that is in *)
(* use (kernel.cc:159-166).                                                *)
THEOREM NeverFreedInUse == Spec => []Covered
<1>1. SharingInv => Covered
  BY DEF SharingInv
<1>. QED BY <1>1, SharingAlways, PTL

(* Copy-on-write keeps processes apart: whatever the processes fork, map,  *)
(* unmap and store, and however often memory runs out, a page that one of  *)
(* them may write is mapped nowhere else, and no page of a page table is   *)
(* mapped at all (kernel.cc:303-349, 603-616).                             *)
THEOREM Unshared == Spec => []NoSharedWrites
<1>1. SharingInv => NoSharedWrites
  BY DEF SharingInv
<1>. QED BY <1>1, SharingAlways, PTL

-----------------------------------------------------------------------------
(* Two assertions of the kernel can be made to fail by a call: a process   *)
(* that kills itself is returned to, and a range that reaches below        *)
(* process memory hands the console to kfree.  Programs that make neither  *)
(* call:                                                                   *)
SafeCalls ==
  /\ \A c \in KillCalls : c[1] # c[2]
  /\ \A c \in UnmapCalls : c.va >= ProcStart

(* An entry is counted.                                                    *)
LEMMA HeldCounted ==
  ASSUME TypeInv, Covered, NEW p \in Pids, NEW pg \in Pages
  PROVE  Cardinality(Held(pte, p, pg)) <= refcount[pg]
<1>1. Cardinality(Held(pte, p, pg)) <= Cardinality(UsesOf(pte, pg))
  BY PartOf
<1>2. refcount[pg] \in Nat /\ Spare(pg) >= 0
  BY DEF Covered, TypeInv, TypeOK, MemTypeOK
<1>. QED BY <1>1, <1>2, CountTypes DEF Spare

LEMMA MunmapAsserts ==
  ASSUME TypeInv, Covered, NEW c \in UnmapCalls, c.va >= ProcStart, Munmap(c)
  PROVE  mode' = mode
<1>. DEFINE gone == {va \in c.va..(c.va + Ceil(c.len) - 1) : va < MemSize /\ User(pte[current][va])}
            n == [pg \in Pages |-> Cardinality({va \in gone : pte[current][va].pa = pg})]
<1>1. gone \subseteq VAs /\ \A va \in gone : va >= ProcStart /\ Present(pte[current][va])
  BY KernelAssumption, PageTablesAssumption, CeilType DEF VAs, ProcStart, User, Present
<1>2. current \in Pids
  BY DEF TypeInv, TypeOK
<1>3. ASSUME NEW va \in gone PROVE pte[current][va].pa # Console
  BY <1>1, <1>2, PageTablesAssumption DEF TypeInv, MapsPages, Present, Console, Pages
<1>4. ASSUME NEW pg \in Pages PROVE n[pg] <= refcount[pg]
  <2>1. {va \in gone : pte[current][va].pa = pg} \in SUBSET Held(pte, current, pg)
    BY <1>1 DEF Held
  <2>. DEFINE G == {va \in gone : pte[current][va].pa = pg}
  <2>. HIDE DEF G
  <2>2. IsFiniteSet(G) /\ Cardinality(G) \in Nat /\ Cardinality(G) <= Cardinality(Held(pte, current, pg))
    BY <2>1, CountTypes, FS_Subset, FS_CardinalityType DEF G
  <2>3. Cardinality(Held(pte, current, pg)) <= refcount[pg] /\ refcount[pg] \in Nat
    BY <1>2, HeldCounted DEF TypeInv, TypeOK, MemTypeOK
  <2>4. n[pg] = Cardinality(G)
    BY DEF G
  <2>. QED BY <2>2, <2>3, <2>4, CountTypes
<1>5. KfreeAsserts(n)
  BY <1>4 DEF KfreeAsserts
<1>6. IF KfreeAsserts(n) /\ \A va \in gone : pte[current][va].pa # Console THEN Return ELSE Panic
  BY DEF Munmap
<1>. HIDE DEF gone, n
<1>. QED BY <1>3, <1>5, <1>6 DEF Return

LEMMA NextNoPanic ==
  ASSUME SafeCalls, SharingInv, NoPanic, [Next]_vars
  PROVE  NoPanic'
<1>1. TypeInv /\ ConsoleOnly /\ Covered /\ current \in Pids
  BY DEF SharingInv, RunInv, TypeInv, TypeOK
<1>2. ASSUME NEW st, NEW sl, Schedule(st, sl) PROVE NoPanic'
  BY <1>2 DEF Schedule, NoPanic
<1>3. ASSUME mode' = mode PROVE NoPanic'
  BY <1>3 DEF NoPanic
<1>4. ASSUME ExitCurrent PROVE NoPanic'
  <2>1. KfreeAsserts(Everything(current))
    BY <1>1, EverythingCovered
  <2>. QED BY <1>2, <1>4, <2>1 DEF ExitCurrent
<1>5. ASSUME NEW c \in KillCalls, Kill(c[1], c[2]) PROVE NoPanic'
  <2>1. c[2] \in Pids /\ c[2] # current
    BY <1>5, KernelAssumption DEF SafeCalls, Kill
  <2>2. KfreeAsserts(Everything(c[2]))
    BY <1>1, <2>1, EverythingCovered
  <2>. QED BY <1>3, <1>5, <2>1, <2>2 DEF Kill
<1>6. ASSUME NEW va \in VAs, CowCopy(va) PROVE NoPanic'
  <2>. DEFINE e == pte[current][va]
  <2>1. e.pa \in Pages /\ Present(e)
    BY <1>1, <1>6, CowEntry DEF CowCopy
  <2>2. va \in Held(pte, current, e.pa)
    BY <2>1 DEF Held
  <2>3. Cardinality(Held(pte, current, e.pa)) >= 1 /\ Cardinality(Held(pte, current, e.pa)) \in Nat
    BY <2>2, OneUse, CountTypes
  <2>4. refcount[e.pa] \in Nat /\ Cardinality(Held(pte, current, e.pa)) <= refcount[e.pa]
    BY <1>1, <2>1, HeldCounted DEF TypeInv, TypeOK, MemTypeOK
  <2>5. IF refcount[e.pa] > 0 THEN Return ELSE Panic
    BY <1>6 DEF CowCopy
  <2>. HIDE DEF e
  <2>. QED BY <1>3, <2>3, <2>4, <2>5 DEF Return
<1>7. ASSUME NEW c \in UnmapCalls, Munmap(c) PROVE NoPanic'
  BY <1>1, <1>3, <1>7, MunmapAsserts DEF SafeCalls
<1>8. CASE Timer \/ Yield \/ (\E t \in SleepCalls : Sleep(t)) \/ \E va \in VAs : Fault(va)
  BY <1>2, <1>8 DEF Timer, Yield, Sleep, Fault
<1>9. CASE \/ \E va \in VAs : CowReuse(va)
           \/ \E va \in VAs, v \in Values : Store(va, v)
           \/ \E c \in MmapCalls : Mmap(c)
           \/ \E va \in AllocCalls : PageAlloc(va)
           \/ Fork \/ ForkRollback \/ UNCHANGED vars
  BY <1>3, <1>9
     DEF CowReuse, Store, Mmap, PageAlloc, MmapPages, MmapRollback, Fork, ForkRollback, Return, vars
<1>. QED BY <1>4, <1>5, <1>6, <1>7, <1>8, <1>9 DEF Next, Exit, CowNoMemory

(* No assertion of the kernel fails unless a program kills itself or       *)
(* unmaps below process memory: kfree is never called for a page more      *)
(* often than its count allows (kernel.cc:163), and a system call returns  *)
(* only to a process that is runnable (k-exception.S:183-186).             *)
THEOREM NeverPanics ==
  ASSUME SafeCalls
  PROVE  Spec => []NoPanic
<1>1. Init => NoPanic
  BY DEF Init, NoPanic
<1>2. SharingInv /\ NoPanic /\ [Next]_vars => NoPanic'
  BY NextNoPanic
<1>. QED BY <1>1, <1>2, SharingAlways, PTL DEF Spec

-----------------------------------------------------------------------------
(* Exact counts need more: kernel.cc maps a request of an odd number of    *)
(* half pages one page past the range it searched for, and where no hole   *)
(* is left it maps past the end of process memory, which is never freed.   *)
(* Programs whose requests are whole pages, and that leave the page of     *)
(* their stack mapped, so that no run of free pages reaches that end:      *)
WholePages == \A c \in MmapCalls : c.len % 2 = 0
KeepsStack == \A c \in UnmapCalls : c.va + Ceil(c.len) <= StackVA

StackKept == \A p \in Pids : state[p] # "P_FREE" => User(pte[p][StackVA])

Exact == \A pg \in Pages : Spare(pg) = 0

TidyInv == SharingInv /\ Within /\ StackKept

LEMMA StackType == StackVA \in VAs /\ StackVA \in ProcStart..(MemSize - 1)
BY PageTablesAssumption DEF StackVA, VAs, ProcStart

(* The hole that is found is large enough.                                 *)
LEMMA MmapRoom ==
  ASSUME TidyInv, mode = "user", NEW va \in 0..(MemSize - 1), NEW len \in Nat \ {0}, len % 2 = 0,
         NEW a \in MmapAddr(va, len)
  PROVE  /\ a \in Nat /\ a >= ProcStart /\ a + Ceil(len) <= MemSize
         /\ AllAbsent(current, a..(a + Ceil(len) - 1))
<1>. DEFINE n == len \div 2
            runs  == {v \in ProcStart..(MemSize - n) : n > 0 /\ AllAbsent(current, v..(v + n - 1))}
            tails == {v \in ProcStart..(MemSize - 1) : AllAbsent(current, v..(MemSize - 1))}
<1>1. n \in Nat /\ Ceil(len) = n /\ len = 2 * n
  BY DEF Ceil
<1>2. MemSize \in Nat
  BY PageTablesAssumption
<1>3. tails = {}
  <2>1. Present(pte[current][StackVA])
    BY DEF TidyInv, SharingInv, RunInv, Running, TypeInv, TypeOK, StackKept, User, Present
  <2>2. StackVA = MemSize - 1
    BY DEF StackVA
  <2>. QED BY <1>2, <2>1, <2>2 DEF AllAbsent, ProcStart
<1>4. CASE a = va /\ va # 0 /\ 2 * va + len <= 2 * MemSize /\ AllAbsent(current, va..(va + Ceil(len) - 1))
  BY <1>1, <1>2, <1>4 DEF ProcStart
<1>5. CASE a \in FindFreeVmemory(current, n)
  <2>1. FindFreeVmemory(current, n) = IF runs # {} THEN Least(runs) ELSE Least(tails)
    BY DEF FindFreeVmemory
  <2>2. a \in runs
    BY <1>3, <1>5, <2>1 DEF Least
  <2>. QED BY <1>1, <1>2, <2>2 DEF ProcStart
<1>. QED BY <1>4, <1>5 DEF MmapAddr

LEMMA MmapRoomFound ==
  ASSUME WholePages, TidyInv, mode = "user"
  PROVE  RoomFound
<1>1. ASSUME NEW c \in MmapCalls
      PROVE  c.va \in 0..(MemSize - 1) /\ c.len \in Nat \ {0} /\ c.len % 2 = 0
  BY KernelAssumption DEF WholePages
<1>. QED BY <1>1, MmapRoom DEF RoomFound

(* A step that neither maps a page beyond process memory, nor takes a page *)
(* away from the user.                                                     *)
LEMMA KeptTidy ==
  ASSUME Within, StackKept,
         \A p \in Pids, va \in VAs : Present(pte'[p][va]) =>
            \/ Present(pte[p][va]) /\ (User(pte[p][va]) => User(pte'[p][va]))
            \/ va < MemSize /\ User(pte'[p][va]),
         \A p \in Pids : state'[p] # "P_FREE" =>
            state[p] # "P_FREE" /\ (User(pte[p][StackVA]) => User(pte'[p][StackVA]))
  PROVE  Within' /\ StackKept'
<1>1. Within'
  BY DEF Within
<1>2. StackKept'
  BY DEF StackKept, StackVA
<1>. QED BY <1>1, <1>2

LEMMA DiscardTidy ==
  ASSUME TidyInv, NEW p \in Pids, Discard(p)
  PROVE  Within' /\ StackKept'
<1>1. Within /\ StackKept
  BY DEF TidyInv
<1>2. /\ pte'[p] = NoEntries /\ state'[p] = "P_FREE"
      /\ \A q \in Pids : q # p => pte'[q] = pte[q] /\ state'[q] = state[q]
  BY DEF Discard, TidyInv, SharingInv, RunInv, TypeInv, TypeOK, MemTypeOK
<1>3. \A va \in VAs : ~Present(pte'[p][va])
  BY <1>2 DEF NoEntries, Absent, Present
<1>. QED BY <1>1, <1>2, <1>3, KeptTidy

LEMMA MmapPagesTidy ==
  ASSUME TidyInv, NEW va \in 0..(MemSize - 1), NEW len \in Nat \ {0}, len % 2 = 0,
         NEW perm, {"P", "U"} \subseteq perm, MmapPages(va, len, perm)
  PROVE  Within' /\ StackKept'
<1>1. PICK a \in MmapAddr(va, len) : \E f \in Grant(NCalls(a, len)) : Mapped(a, len, perm, f)
  BY DEF MmapPages, Mapped
<1>2. PICK f \in Grant(NCalls(a, len)) : Mapped(a, len, perm, f)
  BY <1>1
<1>3. mode = "user" /\ state' = state /\ TypeInv /\ Within /\ StackKept /\ current \in Pids
  BY DEF MmapPages, Return, TidyInv, SharingInv, RunInv, TypeInv, TypeOK
<1>4. a \in Nat /\ a + Ceil(len) <= MemSize
  BY <1>3, MmapRoom
<1>5. /\ \A q \in Pids : q # current => pte'[q] = pte[q]
      /\ \A w \in VAs : pte'[current][w] = IF w \in a..(a + Ceil(len) - 1)
                                           THEN [pa |-> f[PageCall(a, len, w)], perm |-> perm]
                                           ELSE pte[current][w]
  BY <1>2, <1>3, <1>4, MappedIs
<1>6. ASSUME NEW w \in VAs
      PROVE  pte'[current][w] = pte[current][w] \/ (w < MemSize /\ User(pte'[current][w]))
  <2>1. CASE w \in a..(a + Ceil(len) - 1)
    <3>1. pte'[current][w] = [pa |-> f[PageCall(a, len, w)], perm |-> perm]
      BY <1>5, <2>1
    <3>2. w < MemSize
      BY <1>4, <2>1, CeilType, PageTablesAssumption
    <3>. QED BY <3>1, <3>2 DEF User
  <2>2. CASE w \notin a..(a + Ceil(len) - 1)
    BY <1>5, <2>2
  <2>. QED BY <2>1, <2>2
<1>7. ASSUME NEW p \in Pids, NEW w \in VAs
      PROVE  pte'[p][w] = pte[p][w] \/ (w < MemSize /\ User(pte'[p][w]))
  BY <1>5, <1>6
<1>. QED BY <1>3, <1>7, StackType, KeptTidy

(* Marking pages shared leaves them the user's.                            *)
LEMMA MarkSharedUser ==
  ASSUME NEW S, NEW va \in VAs
  PROVE  User(MarkShared(S)[va]) <=> User(pte[current][va])
<1>1. MarkShared(S)[va] = IF va \in S THEN SharedEntry(pte[current][va]) ELSE pte[current][va]
  BY MarkSharedIs
<1>2. ASSUME NEW e PROVE User(SharedEntry(e)) <=> User(e)
  <2>1. SharedEntry(e).perm = (e.perm \ {"W"}) \cup IF Writable(e) THEN {"C"} ELSE {}
    BY DEF SharedEntry
  <2>2. /\ "P" \in SharedEntry(e).perm <=> "P" \in e.perm
        /\ "U" \in SharedEntry(e).perm <=> "U" \in e.perm
    BY <2>1
  <2>. QED BY <2>2 DEF User
<1>. QED BY <1>1, <1>2

LEMMA ForkTidy ==
  ASSUME TidyInv, Fork
  PROVE  Within' /\ StackKept'
<1>1. PICK child \in Pids :
           /\ child # current /\ current \in Pids
           /\ \A p \in Pids : p # child /\ p # current => pte'[p] = pte[p]
           /\ pte'[current] = MarkShared(SharedPages)
           /\ \A va \in VAs : pte'[child][va] = IF va \in SharedPages \cup {0}
                                                THEN MarkShared(SharedPages)[va] ELSE Absent
           /\ state' = [state EXCEPT ![child] = "P_RUNNABLE"]
  BY ForkIs DEF TidyInv, SharingInv
<1>2. /\ Within /\ StackKept /\ state[current] # "P_FREE" /\ MemSize \in Nat /\ MemSize > 1
      /\ state \in [Pids -> {"P_FREE", "P_RUNNABLE", "P_FAULTED"}]
  BY PageTablesAssumption DEF TidyInv, SharingInv, RunInv, Running, Fork, TypeInv, TypeOK
<1>3. SharedPages = {va \in ProcStart..(MemSize - 1) : User(pte[current][va])}
  BY DEF SharedPages
<1>4. ASSUME NEW p \in Pids, NEW va \in VAs, Present(pte'[p][va])
      PROVE  va < MemSize /\ (va >= ProcStart => User(pte'[p][va]))
  <2>1. CASE p = child
    <3>1. va \in SharedPages \cup {0} /\ pte'[p][va] = MarkShared(SharedPages)[va]
      BY <1>1, <1>4, <2>1 DEF Absent, Present
    <3>2. CASE va \in SharedPages
      BY <1>2, <1>3, <3>1, <3>2, MarkSharedUser
    <3>3. CASE va = 0
      BY <1>2, <3>3 DEF ProcStart
    <3>. QED BY <3>1, <3>2, <3>3
  <2>2. CASE p = current
    BY <1>1, <1>2, <1>4, <2>2, MarkSharedIs, MarkSharedUser DEF Within
  <2>3. CASE p # child /\ p # current
    BY <1>1, <1>2, <1>4, <2>3 DEF Within
  <2>. QED BY <2>1, <2>2, <2>3
<1>5. ASSUME NEW p \in Pids, state'[p] # "P_FREE" PROVE User(pte'[p][StackVA])
  <2>0. User(pte[current][StackVA]) /\ StackVA \in SharedPages /\ StackVA \in VAs
    BY <1>1, <1>2, <1>3, StackType DEF StackKept
  <2>1. CASE p = child
    BY <1>1, <2>0, <2>1, MarkSharedUser
  <2>2. CASE p = current
    BY <1>1, <2>0, <2>2, MarkSharedUser
  <2>3. CASE p # child /\ p # current
    BY <1>1, <1>2, <1>5, <2>3 DEF StackKept
  <2>. QED BY <2>1, <2>2, <2>3
<1>6. Within'
  BY <1>4 DEF Within, VAs, ProcStart
<1>7. StackKept'
  BY <1>5 DEF StackKept, StackVA
<1>. QED BY <1>6, <1>7

LEMMA CowUser ==
  ASSUME NEW e PROVE (User(e) => {"P", "U"} \subseteq CowPerm(e)) /\ (Present(e) => "P" \in CowPerm(e))
BY DEF User, Present, CowPerm

(* Steps that change one entry, for a copy or in place.                    *)
LEMMA CowTidy ==
  ASSUME TidyInv, NEW va \in VAs, CowReuse(va) \/ CowCopy(va)
  PROVE  Within' /\ StackKept'
<1>. DEFINE e == pte[current][va]
<1>1. /\ Within /\ StackKept /\ TypeInv /\ current \in Pids /\ pte \in [Pids -> [VAs -> Entries]]
  BY DEF TidyInv, SharingInv, RunInv, TypeInv, TypeOK, MemTypeOK
<1>2. /\ Present(e) /\ state' = state
      /\ \/ \E pg : pte' = [pte EXCEPT ![current][va] = [pa |-> pg, perm |-> CowPerm(e)]]
         \/ pte' = pte
  BY <1>1, CowEntry DEF CowReuse, CowCopy, Return, Panic
<1>3. ASSUME NEW p \in Pids, NEW w \in VAs
      PROVE  (Present(pte'[p][w]) => Present(pte[p][w])) /\ (User(pte[p][w]) => User(pte'[p][w]))
  <2>1. CASE pte' = pte
    BY <2>1
  <2>2. ASSUME NEW pg, pte' = [pte EXCEPT ![current][va] = [pa |-> pg, perm |-> CowPerm(e)]]
        PROVE  (Present(pte'[p][w]) => Present(pte[p][w])) /\ (User(pte[p][w]) => User(pte'[p][w]))
    <3>1. CASE p = current /\ w = va
      <4>1. pte'[p][w].perm = CowPerm(e)
        BY <1>1, <2>2, <3>1
      <4>. QED BY <1>2, <3>1, <4>1, CowUser DEF User
    <3>2. CASE ~(p = current /\ w = va)
      <4>1. pte'[p][w] = pte[p][w]
        BY <1>1, <2>2, <3>2
      <4>. QED BY <4>1
    <3>. QED BY <3>1, <3>2
  <2>. QED BY <1>2, <2>1, <2>2
<1>. QED BY <1>1, <1>2, <1>3, StackType, KeptTidy

LEMMA MunmapTidy ==
  ASSUME KeepsStack, TidyInv, NEW c \in UnmapCalls, Munmap(c)
  PROVE  Within' /\ StackKept'
<1>1. /\ Within /\ StackKept /\ current \in Pids /\ pte \in [Pids -> [VAs -> Entries]]
  BY DEF TidyInv, SharingInv, RunInv, TypeInv, TypeOK, MemTypeOK
<1>2. c.va \in Nat /\ c.len \in Nat /\ c.va + Ceil(c.len) <= StackVA
  BY KernelAssumption DEF KeepsStack
<1>3. StackVA \in VAs /\ StackVA \in Nat /\ Ceil(c.len) \in Nat
  BY <1>2, StackType, CeilType, PageTablesAssumption DEF ProcStart
<1>4. StackVA \notin c.va..(c.va + Ceil(c.len) - 1)
  BY <1>2, <1>3
<1>5. state' = state
  BY DEF Munmap, Return, Panic
<1>6. ASSUME NEW p \in Pids, NEW w \in VAs
      PROVE  /\ Present(pte'[p][w]) => pte'[p][w] = pte[p][w]
             /\ w = StackVA => pte'[p][w] = pte[p][w]
  <2>1. CASE Panic
    BY <2>1 DEF Panic
  <2>2. CASE ~Panic
    <3>. DEFINE gone == {va \in c.va..(c.va + Ceil(c.len) - 1) : va < MemSize /\ User(pte[current][va])}
    <3>1. pte' = [pte EXCEPT ![current] = [va \in VAs |-> IF va \in gone THEN Absent ELSE @[va]]]
      BY <2>2 DEF Munmap
    <3>2. StackVA \notin gone
      BY <1>4
    <3>. HIDE DEF gone
    <3>3. pte'[p][w] = IF p = current /\ w \in gone THEN Absent ELSE pte[p][w]
      BY <1>1, <3>1
    <3>. QED BY <3>2, <3>3 DEF Absent, Present
  <2>. QED BY <2>1, <2>2
<1>. QED BY <1>1, <1>3, <1>5, <1>6, KeptTidy

LEMMA ForkRollbackTidy ==
  ASSUME TidyInv, ForkRollback
  PROVE  Within' /\ StackKept'
<1>1. /\ Within /\ StackKept /\ current \in Pids /\ pte \in [Pids -> [VAs -> Entries]]
  BY DEF TidyInv, SharingInv, RunInv, TypeInv, TypeOK, MemTypeOK
<1>2. /\ pte' = [pte EXCEPT ![current] = MarkShared({va \in SharedPages : va < HighVA})]
      /\ state' = state
  BY DEF ForkRollback, Return
<1>3. ASSUME NEW p \in Pids, NEW w \in VAs
      PROVE  (Present(pte'[p][w]) => Present(pte[p][w])) /\ (User(pte[p][w]) => User(pte'[p][w]))
  <2>1. CASE p = current
    BY <1>1, <1>2, <2>1, MarkSharedIs, MarkSharedUser
  <2>2. CASE p # current
    BY <1>1, <1>2, <2>2
  <2>. QED BY <2>1, <2>2
<1>. QED BY <1>1, <1>2, <1>3, StackType, KeptTidy

LEMMA NextTidy ==
  ASSUME WholePages, KeepsStack, TidyInv, [Next]_vars
  PROVE  TidyInv'
<1>0. SharingInv /\ Within /\ StackKept /\ current \in Pids /\ pte \in [Pids -> [VAs -> Entries]]
      /\ state \in [Pids -> {"P_FREE", "P_RUNNABLE", "P_FAULTED"}]
      /\ (mode = "user" => state[current] = "P_RUNNABLE")
  BY DEF TidyInv, SharingInv, RunInv, Running, TypeInv, TypeOK, MemTypeOK
<1>1. ASSUME UNCHANGED <<pte, state>> PROVE Within' /\ StackKept'
  BY <1>0, <1>1 DEF Within, StackKept, StackVA
<1>2. ASSUME Timer \/ Yield \/ \E t \in SleepCalls : Sleep(t) PROVE Within' /\ StackKept'
  BY <1>1, <1>2 DEF Timer, Yield, Sleep, memVars
<1>3. ASSUME NEW va \in VAs, Fault(va) PROVE Within' /\ StackKept'
  <2>1. UNCHANGED pte /\ \A p \in Pids : state'[p] # "P_FREE" => state[p] # "P_FREE"
    BY <1>0, <1>3 DEF Fault, memVars
  <2>. QED BY <1>0, <2>1, KeptTidy
<1>4. ASSUME ExitCurrent PROVE Within' /\ StackKept'
  BY <1>0, <1>1, <1>4, DiscardTidy DEF ExitCurrent, Panic
<1>5. ASSUME NEW c \in KillCalls, Kill(c[1], c[2]) PROVE Within' /\ StackKept'
  <2>1. c[2] \in Pids
    BY KernelAssumption
  <2>. QED BY <1>1, <1>5, <2>1, DiscardTidy DEF Kill, Panic
<1>6. ASSUME \E va \in VAs, v \in Values : Store(va, v) PROVE Within' /\ StackKept'
  BY <1>1, <1>6 DEF Store, Return
<1>7. ASSUME NEW c \in MmapCalls, Mmap(c) PROVE Within' /\ StackKept'
  <2>1. c.va \in 0..(MemSize - 1) /\ c.len \in Nat \ {0} /\ c.len % 2 = 0 /\ {"P", "U"} \subseteq c.perm
    BY KernelAssumption DEF WholePages
  <2>2. CASE MmapPages(c.va, c.len, c.perm)
    BY <2>1, <2>2, MmapPagesTidy
  <2>3. CASE MmapRollback(c.va, c.len)
    BY <1>1, <2>3 DEF MmapRollback, Return
  <2>. QED BY <1>7, <2>2, <2>3 DEF Mmap
<1>8. ASSUME NEW va \in AllocCalls, PageAlloc(va) PROVE Within' /\ StackKept'
  <2>1. va \in 0..(MemSize - 1) /\ 2 \in Nat \ {0} /\ 2 % 2 = 0
    BY KernelAssumption, PageTablesAssumption DEF ProcStart
  <2>2. MmapPages(va, 2, {"P", "W", "U"}) /\ {"P", "U"} \subseteq {"P", "W", "U"}
    BY <1>8 DEF PageAlloc
  <2>. QED BY <2>1, <2>2, MmapPagesTidy
<1>9. ASSUME UNCHANGED vars PROVE Within' /\ StackKept'
  BY <1>1, <1>9 DEF vars
<1>10. [Next]_vars
  OBVIOUS
<1>11. Within' /\ StackKept'
  BY <1>10, <1>1, <1>2, <1>3, <1>4, <1>5, <1>6, <1>7, <1>8, <1>9, CowTidy, MunmapTidy, ForkTidy, ForkRollbackTidy
     DEF Next, Exit, CowNoMemory
<1>. QED BY <1>0, <1>11, NextSharing DEF TidyInv

LEMMA InitTidy == Init => TidyInv
<1>. SUFFICES ASSUME Init PROVE TidyInv
  OBVIOUS
<1>1. SharingInv
  BY InitSharing
<1>2. StackVA \in VAs /\ StackVA # 0 /\ StackVA \notin DOMAIN Image /\ StackVA < MemSize /\ MemSize > 1
      /\ \A va \in DOMAIN Image : va < MemSize
  BY KernelAssumption, PageTablesAssumption DEF VAs, StackVA, ProcStart
<1>3. ASSUME NEW p \in 1..NInit, NEW va \in VAs, Present(SetupEntry(p, va))
      PROVE  va < MemSize /\ User(SetupEntry(p, va))
  <2>1. CASE va = 0
    BY <1>2, <2>1, PageTablesAssumption DEF SetupEntry, User
  <2>2. CASE va # 0 /\ va \in DOMAIN Image
    BY <1>2, <2>2 DEF SetupEntry, ImagePerm, User
  <2>3. CASE va # 0 /\ va \notin DOMAIN Image /\ va = StackVA
    BY <1>2, <2>3 DEF SetupEntry, User
  <2>4. CASE va # 0 /\ va \notin DOMAIN Image /\ va # StackVA
    BY <1>3, <2>4 DEF SetupEntry, Absent, Present
  <2>. QED BY <2>1, <2>2, <2>3, <2>4
<1>4. Within
  BY <1>3 DEF Init, Within, NoEntries, Absent, Present
<1>5. StackKept
  <2>1. \A p \in 1..NInit : User(SetupEntry(p, StackVA))
    BY <1>2 DEF SetupEntry, User
  <2>. QED BY <1>2, <2>1 DEF Init, StackKept
<1>. QED BY <1>1, <1>4, <1>5 DEF TidyInv

LEMMA TidyAlways ==
  ASSUME WholePages, KeepsStack
  PROVE  Spec => []TidyInv
<1>1. Init => TidyInv
  BY InitTidy
<1>2. TidyInv /\ [Next]_vars => TidyInv'
  BY NextTidy
<1>. QED BY <1>1, <1>2, PTL DEF Spec

(* A handler runs in user mode only, so that its search starts from a live *)
(* process.                                                                *)
LEMMA NextExact ==
  ASSUME WholePages, TidyInv, Exact, [Next]_vars
  PROVE  Exact'
<1>1. RunInv /\ ConsoleOnly /\ FreeEmpty /\ Covered /\ Within /\ TypeInv
  BY DEF TidyInv, SharingInv, RunInv
<1>2. CASE mode = "user"
  <2>1. Keeps
    BY <1>1, <1>2, MmapRoomFound, NextSpare
  <2>. QED BY <2>1 DEF Exact, Keeps, Pages
<1>3. CASE mode # "user"
  <2>1. UNCHANGED vars
    BY <1>3 DEF Next, Timer, Yield, Sleep, Exit, Kill, CowReuse, CowCopy, CowNoMemory, Fault, Store,
                Mmap, MmapPages, MmapRollback, PageAlloc, Munmap, Fork, ForkRollback
  <2>2. Keeps
    BY <2>1, SamePages DEF vars
  <2>. QED BY <2>2 DEF Exact, Keeps, Pages
<1>. QED BY <1>2, <1>3

LEMMA ExactCounts ==
  ASSUME TypeInv, Exact
  PROVE  RefcountExact
<1>1. ASSUME NEW pg \in Pages
      PROVE  refcount[pg] = Cardinality(UsesOf(pte, pg)) + Cardinality(SlotsOf(table, pg))
  <2>1. refcount[pg] \in Nat /\ Spare(pg) = 0
    BY DEF Exact, TypeInv, TypeOK, MemTypeOK
  <2>. QED BY <2>1, CountTypes DEF Spare
<1>2. ASSUME NEW pg \in Pages
      PROVE  /\ UsesOf(pte, pg) = {m \in Mappings : PageOf(m) = pg}
             /\ SlotsOf(table, pg) = {t \in TableSlots : table[t[1]][t[2]] = pg}
  BY DEF UsesOf, SlotsOf, Mappings, PageOf
<1>. QED BY <1>1, <1>2 DEF RefcountExact

(* No page leaks and none is freed while it is in use: through fork,       *)
(* copy-on-write, running out of memory in the middle of a call, exit and  *)
(* kill, each physical page is counted exactly as often as a page-table    *)
(* entry or a page table refers to it (kernel.hh:61-64), as long as        *)
(* programs ask for whole pages and keep their stack mapped.               *)
THEOREM CountsExact ==
  ASSUME WholePages, KeepsStack
  PROVE  Spec => []RefcountExact
<1>1. Init => Exact
  BY InitSpare DEF Exact
<1>2. TidyInv /\ Exact /\ [Next]_vars => Exact'
  BY NextExact
<1>3. TidyInv /\ Exact => RefcountExact
  BY ExactCounts DEF TidyInv, SharingInv, RunInv
<1>. QED BY <1>1, <1>2, <1>3, TidyAlways, PTL DEF Spec

-----------------------------------------------------------------------------
(* Each process has a memory of its own.                                   *)
Addrs == ProcStart..(MemSize - 1)
Alive == {p \in Pids : state[p] # "P_FREE"}

LEMMA SameFunction ==
  ASSUME NEW A, NEW B, NEW C, NEW f \in [A -> [B -> C]], NEW g \in [A -> [B -> C]],
         \A p \in A, a \in B : f[p][a] = g[p][a]
  PROVE  f = g
<1>1. ASSUME NEW p \in A PROVE f[p] = g[p]
  OBVIOUS
<1>. QED BY <1>1

(* What a process sees.                                                    *)
LEMMA ViewIs ==
  ASSUME TypeInv
  PROVE  /\ View \in [Pids -> [Addrs -> Values \cup {-1}]]
         /\ Addrs \subseteq VAs
         /\ \A p \in Pids, a \in Addrs :
              /\ User(pte[p][a]) => /\ View[p][a] = data[pte[p][a].pa] /\ pte[p][a].pa \in Pages
                                    /\ Present(pte[p][a]) /\ View[p][a] \in Values /\ View[p][a] # -1
              /\ ~User(pte[p][a]) => View[p][a] = -1
<1>1. Addrs \subseteq VAs /\ \A a \in Addrs : a >= ProcStart
  BY PageTablesAssumption DEF Addrs, VAs, ProcStart
<1>2. View = [p \in Pids |-> [a \in Addrs |-> IF User(pte[p][a]) THEN data[pte[p][a].pa] ELSE -1]]
  BY DEF View, Addrs
<1>3. ASSUME NEW p \in Pids, NEW a \in Addrs, User(pte[p][a])
      PROVE  /\ pte[p][a].pa \in Pages /\ Present(pte[p][a])
             /\ data[pte[p][a].pa] \in Values /\ data[pte[p][a].pa] # -1
  <2>1. pte[p][a].pa \in Pages /\ Present(pte[p][a])
    BY <1>1, <1>3 DEF TypeInv, MapsPages, User, Present
  <2>. QED BY <2>1, PageTablesAssumption DEF TypeInv, TypeOK, MemTypeOK
<1>. HIDE DEF Addrs
<1>4. View \in [Pids -> [Addrs -> Values \cup {-1}]]
  BY <1>2, <1>3
<1>5. \A p \in Pids, a \in Addrs : View[p][a] = IF User(pte[p][a]) THEN data[pte[p][a].pa] ELSE -1
  BY <1>2
<1>. QED BY <1>1, <1>3, <1>4, <1>5

LEMMA ViewNext ==
  ASSUME TypeInv'
  PROVE  /\ View' \in [Pids -> [Addrs -> Values \cup {-1}]]
         /\ \A p \in Pids, a \in Addrs :
              View'[p][a] = IF User(pte'[p][a]) THEN data'[pte'[p][a].pa] ELSE -1
<1>1. Addrs \subseteq VAs /\ \A a \in Addrs : a >= ProcStart
  BY PageTablesAssumption DEF Addrs, VAs, ProcStart
<1>2. View' = [p \in Pids |-> [a \in Addrs |-> IF User(pte'[p][a]) THEN data'[pte'[p][a].pa] ELSE -1]]
  BY DEF View, Addrs
<1>3. ASSUME NEW p \in Pids, NEW a \in Addrs, User(pte'[p][a])
      PROVE  data'[pte'[p][a].pa] \in Values
  <2>1. pte'[p][a].pa \in Pages
    BY <1>1, <1>3 DEF TypeInv, MapsPages, User, Present, Pids, VAs, Pages, ProcStart
  <2>. QED BY <2>1 DEF TypeInv, TypeOK, MemTypeOK, Pages
<1>. HIDE DEF Addrs
<1>4. View' \in [Pids -> [Addrs -> Values \cup {-1}]]
  BY <1>2, <1>3
<1>5. \A p \in Pids, a \in Addrs : View'[p][a] = IF User(pte'[p][a]) THEN data'[pte'[p][a].pa] ELSE -1
  BY <1>2
<1>. QED BY <1>4, <1>5

(* Steps that no process notices.                                          *)
LEMMA Unnoticed ==
  ASSUME TypeInv, TypeInv', Alive' = Alive, \A p \in Pids, a \in Addrs : View'[p][a] = View[p][a]
  PROVE  UNCHANGED Private!vars
<1>1. View' = View
  BY ViewIs, ViewNext, SameFunction
<1>. QED BY <1>1 DEF Private!vars, Alive

LEMMA SameEntries ==
  ASSUME TypeInv, TypeInv', Alive' = Alive, UNCHANGED data,
         \A p \in Pids, a \in Addrs : /\ User(pte'[p][a]) <=> User(pte[p][a])
                                     /\ pte'[p][a].pa = pte[p][a].pa
  PROVE  UNCHANGED Private!vars
<1>1. \A p \in Pids, a \in Addrs : View'[p][a] = View[p][a]
  BY ViewIs, ViewNext
<1>. QED BY <1>1, Unnoticed

(* kfree clears a page only when no reference to it is left.               *)
LEMMA RowRest ==
  ASSUME NEW S, IsFiniteSet(S), NEW p, NEW V, IsFiniteSet(V), NEW m \in S, {p} \X V \subseteq S \ {m}
  PROVE  Cardinality(V) + 1 <= Cardinality(S)
<1>1. IsFiniteSet(S \ {m}) /\ Cardinality(S \ {m}) = Cardinality(S) - 1
  BY FS_RemoveElement
<1>. DEFINE T == {p} \X V  Q == S \ {m}
<1>2. T \in SUBSET Q /\ IsFiniteSet(Q) /\ Cardinality(T) = Cardinality(V)
  BY <1>1, RowSize
<1>. HIDE DEF T, Q
<1>3. Cardinality(T) <= Cardinality(Q)
  BY <1>2, FS_Subset
<1>4. Cardinality(Q) = Cardinality(S) - 1 /\ Cardinality(S) \in Nat /\ Cardinality(V) \in Nat
  BY <1>1, FS_CardinalityType DEF Q
<1>. QED BY <1>2, <1>3, <1>4

LEMMA Uncleared ==
  ASSUME TypeInv, Covered, NEW pg \in Pages, NEW n, n[pg] \in Nat, Kfree(n), NEW p \in Pids,
         NEW V \in SUBSET VAs, n[pg] <= Cardinality(V) + Cardinality(Owned(table, p, pg)),
         NEW m \in UsesOf(pte, pg), {p} \X V \subseteq UsesOf(pte, pg) \ {m}
  PROVE  data'[pg] = data[pg]
<1>1. IsFiniteSet(V) /\ Cardinality(V) \in Nat
  BY RefsFinite, FS_Subset, FS_CardinalityType
<1>2. Cardinality(V) + 1 <= Cardinality(UsesOf(pte, pg))
  BY <1>1, CountTypes, RowRest
<1>3. Cardinality(Owned(table, p, pg)) <= Cardinality(SlotsOf(table, pg))
  BY PartOf
<1>4. refcount[pg] \in Nat /\ refcount[pg] - (Cardinality(UsesOf(pte, pg)) + Cardinality(SlotsOf(table, pg))) >= 0
  BY DEF Covered, Spare, TypeInv, TypeOK, MemTypeOK
<1>. DEFINE u == Cardinality(UsesOf(pte, pg))  s == Cardinality(SlotsOf(table, pg))
            o == Cardinality(Owned(table, p, pg))  v == Cardinality(V)
<1>5. u \in Nat /\ s \in Nat /\ o \in Nat
  BY CountTypes
<1>6. /\ v \in Nat /\ v + 1 <= u /\ o <= s /\ refcount[pg] - (u + s) >= 0 /\ refcount[pg] \in Nat
      /\ n[pg] <= v + o /\ n[pg] \in Nat
  BY <1>1, <1>2, <1>3, <1>4
<1>. HIDE DEF u, s, o, v
<1>7. n[pg] < refcount[pg]
  BY <1>5, <1>6
<1>. QED BY <1>4, <1>7 DEF Kfree

(* The end of a process.                                                   *)
LEMMA DiscardDies ==
  ASSUME SharingInv, TypeInv', NEW p \in Pids, state[p] # "P_FREE", Discard(p)
  PROVE  Private!Die(p)
<1>1. /\ TypeInv /\ ConsoleOnly /\ Covered
      /\ state \in [Pids -> {"P_FREE", "P_RUNNABLE", "P_FAULTED"}]
  BY DEF SharingInv, RunInv, TypeInv, TypeOK
<1>2. /\ pte'[p] = NoEntries /\ Kfree(Everything(p)) /\ state' = [state EXCEPT ![p] = "P_FREE"]
      /\ \A q \in Pids : q # p => pte'[q] = pte[q]
  BY DEF Discard, SharingInv, RunInv, TypeInv, TypeOK, MemTypeOK
<1>3. ASSUME NEW a \in Addrs PROVE View'[p][a] = -1
  BY <1>1, <1>2, ViewIs, ViewNext DEF NoEntries, Absent, User
<1>4. ASSUME NEW q \in Pids, q # p, NEW a \in Addrs PROVE View'[q][a] = View[q][a]
  <2>1. CASE ~User(pte[q][a])
    <3>1. pte'[q][a] = pte[q][a]
      BY <1>2, <1>4
    <3>2. View'[q][a] = -1
      BY <1>4, <2>1, <3>1, ViewNext
    <3>3. View[q][a] = -1
      BY <1>1, <1>4, <2>1, ViewIs
    <3>. QED BY <3>2, <3>3
  <2>2. CASE User(pte[q][a])
    <3>. DEFINE pg == pte[q][a].pa  V == Held(pte, p, pg)
    <3>1. pg \in Pages /\ Present(pte[q][a]) /\ a \in VAs
      BY <1>1, <2>2, ViewIs
    <3>2. <<q, a>> \in UsesOf(pte, pg) /\ V \in SUBSET VAs
      BY <3>1 DEF UsesOf, Held
    <3>3. {p} \X V \subseteq UsesOf(pte, pg) \ {<<q, a>>}
      BY <1>4 DEF UsesOf, Held
    <3>4. Everything(p)[pg] \in Nat /\ Everything(p)[pg] <= Cardinality(V) + Cardinality(Owned(table, p, pg))
      BY <1>1, <3>1, EverythingIs
    <3>. HIDE DEF pg, V
    <3>5. data'[pg] = data[pg]
      BY <1>1, <1>2, <3>1, <3>2, <3>3, <3>4, Uncleared
    <3>. QED BY <1>1, <1>2, <1>4, <2>2, <3>5, ViewIs, ViewNext DEF pg
  <2>. QED BY <2>1, <2>2
<1>5. Alive' = Alive \ {p} /\ p \in Alive
  BY <1>1, <1>2 DEF Alive, Pids
<1>6. View' = [View EXCEPT ![p] = [a \in Addrs |-> -1]]
  <2>. DEFINE g == [View EXCEPT ![p] = [a \in Addrs |-> -1]]
  <2>1. View \in [Pids -> [Addrs -> Values \cup {-1}]] /\ View' \in [Pids -> [Addrs -> Values \cup {-1}]]
    BY <1>1, ViewIs, ViewNext
  <2>2. g \in [Pids -> [Addrs -> Values \cup {-1}]] /\ \A q \in Pids, a \in Addrs : View'[q][a] = g[q][a]
    BY <1>3, <1>4, <2>1
  <2>. HIDE DEF g
  <2>3. View' = g
    BY <2>1, <2>2, SameFunction
  <2>. QED BY <2>3 DEF g
<1>. QED BY <1>5, <1>6 DEF Private!Die, Private!UnmappedAll, Alive, Addrs

(* sys_munmap.                                                             *)
LEMMA MunmapUnmaps ==
  ASSUME SharingInv, TypeInv', NEW c \in UnmapCalls, Munmap(c)
  PROVE  (\E S \in SUBSET Addrs : Private!Unmap(current, S)) \/ UNCHANGED Private!vars
<1>. DEFINE gone == {va \in c.va..(c.va + Ceil(c.len) - 1) : va < MemSize /\ User(pte[current][va])}
            n == [pg \in Pages |-> Cardinality({va \in gone : pte[current][va].pa = pg})]
<1>1. /\ TypeInv /\ Covered /\ current \in Pids /\ pte \in [Pids -> [VAs -> Entries]]
      /\ state[current] # "P_FREE"
  BY DEF SharingInv, RunInv, Running, TypeInv, TypeOK, MemTypeOK, Munmap
<1>2. CASE Panic
  <2>1. UNCHANGED <<data, pte, state>>
    BY <1>2 DEF Panic
  <2>. QED BY <1>1, <2>1, SameEntries DEF Alive
<1>3. CASE ~Panic
  <2>1. /\ Kfree(n) /\ state' = state
        /\ pte' = [pte EXCEPT ![current] = [va \in VAs |-> IF va \in gone THEN Absent ELSE pte[current][va]]]
    BY <1>3 DEF Munmap, Return
  <2>2. gone \subseteq VAs /\ \A va \in gone : Present(pte[current][va])
    BY KernelAssumption, PageTablesAssumption, CeilType DEF VAs, User, Present
  <2>3. \A pg \in Pages : n[pg] = Cardinality({va \in gone : pte[current][va].pa = pg})
    OBVIOUS
  <2>. HIDE DEF gone, n
  <2>4. /\ \A q \in Pids : q # current => pte'[q] = pte[q]
        /\ \A va \in VAs : pte'[current][va] = IF va \in gone THEN Absent ELSE pte[current][va]
    BY <1>1, <2>1
  <2>5. ASSUME NEW q \in Pids, NEW a \in Addrs, ~(q = current /\ a \in gone)
        PROVE  View'[q][a] = View[q][a]
    <3>0. pte'[q][a] = pte[q][a] /\ a \in VAs
      BY <1>1, <2>4, <2>5, ViewIs
    <3>1. CASE ~User(pte[q][a])
      BY <1>1, <3>0, <3>1, ViewIs, ViewNext
    <3>2. CASE User(pte[q][a])
      <4>. DEFINE pg == pte[q][a].pa  V == {va \in gone : pte[current][va].pa = pg}
      <4>1. pg \in Pages /\ Present(pte[q][a])
        BY <1>1, <3>2, ViewIs
      <4>2. <<q, a>> \in UsesOf(pte, pg) /\ V \in SUBSET VAs
        BY <2>2, <3>0, <4>1 DEF UsesOf
      <4>3. {current} \X V \subseteq UsesOf(pte, pg) \ {<<q, a>>}
        BY <1>1, <2>2, <2>5 DEF UsesOf
      <4>4. n[pg] = Cardinality(V) /\ Cardinality(V) \in Nat
        BY <2>3, <4>1, <4>2, RefsFinite, FS_Subset, FS_CardinalityType
      <4>5. Cardinality(Owned(table, current, pg)) \in Nat
        BY CountTypes
      <4>. HIDE DEF pg, V
      <4>6. n[pg] \in Nat /\ n[pg] <= Cardinality(V) + Cardinality(Owned(table, current, pg))
        BY <4>4, <4>5
      <4>7. data'[pg] = data[pg]
        BY <1>1, <2>1, <4>1, <4>2, <4>3, <4>6, Uncleared
      <4>. QED BY <1>1, <3>0, <3>2, <4>7, ViewIs, ViewNext DEF pg
    <3>. QED BY <3>1, <3>2
  <2>6. ASSUME NEW a \in Addrs, a \in gone PROVE View'[current][a] = -1
    <3>1. pte'[current][a] = Absent
      BY <2>2, <2>4, <2>6
    <3>2. ~User(pte'[current][a])
      BY <3>1 DEF Absent, User
    <3>. QED BY <1>1, <3>2, ViewNext
  <2>. DEFINE S == gone \cap Addrs
              g == [View EXCEPT ![current] = [a \in Addrs |-> IF a \in S THEN -1 ELSE View[current][a]]]
  <2>7. View \in [Pids -> [Addrs -> Values \cup {-1}]] /\ View' \in [Pids -> [Addrs -> Values \cup {-1}]]
    BY <1>1, ViewIs, ViewNext
  <2>8. g \in [Pids -> [Addrs -> Values \cup {-1}]] /\ \A q \in Pids, a \in Addrs : View'[q][a] = g[q][a]
    BY <1>1, <2>5, <2>6, <2>7
  <2>9. View' = g
    <3>. HIDE DEF g
    <3>. QED BY <2>7, <2>8, SameFunction
  <2>10. current \in Alive /\ Alive' = Alive
    BY <1>1, <2>1 DEF Alive, Pids
  <2>11. Private!Unmap(current, S)
    BY <2>9, <2>10 DEF Private!Unmap, Alive, Addrs
  <2>. QED BY <2>11
<1>. QED BY <1>2, <1>3

(* Steps that keep every entry and its data, the failed ones among them.   *)
LEMMA Still ==
  ASSUME TypeInv, TypeInv', UNCHANGED <<data, pte, state>>
  PROVE  UNCHANGED Private!vars
BY SameEntries DEF Alive

(* The timer, the scheduler and a fault end no process and start none.     *)
LEMMA SchedulingUnnoticed ==
  ASSUME RunInv, TypeInv', \/ Timer \/ Yield
                           \/ \E t \in SleepCalls : Sleep(t)
                           \/ \E va \in VAs : Fault(va)
  PROVE  UNCHANGED Private!vars
<1>1. /\ TypeInv /\ current \in Pids /\ state \in [Pids -> {"P_FREE", "P_RUNNABLE", "P_FAULTED"}]
      /\ UNCHANGED <<data, pte>>
  BY DEF RunInv, TypeInv, TypeOK, Timer, Yield, Sleep, Fault, memVars
<1>2. CASE state' = state
  BY <1>1, <1>2, Still
<1>3. CASE state' # state
  <2>1. state[current] = "P_RUNNABLE" /\ state' = [state EXCEPT ![current] = "P_FAULTED"]
    BY <1>3 DEF Timer, Yield, Sleep, Fault, RunInv, Running
  <2>2. Alive' = Alive
    BY <1>1, <2>1 DEF Alive, Pids
  <2>. QED BY <1>1, <2>2, SameEntries
<1>. QED BY <1>2, <1>3

(* Copy-on-write: the page changes, what the process reads there does not. *)
LEMMA CowReuseUnnoticed ==
  ASSUME SharingInv, TypeInv', NEW va \in VAs, CowReuse(va)
  PROVE  UNCHANGED Private!vars
<1>. DEFINE e == pte[current][va]
<1>1. /\ TypeInv /\ current \in Pids /\ pte \in [Pids -> [VAs -> Entries]]
      /\ UNCHANGED <<data, state>>
      /\ pte' = [pte EXCEPT ![current][va] = [pa |-> e.pa, perm |-> CowPerm(e)]]
  BY DEF SharingInv, RunInv, TypeInv, TypeOK, MemTypeOK, CowReuse, Return
<1>2. {"P", "U"} \subseteq CowPerm(e) <=> User(e)
  BY DEF CowPerm, User
<1>3. ASSUME NEW q \in Pids, NEW a \in VAs
      PROVE  (User(pte'[q][a]) <=> User(pte[q][a])) /\ pte'[q][a].pa = pte[q][a].pa
  <2>1. CASE q = current /\ a = va
    <3>1. pte'[q][a] = [pa |-> e.pa, perm |-> CowPerm(e)]
      BY <1>1, <2>1
    <3>. QED BY <1>2, <2>1, <3>1 DEF User
  <2>2. CASE ~(q = current /\ a = va)
    <3>1. pte'[q][a] = pte[q][a]
      BY <1>1, <2>2
    <3>. QED BY <3>1
  <2>. QED BY <2>1, <2>2
<1>4. Alive' = Alive /\ Addrs \subseteq VAs
  BY <1>1, ViewIs DEF Alive, Pids
<1>. QED BY <1>1, <1>3, <1>4, SameEntries

LEMMA CowCopyUnnoticed ==
  ASSUME SharingInv, TypeInv', NEW va \in VAs, CowCopy(va)
  PROVE  UNCHANGED Private!vars
<1>. DEFINE e == pte[current][va]
<1>1. /\ TypeInv /\ Covered /\ current \in Pids /\ pte \in [Pids -> [VAs -> Entries]]
      /\ data \in [Pages -> Values]
  BY DEF SharingInv, RunInv, TypeInv, TypeOK, MemTypeOK
<1>2. PICK f \in Grant(1) :
        IF refcount[e.pa] > 0
        THEN /\ pte' = [pte EXCEPT ![current][va] = [pa |-> f[1], perm |-> CowPerm(e)]]
             /\ data' = [data EXCEPT ![f[1]] = data[e.pa]]
             /\ Return
        ELSE Panic
  BY DEF CowCopy
<1>3. CASE ~(refcount[e.pa] > 0)
  BY <1>1, <1>2, <1>3, Still DEF Panic
<1>4. CASE refcount[e.pa] > 0
  <2>1. f[1] \in Pages /\ refcount[f[1]] = 0
    BY GrantType
  <2>2. \A m \in Mappings : PageOf(m) # f[1]
    BY <1>1, <2>1, NewUnmapped
  <2>3. {"P", "U"} \subseteq CowPerm(e) <=> User(e)
    BY DEF CowPerm, User
  <2>4. ASSUME NEW q \in Pids, NEW a \in Addrs PROVE View'[q][a] = View[q][a]
    <3>0. a \in VAs
      BY <1>1, <2>4, ViewIs
    <3>1. CASE q = current /\ a = va
      <4>1. pte'[q][a] = [pa |-> f[1], perm |-> CowPerm(e)]
        BY <1>1, <1>2, <1>4, <3>1
      <4>2. (User(pte'[q][a]) <=> User(e)) /\ pte'[q][a].pa = f[1] /\ data'[f[1]] = data[e.pa]
        BY <1>1, <1>2, <1>4, <2>1, <2>3, <4>1 DEF User
      <4>3. View'[q][a] = IF User(e) THEN data[e.pa] ELSE -1
        BY <2>4, <4>2, ViewNext
      <4>4. View[q][a] = IF User(e) THEN data[e.pa] ELSE -1
        BY <1>1, <2>4, <3>1, ViewIs
      <4>. QED BY <4>3, <4>4
    <3>2. CASE ~(q = current /\ a = va)
      <4>1. pte'[q][a] = pte[q][a]
        BY <1>1, <1>2, <1>4, <3>0, <3>2
      <4>2. CASE ~User(pte[q][a])
        BY <1>1, <2>4, <4>1, <4>2, ViewIs, ViewNext
      <4>3. CASE User(pte[q][a])
        <5>1. Present(pte[q][a]) /\ pte[q][a].pa \in Pages
          BY <1>1, <2>4, <4>3, ViewIs
        <5>2. <<q, a>> \in Mappings /\ PageOf(<<q, a>>) = pte[q][a].pa
          BY <3>0, <5>1 DEF Mappings, PageOf
        <5>3. pte[q][a].pa # f[1]
          BY <2>2, <5>2
        <5>4. data'[pte[q][a].pa] = data[pte[q][a].pa]
          BY <1>1, <1>2, <1>4, <5>1, <5>3
        <5>. QED BY <1>1, <2>4, <4>1, <4>3, <5>4, ViewIs, ViewNext
      <4>. QED BY <4>2, <4>3
    <3>. QED BY <3>1, <3>2
  <2>5. Alive' = Alive
    BY <1>2, <1>4 DEF Alive, Pids, Return
  <2>. QED BY <1>1, <2>4, <2>5, Unnoticed
<1>. QED BY <1>3, <1>4

(* A store reaches the process that makes it and no other.                 *)
LEMMA StoreStores ==
  ASSUME SharingInv, TypeInv', NEW va \in VAs, NEW v \in Values, Store(va, v)
  PROVE  (va \in Addrs /\ Private!Store(current, va, v)) \/ UNCHANGED Private!vars
<1>. DEFINE pg == pte[current][va].pa
<1>1. /\ TypeInv /\ NoSharedWrites /\ current \in Pids /\ pte \in [Pids -> [VAs -> Entries]]
      /\ data \in [Pages -> Values] /\ state[current] # "P_FREE"
      /\ pte' = pte /\ state' = state /\ data' = [data EXCEPT ![pg] = v] /\ va >= ProcStart
  BY DEF SharingInv, RunInv, Running, TypeInv, TypeOK, MemTypeOK, Store, Return
<1>2. User(pte[current][va]) /\ Writable(pte[current][va]) /\ Present(pte[current][va])
  BY DEF Store, StoreFaults, User, Writable, Present
<1>3. pg \in Pages /\ pg # Console
  <2>1. pg \in Pages
    BY <1>1, <1>2 DEF TypeInv, MapsPages, Present
  <2>. QED BY <2>1, PageTablesAssumption DEF Pages, Console
<1>4. ASSUME NEW q \in Pids, NEW a \in Addrs, ~(q = current /\ a = va)
      PROVE  View'[q][a] = View[q][a]
  <2>1. CASE ~User(pte[q][a])
    BY <1>1, <1>4, <2>1, ViewIs, ViewNext
  <2>2. CASE User(pte[q][a])
    <3>. DEFINE m == <<current, va>>  n == <<q, a>>
    <3>1. Present(pte[q][a]) /\ pte[q][a].pa \in Pages /\ a \in VAs
      BY <1>1, <1>4, <2>2, ViewIs
    <3>2. /\ m \in Mappings /\ n \in Mappings /\ m # n
          /\ PageOf(m) = pg /\ PageOf(n) = pte[q][a].pa /\ Writable(pte[m[1]][m[2]])
      BY <1>1, <1>2, <1>4, <3>1 DEF Mappings, PageOf
    <3>3. PageOf(m) # PageOf(n)
      <4>. HIDE DEF m, n
      <4>. QED BY <1>1, <1>3, <3>2 DEF NoSharedWrites
    <3>4. data'[pte[q][a].pa] = data[pte[q][a].pa]
      BY <1>1, <3>1, <3>2, <3>3
    <3>. QED BY <1>1, <1>4, <2>2, <3>4, ViewIs, ViewNext
  <2>. QED BY <2>1, <2>2
<1>5. Alive' = Alive /\ current \in Alive
  BY <1>1 DEF Alive, Pids
<1>6. CASE va \notin Addrs
  <2>1. \A q \in Pids, a \in Addrs : View'[q][a] = View[q][a]
    BY <1>4, <1>6
  <2>. QED BY <1>1, <1>5, <2>1, Unnoticed
<1>7. CASE va \in Addrs
  <2>. DEFINE g == [View EXCEPT ![current][va] = v]
  <2>1. View'[current][va] = v /\ View[current][va] # -1
    BY <1>1, <1>2, <1>3, <1>7, ViewIs, ViewNext
  <2>2. View \in [Pids -> [Addrs -> Values \cup {-1}]] /\ View' \in [Pids -> [Addrs -> Values \cup {-1}]]
    BY <1>1, ViewIs, ViewNext
  <2>3. g \in [Pids -> [Addrs -> Values \cup {-1}]] /\ \A q \in Pids, a \in Addrs : View'[q][a] = g[q][a]
    BY <1>1, <1>4, <1>7, <2>1, <2>2
  <2>4. View' = g
    <3>. HIDE DEF g
    <3>. QED BY <2>2, <2>3, SameFunction
  <2>. QED BY <1>5, <1>7, <2>1, <2>4 DEF Private!Store, Private!Mapped, Alive, Addrs
<1>. QED BY <1>6, <1>7

(* Process memory that a request of whole pages covers was unmapped, also  *)
(* when the search ends with too short a run.                              *)
LEMMA MmapFresh ==
  ASSUME NEW va, NEW len \in Nat \ {0}, len % 2 = 0, NEW a \in MmapAddr(va, len),
         NEW w \in a..(a + Ceil(len) - 1), w < MemSize
  PROVE  ~Present(pte[current][w])
<1>. DEFINE n == len \div 2
            runs  == {v \in ProcStart..(MemSize - n) : n > 0 /\ AllAbsent(current, v..(v + n - 1))}
            tails == {v \in ProcStart..(MemSize - 1) : AllAbsent(current, v..(MemSize - 1))}
<1>1. n \in Nat /\ Ceil(len) = n /\ MemSize \in Nat
  BY PageTablesAssumption DEF Ceil
<1>2. CASE a = va /\ AllAbsent(current, va..(va + Ceil(len) - 1))
  BY <1>2 DEF AllAbsent
<1>3. CASE a \in FindFreeVmemory(current, n)
  <2>1. FindFreeVmemory(current, n) = IF runs # {} THEN Least(runs) ELSE Least(tails)
    BY DEF FindFreeVmemory
  <2>2. a \in runs \/ a \in tails
    BY <1>3, <2>1 DEF Least
  <2>3. CASE a \in runs
    BY <1>1, <2>3 DEF AllAbsent
  <2>4. CASE a \in tails
    <3>1. a \in Nat /\ w \in a..(MemSize - 1)
      BY <1>1, <2>4 DEF ProcStart
    <3>. QED BY <2>4, <3>1 DEF AllAbsent
  <2>. QED BY <2>2, <2>3, <2>4
<1>. QED BY <1>2, <1>3 DEF MmapAddr

(* The pages of a request appear as zeroes, and nothing else changes.      *)
LEMMA MmapPagesMap ==
  ASSUME SharingInv, TypeInv', NEW va \in VAs, NEW len \in Nat \ {0}, len % 2 = 0,
         NEW perm, {"P", "U"} \subseteq perm, MmapPages(va, len, perm)
  PROVE  \E S \in SUBSET Addrs : Private!Map(current, S)
<1>1. PICK a \in MmapAddr(va, len) : \E f \in Grant(NCalls(a, len)) : Mapped(a, len, perm, f)
  BY DEF MmapPages, Mapped
<1>2. PICK f \in Grant(NCalls(a, len)) : Mapped(a, len, perm, f)
  BY <1>1
<1>. DEFINE R == a..(a + Ceil(len) - 1)  S == R \cap Addrs
<1>3. /\ TypeInv /\ Covered /\ current \in Pids /\ state' = state /\ state[current] # "P_FREE"
      /\ data \in [Pages -> Values] /\ a \in Nat
  BY MmapAddrType DEF MmapPages, Return, SharingInv, RunInv, Running, TypeInv, TypeOK, MemTypeOK
<1>4. /\ \A q \in Pids : q # current => pte'[q] = pte[q]
      /\ \A w \in VAs : pte'[current][w] = IF w \in R THEN [pa |-> f[PageCall(a, len, w)], perm |-> perm]
                                                      ELSE pte[current][w]
  BY <1>2, <1>3, MappedIs
<1>5. data' = [pg \in Pages |-> IF pg \in {f[i] : i \in DOMAIN f} THEN Zero ELSE data[pg]]
  BY <1>2 DEF Mapped, Take
<1>6. NCalls(a, len) \in Nat /\ f \in [1..NCalls(a, len) -> Pages]
  BY <1>3, CallsType, GrantType
<1>7. ASSUME NEW w \in S
      PROVE  View'[current][w] = Zero /\ View[current][w] = -1
  <2>1. w \in VAs /\ w \in R /\ w \in Addrs /\ w < MemSize
    BY <1>3, <1>7, ViewIs, PageTablesAssumption DEF Addrs, ProcStart
  <2>2. PageCall(a, len, w) \in 1..NCalls(a, len)
    BY <1>3, <2>1, CallsType
  <2>3. f[PageCall(a, len, w)] \in Pages /\ data'[f[PageCall(a, len, w)]] = Zero
    BY <1>5, <1>6, <2>2
  <2>4. User(pte'[current][w]) /\ pte'[current][w].pa = f[PageCall(a, len, w)]
    <3>1. pte'[current][w] = [pa |-> f[PageCall(a, len, w)], perm |-> perm]
      BY <1>4, <2>1
    <3>. QED BY <3>1 DEF User
  <2>5. ~User(pte[current][w])
    BY <1>1, <2>1, MmapFresh DEF User, Present
  <2>. QED BY <1>3, <2>1, <2>3, <2>4, <2>5, ViewIs, ViewNext
<1>8. ASSUME NEW q \in Pids, NEW w \in Addrs, ~(q = current /\ w \in S)
      PROVE  View'[q][w] = View[q][w]
  <2>1. w \in VAs /\ pte'[q][w] = pte[q][w]
    BY <1>3, <1>4, <1>8, ViewIs
  <2>2. CASE ~User(pte[q][w])
    BY <1>3, <1>8, <2>1, <2>2, ViewIs, ViewNext
  <2>3. CASE User(pte[q][w])
    <3>1. Present(pte[q][w]) /\ pte[q][w].pa \in Pages
      BY <1>3, <1>8, <2>3, ViewIs
    <3>2. <<q, w>> \in Mappings /\ PageOf(<<q, w>>) = pte[q][w].pa
      BY <1>8, <2>1, <3>1 DEF Mappings, PageOf
    <3>3. ASSUME NEW i \in 1..NCalls(a, len) PROVE pte[q][w].pa # f[i]
      <4>1. f[i] \in Pages /\ refcount[f[i]] = 0
        BY GrantType
      <4>. QED BY <1>3, <3>2, <4>1, NewUnmapped
    <3>4. data'[pte[q][w].pa] = data[pte[q][w].pa]
      BY <1>5, <1>6, <3>1, <3>3
    <3>. QED BY <1>3, <1>8, <2>1, <2>3, <3>4, ViewIs, ViewNext
  <2>. QED BY <2>2, <2>3
<1>. DEFINE g == [View EXCEPT ![current] = [w \in Addrs |-> IF w \in S THEN Zero ELSE View[current][w]]]
<1>9. View \in [Pids -> [Addrs -> Values \cup {-1}]] /\ View' \in [Pids -> [Addrs -> Values \cup {-1}]]
  BY <1>3, ViewIs, ViewNext
<1>10. g \in [Pids -> [Addrs -> Values \cup {-1}]] /\ \A q \in Pids, w \in Addrs : View'[q][w] = g[q][w]
  <2>. HIDE DEF S
  <2>. QED BY <1>3, <1>7, <1>8, <1>9, PageTablesAssumption
<1>11. View' = g
  <2>. HIDE DEF g
  <2>. QED BY <1>9, <1>10, SameFunction
<1>12. current \in Alive /\ Alive' = Alive /\ S \in SUBSET Addrs
  BY <1>3 DEF Alive, Pids
<1>13. S \cap Private!Mapped(current) = {}
  BY <1>7 DEF Private!Mapped
<1>14. Private!Map(current, S)
  <2>. HIDE DEF S
  <2>. QED BY <1>11, <1>12, <1>13 DEF Private!Map, Alive, Addrs
<1>. QED BY <1>12, <1>14

(* A child starts with what its parent sees.                               *)
LEMMA ForkForks ==
  ASSUME SharingInv, TypeInv', Fork
  PROVE  \E c \in Pids : Private!Fork(current, c)
<1>1. PICK child \in Pids :
           /\ child # current /\ current \in Pids /\ state[child] = "P_FREE"
           /\ \A p \in Pids : p # child /\ p # current => pte'[p] = pte[p]
           /\ pte'[current] = MarkShared(SharedPages)
           /\ \A va \in VAs : pte'[child][va] = IF va \in SharedPages \cup {0}
                                                THEN MarkShared(SharedPages)[va] ELSE Absent
           /\ state' = [state EXCEPT ![child] = "P_RUNNABLE"]
  BY ForkIs DEF SharingInv
<1>2. /\ TypeInv /\ state[current] # "P_FREE" /\ UNCHANGED data
      /\ state \in [Pids -> {"P_FREE", "P_RUNNABLE", "P_FAULTED"}]
  BY DEF SharingInv, RunInv, Running, Fork, TypeInv, TypeOK
<1>3. SharedPages = {va \in Addrs : User(pte[current][va])} /\ 0 \notin Addrs /\ Addrs \subseteq VAs
  BY <1>2, ViewIs, PageTablesAssumption DEF SharedPages, Addrs, ProcStart
<1>4. ASSUME NEW q \in Pids, q # child, NEW a \in Addrs PROVE View'[q][a] = View[q][a]
  <2>1. (User(pte'[q][a]) <=> User(pte[q][a])) /\ pte'[q][a].pa = pte[q][a].pa
    <3>1. CASE q = current
      BY <1>1, <1>3, <1>4, <3>1, MarkSharedIs, MarkSharedUser
    <3>2. CASE q # current
      BY <1>1, <1>4, <3>2
    <3>. QED BY <3>1, <3>2
  <2>. QED BY <1>2, <1>4, <2>1, ViewIs, ViewNext
<1>5. ASSUME NEW a \in Addrs PROVE View'[child][a] = View[current][a]
  <2>1. CASE User(pte[current][a])
    <3>1. pte'[child][a] = MarkShared(SharedPages)[a]
      BY <1>1, <1>3, <1>5, <2>1
    <3>2. User(pte'[child][a]) /\ pte'[child][a].pa = pte[current][a].pa
      BY <1>3, <1>5, <2>1, <3>1, MarkSharedIs, MarkSharedUser
    <3>. QED BY <1>1, <1>2, <1>5, <2>1, <3>2, ViewIs, ViewNext
  <2>2. CASE ~User(pte[current][a])
    <3>1. pte'[child][a] = Absent
      BY <1>1, <1>3, <1>5, <2>2
    <3>2. ~User(pte'[child][a])
      BY <3>1 DEF Absent, User
    <3>. QED BY <1>1, <1>2, <1>5, <2>2, <3>2, ViewIs, ViewNext
  <2>. QED BY <2>1, <2>2
<1>. DEFINE g == [View EXCEPT ![child] = View[current]]
<1>6. View \in [Pids -> [Addrs -> Values \cup {-1}]] /\ View' \in [Pids -> [Addrs -> Values \cup {-1}]]
  BY <1>2, ViewIs, ViewNext
<1>7. g \in [Pids -> [Addrs -> Values \cup {-1}]] /\ \A q \in Pids, a \in Addrs : View'[q][a] = g[q][a]
  BY <1>1, <1>4, <1>5, <1>6
<1>8. View' = g
  <2>. HIDE DEF g
  <2>. QED BY <1>6, <1>7, SameFunction
<1>9. current \in Alive /\ child \notin Alive /\ Alive' = Alive \cup {child}
  BY <1>1, <1>2 DEF Alive, Pids
<1>10. Private!Fork(current, child)
  BY <1>8, <1>9 DEF Private!Fork, Alive
<1>. QED BY <1>10

LEMMA ForkRollbackUnnoticed ==
  ASSUME SharingInv, TypeInv', ForkRollback
  PROVE  UNCHANGED Private!vars
<1>1. /\ TypeInv /\ current \in Pids /\ pte \in [Pids -> [VAs -> Entries]] /\ UNCHANGED <<data, state>>
      /\ pte' = [pte EXCEPT ![current] = MarkShared({va \in SharedPages : va < HighVA})]
  BY DEF ForkRollback, Return, SharingInv, RunInv, TypeInv, TypeOK, MemTypeOK
<1>2. Addrs \subseteq VAs /\ Alive' = Alive
  BY <1>1, ViewIs DEF Alive, Pids
<1>3. ASSUME NEW q \in Pids, NEW a \in Addrs
      PROVE  (User(pte'[q][a]) <=> User(pte[q][a])) /\ pte'[q][a].pa = pte[q][a].pa
  <2>1. CASE q = current
    BY <1>1, <1>2, <1>3, <2>1, MarkSharedIs, MarkSharedUser
  <2>2. CASE q # current
    BY <1>1, <2>2
  <2>. QED BY <2>1, <2>2
<1>. QED BY <1>1, <1>2, <1>3, SameEntries

(* Every step of the kernel is one of the abstract memory, or none.        *)
LEMMA NextPrivate ==
  ASSUME WholePages, SharingInv, TypeInv', [Next]_vars
  PROVE  [Private!Next]_(Private!vars)
<1>0. RunInv /\ TypeInv /\ current \in Pids /\ (mode = "user" => state[current] # "P_FREE")
  BY DEF SharingInv, RunInv, Running, TypeInv, TypeOK
<1>1. ASSUME ExitCurrent, mode = "user" PROVE [Private!Next]_(Private!vars)
  <2>1. CASE Discard(current)
    BY <1>0, <1>1, <2>1, DiscardDies DEF Private!Next
  <2>2. CASE Panic
    BY <1>0, <2>2, Still DEF Panic
  <2>. QED BY <1>1, <2>1, <2>2 DEF ExitCurrent
<1>2. ASSUME NEW c \in KillCalls, Kill(c[1], c[2]) PROVE [Private!Next]_(Private!vars)
  <2>1. c[2] \in Pids /\ state[c[2]] # "P_FREE"
    BY <1>2, KernelAssumption DEF Kill
  <2>2. CASE Discard(c[2])
    BY <2>1, <2>2, DiscardDies DEF Private!Next
  <2>3. CASE Panic
    BY <1>0, <2>3, Still DEF Panic
  <2>. QED BY <1>2, <2>2, <2>3 DEF Kill
<1>3. ASSUME NEW va \in VAs, NEW v \in Values, Store(va, v) PROVE [Private!Next]_(Private!vars)
  BY <1>0, <1>3, StoreStores DEF Private!Next, Addrs
<1>4. ASSUME NEW c \in MmapCalls, Mmap(c) PROVE [Private!Next]_(Private!vars)
  <2>1. c.va \in VAs /\ c.len \in Nat \ {0} /\ c.len % 2 = 0 /\ {"P", "U"} \subseteq c.perm
    BY KernelAssumption, PageTablesAssumption DEF WholePages, VAs
  <2>2. CASE MmapPages(c.va, c.len, c.perm)
    BY <1>0, <2>1, <2>2, MmapPagesMap DEF Private!Next, Addrs
  <2>3. CASE MmapRollback(c.va, c.len)
    BY <1>0, <2>3, Still DEF MmapRollback, Return
  <2>. QED BY <1>4, <2>2, <2>3 DEF Mmap
<1>5. ASSUME NEW va \in AllocCalls, PageAlloc(va) PROVE [Private!Next]_(Private!vars)
  <2>1. va \in VAs /\ 2 \in Nat \ {0} /\ 2 % 2 = 0
    BY KernelAssumption, PageTablesAssumption DEF VAs, ProcStart
  <2>2. MmapPages(va, 2, {"P", "W", "U"}) /\ {"P", "U"} \subseteq {"P", "W", "U"}
    BY <1>5 DEF PageAlloc
  <2>3. \E S \in SUBSET Addrs : Private!Map(current, S)
    BY <2>1, <2>2, MmapPagesMap
  <2>. QED BY <1>0, <2>3 DEF Private!Next, Addrs
<1>6. ASSUME NEW c \in UnmapCalls, Munmap(c) PROVE [Private!Next]_(Private!vars)
  BY <1>0, <1>6, MunmapUnmaps DEF Private!Next, Addrs
<1>7. ASSUME Fork PROVE [Private!Next]_(Private!vars)
  BY <1>0, <1>7, ForkForks DEF Private!Next
<1>8. ASSUME NEW va \in VAs, CowReuse(va) \/ CowCopy(va) \/ CowNoMemory(va) \/ Fault(va)
      PROVE  [Private!Next]_(Private!vars)
  BY <1>0, <1>1, <1>8, CowReuseUnnoticed, CowCopyUnnoticed, SchedulingUnnoticed DEF CowNoMemory
<1>9. CASE UNCHANGED vars
  BY <1>0, <1>9, Still DEF vars
<1>10. CASE Timer \/ Yield \/ \E t \in SleepCalls : Sleep(t)
  BY <1>0, <1>10, SchedulingUnnoticed
<1>11. CASE ForkRollback
  BY <1>11, ForkRollbackUnnoticed
<1>12. CASE Exit
  BY <1>1, <1>12 DEF Exit
<1>. QED BY <1>2, <1>3, <1>4, <1>5, <1>6, <1>7, <1>8, <1>9, <1>10, <1>11, <1>12 DEF Next

(* kernel_start gives each process zeroes at the same addresses.           *)
LEMMA InitPrivate == Init => Private!Init
<1>. SUFFICES ASSUME Init PROVE Private!Init
  OBVIOUS
<1>. DEFINE S == {a \in Addrs : User(SetupEntry(1, a))}
<1>1. TypeInv
  BY InitType
<1>2. /\ Alive = 1..NInit /\ 1..NInit \subseteq Pids /\ data = [pg \in Pages |-> Zero]
      /\ pte = [p \in Pids |-> IF p \in 1..NInit THEN [va \in VAs |-> SetupEntry(p, va)] ELSE NoEntries]
  BY KernelAssumption, PageTablesAssumption DEF Init, Alive, Pids
<1>3. ASSUME NEW p \in 1..NInit, NEW a \in Addrs
      PROVE  User(SetupEntry(p, a)) <=> User(SetupEntry(1, a))
  BY DEF SetupEntry, User
<1>. DEFINE g == [p \in Pids |-> IF p \in Alive THEN [a \in Addrs |-> IF a \in S THEN Zero ELSE -1]
                                 ELSE [a \in Addrs |-> -1]]
<1>4. View \in [Pids -> [Addrs -> Values \cup {-1}]] /\ Addrs \subseteq VAs
  BY <1>1, ViewIs
<1>5. ASSUME NEW p \in Pids, NEW a \in Addrs PROVE View[p][a] = g[p][a]
  <2>1. CASE p \in 1..NInit
    <3>1. pte[p][a] = SetupEntry(p, a)
      BY <1>2, <1>4, <1>5, <2>1
    <3>2. CASE a \in S
      <4>1. User(pte[p][a])
        BY <1>3, <2>1, <3>1, <3>2
      <4>2. View[p][a] = data[pte[p][a].pa] /\ pte[p][a].pa \in Pages
        BY <1>1, <1>5, <4>1, ViewIs
      <4>. QED BY <1>2, <1>5, <2>1, <3>2, <4>2
    <3>3. CASE a \notin S
      <4>1. ~User(pte[p][a])
        BY <1>3, <1>5, <2>1, <3>1, <3>3
      <4>. QED BY <1>1, <1>2, <1>5, <2>1, <3>3, <4>1, ViewIs
    <3>. QED BY <3>2, <3>3
  <2>2. CASE p \notin 1..NInit
    <3>1. ~User(pte[p][a])
      BY <1>2, <1>4, <1>5, <2>2 DEF NoEntries, Absent, User
    <3>. QED BY <1>1, <1>2, <1>5, <2>2, <3>1, ViewIs
  <2>. QED BY <2>1, <2>2
<1>6. g \in [Pids -> [Addrs -> Values \cup {-1}]]
  BY PageTablesAssumption
<1>7. View = g
  <2>. HIDE DEF g
  <2>. QED BY <1>4, <1>5, <1>6, SameFunction
<1>8. S \in SUBSET Addrs /\ Alive \subseteq Pids
  BY <1>2
<1>. QED BY <1>7, <1>8 DEF Private!Init, Private!UnmappedAll, Alive, Addrs

(* Sharing is invisible (kernel.cc:303-349, 570-626): with copy-on-write,  *)
(* reference counts and reuse of pages, whatever the number of processes   *)
(* and of pages, each process still has a memory of its own, as long as    *)
(* requests are for whole pages.                                           *)
THEOREM KeepsPrivate ==
  ASSUME WholePages
  PROVE  Spec => PrivateMemories
<1>1. Init => Private!Init
  BY InitPrivate
<1>2. SharingInv => TypeInv
  BY DEF SharingInv, RunInv
<1>3. SharingInv /\ TypeInv' /\ [Next]_vars => [Private!Next]_(Private!vars)
  BY NextPrivate
<1>. QED BY <1>1, <1>2, <1>3, SharingAlways, PTL DEF Spec, PrivateMemories, Private!Spec

=============================================================================
