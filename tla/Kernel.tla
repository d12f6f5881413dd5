------------------------------- MODULE Kernel -------------------------------
(***************************************************************************)
(* The WeensyOS kernel (pset3/kernel.cc): the process table, the system    *)
(* calls that change memory or scheduling state, the page-fault handler    *)
(* with copy-on-write, the timer interrupt and the round-robin scheduler.  *)
(* Interrupts are disabled while the kernel runs, so a handler, up to and  *)
(* including the run() or schedule() it ends with, is one action; stores   *)
(* by user code are actions of their own between the handlers.             *)
(***************************************************************************)
EXTENDS PageTables

CONSTANTS
  Image,      (* program image: [first pages of process memory -> writable?] *)
  NInit,      (* processes that kernel_start sets up                       *)
  MmapCalls,  (* arguments programs pass to sys_mmap: [va, len, perm], len *)
              (* in half pages, va = 0 for nullptr or an invalid address   *)
  AllocCalls, (* virtual pages programs pass to sys_page_alloc             *)
  UnmapCalls, (* arguments of sys_munmap: [va, len], len in half pages     *)
  KillCalls,  (* pairs <<p, q>>: process p may call sys_kill(q)            *)
  SleepCalls  (* arguments of sys_sleep, in timer ticks                    *)

StackVA == MemSize - 1

ASSUME KernelAssumption ==
  /\ DOMAIN Image \subseteq {va \in ProcStart..(MemSize - 2) : va < HighVA}
  /\ Image \in [DOMAIN Image -> BOOLEAN]
  /\ NInit \in 1..(PidMax - 1)
  /\ MmapCalls \subseteq
       [va : 0..(MemSize - 1), len : Nat \ {0}, perm : {{"P", "U"}, {"P", "W", "U"}}]
  /\ \A c \in MmapCalls : 2 * (MemSize - 1) + c.len <= 2 * Limit
  /\ AllocCalls \subseteq ProcStart..(MemSize - 1)
  /\ UnmapCalls \subseteq [va : 0..(MemSize - 1), len : Nat]
  /\ KillCalls \subseteq Pids \X Pids
  /\ SleepCalls \subseteq Nat

VARIABLES
  mode,       (* "user": current runs; "spin": schedule() found nobody and *)
              (* loops with interrupts disabled; "panic": assertion failed *)
  current,    (* pid of the process descriptor current points to           *)
  state,      (* ptable[p].state                                           *)
  sleep       (* ticks until ptable[p].wake_up, 0 once ticks >= wake_up    *)

vars == <<refcount, data, table, pte, mode, current, state, sleep>>

TypeOK ==
  /\ MemTypeOK
  /\ mode \in {"user", "spin", "panic"}
  /\ current \in Pids
  /\ state \in [Pids -> {"P_FREE", "P_RUNNABLE", "P_FAULTED"}]
  /\ sleep \in [Pids -> Nat]

-----------------------------------------------------------------------------
(* kernel_start: process_setup of pids 1..NInit, each taking pages in the  *)
(* order root, low tables, image pages, stack, second level-1 table.       *)

SetupTables == LowTables + IF StackVA >= HighVA THEN 2 ELSE 1

PagesPerProcess == Cardinality(DOMAIN Image) + SetupTables + 1

ASSUME SetupAssumption == NInit * PagesPerProcess <= NPages

SetupPage(p, i) == (p - 1) * PagesPerProcess + i

ImageIndex(va) == 1 + LowTables + Cardinality({w \in DOMAIN Image : w <= va})

ImagePerm(va) == IF Image[va] THEN {"P", "W", "U"} ELSE {"P", "U"}

SetupEntry(p, va) ==
  IF va = 0 THEN [pa |-> Console, perm |-> {"P", "W", "U"}]
  ELSE IF va \in DOMAIN Image
       THEN [pa |-> SetupPage(p, ImageIndex(va)), perm |-> ImagePerm(va)]
  ELSE IF va = StackVA
       THEN [pa   |-> SetupPage(p, LowTables + Cardinality(DOMAIN Image) + 2),
             perm |-> {"P", "W", "U"}]
  ELSE Absent

SetupTable(p) ==
  [i \in Tables |->
     IF i # HighTable THEN SetupPage(p, i + 1)
     ELSE IF StackVA >= HighVA THEN SetupPage(p, PagesPerProcess) ELSE NoPage]

Init ==
  /\ refcount = [pg \in Pages |-> IF pg <= NInit * PagesPerProcess THEN 1 ELSE 0]
  /\ data = [pg \in Pages |-> Zero]
  /\ table = [p \in Pids |-> IF p \in 1..NInit THEN SetupTable(p) ELSE NoTables]
  /\ pte = [p \in Pids |-> IF p \in 1..NInit
                           THEN [va \in VAs |-> SetupEntry(p, va)] ELSE NoEntries]
  /\ mode = "user"
  /\ current = 1
  /\ state = [p \in Pids |-> IF p \in 1..NInit THEN "P_RUNNABLE" ELSE "P_FREE"]
  /\ sleep = [p \in Pids |-> 0]

-----------------------------------------------------------------------------
(* schedule(): round robin from current + 1; a process that still sleeps   *)
(* is passed over, although its state is P_RUNNABLE.                       *)

(* Mutant: the scan starts at current. *)
TurnsFromCurrent(p) == (p - current) % PidMax

Turns(p) == (p - current - 1) % PidMax

Schedule(st, sl) ==
  LET ready == {p \in Pids : st[p] = "P_RUNNABLE" /\ sl[p] = 0}
  IN  IF ready = {}
      THEN mode' = "spin" /\ current' = current
      ELSE /\ mode' = "user"
           /\ current' \in {p \in ready : \A q \in ready : Turns(p) <= Turns(q)}

(* What the handler did before its assertion failed is not recorded. *)
Panic == mode' = "panic" /\ UNCHANGED <<refcount, data, table, pte, current, state, sleep>>

(* A handler that returns to the process that trapped. *)
Return == UNCHANGED <<mode, current, state, sleep>>

(* Mutant: ticks stands still. *)
TimerNoTick ==
  /\ mode = "user"
  /\ Schedule(state, sleep)
  /\ UNCHANGED <<memVars, state, sleep>>

(* INT_IRQ + IRQ_TIMER *)
Timer ==
  /\ mode = "user"
  /\ sleep' = [p \in Pids |-> IF sleep[p] > 0 THEN sleep[p] - 1 ELSE 0]
  /\ Schedule(state, sleep')
  /\ UNCHANGED <<memVars, state>>

(* SYSCALL_YIELD *)
Yield ==
  /\ mode = "user"
  /\ Schedule(state, sleep)
  /\ UNCHANGED <<memVars, state, sleep>>

(* SYSCALL_SLEEP *)
Sleep(t) ==
  /\ mode = "user"
  /\ sleep' = [sleep EXCEPT ![current] = t]
  /\ Schedule(state, sleep')
  /\ UNCHANGED <<memVars, state>>

-----------------------------------------------------------------------------
(* SYSCALL_EXIT and SYSCALL_KILL.  wake_up keeps its value in the slot.    *)

Discard(p) ==
  /\ Kfree(Everything(p))
  /\ table' = [table EXCEPT ![p] = NoTables]
  /\ pte' = [pte EXCEPT ![p] = NoEntries]
  /\ state' = [state EXCEPT ![p] = "P_FREE"]
  /\ UNCHANGED sleep

ExitCurrent ==
  IF KfreeAsserts(Everything(current))
  THEN Discard(current) /\ Schedule(state', sleep)
  ELSE Panic

Exit == mode = "user" /\ ExitCurrent

(* Killing oneself returns into a freed process: the check of              *)
(* current->state after syscall() in k-exception.S fails.  Calls that      *)
(* return -1 change nothing.                                               *)
Kill(killer, p) ==
  /\ mode = "user" /\ current = killer
  /\ state[p] = "P_RUNNABLE"
  /\ IF KfreeAsserts(Everything(p)) /\ p # current
     THEN Discard(p) /\ UNCHANGED <<mode, current>>
     ELSE Panic

-----------------------------------------------------------------------------
(* INT_PF.  A store to a page that is present but not writable enters the  *)
(* copy-on-write branch, which tests (PTE_C | PTE_P) and so is also taken  *)
(* for pages the image maps read-only.                                     *)

CowTest(e) == e.perm \cap {"C", "P"} # {}

CowPerm(e) == (e.perm \cup {"W"}) \ {"C"}

StoreFaults(va) == ~({"P", "W", "U"} \subseteq pte[current][va].perm)

(* Mutant: a page that two entries map counts as unshared. *)
CowReuseShared(va) ==
  LET e == pte[current][va] IN
  /\ mode = "user" /\ va >= ProcStart /\ StoreFaults(va) /\ CowTest(e)
  /\ refcount[e.pa] <= 2
  /\ pte' = [pte EXCEPT ![current][va] = [pa |-> e.pa, perm |-> CowPerm(e)]]
  /\ UNCHANGED <<refcount, data, table>>
  /\ Return

(* The only reference: the page becomes writable in place. *)
CowReuse(va) ==
  LET e == pte[current][va] IN
  /\ mode = "user" /\ va >= ProcStart /\ StoreFaults(va) /\ CowTest(e)
  /\ refcount[e.pa] = 1
  /\ pte' = [pte EXCEPT ![current][va] = [pa |-> e.pa, perm |-> CowPerm(e)]]
  /\ UNCHANGED <<refcount, data, table>>
  /\ Return

(* Shared: copy it to a new page and drop one reference to the old one.    *)
MoveReference(old, new) == refcount' = [refcount EXCEPT ![new] = 1, ![old] = @ - 1]

CowCopy(va) ==
  LET e == pte[current][va] IN
  /\ mode = "user" /\ va >= ProcStart /\ StoreFaults(va) /\ CowTest(e)
  /\ refcount[e.pa] # 1
  /\ \E f \in Grant(1) :
       IF refcount[e.pa] > 0
       THEN /\ pte' = [pte EXCEPT ![current][va] = [pa |-> f[1], perm |-> CowPerm(e)]]
            /\ MoveReference(e.pa, f[1])
            /\ data' = [data EXCEPT ![f[1]] = data[e.pa]]
            /\ UNCHANGED table
            /\ Return
       ELSE Panic

(* Shared and no page left: the process exits. *)
CowNoMemory(va) ==
  LET e == pte[current][va] IN
  /\ mode = "user" /\ va >= ProcStart /\ StoreFaults(va) /\ CowTest(e)
  /\ refcount[e.pa] # 1
  /\ ~Enough(1)
  /\ ExitCurrent

(* Any access to a page that is not mapped for user code: P_FAULTED. *)
Fault(va) ==
  /\ mode = "user"
  /\ ~User(pte[current][va])
  /\ state' = [state EXCEPT ![current] = "P_FAULTED"]
  /\ Schedule(state', sleep)
  /\ UNCHANGED <<memVars, sleep>>

(* A store by user code that the page tables allow. *)
Store(va, v) ==
  /\ mode = "user" /\ va >= ProcStart /\ ~StoreFaults(va)
  /\ data' = [data EXCEPT ![pte[current][va].pa] = v]
  /\ UNCHANGED <<refcount, table, pte>>
  /\ Return

-----------------------------------------------------------------------------
(* SYSCALL_MMAP and SYSCALL_PAGE_ALLOC.                                    *)

(* Pages covered by len half pages: the mapping loop rounds up. *)
Ceil(len) == (len + 1) \div 2

(* Where the mapping goes: at va when that range lies in process memory    *)
(* and is unmapped, else where find_free_vmemory says.  Empty when the     *)
(* call fails for want of address space.                                   *)
MmapAddr(va, len) ==
  IF va # 0 /\ 2 * va + len <= 2 * MemSize /\ AllAbsent(current, va..(va + Ceil(len) - 1))
  THEN {va}
  ELSE FindFreeVmemory(current, len \div 2)

(* Index of the kalloc call that returns the missing second level-1 table  *)
(* when pages from a on are mapped one by one; 0 when none is missing.     *)
TableCall(a, len) ==
  IF table[current][HighTable] # NoPage \/ a + Ceil(len) <= HighVA THEN 0
  ELSE IF a >= HighVA THEN 2 ELSE HighVA - a + 2

NCalls(a, len) == Ceil(len) + IF TableCall(a, len) = 0 THEN 0 ELSE 1

(* The kalloc call whose page is mapped at w. *)
PageCall(a, len, w) ==
  LET i == w - a + 1
  IN  IF TableCall(a, len) # 0 /\ i >= TableCall(a, len) THEN i + 1 ELSE i

(* Mutant: the page keeps what kalloc put there. *)
TakeUncleared(f) ==
  LET taken == {f[i] : i \in DOMAIN f} IN
  /\ refcount' = [pg \in Pages |-> IF pg \in taken THEN 1 ELSE refcount[pg]]
  /\ data' = [pg \in Pages |-> IF pg \in taken THEN CHOOSE v \in Values : v # Zero
                               ELSE data[pg]]

Take(f) ==
  LET taken == {f[i] : i \in DOMAIN f} IN
  /\ refcount' = [pg \in Pages |-> IF pg \in taken THEN 1 ELSE refcount[pg]]
  /\ data' = [pg \in Pages |-> IF pg \in taken THEN Zero ELSE data[pg]]

LinkTable(p, pg) == table' = [table EXCEPT ![p][HighTable] = pg]

MmapPages(va, len, perm) ==
  /\ mode = "user"
  /\ \E a \in MmapAddr(va, len) : \E f \in Grant(NCalls(a, len)) :
       /\ Take(f)
       /\ pte' = [pte EXCEPT ![current] =
                    [w \in VAs |-> IF w \in a..(a + Ceil(len) - 1)
                                   THEN [pa |-> f[PageCall(a, len, w)], perm |-> perm]
                                   ELSE @[w]]]
       /\ IF TableCall(a, len) = 0 THEN UNCHANGED table
          ELSE LinkTable(current, f[TableCall(a, len)])
  /\ Return

(* Out of memory: the pages are given back, a page-table page that was     *)
(* linked stays.                                                           *)
MmapRollback(va, len) ==
  /\ mode = "user"
  /\ \E a \in MmapAddr(va, len) :
       /\ TableCall(a, len) # 0
       /\ ~Enough(NCalls(a, len))
       /\ \E f \in Grant(TableCall(a, len)) :
            /\ refcount' = [refcount EXCEPT ![f[TableCall(a, len)]] = 1]
            /\ LinkTable(current, f[TableCall(a, len)])
  /\ UNCHANGED <<data, pte>>
  /\ Return

Mmap(c) == MmapPages(c.va, c.len, c.perm) \/ MmapRollback(c.va, c.len)

(* sys_page_alloc maps one writable page through syscall_mmap.  A request  *)
(* for one page needs the page-table page last: when it fails, nothing     *)
(* changes.                                                                *)
PageAlloc(va) == MmapPages(va, 2, {"P", "W", "U"})

(* SYSCALL_MUNMAP: no lower bound on the address, so that the range may    *)
(* reach the console page, which kfree's assertion rejects.                *)
Munmap(c) ==
  LET gone == {va \in c.va..(c.va + Ceil(c.len) - 1) :
                 va < MemSize /\ User(pte[current][va])}
      n    == [pg \in Pages |-> Cardinality({va \in gone : pte[current][va].pa = pg})]
  IN
  /\ mode = "user"
  /\ gone # {}
  /\ IF KfreeAsserts(n) /\ \A va \in gone : pte[current][va].pa # Console
     THEN /\ Kfree(n)
          /\ pte' = [pte EXCEPT ![current] =
                       [va \in VAs |-> IF va \in gone THEN Absent ELSE @[va]]]
          /\ UNCHANGED table
          /\ Return
     ELSE Panic

-----------------------------------------------------------------------------
(* SYSCALL_FORK.  Parent and child share every user page of process        *)
(* memory, read-only in both, marked PTE_C if it was writable.             *)

FreeSlots == {p \in Pids \ {0} : state[p] = "P_FREE"}

SharedEntry(e) ==
  [pa |-> e.pa, perm |-> (e.perm \ {"W"}) \cup IF Writable(e) THEN {"C"} ELSE {}]

SharedPages == {va \in ProcStart..(MemSize - 1) : User(pte[current][va])}

(* Mutant: the child's second level-1 table is left out. *)
ForkCallsLow == LowTables + 1

ForkCalls == LowTables + 1 + IF \E va \in SharedPages : va >= HighVA THEN 1 ELSE 0

(* The entries of the parent once the pages in S are shared. *)
MarkShared(S) ==
  [va \in VAs |-> IF va \in S THEN SharedEntry(pte[current][va]) ELSE pte[current][va]]

(* Mutant: the child's references are not counted. *)
SharesUncounted(pg) == 0

Shares(pg) == Cardinality({va \in SharedPages : pte[current][va].pa = pg})

Fork ==
  /\ mode = "user"
  /\ \E child \in FreeSlots, f \in Grant(ForkCalls) :
       /\ \A p \in FreeSlots : child <= p
       /\ table' = [table EXCEPT ![child] =
                      [i \in Tables |-> IF i + 1 \in DOMAIN f THEN f[i + 1] ELSE NoPage]]
       /\ pte' = [pte EXCEPT
                    ![child] = [va \in VAs |-> IF va \in SharedPages \cup {0}
                                               THEN MarkShared(SharedPages)[va]
                                               ELSE Absent],
                    ![current] = MarkShared(SharedPages)]
       /\ refcount' = [pg \in Pages |->
                         refcount[pg] + Shares(pg)
                         + IF \E i \in DOMAIN f : f[i] = pg THEN 1 ELSE 0]
       /\ state' = [state EXCEPT ![child] = "P_RUNNABLE"]
  /\ UNCHANGED <<data, mode, current, sleep>>

(* No page for the second level-1 table: the child is taken apart again,   *)
(* but the parent's pages below HighVA stay marked copy-on-write.          *)
ForkRollback ==
  /\ mode = "user"
  /\ FreeSlots # {}
  /\ Enough(LowTables + 1) /\ ~Enough(ForkCalls)
  /\ pte' = [pte EXCEPT ![current] = MarkShared({va \in SharedPages : va < HighVA})]
  /\ UNCHANGED <<refcount, data, table>>
  /\ Return

-----------------------------------------------------------------------------
Next ==
  \/ Timer
  \/ Yield
  \/ \E t \in SleepCalls : Sleep(t)
  \/ Exit
  \/ \E c \in KillCalls : Kill(c[1], c[2])
  \/ \E va \in VAs : CowReuse(va) \/ CowCopy(va) \/ CowNoMemory(va) \/ Fault(va)
  \/ \E va \in VAs, v \in Values : Store(va, v)
  \/ \E c \in MmapCalls : Mmap(c)
  \/ \E va \in AllocCalls : PageAlloc(va)
  \/ \E c \in UnmapCalls : Munmap(c)
  \/ Fork
  \/ ForkRollback

Spec == Init /\ [][Next]_vars

(* The timer keeps interrupting user code. *)
FairSpec == Spec /\ WF_vars(Timer)

=============================================================================
