-------------------------- MODULE KernelProperties --------------------------
(***************************************************************************)
(* The properties that make the kernel of Kernel.tla correct.              *)
(***************************************************************************)
EXTENDS Kernel

Mappings == {m \in Pids \X VAs : Present(pte[m[1]][m[2]])}

PageOf(m) == pte[m[1]][m[2]].pa

TableSlots == Pids \X Tables

(* kernel.hh:61-64: refcount is the number of times a physical page is     *)
(* used, and 0 for a free page: no page leaks, none is freed while an      *)
(* entry or a page table still refers to it.                               *)
RefcountExact ==
  \A pg \in Pages :
    refcount[pg] = Cardinality({m \in Mappings : PageOf(m) = pg})
                   + Cardinality({t \in TableSlots : table[t[1]][t[2]] = pg})

(* Copy-on-write (kernel.cc:303-349, 603-616): a page that one process can *)
(* write is mapped nowhere else, and no page that is part of a page table  *)
(* is mapped into any process.                                             *)
NoSharedWrites ==
  \A m \in Mappings :
    /\ \A n \in Mappings : m # n /\ PageOf(m) = PageOf(n) /\ PageOf(m) # Console
                           => ~Writable(pte[m[1]][m[2]])
    /\ \A t \in TableSlots : table[t[1]][t[2]] # PageOf(m)

(* No assertion of the kernel fails: kfree never drops a count below 0     *)
(* (kernel.cc:163) and a system call returns only to a runnable process    *)
(* (k-exception.S:183-186).                                                *)
NoPanic == mode # "panic"

(* run() resumes only a process that is runnable, awake and still has the  *)
(* page tables the processor is about to load (kernel.cc:679-688).         *)
RunsLiveProcess ==
  mode = "user" =>
    /\ state[current] = "P_RUNNABLE"
    /\ sleep[current] = 0
    /\ \A i \in 0..LowTables : table[current][i] # NoPage
    /\ \A va \in VAs : Present(pte[current][va]) /\ va >= HighVA
                       => table[current][HighTable] # NoPage

(* The memory each process sees through its page tables.                   *)
View == [p \in Pids |-> [va \in ProcStart..(MemSize - 1) |->
           IF User(pte[p][va]) THEN data[pte[p][va].pa] ELSE -1]]

Private == INSTANCE PrivateMemory WITH
             Procs <- Pids, Addrs <- ProcStart..(MemSize - 1), Unmapped <- -1,
             alive <- {p \in Pids : state[p] # "P_FREE"}, mem <- View

(* Sharing is invisible: with copy-on-write, reference counts and page     *)
(* reuse, every process still has a memory of its own; new pages read as   *)
(* zero, a child starts with its parent's contents, a failed call changes  *)
(* nothing.                                                                *)
PrivateMemories == Private!Spec

-----------------------------------------------------------------------------
(* Round robin (kernel.cc:655-661): a runnable process that is not asleep  *)
(* gets the processor, unless it is killed or the machine stops.           *)
AwakeRuns ==
  \A p \in Pids :
    (mode = "user" /\ state[p] = "P_RUNNABLE" /\ sleep[p] = 0)
      ~> (current = p \/ state[p] # "P_RUNNABLE" \/ mode = "panic")

(* sys_sleep (kernel.cc:645-649): a sleeper wakes up as long as some other *)
(* process keeps the processor in user mode.                               *)
SleeperWakes ==
  \A p \in Pids :
    (mode = "user" /\ sleep[p] > 0) ~> (sleep[p] = 0 \/ mode # "user")

-----------------------------------------------------------------------------
(* What comments and documents say and the code does not do; each is the   *)
(* property of a run that is expected to fail.                             *)

(* kernel.cc:310 "check if it's a COW page" and README.md "page            *)
(* protections for newly allocated pages": program memory mapped without   *)
(* PTE_W stays read-only.                                                  *)
TextStaysReadOnly ==
  \A p \in Pids, va \in DOMAIN Image :
    ~Image[va] /\ state[p] # "P_FREE" => ~Writable(pte[p][va])

(* kernel.cc:508 "try to find a starting virtual address such that the     *)
(* next len addresses are unmapped": mmap replaces no page that the        *)
(* process has mapped.                                                     *)
MmapTakesHoles ==
  [][\A c \in MmapCalls : Mmap(c) =>
       \A va \in VAs : Present(pte[current][va]) => UNCHANGED pte[current][va]]_vars

=============================================================================
