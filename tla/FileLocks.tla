------------------------------ MODULE FileLocks ------------------------------
(***************************************************************************)
(* The region locks of a shared file (pset6/io61.cc): io61_try_lock,       *)
(* io61_lock and io61_unlock count and own locks per chunk of the file,    *)
(* under the mutex f->m; a thread that cannot lock waits on the condition  *)
(* variable f->cv.  Each call holds the mutex from its first step to its   *)
(* last, except while it waits, so a call is one action, or one per test   *)
(* of the waiting loop.                                                    *)
(*                                                                         *)
(* A lock that a thread may take is a record: the thread, the range of     *)
(* bytes, and a tag that tells locks on the same range apart.  Callers     *)
(* release what they have locked, once, as ftx_acct does.  The lock type   *)
(* is checked and ignored by the code: LOCK_SH locks exclude each other    *)
(* too.                                                                    *)
(***************************************************************************)
EXTENDS Integers, FiniteSets

CONSTANTS
  Threads,    (* threads that share the file                               *)
  NChunks,    (* io61_file::nchunks, 2^18 in the code                      *)
  MinChunk,   (* the least size of a chunk, 16 in the code                 *)
  Size,       (* size of the file when it was opened                       *)
  Locks,      (* locks the threads may take                                *)
  Nobody      (* stands for no thread and for no lock                      *)

ASSUME FileLocksAssumption ==
  /\ NChunks \in Nat \ {0} /\ MinChunk \in Nat \ {0} /\ Size \in Nat
  /\ IsFiniteSet(Locks)
  /\ Locks \subseteq [thread : Threads, start : Nat, len : Nat \ {0}, tag : Nat]
  /\ Nobody \notin Threads /\ Nobody \notin Locks

Indices == 0..(NChunks - 1)

(* io61_fdopen *)
ChunkSz ==
  LET sz == Size \div NChunks IN IF sz < MinChunk THEN MinChunk ELSE sz

(* Chunks that lock l touches, as every loop over a region computes them.  *)
(* Mutant: a chunk that the range only starts in is missed.                *)
ChunksInside(l) ==
  ((l.start + ChunkSz - 1) \div ChunkSz)..((l.start + l.len - 1) \div ChunkSz)

Chunks(l) == (l.start \div ChunkSz)..((l.start + l.len - 1) \div ChunkSz)

VARIABLES
  nlocked,    (* nlocked[i]: how often chunk i is locked                   *)
  owner,      (* owner[i]: thread that locked chunk i last                 *)
  held,       (* locks that calls have granted and not released            *)
  want,       (* want[t]: lock t waits for in io61_lock, or Nobody         *)
  asleep,     (* threads blocked on f->cv                                  *)
  mode        (* "run"; "abort": an assertion failed; "wild": an index was *)
              (* out of range                                              *)

vars == <<nlocked, owner, held, want, asleep, mode>>

TypeOK ==
  /\ nlocked \in [Indices -> Nat]
  /\ owner \in [Indices -> Threads \cup {Nobody}]
  /\ held \subseteq Locks
  /\ want \in [Threads -> Locks \cup {Nobody}]
  /\ asleep \subseteq Threads
  /\ mode \in {"run", "abort", "wild"}

Init ==
  /\ nlocked = [i \in Indices |-> 0]
  /\ owner = [i \in Indices |-> Nobody]
  /\ held = {}
  /\ want = [t \in Threads |-> Nobody]
  /\ asleep = {}
  /\ mode = "run"

-----------------------------------------------------------------------------
InRange(l) == Chunks(l) \subseteq Indices

Stop(m) == mode' = m /\ UNCHANGED <<nlocked, owner, held, want, asleep>>

(* is_overlap *)
IsOverlap(l) == \E i \in Chunks(l) : nlocked[i] # 0 /\ owner[i] # l.thread

(* lock_region, whose assertion is what is_overlap has just tested.        *)
(* Mutants: the count of a chunk its owner locks again stays 1; owner[] is *)
(* set only for a chunk that had none.                                     *)
LockRegionOnce(l) ==
  /\ nlocked' = [i \in Indices |-> IF i \in Chunks(l) THEN 1 ELSE nlocked[i]]
  /\ owner' = [i \in Indices |-> IF i \in Chunks(l) THEN l.thread ELSE owner[i]]
  /\ held' = held \cup {l}

LockRegionFirst(l) ==
  /\ nlocked' = [i \in Indices |-> nlocked[i] + IF i \in Chunks(l) THEN 1 ELSE 0]
  /\ owner' = [i \in Indices |-> IF i \in Chunks(l) /\ owner[i] = Nobody
                                 THEN l.thread ELSE owner[i]]
  /\ held' = held \cup {l}

LockRegion(l) ==
  /\ nlocked' = [i \in Indices |-> nlocked[i] + IF i \in Chunks(l) THEN 1 ELSE 0]
  /\ owner' = [i \in Indices |-> IF i \in Chunks(l) THEN l.thread ELSE owner[i]]
  /\ held' = held \cup {l}

Ready(l) == mode = "run" /\ want[l.thread] = Nobody /\ l \notin held

(* A call with a range beyond nlocked[] reads and writes what lies behind. *)
Wild(l) == Ready(l) /\ ~InRange(l) /\ Stop("wild")

TryLock(l) ==
  /\ Ready(l) /\ InRange(l) /\ ~IsOverlap(l)
  /\ LockRegion(l)
  /\ UNCHANGED <<want, asleep, mode>>

(* io61_lock: the first test of the loop. *)
Lock(l) ==
  /\ Ready(l) /\ InRange(l)
  /\ \/ ~IsOverlap(l) /\ LockRegion(l) /\ UNCHANGED <<want, asleep>>
     \/ /\ IsOverlap(l)
        /\ want' = [want EXCEPT ![l.thread] = l]
        /\ asleep' = asleep \cup {l.thread}
        /\ UNCHANGED <<nlocked, owner, held>>
  /\ UNCHANGED mode

(* cv.wait returns, after notify_all or spuriously. *)
WakeUp(t) ==
  /\ mode = "run" /\ t \in asleep
  /\ asleep' = asleep \ {t}
  /\ UNCHANGED <<nlocked, owner, held, want, mode>>

(* io61_lock: the tests after cv.wait has returned. *)
Retry(t) ==
  LET l == want[t] IN
  /\ mode = "run" /\ l # Nobody /\ t \notin asleep
  /\ \/ /\ ~IsOverlap(l) /\ LockRegion(l)
        /\ want' = [want EXCEPT ![t] = Nobody]
        /\ UNCHANGED asleep
     \/ /\ IsOverlap(l)
        /\ asleep' = asleep \cup {t}
        /\ UNCHANGED <<nlocked, owner, held, want>>
  /\ UNCHANGED mode

(* Mutant: nobody is woken. *)
UnlockQuiet(l) ==
  /\ mode = "run" /\ want[l.thread] = Nobody /\ l \in held
  /\ nlocked' = [i \in Indices |-> nlocked[i] - IF i \in Chunks(l) THEN 1 ELSE 0]
  /\ held' = held \ {l}
  /\ UNCHANGED <<owner, want, asleep, mode>>

(* io61_unlock: owner[] keeps the thread; notify_all wakes every waiter. *)
Unlock(l) ==
  /\ mode = "run" /\ want[l.thread] = Nobody /\ l \in held
  /\ IF \A i \in Chunks(l) : nlocked[i] # 0 /\ owner[i] = l.thread
     THEN /\ nlocked' = [i \in Indices |-> nlocked[i] - IF i \in Chunks(l) THEN 1 ELSE 0]
          /\ held' = held \ {l}
          /\ asleep' = {}
          /\ UNCHANGED <<owner, want, mode>>
     ELSE Stop("abort")

Next ==
  \/ \E l \in Locks : Wild(l) \/ TryLock(l) \/ Lock(l) \/ Unlock(l)
  \/ \E t \in Threads : WakeUp(t) \/ Retry(t)

Spec == Init /\ [][Next]_vars

-----------------------------------------------------------------------------
(* No assertion of the lock functions fails (io61.cc:516, 590): a thread   *)
(* that unlocks a region still owns each of its chunks, whatever it and    *)
(* the other threads have locked and unlocked there in the meantime.       *)
NoAbort == mode # "abort"

(* nlocked[] counts exactly the locks that are held, over any nesting of   *)
(* calls on overlapping ranges (io61.cc:517, 591).                         *)
CountsMatch ==
  \A i \in Indices : nlocked[i] = Cardinality({l \in held : i \in Chunks(l)})

(* No wake-up is lost: a thread blocked on f->cv waits for a chunk that    *)
(* another thread has locked right now (io61.cc:568, 595).                 *)
NoLostWakeup ==
  \A t \in asleep : \E k \in held :
    k.thread # t /\ Chunks(k) \cap Chunks(want[t]) # {}

Promise == INSTANCE RegionLocks

(* Locks on common bytes exclude each other between threads, although the  *)
(* code locks whole chunks (io61.cc:504-597).                              *)
LocksRegions == Promise!Spec

=============================================================================
