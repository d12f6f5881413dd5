--------------------------- MODULE FileLocksProofs ---------------------------
(***************************************************************************)
(* Theorems about the region locks of FileLocks.tla, for any number of     *)
(* threads, any file and chunk sizes and any finite set of locks.          *)
(***************************************************************************)
EXTENDS FileLocks, FiniteSetTheorems, TLAPS

(* Holders of chunk i. *)
Holders(S, i) == {l \in S : i \in Chunks(l)}

(* The inductive invariant: counts are exact; a chunk that is locked is    *)
(* recorded for the thread of every lock on it, which makes the unlock's   *)
(* assertion hold and conflicting locks impossible; a waiting thread asks  *)
(* for a lock of its own that it does not hold, and while it is blocked    *)
(* somebody else holds one of its chunks.                                  *)
Owners == \A l \in held : InRange(l) /\ \A i \in Chunks(l) : owner[i] = l.thread

Waiting ==
  \A t \in Threads : want[t] # Nobody =>
    want[t].thread = t /\ InRange(want[t]) /\ want[t] \notin held

LockInv ==
  /\ TypeOK /\ NoAbort /\ CountsMatch /\ Owners /\ Waiting
  /\ NoLostWakeup /\ \A t \in asleep : want[t] # Nobody

-----------------------------------------------------------------------------
(* Division by the chunk size keeps the order of bytes.                    *)
LEMMA DivMonotone ==
  ASSUME NEW a \in Nat, NEW b \in Nat, NEW c \in Nat \ {0}, a <= b
  PROVE  a \div c <= b \div c
<1>. DEFINE q == a \div c
            r == b \div c
<1>1. q \in Int /\ r \in Int /\ c * q <= a /\ b < c * r + c
  OBVIOUS
<1>. HIDE DEF q, r
<1>2. SUFFICES ASSUME r + 1 <= q PROVE FALSE
  BY <1>1 DEF q, r
<1>3. c * (r + 1) <= c * q
  BY <1>1, <1>2
<1>4. c * (r + 1) = c * r + c
  BY <1>1
<1>. QED  BY <1>1, <1>3, <1>4

LEMMA ChunkSzType == ChunkSz \in Nat \ {0}
<1>1. Size \div NChunks \in Nat
  BY FileLocksAssumption
<1>. QED  BY <1>1, FileLocksAssumption DEF ChunkSz

(* Locks on a common byte have a common chunk.                             *)
LEMMA CommonChunk ==
  ASSUME NEW l \in Locks, NEW k \in Locks,
         Promise!Bytes(l) \cap Promise!Bytes(k) # {}
  PROVE  Chunks(l) \cap Chunks(k) # {}
<1>1. l.start \in Nat /\ l.len \in Nat /\ k.start \in Nat /\ k.len \in Nat
  BY FileLocksAssumption
<1>2. PICK b : b \in Promise!Bytes(l) /\ b \in Promise!Bytes(k)
  OBVIOUS
<1>3. /\ b \in Nat
      /\ l.start <= b /\ b <= l.start + l.len - 1
      /\ k.start <= b /\ b <= k.start + k.len - 1
  BY <1>1, <1>2 DEF Promise!Bytes
<1>4. ASSUME NEW m \in {l, k}
      PROVE  b \div ChunkSz \in Chunks(m)
  <2>1. m.start \div ChunkSz <= b \div ChunkSz
    BY <1>1, <1>3, ChunkSzType, DivMonotone
  <2>2. b \div ChunkSz <= (m.start + m.len - 1) \div ChunkSz
    <3>1. m.start + m.len - 1 \in Nat
      BY <1>1, <1>3
    <3>. QED  BY <1>3, <3>1, ChunkSzType, DivMonotone
  <2>3. b \div ChunkSz \in Int
    BY <1>3, ChunkSzType
  <2>4. m.start \div ChunkSz \in Int /\ (m.start + m.len - 1) \div ChunkSz \in Int
    BY <1>1, ChunkSzType
  <2>. QED  BY <2>1, <2>2, <2>3, <2>4 DEF Chunks
<1>. QED  BY <1>4

-----------------------------------------------------------------------------
(* Counting: one more or one lock less on each chunk it touches.           *)

LEMMA HoldersFinite ==
  ASSUME TypeOK, NEW i
  PROVE  IsFiniteSet(Holders(held, i)) /\ Cardinality(Holders(held, i)) \in Nat
<1>1. IsFiniteSet(held)
  BY FileLocksAssumption, FS_Subset DEF TypeOK
<1>2. IsFiniteSet(Holders(held, i))
  BY <1>1, FS_Subset DEF Holders
<1>. QED  BY <1>2, FS_CardinalityType

LEMMA HoldersAdd ==
  ASSUME TypeOK, NEW i, NEW l \in Locks, l \notin held
  PROVE  Cardinality(Holders(held \cup {l}, i))
           = Cardinality(Holders(held, i)) + IF i \in Chunks(l) THEN 1 ELSE 0
<1>1. CASE i \in Chunks(l)
  <2>1. Holders(held \cup {l}, i) = Holders(held, i) \cup {l} /\ l \notin Holders(held, i)
    BY <1>1 DEF Holders
  <2>. QED  BY <1>1, <2>1, HoldersFinite, FS_AddElement
<1>2. CASE i \notin Chunks(l)
  <2>1. Holders(held \cup {l}, i) = Holders(held, i)
    BY <1>2 DEF Holders
  <2>. QED  BY <1>2, <2>1, HoldersFinite
<1>. QED  BY <1>1, <1>2

LEMMA HoldersRemove ==
  ASSUME TypeOK, NEW i, NEW l \in held
  PROVE  Cardinality(Holders(held \ {l}, i))
           = Cardinality(Holders(held, i)) - IF i \in Chunks(l) THEN 1 ELSE 0
<1>1. CASE i \in Chunks(l)
  <2>1. Holders(held \ {l}, i) = Holders(held, i) \ {l} /\ l \in Holders(held, i)
    BY <1>1 DEF Holders
  <2>. QED  BY <1>1, <2>1, HoldersFinite, FS_RemoveElement
<1>2. CASE i \notin Chunks(l)
  <2>1. Holders(held \ {l}, i) = Holders(held, i)
    BY <1>2 DEF Holders
  <2>. QED  BY <1>2, <2>1, HoldersFinite
<1>. QED  BY <1>1, <1>2

(* A chunk is counted as locked exactly when somebody holds it.            *)
LEMMA LockedIsHeld ==
  ASSUME TypeOK, CountsMatch, NEW i \in Indices
  PROVE  nlocked[i] # 0 <=> \E k \in held : i \in Chunks(k)
<1>1. nlocked[i] = Cardinality(Holders(held, i))
  BY DEF CountsMatch, Holders
<1>2. Cardinality(Holders(held, i)) = 0 <=> Holders(held, i) = {}
  BY HoldersFinite, FS_EmptySet
<1>. QED  BY <1>1, <1>2 DEF Holders

(* is_overlap finds exactly the locks of other threads.                    *)
LEMMA OverlapMeans ==
  ASSUME LockInv, NEW l \in Locks, InRange(l)
  PROVE  IsOverlap(l) <=> \E k \in held : k.thread # l.thread /\ Chunks(k) \cap Chunks(l) # {}
<1>1. ASSUME NEW i \in Chunks(l), nlocked[i] # 0, owner[i] # l.thread
      PROVE  \E k \in held : k.thread # l.thread /\ Chunks(k) \cap Chunks(l) # {}
  <2>1. PICK k \in held : i \in Chunks(k)
    BY <1>1, LockedIsHeld DEF LockInv, InRange
  <2>. QED  BY <1>1, <2>1 DEF LockInv, Owners
<1>2. ASSUME NEW k \in held, k.thread # l.thread, NEW i \in Chunks(k) \cap Chunks(l)
      PROVE  IsOverlap(l)
  BY <1>2, LockedIsHeld DEF LockInv, InRange, IsOverlap, Owners
<1>. QED  BY <1>1, <1>2 DEF IsOverlap

-----------------------------------------------------------------------------
(* lock_region, entered when is_overlap is false.                          *)
LEMMA LockRegionKeeps ==
  ASSUME LockInv, NEW l \in Locks, InRange(l), l \notin held, ~IsOverlap(l), LockRegion(l)
  PROVE  /\ nlocked' \in [Indices -> Nat]
         /\ owner' \in [Indices -> Threads \cup {Nobody}]
         /\ held' \subseteq Locks
         /\ CountsMatch' /\ Owners'
<1>. USE DEF LockInv
<1>1. l.thread \in Threads
  BY FileLocksAssumption
<1>2. /\ nlocked' \in [Indices -> Nat]
      /\ owner' \in [Indices -> Threads \cup {Nobody}]
      /\ held' \subseteq Locks
  BY <1>1 DEF LockRegion, TypeOK
<1>3. CountsMatch'
  <2>. SUFFICES ASSUME NEW i \in Indices
                PROVE  nlocked'[i] = Cardinality(Holders(held \cup {l}, i))
    BY DEF CountsMatch, Holders, LockRegion, Chunks, Indices
  <2>1. nlocked[i] = Cardinality(Holders(held, i))
    BY DEF CountsMatch, Holders
  <2>. QED  BY <2>1, HoldersAdd DEF LockRegion
<1>4. Owners'
  <2>. SUFFICES ASSUME NEW k \in held'
                PROVE  InRange(k) /\ \A i \in Chunks(k) : owner'[i] = k.thread
    BY DEF Owners, InRange, Chunks, Indices
  <2>1. InRange(k)
    BY DEF LockRegion, Owners
  <2>2. ASSUME NEW i \in Chunks(k)
        PROVE  owner'[i] = k.thread
    <3>1. i \in Indices
      BY <2>1 DEF InRange
    <3>2. CASE i \in Chunks(l)
      <4>1. k.thread = l.thread
        BY <3>2, OverlapMeans DEF LockRegion
      <4>. QED  BY <3>1, <3>2, <4>1 DEF LockRegion
    <3>3. CASE i \notin Chunks(l)
      BY <3>1, <3>3 DEF LockRegion, Owners
    <3>. QED  BY <3>2, <3>3
  <2>. QED  BY <2>1, <2>2
<1>. QED  BY <1>2, <1>3, <1>4

(* While nobody waits for l, holding it too disturbs no waiter.            *)
LEMMA MoreHeld ==
  ASSUME LockInv, NEW l \in Locks, LockRegion(l),
         want' = want \/ want' = [want EXCEPT ![l.thread] = Nobody],
         want'[l.thread] = Nobody,
         asleep' \subseteq asleep, \A t \in asleep' : want'[t] = want[t]
  PROVE  Waiting' /\ NoLostWakeup' /\ \A t \in asleep' : want'[t] # Nobody
<1>. USE DEF LockInv
<1>1. want \in [Threads -> Locks \cup {Nobody}] /\ asleep \subseteq Threads
      /\ l.thread \in Threads
  BY FileLocksAssumption DEF TypeOK
<1>2. held' = held \cup {l}
  BY DEF LockRegion
<1>3. Waiting'
  <2>. SUFFICES ASSUME NEW t \in Threads, want'[t] # Nobody
                PROVE  want'[t].thread = t /\ InRange(want'[t]) /\ want'[t] \notin held'
    BY DEF Waiting, InRange, Chunks, Indices
  <2>1. want'[t] = want[t] /\ t # l.thread
    BY <1>1
  <2>2. want[t].thread = t /\ InRange(want[t]) /\ want[t] \notin held
    BY <2>1 DEF Waiting
  <2>. QED  BY <1>2, <2>1, <2>2
<1>4. NoLostWakeup' /\ \A t \in asleep' : want'[t] # Nobody
  BY <1>1, <1>2 DEF NoLostWakeup, Chunks
<1>. QED  BY <1>3, <1>4

-----------------------------------------------------------------------------
LEMMA InitLocks == Init => LockInv
<1>. SUFFICES ASSUME Init PROVE LockInv
  OBVIOUS
<1>1. TypeOK /\ NoAbort /\ Owners /\ Waiting /\ NoLostWakeup
      /\ \A t \in asleep : want[t] # Nobody
  BY DEF Init, TypeOK, NoAbort, Owners, Waiting, NoLostWakeup
<1>2. \A i : Holders(held, i) = {}
  BY DEF Init, Holders
<1>3. CountsMatch
  BY <1>2, FS_EmptySet DEF Init, CountsMatch, Holders
<1>. QED  BY <1>1, <1>3 DEF LockInv

LEMMA WildKeeps == ASSUME LockInv, NEW l \in Locks, Wild(l) PROVE LockInv'
BY DEF Wild, Stop, LockInv, TypeOK, NoAbort, CountsMatch, Owners, Waiting, NoLostWakeup,
       InRange, Chunks, Indices

LEMMA TryLockKeeps == ASSUME LockInv, NEW l \in Locks, TryLock(l) PROVE LockInv'
<1>1. CountsMatch' /\ Owners' /\ TypeOK' /\ NoAbort'
  BY LockRegionKeeps DEF TryLock, Ready, LockInv, TypeOK, NoAbort
<1>2. Waiting' /\ NoLostWakeup' /\ \A t \in asleep' : want'[t] # Nobody
  BY MoreHeld DEF TryLock, Ready
<1>. QED  BY <1>1, <1>2 DEF LockInv

(* io61_lock: the lock is taken at once, or the thread blocks because of a *)
(* lock that another thread holds at this moment.                          *)
LEMMA LockKeeps == ASSUME LockInv, NEW l \in Locks, Lock(l) PROVE LockInv'
<1>1. CASE ~IsOverlap(l) /\ LockRegion(l) /\ UNCHANGED <<want, asleep>>
  BY <1>1, TryLockKeeps DEF Lock, TryLock
<1>2. CASE /\ IsOverlap(l)
           /\ want' = [want EXCEPT ![l.thread] = l]
           /\ asleep' = asleep \cup {l.thread}
           /\ UNCHANGED <<nlocked, owner, held>>
  <2>1. l.thread \in Threads /\ l # Nobody
    BY FileLocksAssumption
  <2>2. want \in [Threads -> Locks \cup {Nobody}]
    BY DEF LockInv, TypeOK
  <2>3. TypeOK' /\ NoAbort' /\ CountsMatch' /\ Owners'
    BY <1>2, <2>1 DEF Lock, LockInv, TypeOK, NoAbort, CountsMatch, Owners, InRange,
                      Chunks, Indices
  <2>4. Waiting'
    BY <1>2, <2>1, <2>2 DEF Lock, Ready, LockInv, Waiting, InRange, Chunks, Indices
  <2>5. \E k \in held : k.thread # l.thread /\ Chunks(k) \cap Chunks(l) # {}
    BY <1>2, OverlapMeans DEF Lock
  <2>6. NoLostWakeup' /\ \A t \in asleep' : want'[t] # Nobody
    <3>. SUFFICES ASSUME NEW t \in asleep'
                  PROVE  /\ want'[t] # Nobody
                         /\ \E k \in held : k.thread # t /\ Chunks(k) \cap Chunks(want'[t]) # {}
      BY <1>2 DEF NoLostWakeup, Chunks
    <3>1. CASE t = l.thread
      BY <1>2, <2>1, <2>2, <2>5, <3>1
    <3>2. CASE t # l.thread
      BY <1>2, <2>2, <3>2 DEF LockInv, TypeOK, NoLostWakeup
    <3>. QED  BY <3>1, <3>2
  <2>. QED  BY <2>3, <2>4, <2>6 DEF LockInv
<1>. QED  BY <1>1, <1>2 DEF Lock

LEMMA WakeUpKeeps == ASSUME LockInv, NEW t \in Threads, WakeUp(t) PROVE LockInv'
BY DEF WakeUp, LockInv, TypeOK, NoAbort, CountsMatch, Owners, Waiting, NoLostWakeup,
       InRange, Chunks, Indices

LEMMA RetryKeeps == ASSUME LockInv, NEW t \in Threads, Retry(t) PROVE LockInv'
<1>. DEFINE l == want[t]
<1>1. /\ want \in [Threads -> Locks \cup {Nobody}] /\ asleep \subseteq Threads
      /\ l \in Locks /\ l.thread = t /\ InRange(l) /\ l \notin held /\ t \notin asleep
  BY DEF Retry, LockInv, TypeOK, Waiting
<1>2. CASE /\ ~IsOverlap(l) /\ LockRegion(l)
           /\ want' = [want EXCEPT ![t] = Nobody]
           /\ UNCHANGED asleep
  <2>. HIDE DEF l
  <2>1. CountsMatch' /\ Owners'
        /\ nlocked' \in [Indices -> Nat]
        /\ owner' \in [Indices -> Threads \cup {Nobody}]
        /\ held' \subseteq Locks
    BY <1>1, <1>2, LockRegionKeeps
  <2>2. TypeOK' /\ NoAbort'
    BY <1>1, <1>2, <2>1 DEF Retry, LockInv, TypeOK, NoAbort
  <2>3. Waiting' /\ NoLostWakeup' /\ \A u \in asleep' : want'[u] # Nobody
    <3>1. want'[t] = Nobody /\ \A u \in asleep' : want'[u] = want[u]
      BY <1>1, <1>2
    <3>. QED  BY <1>1, <1>2, <3>1, MoreHeld
  <2>. QED  BY <2>1, <2>2, <2>3 DEF LockInv
<1>3. CASE /\ IsOverlap(l)
           /\ asleep' = asleep \cup {t}
           /\ UNCHANGED <<nlocked, owner, held, want>>
  <2>1. \E k \in held : k.thread # t /\ Chunks(k) \cap Chunks(l) # {}
    BY <1>1, <1>3, OverlapMeans
  <2>2. TypeOK' /\ NoAbort' /\ CountsMatch' /\ Owners' /\ Waiting'
    BY <1>1, <1>3 DEF Retry, LockInv, TypeOK, NoAbort, CountsMatch, Owners, Waiting,
                      InRange, Chunks, Indices
  <2>3. NoLostWakeup' /\ \A u \in asleep' : want'[u] # Nobody
    BY <1>3, <2>1 DEF Retry, LockInv, NoLostWakeup, Chunks
  <2>. QED  BY <2>2, <2>3 DEF LockInv
<1>. QED  BY <1>2, <1>3 DEF Retry

(* io61_unlock: the assertion holds, and the counts drop together with the *)
(* set of holders; all waiters are awake afterwards.                       *)
LEMMA UnlockKeeps == ASSUME LockInv, NEW l \in Locks, Unlock(l) PROVE LockInv'
<1>1. l \in held /\ \A i \in Chunks(l) : i \in Indices /\ owner[i] = l.thread
  BY DEF Unlock, LockInv, Owners, InRange
<1>2. \A i \in Chunks(l) : nlocked[i] # 0 /\ owner[i] = l.thread
  BY <1>1, LockedIsHeld DEF LockInv
<1>3. /\ nlocked' = [i \in Indices |-> nlocked[i] - IF i \in Chunks(l) THEN 1 ELSE 0]
      /\ held' = held \ {l} /\ asleep' = {} /\ UNCHANGED <<owner, want, mode>>
  BY <1>2 DEF Unlock
<1>4. TypeOK'
  BY <1>2, <1>3 DEF LockInv, TypeOK
<1>5. CountsMatch'
  <2>. SUFFICES ASSUME NEW i \in Indices
                PROVE  nlocked'[i] = Cardinality(Holders(held \ {l}, i))
    BY <1>3 DEF CountsMatch, Holders, Chunks, Indices
  <2>1. nlocked[i] = Cardinality(Holders(held, i))
    BY DEF LockInv, CountsMatch, Holders
  <2>. QED  BY <1>1, <1>3, <2>1, HoldersRemove DEF LockInv
<1>6. NoAbort' /\ Owners' /\ Waiting' /\ NoLostWakeup'
      /\ \A t \in asleep' : want'[t] # Nobody
  BY <1>3 DEF LockInv, NoAbort, Owners, Waiting, NoLostWakeup, InRange, Chunks, Indices
<1>. QED  BY <1>4, <1>5, <1>6 DEF LockInv

LEMMA NextLocks == ASSUME LockInv, [Next]_vars PROVE LockInv'
<1>1. CASE UNCHANGED vars
  BY <1>1 DEF vars, LockInv, TypeOK, NoAbort, CountsMatch, Owners, Waiting, NoLostWakeup,
              InRange, Chunks, Indices
<1>2. ASSUME NEW l \in Locks, Wild(l) \/ TryLock(l) \/ Lock(l) \/ Unlock(l)
      PROVE  LockInv'
  BY <1>2, WildKeeps, TryLockKeeps, LockKeeps, UnlockKeeps
<1>3. ASSUME NEW t \in Threads, WakeUp(t) \/ Retry(t)
      PROVE  LockInv'
  BY <1>3, WakeUpKeeps, RetryKeeps
<1>. QED  BY <1>1, <1>2, <1>3 DEF Next

LEMMA AlwaysLockInv == Spec => []LockInv
BY InitLocks, NextLocks, PTL DEF Spec

(* No assertion of lock_region or io61_unlock fails, in any nesting and    *)
(* interleaving of calls (io61.cc:516, 590).                               *)
THEOREM LocksNeverAbort == Spec => []NoAbort
<1>1. LockInv => NoAbort
  BY DEF LockInv
<1>. QED  BY <1>1, AlwaysLockInv, PTL

(* nlocked[] counts the locks that are held (io61.cc:517, 591).            *)
THEOREM LocksCounted == Spec => []CountsMatch
<1>1. LockInv => CountsMatch
  BY DEF LockInv
<1>. QED  BY <1>1, AlwaysLockInv, PTL

(* A thread blocked in io61_lock waits for a chunk that another thread has *)
(* locked now, so no notification was missed (io61.cc:567-569, 595).       *)
THEOREM NoWakeupLost == Spec => []NoLostWakeup
<1>1. LockInv => NoLostWakeup
  BY DEF LockInv
<1>. QED  BY <1>1, AlwaysLockInv, PTL

-----------------------------------------------------------------------------
(* The locks implement RegionLocks: granting a lock is an Acquire,         *)
(* io61_unlock a Release, every other step leaves held as it is.           *)

LEMMA GrantAcquires ==
  ASSUME LockInv, NEW l \in Locks, InRange(l), l \notin held, ~IsOverlap(l), LockRegion(l)
  PROVE  Promise!Acquire(l)
<1>1. ASSUME NEW k \in held PROVE ~Promise!Conflict(l, k)
  <2>1. k \in Locks
    BY DEF LockInv, TypeOK
  <2>2. k.thread = l.thread \/ Chunks(k) \cap Chunks(l) = {}
    BY OverlapMeans
  <2>. QED  BY <2>1, <2>2, CommonChunk DEF Promise!Conflict
<1>. QED  BY <1>1 DEF Promise!Acquire, LockRegion

LEMMA StepsImplement == ASSUME LockInv, [Next]_vars PROVE [Promise!Next]_held
<1>1. CASE UNCHANGED vars
  BY <1>1 DEF vars
<1>2. ASSUME NEW l \in Locks, Wild(l) \/ TryLock(l) \/ Lock(l)
      PROVE  [Promise!Next]_held
  BY <1>2, GrantAcquires DEF Wild, Stop, TryLock, Lock, Ready, Promise!Next
<1>3. ASSUME NEW l \in Locks, Unlock(l)
      PROVE  [Promise!Next]_held
  BY <1>3 DEF Unlock, Stop, Promise!Next, Promise!Release
<1>4. ASSUME NEW t \in Threads, WakeUp(t) \/ Retry(t)
      PROVE  [Promise!Next]_held
  <2>1. CASE Retry(t) /\ held' # held
    <3>1. /\ want[t] \in Locks /\ InRange(want[t]) /\ want[t] \notin held
          /\ ~IsOverlap(want[t]) /\ LockRegion(want[t])
      BY <2>1 DEF Retry, LockInv, TypeOK, Waiting
    <3>. QED  BY <3>1, GrantAcquires DEF Promise!Next
  <2>. QED  BY <1>4, <2>1 DEF WakeUp
<1>. QED  BY <1>1, <1>2, <1>3, <1>4 DEF Next

(* Threads exclude each other on every byte, although chunks are locked    *)
(* (io61.cc:504-597), for every chunk size and file size.                  *)
THEOREM LocksExclude == Spec => LocksRegions
<1>1. Init => Promise!Init
  BY DEF Init, Promise!Init
<1>2. LockInv /\ [Next]_vars => [Promise!Next]_held
  BY StepsImplement
<1>. QED  BY <1>1, <1>2, AlwaysLockInv, PTL DEF Spec, LocksRegions, Promise!Spec

=============================================================================
