------------------------------ MODULE Transfers ------------------------------
(***************************************************************************)
(* The threads of ftxxfer, of ftxblockchain, which keeps a ledger, and of  *)
(* ftxrocket, where some threads move money to the exchange's own accounts *)
(* (pset6/ftx*.cc): each picks two accounts, locks them in index order,    *)
(* reads both balances, writes both and appends to the ledger.             *)
(* Under them are the region locks of FileLocks and the single-slot cache  *)
(* of io61 in positioned mode (pset6/io61.cc).  io61_pread, io61_pwrite    *)
(* and io61_write hold the mutex of their file throughout: one action.     *)
(*                                                                         *)
(* A balance is a number; a record never straddles two cache windows, so a *)
(* window is a set of accounts.  System calls do not fail.                 *)
(***************************************************************************)
EXTENDS Integers, FiniteSets, FiniteSetsExt, SequencesExt

CONSTANTS
  Threads, Nobody, NChunks, MinChunk,    (* as in FileLocks                *)
  NAccounts,     (* records in the account file                            *)
  ASize,         (* ftx_db::asize, 16 bytes                                *)
  PerWindow,     (* records in the cache, 8192 / ASize                     *)
  NOps,          (* transfers each thread makes                            *)
  Distinguished, (* the threads of ftxrocket that run sbf_transfer_thread  *)
  NOurs,         (* the exchange's own accounts, the first 3 in ftxrocket  *)
  Amounts, MaxBalance, Opening           (* as in Bank                     *)

Accounts == 0..(NAccounts - 1)

ASSUME TransfersAssumption ==
  /\ NAccounts \in Nat /\ NAccounts > 1
  /\ ASize \in Nat \ {0} /\ PerWindow \in Nat \ {0} /\ NOps \in Nat
  /\ MaxBalance \in Nat /\ Amounts \subseteq Nat
  /\ Distinguished \subseteq Threads /\ NOurs \in Nat
  /\ NChunks \in Nat \ {0} /\ MinChunk \in Nat \ {0} /\ IsFiniteSet(Threads)
  /\ Nobody \notin Threads \cup [thread : Threads, start : Nat, len : Nat \ {0}, tag : Nat]
  /\ Opening \in [Accounts -> 0..MaxBalance]

VARIABLES
  prog,      (* which program runs                                         *)
  nlocked, owner, held, want, asleep, mode,    (* as in FileLocks          *)
  file,      (* balances in the file                                       *)
  cbuf,      (* balances in the cache; its domain is the cached window     *)
  dirty,     (* io61_file::dirty                                           *)
  book,      (* balances as replaying the ledger gives them                *)
  pc,        (* what thread t does next                                    *)
  acct,      (* accounts t transfers from and to                           *)
  bal,       (* bal[t]: the balances t has read                            *)
  delta,     (* what t transfers                                           *)
  ops,       (* transfers t has made                                       *)
  closed     (* the database was closed                                    *)

lockVars  == <<nlocked, owner, held, want, asleep, mode>>
cacheVars == <<file, cbuf, dirty>>
vars == <<prog, lockVars, cacheVars, book, pc, acct, bal, delta, ops, closed>>

AcctLock(t, a) == [thread |-> t, start |-> ASize * a, len |-> ASize, tag |-> 0]

RegionLock == INSTANCE FileLocks WITH
  Size  <- ASize * NAccounts,
  Locks <- {AcctLock(t, a) : t \in Threads, a \in Accounts}

(* What a thread does for one transfer.  The guards unlock in the reverse  *)
(* order.  Mutant: the ledger is written after the locks are released.     *)
Transfer == <<"pick", "lock1", "lock2", "read1", "read2", "write1", "write2">>
KeepsLedger == IF prog = "ftxblockchain" THEN <<"ledger">> ELSE << >>

StepsLedgerLast == Transfer \o <<"unlock2", "unlock1">> \o KeepsLedger

Steps == Transfer \o KeepsLedger \o <<"unlock2", "unlock1">>

TypeOK ==
  /\ prog \in {"ftxxfer", "ftxblockchain", "ftxrocket"}
  /\ RegionLock!TypeOK
  /\ file \in [Accounts -> 0..MaxBalance]
  /\ \E a \in Accounts : cbuf \in [{b \in Accounts : b \div PerWindow = a \div PerWindow}
                                   -> 0..MaxBalance]
  /\ dirty \in BOOLEAN
  /\ book \in [Accounts -> Int]
  /\ pc \in [Threads -> ToSet(Steps)]
  /\ acct \in [Threads -> Accounts \X Accounts]
  /\ bal \in [Threads -> (0..MaxBalance) \X (0..MaxBalance)]
  /\ delta \in [Threads -> 0..MaxBalance]
  /\ ops \in [Threads -> 0..NOps]
  /\ closed \in BOOLEAN

-----------------------------------------------------------------------------
(* io61_pread and io61_pwrite.                                             *)

Window(a) == {b \in Accounts : b \div PerWindow = a \div PerWindow}

(* The file once io61_flush has written the cache back.  Mutant: what was  *)
(* written to the cache is dropped.                                        *)
FlushedNever == file

Flushed ==
  IF dirty THEN [a \in Accounts |-> IF a \in DOMAIN cbuf THEN cbuf[a] ELSE file[a]]
  ELSE file

(* io61_pfill, entered when the cache does not hold the record.            *)
Filled(a) == IF a \in DOMAIN cbuf THEN cbuf ELSE [b \in Window(a) |-> Flushed[b]]

Evict(a) == file' = IF a \in DOMAIN cbuf THEN file ELSE Flushed

Pread(a) ==
  /\ Evict(a)
  /\ cbuf' = Filled(a)
  /\ dirty' = (dirty /\ a \in DOMAIN cbuf)

Pwrite(a, v) ==
  /\ Evict(a)
  /\ cbuf' = [Filled(a) EXCEPT ![a] = v]
  /\ dirty' = TRUE

-----------------------------------------------------------------------------
(* ftx_db's constructor has read account 0. *)
Init ==
  /\ prog \in {"ftxxfer", "ftxblockchain", "ftxrocket"}
  /\ RegionLock!Init
  /\ file = Opening
  /\ cbuf = [a \in Window(0) |-> Opening[a]]
  /\ dirty = FALSE
  /\ book = Opening
  /\ pc = [t \in Threads |-> "pick"]
  /\ acct = [t \in Threads |-> <<0, 0>>]
  /\ bal = [t \in Threads |-> <<0, 0>>]
  /\ delta = [t \in Threads |-> 0]
  /\ ops = [t \in Threads |-> 0]
  /\ closed = FALSE

Goes(t, s) == pc[t] = s

Goto(t) ==
  LET i == CHOOSE i \in DOMAIN Steps : Steps[i] = pc[t]
  IN  pc' = [pc EXCEPT ![t] = Steps[(i % Len(Steps)) + 1]]

(* Equal picks are picked again: transfer_thread's are any two accounts,   *)
(* sbf_transfer_thread's two of the exchange, or a customer and one of it. *)
Picks(t) ==
  {pair \in Accounts \X Accounts :
     /\ pair[1] # pair[2]
     /\ prog = "ftxrocket" /\ t \in Distinguished => pair[2] < NOurs}

(* Local variables start anew.                                             *)
Pick(t) ==
  /\ Goes(t, "pick") /\ ops[t] # NOps
  /\ \E pair \in Picks(t) : acct' = [acct EXCEPT ![t] = pair]
  /\ bal' = [bal EXCEPT ![t] = <<0, 0>>] /\ delta' = [delta EXCEPT ![t] = 0]
  /\ Goto(t)
  /\ UNCHANGED <<prog, lockVars, cacheVars, book, ops, closed>>

(* The accounts in locking order.  Mutant: in the order they were picked.  *)
OrderPicked(t) == acct[t]

Order(t) == IF acct[t][1] < acct[t][2] THEN acct[t] ELSE <<acct[t][2], acct[t][1]>>

Acquire(t, i) ==
  /\ Goes(t, <<"lock1", "lock2">>[i])
  /\ RegionLock!Lock(AcctLock(t, Order(t)[i])) \/ RegionLock!Retry(t)
  /\ IF want'[t] = Nobody THEN Goto(t) ELSE UNCHANGED pc
  /\ UNCHANGED <<prog, cacheVars, book, acct, bal, delta, ops, closed>>

(* ftx_acct::read *)
Read(t, i) ==
  LET a == acct[t][i] IN
  /\ Goes(t, <<"read1", "read2">>[i])
  /\ Pread(a)
  /\ bal' = [bal EXCEPT ![t][i] = Filled(a)[a]]
  /\ Goto(t)
  /\ UNCHANGED <<prog, lockVars, book, acct, delta, ops, closed>>

Promise == INSTANCE Bank WITH
  balance <- [a \in Accounts |->
    (IF a \in DOMAIN cbuf THEN cbuf[a] ELSE file[a])
    + MapThenSumSet(LAMBDA t : delta[t],
                    {t \in Threads : pc[t] = "write2" /\ acct[t][2] = a})]

(* The amount is computed from the balances that were read. *)
Withdraw(t) ==
  /\ Goes(t, "write1")
  /\ \E m \in Amounts :
       LET d == Promise!Delta(bal[t][1], bal[t][2], m) IN
       /\ delta' = [delta EXCEPT ![t] = d]
       /\ Pwrite(acct[t][1], bal[t][1] - d)
  /\ Goto(t)
  /\ UNCHANGED <<prog, lockVars, book, acct, bal, ops, closed>>

Deposit(t) ==
  /\ Goes(t, "write2")
  /\ Pwrite(acct[t][2], bal[t][2] + delta[t])
  /\ Goto(t)
  /\ UNCHANGED <<prog, lockVars, book, acct, bal, delta, ops, closed>>

(* One io61_write of two lines. *)
Ledger(t) ==
  /\ Goes(t, "ledger")
  /\ book' = [book EXCEPT ![acct[t][1]] = @ - delta[t], ![acct[t][2]] = @ + delta[t]]
  /\ Goto(t)
  /\ UNCHANGED <<prog, lockVars, cacheVars, acct, bal, delta, ops, closed>>

Release(t, i) ==
  /\ Goes(t, <<"unlock1", "unlock2">>[i])
  /\ RegionLock!Unlock(AcctLock(t, Order(t)[i]))
  /\ ops' = IF i = 1 THEN [ops EXCEPT ![t] = @ + 1] ELSE ops
  /\ Goto(t)
  /\ UNCHANGED <<prog, cacheVars, book, acct, bal, delta, closed>>

(* main: all threads have been joined; ~ftx_db closes the file.  Mutant:   *)
(* it does not flush.                                                      *)
Joined == ~closed /\ \A t \in Threads : pc[t] = "pick" /\ ops[t] = NOps

CloseUnflushed ==
  /\ Joined
  /\ closed' = TRUE
  /\ UNCHANGED <<prog, lockVars, cacheVars, book, pc, acct, bal, delta, ops>>

Close ==
  /\ Joined
  /\ file' = Flushed
  /\ dirty' = FALSE
  /\ closed' = TRUE
  /\ UNCHANGED <<prog, lockVars, cbuf, book, pc, acct, bal, delta, ops>>

Step(t) ==
  \/ Pick(t) \/ Withdraw(t) \/ Deposit(t) \/ Ledger(t)
  \/ \E i \in {1, 2} : Acquire(t, i) \/ Read(t, i) \/ Release(t, i)

(* cv.wait may return without a notification. *)
Wake(t) ==
  /\ RegionLock!WakeUp(t)
  /\ UNCHANGED <<prog, cacheVars, book, pc, acct, bal, delta, ops, closed>>

Next == Close \/ \E t \in Threads : Step(t) \/ Wake(t)

Spec == Init /\ [][Next]_vars

(* Every thread keeps running, and main once they are joined. *)
FairSpec == Spec /\ WF_vars(Close) /\ \A t \in Threads : WF_vars(Step(t))

-----------------------------------------------------------------------------
(* Whatever the interleaving, the balances change as if the transfers took *)
(* place one after the other: no update is lost between read and write, in *)
(* the cache or when a window is evicted (ftxblockchain.cc:29-52).         *)
Serializable == Promise!Spec

(* diff-ftxdb.pl:102 "Ledger takes balance below 0": at no point does the  *)
(* ledger show an account overdrawn, because entries for an account are    *)
(* written in the order of its transfers (ftxblockchain.cc:54-61).         *)
LedgerCovered == \A a \in Accounts : book[a] >= 0

(* diff-ftxdb.pl:128-165: in the end the file on disk holds the money that *)
(* was there in the beginning, and the balances the ledger leads to.       *)
Reconciles ==
  closed => /\ prog = "ftxblockchain" => book = file
            /\ MapThenSumSet(LAMBDA a : file[a], Accounts)
                 = MapThenSumSet(LAMBDA a : Opening[a], Accounts)

(* Locking in index order (ftxblockchain.cc:29-33): no deadlock, even when *)
(* accounts share chunks; every thread finishes and the file is closed.    *)
Finishes == <>closed

=============================================================================
