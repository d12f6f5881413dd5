------------------------------- MODULE Copy61 -------------------------------
(***************************************************************************)
(* The programs of pset4 that copy one file to another, each a loop of     *)
(* calls to io61.cc on a file that is read and one that is written.  The   *)
(* files are two instances of BufferedFile that share errno.  Where a      *)
(* program uses stdio on one side, that side, which is outside the         *)
(* repository, is taken to be a buffered file as well.                     *)
(***************************************************************************)
EXTENDS Integers, Sequences, FiniteSets, SequencesExt, FiniteSetsExt

CONSTANTS
  CbufSize, ReadFaults, WriteFaults, MaxSize,      (* see BufferedFile     *)
  Runs        (* what is run: prog, one of the programs below; in and out, *)
              (* kinds of files; size, block, stride, at and flush: the    *)
              (* arguments -s, -b, -t, -p and -F, size being -1 if missing *)

VARIABLES
  inOs, inF, inCall, inRet, inCrash,
  outOs, outF, outCall, outRet, outCrash,
  errno,
  run,        (* the member of Runs                                        *)
  st          (* the program: pc, its stage; sent, whether the stage's     *)
              (* call has been made; left (file_size), pos, written, block,*)
              (* buf; todo, the blocks left to reordercat61; and how it    *)
              (* has exited, "none", "failed" or "assert"                  *)

In == INSTANCE BufferedFile WITH
  os <- inOs, f <- inF, call <- inCall, ret <- inRet, crash <- inCrash,
  Kinds <- {}, Wants <- {}, Texts <- {}, Offsets <- {}, Retries <- TRUE

Out == INSTANCE BufferedFile WITH
  os <- outOs, f <- outF, call <- outCall, ret <- outRet, crash <- outCrash,
  Kinds <- {}, Wants <- {}, Texts <- {}, Offsets <- {}, Retries <- TRUE

inVars == <<inOs, inF, inCall, inRet, inCrash>>
outVars == <<outOs, outF, outCall, outRet, outCrash>>
vars == <<inVars, outVars, errno, run, st>>

-----------------------------------------------------------------------------
(* A program: what it does first and what it repeats, by characters, by    *)
(* blocks or by blocks of random sizes; how it picks its positions; and    *)
(* whether it retries.                                                     *)
Copying(unit, setup, loop, order) ==
  [unit |-> unit, setup |-> setup, loop |-> loop, order |-> order, careful |-> FALSE]

Careful(p) == [p EXCEPT !.careful = TRUE]

(* Mutant: without after_write.                                            *)
NeverFlushed == <<"read", "write">>

Sequential == <<"read", "write", "flush">>

cat61 == Copying("char", << >>, Sequential, "next")
read61 == Copying("char", << >>, Sequential, "next")
write61 == Copying("char", << >>, Sequential, "next")
writeat61 == Copying("char", <<"seekout">>, Sequential, "next")
blockcat61 == Copying("block", << >>, Sequential, "next")
blockread61 == Copying("block", << >>, Sequential, "next")
blockwrite61 == Copying("block", << >>, Sequential, "next")
blockwriteat61 == Copying("block", <<"seekout">>, Sequential, "next")
randblockcat61 == Copying("random", << >>, Sequential, "next")
carefulcat61 ==
  Careful(Copying("char", << >>, <<"clear", "read", "clear", "write", "flush">>, "next"))
carefulblockcat61 == Careful(Copying("block", << >>, Sequential, "next"))

reverse61 ==
  Copying("char", <<"size", "zeroin">>, <<"seekin", "read", "write", "flush">>, "down")
wreverse61 ==
  Copying("char", <<"size", "zeroout">>, <<"read", "seekout", "write", "flush">>, "down")
reordercat61 ==
  Copying("block", <<"size", "zeroin", "zeroout", "blocks">>,
          <<"seekin", "read", "seekout", "write", "flush">>, "shuffled")
stridecat61 ==
  Copying("block", <<"size", "zeroin">>, <<"seekin", "read", "write", "flush">>, "stride")
wstridecat61 ==
  Copying("block", <<"zeroout", "size">>, <<"read", "write", "seekout", "flush">>, "stride")

Programs ==
  {cat61, read61, write61, writeat61, blockcat61, blockread61, blockwrite61, blockwriteat61,
   randblockcat61, carefulcat61, carefulblockcat61, reverse61, wreverse61, reordercat61,
   stridecat61, wstridecat61}

(* What a program is run on: files that are opened for reading and for     *)
(* writing, whether the first is a regular one, and options that it has.   *)
(* A block that is longer than the stride, where block_size wraps around,  *)
(* is not modelled.                                                        *)
ASSUME Copy61Assumption ==
  /\ CbufSize \in Nat \ {0} /\ MaxSize \in Nat
  /\ ReadFaults \cup WriteFaults \subseteq {"intr", "again", "other"}
  /\ \A r \in Runs :
       /\ r.prog \in Programs /\ r.flush \in BOOLEAN
       /\ r.in \in [mode : {"r"}, seekable : BOOLEAN, mappable : BOOLEAN, data : Seq(Nat), at : Nat]
       /\ r.out \in [mode : {"w"}, seekable : BOOLEAN, mappable : {FALSE}, data : Seq(Nat), at : Nat]
       /\ r.in.mappable => r.in.seekable /\ r.in.at <= Len(r.in.data)
       /\ r.regular \in BOOLEAN /\ (r.regular => r.in.seekable) /\ (r.in.mappable => r.regular)
       /\ r.size \in Nat \cup {-1} /\ r.at \in Nat /\ r.block \in Nat \ {0} /\ r.stride \in Nat \ {0}
       /\ r.prog.order = "next" /\ r.prog.unit # "char" => r.size = -1
       /\ r.prog.order = "stride" => (r.at % r.stride) + r.block <= r.stride
       /\ r.prog = wstridecat61 => r.at = 0

Stages == run.prog.setup \o <<"top">> \o run.prog.loop \o <<"closein", "closeout", "done">>
Top == Len(run.prog.setup) + 1
Closing == Top + Len(run.prog.loop) + 1
Stage == Stages[st.pc]

Init ==
  /\ errno = "none" /\ run \in Runs
  /\ In!Opened(run.in) /\ Out!Opened(run.out)
  /\ st = [pc |-> 1, sent |-> FALSE, left |-> run.size, pos |-> run.at, written |-> 0,
           block |-> run.block, buf |-> << >>, todo |-> {}, exit |-> "none"]

-----------------------------------------------------------------------------
Running == st.exit = "none" /\ Stage # "done"

(* The state after the stage at hand has ended. *)
Onward(s) ==
  [s EXCEPT !.sent = FALSE, !.pc = IF s.pc = Closing - 1 THEN Top ELSE @ + 1]

Leave(s) == [s EXCEPT !.sent = FALSE, !.pc = Closing]

Sent == st' = [st EXCEPT !.sent = TRUE]

(* The program exits with a message, or at an assert. *)
Exit(s, how) == [s EXCEPT !.exit = how]

Quiet == UNCHANGED <<inVars, outVars, errno, run>>

(* io61_filesize knows the size of regular files only. *)
Size ==
  /\ Running /\ Stage = "size" /\ Quiet
  /\ st' = IF st.left >= 0 THEN Onward(st)
           ELSE IF ~run.regular THEN Exit(st, "failed")
           ELSE Onward([st EXCEPT !.left = Len(run.in.data)])

Blocks ==
  /\ Running /\ Stage = "blocks" /\ Quiet
  /\ st' = IF st.left % st.block # 0 THEN Exit(st, "failed")
           ELSE Onward([st EXCEPT !.todo = 0..(st.left \div st.block - 1)])

(* The head of the loop. *)
Looping ==
  /\ Running /\ Stage = "top" /\ Quiet
  /\ \/ run.prog.order = "next" /\ st' = IF st.left = 0 THEN Leave(st) ELSE Onward(st)
     \/ /\ run.prog.order = "down"
        /\ st' = IF st.left = 0 THEN Leave(st)
                 ELSE Onward([st EXCEPT !.left = @ - 1, !.pos = st.left - 1])
     \/ /\ run.prog.order = "stride"
        /\ st' = IF st.written >= st.left THEN Leave(st) ELSE Onward(st)
     \/ /\ run.prog.order = "shuffled"
        /\ IF st.todo = {} THEN st' = Leave(st)
           ELSE \E b \in st.todo :
                  st' = Onward([st EXCEPT !.todo = @ \ {b}, !.pos = b * st.block])

ClearErrno ==
  /\ Running /\ Stage = "clear" /\ errno' = "none" /\ st' = Onward(st)
  /\ UNCHANGED <<inVars, outVars, run>>

(* Calls. *)
SendIn ==
  /\ Running /\ ~st.sent /\ Sent /\ UNCHANGED <<outVars, run>>
  /\ \/ Stage = "zeroin" /\ In!StartSeek(0)
     \/ Stage = "seekin" /\ In!StartSeek(st.pos)
     \/ Stage = "read" /\ In!StartRead("readc", 1) /\ run.prog.unit = "char"
     \/ Stage = "read" /\ In!StartRead("read", st.block) /\ run.prog.unit = "block"
     \/ /\ Stage = "read" /\ run.prog.unit = "random"
        /\ \E n \in 1..st.block : In!StartRead("read", n)
     \/ Stage = "closein" /\ In!StartFlush("close")

SendOut ==
  /\ Running /\ ~st.sent /\ Sent /\ UNCHANGED <<inVars, run>>
  /\ \/ Stage = "zeroout" /\ Out!StartSeek(0)
     \/ Stage = "seekout" /\ Out!StartSeek(st.pos)
     \/ /\ Stage = "write"
        /\ Out!StartWrite(IF run.prog.unit = "char" THEN "writec" ELSE "write", st.buf)
     \/ Stage = "flush" /\ run.flush /\ Out!StartFlush("flush")
     \/ Stage = "closeout" /\ Out!StartFlush("close")

(* Results.  A careful program calls again after a recoverable error, and  *)
(* carefulcat61 clears errno again before it does.                         *)
Recoverable == run.prog.careful /\ errno \in {"intr", "again"}

Retry ==
  [st EXCEPT !.sent = FALSE, !.pc = IF Stages[Max({1, @ - 1})] = "clear" THEN @ - 1 ELSE @]

InReturns ==
  /\ Running /\ st.sent /\ inCall.op \in {"idle", "closed"} /\ Quiet
  /\ \/ /\ Stage \in {"zeroin", "seekin"}
        /\ st' = IF inRet = 0 THEN Onward(st)
                 ELSE Exit(st, IF Stage = "zeroin" THEN "failed" ELSE "assert")
     \/ /\ Stage = "read"
        /\ st' = IF inRet = -1 /\ Recoverable THEN Retry
                 ELSE IF inRet > 0 THEN Onward([st EXCEPT !.buf = inCall.got])
                 ELSE IF run.prog.order = "down" THEN Exit(st, "assert")
                 ELSE Leave(st)
     \/ Stage = "closein" /\ st' = Onward(st)

(* stridecat61 and wstridecat61 go to the next stride, or back to the      *)
(* first one and behind the blocks that are done.                          *)
(* Mutant: the last column is as wide as the others.                       *)
StrideWide(s) ==
  LET p == s.pos + run.stride IN
  IF p < s.left THEN [s EXCEPT !.pos = p]
  ELSE [s EXCEPT !.pos = (p % run.stride) + s.block]

Stride(s) ==
  LET p == s.pos + run.stride
      q == (p % run.stride) + s.block
  IN  IF p < s.left THEN [s EXCEPT !.pos = p]
      ELSE [s EXCEPT !.pos = q, !.block = Min({@, run.stride - q})]

Wrote(s) ==
  CASE run.prog.order = "stride" -> Stride([s EXCEPT !.written = @ + outRet])
    [] run.prog.order = "next" -> [s EXCEPT !.left = IF run.prog.unit = "char" THEN @ - 1 ELSE @]
    [] run.prog.order \in {"down", "shuffled"} -> s

WriteReturned ==
  LET all == outRet = Len(st.buf) IN
  IF outRet = -1 /\ Recoverable THEN Retry
  ELSE IF all THEN Onward(Wrote(st))
  ELSE IF run.prog.careful /\ outRet > 0
  THEN [st EXCEPT !.sent = FALSE, !.buf = SubSeq(@, outRet + 1, Len(@))]
  ELSE Exit(st, "assert")

OutReturns ==
  /\ Running /\ st.sent /\ outCall.op \in {"idle", "closed"} /\ Quiet
  /\ \/ /\ Stage \in {"zeroout", "seekout", "flush"}
        /\ st' = IF outRet = 0 THEN Onward(st)
                 ELSE Exit(st, IF Stage = "zeroout" THEN "failed" ELSE "assert")
     \/ Stage = "write" /\ st' = WriteReturned
     \/ Stage = "closeout" /\ st' = Onward(st)

NoFlush == Running /\ Stage = "flush" /\ ~run.flush /\ st' = Onward(st) /\ Quiet

Step ==
  \/ Size \/ Blocks \/ Looping \/ ClearErrno \/ NoFlush
  \/ SendIn \/ SendOut \/ InReturns \/ OutReturns
  \/ In!Step /\ UNCHANGED <<outVars, run, st>>
  \/ Out!Step /\ UNCHANGED <<inVars, run, st>>

Fault ==
  \/ In!Fault /\ UNCHANGED <<outVars, run, st>>
  \/ Out!Fault /\ UNCHANGED <<inVars, run, st>>

Next == Step \/ Fault

(* The system interrupts or puts off calls finitely often.                 *)
Fairness == WF_vars(Step) /\ <>[][~Fault]_vars

Spec == Init /\ [][Next]_vars /\ Fairness

-----------------------------------------------------------------------------
(* What is to be copied. *)
Input ==
  LET from == IF run.in.seekable /\ "zeroin" \notin Range(run.prog.setup) THEN run.in.at ELSE 0
      all  == SubSeq(run.in.data, from + 1, Len(run.in.data))
  IN  IF run.size \in 0..Len(all) THEN SubSeq(all, 1, run.size) ELSE all

(* By columns of blocks, as stridecat61 takes the offsets of r below n: the *)
(* column of an offset, the offsets before it, and how many those are.     *)
Column(r, i) == (i % r.stride) \div r.block

Before(r, i, n) ==
  {j \in 0..(n - 1) : \/ Column(r, j) < Column(r, i)
                      \/ Column(r, j) = Column(r, i) /\ j < i}

Rank(r, i, n) == Cardinality(Before(r, i, n))

Transformed ==
  CASE run.prog.order \in {"next", "shuffled"} -> Input
    [] run.prog.order = "down" -> Reverse(Input)
    [] run.prog = stridecat61 ->
         LET n == Len(Input) IN
         [k \in 1..n |-> Input[(CHOOSE i \in 0..(n - 1) : Rank(run, i, n) = k - 1) + 1]]
    [] run.prog = wstridecat61 ->
         LET n == Len(Input) IN [i \in 1..n |-> Input[Rank(run, i - 1, n) + 1]]

Start ==
  IF ~run.out.seekable THEN 0
  ELSE IF run.prog.setup = <<"seekout">> THEN run.at
  ELSE IF "zeroout" \in Range(run.prog.setup) THEN 0
  ELSE run.out.at

Written(bytes) == Out!Overwritten(run.out.data, Start, bytes)

(* A program that ends normally has put every byte where it belongs (cat61.cc *)
(* :4, reverse61.cc:4-5, reordercat61.cc:5-7, stridecat61.cc:5-9 and the   *)
(* others), whatever sizes and errors the system calls return.             *)
CopiesInput == Stage = "done" /\ st.exit = "none" => outOs.data = Written(Transformed)

(* No program stops at an assert, and no call copies from behind a mapping *)
(* (reverse61.cc:34, io61.cc:54-56, 205).                                  *)
NoAssertFails ==
  st.exit # "assert" /\ inCrash = "none" /\ outCrash = "none"

(* With -F, every byte that was read is in the file when the next one is   *)
(* asked for (helpers.cc:300-308).                                         *)
FlushedInStep ==
  run.flush /\ run.prog.order = "next" /\ Stage = "top" =>
    outOs.data = Written(SubSeq(Input, 1, outF.pos - Start))

(* Every program ends (carefulcat61.cc:6-7, and each main).                *)
Ends == <>(Stage = "done" \/ st.exit # "none")

=============================================================================
