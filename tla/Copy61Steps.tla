---------------------------- MODULE Copy61Steps -----------------------------
(***************************************************************************)
(* Lemmas about the copying programs of Copy61, for every size of the      *)
(* cache, every input and output file, and every set of arguments: what    *)
(* each program does at each of its stages, which calls its two files are  *)
(* in meanwhile, and what a step of a program, of a file or of the system  *)
(* leaves as it is (StepCalls).  Copy61Proofs has the theorems.            *)
(***************************************************************************)
EXTENDS Copy61, SequenceTheorems, FiniteSetTheorems, TLAPS

InP == INSTANCE BufferedFileProofs WITH
  os <- inOs, f <- inF, call <- inCall, ret <- inRet, crash <- inCrash,
  Kinds <- {}, Wants <- {}, Texts <- {}, Offsets <- {}, Retries <- TRUE

OutP == INSTANCE BufferedFileProofs WITH
  os <- outOs, f <- outF, call <- outCall, ret <- outRet, crash <- outCrash,
  Kinds <- {}, Wants <- {}, Texts <- {}, Offsets <- {}, Retries <- TRUE

(* No system call fails for good.                                          *)
Recovers == "other" \notin ReadFaults /\ WriteFaults \subseteq {"intr"}

-----------------------------------------------------------------------------
(* Programs, stage by stage.                                               *)

Names == {"size", "zeroin", "zeroout", "blocks", "top", "clear", "seekin", "read", "seekout", "write",
          "flush", "closein", "closeout", "done"}

StageAt(p) == Stages[p]

PlaceAt(p) ==
  IF p < Top THEN "setup"
  ELSE IF p = Top THEN "top"
  ELSE IF p >= Closing THEN "closing"
  ELSE IF StageAt(p) \in {"seekin", "read"} \/ StageAt(p + 1) = "read" THEN "fetching"
  ELSE IF StageAt(p) = "write" \/ StageAt(p + 1) = "write" THEN "holding"
  ELSE "written"

Place == PlaceAt(st.pc)

(* The stage after that at p.                                              *)
Following(p) == IF p = Closing - 1 THEN Top ELSE p + 1

(* The stages are four sequences one after the other.                      *)
Joined(s, t, u, v) ==
  s \in Seq(Names) /\ t \in Seq(Names) /\ u \in Seq(Names) /\ v \in Seq(Names)
  /\ Stages = s \o t \o u \o v

(* And are found one after the other.                                      *)
LEMMA FourJoined ==
  ASSUME NEW s, NEW t, NEW u, NEW v, Joined(s, t, u, v)
  PROVE  /\ Len(Stages) = Len(s) + Len(t) + Len(u) + Len(v)
         /\ \A p \in 1..Len(s) : Stages[p] = s[p]
         /\ \A p \in 1..Len(t) : Stages[Len(s) + p] = t[p]
         /\ \A p \in 1..Len(u) : Stages[Len(s) + Len(t) + p] = u[p]
         /\ \A p \in 1..Len(v) : Stages[Len(s) + Len(t) + Len(u) + p] = v[p]
BY DEF Joined

(* The stages of a program, from what it does first and what it repeats.   *)
LEMMA StagesAre ==
  ASSUME NEW s \in Seq(Names), NEW u \in Seq(Names), run.prog.setup = s, run.prog.loop = u
  PROVE  /\ Top = Len(s) + 1 /\ Closing = Top + Len(u) + 1
         /\ Len(Stages) = Closing + 2
         /\ \A p \in 1..Len(s) : StageAt(p) = s[p]
         /\ StageAt(Top) = "top"
         /\ \A p \in 1..Len(u) : StageAt(Top + p) = u[p]
         /\ StageAt(Closing) = "closein" /\ StageAt(Closing + 1) = "closeout"
         /\ StageAt(Closing + 2) = "done"
<1>. DEFINE t == <<"top">>
            v == <<"closein", "closeout", "done">>
<1>0. Len(t) = 1 /\ Len(v) = 3
  OBVIOUS
<1>1. t \in Seq(Names)
  BY DEF Names
<1>2. v \in Seq(Names)
  BY DEF Names
<1>3. v[1] = "closein" /\ v[2] = "closeout" /\ v[3] = "done" /\ t[1] = "top"
  OBVIOUS
<1>4. Joined(s, t, u, v)
  BY <1>1, <1>2 DEF Stages, Joined
<1>. HIDE DEF t, v
<1>5. /\ Len(Stages) = Len(s) + Len(t) + Len(u) + Len(v)
      /\ \A p \in 1..Len(s) : Stages[p] = s[p]
      /\ \A p \in 1..Len(t) : Stages[Len(s) + p] = t[p]
      /\ \A p \in 1..Len(u) : Stages[Len(s) + Len(t) + p] = u[p]
      /\ \A p \in 1..Len(v) : Stages[Len(s) + Len(t) + Len(u) + p] = v[p]
  BY <1>4, FourJoined
<1>6. Top = Len(s) + 1 /\ Closing = Len(s) + 1 + Len(u) + 1 /\ Len(s) \in Nat /\ Len(u) \in Nat
  BY DEF Top, Closing
<1>7. StageAt(Top) = "top"
  BY <1>0, <1>1, <1>3, <1>5, <1>6 DEF StageAt
<1>8. /\ StageAt(Closing) = "closein" /\ StageAt(Closing + 1) = "closeout"
      /\ StageAt(Closing + 2) = "done"
  BY <1>0, <1>1, <1>2, <1>3, <1>5, <1>6 DEF StageAt
<1>9. \A p \in 1..Len(u) : StageAt(Top + p) = u[p]
  BY <1>0, <1>5, <1>6 DEF StageAt
<1>. QED BY <1>0, <1>5, <1>6, <1>7, <1>8, <1>9 DEF StageAt

(* The programs that copy from the beginning to the end.                   *)
Plainly == {cat61, read61, write61, blockcat61, blockread61, blockwrite61, randblockcat61,
            carefulblockcat61}
PlainlyAt == {writeat61, blockwriteat61}
Backwards == {reverse61, stridecat61}

(* Which programs there are, and how they take what they copy.             *)
LEMMA OrdersAre ==
  ASSUME NEW p
  PROVE  /\ p \in Plainly \cup PlainlyAt \cup {carefulcat61} => p.order = "next"
         /\ p \in {reverse61, wreverse61} => p.order = "down"
         /\ p = reordercat61 => p.order = "shuffled"
         /\ p \in {stridecat61, wstridecat61} => p.order = "stride"
BY DEF Plainly, PlainlyAt, cat61, read61, write61, blockcat61, blockread61, blockwrite61,
       randblockcat61, carefulblockcat61, writeat61, blockwriteat61, carefulcat61, reverse61,
       wreverse61, reordercat61, stridecat61, wstridecat61, Careful, Copying

(* Programs that do not do the same are not the same.                      *)
LEMMA ProgramsDiffer ==
  /\ reverse61 # wreverse61 /\ stridecat61 # wstridecat61
  /\ \A p \in Plainly : p \notin PlainlyAt /\ p # carefulcat61
  /\ carefulcat61 \notin PlainlyAt
<1>1. reverse61.setup = <<"size", "zeroin">> /\ stridecat61.setup = <<"size", "zeroin">>
  BY DEF reverse61, stridecat61, Copying
<1>2. wreverse61.setup = <<"size", "zeroout">> /\ wstridecat61.setup = <<"zeroout", "size">>
  BY DEF wreverse61, wstridecat61, Copying
<1>3. \A p \in Plainly : p.setup = << >> /\ p.loop = <<"read", "write", "flush">>
  BY DEF Plainly, cat61, read61, write61, blockcat61, blockread61, blockwrite61, randblockcat61,
         carefulblockcat61, Careful, Copying, Sequential
<1>4. \A p \in PlainlyAt : p.setup = <<"seekout">>
  BY DEF PlainlyAt, writeat61, blockwriteat61, Copying
<1>5. carefulcat61.setup = << >> /\ carefulcat61.loop = <<"clear", "read", "clear", "write", "flush">>
  BY DEF carefulcat61, Careful, Copying
<1>6. /\ <<"size", "zeroin">> # <<"size", "zeroout">> /\ <<"size", "zeroin">> # <<"zeroout", "size">>
      /\ << >> # <<"seekout">>
      /\ <<"read", "write", "flush">> # <<"clear", "read", "clear", "write", "flush">>
  OBVIOUS
<1>. QED BY <1>1, <1>2, <1>3, <1>4, <1>5, <1>6

(* What is known of a stage x at the place a of the program.               *)
Sits(x, a) ==
  /\ x \in Names
  /\ a \in {"setup", "top", "fetching", "holding", "written", "closing"}
  /\ a = "setup" => x \in {"size", "zeroin", "zeroout", "blocks", "seekout"}
  /\ a = "top" <=> x = "top"
  /\ a = "fetching" => x \in {"clear", "seekin", "read"}
  /\ a = "holding" => x \in {"clear", "seekout", "write"}
  /\ a = "written" => x \in {"seekout", "flush"}
  /\ a = "closing" <=> x \in {"closein", "closeout", "done"}
  /\ x \in {"size", "zeroin", "zeroout", "blocks"} => a = "setup"
  /\ x \in {"seekin", "read"} => a = "fetching"
  /\ x = "clear" => a \in {"fetching", "holding"} /\ run.prog = carefulcat61
  /\ x = "seekout" => a \in {"setup", "holding", "written"}
  /\ x = "write" => a = "holding"
  /\ x = "flush" => a = "written"
  /\ x = "blocks" => run.prog = reordercat61
  /\ x = "seekout" => (a = "setup" <=> run.prog \in PlainlyAt)
  /\ run.prog.order = "next" => x \notin {"size", "zeroin", "zeroout", "blocks", "seekin"}
  /\ run.prog.order = "next" /\ x = "seekout" => run.prog \in PlainlyAt
  /\ run.prog \in Backwards => x \notin {"zeroout", "seekout"}
  /\ run.prog \in {wreverse61, wstridecat61} => x \notin {"zeroin", "seekin"}

(* And of the stage y at the place b that follows.                         *)
Follows(x, a, y, b) ==
  /\ x = "size" => y = IF run.prog \in Backwards \cup {reordercat61} THEN "zeroin"
                       ELSE IF run.prog = wreverse61 THEN "zeroout" ELSE "top"
  /\ x = "zeroin" => y = IF run.prog = reordercat61 THEN "zeroout" ELSE "top"
  /\ x = "zeroout" => y = IF run.prog = reordercat61 THEN "blocks"
                          ELSE IF run.prog = wreverse61 THEN "top" ELSE "size"
  /\ x = "blocks" => y = "top"
  /\ x = "top" => b = "fetching" /\ (run.prog \in Backwards \cup {reordercat61} => y = "seekin")
  /\ x = "clear" => b = a /\ y = (IF a = "fetching" THEN "read" ELSE "write")
  /\ x = "seekin" => y = "read"
  /\ x = "read" => b = "holding" /\ (run.prog \in {wreverse61, reordercat61} => y = "seekout")
  /\ x = "seekout" /\ a = "setup" => y = "top"
  /\ x = "seekout" /\ a = "holding" => y = "write"
  /\ x = "seekout" /\ a = "written" => y = "flush"
  /\ x = "write" => b = "written" /\ y = IF run.prog = wstridecat61 THEN "seekout" ELSE "flush"
  /\ x = "flush" => y = "top"
  /\ x = "closein" => y = "closeout"
  /\ x = "closeout" => y = "done"

(* And of the first one.                                                   *)
Begins(x, a) ==
  /\ a \in {"setup", "top"} /\ (run.prog \in PlainlyAt => a = "setup")
  /\ run.prog \in Backwards \cup {wreverse61, reordercat61} => x = "size"
  /\ run.prog = wstridecat61 => x = "zeroout"

(* The stage at p, the one that follows, and the one to try again.         *)
Moves(p) ==
  /\ Sits(StageAt(p), PlaceAt(p))
  /\ StageAt(p) # "done" =>
       /\ Following(p) \in 1..Len(Stages)
       /\ Follows(StageAt(p), PlaceAt(p), StageAt(Following(p)), PlaceAt(Following(p)))
  /\ StageAt(p) \in {"read", "write"} =>
       p # 1 /\ (StageAt(p - 1) = "clear" => PlaceAt(p - 1) = PlaceAt(p))

(* A program with n stages.                                                *)
HasStages(n) ==
  /\ Len(Stages) = n /\ Closing \in 1..n
  /\ StageAt(Closing) = "closein" /\ PlaceAt(Closing) = "closing"
  /\ Begins(StageAt(1), PlaceAt(1)) /\ \A p \in 1..n : Moves(p)

(* The programs that read, write and flush.                                *)
LEMMA PlainlyMoves ==
  ASSUME run.prog \in Plainly
  PROVE  HasStages(7)
<1>. DEFINE s == << >>
            u == <<"read", "write", "flush">>
<1>1. run.prog.setup = s /\ run.prog.loop = u
  BY DEF Plainly, cat61, read61, write61, blockcat61, blockread61, blockwrite61,
         randblockcat61, carefulblockcat61, Careful, Copying, Sequential
<1>2. Len(s) = 0 /\ s \in Seq(Names)
  BY DEF Names
<1>3. Len(u) = 3 /\ u \in Seq(Names)
  BY DEF Names
<1>4. u[1] = "read" /\ u[2] = "write" /\ u[3] = "flush"
  OBVIOUS
<1>. HIDE DEF s, u
<1>5. /\ Top = Len(s) + 1 /\ Closing = Top + Len(u) + 1 /\ Len(Stages) = Closing + 2
      /\ \A p \in 1..Len(s) : StageAt(p) = s[p]
      /\ StageAt(Top) = "top"
      /\ \A p \in 1..Len(u) : StageAt(Top + p) = u[p]
      /\ StageAt(Closing) = "closein" /\ StageAt(Closing + 1) = "closeout"
      /\ StageAt(Closing + 2) = "done"
  BY <1>1, <1>2, <1>3, StagesAre
<1>6. Top = 1 /\ Closing = 5 /\ Len(Stages) = 7
  BY <1>2, <1>3, <1>5
<1>7. StageAt(2) = "read" /\ StageAt(3) = "write" /\ StageAt(4) = "flush"
  <2>1. StageAt(2) = u[1]
    BY <1>3, <1>5, <1>6
  <2>2. StageAt(3) = u[2]
    BY <1>3, <1>5, <1>6
  <2>3. StageAt(4) = u[3]
    BY <1>3, <1>5, <1>6
  <2>. QED BY <1>4, <2>1, <2>2, <2>3
<1>8. /\ StageAt(1) = "top" /\ StageAt(5) = "closein"
      /\ StageAt(6) = "closeout" /\ StageAt(7) = "done"
  BY <1>5, <1>6
<1>9. /\ run.prog.order = "next" /\ ~(run.prog \in PlainlyAt) /\ ~(run.prog = carefulcat61)
      /\ ~(run.prog \in Backwards) /\ ~(run.prog = wreverse61) /\ ~(run.prog = reordercat61)
      /\ ~(run.prog = wstridecat61)
  BY OrdersAre, ProgramsDiffer DEF Backwards, Plainly, PlainlyAt
<1>10. ASSUME NEW p \in 1..7
       PROVE  Moves(p)
  BY <1>6, <1>7, <1>8, <1>9
  DEF Moves, Sits, Follows, Following, PlaceAt, Names
<1>11. Begins(StageAt(1), PlaceAt(1))
  BY <1>6, <1>7, <1>8, <1>9 DEF Begins, PlaceAt
<1>. QED BY <1>6, <1>8, <1>10, <1>11 DEF HasStages, PlaceAt

(* Those that seek in the output first.                                    *)
LEMMA PlainlyAtMoves ==
  ASSUME run.prog \in PlainlyAt
  PROVE  HasStages(8)
<1>. DEFINE s == <<"seekout">>
            u == <<"read", "write", "flush">>
<1>1. run.prog.setup = s /\ run.prog.loop = u
  BY DEF PlainlyAt, writeat61, blockwriteat61, Copying, Sequential
<1>2. Len(s) = 1 /\ s \in Seq(Names)
  BY DEF Names
<1>3. Len(u) = 3 /\ u \in Seq(Names)
  BY DEF Names
<1>4. s[1] = "seekout"
  OBVIOUS
<1>5. u[1] = "read" /\ u[2] = "write" /\ u[3] = "flush"
  OBVIOUS
<1>. HIDE DEF s, u
<1>6. /\ Top = Len(s) + 1 /\ Closing = Top + Len(u) + 1 /\ Len(Stages) = Closing + 2
      /\ \A p \in 1..Len(s) : StageAt(p) = s[p]
      /\ StageAt(Top) = "top"
      /\ \A p \in 1..Len(u) : StageAt(Top + p) = u[p]
      /\ StageAt(Closing) = "closein" /\ StageAt(Closing + 1) = "closeout"
      /\ StageAt(Closing + 2) = "done"
  BY <1>1, <1>2, <1>3, StagesAre
<1>7. Top = 2 /\ Closing = 6 /\ Len(Stages) = 8
  BY <1>2, <1>3, <1>6
<1>8. StageAt(1) = "seekout"
  BY <1>2, <1>4, <1>6
<1>9. StageAt(3) = "read" /\ StageAt(4) = "write" /\ StageAt(5) = "flush"
  <2>1. StageAt(3) = u[1]
    BY <1>3, <1>6, <1>7
  <2>2. StageAt(4) = u[2]
    BY <1>3, <1>6, <1>7
  <2>3. StageAt(5) = u[3]
    BY <1>3, <1>6, <1>7
  <2>. QED BY <1>5, <2>1, <2>2, <2>3
<1>10. /\ StageAt(2) = "top" /\ StageAt(6) = "closein"
       /\ StageAt(7) = "closeout" /\ StageAt(8) = "done"
  BY <1>6, <1>7
<1>11. /\ run.prog.order = "next" /\ run.prog \in PlainlyAt /\ ~(run.prog = carefulcat61)
       /\ ~(run.prog \in Backwards) /\ ~(run.prog = wreverse61) /\ ~(run.prog = reordercat61)
       /\ ~(run.prog = wstridecat61)
  BY OrdersAre, ProgramsDiffer DEF Backwards, Plainly, PlainlyAt
<1>12. ASSUME NEW p \in 1..8
       PROVE  Moves(p)
  BY <1>7, <1>8, <1>9, <1>10, <1>11
  DEF Moves, Sits, Follows, Following, PlaceAt, Names
<1>13. Begins(StageAt(1), PlaceAt(1))
  BY <1>7, <1>8, <1>9, <1>10, <1>11 DEF Begins, PlaceAt
<1>. QED BY <1>7, <1>10, <1>12, <1>13 DEF HasStages, PlaceAt

(* The one that clears errno.                                              *)
LEMMA CarefulMoves ==
  ASSUME run.prog = carefulcat61
  PROVE  HasStages(9)
<1>. DEFINE s == << >>
            u == <<"clear", "read", "clear", "write", "flush">>
<1>1. run.prog.setup = s /\ run.prog.loop = u
  BY DEF carefulcat61, Careful, Copying
<1>2. Len(s) = 0 /\ s \in Seq(Names)
  BY DEF Names
<1>3. Len(u) = 5 /\ u \in Seq(Names)
  BY DEF Names
<1>4. u[1] = "clear" /\ u[2] = "read" /\ u[3] = "clear" /\ u[4] = "write" /\ u[5] = "flush"
  OBVIOUS
<1>. HIDE DEF s, u
<1>5. /\ Top = Len(s) + 1 /\ Closing = Top + Len(u) + 1 /\ Len(Stages) = Closing + 2
      /\ \A p \in 1..Len(s) : StageAt(p) = s[p]
      /\ StageAt(Top) = "top"
      /\ \A p \in 1..Len(u) : StageAt(Top + p) = u[p]
      /\ StageAt(Closing) = "closein" /\ StageAt(Closing + 1) = "closeout"
      /\ StageAt(Closing + 2) = "done"
  BY <1>1, <1>2, <1>3, StagesAre
<1>6. Top = 1 /\ Closing = 7 /\ Len(Stages) = 9
  BY <1>2, <1>3, <1>5
<1>7. /\ StageAt(2) = "clear" /\ StageAt(3) = "read" /\ StageAt(4) = "clear"
      /\ StageAt(5) = "write" /\ StageAt(6) = "flush"
  <2>1. StageAt(2) = u[1]
    BY <1>3, <1>5, <1>6
  <2>2. StageAt(3) = u[2]
    BY <1>3, <1>5, <1>6
  <2>3. StageAt(4) = u[3]
    BY <1>3, <1>5, <1>6
  <2>4. StageAt(5) = u[4]
    BY <1>3, <1>5, <1>6
  <2>5. StageAt(6) = u[5]
    BY <1>3, <1>5, <1>6
  <2>. QED BY <1>4, <2>1, <2>2, <2>3, <2>4, <2>5
<1>8. /\ StageAt(1) = "top" /\ StageAt(7) = "closein"
      /\ StageAt(8) = "closeout" /\ StageAt(9) = "done"
  BY <1>5, <1>6
<1>9. /\ run.prog.order = "next" /\ ~(run.prog \in PlainlyAt) /\ run.prog = carefulcat61
      /\ ~(run.prog \in Backwards) /\ ~(run.prog = wreverse61) /\ ~(run.prog = reordercat61)
      /\ ~(run.prog = wstridecat61)
  BY OrdersAre, ProgramsDiffer DEF Backwards, Plainly, PlainlyAt
<1>10. ASSUME NEW p \in 1..9
       PROVE  Moves(p)
  BY <1>6, <1>7, <1>8, <1>9
  DEF Moves, Sits, Follows, Following, PlaceAt, Names
<1>11. Begins(StageAt(1), PlaceAt(1))
  BY <1>6, <1>7, <1>8, <1>9 DEF Begins, PlaceAt
<1>. QED BY <1>6, <1>8, <1>10, <1>11 DEF HasStages, PlaceAt

(* Those that seek in the input.                                           *)
LEMMA BackwardsMoves ==
  ASSUME run.prog \in Backwards
  PROVE  HasStages(10)
<1>. DEFINE s == <<"size", "zeroin">>
            u == <<"seekin", "read", "write", "flush">>
<1>1. run.prog.setup = s /\ run.prog.loop = u
  BY DEF Backwards, reverse61, stridecat61, Copying
<1>2. Len(s) = 2 /\ s \in Seq(Names)
  BY DEF Names
<1>3. Len(u) = 4 /\ u \in Seq(Names)
  BY DEF Names
<1>4. s[1] = "size" /\ s[2] = "zeroin"
  OBVIOUS
<1>5. u[1] = "seekin" /\ u[2] = "read" /\ u[3] = "write" /\ u[4] = "flush"
  OBVIOUS
<1>. HIDE DEF s, u
<1>6. /\ Top = Len(s) + 1 /\ Closing = Top + Len(u) + 1 /\ Len(Stages) = Closing + 2
      /\ \A p \in 1..Len(s) : StageAt(p) = s[p]
      /\ StageAt(Top) = "top"
      /\ \A p \in 1..Len(u) : StageAt(Top + p) = u[p]
      /\ StageAt(Closing) = "closein" /\ StageAt(Closing + 1) = "closeout"
      /\ StageAt(Closing + 2) = "done"
  BY <1>1, <1>2, <1>3, StagesAre
<1>7. Top = 3 /\ Closing = 8 /\ Len(Stages) = 10
  BY <1>2, <1>3, <1>6
<1>8. StageAt(1) = "size" /\ StageAt(2) = "zeroin"
  BY <1>2, <1>4, <1>6
<1>9. /\ StageAt(4) = "seekin" /\ StageAt(5) = "read" /\ StageAt(6) = "write"
      /\ StageAt(7) = "flush"
  <2>1. StageAt(4) = u[1]
    BY <1>3, <1>6, <1>7
  <2>2. StageAt(5) = u[2]
    BY <1>3, <1>6, <1>7
  <2>3. StageAt(6) = u[3]
    BY <1>3, <1>6, <1>7
  <2>4. StageAt(7) = u[4]
    BY <1>3, <1>6, <1>7
  <2>. QED BY <1>5, <2>1, <2>2, <2>3, <2>4
<1>10. /\ StageAt(3) = "top" /\ StageAt(8) = "closein"
       /\ StageAt(9) = "closeout" /\ StageAt(10) = "done"
  BY <1>6, <1>7
<1>11. /\ run.prog.order # "next" /\ ~(run.prog \in PlainlyAt) /\ ~(run.prog = carefulcat61)
       /\ run.prog \in Backwards /\ ~(run.prog = wreverse61) /\ ~(run.prog = reordercat61)
       /\ ~(run.prog = wstridecat61)
  BY OrdersAre, ProgramsDiffer DEF Backwards, Plainly, PlainlyAt
<1>12. ASSUME NEW p \in 1..10
       PROVE  Moves(p)
  BY <1>7, <1>8, <1>9, <1>10, <1>11
  DEF Moves, Sits, Follows, Following, PlaceAt, Names
<1>13. Begins(StageAt(1), PlaceAt(1))
  BY <1>7, <1>8, <1>9, <1>10, <1>11 DEF Begins, PlaceAt
<1>. QED BY <1>7, <1>10, <1>12, <1>13 DEF HasStages, PlaceAt

(* The one that writes backwards.                                          *)
LEMMA WreverseMoves ==
  ASSUME run.prog = wreverse61
  PROVE  HasStages(10)
<1>. DEFINE s == <<"size", "zeroout">>
            u == <<"read", "seekout", "write", "flush">>
<1>1. run.prog.setup = s /\ run.prog.loop = u
  BY DEF wreverse61, Copying
<1>2. Len(s) = 2 /\ s \in Seq(Names)
  BY DEF Names
<1>3. Len(u) = 4 /\ u \in Seq(Names)
  BY DEF Names
<1>4. s[1] = "size" /\ s[2] = "zeroout"
  OBVIOUS
<1>5. u[1] = "read" /\ u[2] = "seekout" /\ u[3] = "write" /\ u[4] = "flush"
  OBVIOUS
<1>. HIDE DEF s, u
<1>6. /\ Top = Len(s) + 1 /\ Closing = Top + Len(u) + 1 /\ Len(Stages) = Closing + 2
      /\ \A p \in 1..Len(s) : StageAt(p) = s[p]
      /\ StageAt(Top) = "top"
      /\ \A p \in 1..Len(u) : StageAt(Top + p) = u[p]
      /\ StageAt(Closing) = "closein" /\ StageAt(Closing + 1) = "closeout"
      /\ StageAt(Closing + 2) = "done"
  BY <1>1, <1>2, <1>3, StagesAre
<1>7. Top = 3 /\ Closing = 8 /\ Len(Stages) = 10
  BY <1>2, <1>3, <1>6
<1>8. StageAt(1) = "size" /\ StageAt(2) = "zeroout"
  BY <1>2, <1>4, <1>6
<1>9. /\ StageAt(4) = "read" /\ StageAt(5) = "seekout" /\ StageAt(6) = "write"
      /\ StageAt(7) = "flush"
  <2>1. StageAt(4) = u[1]
    BY <1>3, <1>6, <1>7
  <2>2. StageAt(5) = u[2]
    BY <1>3, <1>6, <1>7
  <2>3. StageAt(6) = u[3]
    BY <1>3, <1>6, <1>7
  <2>4. StageAt(7) = u[4]
    BY <1>3, <1>6, <1>7
  <2>. QED BY <1>5, <2>1, <2>2, <2>3, <2>4
<1>10. /\ StageAt(3) = "top" /\ StageAt(8) = "closein"
       /\ StageAt(9) = "closeout" /\ StageAt(10) = "done"
  BY <1>6, <1>7
<1>11. /\ run.prog.order # "next" /\ ~(run.prog \in PlainlyAt) /\ ~(run.prog = carefulcat61)
       /\ ~(run.prog \in Backwards) /\ run.prog = wreverse61 /\ ~(run.prog = reordercat61)
       /\ ~(run.prog = wstridecat61)
  BY OrdersAre, ProgramsDiffer DEF Backwards, Plainly, PlainlyAt
<1>12. ASSUME NEW p \in 1..10
       PROVE  Moves(p)
  BY <1>7, <1>8, <1>9, <1>10, <1>11
  DEF Moves, Sits, Follows, Following, PlaceAt, Names
<1>13. Begins(StageAt(1), PlaceAt(1))
  BY <1>7, <1>8, <1>9, <1>10, <1>11 DEF Begins, PlaceAt
<1>. QED BY <1>7, <1>10, <1>12, <1>13 DEF HasStages, PlaceAt

(* The one that takes blocks at random.                                    *)
LEMMA ReorderMoves ==
  ASSUME run.prog = reordercat61
  PROVE  HasStages(13)
<1>. DEFINE s == <<"size", "zeroin", "zeroout", "blocks">>
            u == <<"seekin", "read", "seekout", "write", "flush">>
<1>1. run.prog.setup = s /\ run.prog.loop = u
  BY DEF reordercat61, Copying
<1>2. Len(s) = 4 /\ s \in Seq(Names)
  BY DEF Names
<1>3. Len(u) = 5 /\ u \in Seq(Names)
  BY DEF Names
<1>4. s[1] = "size" /\ s[2] = "zeroin" /\ s[3] = "zeroout" /\ s[4] = "blocks"
  OBVIOUS
<1>5. u[1] = "seekin" /\ u[2] = "read" /\ u[3] = "seekout" /\ u[4] = "write" /\ u[5] = "flush"
  OBVIOUS
<1>. HIDE DEF s, u
<1>6. /\ Top = Len(s) + 1 /\ Closing = Top + Len(u) + 1 /\ Len(Stages) = Closing + 2
      /\ \A p \in 1..Len(s) : StageAt(p) = s[p]
      /\ StageAt(Top) = "top"
      /\ \A p \in 1..Len(u) : StageAt(Top + p) = u[p]
      /\ StageAt(Closing) = "closein" /\ StageAt(Closing + 1) = "closeout"
      /\ StageAt(Closing + 2) = "done"
  BY <1>1, <1>2, <1>3, StagesAre
<1>7. Top = 5 /\ Closing = 11 /\ Len(Stages) = 13
  BY <1>2, <1>3, <1>6
<1>8. /\ StageAt(1) = "size" /\ StageAt(2) = "zeroin" /\ StageAt(3) = "zeroout"
      /\ StageAt(4) = "blocks"
  BY <1>2, <1>4, <1>6
<1>9. /\ StageAt(6) = "seekin" /\ StageAt(7) = "read" /\ StageAt(8) = "seekout"
      /\ StageAt(9) = "write" /\ StageAt(10) = "flush"
  <2>1. StageAt(6) = u[1]
    BY <1>3, <1>6, <1>7
  <2>2. StageAt(7) = u[2]
    BY <1>3, <1>6, <1>7
  <2>3. StageAt(8) = u[3]
    BY <1>3, <1>6, <1>7
  <2>4. StageAt(9) = u[4]
    BY <1>3, <1>6, <1>7
  <2>5. StageAt(10) = u[5]
    BY <1>3, <1>6, <1>7
  <2>. QED BY <1>5, <2>1, <2>2, <2>3, <2>4, <2>5
<1>10. /\ StageAt(5) = "top" /\ StageAt(11) = "closein"
       /\ StageAt(12) = "closeout" /\ StageAt(13) = "done"
  BY <1>6, <1>7
<1>11. /\ run.prog.order # "next" /\ ~(run.prog \in PlainlyAt) /\ ~(run.prog = carefulcat61)
       /\ ~(run.prog \in Backwards) /\ ~(run.prog = wreverse61) /\ run.prog = reordercat61
       /\ ~(run.prog = wstridecat61)
  BY OrdersAre, ProgramsDiffer DEF Backwards, Plainly, PlainlyAt
<1>12. ASSUME NEW p \in 1..13
       PROVE  Moves(p)
  BY <1>7, <1>8, <1>9, <1>10, <1>11
  DEF Moves, Sits, Follows, Following, PlaceAt, Names
<1>13. Begins(StageAt(1), PlaceAt(1))
  BY <1>7, <1>8, <1>9, <1>10, <1>11 DEF Begins, PlaceAt
<1>. QED BY <1>7, <1>10, <1>12, <1>13 DEF HasStages, PlaceAt

(* The one that writes by columns.                                         *)
LEMMA WstrideMoves ==
  ASSUME run.prog = wstridecat61
  PROVE  HasStages(10)
<1>. DEFINE s == <<"zeroout", "size">>
            u == <<"read", "write", "seekout", "flush">>
<1>1. run.prog.setup = s /\ run.prog.loop = u
  BY DEF wstridecat61, Copying
<1>2. Len(s) = 2 /\ s \in Seq(Names)
  BY DEF Names
<1>3. Len(u) = 4 /\ u \in Seq(Names)
  BY DEF Names
<1>4. s[1] = "zeroout" /\ s[2] = "size"
  OBVIOUS
<1>5. u[1] = "read" /\ u[2] = "write" /\ u[3] = "seekout" /\ u[4] = "flush"
  OBVIOUS
<1>. HIDE DEF s, u
<1>6. /\ Top = Len(s) + 1 /\ Closing = Top + Len(u) + 1 /\ Len(Stages) = Closing + 2
      /\ \A p \in 1..Len(s) : StageAt(p) = s[p]
      /\ StageAt(Top) = "top"
      /\ \A p \in 1..Len(u) : StageAt(Top + p) = u[p]
      /\ StageAt(Closing) = "closein" /\ StageAt(Closing + 1) = "closeout"
      /\ StageAt(Closing + 2) = "done"
  BY <1>1, <1>2, <1>3, StagesAre
<1>7. Top = 3 /\ Closing = 8 /\ Len(Stages) = 10
  BY <1>2, <1>3, <1>6
<1>8. StageAt(1) = "zeroout" /\ StageAt(2) = "size"
  BY <1>2, <1>4, <1>6
<1>9. /\ StageAt(4) = "read" /\ StageAt(5) = "write" /\ StageAt(6) = "seekout"
      /\ StageAt(7) = "flush"
  <2>1. StageAt(4) = u[1]
    BY <1>3, <1>6, <1>7
  <2>2. StageAt(5) = u[2]
    BY <1>3, <1>6, <1>7
  <2>3. StageAt(6) = u[3]
    BY <1>3, <1>6, <1>7
  <2>4. StageAt(7) = u[4]
    BY <1>3, <1>6, <1>7
  <2>. QED BY <1>5, <2>1, <2>2, <2>3, <2>4
<1>10. /\ StageAt(3) = "top" /\ StageAt(8) = "closein"
       /\ StageAt(9) = "closeout" /\ StageAt(10) = "done"
  BY <1>6, <1>7
<1>11. /\ run.prog.order # "next" /\ ~(run.prog \in PlainlyAt) /\ ~(run.prog = carefulcat61)
       /\ ~(run.prog \in Backwards) /\ ~(run.prog = wreverse61) /\ ~(run.prog = reordercat61)
       /\ run.prog = wstridecat61
  BY OrdersAre, ProgramsDiffer DEF Backwards, Plainly, PlainlyAt
<1>12. ASSUME NEW p \in 1..10
       PROVE  Moves(p)
  BY <1>7, <1>8, <1>9, <1>10, <1>11
  DEF Moves, Sits, Follows, Following, PlaceAt, Names
<1>13. Begins(StageAt(1), PlaceAt(1))
  BY <1>7, <1>8, <1>9, <1>10, <1>11 DEF Begins, PlaceAt
<1>. QED BY <1>7, <1>10, <1>12, <1>13 DEF HasStages, PlaceAt

-----------------------------------------------------------------------------
(* The two files.                                                          *)

(* What happens to the file is what its proofs are about. *)
LEMMA InIs ==
  /\ (In!Step <=> InP!Step) /\ (In!Fault <=> InP!Fault)
  /\ \A op, n : In!StartRead(op, n) <=> InP!StartRead(op, n)
  /\ \A op, b : In!StartWrite(op, b) <=> InP!StartWrite(op, b)
  /\ \A op : In!StartFlush(op) <=> InP!StartFlush(op)
  /\ \A off : In!StartSeek(off) <=> InP!StartSeek(off)
  /\ \A k : In!Opened(k) <=> InP!Opened(k)
<1>1. In!ReadMapped <=> InP!ReadMapped
  BY DEF In!ReadMapped, InP!ReadMapped, In!Reads, InP!Reads, In!Crash, InP!Crash, In!End, InP!End, In!Min, InP!Min,
     In!Max, InP!Max, In!Moved, InP!Moved
<1>2. In!CopyCached <=> InP!CopyCached
  BY DEF In!CopyCached, InP!CopyCached, In!ReadsCache, InP!ReadsCache, In!Lacking, InP!Lacking, In!Reads, InP!Reads, In!Min, InP!Min
<1>3. In!Fill <=> InP!Fill
  BY DEF In!Fill, InP!Fill, In!Filling, InP!Filling, In!ReadsCache, InP!ReadsCache, In!Lacking, InP!Lacking, In!Reads, InP!Reads, In!Min, InP!Min, In!Max, InP!Max, In!FillGets, InP!FillGets, In!Filled, InP!Filled, In!Emptied, InP!Emptied, In!AtEnd, InP!AtEnd, In!End, InP!End, In!CacheResult, InP!CacheResult
<1>4. In!ReadReturns <=> InP!ReadReturns
  BY DEF In!ReadReturns, InP!ReadReturns, In!ReadsCache, InP!ReadsCache, In!Lacking, InP!Lacking, In!Reads, InP!Reads, In!End, InP!End
<1>5. In!CopyIn <=> InP!CopyIn
  BY DEF In!CopyIn, InP!CopyIn, In!Writes, InP!Writes, In!Full, InP!Full, In!Min, InP!Min, In!Put, InP!Put
<1>6. In!WriteReturns <=> InP!WriteReturns
  BY DEF In!WriteReturns, InP!WriteReturns, In!Writes, InP!Writes, In!End, InP!End
<1>7. In!FlushWrites <=> InP!FlushWrites
  BY DEF In!FlushWrites, InP!FlushWrites, In!Flushing, InP!Flushing, In!Writes, InP!Writes, In!Full, InP!Full, In!InCache, InP!InCache, In!Missed, InP!Missed, In!Positioned, InP!Positioned, In!Hit, InP!Hit, In!Overwritten, InP!Overwritten, In!Max, InP!Max, In!Unflushed, InP!Unflushed
<1>8. In!FlushEnds <=> InP!FlushEnds
  BY DEF In!FlushEnds, InP!FlushEnds, In!Flushing, InP!Flushing, In!Writes, InP!Writes, In!Full, InP!Full, In!InCache, InP!InCache, In!Missed, InP!Missed, In!Positioned, InP!Positioned, In!Hit, InP!Hit, In!Emptied, InP!Emptied
<1>9. In!FlushClean <=> InP!FlushClean
  BY DEF In!FlushClean, InP!FlushClean, In!Emptied, InP!Emptied
<1>10. In!SeekInCache <=> InP!SeekInCache
  BY DEF In!SeekInCache, InP!SeekInCache, In!Seeking, InP!Seeking, In!InCache, InP!InCache, In!End, InP!End
<1>11. In!SeekInKernel <=> InP!SeekInKernel
  BY DEF In!SeekInKernel, InP!SeekInKernel, In!Seeking, InP!Seeking, In!InCache, InP!InCache, In!End, InP!End, In!Sought, InP!Sought, In!Emptied, InP!Emptied, In!Mapped, InP!Mapped, In!MapErrno, InP!MapErrno
<1>12. In!SeekFails <=> InP!SeekFails
  BY DEF In!SeekFails, InP!SeekFails, In!Seeking, InP!Seeking, In!InCache, InP!InCache, In!End, InP!End
<1>13. In!Pfill <=> InP!Pfill
  BY DEF In!Pfill, InP!Pfill, In!Missed, InP!Missed, In!Positioned, InP!Positioned, In!Hit, InP!Hit, In!Min, InP!Min
<1>14. In!CopyPositioned <=> InP!CopyPositioned
  BY DEF In!CopyPositioned, InP!CopyPositioned, In!Positioned, InP!Positioned, In!Hit, InP!Hit, In!Min, InP!Min, In!Crash, InP!Crash, In!End, InP!End, In!Overwritten, InP!Overwritten, In!Max, InP!Max,
     In!Max, InP!Max, In!Moved, InP!Moved
<1>15. In!FillAgain <=> InP!FillAgain
  BY DEF In!FillAgain, InP!FillAgain, In!Filling, InP!Filling, In!ReadsCache, InP!ReadsCache, In!Lacking, InP!Lacking, In!Reads, InP!Reads, In!FillFails, InP!FillFails, In!Emptied, InP!Emptied, In!End, InP!End, In!CacheResult, InP!CacheResult
<1>16. \A e : In!FlushFails(e) <=> InP!FlushFails(e)
  BY DEF In!FlushFails, InP!FlushFails, In!Flushing, InP!Flushing, In!Writes, InP!Writes, In!Full, InP!Full, In!InCache, InP!InCache, In!Missed, InP!Missed, In!Positioned, InP!Positioned, In!Hit, InP!Hit
<1>17. \A e : In!PfillFails(e) <=> InP!PfillFails(e)
  BY DEF In!PfillFails, InP!PfillFails, In!Missed, InP!Missed, In!Positioned, InP!Positioned, In!Hit, InP!Hit, In!End, InP!End
<1>18. (In!Step <=> InP!Step) /\ (In!Fault <=> InP!Fault)
  BY <1>1, <1>2, <1>3, <1>4, <1>5, <1>6, <1>7, <1>8, <1>9, <1>10, <1>11, <1>12, <1>13, <1>14, <1>15, <1>16, <1>17 DEF In!Step, InP!Step, In!Fault, InP!Fault
<1>19. \A op, n : In!StartRead(op, n) <=> InP!StartRead(op, n)
  BY DEF In!StartRead, InP!StartRead, In!Ready, InP!Ready, In!Mapped, InP!Mapped, In!Sane, InP!Sane, In!Crash, InP!Crash, In!Begin, InP!Begin, In!NoCall, InP!NoCall, In!MapErrno, InP!MapErrno
<1>20. \A op, b : In!StartWrite(op, b) <=> InP!StartWrite(op, b)
  BY DEF In!StartWrite, InP!StartWrite, In!Ready, InP!Ready, In!Sane, InP!Sane, In!Crash, InP!Crash, In!Begin, InP!Begin, In!NoCall, InP!NoCall
<1>21. \A op : In!StartFlush(op) <=> InP!StartFlush(op)
  BY DEF In!StartFlush, InP!StartFlush, In!Ready, InP!Ready, In!Begin, InP!Begin, In!NoCall, InP!NoCall
<1>22. \A off : In!StartSeek(off) <=> InP!StartSeek(off)
  BY DEF In!StartSeek, InP!StartSeek, In!Ready, InP!Ready, In!Sane, InP!Sane, In!Crash, InP!Crash, In!Begin, InP!Begin, In!NoCall, InP!NoCall
<1>23. \A k : In!Opened(k) <=> InP!Opened(k)
  BY DEF In!Opened, InP!Opened, In!NoCall, InP!NoCall
<1>. QED BY <1>18, <1>19, <1>20, <1>21, <1>22, <1>23

(* What happens to the file is what its proofs are about. *)
LEMMA OutIs ==
  /\ (Out!Step <=> OutP!Step) /\ (Out!Fault <=> OutP!Fault)
  /\ \A op, n : Out!StartRead(op, n) <=> OutP!StartRead(op, n)
  /\ \A op, b : Out!StartWrite(op, b) <=> OutP!StartWrite(op, b)
  /\ \A op : Out!StartFlush(op) <=> OutP!StartFlush(op)
  /\ \A off : Out!StartSeek(off) <=> OutP!StartSeek(off)
  /\ \A k : Out!Opened(k) <=> OutP!Opened(k)
<1>1. Out!ReadMapped <=> OutP!ReadMapped
  BY DEF Out!ReadMapped, OutP!ReadMapped, Out!Reads, OutP!Reads, Out!Crash, OutP!Crash, Out!End, OutP!End, Out!Min, OutP!Min,
     Out!Max, OutP!Max, Out!Moved, OutP!Moved
<1>2. Out!CopyCached <=> OutP!CopyCached
  BY DEF Out!CopyCached, OutP!CopyCached, Out!ReadsCache, OutP!ReadsCache, Out!Lacking, OutP!Lacking, Out!Reads, OutP!Reads, Out!Min, OutP!Min
<1>3. Out!Fill <=> OutP!Fill
  BY DEF Out!Fill, OutP!Fill, Out!Filling, OutP!Filling, Out!ReadsCache, OutP!ReadsCache, Out!Lacking, OutP!Lacking, Out!Reads, OutP!Reads, Out!Min, OutP!Min, Out!Max, OutP!Max, Out!FillGets, OutP!FillGets, Out!Filled, OutP!Filled, Out!Emptied, OutP!Emptied, Out!AtEnd, OutP!AtEnd, Out!End, OutP!End, Out!CacheResult, OutP!CacheResult
<1>4. Out!ReadReturns <=> OutP!ReadReturns
  BY DEF Out!ReadReturns, OutP!ReadReturns, Out!ReadsCache, OutP!ReadsCache, Out!Lacking, OutP!Lacking, Out!Reads, OutP!Reads, Out!End, OutP!End
<1>5. Out!CopyIn <=> OutP!CopyIn
  BY DEF Out!CopyIn, OutP!CopyIn, Out!Writes, OutP!Writes, Out!Full, OutP!Full, Out!Min, OutP!Min, Out!Put, OutP!Put
<1>6. Out!WriteReturns <=> OutP!WriteReturns
  BY DEF Out!WriteReturns, OutP!WriteReturns, Out!Writes, OutP!Writes, Out!End, OutP!End
<1>7. Out!FlushWrites <=> OutP!FlushWrites
  BY DEF Out!FlushWrites, OutP!FlushWrites, Out!Flushing, OutP!Flushing, Out!Writes, OutP!Writes, Out!Full, OutP!Full, Out!InCache, OutP!InCache, Out!Missed, OutP!Missed, Out!Positioned, OutP!Positioned, Out!Hit, OutP!Hit, Out!Overwritten, OutP!Overwritten, Out!Max, OutP!Max, Out!Unflushed, OutP!Unflushed
<1>8. Out!FlushEnds <=> OutP!FlushEnds
  BY DEF Out!FlushEnds, OutP!FlushEnds, Out!Flushing, OutP!Flushing, Out!Writes, OutP!Writes, Out!Full, OutP!Full, Out!InCache, OutP!InCache, Out!Missed, OutP!Missed, Out!Positioned, OutP!Positioned, Out!Hit, OutP!Hit, Out!Emptied, OutP!Emptied
<1>9. Out!FlushClean <=> OutP!FlushClean
  BY DEF Out!FlushClean, OutP!FlushClean, Out!Emptied, OutP!Emptied
<1>10. Out!SeekInCache <=> OutP!SeekInCache
  BY DEF Out!SeekInCache, OutP!SeekInCache, Out!Seeking, OutP!Seeking, Out!InCache, OutP!InCache, Out!End, OutP!End
<1>11. Out!SeekInKernel <=> OutP!SeekInKernel
  BY DEF Out!SeekInKernel, OutP!SeekInKernel, Out!Seeking, OutP!Seeking, Out!InCache, OutP!InCache, Out!End, OutP!End, Out!Sought, OutP!Sought, Out!Emptied, OutP!Emptied, Out!Mapped, OutP!Mapped, Out!MapErrno, OutP!MapErrno
<1>12. Out!SeekFails <=> OutP!SeekFails
  BY DEF Out!SeekFails, OutP!SeekFails, Out!Seeking, OutP!Seeking, Out!InCache, OutP!InCache, Out!End, OutP!End
<1>13. Out!Pfill <=> OutP!Pfill
  BY DEF Out!Pfill, OutP!Pfill, Out!Missed, OutP!Missed, Out!Positioned, OutP!Positioned, Out!Hit, OutP!Hit, Out!Min, OutP!Min
<1>14. Out!CopyPositioned <=> OutP!CopyPositioned
  BY DEF Out!CopyPositioned, OutP!CopyPositioned, Out!Positioned, OutP!Positioned, Out!Hit, OutP!Hit, Out!Min, OutP!Min, Out!Crash, OutP!Crash, Out!End, OutP!End, Out!Overwritten, OutP!Overwritten, Out!Max, OutP!Max,
     Out!Max, OutP!Max, Out!Moved, OutP!Moved
<1>15. Out!FillAgain <=> OutP!FillAgain
  BY DEF Out!FillAgain, OutP!FillAgain, Out!Filling, OutP!Filling, Out!ReadsCache, OutP!ReadsCache, Out!Lacking, OutP!Lacking, Out!Reads, OutP!Reads, Out!FillFails, OutP!FillFails, Out!Emptied, OutP!Emptied, Out!End, OutP!End, Out!CacheResult, OutP!CacheResult
<1>16. \A e : Out!FlushFails(e) <=> OutP!FlushFails(e)
  BY DEF Out!FlushFails, OutP!FlushFails, Out!Flushing, OutP!Flushing, Out!Writes, OutP!Writes, Out!Full, OutP!Full, Out!InCache, OutP!InCache, Out!Missed, OutP!Missed, Out!Positioned, OutP!Positioned, Out!Hit, OutP!Hit
<1>17. \A e : Out!PfillFails(e) <=> OutP!PfillFails(e)
  BY DEF Out!PfillFails, OutP!PfillFails, Out!Missed, OutP!Missed, Out!Positioned, OutP!Positioned, Out!Hit, OutP!Hit, Out!End, OutP!End
<1>18. (Out!Step <=> OutP!Step) /\ (Out!Fault <=> OutP!Fault)
  BY <1>1, <1>2, <1>3, <1>4, <1>5, <1>6, <1>7, <1>8, <1>9, <1>10, <1>11, <1>12, <1>13, <1>14, <1>15, <1>16, <1>17 DEF Out!Step, OutP!Step, Out!Fault, OutP!Fault
<1>19. \A op, n : Out!StartRead(op, n) <=> OutP!StartRead(op, n)
  BY DEF Out!StartRead, OutP!StartRead, Out!Ready, OutP!Ready, Out!Mapped, OutP!Mapped, Out!Sane, OutP!Sane, Out!Crash, OutP!Crash, Out!Begin, OutP!Begin, Out!NoCall, OutP!NoCall, Out!MapErrno, OutP!MapErrno
<1>20. \A op, b : Out!StartWrite(op, b) <=> OutP!StartWrite(op, b)
  BY DEF Out!StartWrite, OutP!StartWrite, Out!Ready, OutP!Ready, Out!Sane, OutP!Sane, Out!Crash, OutP!Crash, Out!Begin, OutP!Begin, Out!NoCall, OutP!NoCall
<1>21. \A op : Out!StartFlush(op) <=> OutP!StartFlush(op)
  BY DEF Out!StartFlush, OutP!StartFlush, Out!Ready, OutP!Ready, Out!Begin, OutP!Begin, Out!NoCall, OutP!NoCall
<1>22. \A off : Out!StartSeek(off) <=> OutP!StartSeek(off)
  BY DEF Out!StartSeek, OutP!StartSeek, Out!Ready, OutP!Ready, Out!Sane, OutP!Sane, Out!Crash, OutP!Crash, Out!Begin, OutP!Begin, Out!NoCall, OutP!NoCall
<1>23. \A k : Out!Opened(k) <=> OutP!Opened(k)
  BY DEF Out!Opened, OutP!Opened, Out!NoCall, OutP!NoCall
<1>. QED BY <1>18, <1>19, <1>20, <1>21, <1>22, <1>23

-----------------------------------------------------------------------------
(* What the program is at, and what it is run on.                          *)

(* The state of a program.                                                 *)
StType == [pc : Nat, sent : BOOLEAN, left : Int, pos : Nat, written : Nat, block : Nat,
           buf : Seq(Nat), todo : SUBSET Nat, exit : {"none", "failed", "assert"}]

(* A run, what kind of program it is of, and where that can be.            *)
LEMMA RunIs ==
  ASSUME run \in Runs
  PROVE  /\ run.prog \in Plainly \cup PlainlyAt \cup Backwards
                         \cup {carefulcat61, wreverse61, reordercat61, wstridecat61}
         /\ run.flush \in BOOLEAN /\ run.in.mode = "r" /\ run.in.seekable \in BOOLEAN
         /\ run.in.mappable \in BOOLEAN /\ run.in.data \in Seq(Nat) /\ run.in.at \in Nat
         /\ Len(run.in.data) \in Nat
         /\ run.in.mappable => run.in.seekable /\ run.in.at <= Len(run.in.data)
         /\ run.out.mode = "w" /\ run.out.seekable \in BOOLEAN /\ ~run.out.mappable
         /\ run.out.data \in Seq(Nat) /\ run.out.at \in Nat
         /\ run.size \in Int /\ run.size >= -1 /\ run.at \in Nat /\ run.block \in Nat \ {0}
         /\ run.stride \in Nat \ {0}
         /\ Len(Stages) \in Nat /\ Closing \in 1..Len(Stages) /\ StageAt(Closing) = "closein"
         /\ PlaceAt(Closing) = "closing" /\ Begins(StageAt(1), PlaceAt(1))
         /\ \A p \in 1..Len(Stages) : Moves(p)
<1>1. /\ run.prog \in Programs /\ run.flush \in BOOLEAN
      /\ run.in \in [mode : {"r"}, seekable : BOOLEAN, mappable : BOOLEAN, data : Seq(Nat), at : Nat]
      /\ run.out \in [mode : {"w"}, seekable : BOOLEAN, mappable : {FALSE}, data : Seq(Nat), at : Nat]
      /\ run.in.mappable => run.in.seekable /\ run.in.at <= Len(run.in.data)
      /\ run.size \in Nat \cup {-1} /\ run.at \in Nat /\ run.block \in Nat \ {0}
      /\ run.stride \in Nat \ {0}
  BY Copy61Assumption
<1>2. run.prog \in Plainly \cup PlainlyAt \cup Backwards
                   \cup {carefulcat61, wreverse61, reordercat61, wstridecat61}
  BY <1>1 DEF Programs, Plainly, PlainlyAt, Backwards
<1>3. PICK n \in Nat : HasStages(n)
  <2>1. CASE run.prog \in Plainly
    BY <2>1, PlainlyMoves
  <2>2. CASE run.prog \in PlainlyAt
    BY <2>2, PlainlyAtMoves
  <2>3. CASE run.prog = carefulcat61
    BY <2>3, CarefulMoves
  <2>4. CASE run.prog \in Backwards
    BY <2>4, BackwardsMoves
  <2>5. CASE run.prog = wreverse61
    BY <2>5, WreverseMoves
  <2>6. CASE run.prog = reordercat61
    BY <2>6, ReorderMoves
  <2>7. CASE run.prog = wstridecat61
    BY <2>7, WstrideMoves
  <2>. QED BY <1>2, <2>1, <2>2, <2>3, <2>4, <2>5, <2>6, <2>7
<1>5. HasStages(Len(Stages)) /\ Len(Stages) \in Nat
  BY <1>3 DEF HasStages
<1>4. /\ run.in.mode = "r" /\ run.in.seekable \in BOOLEAN /\ run.in.mappable \in BOOLEAN
      /\ run.in.data \in Seq(Nat) /\ run.in.at \in Nat
      /\ run.out.mode = "w" /\ run.out.seekable \in BOOLEAN /\ ~run.out.mappable
      /\ run.out.data \in Seq(Nat) /\ run.out.at \in Nat
  BY <1>1
<1>. QED BY <1>1, <1>2, <1>4, <1>5 DEF HasStages

(* By what a program copies, and whether it tries again.                   *)
LEMMA UnitsAre ==
  ASSUME run \in Runs
  PROVE  /\ run.prog.unit \in {"char", "block", "random"}
         /\ run.prog \in {carefulcat61, reverse61, wreverse61} => run.prog.unit = "char"
         /\ run.prog \in {reordercat61, stridecat61, wstridecat61} => run.prog.unit = "block"
         /\ run.prog.order # "next" => ~run.prog.careful
         /\ run.prog.order \in {"next", "down", "shuffled", "stride"}
         /\ run.prog.order = "next" <=> run.prog \in Plainly \cup PlainlyAt \cup {carefulcat61}
         /\ run.prog.order = "down" <=> run.prog \in {reverse61, wreverse61}
         /\ run.prog.order = "shuffled" <=> run.prog = reordercat61
         /\ run.prog.order = "stride" <=> run.prog \in {stridecat61, wstridecat61}
<1>1. run.prog \in Plainly \cup PlainlyAt \cup {reverse61, stridecat61}
                   \cup {carefulcat61, wreverse61, reordercat61, wstridecat61}
  BY RunIs DEF Backwards
<1>2. \A p \in Plainly : p.unit \in {"char", "block", "random"}
  BY DEF Plainly, cat61, read61, write61, blockcat61, blockread61, blockwrite61, randblockcat61,
         carefulblockcat61, Careful, Copying
<1>3. \A p \in PlainlyAt : p.unit \in {"char", "block", "random"}
  BY DEF PlainlyAt, writeat61, blockwriteat61, Copying
<1>4. /\ carefulcat61.unit = "char" /\ reverse61.unit = "char" /\ wreverse61.unit = "char"
      /\ ~reverse61.careful /\ ~wreverse61.careful /\ ~reordercat61.careful
      /\ ~stridecat61.careful /\ ~wstridecat61.careful
      /\ reordercat61.unit = "block" /\ stridecat61.unit = "block" /\ wstridecat61.unit = "block"
  BY DEF carefulcat61, reverse61, wreverse61, reordercat61, stridecat61, wstridecat61, Careful, Copying
<1>5. /\ run.prog \in Plainly \cup PlainlyAt \cup {carefulcat61} => run.prog.order = "next"
      /\ run.prog \in {reverse61, wreverse61} => run.prog.order = "down"
      /\ run.prog = reordercat61 => run.prog.order = "shuffled"
      /\ run.prog \in {stridecat61, wstridecat61} => run.prog.order = "stride"
  BY OrdersAre
<1>6. /\ run.prog.unit \in {"char", "block", "random"}
      /\ run.prog.order # "next" => ~run.prog.careful
  BY <1>1, <1>2, <1>3, <1>4, <1>5
<1>7. run.prog \in {carefulcat61, reverse61, wreverse61} => run.prog.unit = "char"
  BY <1>4
<1>8. run.prog \in {reordercat61, stridecat61, wstridecat61} => run.prog.unit = "block"
  BY <1>4
<1>. QED BY <1>1, <1>5, <1>6, <1>7, <1>8

(* The state of the program, which is at a stage that it has.              *)
ProgramInv == run \in Runs /\ st \in StType /\ st.pc \in 1..Len(Stages)

(* The same run has the same stages.                                       *)
LEMMA SameRun ==
  ASSUME run' = run
  PROVE  /\ Stage' = StageAt(st'.pc) /\ Place' = PlaceAt(st'.pc)
         /\ Len(Stages)' = Len(Stages) /\ Top' = Top /\ Closing' = Closing
BY DEF Stage, StageAt, Stages, Place, PlaceAt, Top, Closing

(* Where the program is.                                                   *)
LEMMA IsAt ==
  ASSUME ProgramInv
  PROVE  Stage = StageAt(st.pc) /\ Sits(Stage, Place)
<1>1. Stage = StageAt(st.pc) /\ Place = PlaceAt(st.pc)
  BY DEF Stage, StageAt, Place
<1>. QED BY <1>1, RunIs DEF ProgramInv, Moves

(* It stays there.                                                         *)
LEMMA Stays ==
  ASSUME ProgramInv, run' = run, st'.pc = st.pc, st' \in StType
  PROVE  ProgramInv' /\ Stage' = Stage /\ Place' = Place /\ Sits(Stage, Place)
BY SameRun, IsAt DEF ProgramInv, Stage, StageAt, Place

(* It goes on to the next stage.                                           *)
LEMMA GoesOnward ==
  ASSUME ProgramInv, run' = run, Stage # "done", NEW s \in StType, s.pc = st.pc, st' = Onward(s)
  PROVE  /\ ProgramInv' /\ Sits(Stage', Place') /\ Follows(Stage, Place, Stage', Place')
         /\ Sits(Stage, Place)
         /\ ~st'.sent /\ st'.left = s.left /\ st'.pos = s.pos /\ st'.written = s.written
         /\ st'.block = s.block /\ st'.buf = s.buf /\ st'.todo = s.todo /\ st'.exit = s.exit
<1>1. Stage = StageAt(st.pc) /\ Sits(Stage, Place)
  BY IsAt
<1>2. /\ st'.pc = Following(st.pc) /\ ~st'.sent
      /\ st'.left = s.left /\ st'.pos = s.pos /\ st'.written = s.written
      /\ st'.block = s.block /\ st'.buf = s.buf /\ st'.todo = s.todo /\ st'.exit = s.exit
  BY DEF Onward, Following, StType
<1>3. Following(st.pc) \in 1..Len(Stages) /\ Len(Stages) \in Nat
  BY <1>1, RunIs DEF ProgramInv, Moves
<1>4. st' \in StType
  <2>1. Following(st.pc) \in Nat
    BY <1>3
  <2>2. st' = [s EXCEPT !.sent = FALSE, !.pc = Following(st.pc)]
    BY DEF Onward, Following
  <2>. QED BY <2>1, <2>2 DEF StType
<1>5. Follows(Stage, Place, Stage', Place') /\ Sits(Stage', Place')
  BY <1>1, <1>2, <1>3, RunIs, SameRun DEF ProgramInv, Moves, Place
<1>. QED BY <1>1, <1>2, <1>3, <1>4, <1>5, SameRun DEF ProgramInv

(* It leaves the loop.                                                     *)
LEMMA Leaves ==
  ASSUME ProgramInv, run' = run, st' = Leave(st)
  PROVE  /\ ProgramInv' /\ Stage' = "closein" /\ Place' = "closing" /\ Sits(Stage', Place')
         /\ ~st'.sent /\ st'.left = st.left /\ st'.pos = st.pos /\ st'.written = st.written
         /\ st'.block = st.block /\ st'.buf = st.buf /\ st'.todo = st.todo /\ st'.exit = st.exit
<1>1. /\ Closing \in 1..Len(Stages) /\ StageAt(Closing) = "closein" /\ Len(Stages) \in Nat
      /\ PlaceAt(Closing) = "closing" /\ Moves(Closing)
  BY RunIs DEF ProgramInv
<1>2. /\ st'.pc = Closing /\ ~st'.sent
      /\ st'.left = st.left /\ st'.pos = st.pos /\ st'.written = st.written
      /\ st'.block = st.block /\ st'.buf = st.buf /\ st'.todo = st.todo /\ st'.exit = st.exit
  BY DEF Leave, StType, ProgramInv
<1>3. st' \in StType
  <2>1. Closing \in Nat /\ st' = [st EXCEPT !.sent = FALSE, !.pc = Closing] /\ st \in StType
    BY <1>1 DEF Leave, ProgramInv
  <2>. QED BY <2>1 DEF StType
<1>. QED BY <1>1, <1>2, <1>3, SameRun DEF ProgramInv, Moves

-----------------------------------------------------------------------------
(* What the calls of a program do to its files.                            *)

(* The input file. *)
InGood ==
  /\ InP!Good /\ inOs.mode = "r" /\ inOs.seekable = run.in.seekable
  /\ inOs.mappable = run.in.mappable /\ inOs.data = run.in.data

(* The output file. *)
OutGood ==
  /\ OutP!Good /\ outOs.mode = "w" /\ outOs.seekable = run.out.seekable /\ ~outOs.mappable

(* What each file's types are.                                             *)
LEMMA FilesAre ==
  /\ InP!Good => /\ inF.pos \in Nat /\ inCall.op \in InP!Ops /\ inCall.want \in Nat
                 /\ inCall.off \in Nat /\ inCall.got \in Seq(Nat) /\ inCall.failed \in BOOLEAN
                 /\ inCrash = "none"
  /\ OutP!Good => /\ outF.pos \in Nat /\ outCall.op \in OutP!Ops /\ outCall.want \in Nat
                  /\ outCall.off \in Nat /\ outCall.bytes \in Seq(Nat) /\ outCall.failed \in BOOLEAN
                  /\ outF.dirty \in BOOLEAN /\ outCrash = "none"
                  /\ outOs.data \in Seq(Nat) /\ OutP!Seen \in Seq(Nat)
<1>1. ASSUME InP!Good
      PROVE  /\ inF.pos \in Nat /\ inCall.op \in InP!Ops /\ inCall.want \in Nat
             /\ inCall.off \in Nat /\ inCall.got \in Seq(Nat) /\ inCall.failed \in BOOLEAN
             /\ inCrash = "none"
  BY <1>1, InP!GoodParts, Copy61Assumption DEF InP!FType, InP!CallType, InP!Bytes
<1>2. ASSUME OutP!Good
      PROVE  /\ outF.pos \in Nat /\ outCall.op \in OutP!Ops /\ outCall.want \in Nat
             /\ outCall.off \in Nat /\ outCall.bytes \in Seq(Nat) /\ outCall.failed \in BOOLEAN
             /\ outF.dirty \in BOOLEAN /\ outCrash = "none" /\ outOs.data \in Seq(Nat)
  BY <1>2, OutP!GoodParts, Copy61Assumption DEF OutP!FType, OutP!CallType, OutP!OsType, OutP!Bytes
<1>3. OutP!Good => OutP!Seen \in Seq(Nat)
  BY OutP!SeenIs, Copy61Assumption
<1>. QED BY <1>1, <1>2, <1>3

(* Files that have just been opened.                                       *)
LEMMA InOpened ==
  ASSUME run \in Runs, In!Opened(run.in)
  PROVE  /\ InGood /\ inF.tag = inF.end
         /\ inF.pos = (IF run.in.seekable THEN run.in.at ELSE 0) /\ inCall = In!NoCall
<1>1. /\ run.in \in [mode : {"r"}, seekable : BOOLEAN, mappable : BOOLEAN, data : Seq(Nat), at : Nat]
      /\ run.in.mappable => run.in.at <= Len(run.in.data)
  BY Copy61Assumption
<1>2. /\ run.in \in [mode : {"r", "w", "rw"}, seekable : BOOLEAN, mappable : BOOLEAN,
                     data : Seq(Nat), at : Nat]
      /\ run.in.mode = "r"
  BY <1>1
<1>3. InP!Opened(run.in)
  BY InIs
<1>4. /\ InP!Good /\ inF.tag = inF.end
      /\ inF.pos = (IF run.in.seekable THEN run.in.at ELSE 0)
      /\ inOs.mode = run.in.mode /\ inOs.seekable = run.in.seekable
      /\ inOs.mappable = run.in.mappable /\ inOs.data = run.in.data
  BY <1>1, <1>2, <1>3, InP!OpenedGood, Copy61Assumption
<1>. QED BY <1>2, <1>4 DEF InGood, In!Opened

(* How the output begins.                                                  *)
LEMMA OutOpened ==
  ASSUME run \in Runs, Out!Opened(run.out)
  PROVE  /\ OutGood /\ ~outF.dirty /\ OutP!Seen = run.out.data
         /\ outF.pos = (IF run.out.seekable THEN run.out.at ELSE 0) /\ outCall = Out!NoCall
<1>1. run.out \in [mode : {"w"}, seekable : BOOLEAN, mappable : {FALSE}, data : Seq(Nat), at : Nat]
  BY Copy61Assumption
<1>2. /\ run.out \in [mode : {"r", "w", "rw"}, seekable : BOOLEAN, mappable : BOOLEAN,
                      data : Seq(Nat), at : Nat]
      /\ run.out.mode = "w" /\ ~run.out.mappable
  BY <1>1
<1>3. OutP!Opened(run.out)
  BY OutIs
<1>4. /\ OutP!Good /\ ~outF.dirty /\ OutP!Seen = run.out.data
      /\ outF.pos = (IF run.out.seekable THEN run.out.at ELSE 0)
      /\ outOs.mode = run.out.mode /\ outOs.seekable = run.out.seekable
      /\ outOs.mappable = run.out.mappable
  BY <1>2, <1>3, OutP!OpenedGood, Copy61Assumption
<1>. QED BY <1>2, <1>4 DEF OutGood, Out!Opened

(* What happens elsewhere does not matter to a file.                       *)
LEMMA InElsewhere ==
  ASSUME InGood, UNCHANGED inVars, run' = run
  PROVE  InGood'
<1>1. inOs' = inOs /\ inF' = inF /\ inCall' = inCall /\ inCrash' = inCrash
  BY DEF inVars
<1>2. InP!Good'
  BY <1>1, InP!ElsewhereGood, Copy61Assumption DEF InGood
<1>. QED BY <1>1, <1>2 DEF InGood

(* Nor does it to the output.                                              *)
LEMMA OutElsewhere ==
  ASSUME OutGood, UNCHANGED outVars, run' = run
  PROVE  OutGood' /\ OutP!Seen' = OutP!Seen
<1>1. outOs' = outOs /\ outF' = outF /\ outCall' = outCall /\ outCrash' = outCrash
  BY DEF outVars
<1>2. OutP!Good' /\ OutP!Seen' = OutP!Seen
  BY <1>1, OutP!ElsewhereGood, Copy61Assumption DEF OutGood
<1>. QED BY <1>1, <1>2 DEF OutGood

(* A step of a call on the input.                                          *)
LEMMA InSteps ==
  ASSUME InGood, Recovers, run' = run, In!Step \/ In!Fault
  PROVE  /\ InGood'
         /\ inCall.op \in {"read", "readc", "seek", "flush", "close"} /\ ~inCall.failed
         /\ inCall'.want = inCall.want /\ inCall'.off = inCall.off
         /\ inCall'.op \in {inCall.op, IF inCall.op = "close" THEN "closed" ELSE "idle"}
         /\ inCall'.failed => inCall.op = "seek" /\ ~run.in.seekable
         /\ inCall.op \in {"read", "readc"} /\ inCall'.op # inCall.op =>
              IF inCall'.got = << >> THEN inRet' \in {-1, 0} ELSE inRet' = Len(inCall'.got)
         /\ inCall.op = "seek" /\ inCall'.op # inCall.op =>
              IF inCall'.failed THEN inRet' # 0
              ELSE inRet' = 0 /\ inF'.pos = inCall.off /\ (inF.tag = inF.end => run.in.seekable)
         /\ inCall.op = "seek" /\ inCall'.op = "seek" => inF' = inF
         /\ inCall.op \in {"flush", "close"} => inF'.pos = inF.pos
<1>. USE DEF InP!Reads, InP!Writes
<1>1. InP!Step \/ InP!Fault
  BY InIs
<1>2. InP!Good' /\ InP!Does
  BY <1>1, InP!StepGood, InP!StepDoes, Copy61Assumption DEF InGood
<1>3. /\ inCall.op \in {"read", "readc", "seek", "flush", "close"} /\ ~inCall.failed
  BY <1>1, InP!InProgress, Copy61Assumption DEF InGood
<1>4. inCall'.failed => inCall.op = "seek" /\ ~run.in.seekable
  BY <1>2, <1>3 DEF InP!Does, InP!Refusable, InGood, Recovers
<1>5. inCall.op \in {"flush", "close"} => inF'.pos = inF.pos
  BY <1>1, <1>3, InP!OthersKeep, Copy61Assumption DEF InGood
<1>6. InGood'
  BY <1>2 DEF InGood, InP!Does, InP!SameKind
<1>7. InP!InCache(inCall.off) /\ inF.tag = inF.end => FALSE
  <2>1. inF.tag \in Nat /\ inF.end \in Nat /\ inCall.off \in Nat
    BY InP!GoodParts, Copy61Assumption DEF InGood, InP!FType, InP!CallType
  <2>. QED BY <2>1 DEF InP!InCache
<1>. QED BY <1>2, <1>3, <1>4, <1>5, <1>6, <1>7
         DEF InGood, InP!Does, InP!GoesOn, InP!Returned, InP!LeavesAlone

(* What a read gets. *)
LEMMA InReads ==
  ASSUME InGood, Recovers, run' = run, In!Step \/ In!Fault, inCall.op \in {"read", "readc"},
         NEW a \in Nat, inF.pos = a + Len(inCall.got), InP!Shows(run.in.data, a, inCall.got),
         Len(inCall.got) <= inCall.want
  PROVE  /\ inF'.pos = a + Len(inCall'.got) /\ InP!Shows(run.in.data, a, inCall'.got)
         /\ Len(inCall'.got) <= inCall.want
         /\ inCall'.op # inCall.op =>
              Len(inCall'.got) = inCall.want \/ inF'.pos >= Len(run.in.data)
<1>1. (InP!Step \/ InP!Fault) /\ ~inCall'.failed /\ InGood'
  BY InIs, InSteps
<1>2. inOs.data = run.in.data /\ inOs'.data = run.in.data
  BY <1>1 DEF InGood
<1>3. inCall.op \in InP!Reads
  BY DEF InP!Reads
<1>. QED BY <1>1, <1>2, <1>3, InP!ReadGets, Copy61Assumption DEF InGood

(* A step of a call on the output.                                         *)
LEMMA OutSteps ==
  ASSUME OutGood, Recovers, run' = run, Out!Step \/ Out!Fault
  PROVE  /\ OutGood'
         /\ outCall.op \in {"write", "writec", "seek", "flush", "close"} /\ ~outCall.failed
         /\ outCall'.want = outCall.want /\ outCall'.off = outCall.off
         /\ outCall'.op \in {outCall.op, IF outCall.op = "close" THEN "closed" ELSE "idle"}
         /\ outCall'.failed => outCall.op = "seek" /\ ~run.out.seekable
         /\ outCall.op \in {"write", "writec"} /\ outCall'.op # outCall.op => outRet' = outCall.want
         /\ outCall.op = "seek" /\ outCall'.op # outCall.op =>
              IF outCall'.failed THEN outRet' # 0
              ELSE outRet' = 0 /\ outF'.pos = outCall.off /\ run.out.seekable
         /\ outCall.op \in {"flush", "close"} /\ outCall'.op # outCall.op => outRet' = 0 /\ ~outF'.dirty
         /\ outF'.dirty => outF.dirty \/ outCall.op \in {"write", "writec"}
         /\ outCall.op \in {"seek", "flush", "close"} => OutP!Seen' = OutP!Seen
         /\ outCall.op \in {"flush", "close"} => outF'.pos = outF.pos
         /\ outCall.op = "seek" /\ (outCall'.op = "seek" \/ outCall'.failed) => outF'.pos = outF.pos
<1>. USE DEF OutP!Reads, OutP!Writes
<1>1. OutP!Step \/ OutP!Fault
  BY OutIs
<1>2. OutP!Good' /\ OutP!Does
  BY <1>1, OutP!StepGood, OutP!StepDoes, Copy61Assumption DEF OutGood
<1>3. /\ outCall.op \in {"write", "writec", "seek", "flush", "close"} /\ ~outCall.failed
  BY <1>1, OutP!InProgress, Copy61Assumption DEF OutGood
<1>4. outCall'.failed => outCall.op = "seek" /\ ~run.out.seekable
  BY <1>2, <1>3 DEF OutP!Does, OutP!Refusable, OutGood, Recovers
<1>5. outCall.op \in {"seek", "flush", "close"} =>
        /\ OutP!Seen' = OutP!Seen
        /\ outCall.op # "seek" \/ outCall'.op = "seek" \/ outCall'.failed => outF'.pos = outF.pos
  BY <1>1, <1>3, OutP!OthersKeep, Copy61Assumption DEF OutGood
<1>6. OutGood'
  BY <1>2 DEF OutGood, OutP!Does, OutP!SameKind
<1>7. ~OutP!InCache(outCall.off)
  BY DEF OutP!InCache, OutGood
<1>. QED BY <1>2, <1>3, <1>4, <1>5, <1>6, <1>7
         DEF OutGood, OutP!Does, OutP!GoesOn, OutP!Returned, OutP!LeavesAlone

(* What a write puts. *)
LEMMA OutWrites ==
  ASSUME OutGood, Recovers, run' = run, Out!Step \/ Out!Fault, outCall.op \in {"write", "writec"}
  PROVE  /\ \/ outF'.pos = outF.pos /\ outCall'.bytes = outCall.bytes /\ OutP!Seen' = OutP!Seen
            \/ \E n \in 1..Len(outCall.bytes) :
                 /\ outF'.pos = outF.pos + n
                 /\ outCall'.bytes = SubSeq(outCall.bytes, n + 1, Len(outCall.bytes))
                 /\ OutP!Seen' = OutP!Overwritten(OutP!Seen, outF.pos, SubSeq(outCall.bytes, 1, n))
         /\ outCall'.op # outCall.op => outCall'.bytes = << >>
<1>1. (OutP!Step \/ OutP!Fault) /\ ~outCall'.failed
  BY OutIs, OutSteps
<1>3. outCall.op \in OutP!Writes
  BY DEF OutP!Writes
<1>. QED BY <1>1, <1>3, OutP!WritePuts, Copy61Assumption DEF OutGood

(* Calls begin. *)
LEMMA InStarts ==
  ASSUME InGood, run' = run
  PROVE  /\ \A op \in {"read", "readc"}, n \in Nat : In!StartRead(op, n) =>
              /\ InGood' /\ inF'.pos = inF.pos /\ inCall'.op = op /\ inCall'.want = n
              /\ inCall'.got = << >> /\ ~inCall'.failed
         /\ \A off \in Nat : In!StartSeek(off) /\ (run.in.mappable => off <= Len(run.in.data)) =>
              /\ InGood' /\ inF' = inF /\ inCall'.op = "seek" /\ inCall'.off = off
              /\ inCall'.got = << >> /\ ~inCall'.failed
         /\ In!StartFlush("close") => InGood' /\ inF' = inF /\ inCall'.op = "close" /\ ~inCall'.failed
<1>. USE DEF InP!SameKind
<1>1. ASSUME NEW op \in {"read", "readc"}, NEW n \in Nat, In!StartRead(op, n)
      PROVE  /\ InGood' /\ inF'.pos = inF.pos /\ inCall'.op = op /\ inCall'.want = n
             /\ inCall'.got = << >> /\ ~inCall'.failed
  <2>1. op \in InP!Reads /\ InP!StartRead(op, n)
    BY <1>1, InIs DEF InP!Reads
  <2>. QED BY <2>1, InP!StartReadGood, Copy61Assumption DEF InGood
<1>2. ASSUME NEW off \in Nat, In!StartSeek(off), run.in.mappable => off <= Len(run.in.data)
      PROVE  /\ InGood' /\ inF' = inF /\ inCall'.op = "seek" /\ inCall'.off = off
             /\ inCall'.got = << >> /\ ~inCall'.failed
  <2>1. InP!StartSeek(off)
    BY <1>2, InIs
  <2>. QED BY <1>2, <2>1, InP!StartSeekGood, Copy61Assumption DEF InGood
<1>3. ASSUME In!StartFlush("close")
      PROVE  InGood' /\ inF' = inF /\ inCall'.op = "close" /\ ~inCall'.failed
  <2>1. InP!StartFlush("close")
    BY <1>3, InIs
  <2>. QED BY <2>1, InP!StartFlushGood, Copy61Assumption DEF InGood
<1>. QED BY <1>1, <1>2, <1>3

(* What the calls on the output begin with.                                *)
LEMMA OutStarts ==
  ASSUME OutGood, run' = run, ~outCall.failed
  PROVE  /\ \A op \in {"write", "writec"}, b \in Seq(Nat) : Out!StartWrite(op, b) =>
              /\ OutGood' /\ outF' = outF /\ OutP!Seen' = OutP!Seen /\ outCall'.op = op
              /\ outCall'.want = Len(b) /\ outCall'.bytes = b /\ ~outCall'.failed
         /\ \A off \in Nat : Out!StartSeek(off) =>
              /\ OutGood' /\ outF' = outF /\ OutP!Seen' = OutP!Seen /\ outCall'.op = "seek"
              /\ outCall'.off = off /\ ~outCall'.failed
         /\ \A op \in {"flush", "close"} : Out!StartFlush(op) =>
              /\ OutGood' /\ outF' = outF /\ OutP!Seen' = OutP!Seen /\ outCall'.op = op
              /\ ~outCall'.failed
<1>. USE DEF OutP!SameKind
<1>1. ASSUME NEW op \in {"write", "writec"}, NEW b \in Seq(Nat), Out!StartWrite(op, b)
      PROVE  /\ OutGood' /\ outF' = outF /\ OutP!Seen' = OutP!Seen /\ outCall'.op = op
             /\ outCall'.want = Len(b) /\ outCall'.bytes = b /\ ~outCall'.failed
  <2>1. op \in OutP!Writes /\ OutP!StartWrite(op, b) /\ b \in OutP!Bytes
    BY <1>1, OutIs DEF OutP!Writes, OutP!Bytes
  <2>. QED BY <2>1, OutP!StartWriteGood, Copy61Assumption DEF OutGood
<1>2. ASSUME NEW off \in Nat, Out!StartSeek(off)
      PROVE  /\ OutGood' /\ outF' = outF /\ OutP!Seen' = OutP!Seen /\ outCall'.op = "seek"
             /\ outCall'.off = off /\ ~outCall'.failed
  <2>1. OutP!StartSeek(off)
    BY <1>2, OutIs
  <2>. QED BY <2>1, OutP!StartSeekGood, Copy61Assumption DEF OutGood
<1>3. ASSUME NEW op \in {"flush", "close"}, Out!StartFlush(op)
      PROVE  /\ OutGood' /\ outF' = outF /\ OutP!Seen' = OutP!Seen /\ outCall'.op = op
             /\ ~outCall'.failed
  <2>1. OutP!StartFlush(op)
    BY <1>3, OutIs
  <2>. QED BY <2>1, OutP!StartFlushGood, Copy61Assumption DEF OutGood
<1>. QED BY <1>1, <1>2, <1>3

-----------------------------------------------------------------------------
(* The invariant: where the files are, and what is asked of them.          *)

(* What a program is given that goes back and forth in its files: not more *)
(* to copy than there is, its input from the beginning, and, by strides,   *)
(* no position to begin with.                                              *)
Fits(r) ==
  r.prog.order # "next" =>
    /\ r.size <= Len(r.in.data)
    /\ r.prog \in {wreverse61, wstridecat61} /\ r.in.seekable => r.in.at = 0
    /\ r.prog.order = "stride" => r.at = 0

(* The bytes that the program has read and not yet written, and where in   *)
(* the input they begin.                                                   *)
Held ==
  IF st.sent /\ Stage = "read" THEN inCall.got
  ELSE IF Place = "holding" THEN st.buf ELSE << >>

Origin == inF.pos - Len(Held)

(* How many of them the call has taken, and where in the output they begin. *)
Put == IF st.sent /\ Stage = "write" THEN Len(st.buf) - Len(outCall.bytes) ELSE 0

WriteAt == outF.pos - Put

(* The programs that seek in their input.                                  *)
SeeksInput == run.prog \in Backwards \cup {reordercat61}

(* A file that a program has sought to the beginning of, or to where it is *)
(* to be written, can be sought; before, no byte of it has been read.      *)
NotSought == Stage = "size" \/ (Stage = "zeroin" /\ (st.sent => inCall.op = "seek"))

InSought ==
  SeeksInput => /\ NotSought => inF.tag = inF.end
                /\ Stage \notin {"size", "zeroin"} => run.in.seekable

(* The stages before the output has been sought.                           *)
Unsought ==
  IF run.prog \in {wreverse61, reordercat61} THEN {"size", "zeroin", "zeroout"}
  ELSE IF run.prog = wstridecat61 THEN {"zeroout"}
  ELSE IF run.prog \in PlainlyAt THEN {"seekout"} ELSE Names

OutSought == Stage \in Unsought \/ run.out.seekable

(* What the program holds, and by how much it reads.                       *)
BufInv ==
  /\ Place = "holding" => st.buf # << >> /\ (run.prog.unit = "char" => Len(st.buf) = 1)
  /\ run.prog.order # "stride" => st.block = run.block
  /\ st.sent /\ Stage = "flush" => run.flush

InAsked ==
  \/ inCall.op \in {"idle", "closed"}
  \/ /\ st.sent /\ st.exit = "none"
     /\ \/ inCall.op = "seek" /\ Stage \in {"zeroin", "seekin"}
        \/ inCall.op \in {"read", "readc"} /\ Stage = "read"
        \/ inCall.op = "close" /\ Stage = "closein"

(* The call on the input, and what it has returned.                        *)
InCallInv ==
  /\ InAsked
  /\ inCall.failed => st.sent /\ Stage = "zeroin"
  /\ st.sent /\ Stage \in {"zeroin", "seekin"} =>
       /\ inCall.off = IF Stage = "zeroin" THEN 0 ELSE st.pos
       /\ inCall.op # "seek" =>
            IF inCall.failed THEN inRet # 0
            ELSE inRet = 0 /\ inF.pos = inCall.off /\ run.in.seekable
  /\ st.sent /\ Stage = "read" =>
       /\ Len(inCall.got) <= inCall.want
       /\ run.prog.unit = "char" => inCall.want = 1
       /\ run.prog.unit = "block" => inCall.want = st.block
       /\ run.prog.order # "stride" => inCall.want >= 1
       /\ inCall.op \notin {"read", "readc"} =>
            /\ IF inCall.got = << >> THEN inRet \in {-1, 0} ELSE inRet = Len(inCall.got)
            /\ Len(inCall.got) = inCall.want \/ inF.pos >= Len(run.in.data)

OutAsked ==
  \/ outCall.op \in {"idle", "closed"}
  \/ /\ st.sent /\ st.exit = "none"
     /\ \/ outCall.op = "seek" /\ Stage \in {"zeroout", "seekout"}
        \/ outCall.op \in {"write", "writec"} /\ Stage = "write"
        \/ outCall.op = "flush" /\ Stage = "flush"
        \/ outCall.op = "close" /\ Stage = "closeout"

(* The call on the output.                                                 *)
OutCallInv ==
  /\ OutAsked
  /\ outCall.failed => st.sent /\ Stage \in {"zeroout", "seekout"} /\ ~run.out.seekable
  /\ st.sent /\ Stage \in {"zeroout", "seekout"} =>
       /\ outCall.off = IF Stage = "zeroout" THEN 0 ELSE st.pos
       /\ outCall.op # "seek" =>
            IF outCall.failed THEN outRet # 0
            ELSE outRet = 0 /\ outF.pos = outCall.off /\ run.out.seekable
  /\ st.sent /\ Stage = "write" =>
       /\ outCall.want = Len(st.buf) /\ Len(outCall.bytes) <= Len(st.buf)
       /\ outCall.bytes = SubSeq(st.buf, Len(st.buf) - Len(outCall.bytes) + 1, Len(st.buf))
       /\ outCall.op \notin {"write", "writec"} => outCall.bytes = << >> /\ outRet = Len(st.buf)
  /\ st.sent /\ Stage \in {"flush", "closeout"} =>
       outCall.op \in {"flush", "close"} \/ (outRet = 0 /\ ~outF.dirty)
  /\ Stage = "done" => ~outF.dirty

(* What is held is what the input has there.                               *)
HeldInv == Len(Held) <= inF.pos /\ InP!Shows(run.in.data, Origin, Held)

(* With -F, nothing is left in the cache when the program reads.           *)
FlushInv == run.flush /\ Place \in {"setup", "top", "fetching"} => ~outF.dirty

CallsInv ==
  /\ ProgramInv /\ InGood /\ OutGood /\ InSought /\ OutSought /\ BufInv
  /\ InCallInv /\ OutCallInv /\ HeldInv /\ FlushInv

(* A seek in the input goes no further than its end.                       *)
SeekFits == Stage = "seekin" => st.pos <= Len(run.in.data)

(* What a step of a program amounts to.                                    *)
Keeps ==
  /\ st'.left = st.left /\ st'.pos = st.pos /\ st'.written = st.written
  /\ st'.block = st.block /\ st'.todo = st.todo

FilesStay == Origin' = Origin /\ WriteAt' = WriteAt /\ OutP!Seen' = OutP!Seen /\ Put = 0 /\ Put' = 0

(* A call puts some of what is held into the output.                       *)
Puts ==
  /\ Stage = "write"
  /\ \E n \in 1..(Len(st.buf) - Put) :
       /\ Put' = Put + n
       /\ OutP!Seen' = OutP!Overwritten(OutP!Seen, WriteAt + Put, SubSeq(st.buf, Put + 1, Put + n))

Waits ==
  /\ Stage' = Stage /\ Place' = Place /\ Keeps /\ st'.buf = st.buf
  /\ Origin' = Origin \/ Stage \in {"zeroin", "seekin"}
  /\ WriteAt' = WriteAt \/ Stage \in {"zeroout", "seekout"}
  /\ Puts \/ (Put' = Put /\ OutP!Seen' = OutP!Seen)

Retries ==
  /\ Stage = "read" /\ Stage' \in {"read", "clear"} /\ Place' = Place /\ Keeps /\ FilesStay
  /\ run.prog.order = "next"

GoesOn == Follows(Stage, Place, Stage', Place') /\ Sits(Stage', Place')

Goes ==
  /\ GoesOn /\ Keeps /\ FilesStay
  /\ Stage \notin {"size", "blocks", "top", "write", "done"}
  /\ Stage # "read" => st'.buf = st.buf
  /\ Stage = "zeroin" => Origin = 0
  /\ Stage = "seekin" => Origin = st.pos
  /\ Stage = "zeroout" => WriteAt = 0
  /\ Stage = "seekout" => WriteAt = st.pos /\ run.out.seekable
  /\ Stage = "read" /\ run.prog.unit = "block" =>
       /\ Len(st'.buf) <= st.block
       /\ Len(st'.buf) = st.block \/ Origin + Len(st'.buf) >= Len(run.in.data)

Sizes ==
  /\ GoesOn /\ FilesStay /\ Stage = "size"
  /\ st'.left = (IF st.left >= 0 THEN st.left ELSE Len(run.in.data))
  /\ st'.pos = st.pos /\ st'.written = st.written /\ st'.block = st.block /\ st'.todo = st.todo

Divides ==
  /\ GoesOn /\ FilesStay /\ Stage = "blocks" /\ st.left % st.block = 0
  /\ st'.todo = 0..(st.left \div st.block - 1)
  /\ st'.left = st.left /\ st'.pos = st.pos /\ st'.written = st.written /\ st'.block = st.block

Loops ==
  /\ GoesOn /\ FilesStay /\ Stage = "top"
  /\ st'.written = st.written /\ st'.block = st.block
  /\ \/ run.prog.order = "next" /\ st.left # 0 /\ Keeps
     \/ /\ run.prog.order = "down" /\ st.left # 0
        /\ st'.left = st.left - 1 /\ st'.pos = st.left - 1 /\ st'.todo = st.todo
     \/ run.prog.order = "stride" /\ st.written < st.left /\ Keeps
     \/ /\ run.prog.order = "shuffled" /\ st'.left = st.left
        /\ \E b \in st.todo : st'.todo = st.todo \ {b} /\ st'.pos = b * st.block

Stops ==
  /\ Stage' = "closein" /\ Place' = "closing" /\ Keeps /\ FilesStay
  /\ \/ /\ Stage = "top"
        /\ run.prog.order \in {"next", "down"} => st.left = 0
        /\ run.prog.order = "shuffled" => st.todo = {}
        /\ run.prog.order = "stride" => st.written >= st.left
     \/ /\ Stage = "read" /\ run.prog.order # "down"
        /\ run.prog.order # "stride" \/ st.block >= 1 => Origin >= Len(run.in.data)

Writes ==
  /\ GoesOn /\ Stage = "write" /\ Put = Len(st.buf) /\ Put' = 0 /\ OutP!Seen' = OutP!Seen
  /\ Origin' = Origin + Len(st.buf) /\ WriteAt' = WriteAt + Len(st.buf)
  /\ st'.todo = st.todo
  /\ IF run.prog.order = "stride" THEN st' = Onward(Stride([st EXCEPT !.written = @ + Len(st.buf)]))
     ELSE /\ st'.pos = st.pos /\ st'.written = st.written /\ st'.block = st.block
          /\ st'.left = IF run.prog.order = "next" /\ run.prog.unit = "char" THEN st.left - 1 ELSE st.left

Effect ==
  Waits \/ Retries \/ Goes \/ Sizes \/ Divides \/ Loops \/ Stops \/ Writes

(* What is left of a sequence when part of it is gone.                     *)
LEMMA LenLess ==
  ASSUME NEW s \in Seq(Nat), NEW t \in Seq(Nat), Len(t) <= Len(s)
  PROVE  Len(s) - Len(t) \in 0..Len(s)
OBVIOUS

(* And when none is.                                                       *)
LEMMA WholeIs ==
  ASSUME NEW s \in Seq(Nat)
  PROVE  Len(s) <= Len(s) /\ SubSeq(s, Len(s) - Len(s) + 1, Len(s)) = s
<1>1. Len(s) \in Nat
  BY LenProperties
<1>2. Len(s) - Len(s) + 1 = 1 /\ Len(s) <= Len(s)
  BY <1>1
<1>. QED BY <1>2, SubSeqFull

(* A sequence of one, if it is no more and not empty.                      *)
LEMMA OneIs ==
  ASSUME NEW s \in Seq(Nat), s # << >>, Len(s) <= 1
  PROVE  Len(s) = 1
<1>. DEFINE n == Len(s)
<1>1. n \in Nat /\ n # 0 /\ n <= 1
  BY EmptySeq, LenProperties
<1>. HIDE DEF n
<1>2. n = 1
  BY <1>1
<1>. QED BY <1>2 DEF n

(* What the parts of the invariant say of the state.                       *)
LEMMA CallsAre ==
  ASSUME CallsInv
  PROVE  /\ run \in Runs /\ st \in StType /\ inF.pos \in Nat /\ outF.pos \in Nat
         /\ st.sent \in BOOLEAN /\ st.left \in Int /\ st.pos \in Nat /\ st.block \in Nat
         /\ st.buf \in Seq(Nat) /\ Len(st.buf) \in Nat
         /\ inCall.got \in Seq(Nat) /\ Len(inCall.got) \in Nat /\ inCall.want \in Nat
         /\ outCall.bytes \in Seq(Nat) /\ Len(outCall.bytes) \in Nat
         /\ Held \in Seq(Nat) /\ Len(Held) \in Nat /\ Origin \in Nat /\ Put \in 0..Len(st.buf)
         /\ Stage = StageAt(st.pc) /\ Sits(Stage, Place)
         /\ run.in.data \in Seq(Nat) /\ Len(run.in.data) \in Nat
<1>1. /\ run \in Runs /\ st \in StType /\ Stage = StageAt(st.pc) /\ Sits(Stage, Place)
      /\ run.in.data \in Seq(Nat)
  BY IsAt, RunIs DEF CallsInv, ProgramInv
<1>2. /\ inF.pos \in Nat /\ outF.pos \in Nat /\ inCall.got \in Seq(Nat) /\ inCall.want \in Nat
      /\ outCall.bytes \in Seq(Nat)
  BY FilesAre DEF CallsInv, InGood, OutGood
<1>3. /\ st.sent \in BOOLEAN /\ st.left \in Int /\ st.pos \in Nat /\ st.block \in Nat
      /\ st.buf \in Seq(Nat)
  BY <1>1 DEF StType
<1>4. /\ Len(st.buf) \in Nat /\ Len(inCall.got) \in Nat /\ Len(outCall.bytes) \in Nat
      /\ Len(run.in.data) \in Nat
  BY <1>1, <1>2, <1>3, LenProperties
<1>5. Held \in Seq(Nat) /\ Len(Held) \in Nat
  <2>1. << >> \in Seq(Nat)
    OBVIOUS
  <2>2. Held \in Seq(Nat)
    BY <1>2, <1>3, <2>1 DEF Held
  <2>. QED BY <2>2, LenProperties
<1>6. Origin \in Nat
  BY <1>2, <1>5 DEF CallsInv, HeldInv, Origin
<1>7. Put \in 0..Len(st.buf)
  <2>1. st.sent /\ Stage = "write" => Len(outCall.bytes) <= Len(st.buf)
    BY DEF CallsInv, OutCallInv
  <2>2. st.sent /\ Stage = "write" => Len(st.buf) - Len(outCall.bytes) \in 0..Len(st.buf)
    BY <1>2, <1>3, <2>1, LenLess
  <2>3. 0 \in 0..Len(st.buf)
    BY <1>4
  <2>. QED BY <2>2, <2>3 DEF Put
<1>. QED BY <1>1, <1>2, <1>3, <1>4, <1>5, <1>6, <1>7

(* A program begins with files that have just been opened.                 *)
LEMMA InitCalls == Init => CallsInv
<1>. SUFFICES ASSUME Init PROVE CallsInv
  OBVIOUS
<1>1. run \in Runs /\ In!Opened(run.in) /\ Out!Opened(run.out)
  BY DEF Init
<1>2. /\ InGood /\ inF.tag = inF.end /\ inF.pos \in Nat /\ inCall.op = "idle" /\ ~inCall.failed
  BY <1>1, InOpened, FilesAre DEF In!NoCall, InGood
<1>3. OutGood /\ ~outF.dirty /\ outCall.op = "idle" /\ ~outCall.failed
  BY <1>1, OutOpened DEF Out!NoCall
<1>4. /\ st.pc = 1 /\ ~st.sent /\ st.block = run.block
      /\ st \in StType
  <2>1. /\ run.size \in Int /\ run.at \in Nat /\ run.block \in Nat /\ << >> \in Seq(Nat)
    BY <1>1, RunIs
  <2>. QED BY <2>1 DEF Init, StType
<1>5. /\ ProgramInv /\ Sits(Stage, Place) /\ Begins(Stage, Place)
  <2>1. 1 \in 1..Len(Stages) /\ Begins(StageAt(1), PlaceAt(1))
    BY <1>1, RunIs
  <2>2. ProgramInv
    BY <1>1, <1>4, <2>1 DEF ProgramInv
  <2>. QED BY <1>4, <2>1, <2>2, IsAt DEF Place
<1>6. Held = << >>
  BY <1>4, <1>5 DEF Held, Begins
<1>7. HeldInv
  BY <1>2, <1>6 DEF HeldInv, InP!Shows
<1>8. InSought /\ OutSought /\ BufInv /\ FlushInv
  <2>1. InSought
    BY <1>2, <1>5 DEF InSought, SeeksInput, Begins
  <2>2. OutSought
    BY <1>5, OrdersAre DEF OutSought, Unsought, Begins, Sits
  <2>3. BufInv /\ FlushInv
    BY <1>3, <1>4, <1>5 DEF BufInv, FlushInv, Begins
  <2>. QED BY <2>1, <2>2, <2>3
<1>9. InCallInv /\ OutCallInv
  BY <1>2, <1>3, <1>4, <1>5 DEF InCallInv, OutCallInv, InAsked, OutAsked, Begins, Sits
<1>. QED BY <1>2, <1>3, <1>5, <1>7, <1>8, <1>9 DEF CallsInv

-----------------------------------------------------------------------------
(* Every step keeps the invariant and has one of the effects.              *)

(* Nothing happens to the files.                                           *)
LEMMA Untouched ==
  ASSUME CallsInv, UNCHANGED <<inVars, outVars, run>>
  PROVE  /\ InGood' /\ OutGood' /\ OutP!Seen' = OutP!Seen
         /\ inF' = inF /\ inCall' = inCall /\ inRet' = inRet
         /\ outF' = outF /\ outCall' = outCall /\ outRet' = outRet
BY InElsewhere, OutElsewhere DEF CallsInv, inVars, outVars

(* A stage at which nothing is asked, or that is over.                     *)
Over ==
  /\ inCall.op \in {"idle", "closed"} /\ ~inCall.failed
  /\ outCall.op \in {"idle", "closed"} /\ ~outCall.failed
  /\ Stage = "zeroin" => run.in.seekable
  /\ Stage \in {"zeroout", "seekout"} => run.out.seekable
  /\ Stage = "flush" /\ run.flush => ~outF.dirty
  /\ Stage = "closeout" => ~outF.dirty

(* The stage after it begins.                                              *)
LEMMA GoesFromOver ==
  ASSUME CallsInv, UNCHANGED <<inVars, outVars, run>>, Over, Stage \notin {"read", "write", "done"},
         NEW s \in StType, s.pc = st.pc, s.buf = st.buf, s.block = st.block, st' = Onward(s)
  PROVE  /\ CallsInv' /\ GoesOn /\ FilesStay
         /\ st'.left = s.left /\ st'.pos = s.pos /\ st'.written = s.written
         /\ st'.block = s.block /\ st'.buf = s.buf /\ st'.todo = s.todo
<1>1. /\ InGood' /\ OutGood' /\ OutP!Seen' = OutP!Seen
      /\ inF' = inF /\ inCall' = inCall /\ outF' = outF /\ outCall' = outCall
  BY Untouched
<1>2. /\ ProgramInv' /\ Sits(Stage', Place') /\ Follows(Stage, Place, Stage', Place')
      /\ Sits(Stage, Place) /\ ~st'.sent /\ st'.left = s.left /\ st'.pos = s.pos
      /\ st'.written = s.written /\ st'.block = s.block /\ st'.buf = s.buf /\ st'.todo = s.todo
  BY GoesOnward DEF CallsInv
<1>3. run' = run /\ Place' = "holding" <=> Place = "holding"
  BY <1>2 DEF Follows, Sits
<1>4. Stage' = "done" => Stage = "closeout"
  BY <1>2 DEF Follows, Sits
<1>5. InSought'
  <2>1. CASE SeeksInput
    <3>1. /\ Stage' = "zeroin" => Stage = "size"
          /\ Stage' # "size" /\ (Stage' # "zeroin" => Stage # "size")
      BY <1>2, <2>1 DEF Follows, Sits, SeeksInput
    <3>. QED BY <1>1, <1>2, <1>3, <2>1, <3>1 DEF CallsInv, InSought, NotSought, Over, SeeksInput
  <2>2. CASE ~SeeksInput
    BY <1>3, <2>2 DEF InSought, SeeksInput
  <2>. QED BY <2>1, <2>2
<1>12. OutSought'
  <2>1. CASE run.out.seekable
    BY <1>3, <2>1 DEF OutSought
  <2>2. CASE ~run.out.seekable
    <3>1. Stage \in Unsought /\ Stage \notin {"zeroout", "seekout"}
      BY <2>2 DEF CallsInv, OutSought, Over
    <3>2. Stage' \in Unsought
      BY <1>2, <3>1 DEF Unsought, Follows, Sits
    <3>. QED BY <1>3, <3>2 DEF OutSought, Unsought
  <2>. QED BY <2>1, <2>2
<1>6. BufInv'
  BY <1>2, <1>3 DEF CallsInv, BufInv
<1>7. InCallInv' /\ OutCallInv'
  BY <1>1, <1>2, <1>4 DEF InCallInv, OutCallInv, InAsked, OutAsked, Over
<1>8. Held' = Held
  BY <1>1, <1>2, <1>3 DEF Held
<1>9. Origin' = Origin /\ HeldInv'
  BY <1>1, <1>3, <1>8 DEF CallsInv, HeldInv, Origin
<1>10. Put = 0 /\ Put' = 0 /\ WriteAt' = WriteAt
  BY <1>1, <1>2 DEF Put, WriteAt
<1>11. FlushInv'
  <2>1. Place' \in {"setup", "top", "fetching"} =>
          Place \in {"setup", "top", "fetching"} \/ Stage = "flush"
    BY <1>2 DEF Follows, Sits
  <2>. QED BY <1>1, <1>3, <2>1 DEF CallsInv, FlushInv, Over
<1>. QED BY <1>1, <1>2, <1>5, <1>6, <1>7, <1>9, <1>10, <1>11, <1>12 DEF CallsInv, GoesOn, FilesStay

(* Nothing but the way the program has exited changes, if that.            *)
LEMMA NothingMoves ==
  ASSUME CallsInv, UNCHANGED <<inVars, outVars, run>>, st' \in StType,
         st'.pc = st.pc, st'.sent = st.sent, st'.buf = st.buf, Keeps,
         \/ st'.exit = st.exit
         \/ inCall.op \in {"idle", "closed"} /\ outCall.op \in {"idle", "closed"}
  PROVE  CallsInv' /\ Waits
<1>1. /\ InGood' /\ OutGood' /\ OutP!Seen' = OutP!Seen
      /\ inF' = inF /\ inCall' = inCall /\ inRet' = inRet
      /\ outF' = outF /\ outCall' = outCall /\ outRet' = outRet /\ run' = run
  BY Untouched
<1>2. ProgramInv' /\ Stage' = Stage /\ Place' = Place /\ Sits(Stage, Place)
  BY <1>1, Stays DEF CallsInv
<1>3. st'.pos = st.pos /\ st'.block = st.block
  BY DEF Keeps
<1>4. InSought' /\ OutSought'
  BY <1>1, <1>2 DEF CallsInv, InSought, OutSought, Unsought, NotSought, SeeksInput
<1>5. BufInv' /\ FlushInv'
  BY <1>1, <1>2, <1>3 DEF CallsInv, BufInv, FlushInv
<1>6. InCallInv'
  BY <1>1, <1>2, <1>3 DEF CallsInv, InCallInv, InAsked
<1>7. OutCallInv'
  BY <1>1, <1>2, <1>3 DEF CallsInv, OutCallInv, OutAsked
<1>8. Held' = Held /\ Put' = Put
  BY <1>1, <1>2 DEF Held, Put
<1>9. Origin' = Origin /\ HeldInv' /\ WriteAt' = WriteAt
  BY <1>1, <1>8 DEF CallsInv, HeldInv, Origin, WriteAt
<1>. QED BY <1>1, <1>2, <1>4, <1>5, <1>6, <1>7, <1>8, <1>9 DEF CallsInv, Waits

(* The program exits.                                                      *)
LEMMA Exits ==
  ASSUME CallsInv, UNCHANGED <<inVars, outVars, run>>, NEW how \in {"failed", "assert"},
         st' = Exit(st, how), inCall.op \in {"idle", "closed"}, outCall.op \in {"idle", "closed"}
  PROVE  CallsInv' /\ Waits
<1>1. st \in StType
  BY CallsAre
<1>2. /\ st' \in StType /\ st'.pc = st.pc /\ st'.sent = st.sent /\ st'.buf = st.buf /\ Keeps
  BY <1>1 DEF Exit, StType, Keeps
<1>. QED BY <1>2, NothingMoves

(* The program leaves its loop, with nothing held.                         *)
LEMMA LeavesLoop ==
  ASSUME CallsInv, UNCHANGED <<inVars, outVars, run>>, Stage \in {"top", "read"}, Held = << >>,
         inCall.op \in {"idle", "closed"}, outCall.op \in {"idle", "closed"}, st' = Leave(st)
  PROVE  CallsInv' /\ Stage' = "closein" /\ Place' = "closing" /\ Keeps /\ FilesStay
<1>1. /\ InGood' /\ OutGood' /\ OutP!Seen' = OutP!Seen
      /\ inF' = inF /\ inCall' = inCall /\ outF' = outF /\ outCall' = outCall /\ run' = run
  BY Untouched
<1>2. /\ ProgramInv' /\ Stage' = "closein" /\ Place' = "closing" /\ ~st'.sent
      /\ st'.buf = st.buf /\ Keeps
  BY <1>1, Leaves DEF CallsInv, Keeps
<1>3. Sits(Stage, Place)
  BY CallsAre
<1>4. InSought' /\ OutSought'
  <2>1. SeeksInput => run.in.seekable
    BY DEF CallsInv, InSought
  <2>2. Unsought = Names \/ run.out.seekable
    BY DEF CallsInv, OutSought, Unsought
  <2>. QED BY <1>1, <1>2, <2>1, <2>2 DEF InSought, NotSought, SeeksInput, OutSought, Unsought, Names
<1>5. BufInv' /\ FlushInv'
  BY <1>1, <1>2 DEF CallsInv, BufInv, FlushInv, Keeps
<1>6. InCallInv' /\ OutCallInv'
  BY <1>1, <1>2 DEF CallsInv, InCallInv, OutCallInv, InAsked, OutAsked
<1>7. Held' = Held /\ Put = 0 /\ Put' = 0
  BY <1>2 DEF Held, Put
<1>8. Origin' = Origin /\ HeldInv' /\ WriteAt' = WriteAt
  BY <1>1, <1>7 DEF CallsInv, HeldInv, Origin, WriteAt
<1>. QED BY <1>1, <1>2, <1>4, <1>5, <1>6, <1>7, <1>8 DEF CallsInv, FilesStay

(* What is known of a stage at which nothing is asked.                     *)
LEMMA AsksNothing ==
  ASSUME CallsInv, \/ Stage \in {"size", "blocks", "top", "clear"}
                   \/ Stage = "flush" /\ ~run.flush
                   \/ ~st.sent
  PROVE  /\ inCall.op \in {"idle", "closed"} /\ ~inCall.failed
         /\ outCall.op \in {"idle", "closed"} /\ ~outCall.failed
<1>1. Stage = "flush" /\ st.sent => run.flush
  BY DEF CallsInv, BufInv
<1>. QED BY <1>1 DEF CallsInv, InCallInv, OutCallInv, InAsked, OutAsked

(* The size of the input is asked for.                                     *)
LEMMA SizeStep ==
  ASSUME CallsInv, Size
  PROVE  CallsInv' /\ Effect
<1>1. Stage = "size" /\ UNCHANGED <<inVars, outVars, run>> /\ st \in StType
  BY CallsAre DEF Size, Quiet
<1>2. Over
  BY <1>1, AsksNothing DEF Over
<1>3. ASSUME NEW n \in Int, n = (IF st.left >= 0 THEN st.left ELSE Len(run.in.data)),
             st' = Onward([st EXCEPT !.left = n])
      PROVE  CallsInv' /\ Sizes
  <2>. DEFINE s == [st EXCEPT !.left = n]
  <2>1. /\ s \in StType /\ s.pc = st.pc /\ s.buf = st.buf /\ s.block = st.block
        /\ s.left = n /\ s.pos = st.pos /\ s.written = st.written /\ s.todo = st.todo
    BY <1>1 DEF StType
  <2>. HIDE DEF s
  <2>2. st' = Onward(s)
    BY <1>3 DEF s
  <2>. QED BY <1>1, <1>2, <1>3, <2>1, <2>2, GoesFromOver DEF Sizes
<1>4. CASE st.left >= 0
  <2>1. st' = Onward(st) /\ st.left \in Int
    BY <1>4, CallsAre DEF Size
  <2>2. st = [st EXCEPT !.left = st.left]
    BY <1>1 DEF StType
  <2>3. st' = Onward([st EXCEPT !.left = st.left])
    BY <2>1, <2>2
  <2>. QED BY <1>3, <1>4, <2>1, <2>3 DEF Effect
<1>5. CASE ~(st.left >= 0) /\ ~run.regular
  BY <1>1, <1>2, <1>5, Exits DEF Size, Over, Effect
<1>6. CASE ~(st.left >= 0) /\ run.regular
  <2>1. Len(run.in.data) \in Int /\ st' = Onward([st EXCEPT !.left = Len(run.in.data)])
    BY <1>6, CallsAre DEF Size
  <2>. QED BY <1>3, <1>6, <2>1 DEF Effect
<1>. QED BY <1>4, <1>5, <1>6

(* The blocks are counted.                                                 *)
LEMMA BlocksStep ==
  ASSUME CallsInv, Blocks
  PROVE  CallsInv' /\ Effect
<1>1. Stage = "blocks" /\ UNCHANGED <<inVars, outVars, run>> /\ st \in StType
  BY CallsAre DEF Blocks, Quiet
<1>2. Over
  BY <1>1, AsksNothing DEF Over
<1>3. CASE st.left % st.block # 0
  BY <1>1, <1>2, <1>3, Exits DEF Blocks, Over, Effect
<1>4. CASE st.left % st.block = 0
  <2>. DEFINE t == 0..(st.left \div st.block - 1)
              s == [st EXCEPT !.todo = t]
  <2>1. t \in SUBSET Nat
    <3>1. \A i \in t : i \in Nat
      OBVIOUS
    <3>. QED BY <3>1
  <2>2. st' = Onward(s)
    BY <1>4 DEF Blocks
  <2>. HIDE DEF t
  <2>3. /\ s \in StType /\ s.pc = st.pc /\ s.buf = st.buf /\ s.block = st.block
        /\ s.left = st.left /\ s.pos = st.pos /\ s.written = st.written /\ s.todo = t
    BY <1>1, <2>1 DEF StType
  <2>. HIDE DEF s
  <2>4. /\ CallsInv' /\ GoesOn /\ FilesStay /\ st'.todo = t
        /\ st'.left = st.left /\ st'.pos = st.pos /\ st'.written = st.written /\ st'.block = st.block
    BY <1>1, <1>2, <2>2, <2>3, GoesFromOver
  <2>. QED BY <1>1, <1>4, <2>4 DEF Divides, Effect, t
<1>. QED BY <1>3, <1>4

(* errno is cleared, or there is nothing to flush.                         *)
LEMMA PassesStep ==
  ASSUME CallsInv, ClearErrno \/ NoFlush
  PROVE  CallsInv' /\ Effect
<1>1. /\ Stage = "clear" \/ (Stage = "flush" /\ ~run.flush)
      /\ UNCHANGED <<inVars, outVars, run>> /\ st \in StType /\ st' = Onward(st)
  BY CallsAre DEF ClearErrno, NoFlush, Quiet
<1>2. Over
  BY <1>1, AsksNothing DEF Over
<1>3. /\ CallsInv' /\ GoesOn /\ FilesStay /\ Keeps /\ st'.buf = st.buf
  BY <1>1, <1>2, GoesFromOver DEF Keeps
<1>. QED BY <1>1, <1>3 DEF Goes, Effect

(* The loop begins again, or ends.                                         *)
LEMMA LoopingStep ==
  ASSUME CallsInv, Looping, run.prog.order = "down" => st.left >= 0
  PROVE  CallsInv' /\ Effect
<1>1. Stage = "top" /\ UNCHANGED <<inVars, outVars, run>> /\ st \in StType /\ Sits(Stage, Place)
  BY CallsAre DEF Looping, Quiet
<1>2. Over /\ Held = << >>
  BY <1>1, AsksNothing DEF Over, Held, Sits
<1>3. run.prog.order \in {"next", "down", "shuffled", "stride"}
  BY CallsAre, UnitsAre
<1>4. st' = Leave(st) => CallsInv' /\ Stage' = "closein" /\ Place' = "closing" /\ Keeps /\ FilesStay
  BY <1>1, <1>2, LeavesLoop DEF Over
<1>5. ASSUME NEW s \in StType, s.pc = st.pc, s.buf = st.buf, s.block = st.block, st' = Onward(s)
      PROVE  /\ CallsInv' /\ GoesOn /\ FilesStay
             /\ st'.left = s.left /\ st'.pos = s.pos /\ st'.written = s.written
             /\ st'.block = s.block /\ st'.todo = s.todo
  BY <1>1, <1>2, <1>5, GoesFromOver
<1>6. st' = Onward(st) => CallsInv' /\ GoesOn /\ FilesStay /\ Keeps
  BY <1>1, <1>5 DEF Keeps
<1>7. CASE run.prog.order = "next"
  <2>1. st' = IF st.left = 0 THEN Leave(st) ELSE Onward(st)
    BY <1>7 DEF Looping
  <2>2. CASE st.left = 0
    BY <1>1, <1>4, <1>7, <2>1, <2>2 DEF Stops, Effect
  <2>3. CASE st.left # 0
    BY <1>1, <1>6, <1>7, <2>1, <2>3 DEF Loops, Keeps, Effect
  <2>. QED BY <2>2, <2>3
<1>8. CASE run.prog.order = "down"
  <2>1. st' = IF st.left = 0 THEN Leave(st)
              ELSE Onward([st EXCEPT !.left = @ - 1, !.pos = st.left - 1])
    BY <1>8 DEF Looping
  <2>2. CASE st.left = 0
    BY <1>1, <1>4, <1>8, <2>1, <2>2 DEF Stops, Effect
  <2>3. CASE st.left # 0
    <3>. DEFINE n == st.left - 1
                s == [st EXCEPT !.left = n, !.pos = n]
    <3>1. n \in Nat /\ n \in Int
      BY <1>8, <2>3, CallsAre
    <3>3. st' = Onward(s)
      BY <2>1, <2>3
    <3>. HIDE DEF n
    <3>2. /\ s \in StType /\ s.pc = st.pc /\ s.buf = st.buf /\ s.block = st.block
          /\ s.left = n /\ s.pos = n /\ s.written = st.written /\ s.todo = st.todo
      BY <1>1, <3>1 DEF StType
    <3>. HIDE DEF s
    <3>4. /\ CallsInv' /\ GoesOn /\ FilesStay /\ st'.left = n /\ st'.pos = n
          /\ st'.written = st.written /\ st'.block = st.block /\ st'.todo = st.todo
      BY <1>5, <3>2, <3>3
    <3>. QED BY <1>1, <1>8, <2>3, <3>4 DEF Loops, Effect, n
  <2>. QED BY <2>2, <2>3
<1>9. CASE run.prog.order = "stride"
  <2>1. st' = IF st.written >= st.left THEN Leave(st) ELSE Onward(st)
    BY <1>9 DEF Looping
  <2>2. CASE st.written >= st.left
    BY <1>1, <1>4, <1>9, <2>1, <2>2 DEF Stops, Effect
  <2>3. CASE ~(st.written >= st.left)
    <3>1. st.written < st.left
      BY <1>1, <2>3 DEF StType
    <3>. QED BY <1>1, <1>6, <1>9, <2>1, <2>3, <3>1 DEF Loops, Keeps, Effect
  <2>. QED BY <2>2, <2>3
<1>10. CASE run.prog.order = "shuffled"
  <2>1. IF st.todo = {} THEN st' = Leave(st)
        ELSE \E b \in st.todo : st' = Onward([st EXCEPT !.todo = @ \ {b}, !.pos = b * st.block])
    BY <1>10 DEF Looping
  <2>2. CASE st.todo = {}
    BY <1>1, <1>4, <1>10, <2>1, <2>2 DEF Stops, Effect
  <2>3. CASE st.todo # {}
    <3>1. PICK b \in st.todo : st' = Onward([st EXCEPT !.todo = @ \ {b}, !.pos = b * st.block])
      BY <2>1, <2>3
    <3>. DEFINE p == b * st.block
                s == [st EXCEPT !.todo = @ \ {b}, !.pos = p]
    <3>2. b \in Nat /\ st.block \in Nat
      BY <1>1 DEF StType
    <3>3. p \in Nat
      BY <3>2
    <3>4. st' = Onward(s)
      BY <3>1
    <3>. HIDE DEF p
    <3>5. st.todo \ {b} \in SUBSET Nat
      BY <1>1 DEF StType
    <3>6. /\ s \in StType /\ s.pc = st.pc /\ s.buf = st.buf /\ s.block = st.block
          /\ s.left = st.left /\ s.pos = p /\ s.written = st.written /\ s.todo = st.todo \ {b}
      BY <1>1, <3>3, <3>5 DEF StType
    <3>. HIDE DEF s
    <3>7. /\ CallsInv' /\ GoesOn /\ FilesStay /\ st'.todo = st.todo \ {b} /\ st'.pos = b * st.block
          /\ st'.left = st.left /\ st'.written = st.written /\ st'.block = st.block
      BY <1>5, <3>4, <3>6 DEF p
    <3>. QED BY <1>1, <1>10, <3>1, <3>7 DEF Loops, Effect
  <2>. QED BY <2>2, <2>3
<1>. QED BY <1>3, <1>7, <1>8, <1>9, <1>10

(* A call on the input is made.                                            *)
LEMMA SendInStep ==
  ASSUME CallsInv, SeekFits, SendIn
  PROVE  CallsInv' /\ Effect
<1>1. /\ st \in StType /\ run' = run /\ UNCHANGED outVars /\ ~st.sent /\ st.exit = "none"
      /\ Sits(Stage, Place) /\ st.pos \in Nat /\ st.block \in Nat /\ InGood /\ run \in Runs
  BY CallsAre DEF SendIn, Running, CallsInv
<1>2. /\ st' \in StType /\ st'.sent /\ st'.pc = st.pc /\ st'.buf = st.buf /\ st'.exit = st.exit
      /\ Keeps
  BY <1>1 DEF SendIn, Sent, StType, Keeps
<1>3. ProgramInv' /\ Stage' = Stage /\ Place' = Place
  BY <1>1, <1>2, Stays DEF CallsInv
<1>4. /\ OutGood' /\ OutP!Seen' = OutP!Seen
      /\ outF' = outF /\ outCall' = outCall /\ outRet' = outRet
  BY <1>1, OutElsewhere DEF CallsInv, outVars
<1>5. /\ inCall.op \in {"idle", "closed"} /\ ~outCall.failed /\ outCall.op \in {"idle", "closed"}
  BY <1>1, AsksNothing
<1>6. /\ Stage \in {"zeroin", "seekin", "read", "closein"}
      /\ InGood' /\ inF'.pos = inF.pos /\ ~inCall'.failed
      /\ Stage \in {"zeroin", "seekin"} =>
           /\ inCall'.op = "seek" /\ inF' = inF
           /\ inCall'.off = IF Stage = "zeroin" THEN 0 ELSE st.pos
      /\ Stage = "read" =>
           /\ inCall'.op \in {"read", "readc"} /\ inCall'.got = << >> /\ inCall'.want \in Nat
           /\ run.prog.unit = "char" => inCall'.want = 1
           /\ run.prog.unit = "block" => inCall'.want = st.block
           /\ inCall'.want >= 1 \/ (run.prog.unit = "block" /\ inCall'.want = st.block)
      /\ Stage = "closein" => inCall'.op = "close"
  <2>1. CASE Stage = "zeroin" /\ In!StartSeek(0)
    BY <1>1, <2>1, InStarts
  <2>2. CASE Stage = "seekin" /\ In!StartSeek(st.pos)
    BY <1>1, <2>2, InStarts DEF SeekFits
  <2>3. CASE Stage = "read" /\ In!StartRead("readc", 1) /\ run.prog.unit = "char"
    BY <1>1, <2>3, InStarts
  <2>4. CASE Stage = "read" /\ In!StartRead("read", st.block) /\ run.prog.unit = "block"
    BY <1>1, <2>4, InStarts
  <2>5. CASE /\ Stage = "read" /\ run.prog.unit = "random"
             /\ \E n \in 1..st.block : In!StartRead("read", n)
    <3>1. PICK n \in 1..st.block : In!StartRead("read", n)
      BY <2>5
    <3>2. n \in Nat /\ n >= 1
      BY <1>1, <3>1
    <3>. QED BY <1>1, <2>5, <3>1, <3>2, InStarts
  <2>6. CASE Stage = "closein" /\ In!StartFlush("close")
    BY <1>1, <2>6, InStarts
  <2>. QED BY <2>1, <2>2, <2>3, <2>4, <2>5, <2>6 DEF SendIn
<1>7. InSought' /\ OutSought'
  BY <1>1, <1>3, <1>4, <1>6, <1>2 DEF CallsInv, InSought, OutSought, Unsought, NotSought, SeeksInput
<1>8. BufInv' /\ FlushInv'
  BY <1>1, <1>2, <1>3, <1>4, <1>6 DEF CallsInv, BufInv, FlushInv, Keeps
<1>9. InCallInv'
  <2>1. Stage = "read" /\ run.prog.order # "stride" => inCall'.want >= 1
    <3>1. run.prog.order # "stride" => st.block >= 1
      BY <1>1, RunIs DEF CallsInv, BufInv
    <3>. QED BY <1>6, <3>1
  <2>2. Stage = "read" => Len(inCall'.got) <= inCall'.want
    BY <1>6
  <2>3. InAsked'
    BY <1>1, <1>2, <1>3, <1>6 DEF InAsked
  <2>4. st'.pos = st.pos /\ st'.block = st.block
    BY <1>2 DEF Keeps
  <2>. QED BY <1>1, <1>3, <1>6, <2>1, <2>2, <2>3, <2>4 DEF InCallInv
<1>10. OutCallInv'
  BY <1>1, <1>3, <1>4, <1>5, <1>6 DEF CallsInv, OutCallInv, OutAsked
<1>11. Held' = Held /\ Put = 0 /\ Put' = 0
  BY <1>1, <1>2, <1>3, <1>6 DEF Held, Put, Sits
<1>12. Origin' = Origin /\ HeldInv' /\ WriteAt' = WriteAt
  BY <1>1, <1>4, <1>6, <1>11 DEF CallsInv, HeldInv, Origin, WriteAt
<1>. QED BY <1>2, <1>3, <1>4, <1>6, <1>7, <1>8, <1>9, <1>10, <1>11, <1>12 DEF CallsInv, Waits, Effect

(* A call on the output is made.                                           *)
LEMMA SendOutStep ==
  ASSUME CallsInv, SendOut
  PROVE  CallsInv' /\ Effect
<1>1. /\ st \in StType /\ run' = run /\ UNCHANGED inVars /\ ~st.sent /\ st.exit = "none"
      /\ Sits(Stage, Place) /\ st.pos \in Nat /\ st.buf \in Seq(Nat) /\ OutGood
  BY CallsAre DEF SendOut, Running, CallsInv
<1>2. /\ st' \in StType /\ st'.sent /\ st'.pc = st.pc /\ st'.buf = st.buf /\ st'.exit = st.exit
      /\ Keeps
  BY <1>1 DEF SendOut, Sent, StType, Keeps
<1>3. ProgramInv' /\ Stage' = Stage /\ Place' = Place
  BY <1>1, <1>2, Stays DEF CallsInv
<1>4. InGood' /\ inF' = inF /\ inCall' = inCall /\ inRet' = inRet
  BY <1>1, InElsewhere DEF CallsInv, inVars
<1>5. /\ inCall.op \in {"idle", "closed"} /\ ~inCall.failed
      /\ outCall.op \in {"idle", "closed"} /\ ~outCall.failed
  BY <1>1, AsksNothing
<1>6. /\ Stage \in {"zeroout", "seekout", "write", "flush", "closeout"}
      /\ OutGood' /\ outF' = outF /\ OutP!Seen' = OutP!Seen /\ ~outCall'.failed
      /\ Stage \in {"zeroout", "seekout"} =>
           outCall'.op = "seek" /\ outCall'.off = IF Stage = "zeroout" THEN 0 ELSE st.pos
      /\ Stage = "write" =>
           /\ outCall'.op \in {"write", "writec"} /\ outCall'.want = Len(st.buf)
           /\ outCall'.bytes = st.buf
      /\ Stage = "flush" => outCall'.op = "flush" /\ run.flush
      /\ Stage = "closeout" => outCall'.op = "close"
  <2>1. CASE Stage = "zeroout" /\ Out!StartSeek(0)
    BY <1>1, <1>5, <2>1, OutStarts
  <2>2. CASE Stage = "seekout" /\ Out!StartSeek(st.pos)
    BY <1>1, <1>5, <2>2, OutStarts
  <2>3. CASE /\ Stage = "write"
             /\ Out!StartWrite(IF run.prog.unit = "char" THEN "writec" ELSE "write", st.buf)
    BY <1>1, <1>5, <2>3, OutStarts
  <2>4. CASE Stage = "flush" /\ run.flush /\ Out!StartFlush("flush")
    BY <1>1, <1>5, <2>4, OutStarts
  <2>5. CASE Stage = "closeout" /\ Out!StartFlush("close")
    BY <1>1, <1>5, <2>5, OutStarts
  <2>. QED BY <2>1, <2>2, <2>3, <2>4, <2>5 DEF SendOut
<1>7. InSought' /\ OutSought'
  BY <1>1, <1>2, <1>3, <1>4, <1>6 DEF CallsInv, InSought, OutSought, Unsought, NotSought, SeeksInput
<1>8. BufInv' /\ FlushInv'
  BY <1>1, <1>2, <1>3, <1>6 DEF CallsInv, BufInv, FlushInv, Keeps
<1>9. InCallInv'
  BY <1>1, <1>3, <1>4, <1>5, <1>6 DEF CallsInv, InCallInv, InAsked
<1>10. OutCallInv'
  <2>1. Stage = "write" =>
          /\ outCall'.want = Len(st'.buf) /\ Len(outCall'.bytes) <= Len(st'.buf)
          /\ outCall'.bytes = SubSeq(st'.buf, Len(st'.buf) - Len(outCall'.bytes) + 1, Len(st'.buf))
    BY <1>1, <1>2, <1>6, WholeIs
  <2>2. OutAsked'
    BY <1>1, <1>2, <1>3, <1>6 DEF OutAsked
  <2>3. st'.pos = st.pos
    BY <1>2 DEF Keeps
  <2>. QED BY <1>1, <1>3, <1>6, <2>1, <2>2, <2>3 DEF OutCallInv
<1>11. Held' = Held /\ Put = 0 /\ Put' = 0
  <2>1. Held' = Held /\ Put = 0
    BY <1>1, <1>2, <1>3, <1>6 DEF Held, Put
  <2>2. Stage = "write" => Len(st'.buf) - Len(outCall'.bytes) = 0
    BY <1>1, <1>2, <1>6
  <2>. QED BY <1>3, <2>1, <2>2 DEF Put
<1>12. Origin' = Origin /\ HeldInv' /\ WriteAt' = WriteAt
  BY <1>1, <1>4, <1>6, <1>11 DEF CallsInv, HeldInv, Origin, WriteAt
<1>. QED BY <1>2, <1>3, <1>4, <1>6, <1>7, <1>8, <1>9, <1>10, <1>11, <1>12 DEF CallsInv, Waits, Effect

(* The program has read some bytes, and holds them.                        *)
LEMMA ReadGoes ==
  ASSUME CallsInv, UNCHANGED <<inVars, outVars, run>>, Stage = "read", st.sent, inRet > 0,
         inCall.op \in {"idle", "closed"}, st' = Onward([st EXCEPT !.buf = inCall.got])
  PROVE  CallsInv' /\ Goes
<1>1. /\ InGood' /\ OutGood' /\ OutP!Seen' = OutP!Seen
      /\ inF' = inF /\ inCall' = inCall /\ outF' = outF /\ outCall' = outCall /\ run' = run
  BY Untouched
<1>2. /\ st \in StType /\ inCall.got \in Seq(Nat) /\ Len(inCall.got) \in Nat
      /\ Sits(Stage, Place)
  BY CallsAre
<1>. DEFINE s == [st EXCEPT !.buf = inCall.got]
<1>3. /\ s \in StType /\ s.pc = st.pc /\ s.buf = inCall.got /\ s.left = st.left /\ s.pos = st.pos
      /\ s.written = st.written /\ s.block = st.block /\ s.todo = st.todo
  BY <1>2 DEF StType
<1>. HIDE DEF s
<1>4. /\ ProgramInv' /\ GoesOn /\ ~st'.sent /\ Keeps /\ st'.buf = inCall.got
  <2>1. st' = Onward(s)
    BY DEF s
  <2>. QED BY <1>1, <1>3, <2>1, GoesOnward DEF CallsInv, GoesOn, Keeps
<1>5. Place' = "holding" /\ Stage' \in {"clear", "seekout", "write"} /\ Stage' \in Names
  BY <1>4 DEF GoesOn, Follows, Sits
<1>6. /\ Len(inCall.got) <= inCall.want
      /\ IF inCall.got = << >> THEN inRet \in {-1, 0} ELSE inRet = Len(inCall.got)
      /\ run.prog.unit = "char" => inCall.want = 1
      /\ run.prog.unit = "block" => inCall.want = st.block
      /\ Len(inCall.got) = inCall.want \/ inF.pos >= Len(run.in.data)
      /\ ~inCall.failed
  BY DEF CallsInv, InCallInv
<1>7. inCall.got # << >> /\ (run.prog.unit = "char" => Len(inCall.got) = 1)
  <2>1. inCall.got # << >>
    BY <1>6
  <2>. QED BY <1>2, <1>6, <2>1, OneIs
<1>8. InSought' /\ OutSought'
  <2>1. SeeksInput => run.in.seekable
    BY DEF CallsInv, InSought
  <2>2. Unsought = Names \/ run.out.seekable
    BY DEF CallsInv, OutSought, Unsought
  <2>. QED BY <1>1, <1>5, <2>1, <2>2 DEF InSought, NotSought, SeeksInput, OutSought, Unsought
<1>9. BufInv' /\ FlushInv'
  BY <1>1, <1>4, <1>5, <1>6, <1>7 DEF CallsInv, BufInv, FlushInv, Keeps
<1>10. InCallInv' /\ OutCallInv'
  <2>1. outCall.op \in {"idle", "closed"} /\ ~outCall.failed
    BY DEF CallsInv, OutCallInv, OutAsked
  <2>. QED BY <1>1, <1>4, <1>5, <1>6, <2>1 DEF InCallInv, OutCallInv, InAsked, OutAsked
<1>11. Held = inCall.got /\ Held' = inCall.got
  BY <1>1, <1>4, <1>5 DEF Held
<1>12. Origin' = Origin /\ HeldInv'
  BY <1>1, <1>11 DEF CallsInv, HeldInv, Origin
<1>13. Put = 0 /\ Put' = 0 /\ WriteAt' = WriteAt
  BY <1>1, <1>4, <1>5 DEF Put, WriteAt
<1>14. Len(inCall.got) = inCall.want \/ Origin + Len(inCall.got) >= Len(run.in.data)
  <2>1. inF.pos \in Nat /\ Len(Held) \in Nat
    BY CallsAre
  <2>2. Origin + Len(Held) = inF.pos
    BY <2>1 DEF Origin
  <2>. QED BY <1>6, <1>11, <2>2
<1>15. FilesStay
  BY <1>1, <1>12, <1>13 DEF FilesStay
<1>16. Goes
  BY <1>4, <1>6, <1>14, <1>15 DEF Goes
<1>. QED BY <1>1, <1>4, <1>8, <1>9, <1>10, <1>12, <1>16 DEF CallsInv

(* Which stage is tried again.                                             *)
LEMMA RetryIs ==
  ASSUME CallsInv, run' = run, Stage = "read", st' = Retry
  PROVE  /\ ProgramInv' /\ Stage' \in {"read", "clear"} /\ Place' = Place /\ Keeps
         /\ ~st'.sent /\ st'.buf = st.buf
<1>1. /\ run \in Runs /\ st \in StType /\ st.pc \in 1..Len(Stages) /\ Len(Stages) \in Nat
      /\ Stage = StageAt(st.pc) /\ Moves(st.pc) /\ st.pc \in Nat
  BY CallsAre, RunIs DEF CallsInv, ProgramInv, StType
<1>2. st.pc # 1 /\ (StageAt(st.pc - 1) = "clear" => PlaceAt(st.pc - 1) = PlaceAt(st.pc))
  BY <1>1 DEF Moves
<1>3. st.pc - 1 \in 1..Len(Stages) /\ st.pc - 1 \in Nat
  BY <1>1, <1>2
<1>4. Max({1, st.pc - 1}) = st.pc - 1
  BY <1>3 DEF Max
<1>. DEFINE p == IF StageAt(st.pc - 1) = "clear" THEN st.pc - 1 ELSE st.pc
<1>5. p \in 1..Len(Stages) /\ p \in Nat /\ StageAt(p) \in {"read", "clear"} /\ PlaceAt(p) = PlaceAt(st.pc)
  BY <1>1, <1>2, <1>3
<1>6. Retry = [st EXCEPT !.sent = FALSE, !.pc = p]
  BY <1>1, <1>4 DEF Retry, StageAt, StType
<1>. HIDE DEF p
<1>7. /\ st' \in StType /\ st'.pc = p /\ ~st'.sent /\ st'.buf = st.buf /\ Keeps
  BY <1>1, <1>5, <1>6 DEF StType, Keeps
<1>8. Stage' = StageAt(p) /\ Place' = PlaceAt(p) /\ Len(Stages)' = Len(Stages)
  BY <1>7, SameRun
<1>. QED BY <1>1, <1>5, <1>7, <1>8 DEF ProgramInv, Place

(* A careful program tries to read again.                                  *)
LEMMA ReadRetries ==
  ASSUME CallsInv, UNCHANGED <<inVars, outVars, run>>, Stage = "read", st.sent, inRet = -1,
         inCall.op \in {"idle", "closed"}, st' = Retry, run.prog.careful
  PROVE  CallsInv' /\ Retries
<1>1. /\ InGood' /\ OutGood' /\ OutP!Seen' = OutP!Seen
      /\ inF' = inF /\ inCall' = inCall /\ outF' = outF /\ outCall' = outCall /\ run' = run
  BY Untouched
<1>2. /\ ProgramInv' /\ Stage' \in {"read", "clear"} /\ Place' = Place /\ Keeps
      /\ ~st'.sent /\ st'.buf = st.buf
  BY <1>1, RetryIs
<1>3. run.prog.order = "next" /\ Place = "fetching" /\ inCall.got \in Seq(Nat)
  BY CallsAre, UnitsAre DEF Sits
<1>4. inCall.got = << >> /\ ~inCall.failed
  <2>1. /\ IF inCall.got = << >> THEN inRet \in {-1, 0} ELSE inRet = Len(inCall.got)
        /\ ~inCall.failed
    BY DEF CallsInv, InCallInv
  <2>2. Len(inCall.got) # -1
    BY <1>3, LenProperties
  <2>. QED BY <2>1, <2>2
<1>5. InSought' /\ OutSought'
  <2>1. SeeksInput => run.in.seekable
    BY DEF CallsInv, InSought
  <2>2. Unsought = Names \/ run.out.seekable
    BY DEF CallsInv, OutSought, Unsought
  <2>. QED BY <1>1, <1>2, <2>1, <2>2 DEF InSought, NotSought, SeeksInput, OutSought, Unsought, Names
<1>6. BufInv' /\ FlushInv'
  BY <1>1, <1>2, <1>3 DEF CallsInv, BufInv, FlushInv, Keeps
<1>7. InCallInv' /\ OutCallInv'
  <2>1. outCall.op \in {"idle", "closed"} /\ ~outCall.failed
    BY DEF CallsInv, OutCallInv, OutAsked
  <2>. QED BY <1>1, <1>2, <1>4, <2>1 DEF InCallInv, OutCallInv, InAsked, OutAsked
<1>8. Held = << >> /\ Held' = << >>
  BY <1>1, <1>2, <1>3, <1>4 DEF Held
<1>9. Origin' = Origin /\ HeldInv'
  BY <1>1, <1>8 DEF CallsInv, HeldInv, Origin
<1>10. Put = 0 /\ Put' = 0 /\ WriteAt' = WriteAt
  BY <1>1, <1>2 DEF Put, WriteAt
<1>. QED BY <1>1, <1>2, <1>3, <1>5, <1>6, <1>7, <1>9, <1>10 DEF CallsInv, Retries, FilesStay

(* What a call on the input returns.                                       *)
LEMMA InReturnsStep ==
  ASSUME CallsInv, InReturns
  PROVE  CallsInv' /\ Effect
<1>1. /\ UNCHANGED <<inVars, outVars, run>> /\ st.sent /\ inCall.op \in {"idle", "closed"}
      /\ Stage \in {"zeroin", "seekin", "read", "closein"} /\ st \in StType /\ Sits(Stage, Place)
  BY CallsAre DEF InReturns, Quiet
<1>2. outCall.op \in {"idle", "closed"} /\ ~outCall.failed
  BY <1>1 DEF CallsInv, OutCallInv, OutAsked
<1>3. CASE Stage \in {"zeroin", "seekin"}
  <2>1. /\ inCall.off = IF Stage = "zeroin" THEN 0 ELSE st.pos
        /\ IF inCall.failed THEN inRet # 0
           ELSE inRet = 0 /\ inF.pos = inCall.off /\ run.in.seekable
    BY <1>1, <1>3 DEF CallsInv, InCallInv
  <2>2. CASE inRet = 0
    <3>1. Over /\ st' = Onward(st)
      BY <1>1, <1>2, <1>3, <2>1, <2>2 DEF Over, InReturns
    <3>2. CallsInv' /\ GoesOn /\ FilesStay /\ Keeps /\ st'.buf = st.buf
      BY <1>1, <1>3, <3>1, GoesFromOver DEF Keeps
    <3>3. Held = << >>
      BY <1>1, <1>3 DEF Held, Sits
    <3>4. Origin = inF.pos
      BY <3>3, CallsAre DEF Origin
    <3>. QED BY <1>3, <2>1, <2>2, <3>2, <3>4 DEF Goes, Effect
  <2>3. CASE inRet # 0
    BY <1>1, <1>2, <1>3, <2>3, Exits DEF InReturns, Effect
  <2>. QED BY <2>2, <2>3
<1>4. CASE Stage = "read"
  <2>1. IF inCall.got = << >> THEN inRet \in {-1, 0} ELSE inRet = Len(inCall.got)
    BY <1>1, <1>4 DEF CallsInv, InCallInv
  <2>2. st' = IF inRet = -1 /\ Recoverable THEN Retry
              ELSE IF inRet > 0 THEN Onward([st EXCEPT !.buf = inCall.got])
              ELSE IF run.prog.order = "down" THEN Exit(st, "assert")
              ELSE Leave(st)
    BY <1>4 DEF InReturns
  <2>3. CASE inRet = -1 /\ Recoverable
    BY <1>1, <1>4, <2>2, <2>3, ReadRetries DEF Recoverable, Effect
  <2>4. CASE ~(inRet = -1 /\ Recoverable) /\ inRet > 0
    BY <1>1, <1>4, <2>2, <2>4, ReadGoes DEF Effect
  <2>5. CASE ~(inRet = -1 /\ Recoverable) /\ ~(inRet > 0) /\ run.prog.order = "down"
    BY <1>1, <1>2, <2>2, <2>5, Exits DEF Effect
  <2>6. CASE ~(inRet = -1 /\ Recoverable) /\ ~(inRet > 0) /\ run.prog.order # "down"
    <3>1. inCall.got = << >>
      <4>1. inCall.got \in Seq(Nat)
        BY CallsAre
      <4>2. inCall.got # << >> => Len(inCall.got) \in Nat /\ Len(inCall.got) # 0
        BY <4>1, EmptySeq, LenProperties
      <4>. QED BY <2>1, <2>6, <4>2
    <3>2. Held = << >>
      BY <1>1, <1>4, <3>1 DEF Held
    <3>3. CallsInv' /\ Stage' = "closein" /\ Place' = "closing" /\ Keeps /\ FilesStay
      BY <1>1, <1>2, <1>4, <2>2, <2>6, <3>2, LeavesLoop
    <3>4. run.prog.order # "stride" \/ st.block >= 1 => Origin >= Len(run.in.data)
      <4>1. /\ run.prog.order # "stride" => inCall.want >= 1
            /\ run.prog.order = "stride" => inCall.want = st.block
            /\ Len(inCall.got) = inCall.want \/ inF.pos >= Len(run.in.data)
        <5>1. /\ run.prog.order # "stride" => inCall.want >= 1
              /\ run.prog.unit = "block" => inCall.want = st.block
              /\ Len(inCall.got) = inCall.want \/ inF.pos >= Len(run.in.data)
          BY <1>1, <1>4 DEF CallsInv, InCallInv
        <5>2. run.prog.order = "stride" => run.prog.unit = "block"
          BY CallsAre, UnitsAre
        <5>. QED BY <5>1, <5>2
      <4>2. Origin = inF.pos /\ Len(inCall.got) = 0
        BY <3>1, <3>2, CallsAre DEF Origin
      <4>. QED BY <4>1, <4>2
    <3>. QED BY <1>4, <2>6, <3>3, <3>4 DEF Stops, Effect
  <2>. QED BY <2>3, <2>4, <2>5, <2>6
<1>5. CASE Stage = "closein"
  <2>1. ~inCall.failed /\ st' = Onward(st)
    BY <1>5 DEF CallsInv, InCallInv, InReturns
  <2>2. Over
    BY <1>1, <1>2, <1>5, <2>1 DEF Over
  <2>3. CallsInv' /\ GoesOn /\ FilesStay /\ Keeps /\ st'.buf = st.buf
    BY <1>1, <1>5, <2>1, <2>2, GoesFromOver DEF Keeps
  <2>. QED BY <1>5, <2>3 DEF Goes, Effect
<1>. QED BY <1>1, <1>3, <1>4, <1>5

(* The block that is taken fits into its stride.                           *)
StrideFits == run.prog.order = "stride" => (st.pos % run.stride) + st.block <= run.stride

(* The remainder of a number written as a multiple and a small rest.       *)
LEMMA ModUnique ==
  ASSUME NEW n \in Nat \ {0}, NEW q \in Int, NEW r \in 0..(n - 1)
  PROVE  (n * q + r) % n = r
OBVIOUS

(* Remainders.                                                             *)
LEMMA ModIs ==
  ASSUME NEW a \in Nat, NEW n \in Nat \ {0}
  PROVE  /\ a % n \in 0..(n - 1) /\ (a + n) % n = a % n /\ n % n = 0
         /\ a < n => a % n = a
<1>1. a % n \in 0..(n - 1)
  OBVIOUS
<1>2. a \div n \in Int /\ a = (n * (a \div n)) + (a % n)
  OBVIOUS
<1>3. (a + n) % n = a % n
  <2>. DEFINE d == a \div n
              r == a % n
  <2>1. d \in Int /\ r \in 0..(n - 1) /\ a = n * d + r
    BY <1>1, <1>2
  <2>. HIDE DEF d, r
  <2>2. d + 1 \in Int /\ a + n = n * (d + 1) + r
    BY <2>1
  <2>3. (n * (d + 1) + r) % n = r
    BY <2>1, <2>2, ModUnique
  <2>4. (a + n) % n = r
    BY <2>2, <2>3
  <2>. QED BY <2>4 DEF r
<1>4. n % n = 0
  OBVIOUS
<1>5. a < n => a % n = a
  OBVIOUS
<1>. QED BY <1>1, <1>3, <1>4, <1>5

(* And so does the next one.                                               *)
LEMMA StrideIs ==
  ASSUME run \in Runs, NEW s \in StType, (s.pos % run.stride) + s.block <= run.stride
  PROVE  /\ Stride(s) \in StType /\ Stride(s).pc = s.pc /\ Stride(s).buf = s.buf
         /\ Stride(s).left = s.left /\ Stride(s).written = s.written /\ Stride(s).todo = s.todo
         /\ Stride(s).pos = IF s.pos + run.stride < s.left THEN s.pos + run.stride
                            ELSE (s.pos % run.stride) + s.block
         /\ (Stride(s).pos % run.stride) + Stride(s).block <= run.stride
         /\ Stride(s).block =
              IF s.pos + run.stride < s.left
                 \/ s.block <= run.stride - ((s.pos % run.stride) + s.block)
              THEN s.block ELSE run.stride - ((s.pos % run.stride) + s.block)
         /\ Stride(s).block <= s.block
<1>. DEFINE n == run.stride
            p == s.pos + n
            q == (p % n) + s.block
            b == Min({s.block, n - q})
<1>1. n \in Nat \ {0} /\ s.pos \in Nat /\ s.block \in Nat /\ s.left \in Int
  BY RunIs DEF StType
<1>2. p % n = s.pos % n /\ s.pos % n \in 0..(n - 1) /\ n % n = 0
  <2>. HIDE DEF n
  <2>. QED BY <1>1, ModIs
<1>3. p \in Nat /\ q \in Nat /\ q <= n /\ q = (s.pos % n) + s.block
  <2>1. p \in Nat
    BY <1>1
  <2>2. q = (s.pos % n) + s.block
    BY <1>2
  <2>. HIDE DEF p, q
  <2>3. (s.pos % n) + s.block \in Nat
    BY <1>1, <1>2
  <2>. QED BY <2>1, <2>2, <2>3
<1>4. n - q \in Nat
  BY <1>1, <1>3
<1>5. b = IF s.block <= n - q THEN s.block ELSE n - q
  BY <1>1, <1>4 DEF Min
<1>6. b \in Nat /\ b <= s.block /\ b <= n - q
  <2>. HIDE DEF b, q, n
  <2>. QED BY <1>1, <1>4, <1>5
<1>7. (q % n) + b <= n
  <2>1. CASE q = n
    <3>1. q % n = 0
      BY <1>2, <2>1
    <3>. QED BY <1>1, <1>6, <2>1, <3>1
  <2>2. CASE q < n
    <3>1. q % n = q
      <4>. HIDE DEF q, n
      <4>. QED BY <1>1, <1>3, <2>2, ModIs
    <3>. QED BY <1>1, <1>3, <1>6, <3>1
  <2>. QED BY <1>1, <1>3, <2>1, <2>2
<1>8. Stride(s) = IF p < s.left THEN [s EXCEPT !.pos = p] ELSE [s EXCEPT !.pos = q, !.block = b]
  BY DEF Stride
<1>9. CASE p < s.left
  <2>1. Stride(s) = [s EXCEPT !.pos = p]
    BY <1>8, <1>9
  <2>2. (p % n) + s.block <= n
    BY <1>2
  <2>. HIDE DEF p, n
  <2>3. /\ Stride(s) \in StType /\ Stride(s).pc = s.pc /\ Stride(s).buf = s.buf
        /\ Stride(s).left = s.left /\ Stride(s).written = s.written /\ Stride(s).todo = s.todo
        /\ Stride(s).pos = p /\ Stride(s).block = s.block
    BY <1>1, <1>3, <2>1 DEF StType
  <2>. QED BY <1>1, <1>9, <2>2, <2>3 DEF p, n
<1>10. CASE ~(p < s.left)
  <2>1. Stride(s) = [s EXCEPT !.pos = q, !.block = b]
    BY <1>8, <1>10
  <2>. HIDE DEF b, q, p, n
  <2>2. /\ Stride(s) \in StType /\ Stride(s).pc = s.pc /\ Stride(s).buf = s.buf
        /\ Stride(s).left = s.left /\ Stride(s).written = s.written /\ Stride(s).todo = s.todo
        /\ Stride(s).pos = q /\ Stride(s).block = b
    BY <1>1, <1>3, <1>6, <2>1 DEF StType
  <2>. QED BY <1>1, <1>3, <1>5, <1>6, <1>7, <1>10, <2>2 DEF p, n
<1>. QED BY <1>9, <1>10

(* What a write leaves the program with.                                   *)
LEMMA WroteIs ==
  ASSUME CallsInv, StrideFits, outRet = Len(st.buf)
  PROVE  /\ Wrote(st) \in StType /\ Wrote(st).pc = st.pc /\ Wrote(st).buf = st.buf
         /\ Wrote(st).todo = st.todo
         /\ IF run.prog.order = "stride"
            THEN Wrote(st) = Stride([st EXCEPT !.written = @ + Len(st.buf)])
            ELSE /\ Wrote(st).pos = st.pos /\ Wrote(st).written = st.written
                 /\ Wrote(st).block = st.block
                 /\ Wrote(st).left = IF run.prog.order = "next" /\ run.prog.unit = "char"
                                     THEN st.left - 1 ELSE st.left
<1>1. st \in StType /\ run \in Runs /\ Len(st.buf) \in Nat /\ st.written \in Nat /\ st.left \in Int
  BY CallsAre DEF StType
<1>2. CASE run.prog.order = "stride"
  <2>. DEFINE n == st.written + Len(st.buf)
              s == [st EXCEPT !.written = n]
  <2>1. n \in Nat
    BY <1>1
  <2>2. Wrote(st) = Stride(s)
    BY <1>2, <1>1 DEF Wrote
  <2>. HIDE DEF n
  <2>3. /\ s \in StType /\ s.pc = st.pc /\ s.buf = st.buf /\ s.todo = st.todo
        /\ s.pos = st.pos /\ s.block = st.block
    BY <1>1, <2>1 DEF StType
  <2>4. s = [st EXCEPT !.written = @ + Len(st.buf)]
    BY <1>1 DEF n, StType
  <2>. HIDE DEF s
  <2>5. (s.pos % run.stride) + s.block <= run.stride
    BY <1>2, <2>3 DEF StrideFits
  <2>6. /\ Stride(s) \in StType /\ Stride(s).pc = s.pc /\ Stride(s).buf = s.buf
        /\ Stride(s).todo = s.todo
    BY <1>1, <2>3, <2>5, StrideIs
  <2>. QED BY <1>2, <2>2, <2>3, <2>4, <2>6
<1>3. CASE run.prog.order = "next"
  <2>. DEFINE n == IF run.prog.unit = "char" THEN st.left - 1 ELSE st.left
  <2>1. n \in Int
    BY <1>1
  <2>2. Wrote(st) = [st EXCEPT !.left = n]
    BY <1>1, <1>3 DEF Wrote, StType
  <2>. HIDE DEF n
  <2>3. /\ Wrote(st) \in StType /\ Wrote(st).pc = st.pc /\ Wrote(st).buf = st.buf
        /\ Wrote(st).todo = st.todo /\ Wrote(st).pos = st.pos /\ Wrote(st).written = st.written
        /\ Wrote(st).block = st.block /\ Wrote(st).left = n
    BY <1>1, <2>1, <2>2 DEF StType
  <2>. QED BY <1>3, <2>3 DEF n
<1>4. CASE run.prog.order \in {"down", "shuffled"}
  <2>1. Wrote(st) = st
    BY <1>4 DEF Wrote
  <2>. QED BY <1>1, <1>4, <2>1
<1>. QED BY <1>1, <1>2, <1>3, <1>4, UnitsAre

(* The program has written all that it held.                               *)
LEMMA WriteGoes ==
  ASSUME CallsInv, StrideFits, UNCHANGED <<inVars, outVars, run>>, Stage = "write", st.sent,
         outRet = Len(st.buf), outCall.op \in {"idle", "closed"}, st' = Onward(Wrote(st))
  PROVE  CallsInv' /\ Writes
<1>1. /\ InGood' /\ OutGood' /\ OutP!Seen' = OutP!Seen
      /\ inF' = inF /\ inCall' = inCall /\ outF' = outF /\ outCall' = outCall /\ run' = run
  BY Untouched
<1>2. /\ st \in StType /\ Len(st.buf) \in Nat /\ Sits(Stage, Place) /\ inF.pos \in Nat
      /\ outF.pos \in Nat
  BY CallsAre
<1>. DEFINE s == Wrote(st)
<1>3. /\ s \in StType /\ s.pc = st.pc /\ s.buf = st.buf /\ s.todo = st.todo
      /\ IF run.prog.order = "stride" THEN s = Stride([st EXCEPT !.written = @ + Len(st.buf)])
         ELSE /\ s.pos = st.pos /\ s.written = st.written /\ s.block = st.block
              /\ s.left = IF run.prog.order = "next" /\ run.prog.unit = "char"
                          THEN st.left - 1 ELSE st.left
  BY WroteIs
<1>4. st' = Onward(s)
  OBVIOUS
<1>. HIDE DEF s
<1>5. /\ ProgramInv' /\ GoesOn /\ ~st'.sent /\ st'.todo = st.todo /\ st'.pos = s.pos
      /\ st'.written = s.written /\ st'.block = s.block /\ st'.left = s.left
  BY <1>1, <1>3, <1>4, GoesOnward DEF CallsInv, GoesOn
<1>6. Place = "holding" /\ Place' = "written" /\ Stage' \in {"seekout", "flush"}
  BY <1>2, <1>5 DEF GoesOn, Follows, Sits
<1>7. /\ inCall.op \in {"idle", "closed"} /\ ~inCall.failed /\ ~outCall.failed
  BY DEF CallsInv, InCallInv, InAsked, OutCallInv
<1>8. Held = st.buf /\ Held' = << >> /\ Len(<< >>) = 0
  BY <1>5, <1>6 DEF Held
<1>9. Put = Len(st.buf) /\ Put' = 0
  <2>1. outCall.bytes = << >>
    BY DEF CallsInv, OutCallInv
  <2>. QED BY <1>2, <1>5, <2>1 DEF Put
<1>10. Origin' = Origin + Len(st.buf)
  BY <1>1, <1>2, <1>8 DEF Origin
<1>11. WriteAt' = WriteAt + Len(st.buf)
  BY <1>1, <1>2, <1>9 DEF WriteAt
<1>12. HeldInv'
  BY <1>1, <1>2, <1>8 DEF HeldInv, InP!Shows
<1>13. InSought' /\ OutSought'
  <2>1. SeeksInput => run.in.seekable
    BY DEF CallsInv, InSought
  <2>2. Unsought = Names \/ run.out.seekable \/ (run.prog \in PlainlyAt /\ "write" \in Unsought)
    BY DEF CallsInv, OutSought, Unsought
  <2>3. Stage' \in Names
    BY <1>5 DEF GoesOn, Sits
  <2>. QED BY <1>1, <1>6, <2>1, <2>2, <2>3 DEF InSought, NotSought, SeeksInput, OutSought, Unsought
<1>14. BufInv' /\ FlushInv'
  BY <1>1, <1>3, <1>5, <1>6 DEF CallsInv, BufInv, FlushInv
<1>15. InCallInv' /\ OutCallInv'
  BY <1>1, <1>5, <1>6, <1>7 DEF InCallInv, OutCallInv, InAsked, OutAsked
<1>16. Writes
  <2>1. run.prog.order = "stride" => st' = Onward(Stride([st EXCEPT !.written = @ + Len(st.buf)]))
    BY <1>3, <1>4
  <2>. QED BY <1>1, <1>3, <1>5, <1>9, <1>10, <1>11, <2>1 DEF Writes
<1>. QED BY <1>1, <1>5, <1>12, <1>13, <1>14, <1>15, <1>16 DEF CallsInv

(* What a call on the output returns.                                      *)
LEMMA OutReturnsStep ==
  ASSUME CallsInv, StrideFits, OutReturns
  PROVE  CallsInv' /\ Effect
<1>1. /\ UNCHANGED <<inVars, outVars, run>> /\ st.sent /\ outCall.op \in {"idle", "closed"}
      /\ Stage \in {"zeroout", "seekout", "flush", "write", "closeout"} /\ st \in StType
      /\ Sits(Stage, Place)
  BY CallsAre DEF OutReturns, Quiet
<1>2. inCall.op \in {"idle", "closed"} /\ ~inCall.failed
  BY <1>1 DEF CallsInv, InCallInv, InAsked
<1>3. CASE Stage \in {"zeroout", "seekout"}
  <2>1. /\ outCall.off = IF Stage = "zeroout" THEN 0 ELSE st.pos
        /\ IF outCall.failed THEN outRet # 0
           ELSE outRet = 0 /\ outF.pos = outCall.off /\ run.out.seekable
    BY <1>1, <1>3 DEF CallsInv, OutCallInv
  <2>2. CASE outRet = 0
    <3>1. Over /\ st' = Onward(st)
      BY <1>1, <1>2, <1>3, <2>1, <2>2 DEF Over, OutReturns
    <3>2. CallsInv' /\ GoesOn /\ FilesStay /\ Keeps /\ st'.buf = st.buf
      BY <1>1, <1>3, <3>1, GoesFromOver DEF Keeps
    <3>3. WriteAt = outF.pos
      <4>1. Put = 0 /\ outF.pos \in Nat
        BY <1>3, CallsAre DEF Put
      <4>. QED BY <4>1 DEF WriteAt
    <3>. QED BY <1>3, <2>1, <2>2, <3>2, <3>3 DEF Goes, Effect
  <2>3. CASE outRet # 0
    BY <1>1, <1>2, <1>3, <2>3, Exits DEF OutReturns, Effect
  <2>. QED BY <2>2, <2>3
<1>4. CASE Stage \in {"flush", "closeout"}
  <2>1. outRet = 0 /\ ~outF.dirty /\ ~outCall.failed
    BY <1>1, <1>4 DEF CallsInv, OutCallInv
  <2>2. Over /\ st' = Onward(st)
    BY <1>1, <1>2, <1>4, <2>1 DEF Over, OutReturns
  <2>3. CallsInv' /\ GoesOn /\ FilesStay /\ Keeps /\ st'.buf = st.buf
    BY <1>1, <1>4, <2>2, GoesFromOver DEF Keeps
  <2>. QED BY <1>4, <2>3 DEF Goes, Effect
<1>5. CASE Stage = "write"
  <2>1. outRet = Len(st.buf) /\ Len(st.buf) \in Nat
    BY <1>1, <1>5, CallsAre DEF CallsInv, OutCallInv
  <2>2. st' = Onward(Wrote(st))
    BY <1>5, <2>1 DEF OutReturns, WriteReturned
  <2>. QED BY <1>1, <1>5, <2>1, <2>2, WriteGoes DEF Effect
<1>. QED BY <1>1, <1>3, <1>4, <1>5

(* The types of the files after a step.                                    *)
LEMMA FilesAreNext ==
  /\ InP!Good' => inF'.pos \in Nat /\ inCall'.got \in Seq(Nat)
  /\ OutP!Good' => outF'.pos \in Nat /\ outCall'.bytes \in Seq(Nat) /\ OutP!Seen' \in Seq(Nat)
<1>. DEFINE P == /\ InP!Good => inF.pos \in Nat /\ inCall.got \in Seq(Nat)
                 /\ OutP!Good => /\ outF.pos \in Nat /\ outCall.bytes \in Seq(Nat)
                                 /\ OutP!Seen \in Seq(Nat)
<1>1. P
  BY FilesAre
<1>2. P'
  BY <1>1, PTL
<1>. QED BY <1>2

(* A call on the input goes on.                                            *)
LEMMA InMoves ==
  ASSUME CallsInv, Recovers, In!Step \/ In!Fault, UNCHANGED <<outVars, run, st>>
  PROVE  CallsInv' /\ Waits
<1>1. /\ run' = run /\ st' = st /\ outF' = outF /\ outCall' = outCall /\ outRet' = outRet
      /\ OutGood' /\ OutP!Seen' = OutP!Seen
  BY OutElsewhere DEF CallsInv, outVars
<1>2. /\ st \in StType /\ Sits(Stage, Place) /\ run \in Runs /\ inF.pos \in Nat
      /\ Held \in Seq(Nat) /\ Len(Held) \in Nat /\ Origin \in Nat
  BY CallsAre
<1>3. Stage' = Stage /\ Place' = Place /\ ProgramInv' /\ Keeps
  BY <1>1, <1>2, Stays DEF CallsInv, Keeps, ProgramInv
<1>4. /\ InGood'
      /\ inCall.op \in {"read", "readc", "seek", "flush", "close"} /\ ~inCall.failed
      /\ inCall'.want = inCall.want /\ inCall'.off = inCall.off
      /\ inCall'.op \in {inCall.op, IF inCall.op = "close" THEN "closed" ELSE "idle"}
      /\ inCall'.failed => inCall.op = "seek" /\ ~run.in.seekable
      /\ inCall.op \in {"read", "readc"} /\ inCall'.op # inCall.op =>
           IF inCall'.got = << >> THEN inRet' \in {-1, 0} ELSE inRet' = Len(inCall'.got)
      /\ inCall.op = "seek" /\ inCall'.op # inCall.op =>
           IF inCall'.failed THEN inRet' # 0
           ELSE inRet' = 0 /\ inF'.pos = inCall.off /\ (inF.tag = inF.end => run.in.seekable)
      /\ inCall.op = "seek" /\ inCall'.op = "seek" => inF' = inF
      /\ inCall.op \in {"flush", "close"} => inF'.pos = inF.pos
  BY <1>1, InSteps DEF CallsInv
<1>5. /\ st.sent /\ st.exit = "none"
      /\ \/ inCall.op = "seek" /\ Stage \in {"zeroin", "seekin"}
         \/ inCall.op \in {"read", "readc"} /\ Stage = "read"
         \/ inCall.op = "close" /\ Stage = "closein"
  BY <1>4 DEF CallsInv, InCallInv, InAsked
<1>6. OutSought' /\ BufInv' /\ OutCallInv' /\ FlushInv'
  <2>1. OutSought'
    BY <1>1, <1>3 DEF CallsInv, OutSought, Unsought
  <2>2. BufInv'
    BY <1>1, <1>3 DEF CallsInv, BufInv
  <2>3. OutCallInv'
    BY <1>1, <1>3 DEF CallsInv, OutCallInv, OutAsked
  <2>4. FlushInv'
    BY <1>1, <1>3 DEF CallsInv, FlushInv
  <2>. QED BY <2>1, <2>2, <2>3, <2>4
<1>7. Put' = Put /\ WriteAt' = WriteAt
  BY <1>1, <1>3 DEF Put, WriteAt
<1>8. InAsked' /\ (inCall'.op \in {"idle", "closed"} \/ inCall'.op = inCall.op)
  BY <1>1, <1>3, <1>4, <1>5 DEF InAsked
<1>9. Stage = "seekin" => SeeksInput /\ run.in.seekable
  <2>1. Stage = "seekin" => SeeksInput
    BY <1>2, RunIs, OrdersAre DEF Sits, SeeksInput, Backwards
  <2>. QED BY <2>1 DEF CallsInv, InSought
<1>10. CASE inCall.op = "seek"
  <2>1. Stage \in {"zeroin", "seekin"} /\ Held' = << >> /\ Held = << >>
    BY <1>1, <1>2, <1>3, <1>5, <1>10 DEF Held, Sits
  <2>2. HeldInv'
    <3>1. inF'.pos \in Nat /\ Len(<< >>) = 0
      BY <1>4, FilesAreNext DEF InGood
    <3>. QED BY <2>1, <3>1 DEF HeldInv, InP!Shows
  <2>3. InSought'
    <3>1. inCall'.op = "seek" => inF' = inF
      BY <1>4, <1>10
    <3>2. NotSought' => NotSought /\ inCall'.op = "seek"
      BY <1>1, <1>3, <1>5, <1>10, <2>1 DEF NotSought
    <3>. QED BY <1>1, <1>3, <3>1, <3>2 DEF CallsInv, InSought, SeeksInput
  <2>4. inCall'.failed => Stage = "zeroin"
    BY <1>4, <1>9, <2>1
  <2>5. inCall'.op # "seek" => IF inCall'.failed THEN inRet' # 0
                               ELSE inRet' = 0 /\ inF'.pos = inCall'.off /\ run.in.seekable
    <3>1. Stage = "zeroin" => SeeksInput
      BY <1>2, RunIs, OrdersAre DEF Sits, SeeksInput, Backwards
    <3>2. Stage = "zeroin" => inF.tag = inF.end
      BY <1>10, <3>1 DEF CallsInv, InSought, NotSought
    <3>. QED BY <1>4, <1>9, <1>10, <2>1, <3>2
  <2>6. InCallInv'
    <3>1. inCall'.off = IF Stage = "zeroin" THEN 0 ELSE st.pos
      BY <1>4, <1>5, <2>1 DEF CallsInv, InCallInv
    <3>. QED BY <1>1, <1>3, <1>5, <1>8, <2>1, <2>4, <2>5, <3>1 DEF InCallInv
  <2>7. Waits
    BY <1>1, <1>3, <1>7, <2>1 DEF Waits
  <2>. QED BY <1>1, <1>3, <1>4, <1>6, <2>2, <2>3, <2>6, <2>7 DEF CallsInv
<1>11. CASE inCall.op \in {"read", "readc"}
  <2>1. Stage = "read" /\ Held = inCall.got /\ Held' = inCall'.got
    BY <1>1, <1>3, <1>5, <1>11 DEF Held
  <2>2. inF.pos = Origin + Len(inCall.got) /\ InP!Shows(run.in.data, Origin, inCall.got)
    BY <1>2, <2>1 DEF CallsInv, HeldInv, Origin
  <2>3. Len(inCall.got) <= inCall.want
    BY <1>5, <2>1 DEF CallsInv, InCallInv
  <2>4. /\ inF'.pos = Origin + Len(inCall'.got) /\ InP!Shows(run.in.data, Origin, inCall'.got)
        /\ Len(inCall'.got) <= inCall.want
        /\ inCall'.op # inCall.op =>
             Len(inCall'.got) = inCall.want \/ inF'.pos >= Len(run.in.data)
    BY <1>1, <1>2, <1>11, <2>2, <2>3, InReads DEF CallsInv
  <2>5. inCall'.got \in Seq(Nat) /\ Len(inCall'.got) \in Nat
    <3>1. inCall'.got \in Seq(Nat)
      BY <1>4, FilesAreNext DEF InGood
    <3>. QED BY <3>1, LenProperties
  <2>6. Origin' = Origin
    BY <1>2, <2>1, <2>4, <2>5 DEF Origin
  <2>7. HeldInv'
    BY <1>1, <1>2, <2>1, <2>4, <2>5, <2>6 DEF HeldInv
  <2>8. InSought'
    BY <1>1, <1>3, <2>1 DEF CallsInv, InSought, NotSought, SeeksInput
  <2>9. ~inCall'.failed
    BY <1>4, <1>11
  <2>10. InCallInv'
    <3>1. /\ run.prog.unit = "char" => inCall.want = 1
          /\ run.prog.unit = "block" => inCall.want = st.block
          /\ run.prog.order # "stride" => inCall.want >= 1
      BY <1>5, <2>1 DEF CallsInv, InCallInv
    <3>2. inCall'.op \notin {"read", "readc"} =>
            /\ IF inCall'.got = << >> THEN inRet' \in {-1, 0} ELSE inRet' = Len(inCall'.got)
            /\ Len(inCall'.got) = inCall.want \/ inF'.pos >= Len(run.in.data)
      BY <1>4, <1>11, <2>4
    <3>. QED BY <1>1, <1>3, <1>4, <1>8, <2>1, <2>4, <2>9, <3>1, <3>2 DEF InCallInv
  <2>11. Waits
    BY <1>1, <1>3, <1>7, <2>6 DEF Waits
  <2>. QED BY <1>1, <1>3, <1>4, <1>6, <2>7, <2>8, <2>10, <2>11 DEF CallsInv
<1>12. CASE inCall.op = "close"
  <2>1. Stage = "closein" /\ Held = << >> /\ Held' = << >> /\ inF'.pos = inF.pos
    BY <1>1, <1>2, <1>3, <1>4, <1>5, <1>12 DEF Held, Sits
  <2>2. Origin' = Origin /\ HeldInv'
    BY <1>1, <2>1 DEF CallsInv, HeldInv, Origin
  <2>3. InSought' /\ InCallInv'
    BY <1>1, <1>3, <1>4, <1>8, <1>12, <2>1
       DEF CallsInv, InSought, NotSought, SeeksInput, InCallInv
  <2>4. Waits
    BY <1>1, <1>3, <1>7, <2>2 DEF Waits
  <2>. QED BY <1>1, <1>3, <1>4, <1>6, <2>2, <2>3, <2>4 DEF CallsInv
<1>. QED BY <1>5, <1>10, <1>11, <1>12

(* A stretch of a sequence.                                                *)
LEMMA StretchIs ==
  ASSUME NEW u \in Seq(Nat), NEW i \in Nat, NEW j \in Nat, i <= j, j <= Len(u)
  PROVE  /\ SubSeq(u, i + 1, j) \in Seq(Nat) /\ Len(SubSeq(u, i + 1, j)) = j - i
         /\ \A k \in 1..(j - i) : SubSeq(u, i + 1, j)[k] = u[i + k]
<1>. DEFINE a == i + 1
            t == SubSeq(u, a, j)
<1>1. Len(u) \in Nat /\ a \in Int /\ j \in Int /\ j - a + 1 = j - i /\ (~(a <= j) => j - i = 0)
  BY LenProperties
<1>2. \A k \in a..j : u[k] \in Nat
  <2>1. \A k \in a..j : k \in 1..Len(u)
    BY <1>1
  <2>. HIDE DEF a
  <2>. QED BY <2>1
<1>3. \A k \in 1..(j - i) : a + k - 1 = i + k
  OBVIOUS
<1>. HIDE DEF a
<1>4. /\ t \in Seq(Nat) /\ Len(t) = (IF a <= j THEN j - a + 1 ELSE 0)
      /\ \A k \in 1..(j - a + 1) : t[k] = u[a + k - 1]
  BY <1>1, <1>2, SubSeqProperties
<1>. HIDE DEF t
<1>5. Len(t) = j - i /\ \A k \in 1..(j - i) : t[k] = u[i + k]
  BY <1>1, <1>3, <1>4
<1>. QED BY <1>4, <1>5 DEF t, a

(* A rest of a rest.                                                       *)
Rests(s, p, t, n) ==
  /\ Len(t) = Len(s) - p
  /\ Len(SubSeq(t, n + 1, Len(t))) = Len(s) - (p + n)
  /\ SubSeq(t, n + 1, Len(t)) = SubSeq(s, p + n + 1, Len(s))
  /\ SubSeq(t, 1, n) = SubSeq(s, p + 1, p + n)

(* It is one.                                                              *)
LEMMA RestOfRest ==
  ASSUME NEW s \in Seq(Nat), NEW p \in 0..Len(s), NEW t, t = SubSeq(s, p + 1, Len(s)),
         NEW n \in 1..Len(t)
  PROVE  Rests(s, p, t, n)
<1>. DEFINE m == Len(s)
            a == SubSeq(t, n + 1, Len(t))
            b == SubSeq(s, p + n + 1, m)
            c == SubSeq(t, 1, n)
            d == SubSeq(s, p + 1, p + n)
<1>2. m \in Nat /\ p \in Nat /\ p <= m /\ m <= Len(s)
  BY LenProperties
<1>3. t \in Seq(Nat) /\ Len(t) = m - p /\ \A i \in 1..(m - p) : t[i] = s[p + i]
  <2>1. /\ SubSeq(s, p + 1, m) \in Seq(Nat) /\ Len(SubSeq(s, p + 1, m)) = m - p
        /\ \A i \in 1..(m - p) : SubSeq(s, p + 1, m)[i] = s[p + i]
    <3>. HIDE DEF m
    <3>. QED BY <1>2, StretchIs
  <2>. QED BY <2>1
<1>. HIDE DEF m
<1>4. n \in Nat /\ n <= m - p /\ n <= Len(t) /\ Len(t) \in Nat /\ p + n \in Nat /\ p + n <= m
  BY <1>2, <1>3
<1>5. a \in Seq(Nat) /\ Len(a) = m - (p + n) /\ \A k \in 1..(m - (p + n)) : a[k] = t[n + k]
  <2>1. a \in Seq(Nat) /\ Len(a) = Len(t) - n /\ \A k \in 1..(Len(t) - n) : a[k] = t[n + k]
    <3>. DEFINE l == Len(t)
    <3>1. t \in Seq(Nat) /\ n \in Nat /\ l \in Nat /\ n <= l /\ l <= Len(t)
      BY <1>3, <1>4
    <3>. HIDE DEF l
    <3>2. /\ SubSeq(t, n + 1, l) \in Seq(Nat) /\ Len(SubSeq(t, n + 1, l)) = l - n
          /\ \A k \in 1..(l - n) : SubSeq(t, n + 1, l)[k] = t[n + k]
      BY <3>1, StretchIs
    <3>. QED BY <3>2 DEF l
  <2>. HIDE DEF a
  <2>2. Len(t) - n = m - (p + n)
    BY <1>2, <1>3, <1>4
  <2>. QED BY <2>1, <2>2
<1>6. b \in Seq(Nat) /\ Len(b) = m - (p + n) /\ \A k \in 1..(m - (p + n)) : b[k] = s[p + n + k]
  <2>. DEFINE q == p + n
  <2>1. q \in Nat /\ q <= m /\ m \in Nat /\ m <= Len(s)
    BY <1>2, <1>4
  <2>. HIDE DEF q
  <2>2. /\ SubSeq(s, q + 1, m) \in Seq(Nat) /\ Len(SubSeq(s, q + 1, m)) = m - q
        /\ \A k \in 1..(m - q) : SubSeq(s, q + 1, m)[k] = s[q + k]
    BY <2>1, StretchIs
  <2>. QED BY <2>2 DEF q
<1>7. c \in Seq(Nat) /\ Len(c) = n /\ \A k \in 1..n : c[k] = t[k]
  <2>. DEFINE z == 0
  <2>1. z \in Nat /\ z + 1 = 1 /\ z <= n /\ n - z = n /\ \A k \in 1..n : z + k = k
    BY <1>4
  <2>. HIDE DEF z
  <2>2. /\ SubSeq(t, z + 1, n) \in Seq(Nat) /\ Len(SubSeq(t, z + 1, n)) = n - z
        /\ \A k \in 1..(n - z) : SubSeq(t, z + 1, n)[k] = t[z + k]
    BY <1>3, <1>4, <2>1, StretchIs
  <2>. QED BY <2>1, <2>2
<1>8. d \in Seq(Nat) /\ Len(d) = n /\ \A k \in 1..n : d[k] = s[p + k]
  <2>. DEFINE q == p + n
  <2>1. p \in Nat /\ q \in Nat /\ p <= q /\ q <= Len(s) /\ q - p = n
    BY <1>2, <1>4
  <2>. HIDE DEF q
  <2>2. /\ SubSeq(s, p + 1, q) \in Seq(Nat) /\ Len(SubSeq(s, p + 1, q)) = q - p
        /\ \A k \in 1..(q - p) : SubSeq(s, p + 1, q)[k] = s[p + k]
    BY <2>1, StretchIs
  <2>3. /\ SubSeq(s, p + 1, q) \in Seq(Nat) /\ Len(SubSeq(s, p + 1, q)) = n
        /\ \A k \in 1..n : SubSeq(s, p + 1, q)[k] = s[p + k]
    BY <2>1, <2>2
  <2>. QED BY <2>3 DEF q
<1>. HIDE DEF a, b, c, d
<1>9. a = b
  <2>1. \A k \in 1..(m - (p + n)) : n + k \in 1..(m - p) /\ p + (n + k) = p + n + k
    BY <1>2, <1>4
  <2>2. \A k \in 1..(m - (p + n)) : a[k] = b[k]
    BY <1>3, <1>5, <1>6, <2>1
  <2>. QED BY <1>5, <1>6, <2>2, SeqEqual
<1>10. c = d
  <2>1. \A k \in 1..n : k \in 1..(m - p)
    BY <1>2, <1>4
  <2>2. \A k \in 1..n : c[k] = d[k]
    BY <1>3, <1>7, <1>8, <2>1
  <2>. QED BY <1>7, <1>8, <2>2, SeqEqual
<1>. QED BY <1>3, <1>5, <1>9, <1>10 DEF m, a, b, c, d, Rests

(* A call on the output goes on.                                           *)
LEMMA OutMoves ==
  ASSUME CallsInv, Recovers, Out!Step \/ Out!Fault, UNCHANGED <<inVars, run, st>>
  PROVE  CallsInv' /\ Waits
<1>1. /\ run' = run /\ st' = st /\ inF' = inF /\ inCall' = inCall /\ inRet' = inRet /\ InGood'
  BY InElsewhere DEF CallsInv, inVars
<1>2. /\ st \in StType /\ Sits(Stage, Place) /\ run \in Runs /\ outF.pos \in Nat
      /\ st.buf \in Seq(Nat) /\ Len(st.buf) \in Nat /\ Put \in 0..Len(st.buf)
      /\ outCall.bytes \in Seq(Nat) /\ Len(outCall.bytes) \in Nat
  BY CallsAre
<1>3. Stage' = Stage /\ Place' = Place /\ ProgramInv' /\ Keeps
  BY <1>1, <1>2, Stays DEF CallsInv, Keeps, ProgramInv
<1>4. /\ OutGood'
      /\ outCall.op \in {"write", "writec", "seek", "flush", "close"} /\ ~outCall.failed
      /\ outCall'.want = outCall.want /\ outCall'.off = outCall.off
      /\ outCall'.op \in {outCall.op, IF outCall.op = "close" THEN "closed" ELSE "idle"}
      /\ outCall'.failed => outCall.op = "seek" /\ ~run.out.seekable
      /\ outCall.op \in {"write", "writec"} /\ outCall'.op # outCall.op => outRet' = outCall.want
      /\ outCall.op = "seek" /\ outCall'.op # outCall.op =>
           IF outCall'.failed THEN outRet' # 0
           ELSE outRet' = 0 /\ outF'.pos = outCall.off /\ run.out.seekable
      /\ outCall.op \in {"flush", "close"} /\ outCall'.op # outCall.op => outRet' = 0 /\ ~outF'.dirty
      /\ outF'.dirty => outF.dirty \/ outCall.op \in {"write", "writec"}
      /\ outCall.op \in {"seek", "flush", "close"} => OutP!Seen' = OutP!Seen
      /\ outCall.op \in {"flush", "close"} => outF'.pos = outF.pos
  BY <1>1, OutSteps DEF CallsInv
<1>5. /\ st.sent /\ st.exit = "none"
      /\ \/ outCall.op = "seek" /\ Stage \in {"zeroout", "seekout"}
         \/ outCall.op \in {"write", "writec"} /\ Stage = "write"
         \/ outCall.op = "flush" /\ Stage = "flush"
         \/ outCall.op = "close" /\ Stage = "closeout"
  BY <1>4 DEF CallsInv, OutCallInv, OutAsked
<1>6. InSought' /\ OutSought' /\ BufInv' /\ InCallInv'
  BY <1>1, <1>3
     DEF CallsInv, InSought, NotSought, SeeksInput, OutSought, Unsought, BufInv, InCallInv, InAsked
<1>7. Held' = Held /\ Origin' = Origin /\ HeldInv'
  <2>1. Held' = Held
    BY <1>1, <1>3 DEF Held
  <2>. QED BY <1>1, <2>1 DEF CallsInv, HeldInv, Origin
<1>8. OutAsked' /\ (outCall'.op \in {"idle", "closed"} \/ outCall'.op = outCall.op)
  BY <1>1, <1>3, <1>4, <1>5 DEF OutAsked
<1>9. FlushInv'
  <2>1. outCall.op \in {"write", "writec"} => Place \notin {"setup", "top", "fetching"}
    BY <1>2, <1>5 DEF Sits
  <2>. QED BY <1>1, <1>3, <1>4, <2>1 DEF CallsInv, FlushInv
<1>10. CASE outCall.op \in {"write", "writec"}
  <2>1. Stage = "write" /\ Put = Len(st.buf) - Len(outCall.bytes)
    BY <1>5, <1>10 DEF Put
  <2>2. /\ outCall.want = Len(st.buf) /\ Len(outCall.bytes) <= Len(st.buf)
        /\ outCall.bytes = SubSeq(st.buf, Len(st.buf) - Len(outCall.bytes) + 1, Len(st.buf))
    BY <1>5, <2>1 DEF CallsInv, OutCallInv
  <2>3. outCall.bytes = SubSeq(st.buf, Put + 1, Len(st.buf))
    BY <2>1, <2>2
  <2>4. Put' = Len(st.buf) - Len(outCall'.bytes)
    BY <1>1, <1>3, <1>5, <2>1 DEF Put
  <2>5. /\ \/ outF'.pos = outF.pos /\ outCall'.bytes = outCall.bytes /\ OutP!Seen' = OutP!Seen
           \/ \E n \in 1..Len(outCall.bytes) :
                /\ outF'.pos = outF.pos + n
                /\ outCall'.bytes = SubSeq(outCall.bytes, n + 1, Len(outCall.bytes))
                /\ OutP!Seen' = OutP!Overwritten(OutP!Seen, outF.pos, SubSeq(outCall.bytes, 1, n))
        /\ outCall'.op # outCall.op => outCall'.bytes = << >>
    BY <1>1, <1>10, OutWrites DEF CallsInv
  <2>6. WriteAt + Put = outF.pos
    <3>1. Put \in Nat
      BY <1>2
    <3>. QED BY <1>2, <3>1 DEF WriteAt
  <2>7. /\ WriteAt' = WriteAt /\ Len(outCall'.bytes) <= Len(st.buf)
        /\ outCall'.bytes = SubSeq(st.buf, Len(st.buf) - Len(outCall'.bytes) + 1, Len(st.buf))
        /\ Puts \/ (Put' = Put /\ OutP!Seen' = OutP!Seen)
    <3>1. CASE outF'.pos = outF.pos /\ outCall'.bytes = outCall.bytes /\ OutP!Seen' = OutP!Seen
      BY <2>1, <2>2, <2>4, <3>1 DEF WriteAt
    <3>2. ASSUME NEW n \in 1..Len(outCall.bytes), outF'.pos = outF.pos + n,
                 outCall'.bytes = SubSeq(outCall.bytes, n + 1, Len(outCall.bytes)),
                 OutP!Seen' = OutP!Overwritten(OutP!Seen, outF.pos, SubSeq(outCall.bytes, 1, n))
          PROVE  /\ WriteAt' = WriteAt /\ Len(outCall'.bytes) <= Len(st.buf)
                 /\ outCall'.bytes = SubSeq(st.buf, Len(st.buf) - Len(outCall'.bytes) + 1, Len(st.buf))
                 /\ Puts
      <4>. DEFINE k == Len(st.buf)
      <4>7. /\ Len(outCall.bytes) = k - Put
            /\ Len(SubSeq(outCall.bytes, n + 1, Len(outCall.bytes))) = k - (Put + n)
            /\ SubSeq(outCall.bytes, n + 1, Len(outCall.bytes)) = SubSeq(st.buf, Put + n + 1, k)
            /\ SubSeq(outCall.bytes, 1, n) = SubSeq(st.buf, Put + 1, Put + n)
        <5>. DEFINE t == outCall.bytes
                    u == st.buf
                    p == Put
        <5>1. u \in Seq(Nat) /\ p \in 0..Len(u) /\ t = SubSeq(u, p + 1, Len(u)) /\ n \in 1..Len(t)
          BY <1>2, <2>3
        <5>. HIDE DEF t, u, p, k
        <5>2. Rests(u, p, t, n)
          BY <5>1, RestOfRest
        <5>. QED BY <5>2 DEF t, u, p, k, Rests
      <4>1. /\ Len(outCall.bytes) = k - Put
            /\ Len(outCall'.bytes) = k - (Put + n)
            /\ outCall'.bytes = SubSeq(st.buf, Put + n + 1, k)
            /\ SubSeq(outCall.bytes, 1, n) = SubSeq(st.buf, Put + 1, Put + n)
        BY <3>2, <4>7
      <4>8. k \in Nat /\ Put \in 0..k
        BY <1>2
      <4>9. Put' = k - Len(outCall'.bytes)
        BY <2>4
      <4>. HIDE DEF k
      <4>2. k \in Nat /\ Put \in 0..k /\ n \in 1..(k - Put) /\ n \in Nat /\ Put \in Nat
        BY <4>1, <4>8
      <4>3. Put' = Put + n
        BY <4>1, <4>2, <4>9
      <4>4. k - Len(outCall'.bytes) + 1 = Put + n + 1 /\ Len(outCall'.bytes) <= k
        BY <4>1, <4>2
      <4>5. WriteAt' = WriteAt
        BY <1>2, <3>2, <4>2, <4>3 DEF WriteAt
      <4>6. Puts
        BY <1>1, <2>1, <2>6, <3>2, <4>1, <4>2, <4>3 DEF Puts, k
      <4>. QED BY <4>1, <4>4, <4>5, <4>6 DEF k
    <3>. QED BY <2>5, <3>1, <3>2
  <2>8. outCall'.op \notin {"write", "writec"} => outCall'.bytes = << >> /\ outRet' = Len(st.buf)
    BY <1>4, <1>10, <2>2, <2>5
  <2>9. OutCallInv'
    BY <1>1, <1>3, <1>4, <1>8, <1>10, <2>1, <2>2, <2>7, <2>8 DEF OutCallInv
  <2>10. Waits
    BY <1>1, <1>3, <1>7, <2>7 DEF Waits
  <2>. QED BY <1>1, <1>3, <1>4, <1>6, <1>7, <1>9, <2>9, <2>10 DEF CallsInv
<1>11. CASE outCall.op \notin {"write", "writec"}
  <2>1. Stage # "write" /\ Put = 0 /\ Put' = 0 /\ OutP!Seen' = OutP!Seen
    BY <1>3, <1>4, <1>5, <1>11 DEF Put
  <2>2. Stage \notin {"zeroout", "seekout"} => WriteAt' = WriteAt
    BY <1>4, <1>5, <2>1 DEF WriteAt
  <2>3. outCall'.failed => Stage \in {"zeroout", "seekout"} /\ ~run.out.seekable
    BY <1>4, <1>5
  <2>4. OutCallInv'
    <3>1. Stage \in {"zeroout", "seekout"} =>
            /\ outCall.op = "seek" /\ outCall.off = IF Stage = "zeroout" THEN 0 ELSE st.pos
      BY <1>5 DEF CallsInv, OutCallInv
    <3>2. Stage \in {"flush", "closeout"} => outCall.op \in {"flush", "close"}
      BY <1>5
    <3>3. Stage # "done"
      BY <1>5
    <3>. QED BY <1>1, <1>3, <1>4, <1>5, <1>8, <2>1, <2>3, <3>1, <3>2, <3>3 DEF OutCallInv
  <2>5. Waits
    BY <1>1, <1>3, <1>7, <2>1, <2>2 DEF Waits
  <2>. QED BY <1>1, <1>3, <1>4, <1>6, <1>7, <1>9, <2>4, <2>5 DEF CallsInv
<1>. QED BY <1>10, <1>11

(* Every step of a program keeps the invariant, and is one of these.       *)
LEMMA StepCalls ==
  ASSUME CallsInv, Recovers, SeekFits, StrideFits, Stage = "top" /\ run.prog.order = "down" => st.left >= 0,
         [Next]_vars
  PROVE  CallsInv' /\ Effect /\ run' = run
<1>1. CASE Size
  BY <1>1, SizeStep DEF Size, Quiet
<1>2. CASE Blocks
  BY <1>2, BlocksStep DEF Blocks, Quiet
<1>3. CASE Looping
  BY <1>3, LoopingStep DEF Looping, Quiet
<1>4. CASE ClearErrno \/ NoFlush
  BY <1>4, PassesStep DEF ClearErrno, NoFlush, Quiet
<1>5. CASE SendIn
  BY <1>5, SendInStep DEF SendIn
<1>6. CASE SendOut
  BY <1>6, SendOutStep DEF SendOut
<1>7. CASE InReturns
  BY <1>7, InReturnsStep DEF InReturns, Quiet
<1>8. CASE OutReturns
  BY <1>8, OutReturnsStep DEF OutReturns, Quiet
<1>9. CASE (In!Step \/ In!Fault) /\ UNCHANGED <<outVars, run, st>>
  BY <1>9, InMoves DEF Effect
<1>10. CASE (Out!Step \/ Out!Fault) /\ UNCHANGED <<inVars, run, st>>
  BY <1>10, OutMoves DEF Effect
<1>11. CASE UNCHANGED vars
  <2>1. UNCHANGED <<inVars, outVars, run>> /\ st' = st /\ st \in StType
    BY <1>11, CallsAre DEF vars
  <2>2. Keeps
    BY <2>1 DEF Keeps
  <2>3. CallsInv' /\ Waits
    BY <2>1, <2>2, NothingMoves
  <2>. QED BY <2>1, <2>3 DEF Effect
<1>. QED BY <1>1, <1>2, <1>3, <1>4, <1>5, <1>6, <1>7, <1>8, <1>9, <1>10, <1>11
         DEF Next, Step, Fault

=============================================================================
