---------------------------- MODULE Copy61Proofs ----------------------------
(***************************************************************************)
(* Proofs about the copying programs of Copy61, for every size of the      *)
(* cache, every input and output file, and every set of arguments.         *)
(***************************************************************************)
EXTENDS Copy61Steps

-----------------------------------------------------------------------------
(* Where the program is in its two files.                                  *)

(* How much there is to copy, if the size is given or asked for, and where *)
(* in its two files the program begins.                                    *)
Total == IF run.size >= 0 THEN run.size ELSE Len(run.in.data)

Base == IF run.in.seekable /\ "zeroin" \notin Range(run.prog.setup) THEN run.in.at ELSE 0

(* A sequence of two has the two in its range, and one of one the one.     *)
LEMMA RangeOfFew ==
  /\ \A s \in Seq(Names) : Len(s) = 0 => Range(s) = {}
  /\ \A s \in Seq(Names) : Len(s) = 1 => Range(s) = {s[1]}
  /\ \A s \in Seq(Names) : Len(s) = 2 => Range(s) = {s[1], s[2]}
  /\ \A s \in Seq(Names) : Len(s) = 4 => Range(s) = {s[1], s[2], s[3], s[4]}
<1>1. \A s \in Seq(Names) : Range(s) = {s[i] : i \in 1..Len(s)}
  BY DEF Range
<1>2. ASSUME NEW s \in Seq(Names), Len(s) = 0 PROVE Range(s) = {}
  <2>1. Range(s) = {s[i] : i \in 1..0}
    BY <1>1, <1>2
  <2>2. 1..0 = {}
    OBVIOUS
  <2>. QED BY <2>1, <2>2
<1>3. ASSUME NEW s \in Seq(Names), Len(s) = 1 PROVE Range(s) = {s[1]}
  BY <1>1, <1>3
<1>4. ASSUME NEW s \in Seq(Names), Len(s) = 2 PROVE Range(s) = {s[1], s[2]}
  BY <1>1, <1>4
<1>5. ASSUME NEW s \in Seq(Names), Len(s) = 4 PROVE Range(s) = {s[1], s[2], s[3], s[4]}
  BY <1>1, <1>5
<1>. QED BY <1>2, <1>3, <1>4, <1>5

(* What each program does before its loop.                                 *)
LEMMA SetupIs ==
  ASSUME NEW p
  PROVE  /\ p \in Plainly \cup {carefulcat61} => Range(p.setup) = {} /\ p.setup # <<"seekout">>
         /\ p \in PlainlyAt => Range(p.setup) = {"seekout"} /\ p.setup = <<"seekout">>
         /\ p \in Backwards => Range(p.setup) = {"size", "zeroin"} /\ p.setup # <<"seekout">>
         /\ p = wreverse61 => Range(p.setup) = {"size", "zeroout"} /\ p.setup # <<"seekout">>
         /\ p = wstridecat61 => Range(p.setup) = {"zeroout", "size"} /\ p.setup # <<"seekout">>
         /\ p = reordercat61 =>
              Range(p.setup) = {"size", "zeroin", "zeroout", "blocks"} /\ p.setup # <<"seekout">>
<1>1. /\ p \in Plainly \cup {carefulcat61} => p.setup = << >>
      /\ p \in PlainlyAt => p.setup = <<"seekout">>
      /\ p \in Backwards => p.setup = <<"size", "zeroin">>
      /\ p = wreverse61 => p.setup = <<"size", "zeroout">>
      /\ p = wstridecat61 => p.setup = <<"zeroout", "size">>
      /\ p = reordercat61 => p.setup = <<"size", "zeroin", "zeroout", "blocks">>
  BY DEF Plainly, PlainlyAt, Backwards, cat61, read61, write61, blockcat61, blockread61, blockwrite61,
         randblockcat61, carefulblockcat61, writeat61, blockwriteat61, carefulcat61, reverse61,
         wreverse61, reordercat61, stridecat61, wstridecat61, Careful, Copying
<1>2. /\ << >> \in Seq(Names) /\ Len(<< >>) = 0
  OBVIOUS
<1>3. /\ <<"seekout">> \in Seq(Names) /\ Len(<<"seekout">>) = 1 /\ <<"seekout">>[1] = "seekout"
  BY DEF Names
<1>4. /\ <<"size", "zeroin">> \in Seq(Names) /\ Len(<<"size", "zeroin">>) = 2
      /\ <<"size", "zeroin">>[1] = "size" /\ <<"size", "zeroin">>[2] = "zeroin"
  BY DEF Names
<1>5. /\ <<"size", "zeroout">> \in Seq(Names) /\ Len(<<"size", "zeroout">>) = 2
      /\ <<"size", "zeroout">>[1] = "size" /\ <<"size", "zeroout">>[2] = "zeroout"
  BY DEF Names
<1>6. /\ <<"zeroout", "size">> \in Seq(Names) /\ Len(<<"zeroout", "size">>) = 2
      /\ <<"zeroout", "size">>[1] = "zeroout" /\ <<"zeroout", "size">>[2] = "size"
  BY DEF Names
<1>. DEFINE q == <<"size", "zeroin", "zeroout", "blocks">>
<1>7. /\ q \in Seq(Names) /\ Len(q) = 4
      /\ q[1] = "size" /\ q[2] = "zeroin" /\ q[3] = "zeroout" /\ q[4] = "blocks"
  BY DEF Names
<1>8. p \in Plainly \cup {carefulcat61} => Range(p.setup) = {}
  BY <1>1, <1>2, RangeOfFew
<1>9. p \in PlainlyAt => Range(p.setup) = {"seekout"}
  BY <1>1, <1>3, RangeOfFew
<1>10. p \in Backwards => Range(p.setup) = {"size", "zeroin"}
  BY <1>1, <1>4, RangeOfFew
<1>11. p = wreverse61 => Range(p.setup) = {"size", "zeroout"}
  BY <1>1, <1>5, RangeOfFew
<1>12. p = wstridecat61 => Range(p.setup) = {"zeroout", "size"}
  BY <1>1, <1>6, RangeOfFew
<1>14. p = reordercat61 => p.setup = q
  BY <1>1
<1>. HIDE DEF q
<1>13. p = reordercat61 => Range(p.setup) = {"size", "zeroin", "zeroout", "blocks"}
  BY <1>7, <1>14, RangeOfFew
<1>15. Range(<<"seekout">>) = {"seekout"}
  BY <1>3, RangeOfFew
<1>. QED BY <1>1, <1>8, <1>9, <1>10, <1>11, <1>12, <1>13, <1>15

(* Where a program begins.                                                 *)
LEMMA BeginsAt ==
  ASSUME run \in Runs
  PROVE  /\ Total \in Nat /\ Base \in Nat /\ Start \in Nat
         /\ run.prog.order = "next" \/ run.prog \in {wreverse61, wstridecat61} =>
              Base = IF run.in.seekable THEN run.in.at ELSE 0
         /\ run.prog \in Backwards \cup {reordercat61} => Base = 0
         /\ Start = IF ~run.out.seekable THEN 0
                    ELSE IF run.prog \in PlainlyAt THEN run.at
                    ELSE IF run.prog \in {wreverse61, reordercat61, wstridecat61} THEN 0
                    ELSE run.out.at
<1>1. /\ run.prog \in Plainly \cup PlainlyAt \cup Backwards
                      \cup {carefulcat61, wreverse61, reordercat61, wstridecat61}
      /\ run.in.seekable \in BOOLEAN /\ run.in.at \in Nat /\ run.out.seekable \in BOOLEAN
      /\ run.out.at \in Nat /\ run.at \in Nat /\ run.size \in Int /\ Len(run.in.data) \in Nat
  BY RunIs
<1>. DEFINE P == run.prog
<1>2. /\ P.order = "next" <=> P \in Plainly \cup PlainlyAt \cup {carefulcat61}
      /\ P.order = "down" <=> P \in {reverse61, wreverse61}
      /\ P.order = "shuffled" <=> P = reordercat61
      /\ P.order = "stride" <=> P \in {stridecat61, wstridecat61}
  BY UnitsAre
<1>3. /\ P \in Plainly \cup {carefulcat61} => Range(P.setup) = {} /\ P.setup # <<"seekout">>
      /\ P \in PlainlyAt => Range(P.setup) = {"seekout"} /\ P.setup = <<"seekout">>
      /\ P \in Backwards => Range(P.setup) = {"size", "zeroin"} /\ P.setup # <<"seekout">>
      /\ P = wreverse61 => Range(P.setup) = {"size", "zeroout"} /\ P.setup # <<"seekout">>
      /\ P = wstridecat61 => Range(P.setup) = {"zeroout", "size"} /\ P.setup # <<"seekout">>
      /\ P = reordercat61 =>
           Range(P.setup) = {"size", "zeroin", "zeroout", "blocks"} /\ P.setup # <<"seekout">>
  BY SetupIs
<1>4. P \in PlainlyAt \/ P.setup # <<"seekout">>
  BY <1>1, <1>3
<1>5. "zeroin" \in Range(P.setup) <=> P \in Backwards \cup {reordercat61}
  <2>1. P \in Plainly \cup PlainlyAt \cup {carefulcat61} =>
          "zeroin" \notin Range(P.setup) /\ P \notin Backwards \cup {reordercat61}
    BY <1>2, <1>3 DEF Backwards
  <2>2. P \in {wreverse61, wstridecat61} =>
          "zeroin" \notin Range(P.setup) /\ P \notin Backwards \cup {reordercat61}
    BY <1>2, <1>3, ProgramsDiffer DEF Backwards
  <2>. QED BY <1>1, <1>3, <2>1, <2>2
<1>6. "zeroout" \in Range(P.setup) <=> P \in {wreverse61, reordercat61, wstridecat61}
  <2>1. P \in Plainly \cup PlainlyAt \cup {carefulcat61} =>
          "zeroout" \notin Range(P.setup) /\ P \notin {wreverse61, reordercat61, wstridecat61}
    BY <1>2, <1>3
  <2>2. P \in Backwards =>
          "zeroout" \notin Range(P.setup) /\ P \notin {wreverse61, reordercat61, wstridecat61}
    BY <1>2, <1>3, ProgramsDiffer DEF Backwards
  <2>. QED BY <1>1, <1>3, <2>1, <2>2
<1>7. P \in PlainlyAt => P.setup = <<"seekout">>
  BY <1>3
<1>8. Total \in Nat /\ Base \in Nat
  BY <1>1 DEF Total, Base
<1>9. /\ P.order = "next" \/ P \in {wreverse61, wstridecat61} =>
           Base = IF run.in.seekable THEN run.in.at ELSE 0
      /\ P \in Backwards \cup {reordercat61} => Base = 0
  BY <1>2, <1>5, ProgramsDiffer DEF Base, Backwards
<1>10. Start = IF ~run.out.seekable THEN 0
               ELSE IF P \in PlainlyAt THEN run.at
               ELSE IF P \in {wreverse61, reordercat61, wstridecat61} THEN 0
               ELSE run.out.at
  BY <1>4, <1>6, <1>7 DEF Start
<1>11. Start \in Nat
  BY <1>1, <1>10
<1>. QED BY <1>8, <1>9, <1>10, <1>11

(* What is in the state after a step, for the lemmas to come.              *)
LEMMA TypesNext ==
  CallsInv' =>
    /\ st'.left \in Int /\ st'.pos \in Nat /\ st'.buf \in Seq(Nat) /\ Len(st'.buf) \in Nat
    /\ Origin' \in Nat /\ Sits(Stage, Place)' /\ Put' \in 0..Len(st'.buf)
<1>. DEFINE P == CallsInv =>
                   /\ st.left \in Int /\ st.pos \in Nat /\ st.buf \in Seq(Nat) /\ Len(st.buf) \in Nat
                   /\ Origin \in Nat /\ Sits(Stage, Place) /\ Put \in 0..Len(st.buf)
<1>1. P
  BY CallsAre
<1>2. P'
  BY <1>1, PTL
<1>. QED BY <1>2

(* The same, for a step of one run.                                        *)
LEMMA CallsAreNext ==
  ASSUME CallsInv', run' = run
  PROVE  /\ st'.left \in Int /\ st'.pos \in Nat /\ st'.buf \in Seq(Nat) /\ Len(st'.buf) \in Nat
         /\ Origin' \in Nat /\ Sits(Stage', Place') /\ Put' \in 0..Len(st'.buf)
<1>1. Sits(Stage, Place)' => Sits(Stage', Place')
  BY DEF Sits
<1>. QED BY <1>1, TypesNext

(* What is held lies within the input.                                     *)
LEMMA HeldFits ==
  ASSUME CallsInv, Place = "holding"
  PROVE  /\ st.buf # << >> /\ Len(st.buf) \in Nat \ {0} /\ Origin + Len(st.buf) <= Len(run.in.data)
         /\ run.prog.unit = "char" => Len(st.buf) = 1
         /\ \A i \in 1..Len(st.buf) : st.buf[i] = run.in.data[Origin + i]
<1>1. /\ st.buf \in Seq(Nat) /\ Len(st.buf) \in Nat /\ Origin \in Nat /\ Sits(Stage, Place)
      /\ Len(run.in.data) \in Nat
  BY CallsAre
<1>2. st.buf # << >> /\ (run.prog.unit = "char" => Len(st.buf) = 1)
  BY DEF CallsInv, BufInv
<1>3. Held = st.buf
  BY <1>1 DEF Held, Sits
<1>4. \A i \in 1..Len(st.buf) :
        Origin + i <= Len(run.in.data) /\ st.buf[i] = run.in.data[Origin + i]
  BY <1>3 DEF CallsInv, HeldInv, InP!Shows
<1>5. Len(st.buf) # 0
  BY <1>1, <1>2, EmptySeq
<1>6. Len(st.buf) \in 1..Len(st.buf)
  BY <1>1, <1>5
<1>. QED BY <1>1, <1>2, <1>4, <1>5, <1>6

(* A program that copies from the beginning to the end is as far in the    *)
(* one file as in the other, and stops when it has come to the end.        *)
NextInv ==
  run.prog.order = "next" =>
    /\ Place = "setup" => Origin = Base /\ st.left = run.size /\ st.pos = run.at
    /\ Place # "setup" =>
         /\ WriteAt \in Nat /\ WriteAt >= Start /\ Origin - Base = WriteAt - Start
         /\ run.size - st.left = (IF run.prog.unit = "char" THEN WriteAt - Start ELSE 0)
         /\ run.size >= 0 => st.left >= 0
         /\ Place \in {"fetching", "holding"} => st.left # 0
         /\ Origin <= Len(run.in.data) \/ Origin = Base
         /\ Place = "closing" => st.left = 0 \/ Origin >= Len(run.in.data)

(* It begins so. *)
LEMMA InitNext == Init => NextInv
<1>. SUFFICES ASSUME Init, run.prog.order = "next" PROVE NextInv
  BY DEF NextInv
<1>1. CallsInv /\ run \in Runs /\ In!Opened(run.in) /\ Out!Opened(run.out)
  BY InitCalls DEF Init
<1>2. /\ st.left = run.size /\ st.pos = run.at /\ ~st.sent /\ st.pc = 1
  BY DEF Init
<1>3. Sits(Stage, Place) /\ Begins(Stage, Place)
  BY <1>1, <1>2, CallsAre, RunIs DEF Place
<1>4. /\ Total \in Nat /\ Base \in Nat /\ Start \in Nat
      /\ Base = IF run.in.seekable THEN run.in.at ELSE 0
      /\ Start = IF ~run.out.seekable THEN 0
                 ELSE IF run.prog \in PlainlyAt THEN run.at
                 ELSE IF run.prog \in {wreverse61, reordercat61, wstridecat61} THEN 0
                 ELSE run.out.at
  BY <1>1, BeginsAt
<1>5. inF.pos = Base /\ outF.pos = IF run.out.seekable THEN run.out.at ELSE 0
  BY <1>1, <1>4, InOpened, OutOpened
<1>6. Origin = Base
  <2>1. Held = << >> /\ Len(<< >>) = 0
    BY <1>2, <1>3 DEF Held, Begins
  <2>. QED BY <1>4, <1>5, <2>1 DEF Origin
<1>7. Place # "setup" => WriteAt = Start
  <2>1. run.prog \notin {wreverse61, reordercat61, wstridecat61}
    BY OrdersAre
  <2>2. Put = 0
    BY <1>2 DEF Put
  <2>3. Place # "setup" => outF.pos = Start
    BY <1>3, <1>4, <1>5, <2>1 DEF Begins
  <2>. QED BY <1>4, <2>2, <2>3 DEF WriteAt
<1>8. Place # "setup" => Place = "top"
  BY <1>3 DEF Begins
<1>9. run.size \in Int
  BY <1>1, RunIs
<1>. QED BY <1>2, <1>4, <1>6, <1>7, <1>8, <1>9 DEF NextInv

(* And stays so. *)
LEMMA NextGoes ==
  ASSUME CallsInv, CallsInv', run' = run, Effect, NextInv
  PROVE  NextInv'
<1>. SUFFICES ASSUME run.prog.order = "next" PROVE NextInv'
  BY DEF NextInv
<1>1. /\ run \in Runs /\ st.left \in Int /\ Origin \in Nat /\ Sits(Stage, Place)
      /\ Len(run.in.data) \in Nat /\ run.size \in Int
  BY CallsAre, RunIs
<1>2. st'.left \in Int /\ Origin' \in Nat /\ Sits(Stage', Place')
  BY CallsAreNext
<1>3. /\ Base \in Nat /\ Start \in Nat /\ Base' = Base /\ Start' = Start
      /\ Start = IF ~run.out.seekable THEN 0
                 ELSE IF run.prog \in PlainlyAt THEN run.at
                 ELSE IF run.prog \in {wreverse61, reordercat61, wstridecat61} THEN 0
                 ELSE run.out.at
  BY <1>1, BeginsAt DEF Base, Start
<1>4. /\ Stage \notin {"size", "zeroin", "zeroout", "blocks", "seekin"}
      /\ Stage = "seekout" => Place = "setup"
  BY <1>1 DEF Sits
<1>5. CASE Waits
  <2>1. /\ Place' = Place /\ Origin' = Origin /\ st'.left = st.left /\ st'.pos = st.pos
        /\ Place # "setup" => WriteAt' = WriteAt
    BY <1>4, <1>5 DEF Waits, Keeps
  <2>. QED BY <1>3, <2>1 DEF NextInv
<1>6. CASE Retries
  BY <1>3, <1>6 DEF NextInv, Retries, Keeps, FilesStay
<1>7. CASE Goes
  <2>1. /\ st'.left = st.left /\ st'.pos = st.pos /\ Origin' = Origin /\ WriteAt' = WriteAt
        /\ Stage \in {"clear", "seekout", "read", "flush", "closein", "closeout"}
        /\ Follows(Stage, Place, Stage', Place') /\ Sits(Stage', Place')
        /\ Stage = "seekout" => WriteAt = st.pos /\ run.out.seekable
    BY <1>1, <1>4, <1>7 DEF Goes, GoesOn, Keeps, FilesStay, Sits, Names
  <2>2. CASE Stage = "seekout"
    <3>1. Place = "setup" /\ Place' = "top" /\ run.prog \in PlainlyAt
      BY <1>1, <1>4, <2>1, <2>2 DEF Follows, Sits
    <3>2. WriteAt = Start /\ Origin = Base /\ st.left = run.size
      BY <1>3, <2>1, <2>2, <3>1 DEF NextInv
    <3>3. WriteAt' = Start' /\ Origin' = Base' /\ st'.left = run'.size /\ Start' \in Nat
      BY <1>3, <2>1, <3>2
    <3>4. WriteAt' \in Nat /\ WriteAt' >= Start' /\ Origin' - Base' = 0 /\ WriteAt' - Start' = 0
      BY <1>3, <3>3
    <3>5. run'.size - st'.left = 0 /\ (run'.size >= 0 => st'.left >= 0)
      BY <1>1, <3>3
    <3>6. run'.size - st'.left = (IF run'.prog.unit = "char" THEN WriteAt' - Start' ELSE 0)
      BY <3>4, <3>5
    <3>7. Place' # "setup" /\ Place' \notin {"fetching", "holding", "closing"}
      BY <3>1
    <3>. QED BY <3>3, <3>4, <3>5, <3>6, <3>7 DEF NextInv
  <2>3. CASE Stage # "seekout"
    <3>1. Place # "setup"
      BY <1>1, <2>1, <2>3 DEF Sits
    <3>2. /\ Place' # "setup" /\ (Place' = "closing" => Place = "closing")
          /\ Place' \in {"fetching", "holding"} => Place \in {"fetching", "holding"}
      BY <1>1, <2>1, <2>3 DEF Follows, Sits
    <3>. QED BY <1>3, <2>1, <3>1, <3>2 DEF NextInv
  <2>. QED BY <2>2, <2>3
<1>8. CASE Loops
  <2>1. /\ Place = "top" /\ Place' = "fetching" /\ st'.left = st.left /\ st.left # 0
        /\ Origin' = Origin /\ WriteAt' = WriteAt
    BY <1>1, <1>8 DEF Loops, GoesOn, Keeps, FilesStay, Follows, Sits
  <2>. QED BY <1>3, <2>1 DEF NextInv
<1>9. CASE Stops
  <2>1. /\ Place # "setup" /\ Place' = "closing" /\ st'.left = st.left
        /\ Origin' = Origin /\ WriteAt' = WriteAt
        /\ st.left = 0 \/ Origin >= Len(run.in.data)
    BY <1>1, <1>9 DEF Stops, Keeps, FilesStay, Sits
  <2>. QED BY <1>3, <2>1 DEF NextInv
<1>10. CASE Writes
  <2>. DEFINE n == Len(st.buf)
  <2>1. /\ Stage = "write" /\ Place = "holding" /\ Place' = "written"
        /\ Origin' = Origin + n /\ WriteAt' = WriteAt + n
        /\ st'.left = IF run.prog.unit = "char" THEN st.left - 1 ELSE st.left
    BY <1>1, <1>10 DEF Writes, GoesOn, Follows, Sits
  <2>2. n \in Nat \ {0} /\ (run.prog.unit = "char" => n = 1) /\ Origin + n <= Len(run.in.data)
    BY <2>1, HeldFits
  <2>. HIDE DEF n
  <2>3. /\ WriteAt \in Nat /\ WriteAt >= Start /\ Origin - Base = WriteAt - Start
        /\ run.size - st.left = (IF run.prog.unit = "char" THEN WriteAt - Start ELSE 0)
        /\ run.size >= 0 => st.left >= 0
        /\ st.left # 0
    BY <2>1 DEF NextInv
  <2>4. WriteAt' \in Nat /\ WriteAt' >= Start /\ Origin' - Base = WriteAt' - Start
    <3>1. /\ WriteAt \in Nat /\ Start \in Nat /\ Origin \in Nat /\ Base \in Nat /\ n \in Nat
          /\ WriteAt >= Start /\ Origin - Base = WriteAt - Start
          /\ Origin' = Origin + n /\ WriteAt' = WriteAt + n
      BY <1>1, <1>3, <2>1, <2>2, <2>3
    <3>. QED BY <3>1
  <2>5. /\ run.size - st'.left = (IF run.prog.unit = "char" THEN WriteAt' - Start ELSE 0)
        /\ run.size >= 0 => st'.left >= 0
    <3>1. CASE run.prog.unit = "char"
      <4>1. /\ n = 1 /\ WriteAt' = WriteAt + 1 /\ st'.left = st.left - 1
            /\ run.size - st.left = WriteAt - Start
        BY <2>1, <2>2, <2>3, <3>1
      <4>2. run.size - st'.left = WriteAt' - Start
        <5>1. /\ WriteAt \in Nat /\ Start \in Nat /\ st.left \in Int /\ run.size \in Int
              /\ run.size - st.left = WriteAt - Start
              /\ WriteAt' = WriteAt + 1 /\ st'.left = st.left - 1
          BY <1>1, <1>3, <2>3, <4>1
        <5>. QED BY <5>1
      <4>3. run.size >= 0 => st'.left >= 0
        BY <1>1, <2>3, <4>1
      <4>. QED BY <3>1, <4>2, <4>3
    <3>2. CASE run.prog.unit # "char"
      BY <2>1, <2>3, <3>2
    <3>. QED BY <3>1, <3>2
  <2>6. Origin' <= Len(run.in.data)
    BY <2>1, <2>2
  <2>. QED BY <1>3, <2>1, <2>4, <2>5, <2>6 DEF NextInv
<1>11. ~Sizes /\ ~Divides
  BY <1>4 DEF Sizes, Divides
<1>. QED BY <1>5, <1>6, <1>7, <1>8, <1>9, <1>10, <1>11 DEF Effect

(* The byte that the program is at is not among those that are done.       *)
Taken == IF Place \in {"fetching", "holding"} THEN 1 ELSE 0

(* A program that goes down from the end: reverse61 reads at the position  *)
(* it has come to, and has written what is above; wreverse61 writes there, *)
(* and has read as much.                                                   *)
DownInv ==
  run.prog.order = "down" =>
    /\ Stage = "size" => st.left = run.size
    /\ Stage # "size" => st.left \in 0..Total
    /\ Place = "setup" /\ Stage # "size" => st.left = Total
    /\ Place \in {"fetching", "holding", "written"} => st.pos = st.left /\ st.left < Total
    /\ Place = "closing" => st.left = 0

ReverseInv ==
  run.prog = reverse61 =>
    /\ Place = "setup" => WriteAt = Start
    /\ Stage = "read" \/ Place = "holding" => Origin = st.pos
    /\ Place # "setup" => WriteAt = Start + (Total - st.left - Taken)

WreverseInv ==
  run.prog = wreverse61 =>
    /\ Place = "setup" => Origin = 0
    /\ Place # "setup" => Origin = Total - st.left - Taken
    /\ Stage = "write" => WriteAt = st.pos

(* They begin so. *)
LEMMA InitDown == Init /\ Fits(run) => DownInv /\ ReverseInv /\ WreverseInv
<1>. SUFFICES ASSUME Init, Fits(run), run.prog \in {reverse61, wreverse61}
              PROVE  DownInv /\ ReverseInv /\ WreverseInv
  BY UnitsAre DEF Init, DownInv, ReverseInv, WreverseInv
<1>1. CallsInv /\ run \in Runs /\ In!Opened(run.in) /\ Out!Opened(run.out)
  BY InitCalls DEF Init
<1>2. st.left = run.size /\ ~st.sent /\ st.pc = 1
  BY DEF Init
<1>3. Sits(Stage, Place) /\ Begins(Stage, Place)
  BY <1>1, <1>2, CallsAre, RunIs DEF Place
<1>4. Stage = "size" /\ Place = "setup"
  BY <1>3 DEF Begins, Sits, Backwards
<1>5. WriteAt = outF.pos /\ Origin = inF.pos /\ inF.pos \in Nat /\ outF.pos \in Nat
  <2>1. Held = << >> /\ Len(<< >>) = 0 /\ Put = 0 /\ inF.pos \in Nat /\ outF.pos \in Nat
    BY <1>1, <1>2, <1>4, CallsAre DEF Held, Put
  <2>. QED BY <2>1 DEF WriteAt, Origin
<1>6. /\ inF.pos = IF run.in.seekable THEN run.in.at ELSE 0
      /\ outF.pos = IF run.out.seekable THEN run.out.at ELSE 0
  BY <1>1, InOpened, OutOpened
<1>7. DownInv
  BY <1>2, <1>4 DEF DownInv
<1>8. ReverseInv
  <2>1. run.prog = reverse61 => Start = IF run.out.seekable THEN run.out.at ELSE 0
    <3>1. run.prog = reverse61 =>
            run.prog \notin PlainlyAt /\ run.prog \notin {wreverse61, reordercat61, wstridecat61}
      BY OrdersAre, ProgramsDiffer
    <3>. QED BY <1>1, <3>1, BeginsAt
  <2>. QED BY <1>4, <1>5, <1>6, <2>1 DEF ReverseInv
<1>9. WreverseInv
  <2>1. run.prog = wreverse61 /\ run.in.seekable => run.in.at = 0
    BY OrdersAre DEF Fits
  <2>. QED BY <1>4, <1>5, <1>6, <2>1 DEF WreverseInv
<1>. QED BY <1>7, <1>8, <1>9

(* What a program is that goes down.                                       *)
LEMMA DownIs ==
  ASSUME CallsInv, run.prog.order = "down"
  PROVE  /\ run.prog \in {reverse61, wreverse61} /\ run.prog.unit = "char" /\ ~run.prog.careful
         /\ Stage \notin {"clear", "blocks"}
         /\ run.prog = reverse61 => Stage \notin {"zeroout", "seekout"}
         /\ run.prog = wreverse61 => Stage \notin {"zeroin", "seekin"}
<1>1. run \in Runs /\ Sits(Stage, Place)
  BY CallsAre
<1>2. run.prog \in {reverse61, wreverse61} /\ run.prog.unit = "char" /\ ~run.prog.careful
  BY <1>1, UnitsAre
<1>3. /\ run.prog \notin PlainlyAt /\ run.prog # carefulcat61 /\ run.prog # reordercat61
      /\ run.prog # wstridecat61
  BY <1>2, OrdersAre
<1>. QED BY <1>1, <1>2, <1>3 DEF Sits, Backwards

(* And it is always where it should be. *)
LEMMA DownGoes ==
  ASSUME CallsInv, CallsInv', run' = run, Effect, DownInv, ReverseInv, WreverseInv
  PROVE  DownInv' /\ ReverseInv' /\ WreverseInv'
<1>. SUFFICES ASSUME run.prog \in {reverse61, wreverse61}, run.prog.order = "down"
              PROVE  DownInv' /\ ReverseInv' /\ WreverseInv'
  BY DownIs, OrdersAre DEF DownInv, ReverseInv, WreverseInv
<1>1. /\ run \in Runs /\ st.left \in Int /\ Origin \in Nat /\ Sits(Stage, Place)
      /\ Len(run.in.data) \in Nat /\ run.size \in Int
  BY CallsAre, RunIs
<1>2. st'.left \in Int /\ Origin' \in Nat /\ Sits(Stage', Place')
  BY CallsAreNext
<1>3. /\ Total \in Nat /\ Start \in Nat /\ Total' = Total /\ Start' = Start
  BY <1>1, BeginsAt DEF Total, Start
<1>4. /\ Stage \notin {"clear", "blocks"}
      /\ run.prog = reverse61 => Stage \notin {"zeroout", "seekout"}
      /\ run.prog = wreverse61 => Stage \notin {"zeroin", "seekin"}
      /\ run.prog.unit = "char" /\ reverse61 # wreverse61
      /\ run.prog = reverse61 => run.prog \in Backwards
      /\ run.prog # reordercat61 /\ run.prog # wstridecat61 /\ run.prog \notin PlainlyAt
  BY DownIs, OrdersAre, ProgramsDiffer DEF Backwards
<1>5. /\ Stage = "size" => st.left = run.size
      /\ Stage # "size" => st.left \in 0..Total
      /\ Place = "setup" /\ Stage # "size" => st.left = Total
      /\ Place \in {"fetching", "holding", "written"} => st.pos = st.left /\ st.left < Total
      /\ Place = "closing" => st.left = 0
  BY DEF DownInv
<1>6. run.prog = reverse61 =>
        /\ Place = "setup" => WriteAt = Start
        /\ Stage = "read" \/ Place = "holding" => Origin = st.pos
        /\ Place # "setup" => WriteAt = Start + (Total - st.left - Taken)
  BY DEF ReverseInv
<1>7. run.prog = wreverse61 =>
        /\ Place = "setup" => Origin = 0
        /\ Place # "setup" => Origin = Total - st.left - Taken
        /\ Stage = "write" => WriteAt = st.pos
  BY DEF WreverseInv
<1>8. CASE Waits
  <2>1. /\ Place' = Place /\ Stage' = Stage /\ st'.left = st.left /\ st'.pos = st.pos
        /\ run.prog = reverse61 => WriteAt' = WriteAt
        /\ run.prog = wreverse61 => Origin' = Origin
        /\ Stage = "read" \/ Place = "holding" => Origin' = Origin
        /\ Stage = "write" => WriteAt' = WriteAt
    BY <1>1, <1>4, <1>8 DEF Waits, Keeps, Sits
  <2>2. Taken' = Taken
    BY <2>1 DEF Taken
  <2>3. DownInv'
    BY <1>3, <1>5, <2>1 DEF DownInv
  <2>4. ReverseInv'
    BY <1>3, <1>6, <2>1, <2>2 DEF ReverseInv
  <2>5. WreverseInv'
    BY <1>3, <1>7, <2>1, <2>2 DEF WreverseInv
  <2>. QED BY <2>3, <2>4, <2>5
<1>9. CASE Goes
  <2>1. /\ st'.left = st.left /\ st'.pos = st.pos /\ Origin' = Origin /\ WriteAt' = WriteAt
        /\ Stage \in {"zeroin", "zeroout", "seekin", "read", "seekout", "flush", "closein", "closeout"}
        /\ Follows(Stage, Place, Stage', Place') /\ Sits(Stage', Place')
        /\ Stage = "seekin" => Origin = st.pos
        /\ Stage = "seekout" => WriteAt = st.pos
    BY <1>1, <1>4, <1>9 DEF Goes, GoesOn, Keeps, FilesStay, Sits, Names
  <2>2. /\ Stage # "size" /\ Stage' # "size" /\ Place' # "setup"
        /\ Place' = "closing" => Place = "closing"
        /\ Place' \in {"fetching", "holding", "written"} => Place \in {"fetching", "holding", "written"}
        /\ Place' \in {"fetching", "holding"} <=> Place \in {"fetching", "holding"}
        /\ Place = "setup" => Stage \in {"zeroin", "zeroout"}
        /\ Stage' = "read" => Stage = "seekin"
        /\ Place' = "holding" => Place = "holding" \/ Stage = "read"
        /\ run.prog = wreverse61 /\ Stage' = "write" => Stage = "seekout"
    BY <1>1, <1>4, <2>1 DEF Follows, Sits
  <2>3. Taken' = Taken /\ (Place = "setup" => Taken = 0)
    BY <2>2 DEF Taken
  <2>4. DownInv'
    BY <1>3, <1>5, <2>1, <2>2 DEF DownInv
  <2>5. ReverseInv'
    <3>1. Place = "setup" => st.left = Total /\ Total - st.left - Taken' = 0
      BY <1>3, <1>5, <2>2, <2>3
    <3>2. run.prog = reverse61 => WriteAt' = Start + (Total - st'.left - Taken')
      BY <1>3, <1>6, <2>1, <2>3, <3>1
    <3>. QED BY <1>3, <1>6, <2>1, <2>2, <3>2 DEF ReverseInv
  <2>6. WreverseInv'
    <3>1. Place = "setup" => st.left = Total /\ Total - st.left - Taken' = 0
      BY <1>3, <1>5, <2>2, <2>3
    <3>2. run.prog = wreverse61 => Origin' = Total - st'.left - Taken'
      BY <1>3, <1>7, <2>1, <2>3, <3>1
    <3>. QED BY <1>3, <1>7, <2>1, <2>2, <3>2 DEF WreverseInv
  <2>. QED BY <2>4, <2>5, <2>6
<1>10. CASE Sizes
  <2>1. /\ Stage = "size" /\ Place = "setup" /\ Stage' \in {"zeroin", "zeroout"} /\ Place' = "setup"
        /\ st'.left = (IF st.left >= 0 THEN st.left ELSE Len(run.in.data))
        /\ Origin' = Origin /\ WriteAt' = WriteAt
    BY <1>1, <1>2, <1>4, <1>10 DEF Sizes, GoesOn, FilesStay, Follows, Sits
  <2>2. st'.left = Total
    BY <1>5, <2>1 DEF Total
  <2>. QED BY <1>3, <1>6, <1>7, <2>1, <2>2 DEF DownInv, ReverseInv, WreverseInv
<1>11. CASE Loops
  <2>1. /\ Stage = "top" /\ Place = "top" /\ Place' = "fetching" /\ Stage' # "size"
        /\ st.left # 0 /\ st'.left = st.left - 1 /\ st'.pos = st.left - 1
        /\ Origin' = Origin /\ WriteAt' = WriteAt
        /\ run.prog = reverse61 => Stage' = "seekin"
        /\ Stage' # "write"
    BY <1>1, <1>2, <1>4, <1>11 DEF Loops, GoesOn, FilesStay, Follows, Sits
  <2>2. Taken = 0 /\ Taken' = 1
    BY <2>1 DEF Taken
  <2>3. st.left \in 0..Total /\ st.left # 0
    BY <1>5, <2>1
  <2>4. /\ st'.left \in 0..Total /\ st'.left < Total /\ st'.pos = st'.left
        /\ Total - st'.left - Taken' = Total - st.left - Taken
    BY <1>3, <2>1, <2>2, <2>3
  <2>. QED BY <1>3, <1>6, <1>7, <2>1, <2>4 DEF DownInv, ReverseInv, WreverseInv
<1>12. CASE Stops
  <2>1. /\ Stage = "top" /\ Place = "top" /\ Stage' = "closein" /\ Place' = "closing"
        /\ st.left = 0 /\ st'.left = st.left /\ Origin' = Origin /\ WriteAt' = WriteAt
    BY <1>1, <1>12 DEF Stops, Keeps, FilesStay, Sits
  <2>2. Taken = 0 /\ Taken' = 0
    BY <2>1 DEF Taken
  <2>. QED BY <1>3, <1>5, <1>6, <1>7, <2>1, <2>2 DEF DownInv, ReverseInv, WreverseInv
<1>13. CASE Writes
  <2>1. /\ Stage = "write" /\ Place = "holding" /\ Place' = "written" /\ Stage' # "size"
        /\ Stage' \notin {"read", "write"}
        /\ Origin' = Origin + Len(st.buf) /\ WriteAt' = WriteAt + Len(st.buf)
        /\ st'.left = st.left /\ st'.pos = st.pos
    BY <1>1, <1>2, <1>4, <1>13 DEF Writes, GoesOn, Follows, Sits
  <2>2. Len(st.buf) = 1
    BY <1>4, <2>1, HeldFits
  <2>3. Taken = 1 /\ Taken' = 0
    BY <2>1 DEF Taken
  <2>4. Origin' = Origin + 1 /\ WriteAt' = WriteAt + 1
    BY <2>1, <2>2
  <2>5. run.prog = reverse61 => WriteAt' = Start + (Total - st'.left - Taken')
    BY <1>1, <1>3, <1>6, <2>1, <2>3, <2>4
  <2>6. run.prog = wreverse61 => Origin' = Total - st'.left - Taken'
    BY <1>1, <1>3, <1>7, <2>1, <2>3, <2>4
  <2>. QED BY <1>3, <1>5, <2>1, <2>5, <2>6 DEF DownInv, ReverseInv, WreverseInv
<1>14. ~Retries /\ ~Divides
  BY <1>4 DEF Retries, Divides
<1>. QED BY <1>8, <1>9, <1>10, <1>11, <1>12, <1>13, <1>14 DEF Effect

(* Blocks of n bytes: those below t, and two of them.                      *)
LEMMA Multiples ==
  ASSUME NEW n \in Nat, NEW a \in Nat, NEW b \in Nat, a < b
  PROVE  a * n + n <= b * n
<1>1. PICK d \in Nat : b = a + 1 + d
  <2>1. b - a - 1 \in Nat /\ b = a + 1 + (b - a - 1)
    OBVIOUS
  <2>. QED BY <2>1
<1>2. (a + 1 + d) * n = a * n + n + d * n
  OBVIOUS
<1>3. d * n \in Nat /\ a * n \in Nat
  OBVIOUS
<1>. QED BY <1>1, <1>2, <1>3

(* A block below the quotient ends within t, and every byte of t is in one *)
(* if t divides into blocks.                                               *)
LEMMA BlocksOf ==
  ASSUME NEW t \in Nat, NEW n \in Nat \ {0}
  PROVE  /\ t \div n \in Nat
         /\ \A b \in 0..(t \div n - 1) : b * n + n <= t
         /\ t % n = 0 => \A i \in 1..t : \E b \in 0..(t \div n - 1) : b * n < i /\ i <= b * n + n
<1>. DEFINE q == t \div n
            r == t % n
<1>1. q \in Int /\ t = (n * q) + r /\ r \in 0..(n - 1)
  <2>1. \A a \in Nat : a \div n \in Int /\ a = (n * (a \div n)) + (a % n)
    OBVIOUS
  <2>2. r \in 0..(n - 1)
    BY ModIs
  <2>. QED BY <2>1, <2>2
<1>2. q \in Nat
  OBVIOUS
<1>. HIDE DEF q, r
<1>3. q * n = n * q /\ q * n \in Nat
  BY <1>2
<1>4. ASSUME NEW b \in 0..(q - 1) PROVE b * n + n <= t
  <2>1. b \in Nat /\ b < q
    BY <1>2
  <2>2. b * n + n <= q * n
    BY <1>2, <2>1, Multiples
  <2>3. b * n \in Nat
    BY <2>1
  <2>. QED BY <1>1, <1>3, <2>2, <2>3
<1>5. ASSUME r = 0, NEW i \in 1..t PROVE \E b \in 0..(q - 1) : b * n < i /\ i <= b * n + n
  <2>. DEFINE b == (i - 1) \div n
              m == (i - 1) % n
  <2>1. i - 1 \in Nat
    OBVIOUS
  <2>2. b \in Nat /\ i - 1 = (n * b) + m /\ m \in 0..(n - 1)
    <3>1. \A a \in Nat : a \div n \in Nat /\ a = (n * (a \div n)) + (a % n)
      OBVIOUS
    <3>2. m \in 0..(n - 1)
      BY <2>1, ModIs
    <3>. QED BY <2>1, <3>1, <3>2
  <2>. HIDE DEF b, m
  <2>3. b * n = n * b /\ b * n \in Nat
    BY <2>2
  <2>4. b * n < i /\ i <= b * n + n
    BY <2>2, <2>3
  <2>5. b < q
    <3>1. SUFFICES ASSUME q <= b PROVE FALSE
      BY <1>2, <2>2
    <3>2. q = b \/ q * n + n <= b * n
      BY <1>2, <2>2, <3>1, Multiples
    <3>3. t = q * n /\ i <= t
      BY <1>1, <1>3, <1>5
    <3>. QED BY <1>3, <2>3, <2>4, <3>2, <3>3
  <2>. QED BY <1>2, <2>2, <2>4, <2>5
<1>. QED BY <1>2, <1>4, <1>5 DEF q, r

(* reordercat61 has the blocks left that it has not yet taken, and is at   *)
(* the same position of its two files.                                     *)
BlockAt(b) == b * run.block

ShuffledInv ==
  run.prog = reordercat61 =>
    /\ Stage = "size" => st.left = run.size
    /\ Stage # "size" => st.left = Total
    /\ Place = "setup" => st.todo = {}
    /\ \A b \in st.todo : BlockAt(b) + run.block <= Total
    /\ Place \in {"fetching", "holding"} =>
         \E b \in Nat \ st.todo : st.pos = BlockAt(b) /\ BlockAt(b) + run.block <= Total
    /\ Stage = "read" \/ Place = "holding" => Origin = st.pos
    /\ Place = "holding" => Len(st.buf) = run.block
    /\ Stage = "write" => WriteAt = st.pos
    /\ Place = "closing" => st.todo = {}

(* It begins so. *)
LEMMA InitShuffled == Init => ShuffledInv
<1>. SUFFICES ASSUME Init, run.prog = reordercat61 PROVE ShuffledInv
  BY DEF ShuffledInv
<1>1. CallsInv /\ run \in Runs
  BY InitCalls DEF Init
<1>2. st.left = run.size /\ st.todo = {} /\ st.pc = 1
  BY DEF Init
<1>3. Sits(Stage, Place) /\ Begins(Stage, Place)
  BY <1>1, <1>2, CallsAre, RunIs DEF Place
<1>4. Stage = "size" /\ Place = "setup"
  BY <1>3 DEF Begins, Sits
<1>. QED BY <1>2, <1>4 DEF ShuffledInv

(* And is so after every step. *)
LEMMA ShuffledGoes ==
  ASSUME CallsInv, CallsInv', run' = run, Effect, Fits(run), ShuffledInv
  PROVE  ShuffledInv'
<1>. SUFFICES ASSUME run.prog = reordercat61 PROVE ShuffledInv'
  BY DEF ShuffledInv
<1>1. /\ run \in Runs /\ st.left \in Int /\ Origin \in Nat /\ Sits(Stage, Place)
      /\ Len(run.in.data) \in Nat /\ run.size \in Int /\ run.block \in Nat \ {0}
      /\ st \in StType
  BY CallsAre, RunIs
<1>2. st'.left \in Int /\ Origin' \in Nat /\ Sits(Stage', Place') /\ Len(st'.buf) \in Nat
  BY CallsAreNext
<1>3. /\ Total \in Nat /\ Total' = Total /\ \A b : BlockAt(b)' = BlockAt(b)
  BY <1>1, BeginsAt DEF Total, BlockAt
<1>4. /\ run.prog.order = "shuffled" /\ run.prog.unit = "block" /\ run.prog # carefulcat61
      /\ run.prog # wreverse61 /\ run.prog # wstridecat61 /\ run.prog \notin PlainlyAt
      /\ run.prog \notin Backwards /\ st.block = run.block /\ Total <= Len(run.in.data)
  <2>1. /\ run.prog.order = "shuffled" /\ run.prog # carefulcat61 /\ run.prog # wreverse61
        /\ run.prog # wstridecat61 /\ run.prog \notin PlainlyAt /\ run.prog \notin Backwards
    BY OrdersAre DEF Backwards
  <2>2. run.prog.unit = "block"
    BY <1>1, UnitsAre
  <2>3. Total <= Len(run.in.data)
    BY <1>1, <2>1 DEF Fits, Total
  <2>. QED BY <2>1, <2>2, <2>3 DEF CallsInv, BufInv
<1>5. Stage # "clear" /\ (Stage = "seekout" => Place # "setup")
  BY <1>1, <1>4 DEF Sits
<1>6. /\ Stage = "size" => st.left = run.size
      /\ Stage # "size" => st.left = Total
      /\ Place = "setup" => st.todo = {}
      /\ \A b \in st.todo : BlockAt(b) + run.block <= Total
      /\ Place \in {"fetching", "holding"} =>
           \E b \in Nat \ st.todo : st.pos = BlockAt(b) /\ BlockAt(b) + run.block <= Total
      /\ Stage = "read" \/ Place = "holding" => Origin = st.pos
      /\ Place = "holding" => Len(st.buf) = run.block
      /\ Stage = "write" => WriteAt = st.pos
      /\ Place = "closing" => st.todo = {}
  BY DEF ShuffledInv
<1>7. CASE Waits
  <2>1. /\ Place' = Place /\ Stage' = Stage /\ st'.left = st.left /\ st'.pos = st.pos
        /\ st'.todo = st.todo /\ st'.buf = st.buf
        /\ Stage = "read" \/ Place = "holding" => Origin' = Origin
        /\ Stage = "write" => WriteAt' = WriteAt
    BY <1>1, <1>7 DEF Waits, Keeps, Sits
  <2>. QED BY <1>3, <1>6, <2>1 DEF ShuffledInv
<1>8. CASE Goes
  <2>1. /\ st'.left = st.left /\ st'.pos = st.pos /\ st'.todo = st.todo
        /\ Origin' = Origin /\ WriteAt' = WriteAt /\ (Stage # "read" => st'.buf = st.buf)
        /\ Stage \in {"zeroin", "zeroout", "seekin", "read", "seekout", "flush", "closein", "closeout"}
        /\ Follows(Stage, Place, Stage', Place') /\ Sits(Stage', Place')
        /\ Stage = "seekin" => Origin = st.pos
        /\ Stage = "seekout" => WriteAt = st.pos
        /\ Stage = "read" => /\ Len(st'.buf) <= run.block
                             /\ Len(st'.buf) = run.block \/ Origin + Len(st'.buf) >= Len(run.in.data)
    BY <1>1, <1>4, <1>5, <1>8 DEF Goes, GoesOn, Keeps, FilesStay, Sits, Names
  <2>2. /\ Stage # "size" /\ Stage' # "size"
        /\ Place' = "setup" => Place = "setup"
        /\ Place' = "closing" => Place = "closing"
        /\ Place' \in {"fetching", "holding"} => Place \in {"fetching", "holding"}
        /\ Stage' = "read" => Stage = "seekin"
        /\ Place' = "holding" => Place = "holding" \/ Stage = "read"
        /\ Stage' = "write" => Stage = "seekout"
        /\ Stage = "read" => Place = "fetching"
    BY <1>1, <1>4, <2>1 DEF Follows, Sits
  <2>3. Stage = "read" => Len(st'.buf) = run.block
    <3>1. SUFFICES ASSUME Stage = "read" PROVE Len(st'.buf) = run.block
      OBVIOUS
    <3>2. PICK b \in Nat : st.pos = BlockAt(b) /\ BlockAt(b) + run.block <= Total
      BY <1>6, <2>2, <3>1
    <3>3. /\ Origin + run.block <= Total /\ Total <= Len(run.in.data) /\ Origin \in Nat
          /\ run.block \in Nat /\ Total \in Nat /\ Len(run.in.data) \in Nat /\ Len(st'.buf) \in Nat
          /\ Len(st'.buf) <= run.block
          /\ Len(st'.buf) = run.block \/ Origin + Len(st'.buf) >= Len(run.in.data)
      BY <1>1, <1>2, <1>3, <1>4, <1>6, <2>1, <3>1, <3>2
    <3>. QED BY <3>3
  <2>4. Place' = "holding" => Len(st'.buf) = run.block
    BY <1>1, <1>6, <2>1, <2>2, <2>3 DEF Sits
  <2>. QED BY <1>3, <1>6, <2>1, <2>2, <2>4 DEF ShuffledInv
<1>9. CASE Sizes
  <2>1. /\ Stage = "size" /\ Place = "setup" /\ Stage' = "zeroin" /\ Place' = "setup"
        /\ st'.left = (IF st.left >= 0 THEN st.left ELSE Len(run.in.data)) /\ st'.todo = st.todo
    BY <1>1, <1>2, <1>9 DEF Sizes, GoesOn, Follows, Sits
  <2>2. st'.left = Total
    BY <1>6, <2>1 DEF Total
  <2>. QED BY <1>3, <1>6, <2>1, <2>2 DEF ShuffledInv
<1>10. CASE Divides
  <2>1. /\ Stage = "blocks" /\ Stage' = "top" /\ Place' = "top"
        /\ st'.left = st.left /\ st'.todo = 0..(st.left \div st.block - 1)
    BY <1>2, <1>10 DEF Divides, GoesOn, Follows, Sits
  <2>2. st.left = Total
    BY <1>6, <2>1
  <2>3. \A b \in st'.todo : BlockAt(b) + run.block <= Total
    BY <1>1, <1>3, <1>4, <2>1, <2>2, BlocksOf DEF BlockAt
  <2>. QED BY <1>3, <2>1, <2>2, <2>3 DEF ShuffledInv
<1>11. CASE Loops
  <2>1. PICK b \in st.todo : st'.todo = st.todo \ {b} /\ st'.pos = b * st.block
    BY <1>4, <1>11 DEF Loops
  <2>2. /\ Stage = "top" /\ Place' = "fetching" /\ Stage' = "seekin" /\ st'.left = st.left
    BY <1>1, <1>2, <1>4, <1>11 DEF Loops, GoesOn, Follows, Sits
  <2>3. b \in Nat \ st'.todo /\ st'.pos = BlockAt(b) /\ BlockAt(b) + run.block <= Total
    BY <1>1, <1>4, <1>6, <2>1 DEF BlockAt, StType
  <2>. QED BY <1>3, <1>6, <2>1, <2>2, <2>3 DEF ShuffledInv
<1>12. CASE Stops
  <2>1. /\ Stage' = "closein" /\ Place' = "closing" /\ st'.left = st.left /\ st'.todo = st.todo
        /\ \/ Stage = "top" /\ st.todo = {}
           \/ Stage = "read" /\ Origin >= Len(run.in.data)
    BY <1>4, <1>12 DEF Stops, Keeps
  <2>2. Stage # "read"
    <3>1. SUFFICES ASSUME Stage = "read" PROVE FALSE
      OBVIOUS
    <3>2. PICK b \in Nat : st.pos = BlockAt(b) /\ BlockAt(b) + run.block <= Total
      BY <1>1, <1>6, <3>1 DEF Sits
    <3>3. /\ Origin + run.block <= Total /\ Total <= Len(run.in.data) /\ Origin >= Len(run.in.data)
          /\ Origin \in Nat /\ run.block \in Nat \ {0} /\ Total \in Nat /\ Len(run.in.data) \in Nat
      BY <1>1, <1>3, <1>4, <1>6, <2>1, <3>1, <3>2
    <3>. QED BY <3>3
  <2>. QED BY <1>3, <1>6, <2>1, <2>2 DEF ShuffledInv
<1>13. CASE Writes
  <2>1. /\ Stage = "write" /\ Place = "holding" /\ Place' = "written" /\ Stage' = "flush"
        /\ st'.left = st.left /\ st'.todo = st.todo
    BY <1>1, <1>2, <1>4, <1>13 DEF Writes, GoesOn, Follows, Sits
  <2>. QED BY <1>3, <1>6, <2>1 DEF ShuffledInv
<1>14. ~Retries
  BY <1>4 DEF Retries
<1>. QED BY <1>7, <1>8, <1>9, <1>10, <1>11, <1>12, <1>13, <1>14 DEF Effect

(* What is left of the state when a program by strides has written.        *)
LEMMA StrideWrites ==
  ASSUME CallsInv, StrideFits, run.prog.order = "stride", Writes
  PROVE  /\ st'.left = st.left /\ st'.written = st.written + Len(st.buf)
         /\ st'.pos = IF st.pos + run.stride < st.left THEN st.pos + run.stride
                      ELSE (st.pos % run.stride) + st.block
         /\ (st'.pos % run.stride) + st'.block <= run.stride
         /\ st'.block =
              IF st.pos + run.stride < st.left
                 \/ st.block <= run.stride - ((st.pos % run.stride) + st.block)
              THEN st.block ELSE run.stride - ((st.pos % run.stride) + st.block)
<1>1. st \in StType /\ run \in Runs /\ Len(st.buf) \in Nat /\ st.written \in Nat
  BY CallsAre DEF StType
<1>. DEFINE n == st.written + Len(st.buf)
            s == [st EXCEPT !.written = n]
<1>2. n \in Nat
  BY <1>1
<1>3. st' = Onward(Stride([st EXCEPT !.written = @ + Len(st.buf)]))
  BY DEF Writes
<1>. HIDE DEF n
<1>4. /\ s \in StType /\ s.pos = st.pos /\ s.block = st.block /\ s.left = st.left /\ s.written = n
  BY <1>1, <1>2 DEF StType
<1>5. s = [st EXCEPT !.written = @ + Len(st.buf)]
  BY <1>1 DEF n, StType
<1>. HIDE DEF s
<1>6. (s.pos % run.stride) + s.block <= run.stride
  BY <1>4 DEF StrideFits
<1>7. /\ Stride(s) \in StType /\ Stride(s).left = s.left /\ Stride(s).written = s.written
      /\ Stride(s).pos = IF s.pos + run.stride < s.left THEN s.pos + run.stride
                         ELSE (s.pos % run.stride) + s.block
      /\ (Stride(s).pos % run.stride) + Stride(s).block <= run.stride
      /\ Stride(s).block =
           IF s.pos + run.stride < s.left
              \/ s.block <= run.stride - ((s.pos % run.stride) + s.block)
           THEN s.block ELSE run.stride - ((s.pos % run.stride) + s.block)
  BY <1>1, <1>4, <1>6, StrideIs
<1>8. st' = Onward(Stride(s))
  BY <1>3, <1>5
<1>9. /\ st'.left = Stride(s).left /\ st'.written = Stride(s).written /\ st'.pos = Stride(s).pos
      /\ st'.block = Stride(s).block
  BY <1>7, <1>8 DEF Onward, StType
<1>10. st'.written = st.written + Len(st.buf)
  BY <1>4, <1>7, <1>9 DEF n
<1>. QED BY <1>4, <1>7, <1>9, <1>10

(* The block at hand always fits into its stride.                          *)
LEMMA StrideFitsGoes ==
  ASSUME CallsInv, run' = run, Effect, StrideFits
  PROVE  StrideFits'
<1>. SUFFICES ASSUME run.prog.order = "stride" PROVE StrideFits'
  BY DEF StrideFits
<1>1. CASE Writes
  BY <1>1, StrideWrites DEF StrideFits
<1>2. CASE ~Writes
  <2>1. st'.pos = st.pos /\ st'.block = st.block
    BY <1>2 DEF Effect, Waits, Retries, Goes, Sizes, Divides, Loops, Stops, Keeps
  <2>. QED BY <2>1 DEF StrideFits
<1>. QED BY <1>1, <1>2

(* stridecat61 does not read behind the end of its input: strides that are *)
(* longer than the input are not taken, and with others the next column    *)
(* begins within it.                                                       *)
StrideInv ==
  run.prog = stridecat61 =>
    /\ Stage = "size" => st.left = run.size
    /\ Stage # "size" => st.left = Total
    /\ Place = "setup" => st.pos = 0 /\ st.written = 0
    /\ Place \in {"fetching", "holding"} => st.written < Total
    /\ run.stride <= Total => st.pos <= Total
    /\ run.stride > Total /\ st.written < Total => st.pos = st.written
    /\ Stage = "read" \/ Place = "holding" => Origin = st.pos
    /\ Place = "holding" => Len(st.buf) = st.block \/ st.pos + Len(st.buf) >= Len(run.in.data)

(* It begins so. *)
LEMMA InitStride == Init => StrideFits /\ (Fits(run) => StrideInv)
<1>. SUFFICES ASSUME Init PROVE StrideFits /\ (Fits(run) => StrideInv)
  OBVIOUS
<1>1. /\ CallsInv /\ run \in Runs /\ st.left = run.size /\ st.pos = run.at /\ st.written = 0
      /\ st.block = run.block /\ st.pc = 1
  BY InitCalls DEF Init
<1>2. StrideFits
  BY <1>1, Copy61Assumption DEF StrideFits
<1>3. ASSUME Fits(run), run.prog = stridecat61
      PROVE  StrideInv
  <2>1. Sits(Stage, Place) /\ Begins(Stage, Place)
    BY <1>1, CallsAre, RunIs DEF Place
  <2>2. Stage = "size" /\ Place = "setup"
    BY <1>3, <2>1 DEF Begins, Sits, Backwards
  <2>3. st.pos = 0 /\ Total \in Nat
    BY <1>1, <1>3, OrdersAre, BeginsAt DEF Fits
  <2>. QED BY <1>1, <2>2, <2>3 DEF StrideInv
<1>. QED BY <1>2, <1>3 DEF StrideInv

(* And is so after every step. *)
LEMMA StrideGoes ==
  ASSUME CallsInv, CallsInv', run' = run, Effect, Fits(run), StrideFits, StrideInv
  PROVE  StrideInv'
<1>. SUFFICES ASSUME run.prog = stridecat61 PROVE StrideInv'
  BY DEF StrideInv
<1>1. /\ run \in Runs /\ st.left \in Int /\ Origin \in Nat /\ Sits(Stage, Place)
      /\ Len(run.in.data) \in Nat /\ run.size \in Int /\ run.stride \in Nat \ {0}
      /\ st.pos \in Nat /\ st.block \in Nat /\ st.written \in Nat /\ Len(st.buf) \in Nat
  BY CallsAre, RunIs DEF StType
<1>2. st'.left \in Int /\ Origin' \in Nat /\ Sits(Stage', Place')
  BY CallsAreNext
<1>3. Total \in Nat /\ Total' = Total
  BY <1>1, BeginsAt DEF Total
<1>4. /\ run.prog.order = "stride" /\ run.prog.unit = "block" /\ run.prog # carefulcat61
      /\ run.prog \in Backwards /\ run.prog # reordercat61 /\ Total <= Len(run.in.data)
      /\ run.prog # wstridecat61 /\ run.prog # wreverse61
  <2>1. /\ run.prog.order = "stride" /\ run.prog # carefulcat61 /\ run.prog \in Backwards
        /\ run.prog # reordercat61 /\ run.prog # wreverse61 /\ run.prog # wstridecat61
    BY OrdersAre, ProgramsDiffer DEF Backwards
  <2>2. run.prog.unit = "block"
    BY <1>1, UnitsAre
  <2>3. Total <= Len(run.in.data)
    BY <1>1, <2>1 DEF Fits, Total
  <2>. QED BY <2>1, <2>2, <2>3
<1>5. Stage \notin {"clear", "zeroout", "seekout", "blocks"}
  BY <1>1, <1>4 DEF Sits
<1>6. /\ Stage = "size" => st.left = run.size
      /\ Stage # "size" => st.left = Total
      /\ Place = "setup" => st.pos = 0 /\ st.written = 0
      /\ Place \in {"fetching", "holding"} => st.written < Total
      /\ run.stride <= Total => st.pos <= Total
      /\ run.stride > Total /\ st.written < Total => st.pos = st.written
      /\ Stage = "read" \/ Place = "holding" => Origin = st.pos
      /\ Place = "holding" => Len(st.buf) = st.block \/ st.pos + Len(st.buf) >= Len(run.in.data)
  BY DEF StrideInv
<1>7. CASE Waits
  <2>1. /\ Place' = Place /\ Stage' = Stage /\ st'.left = st.left /\ st'.pos = st.pos
        /\ st'.written = st.written /\ st'.block = st.block /\ st'.buf = st.buf
        /\ Stage = "read" \/ Place = "holding" => Origin' = Origin
    BY <1>1, <1>7 DEF Waits, Keeps, Sits
  <2>. QED BY <1>3, <1>6, <2>1 DEF StrideInv
<1>8. CASE Goes
  <2>1. /\ st'.left = st.left /\ st'.pos = st.pos /\ st'.written = st.written /\ st'.block = st.block
        /\ Origin' = Origin /\ (Stage # "read" => st'.buf = st.buf)
        /\ Stage \in {"zeroin", "seekin", "read", "flush", "closein", "closeout"}
        /\ Follows(Stage, Place, Stage', Place') /\ Sits(Stage', Place')
        /\ Stage = "seekin" => Origin = st.pos
        /\ Stage = "read" =>
             Len(st'.buf) = st.block \/ Origin + Len(st'.buf) >= Len(run.in.data)
    BY <1>1, <1>4, <1>5, <1>8 DEF Goes, GoesOn, Keeps, FilesStay, Sits, Names
  <2>2. /\ Stage # "size" /\ Stage' # "size" /\ Place' # "setup"
        /\ Place' \in {"fetching", "holding"} => Place \in {"fetching", "holding"}
        /\ Stage' = "read" => Stage = "seekin"
        /\ Place' = "holding" => Stage = "read"
    BY <1>1, <1>4, <2>1 DEF Follows, Sits
  <2>. QED BY <1>3, <1>6, <2>1, <2>2 DEF StrideInv
<1>9. CASE Sizes
  <2>1. /\ Stage = "size" /\ Place = "setup" /\ Stage' = "zeroin" /\ Place' = "setup"
        /\ st'.left = (IF st.left >= 0 THEN st.left ELSE Len(run.in.data))
        /\ st'.pos = st.pos /\ st'.written = st.written
    BY <1>1, <1>2, <1>4, <1>9 DEF Sizes, GoesOn, Follows, Sits
  <2>2. st'.left = Total
    BY <1>6, <2>1 DEF Total
  <2>. QED BY <1>3, <1>6, <2>1, <2>2 DEF StrideInv
<1>10. CASE Loops
  <2>1. /\ Stage = "top" /\ Place' = "fetching" /\ Stage' = "seekin" /\ st'.left = st.left
        /\ st'.pos = st.pos /\ st'.written = st.written /\ st.written < st.left
    BY <1>1, <1>2, <1>4, <1>10 DEF Loops, GoesOn, Follows, Sits, Keeps
  <2>. QED BY <1>3, <1>6, <2>1 DEF StrideInv
<1>11. CASE Stops
  <2>1. /\ Stage' = "closein" /\ Place' = "closing" /\ st'.left = st.left
        /\ st'.pos = st.pos /\ st'.written = st.written /\ Stage # "size"
    BY <1>11 DEF Stops, Keeps
  <2>. QED BY <1>3, <1>6, <2>1 DEF StrideInv
<1>12. CASE Writes
  <2>. DEFINE q == st.pos % run.stride
              n == Len(st.buf)
  <2>1. /\ Stage = "write" /\ Place = "holding" /\ Place' = "written" /\ Stage' = "flush"
    BY <1>1, <1>2, <1>4, <1>12 DEF Writes, GoesOn, Follows, Sits
  <2>2. /\ st'.left = st.left /\ st'.written = st.written + n
        /\ st'.pos = IF st.pos + run.stride < st.left THEN st.pos + run.stride ELSE q + st.block
    BY <1>4, <1>12, StrideWrites
  <2>3. /\ st.left = Total /\ st.written < Total
        /\ run.stride > Total => st.pos = st.written
        /\ n = st.block \/ st.pos + n >= Len(run.in.data)
    BY <1>6, <2>1
  <2>4. q + st.block <= run.stride
    BY <1>4 DEF StrideFits
  <2>5. st.pos < run.stride => q = st.pos
    BY <1>1, ModIs
  <2>6. q \in Nat
    <3>1. \A a \in Nat, m \in Nat \ {0} : a % m \in Nat
      OBVIOUS
    <3>. QED BY <1>1, <3>1
  <2>. HIDE DEF q, n
  <2>7. n \in Nat
    BY <1>1 DEF n
  <2>8. run.stride <= Total => st'.pos <= Total
    BY <1>1, <1>3, <2>2, <2>3, <2>4, <2>6
  <2>9. run.stride > Total /\ st'.written < Total => st'.pos = st'.written
    <3>1. SUFFICES ASSUME run.stride > Total, st'.written < Total PROVE st'.pos = st'.written
      OBVIOUS
    <3>2. /\ st.pos = st.written /\ st.pos < run.stride /\ q = st.pos
          /\ st'.pos = q + st.block
      BY <1>1, <1>3, <2>2, <2>3, <2>5, <3>1
    <3>3. n = st.block
      BY <1>1, <1>3, <1>4, <2>2, <2>3, <2>7, <3>1, <3>2
    <3>. QED BY <2>2, <3>2, <3>3
  <2>. QED BY <1>3, <2>1, <2>2, <2>3, <2>8, <2>9 DEF StrideInv
<1>13. ~Retries /\ ~Divides
  BY <1>4, <1>5 DEF Retries, Divides
<1>. QED BY <1>7, <1>8, <1>9, <1>10, <1>11, <1>12, <1>13 DEF Effect

-----------------------------------------------------------------------------
(* Columns of blocks.                                                      *)

(* Blocks that fit into a stride; an offset where one begins, and how wide *)
(* the block is there.                                                     *)
Blocked(r) == r.stride \in Nat \ {0} /\ r.block \in Nat \ {0} /\ r.block <= r.stride

Aligned(r, p) == (p % r.stride) % r.block = 0

Width(r, p) == IF r.block <= r.stride - (p % r.stride) THEN r.block ELSE r.stride - (p % r.stride)

(* Quotient and remainder.                                                 *)
LEMMA DivIs ==
  ASSUME NEW a \in Nat, NEW n \in Nat \ {0}
  PROVE  a \div n \in Nat /\ a % n \in 0..(n - 1) /\ a = (a \div n) * n + (a % n)
<1>1. a \div n \in Nat /\ a = (n * (a \div n)) + (a % n)
  OBVIOUS
<1>2. a % n \in 0..(n - 1)
  BY ModIs
<1>. DEFINE q == a \div n
            e == a % n
<1>3. q \in Nat /\ a = n * q + e /\ e \in 0..(n - 1)
  BY <1>1, <1>2
<1>. HIDE DEF q, e
<1>4. n * q = q * n
  BY <1>3
<1>5. q \in Nat /\ e \in 0..(n - 1) /\ a = q * n + e
  BY <1>3, <1>4
<1>. QED BY <1>5 DEF q, e

(* An offset of the block's width, in its column or in one before it.      *)
LEMMA ColumnsAre ==
  ASSUME NEW r, Blocked(r), NEW p \in Nat, Aligned(r, p), NEW j \in Nat
  PROVE  /\ p % r.stride \in 0..(r.stride - 1) /\ j % r.stride \in 0..(r.stride - 1)
         /\ Width(r, p) \in Nat \ {0} /\ Width(r, p) <= r.block
         /\ (p % r.stride) + Width(r, p) <= r.stride
         /\ Column(r, j) \in Nat /\ Column(r, p) \in Nat
         /\ Column(r, j) < Column(r, p) <=> j % r.stride < p % r.stride
         /\ Column(r, j) = Column(r, p) <=>
              p % r.stride <= j % r.stride /\ j % r.stride < (p % r.stride) + Width(r, p)
<1>. DEFINE s == r.stride
            b == r.block
            c == p % s
            e == j % s
            t == c \div b
            u == e \div b
            w == Width(r, p)
<1>1. s \in Nat \ {0} /\ b \in Nat \ {0} /\ b <= s
  BY DEF Blocked
<1>2. c \in 0..(s - 1) /\ e \in 0..(s - 1)
  <2>. HIDE DEF s
  <2>. QED BY <1>1, DivIs
<1>3. c \in Nat /\ e \in Nat
  BY <1>1, <1>2
<1>4. c % b = 0
  BY DEF Aligned
<1>5. Column(r, j) = u /\ Column(r, p) = t
  BY DEF Column
<1>6. w = IF b <= s - c THEN b ELSE s - c
  BY DEF Width
<1>. DEFINE x == e % b
<1>. HIDE DEF s, b, c, e, w
<1>7. t \in Nat /\ c = t * b + 0
  BY <1>1, <1>3, <1>4, DivIs
<1>8. u \in Nat /\ x \in 0..(b - 1) /\ e = u * b + x
  BY <1>1, <1>3, DivIs
<1>. HIDE DEF t, u, x
<1>. DEFINE tb == t * b
            ub == u * b
<1>9. tb \in Nat /\ ub \in Nat /\ c = tb /\ e = ub + x
  BY <1>1, <1>7, <1>8
<1>10. u < t => ub + b <= tb
  BY <1>1, <1>7, <1>8, Multiples
<1>11. t < u => tb + b <= ub
  BY <1>1, <1>7, <1>8, Multiples
<1>12. t = u => tb = ub
  OBVIOUS
<1>. HIDE DEF tb, ub
<1>13. w \in Nat \ {0} /\ w <= b /\ c + w <= s
  BY <1>1, <1>2, <1>3, <1>6
<1>14. u < t <=> e < c
  BY <1>1, <1>7, <1>8, <1>9, <1>10, <1>11, <1>12
<1>15. u = t <=> c <= e /\ e < c + w
  BY <1>1, <1>2, <1>6, <1>7, <1>8, <1>9, <1>10, <1>11, <1>12
<1>. QED BY <1>2, <1>5, <1>7, <1>8, <1>13, <1>14, <1>15 DEF s, b, c, e, w

(* A block stays in its column.                                            *)
LEMMA InBlock ==
  ASSUME NEW r, Blocked(r), NEW p \in Nat, Aligned(r, p), NEW k \in 0..(Width(r, p) - 1)
  PROVE  (p + k) % r.stride = (p % r.stride) + k /\ Column(r, p + k) = Column(r, p)
<1>. DEFINE s == r.stride
            c == p % s
            d == p \div s
            w == Width(r, p)
<1>1. s \in Nat \ {0} /\ c \in 0..(s - 1) /\ w \in Nat \ {0} /\ c + w <= s /\ k \in Nat /\ k < w
  BY ColumnsAre DEF Blocked
<1>. HIDE DEF w, s
<1>2. d \in Nat /\ p = d * s + c
  BY <1>1, DivIs
<1>. HIDE DEF c, d
<1>3. c + k \in 0..(s - 1) /\ d * s = s * d /\ s * d \in Nat
  BY <1>1, <1>2
<1>4. p + k = s * d + (c + k)
  BY <1>1, <1>2, <1>3
<1>5. (s * d + (c + k)) % s = c + k
  <2>. DEFINE y == c + k
  <2>1. s \in Nat \ {0} /\ d \in Int /\ y \in 0..(s - 1)
    BY <1>1, <1>2, <1>3
  <2>. HIDE DEF y
  <2>2. (s * d + y) % s = y
    BY <2>1, ModUnique
  <2>. QED BY <2>2 DEF y
<1>6. (p + k) % s = c + k
  BY <1>4, <1>5
<1>7. p + k \in Nat /\ c <= c + k /\ c + k < c + w
  BY <1>1
<1>8. c <= (p + k) % s /\ (p + k) % s < c + w
  BY <1>6, <1>7
<1>9. Column(r, p + k) = Column(r, p)
  BY <1>7, <1>8, ColumnsAre DEF c, s, w
<1>. QED BY <1>6, <1>9 DEF c, s

(* The offsets before a block, and those of its first k.                   *)
LEMMA BlockCount ==
  ASSUME NEW r, Blocked(r), NEW n \in Nat, NEW p \in Nat, Aligned(r, p),
         NEW k \in Nat, k <= Width(r, p), p + k <= n
  PROVE  /\ Rank(r, p, n) \in Nat
         /\ Cardinality(Before(r, p, n) \cup p..(p + k - 1)) = Rank(r, p, n) + k
<1>. DEFINE B == Before(r, p, n)
            col(j) == Column(r, j)
<1>1. Width(r, p) \in Nat \ {0}
  BY ColumnsAre
<1>2. IsFiniteSet(B) /\ Cardinality(B) \in Nat
  <2>1. B \in SUBSET (0..(n - 1)) /\ n - 1 \in Int
    BY DEF Before
  <2>2. IsFiniteSet(0..(n - 1))
    BY <2>1, FS_Interval
  <2>. HIDE DEF B
  <2>3. IsFiniteSet(B)
    BY <2>1, <2>2, FS_Subset
  <2>. QED BY <2>3, FS_CardinalityType
<1>. DEFINE I == p..(p + k - 1)
<1>3. IsFiniteSet(I) /\ Cardinality(I) = k
  <2>1. p + k - 1 \in Int /\ p \in Int
    OBVIOUS
  <2>2. IsFiniteSet(I) /\ Cardinality(I) = IF p > p + k - 1 THEN 0 ELSE (p + k - 1) - p + 1
    BY <2>1, FS_Interval
  <2>. HIDE DEF I
  <2>. QED BY <2>1, <2>2
<1>4. B \cap I = {}
  <2>. SUFFICES ASSUME NEW j \in B, j \in I PROVE FALSE
    OBVIOUS
  <2>1. j = p + (j - p) /\ j - p \in 0..(Width(r, p) - 1)
    BY <1>1
  <2>2. col(j) = col(p)
    BY <2>1, InBlock
  <2>3. j < p \/ col(j) < col(p)
    BY DEF Before
  <2>4. col(j) \in Int
    BY <2>1, ColumnsAre
  <2>. HIDE DEF col, B
  <2>. QED BY <1>1, <2>1, <2>2, <2>3, <2>4
<1>. HIDE DEF B, I
<1>5. /\ Cardinality(B \cup I) = Cardinality(B) + Cardinality(I) - Cardinality(B \cap I)
  BY <1>2, <1>3, FS_Union
<1>6. Cardinality(B \cap I) = 0
  BY <1>4, FS_EmptySet
<1>7. Cardinality(B \cup I) = Cardinality(B) + k
  BY <1>2, <1>3, <1>5, <1>6
<1>. QED BY <1>2, <1>7 DEF Rank, B, I

(* The offsets before one of a block are those before the block, and those *)
(* of the block before it.                                                 *)
LEMMA RankIn ==
  ASSUME NEW r, Blocked(r), NEW n \in Nat, NEW p \in Nat, Aligned(r, p),
         NEW k \in 0..(Width(r, p) - 1), p + k < n
  PROVE  Rank(r, p + k, n) = Rank(r, p, n) + k
<1>. DEFINE B == Before(r, p, n)
            col(j) == Column(r, j)
<1>1. Width(r, p) \in Nat \ {0}
  BY ColumnsAre
<1>2. k \in 0..(Width(r, p) - 1) /\ k \in Nat /\ k <= Width(r, p) /\ p + k <= n
  BY <1>1
<1>3. Before(r, p + k, n) = B \cup p..(p + k - 1)
  <2>. SUFFICES ASSUME NEW j \in 0..(n - 1)
                PROVE  (\/ col(j) < col(p + k)
                        \/ col(j) = col(p + k) /\ j < p + k) <=>
                       \/ col(j) < col(p)
                       \/ col(j) = col(p) /\ j < p
                       \/ j \in p..(p + k - 1)
    <3>1. p..(p + k - 1) \subseteq 0..(n - 1)
      BY <1>1, <1>2
    <3>. QED BY <3>1 DEF Before
  <2>1. col(p + k) = col(p)
    BY <1>2, InBlock
  <2>2. j \in p..(p + k - 1) => col(j) = col(p)
    <3>. SUFFICES ASSUME j \in p..(p + k - 1) PROVE col(j) = col(p)
      OBVIOUS
    <3>1. j = p + (j - p) /\ j - p \in 0..(Width(r, p) - 1)
      BY <1>1, <1>2
    <3>. QED BY <3>1, InBlock
  <2>3. col(j) = col(p) => (j < p + k <=> j < p \/ j \in p..(p + k - 1))
    <3>. HIDE DEF col
    <3>. QED BY <1>2
  <2>. HIDE DEF col
  <2>. QED BY <2>1, <2>2, <2>3
<1>. HIDE DEF B
<1>. QED BY BlockCount, <1>2, <1>3 DEF Rank, B

(* No two offsets have as many before them.                                *)
LEMMA RanksDiffer ==
  ASSUME NEW r, Blocked(r), NEW n \in Nat
  PROVE  /\ \A i \in 0..(n - 1) : Rank(r, i, n) \in 0..(n - 1)
         /\ \A i, j \in 0..(n - 1) : Rank(r, i, n) = Rank(r, j, n) => i = j
<1>. DEFINE col(j) == Column(r, j)
            B(i) == Before(r, i, n)
            A == 0..(n - 1)
<1>1. \A j \in A : col(j) \in Nat
  <2>. SUFFICES ASSUME NEW j \in A PROVE col(j) \in Nat
    OBVIOUS
  <2>1. r.stride \in Nat \ {0} /\ r.block \in Nat \ {0} /\ j \in Nat
    BY DEF Blocked
  <2>2. j % r.stride \in 0..(r.stride - 1)
    BY <2>1, DivIs
  <2>3. j % r.stride \in Nat
    BY <2>1, <2>2
  <2>4. (j % r.stride) \div r.block \in Nat
    BY <2>1, <2>3, DivIs
  <2>. QED BY <2>4 DEF Column
<1>2. IsFiniteSet(A) /\ Cardinality(A) = n
  <2>1. 0 \in Int /\ n - 1 \in Int
    OBVIOUS
  <2>2. IsFiniteSet(A) /\ Cardinality(A) = IF 0 > n - 1 THEN 0 ELSE (n - 1) - 0 + 1
    BY <2>1, FS_Interval
  <2>. HIDE DEF A
  <2>. QED BY <2>2
<1>3. ASSUME NEW i \in A PROVE B(i) \subseteq A /\ i \notin B(i)
  <2>1. col(i) \in Nat /\ i \in Nat
    BY <1>1, <1>3
  <2>2. B(i) \subseteq A
    BY DEF Before
  <2>3. i \in B(i) => col(i) < col(i) \/ i < i
    BY DEF Before
  <2>. HIDE DEF col, B
  <2>. QED BY <2>1, <2>2, <2>3
<1>4. ASSUME NEW T \in SUBSET A, NEW S \in SUBSET T, NEW x \in T, x \notin S
      PROVE  Cardinality(S) < Cardinality(T) /\ Cardinality(S) \in Nat /\ Cardinality(T) \in Nat
  <2>. HIDE DEF A
  <2>1. IsFiniteSet(T)
    BY <1>2, FS_Subset
  <2>2. IsFiniteSet(S) /\ Cardinality(S) <= Cardinality(T)
        /\ (Cardinality(T) = Cardinality(S) => T = S)
    BY <2>1, FS_Subset
  <2>3. Cardinality(S) \in Nat /\ Cardinality(T) \in Nat
    BY <2>1, <2>2, FS_CardinalityType
  <2>4. Cardinality(T) # Cardinality(S)
    BY <1>4, <2>2
  <2>. QED BY <2>2, <2>3, <2>4
<1>5. ASSUME NEW i \in A PROVE Rank(r, i, n) \in 0..(n - 1)
  <2>1. Cardinality(B(i)) < Cardinality(A) /\ Cardinality(B(i)) \in Nat
    <3>1. A \in SUBSET A /\ B(i) \in SUBSET A /\ i \in A /\ i \notin B(i)
      BY <1>3, <1>5
    <3>. HIDE DEF A, B
    <3>. QED BY <1>4, <3>1
  <2>2. Rank(r, i, n) = Cardinality(B(i))
    BY DEF Rank
  <2>. HIDE DEF A, B
  <2>. QED BY <1>2, <2>1, <2>2
<1>6. ASSUME NEW i \in A, NEW j \in A, j \in B(i)
      PROVE  Rank(r, j, n) # Rank(r, i, n)
  <2>1. B(j) \subseteq B(i)
    <3>. SUFFICES ASSUME NEW k \in B(j) PROVE k \in B(i)
      OBVIOUS
    <3>1. k \in A /\ k \in Nat /\ j \in Nat /\ i \in Nat
      BY DEF Before
    <3>2. col(k) \in Nat /\ col(j) \in Nat /\ col(i) \in Nat
      BY <1>1, <3>1
    <3>3. /\ col(k) < col(j) \/ (col(k) = col(j) /\ k < j)
          /\ col(j) < col(i) \/ (col(j) = col(i) /\ j < i)
      BY <1>6 DEF Before
    <3>. HIDE DEF col, A, B
    <3>4. col(k) < col(i) \/ (col(k) = col(i) /\ k < i)
      BY <3>1, <3>2, <3>3
    <3>. QED BY <3>1, <3>4 DEF B, Before, col, A
  <2>2. B(i) \in SUBSET A /\ j \notin B(j)
    BY <1>3, <1>6
  <2>. HIDE DEF A, B
  <2>3. Cardinality(B(j)) < Cardinality(B(i)) /\ Cardinality(B(j)) \in Nat /\ Cardinality(B(i)) \in Nat
    BY <1>4, <1>6, <2>1, <2>2
  <2>. QED BY <2>3 DEF Rank, B
<1>7. ASSUME NEW i \in A, NEW j \in A, i # j PROVE j \in B(i) \/ i \in B(j)
  <2>1. col(i) \in Nat /\ col(j) \in Nat /\ i \in Nat /\ j \in Nat
    BY <1>1, <1>7
  <2>2. /\ j \in B(i) <=> (col(j) < col(i) \/ (col(j) = col(i) /\ j < i))
        /\ i \in B(j) <=> (col(i) < col(j) \/ (col(i) = col(j) /\ i < j))
    BY <1>7 DEF Before
  <2>. HIDE DEF col, B
  <2>. QED BY <1>7, <2>1, <2>2
<1>. HIDE DEF B
<1>. QED BY <1>5, <1>6, <1>7

(* Where a program goes from a block: to the next one of its column, to    *)
(* the next column, or nowhere, since the block was the last.              *)
LEMMA NextRank ==
  ASSUME NEW r, Blocked(r), NEW n \in Nat, NEW p \in 0..(n - 1), Aligned(r, p)
  PROVE  LET m == IF Width(r, p) <= n - p THEN Width(r, p) ELSE n - p
             q == (p % r.stride) + Width(r, p)
         IN  /\ p + r.stride < n =>
                  /\ Aligned(r, p + r.stride) /\ Width(r, p + r.stride) = Width(r, p)
                  /\ Rank(r, p + r.stride, n) = Rank(r, p, n) + m
             /\ p + r.stride >= n /\ q < r.stride =>
                  Aligned(r, q) /\ q % r.stride = q /\ Width(r, p) = r.block
             /\ p + r.stride >= n /\ q < r.stride /\ q < n => Rank(r, q, n) = Rank(r, p, n) + m
             /\ p + r.stride >= n /\ (q >= r.stride \/ q >= n) => Rank(r, p, n) + m = n
<1>. DEFINE s == r.stride
            b == r.block
            w == Width(r, p)
            c == p % s
            q == c + w
            d == p \div s
            m == IF w <= n - p THEN w ELSE n - p
            B == Before(r, p, n)
            I == p..(p + m - 1)
<1>1. /\ s \in Nat \ {0} /\ b \in Nat \ {0} /\ b <= s /\ p \in Nat /\ c \in 0..(s - 1)
      /\ w \in Nat \ {0} /\ w <= b /\ c + w <= s
      /\ w = IF b <= s - c THEN b ELSE s - c
  BY ColumnsAre DEF Blocked, Width
<1>0. c % b = 0
  BY DEF Aligned
<1>. HIDE DEF s, b, w
<1>2. d \in Nat /\ p = d * s + c
  BY <1>1, DivIs
<1>3. m \in Nat /\ m <= w /\ p + m <= n
  BY <1>1
<1>4. Cardinality(B \cup I) = Rank(r, p, n) + m
  <2>. HIDE DEF m
  <2>1. m \in Nat /\ m <= Width(r, p) /\ p + m <= n /\ p \in Nat
    BY <1>1, <1>3 DEF w
  <2>. QED BY <2>1, BlockCount
<1>. HIDE DEF c, d
<1>. DEFINE ds == d * s
<1>5. ds \in Nat /\ p = ds + c /\ d \in Nat /\ c \in Nat
  BY <1>1, <1>2
(* The offsets of the column, row by row.                                  *)
<1>6. ASSUME NEW j \in 0..(n - 1), c <= j % s, j % s < q
      PROVE  j < p + s => j < p + m
  <2>. DEFINE e == j % s
              a == j \div s
              at == a * s
  <2>1. a \in Nat /\ j = a * s + e /\ e \in 0..(s - 1)
    <3>1. j \in Nat
      OBVIOUS
    <3>. QED BY <1>1, <3>1, DivIs
  <2>2. at \in Nat /\ j = at + e /\ a \in Nat
    BY <1>1, <2>1
  <2>3. d < a => ds + s <= at
    BY <1>1, <1>2, <2>1, Multiples
  <2>4. a < d => at + s <= ds
    BY <1>1, <1>2, <2>1, Multiples
  <2>5. c <= e /\ e < q
    BY <1>6
  <2>6. a = d => at = ds
    OBVIOUS
  <2>7. /\ e \in Nat /\ e < s /\ s \in Nat /\ c \in Nat /\ w \in Nat /\ c + w <= s
        /\ p \in Nat /\ at \in Nat /\ ds \in Nat /\ p = ds + c /\ j = at + e
        /\ a \in Nat /\ d \in Nat
    BY <1>1, <1>5, <2>1, <2>2
  <2>. HIDE DEF a, at, e, ds
  <2>8. j < p + s => j < p + w
    <3>. SUFFICES ASSUME j < p + s PROVE j < p + w
      OBVIOUS
    <3>1. CASE d < a
      <4>1. ds + s <= at
        BY <2>3, <3>1
      <4>2. p < p + w /\ j = at + e /\ p = ds + c /\ c <= e
        BY <2>5, <2>7
      <4>. QED BY <2>7, <4>1, <4>2
    <3>2. CASE d = a
      <4>1. ds = at
        BY <2>6, <3>2
      <4>. QED BY <2>5, <2>7, <4>1
    <3>3. CASE a < d
      <4>1. at + s <= ds
        BY <2>4, <3>3
      <4>. QED BY <2>5, <2>7, <4>1
    <3>4. d < a \/ d = a \/ a < d
      BY <2>7
    <3>. QED BY <3>1, <3>2, <3>3, <3>4
  <2>. QED BY <1>1, <2>8
<1>7. ASSUME NEW j \in 0..(n - 1)
      PROVE  j \in B \cup I <=> j % s < c \/ (c <= j % s /\ j % s < q /\ j < p + m)
  <2>1. /\ j % s \in 0..(s - 1)
        /\ Column(r, j) < Column(r, p) <=> j % s < c
        /\ Column(r, j) = Column(r, p) <=> c <= j % s /\ j % s < q
    BY <1>1, ColumnsAre DEF s, c, w
  <2>2. j \in B <=> j % s < c \/ (c <= j % s /\ j % s < q /\ j < p)
    BY <2>1 DEF Before
  <2>3. j \in I => c <= j % s /\ j % s < q
    <3>. SUFFICES ASSUME j \in I PROVE c <= j % s /\ j % s < q
      OBVIOUS
    <3>1. j - p \in 0..(w - 1) /\ p + (j - p) = j
      BY <1>1, <1>3
    <3>2. (p + (j - p)) % s = c + (j - p)
      BY <1>1, <3>1, InBlock DEF s, c, w
    <3>3. j % s = c + (j - p)
      BY <3>1, <3>2
    <3>. QED BY <1>1, <3>1, <3>3
  <2>4. j \in I <=> p <= j /\ j < p + m
    BY <1>1, <1>3
  <2>5. j \in Int /\ p \in Int /\ m \in Int /\ j % s \in Int /\ c \in Int
    BY <1>1, <1>3, <2>1
  <2>. HIDE DEF m, B, I, q
  <2>6. j < p => j < p + m
    BY <1>3, <2>5
  <2>. QED BY <2>2, <2>3, <2>4, <2>5, <2>6
<1>8. B \cup I \subseteq 0..(n - 1)
  <2>1. I \subseteq 0..(n - 1)
    BY <1>1, <1>3
  <2>. HIDE DEF I
  <2>. QED BY <2>1 DEF Before
<1>. HIDE DEF m, B, I, ds
<1>9. ASSUME p + s < n
      PROVE  Aligned(r, p + s) /\ Width(r, p + s) = w /\ Rank(r, p + s, n) = Rank(r, p, n) + m
  <2>1. (p + s) % s = c
    BY <1>1, ModIs DEF c
  <2>2. Aligned(r, p + s) /\ Width(r, p + s) = w
    BY <1>1, <2>1 DEF Aligned, Width, s, b, w, c
  <2>3. Before(r, p + s, n) = B \cup I
    <3>. SUFFICES ASSUME NEW j \in 0..(n - 1) PROVE j \in Before(r, p + s, n) <=> j \in B \cup I
      BY <1>8 DEF Before
    <3>1. /\ j % s \in 0..(s - 1)
          /\ Column(r, j) < Column(r, p + s) <=> j % s < c
          /\ Column(r, j) = Column(r, p + s) <=> c <= j % s /\ j % s < q
      <4>1. p + s \in Nat /\ j \in Nat
        BY <1>1
      <4>. QED BY <2>1, <2>2, <4>1, ColumnsAre DEF s, w
    <3>2. j \in Before(r, p + s, n) <=> j % s < c \/ (c <= j % s /\ j % s < q /\ j < p + s)
      BY <3>1 DEF Before
    <3>3. j < p + m => j < p + s
      BY <1>1, <1>3
    <3>. HIDE DEF q
    <3>. QED BY <1>6, <1>7, <3>2, <3>3
  <2>. QED BY <1>4, <2>2, <2>3 DEF Rank
<1>10. ASSUME p + s >= n, NEW j \in 0..(n - 1)
       PROVE  j \in B \cup I <=> j % s < q
  <2>1. j < p + s /\ j \in Int
    BY <1>1, <1>10
  <2>2. j % s \in 0..(s - 1)
    BY <1>1, DivIs
  <2>. QED BY <1>1, <1>6, <1>7, <2>1, <2>2
<1>11. ASSUME q < s PROVE Aligned(r, q) /\ q % s = q /\ w = b /\ q \in Nat
  <2>1. w = b /\ q \in Nat
    BY <1>1, <1>11
  <2>2. q % s = q
    BY <1>1, <1>11, <2>1, ModIs
  <2>3. c \in Nat /\ q = c + b
    BY <1>1, <2>1
  <2>4. (c + b) % b = c % b
    BY <1>1, <2>3, ModIs
  <2>. HIDE DEF q
  <2>5. q % b = 0
    BY <1>0, <2>3, <2>4
  <2>. QED BY <2>1, <2>2, <2>5 DEF Aligned, s, b
<1>12. ASSUME p + s >= n, q < s, q < n PROVE Rank(r, q, n) = Rank(r, p, n) + m
  <2>1. Before(r, q, n) = B \cup I
    <3>. SUFFICES ASSUME NEW j \in 0..(n - 1) PROVE j \in Before(r, q, n) <=> j \in B \cup I
      BY <1>8 DEF Before
    <3>1. Aligned(r, q) /\ q % s = q /\ q \in Nat
      BY <1>11, <1>12
    <3>2. /\ j % s \in 0..(s - 1)
          /\ Column(r, j) < Column(r, q) <=> j % s < q
          /\ Column(r, j) = Column(r, q) => q <= j % s
      BY <3>1, ColumnsAre DEF s
    <3>3. j % s <= j
      <4>1. j \div s \in Nat /\ j = (j \div s) * s + (j % s)
        <5>1. j \in Nat
          OBVIOUS
        <5>. QED BY <1>1, <5>1, DivIs
      <4>2. (j \div s) * s \in Nat
        BY <1>1, <4>1
      <4>. QED BY <1>1, <3>2, <4>1, <4>2
    <3>4. ~(q <= j % s /\ j < q)
      BY <1>1, <3>1, <3>2, <3>3
    <3>5. j \in Before(r, q, n) <=> j % s < q
      <4>. HIDE DEF q
      <4>. QED BY <3>2, <3>4 DEF Before
    <3>. QED BY <1>10, <1>12, <3>5
  <2>. QED BY <1>4, <2>1 DEF Rank
<1>13. ASSUME p + s >= n, q >= s \/ q >= n PROVE Rank(r, p, n) + m = n
  <2>1. B \cup I = 0..(n - 1)
    <3>. SUFFICES ASSUME NEW j \in 0..(n - 1) PROVE j % s < q
      BY <1>8, <1>10, <1>13
    <3>1. j % s \in 0..(s - 1) /\ (j < s => j % s = j)
      <4>1. j \in Nat
        OBVIOUS
      <4>. QED BY <1>1, <4>1, ModIs
    <3>2. CASE q >= s
      BY <1>1, <3>1, <3>2
    <3>3. CASE ~(q >= s) /\ q >= n
      <4>1. j < s
        BY <1>1, <3>3
      <4>. QED BY <1>1, <3>1, <3>3, <4>1
    <3>. QED BY <1>13, <3>2, <3>3
  <2>2. Cardinality(0..(n - 1)) = n
    <3>1. 0 \in Int /\ n - 1 \in Int /\ n >= 1
      BY <1>1
    <3>2. Cardinality(0..(n - 1)) = IF 0 > n - 1 THEN 0 ELSE (n - 1) - 0 + 1
      BY <3>1, FS_Interval
    <3>. QED BY <3>1, <3>2
  <2>. QED BY <1>4, <2>1, <2>2
<1>. HIDE DEF q
<1>. QED BY <1>9, <1>11, <1>12, <1>13 DEF s, b, w, c, q, m

(* A block that does not lie across the end lies before it.                *)
LEMMA BlockInside ==
  ASSUME NEW r, Blocked(r), NEW n \in Nat, NEW p \in 0..(n - 1), Aligned(r, p),
         (n % r.stride) % r.block = 0
  PROVE  Width(r, p) <= n - p
<1>. DEFINE s == r.stride
            b == r.block
            w == Width(r, p)
            c == p % s
            d == p \div s
            e == n % s
            a == n \div s
<1>1. /\ s \in Nat \ {0} /\ b \in Nat \ {0} /\ b <= s /\ p \in Nat /\ c \in 0..(s - 1)
      /\ w \in Nat \ {0} /\ w <= b /\ c + w <= s
  BY ColumnsAre DEF Blocked
<1>0. c % b = 0 /\ e % b = 0
  BY DEF Aligned
<1>. HIDE DEF s, b, w
<1>2. d \in Nat /\ p = d * s + c /\ a \in Nat /\ n = a * s + e /\ e \in 0..(s - 1)
  BY <1>1, DivIs
<1>. HIDE DEF c, d, e, a
<1>. DEFINE ds == d * s
            at == a * s
            t == c \div b
            u == e \div b
            tb == t * b
            ub == u * b
<1>3. /\ ds \in Nat /\ at \in Nat /\ p = ds + c /\ n = at + e /\ d \in Nat /\ a \in Nat
      /\ e < s
  BY <1>1, <1>2
<1>4. c \in Nat /\ e \in Nat
  BY <1>1, <1>2
<1>5. t \in Nat /\ u \in Nat /\ c = t * b + 0 /\ e = u * b + 0
  <2>1. t \in Nat /\ c = t * b + (c % b)
    BY <1>1, <1>4, DivIs
  <2>2. u \in Nat /\ e = u * b + (e % b)
    BY <1>1, <1>4, DivIs
  <2>. QED BY <1>0, <2>1, <2>2
<1>6. tb \in Nat /\ ub \in Nat /\ c = tb /\ e = ub /\ t \in Nat /\ u \in Nat
  BY <1>1, <1>5
<1>7. (d < a => ds + s <= at) /\ (a < d => at + s <= ds) /\ (a = d => at = ds)
  BY <1>1, <1>2, Multiples
<1>. HIDE DEF t, u
<1>8. (t < u => tb + b <= ub) /\ (u < t => ub + b <= tb) /\ (t = u => tb = ub)
  BY <1>1, <1>5, Multiples
<1>. HIDE DEF ds, at, tb, ub
<1>9. p < n /\ p \in Nat /\ n \in Nat
  BY <1>1
<1>10. c < e => c + w <= e
  BY <1>1, <1>6, <1>8
<1>11. /\ s \in Nat /\ w \in Nat /\ c \in Nat /\ e \in Nat /\ c + w <= s /\ e < s
  BY <1>1, <1>3, <1>4
<1>12. ds \in Nat /\ at \in Nat /\ p = ds + c /\ n = at + e
  BY <1>3
<1>13. ASSUME d < a PROVE w <= n - p
  <2>1. ds + s <= at
    BY <1>7, <1>13
  <2>. QED BY <1>11, <1>12, <2>1
<1>14. ASSUME d = a PROVE w <= n - p
  <2>1. ds = at
    BY <1>7, <1>14
  <2>2. c < e
    BY <1>9, <1>11, <1>12, <2>1
  <2>3. c + w <= e
    BY <1>10, <2>2
  <2>. QED BY <1>11, <1>12, <2>1, <2>3
<1>15. ASSUME a < d PROVE w <= n - p
  <2>1. at + s <= ds
    BY <1>7, <1>15
  <2>. QED BY <1>9, <1>11, <1>12, <2>1
<1>16. d < a \/ d = a \/ a < d
  BY <1>3
<1>. QED BY <1>13, <1>14, <1>15, <1>16 DEF w

-----------------------------------------------------------------------------
(* Where the programs are that go by strides.                              *)

(* No block lies across the end of what is to be copied, unless it is one  *)
(* of stridecat61, and the end is that of the file.                        *)
Evenly(r) ==
  r.prog.order = "stride" =>
    LET n == IF r.size >= 0 THEN r.size ELSE Len(r.in.data)
    IN  (n % r.stride) % r.block = 0 \/ (r.prog = stridecat61 /\ n = Len(r.in.data))

(* stridecat61 reads at its position, and wstridecat61 writes there: the   *)
(* offset with as many before it as have been written.                     *)
ColumnsInv ==
  run.prog.order = "stride" =>
    /\ st.left = IF Stage \in {"size", "zeroout"} THEN run.size ELSE Total
    /\ Place = "setup" => st.pos = 0 /\ st.written = 0
    /\ st.written <= Total
    /\ st.written < Total =>
         /\ st.pos < Total /\ Aligned(run, st.pos) /\ st.block = Width(run, st.pos)
         /\ Rank(run, st.pos, Total) = st.written
    /\ Place \in {"fetching", "holding"} => st.written < Total
    /\ Place = "closing" => st.written = Total
    /\ Place = "holding" =>
         /\ Len(st.buf) <= st.block
         /\ Len(st.buf) = st.block \/ Origin + Len(st.buf) >= Len(run.in.data)
    /\ run.prog = stridecat61 =>
         /\ Stage = "read" \/ Place = "holding" => Origin = st.pos
         /\ WriteAt = Start + st.written
    /\ run.prog = wstridecat61 =>
         /\ Origin = st.written
         /\ Stage \notin {"zeroout", "seekout"} => WriteAt = st.pos

(* The blocks fit into the stride, and the first one begins at 0.          *)
LEMMA FirstBlock ==
  ASSUME run \in Runs, run.prog.order = "stride"
  PROVE  /\ Blocked(run) /\ Aligned(run, 0) /\ Width(run, 0) = run.block
         /\ \A n \in Nat : Rank(run, 0, n) = 0
<1>1. /\ run.stride \in Nat \ {0} /\ run.block \in Nat \ {0} /\ run.at \in Nat
      /\ (run.at % run.stride) + run.block <= run.stride
  BY RunIs, Copy61Assumption
<1>2. run.at % run.stride \in 0..(run.stride - 1)
  BY <1>1, ModIs
<1>3. Blocked(run)
  BY <1>1, <1>2 DEF Blocked
<1>4. 0 % run.stride = 0 /\ 0 % run.block = 0
  <2>1. \A m \in Nat \ {0} : 0 % m = 0
    OBVIOUS
  <2>. QED BY <1>1, <2>1
<1>5. Aligned(run, 0) /\ Width(run, 0) = run.block
  BY <1>1, <1>3, <1>4 DEF Aligned, Width, Blocked
<1>6. ASSUME NEW n \in Nat PROVE Before(run, 0, n) = {}
  <2>. SUFFICES ASSUME NEW j \in 0..(n - 1) PROVE j \notin Before(run, 0, n)
    BY DEF Before
  <2>1. j \in Nat /\ 0 \in Nat
    OBVIOUS
  <2>2. j % run.stride \in 0..(run.stride - 1) /\ (Column(run, j) < Column(run, 0) <=> j % run.stride < 0)
    BY <1>3, <1>4, <1>5, <2>1, ColumnsAre
  <2>3. ~(Column(run, j) < Column(run, 0)) /\ ~(j < 0)
    BY <1>1, <2>1, <2>2
  <2>. QED BY <2>3 DEF Before
<1>7. Cardinality({}) = 0
  BY FS_EmptySet
<1>. QED BY <1>3, <1>5, <1>6, <1>7 DEF Rank

(* They begin so.                                                          *)
LEMMA InitColumns == Init /\ Fits(run) => ColumnsInv
<1>. SUFFICES ASSUME Init, Fits(run), run.prog.order = "stride" PROVE ColumnsInv
  BY DEF ColumnsInv
<1>1. CallsInv /\ run \in Runs /\ In!Opened(run.in) /\ Out!Opened(run.out)
  BY InitCalls DEF Init
<1>2. /\ st.left = run.size /\ st.pos = run.at /\ ~st.sent /\ st.pc = 1 /\ st.written = 0
      /\ st.block = run.block
  BY DEF Init
<1>3. Sits(Stage, Place) /\ Begins(Stage, Place)
  BY <1>1, <1>2, CallsAre, RunIs DEF Place
<1>4. run.prog \in {stridecat61, wstridecat61} /\ stridecat61 # wstridecat61
  BY <1>1, UnitsAre, ProgramsDiffer
<1>5. Stage \in {"size", "zeroout"} /\ Place = "setup" /\ (run.prog = wstridecat61 => Stage = "zeroout")
  BY <1>3, <1>4 DEF Begins, Sits, Backwards
<1>6. WriteAt = outF.pos /\ Origin = inF.pos /\ inF.pos \in Nat /\ outF.pos \in Nat
  <2>1. Held = << >> /\ Len(<< >>) = 0 /\ Put = 0 /\ inF.pos \in Nat /\ outF.pos \in Nat
    BY <1>1, <1>2, <1>5, CallsAre DEF Held, Put
  <2>. QED BY <2>1 DEF WriteAt, Origin
<1>7. /\ inF.pos = IF run.in.seekable THEN run.in.at ELSE 0
      /\ outF.pos = IF run.out.seekable THEN run.out.at ELSE 0
  BY <1>1, InOpened, OutOpened
<1>8. /\ run.at = 0 /\ (run.prog = wstridecat61 /\ run.in.seekable => run.in.at = 0)
  BY <1>4 DEF Fits
<1>9. /\ Total \in Nat /\ Start \in Nat
      /\ run.prog = stridecat61 => Start = IF run.out.seekable THEN run.out.at ELSE 0
  <2>1. run.prog = stridecat61 =>
          run.prog \notin PlainlyAt /\ run.prog \notin {wreverse61, reordercat61, wstridecat61}
    BY OrdersAre, ProgramsDiffer
  <2>. QED BY <1>1, <2>1, BeginsAt
<1>10. Aligned(run, 0) /\ Width(run, 0) = run.block /\ Rank(run, 0, Total) = 0
  BY <1>1, <1>9, FirstBlock
<1>11. run.prog = stridecat61 => WriteAt = Start + st.written
  <2>1. run.prog = stridecat61 => outF.pos = Start
    BY <1>7, <1>9
  <2>. QED BY <1>2, <1>6, <1>9, <2>1
<1>12. run.prog = wstridecat61 => Origin = st.written /\ Stage = "zeroout"
  BY <1>2, <1>5, <1>6, <1>7, <1>8
<1>13. Stage # "read" /\ Place # "holding"
  BY <1>5
<1>14. st.pos = 0
  BY <1>2, <1>8
<1>15. st.written <= Total /\ (st.written < Total => st.pos < Total)
  BY <1>2, <1>9, <1>14
<1>. QED BY <1>2, <1>5, <1>10, <1>11, <1>12, <1>13, <1>14, <1>15 DEF ColumnsInv

(* How much there is to copy, and of the block at hand.                    *)
LEMMA BlocksFit ==
  ASSUME CallsInv, Fits(run), Evenly(run), ColumnsInv, run.prog.order = "stride"
  PROVE  /\ Blocked(run) /\ Total \in Nat /\ Total <= Len(run.in.data)
         /\ st.written < Total =>
              /\ st.block \in Nat \ {0}
              /\ \/ st.pos + st.block <= Total /\ st.written + st.block <= Total
                 \/ run.prog = stridecat61 /\ Total = Len(run.in.data)
<1>1. /\ run \in Runs /\ Len(run.in.data) \in Nat /\ run.size \in Int /\ st.pos \in Nat
      /\ st.written \in Nat
  BY CallsAre, RunIs DEF StType
<1>2. Total \in Nat /\ Blocked(run)
  BY <1>1, BeginsAt, FirstBlock
<1>3. Total <= Len(run.in.data)
  BY <1>1 DEF Fits, Total
<1>4. (Total % run.stride) % run.block = 0 \/ (run.prog = stridecat61 /\ Total = Len(run.in.data))
  BY DEF Evenly, Total
<1>5. ASSUME st.written < Total
      PROVE  st.block \in Nat \ {0} /\ Rank(run, st.pos, Total) = st.written /\ st.pos \in 0..(Total - 1)
             /\ Aligned(run, st.pos) /\ st.block = Width(run, st.pos)
  <2>1. /\ st.pos < Total /\ Aligned(run, st.pos) /\ st.block = Width(run, st.pos)
        /\ Rank(run, st.pos, Total) = st.written
    BY <1>5 DEF ColumnsInv
  <2>2. Width(run, st.pos) \in Nat \ {0}
    BY <1>1, <1>2, <2>1, ColumnsAre
  <2>. QED BY <1>1, <1>2, <2>1, <2>2
<1>6. ASSUME st.written < Total, (Total % run.stride) % run.block = 0
      PROVE  st.pos + st.block <= Total /\ st.written + st.block <= Total
  <2>. DEFINE n == Total
              p == st.pos
              b == st.block
  <2>1. /\ p \in Nat /\ p \in 0..(n - 1) /\ Aligned(run, p) /\ b = Width(run, p) /\ n \in Nat
        /\ b \in Nat \ {0} /\ Rank(run, p, n) = st.written /\ (n % run.stride) % run.block = 0
    BY <1>1, <1>2, <1>5, <1>6
  <2>. HIDE DEF n, p, b
  <2>2. b <= n - p
    BY <1>2, <2>1, BlockInside
  <2>3. p + b <= n /\ b - 1 \in 0..(b - 1) /\ p + (b - 1) \in 0..(n - 1)
    BY <2>1, <2>2
  <2>4. Rank(run, p + (b - 1), n) = Rank(run, p, n) + (b - 1)
    <3>1. /\ p \in Nat /\ n \in Nat /\ Aligned(run, p) /\ Blocked(run)
          /\ b - 1 \in 0..(Width(run, p) - 1) /\ p + (b - 1) < n
      BY <1>2, <2>1, <2>3
    <3>. QED BY <3>1, RankIn
  <2>5. Rank(run, p + (b - 1), n) \in 0..(n - 1)
    BY <1>2, <2>1, <2>3, RanksDiffer
  <2>6. st.written + b <= n
    BY <1>1, <2>1, <2>4, <2>5
  <2>. QED BY <2>3, <2>6 DEF n, p, b
<1>. QED BY <1>2, <1>3, <1>4, <1>5, <1>6

(* And of what is held.                                                    *)
LEMMA HeldColumn ==
  ASSUME CallsInv, Fits(run), Evenly(run), ColumnsInv, run.prog.order = "stride", Place = "holding"
  PROVE  /\ st.written < Total /\ st.pos \in 0..(Total - 1) /\ Aligned(run, st.pos)
         /\ st.block = Width(run, st.pos) /\ Rank(run, st.pos, Total) = st.written
         /\ Len(st.buf) = IF Width(run, st.pos) <= Total - st.pos THEN Width(run, st.pos)
                          ELSE Total - st.pos
<1>1. /\ run \in Runs /\ Len(run.in.data) \in Nat /\ st.pos \in Nat /\ st.written \in Nat
      /\ Origin \in Nat
  BY CallsAre, RunIs DEF StType
<1>2. /\ Total \in Nat /\ Total <= Len(run.in.data) /\ Blocked(run)
      /\ st.written < Total =>
              /\ st.block \in Nat \ {0}
              /\ \/ st.pos + st.block <= Total /\ st.written + st.block <= Total
                 \/ run.prog = stridecat61 /\ Total = Len(run.in.data)
  BY BlocksFit
<1>3. /\ st.written < Total /\ st.pos < Total /\ Aligned(run, st.pos) /\ st.block = Width(run, st.pos)
      /\ Rank(run, st.pos, Total) = st.written
      /\ Len(st.buf) <= st.block
      /\ Len(st.buf) = st.block \/ Origin + Len(st.buf) >= Len(run.in.data)
      /\ run.prog = stridecat61 => Origin = st.pos
      /\ run.prog = wstridecat61 => Origin = st.written
  BY DEF ColumnsInv
<1>4. Len(st.buf) \in Nat \ {0} /\ Origin + Len(st.buf) <= Len(run.in.data)
  BY HeldFits
<1>5. run.prog \in {stridecat61, wstridecat61}
  BY <1>1, UnitsAre
<1>. DEFINE m == Len(st.buf)
            l == Len(run.in.data)
            n == Total
            p == st.pos
            b == st.block
            o == Origin
            w == st.written
<1>6. m = IF b <= n - p THEN b ELSE n - p
  <2>1. /\ m \in Nat \ {0} /\ l \in Nat /\ n \in Nat /\ p \in Nat /\ b \in Nat \ {0} /\ o \in Nat /\ w \in Nat
        /\ n <= l /\ p < n /\ m <= b /\ (m = b \/ o + m >= l) /\ o + m <= l
        /\ o = p \/ o = w
        /\ (p + b <= n /\ w + b <= n) \/ (o = p /\ n = l)
    <3>1. stridecat61 # wstridecat61
      BY ProgramsDiffer
    <3>. QED BY <1>1, <1>2, <1>3, <1>4, <1>5, <3>1
  <2>. HIDE DEF m, l, n, p, b, o, w
  <2>. QED BY <2>1
<1>7. st.pos \in 0..(Total - 1)
  BY <1>1, <1>2, <1>3
<1>. QED BY <1>3, <1>6, <1>7

(* And are so after every step.                                            *)
LEMMA ColumnsGo ==
  ASSUME CallsInv, CallsInv', run' = run, Effect, Fits(run), Evenly(run), StrideFits, ColumnsInv
  PROVE  ColumnsInv'
<1>. SUFFICES ASSUME run.prog.order = "stride" PROVE ColumnsInv'
  BY DEF ColumnsInv
<1>1. /\ run \in Runs /\ st.left \in Int /\ Origin \in Nat /\ Sits(Stage, Place)
      /\ Len(run.in.data) \in Nat /\ run.size \in Int /\ st.pos \in Nat /\ st.written \in Nat
      /\ Len(st.buf) \in Nat
  BY CallsAre, RunIs DEF StType
<1>2. st'.left \in Int /\ Origin' \in Nat /\ Sits(Stage', Place')
  BY CallsAreNext
<1>3. /\ Total \in Nat /\ Start \in Nat /\ Total' = Total /\ Start' = Start
  BY <1>1, BeginsAt DEF Total, Start
<1>4. /\ run.prog \in {stridecat61, wstridecat61} /\ stridecat61 # wstridecat61
      /\ run.prog = stridecat61 => run.prog \in Backwards /\ run.prog # wstridecat61
      /\ run.prog = wstridecat61 => run.prog \notin Backwards
      /\ run.prog # wreverse61 /\ run.prog # reordercat61 /\ run.prog # carefulcat61
      /\ run.prog \notin PlainlyAt /\ run.prog.unit = "block"
  <2>1. /\ run.prog # wreverse61 /\ run.prog # reordercat61 /\ run.prog # carefulcat61
        /\ run.prog \notin PlainlyAt /\ run.prog # reverse61
    BY OrdersAre
  <2>. QED BY <1>1, <2>1, UnitsAre, ProgramsDiffer DEF Backwards
<1>5. /\ Stage \notin {"clear", "blocks"}
      /\ run.prog = stridecat61 => Stage \notin {"zeroout", "seekout"}
      /\ run.prog = wstridecat61 => Stage \notin {"zeroin", "seekin"}
  BY <1>1, <1>4 DEF Sits
<1>6. /\ st.left = IF Stage \in {"size", "zeroout"} THEN run.size ELSE Total
      /\ Place = "setup" => st.pos = 0 /\ st.written = 0
      /\ st.written <= Total
      /\ st.written < Total =>
           /\ st.pos < Total /\ Aligned(run, st.pos) /\ st.block = Width(run, st.pos)
           /\ Rank(run, st.pos, Total) = st.written
      /\ Place \in {"fetching", "holding"} => st.written < Total
      /\ Place = "closing" => st.written = Total
      /\ Place = "holding" =>
           /\ Len(st.buf) <= st.block
           /\ Len(st.buf) = st.block \/ Origin + Len(st.buf) >= Len(run.in.data)
  BY DEF ColumnsInv
<1>7. /\ run.prog = stridecat61 =>
           /\ Stage = "read" \/ Place = "holding" => Origin = st.pos
           /\ WriteAt = Start + st.written
      /\ run.prog = wstridecat61 =>
           /\ Origin = st.written
           /\ Stage \notin {"zeroout", "seekout"} => WriteAt = st.pos
  BY DEF ColumnsInv
<1>. DEFINE Lies(s) == s.pos < Total /\ Aligned(run, s.pos) /\ s.block = Width(run, s.pos)
                       /\ Rank(run, s.pos, Total) = s.written
(* The invariant after a step, in terms of the run.                        *)
<1>8. ASSUME st'.left = IF Stage' \in {"size", "zeroout"} THEN run.size ELSE Total,
             Place' = "setup" => st'.pos = 0 /\ st'.written = 0,
             st'.written <= Total, st'.written < Total => Lies(st'),
             Place' \in {"fetching", "holding"} => st'.written < Total,
             Place' = "closing" => st'.written = Total,
             Place' = "holding" =>
               /\ Len(st'.buf) <= st'.block
               /\ Len(st'.buf) = st'.block \/ Origin' + Len(st'.buf) >= Len(run.in.data),
             run.prog = stridecat61 =>
               /\ Stage' = "read" \/ Place' = "holding" => Origin' = st'.pos
               /\ WriteAt' = Start + st'.written,
             run.prog = wstridecat61 =>
               /\ Origin' = st'.written
               /\ Stage' \notin {"zeroout", "seekout"} => WriteAt' = st'.pos
      PROVE  ColumnsInv'
  <2>1. /\ run'.size = run.size /\ run'.prog = run.prog /\ run'.in = run.in
        /\ Aligned(run, st.pos)' = Aligned(run, st'.pos) /\ Width(run, st.pos)' = Width(run, st'.pos)
        /\ Rank(run, st.pos, Total)' = Rank(run, st'.pos, Total)
    BY <1>3 DEF Aligned, Width, Rank, Before, Column
  <2>. QED BY <1>3, <1>8, <2>1 DEF ColumnsInv
(* What goes without a change of the program's position.                   *)
<1>9. ASSUME st'.pos = st.pos, st'.written = st.written, st'.block = st.block
      PROVE  /\ st'.written <= Total
             /\ st'.written < Total => Lies(st')
  BY <1>6, <1>9
<1>. HIDE DEF Lies
<1>10. CASE Waits
  <2>1. /\ Place' = Place /\ Stage' = Stage /\ st'.left = st.left /\ st'.pos = st.pos
        /\ st'.written = st.written /\ st'.block = st.block /\ st'.buf = st.buf
        /\ Origin' = Origin \/ Stage \in {"zeroin", "seekin"}
        /\ WriteAt' = WriteAt \/ Stage \in {"zeroout", "seekout"}
    BY <1>10 DEF Waits, Keeps
  <2>2. /\ Stage \in {"zeroin", "seekin"} => Stage # "read" /\ Place # "holding"
    BY <1>1 DEF Sits
  <2>. QED BY <1>5, <1>6, <1>7, <1>8, <1>9, <2>1, <2>2
<1>11. CASE Goes
  <2>1. /\ st'.left = st.left /\ st'.pos = st.pos /\ st'.written = st.written /\ st'.block = st.block
        /\ Origin' = Origin /\ WriteAt' = WriteAt /\ (Stage # "read" => st'.buf = st.buf)
        /\ Stage \in {"zeroin", "zeroout", "seekin", "read", "seekout", "flush", "closein", "closeout"}
        /\ Follows(Stage, Place, Stage', Place')
        /\ Stage = "seekin" => Origin = st.pos
        /\ Stage = "zeroout" => WriteAt = 0
        /\ Stage = "seekout" => WriteAt = st.pos
        /\ Stage = "read" =>
             /\ Len(st'.buf) <= st.block
             /\ Len(st'.buf) = st.block \/ Origin + Len(st'.buf) >= Len(run.in.data)
    BY <1>1, <1>4, <1>5, <1>11 DEF Goes, GoesOn, Keeps, FilesStay, Sits, Names
  <2>2. /\ Stage \in {"size", "zeroout"} <=> Stage' \in {"size", "zeroout"}
        /\ Place' = "setup" => Place = "setup"
        /\ Place' = "closing" => Place = "closing"
        /\ Place' \in {"fetching", "holding"} => Place \in {"fetching", "holding"}
        /\ run.prog = stridecat61 /\ Stage' = "read" => Stage = "seekin"
        /\ Place' = "holding" => Place = "holding" \/ Stage = "read"
        /\ Stage = "read" => Place # "holding"
        /\ Stage = "zeroout" => Place = "setup"
    BY <1>1, <1>2, <1>4, <2>1 DEF Follows, Sits
  <2>3. Place' = "holding" =>
          /\ Len(st'.buf) <= st'.block
          /\ Len(st'.buf) = st'.block \/ Origin' + Len(st'.buf) >= Len(run.in.data)
    BY <1>6, <2>1, <2>2
  <2>4. run.prog = stridecat61 =>
          /\ Stage' = "read" \/ Place' = "holding" => Origin' = st'.pos
          /\ WriteAt' = Start + st'.written
    BY <1>7, <2>1, <2>2
  <2>5. run.prog = wstridecat61 =>
          /\ Origin' = st'.written
          /\ Stage' \notin {"zeroout", "seekout"} => WriteAt' = st'.pos
    BY <1>6, <1>7, <2>1, <2>2
  <2>. QED BY <1>6, <1>8, <1>9, <2>1, <2>2, <2>3, <2>4, <2>5
<1>12. CASE Sizes
  <2>1. /\ Stage = "size" /\ Place = "setup" /\ Stage' \in {"zeroin", "top"}
        /\ Place' \in {"setup", "top"}
        /\ st'.left = (IF st.left >= 0 THEN st.left ELSE Len(run.in.data))
        /\ st'.pos = st.pos /\ st'.written = st.written /\ st'.block = st.block
        /\ Origin' = Origin /\ WriteAt' = WriteAt
    BY <1>1, <1>2, <1>4, <1>12 DEF Sizes, GoesOn, FilesStay, Follows, Sits
  <2>2. st'.left = Total
    BY <1>6, <2>1 DEF Total
  <2>. QED BY <1>6, <1>7, <1>8, <1>9, <2>1, <2>2
<1>13. CASE Loops
  <2>1. /\ Stage = "top" /\ Place' = "fetching" /\ Stage' \in {"seekin", "read"}
        /\ run.prog = stridecat61 => Stage' = "seekin"
        /\ st'.left = st.left /\ st'.pos = st.pos /\ st'.written = st.written
        /\ st'.block = st.block /\ st.written < st.left /\ Origin' = Origin /\ WriteAt' = WriteAt
    BY <1>1, <1>2, <1>4, <1>13 DEF Loops, GoesOn, FilesStay, Follows, Sits, Keeps
  <2>. QED BY <1>6, <1>7, <1>8, <1>9, <2>1
<1>14. CASE Stops
  <2>1. /\ Stage' = "closein" /\ Place' = "closing" /\ st'.left = st.left /\ st'.block = st.block
        /\ st'.pos = st.pos /\ st'.written = st.written /\ Origin' = Origin /\ WriteAt' = WriteAt
        /\ \/ Stage = "top" /\ st.written >= st.left
           \/ Stage = "read" /\ (st.block >= 1 => Origin >= Len(run.in.data))
    BY <1>14 DEF Stops, Keeps, FilesStay
  <2>2. Stage # "read"
    <3>. SUFFICES ASSUME Stage = "read" PROVE FALSE
      OBVIOUS
    <3>1. st.written < Total /\ st.pos < Total
      BY <1>1, <1>6 DEF Sits
    <3>2. st.block \in Nat \ {0} /\ Total <= Len(run.in.data)
      BY <3>1, BlocksFit
    <3>3. Origin >= Len(run.in.data) /\ (Origin = st.pos \/ Origin = st.written)
      BY <1>4, <1>7, <2>1, <3>2
    <3>. QED BY <1>1, <1>3, <3>1, <3>2, <3>3
  <2>3. st.left = Total /\ st.written = Total
    <3>1. st.left = Total
      BY <1>6, <2>1, <2>2
    <3>. QED BY <1>1, <1>3, <1>6, <2>1, <2>2, <3>1
  <2>. QED BY <1>4, <1>5, <1>6, <1>7, <1>8, <1>9, <2>1, <2>2, <2>3
<1>15. CASE Writes
  <2>1. /\ Stage = "write" /\ Place = "holding" /\ Place' = "written"
        /\ Stage' = (IF run.prog = wstridecat61 THEN "seekout" ELSE "flush")
        /\ Origin' = Origin + Len(st.buf) /\ WriteAt' = WriteAt + Len(st.buf)
    BY <1>1, <1>2, <1>4, <1>15 DEF Writes, GoesOn, Follows, Sits
  <2>2. /\ st'.left = st.left /\ st'.written = st.written + Len(st.buf)
        /\ st'.pos = IF st.pos + run.stride < st.left THEN st.pos + run.stride
                     ELSE (st.pos % run.stride) + st.block
        /\ st'.block =
             IF st.pos + run.stride < st.left
                \/ st.block <= run.stride - ((st.pos % run.stride) + st.block)
             THEN st.block ELSE run.stride - ((st.pos % run.stride) + st.block)
    BY <1>15, StrideWrites
  <2>3. st'.written <= Total /\ (st'.written < Total => Lies(st'))
    <3>. DEFINE n == Total
                p == st.pos
                w == Width(run, p)
                s == run.stride
                q == (p % s) + w
                m == Len(st.buf)
    <3>1. /\ st.written < n /\ p \in 0..(n - 1) /\ Aligned(run, p) /\ st.block = w
          /\ Rank(run, p, n) = st.written /\ m = (IF w <= n - p THEN w ELSE n - p) /\ st.left = n
          /\ Blocked(run) /\ n \in Nat
      BY <1>3, <1>6, <2>1, HeldColumn, BlocksFit
    <3>2. /\ p + s < n =>
               /\ Aligned(run, p + s) /\ Width(run, p + s) = w
               /\ Rank(run, p + s, n) = st.written + m
          /\ p + s >= n /\ q < s => Aligned(run, q) /\ q % s = q /\ w = run.block
          /\ p + s >= n /\ q < s /\ q < n => Rank(run, q, n) = st.written + m
          /\ p + s >= n /\ (q >= s \/ q >= n) => st.written + m = n
      BY <3>1, NextRank
    <3>3. /\ st'.written = st.written + m
          /\ st'.pos = IF p + s < n THEN p + s ELSE q
          /\ st'.block = IF p + s < n \/ w <= s - q THEN w ELSE s - q
      BY <2>2, <3>1
    <3>4. s \in Nat \ {0} /\ p \in Nat /\ w \in Nat \ {0} /\ q \in Nat
      <4>1. p \in Nat
        BY <1>1
      <4>2. w \in Nat \ {0} /\ p % s \in 0..(s - 1)
        BY <3>1, <4>1, ColumnsAre
      <4>3. s \in Nat \ {0}
        BY <3>1 DEF Blocked
      <4>. QED BY <4>1, <4>2, <4>3
    <3>5. \A i \in 0..(n - 1) : Rank(run, i, n) \in 0..(n - 1)
      BY <3>1, RanksDiffer
    <3>6. ASSUME p + s < n PROVE st'.written <= Total /\ Lies(st')
      <4>. HIDE DEF w, q, m, s, p, n
      <4>1. st'.pos = p + s /\ st'.block = w /\ st'.pos \in 0..(n - 1)
        BY <3>1, <3>3, <3>4, <3>6
      <4>2. Rank(run, st'.pos, n) = st'.written /\ Aligned(run, st'.pos) /\ Width(run, st'.pos) = w
        BY <3>2, <3>3, <3>6, <4>1
      <4>3. st'.written \in 0..(n - 1)
        BY <3>5, <4>1, <4>2
      <4>4. st'.written <= n /\ st'.pos < n
        BY <3>1, <4>1, <4>3
      <4>. QED BY <4>1, <4>2, <4>4 DEF Lies, n
    <3>7. ASSUME ~(p + s < n), q < s, q < n PROVE st'.written <= Total /\ Lies(st')
      <4>1. Aligned(run, q) /\ q % s = q /\ w = run.block /\ Rank(run, q, n) = st.written + m
        BY <3>1, <3>2, <3>4, <3>7
      <4>2. Width(run, q) = IF w <= s - q THEN w ELSE s - q
        <5>1. Width(run, q) = IF run.block <= s - (q % s) THEN run.block ELSE s - (q % s)
          BY DEF Width
        <5>. HIDE DEF w, q, s
        <5>. QED BY <4>1, <5>1
      <4>. HIDE DEF w, q, m, s, p, n
      <4>3. st'.pos = q /\ st'.block = Width(run, q) /\ st'.pos \in 0..(n - 1)
        BY <3>1, <3>3, <3>4, <3>7, <4>2
      <4>4. Rank(run, st'.pos, n) = st'.written /\ Aligned(run, st'.pos)
        BY <3>3, <4>1, <4>3
      <4>5. st'.written \in 0..(n - 1)
        BY <3>5, <4>3, <4>4
      <4>6. st'.written <= n /\ st'.pos < n
        BY <3>1, <4>3, <4>5
      <4>. QED BY <4>3, <4>4, <4>6 DEF Lies, n
    <3>8. ASSUME ~(p + s < n), q >= s \/ q >= n PROVE st'.written = Total
      <4>1. p + s >= n
        BY <3>1, <3>4, <3>8
      <4>. HIDE DEF w, q, m, s, p
      <4>. QED BY <3>2, <3>3, <3>8, <4>1
    <3>9. q < s \/ q >= s
      <4>. HIDE DEF q, s
      <4>. QED BY <3>4
    <3>10. q < n \/ q >= n
      <4>. HIDE DEF q
      <4>. QED BY <3>1, <3>4
    <3>. HIDE DEF w, q, m, s, p
    <3>. QED BY <3>1, <3>6, <3>7, <3>8, <3>9, <3>10
  <2>4. /\ Stage' \notin {"size", "zeroout", "read"} /\ st'.left = Total
    BY <1>6, <2>1, <2>2
  <2>5. run.prog = stridecat61 => WriteAt' = Start + st'.written
    BY <1>1, <1>3, <1>7, <2>1, <2>2
  <2>6. run.prog = wstridecat61 => Origin' = st'.written /\ Stage' = "seekout"
    BY <1>1, <1>7, <2>1, <2>2
  <2>. QED BY <1>8, <2>1, <2>3, <2>4, <2>5, <2>6
<1>16. ~Retries /\ ~Divides
  BY <1>5, <1>1 DEF Retries, Divides
<1>. QED BY <1>10, <1>11, <1>12, <1>13, <1>14, <1>15, <1>16 DEF Effect
-----------------------------------------------------------------------------
(* All of it together.                                                     *)

PosInv ==
  /\ NextInv /\ DownInv /\ ReverseInv /\ WreverseInv /\ ShuffledInv /\ StrideInv
  /\ Evenly(run) => ColumnsInv

Inv == Fits(run) => CallsInv /\ StrideFits /\ PosInv

(* What the steps need to know of the positions.                           *)
LEMMA PosHelps ==
  ASSUME CallsInv, Fits(run), PosInv
  PROVE  SeekFits /\ (Stage = "top" /\ run.prog.order = "down" => st.left >= 0)
<1>1. /\ run \in Runs /\ Sits(Stage, Place) /\ Len(run.in.data) \in Nat /\ run.size \in Int
      /\ run.block \in Nat \ {0}
  BY CallsAre, RunIs
<1>2. Total \in Nat
  BY <1>1, BeginsAt
<1>3. Stage = "top" /\ run.prog.order = "down" => st.left >= 0
  BY <1>2 DEF PosInv, DownInv
<1>4. ASSUME Stage = "seekin" PROVE st.pos <= Len(run.in.data)
  <2>1. run.prog \in {reverse61, stridecat61, reordercat61} /\ Place = "fetching"
    BY <1>1, <1>4, RunIs, OrdersAre DEF Sits, Backwards
  <2>2. run.prog.order # "next" /\ Total <= Len(run.in.data)
    BY <1>1, <2>1, OrdersAre DEF Fits, Total
  <2>3. CASE run.prog = reverse61
    <3>1. st.pos = st.left /\ st.left < Total /\ st.left \in 0..Total
      BY <1>4, <2>1, <2>3, OrdersAre DEF PosInv, DownInv
    <3>. QED BY <1>1, <1>2, <2>2, <3>1
  <2>4. CASE run.prog = stridecat61
    <3>1. /\ st.pos <= Total \/ st.pos = st.written
          /\ st.written < Total
      BY <1>1, <1>2, <2>1, <2>4, RunIs DEF PosInv, StrideInv
    <3>2. st.pos \in Nat /\ st.written \in Nat
      BY CallsAre DEF StType
    <3>. QED BY <1>1, <1>2, <2>2, <3>1, <3>2
  <2>5. CASE run.prog = reordercat61
    <3>1. st.pos + run.block <= Total
      BY <2>1, <2>5 DEF PosInv, ShuffledInv
    <3>2. st.pos \in Nat
      BY CallsAre
    <3>. QED BY <1>1, <1>2, <2>2, <3>1, <3>2
  <2>. QED BY <2>1, <2>3, <2>4, <2>5
<1>. QED BY <1>3, <1>4 DEF SeekFits

(* The invariant holds at first.                                           *)
LEMMA InitInv == Init => Inv
BY InitCalls, InitNext, InitDown, InitShuffled, InitStride, InitColumns DEF Inv, PosInv

(* And each step keeps it.                                                 *)
LEMMA StepInv ==
  ASSUME Recovers, Inv, [Next]_vars
  PROVE  Inv' /\ run' = run /\ (Fits(run) => Effect)
<1>1. run' = run
  BY DEF Next, Step, Fault, Size, Blocks, Looping, ClearErrno, SendIn, SendOut, InReturns,
         OutReturns, NoFlush, Quiet, vars
<1>2. Fits(run)' <=> Fits(run)
  BY <1>1 DEF Fits
<1>3. ASSUME Fits(run)
      PROVE  CallsInv' /\ StrideFits' /\ PosInv' /\ Effect
  <2>1. CallsInv /\ StrideFits /\ PosInv
    BY <1>3 DEF Inv
  <2>2. CallsInv' /\ Effect
    BY <1>3, <2>1, PosHelps, StepCalls
  <2>3. StrideFits'
    BY <1>1, <2>1, <2>2, StrideFitsGoes
  <2>4. NextInv' /\ DownInv' /\ ReverseInv' /\ WreverseInv' /\ ShuffledInv' /\ StrideInv'
    BY <1>1, <1>3, <2>1, <2>2, NextGoes, DownGoes, ShuffledGoes, StrideGoes DEF PosInv
  <2>5. ASSUME Evenly(run)' PROVE ColumnsInv'
    <3>1. Evenly(run)
      BY <1>1, <2>5 DEF Evenly
    <3>. QED BY <1>1, <1>3, <2>1, <2>2, <3>1, ColumnsGo DEF PosInv
  <2>. QED BY <2>2, <2>3, <2>4, <2>5 DEF PosInv
<1>. QED BY <1>1, <1>2, <1>3 DEF Inv

-----------------------------------------------------------------------------
(* What has been written.                                                  *)

(* The bytes that reordercat61 has yet to write.                           *)
Undone ==
  (UNION {(BlockAt(b) + 1)..(BlockAt(b) + run.block) : b \in st.todo})
  \cup (IF Place \in {"fetching", "holding"} THEN (st.pos + 1 + Put)..(st.pos + run.block) ELSE {})

(* The positions of the output that a program by strides has written once  *)
(* it has written n bytes.                                                 *)
Strided(n) ==
  IF run.prog = stridecat61 THEN (Start + 1)..(Start + n)
  ELSE {i \in 1..Total : Rank(run, i - 1, Total) < n}

(* The positions of the output that have been written.                     *)
Done ==
  IF Place = "setup" THEN {}
  ELSE IF run.prog.order = "next" \/ run.prog = reverse61 THEN (Start + 1)..(WriteAt + Put)
  ELSE IF run.prog = wreverse61 THEN (st.left + 1 + Taken - Put)..Total
  ELSE IF run.prog.order = "stride" THEN Strided(st.written + Put)
  ELSE (1..Total) \ Undone

(* The bytes c of a file in which those of s have been written at the      *)
(* positions d, s beginning behind z; the others are those of old, or none.*)
PaintedWith(old, s, z, c, d) ==
  /\ Len(old) <= Len(c) /\ d \subseteq 1..Len(c)
  /\ \A i \in 1..Len(c) :
       c[i] = IF i \in d THEN s[i - z] ELSE IF i <= Len(old) THEN old[i] ELSE 0
  /\ Len(c) = Len(old) \/ Len(c) \in d

Painted ==
  Evenly(run) => PaintedWith(run.out.data, Transformed, Start, OutP!Seen, Done)

(* What a write does to the bytes of a file.                               *)
LEMMA OverwrittenAre ==
  ASSUME NEW s \in Seq(Nat), NEW at \in Nat, NEW b \in Seq(Nat)
  PROVE  /\ OutP!Overwritten(s, at, b) \in Seq(Nat)
         /\ Len(OutP!Overwritten(s, at, b)) = IF b # << >> /\ at + Len(b) > Len(s)
                                              THEN at + Len(b) ELSE Len(s)
         /\ \A i \in 1..Len(OutP!Overwritten(s, at, b)) :
              OutP!Overwritten(s, at, b)[i] = IF at < i /\ i <= at + Len(b) THEN b[i - at]
                                              ELSE IF i <= Len(s) THEN s[i] ELSE 0
BY OutP!OverwrittenIs, Copy61Assumption, SMTT(30)

(* One more write.                                                         *)
LEMMA PaintsMore ==
  ASSUME NEW old \in Seq(Nat), NEW s, NEW z \in Nat, NEW c \in Seq(Nat), NEW d,
         PaintedWith(old, s, z, c, d),
         NEW at \in Nat, NEW b \in Seq(Nat), b # << >>, \A k \in 1..Len(b) : b[k] = s[at + k - z]
  PROVE  PaintedWith(old, s, z, OutP!Overwritten(c, at, b), d \cup ((at + 1)..(at + Len(b))))
<1>. DEFINE n == Len(b)
            m == Len(c)
            size == IF at + n > m THEN at + n ELSE m
            w == OutP!Overwritten(c, at, b)
            D == d \cup ((at + 1)..(at + n))
            e(i) == IF at < i /\ i <= at + n THEN b[i - at] ELSE IF i <= m THEN c[i] ELSE 0
<1>1. n \in Nat \ {0} /\ m \in Nat /\ Len(old) \in Nat
  BY EmptySeq, LenProperties
<1>2. size \in Nat /\ size >= m /\ size >= at + n
  BY <1>1
<1>3. b # << >> /\ w \in Seq(Nat)
  BY OverwrittenAre
<1>4. Len(w) = size /\ \A i \in 1..size : w[i] = e(i)
  <2>1. /\ Len(w) = IF b # << >> /\ at + Len(b) > Len(c) THEN at + Len(b) ELSE Len(c)
        /\ \A i \in 1..Len(w) : w[i] = IF at < i /\ i <= at + Len(b) THEN b[i - at]
                                       ELSE IF i <= Len(c) THEN c[i] ELSE 0
    BY OverwrittenAre
  <2>. HIDE DEF w
  <2>2. Len(w) = size
    BY <1>3, <2>1
  <2>. QED BY <2>1, <2>2
<1>5. /\ Len(old) <= m /\ d \subseteq 1..m /\ (m = Len(old) \/ m \in d)
      /\ \A i \in 1..m : c[i] = IF i \in d THEN s[i - z] ELSE IF i <= Len(old) THEN old[i] ELSE 0
  BY DEF PaintedWith
<1>6. D \subseteq 1..size
  <2>. HIDE DEF n, m, size
  <2>1. 1..m \subseteq 1..size /\ (at + 1)..(at + n) \subseteq 1..size
    BY <1>1, <1>2
  <2>. QED BY <1>5, <2>1
<1>7. ASSUME NEW i \in 1..size
      PROVE  w[i] = IF i \in D THEN s[i - z] ELSE IF i <= Len(old) THEN old[i] ELSE 0
  <2>1. w[i] = e(i)
    BY <1>4
  <2>2. CASE at < i /\ i <= at + n
    <3>1. i - at \in 1..n /\ i \in D
      BY <1>1, <2>2
    <3>2. at + (i - at) - z = i - z
      BY <1>1, <1>2
    <3>3. b[i - at] = s[at + (i - at) - z]
      BY <3>1
    <3>. QED BY <2>1, <2>2, <3>1, <3>2, <3>3
  <2>3. CASE ~(at < i /\ i <= at + n) /\ i <= m
    <3>1. i \in 1..m /\ (i \in D <=> i \in d) /\ e(i) = c[i]
      BY <1>1, <1>2, <2>3
    <3>. HIDE DEF e, D, w
    <3>. QED BY <1>5, <2>1, <3>1
  <2>4. CASE ~(at < i /\ i <= at + n) /\ ~(i <= m)
    <3>1. i \notin D /\ ~(i <= Len(old)) /\ e(i) = 0
      BY <1>1, <1>2, <1>5, <2>4
    <3>. HIDE DEF e, D, w
    <3>. QED BY <2>1, <3>1
  <2>. QED BY <2>2, <2>3, <2>4
<1>8. size = Len(old) \/ size \in D
  BY <1>1, <1>5
<1>9. Len(old) <= size
  BY <1>1, <1>2, <1>5
<1>. HIDE DEF w, D, size, e
<1>10. PaintedWith(old, s, z, w, D)
  BY <1>4, <1>6, <1>7, <1>8, <1>9 DEF PaintedWith
<1>. QED BY <1>10 DEF w, D

(* All that has been written is a stretch.                                 *)
LEMMA PaintedIs ==
  ASSUME NEW old \in Seq(Nat), NEW s \in Seq(Nat), NEW z \in Nat, NEW c \in Seq(Nat),
         NEW n \in 0..Len(s), PaintedWith(old, s, z, c, (z + 1)..(z + n))
  PROVE  c = Out!Overwritten(old, z, SubSeq(s, 1, n))
<1>. DEFINE b == SubSeq(s, 1, n)
            m == Len(old)
            w == OutP!Overwritten(old, z, b)
            size == IF n # 0 /\ z + n > m THEN z + n ELSE m
            e(i) == IF z < i /\ i <= z + Len(b) THEN b[i - z] ELSE IF i <= m THEN old[i] ELSE 0
<1>1. n \in Nat /\ m \in Nat /\ Len(c) \in Nat /\ Len(s) \in Nat
  BY LenProperties
<1>2. b \in Seq(Nat) /\ Len(b) = n /\ \A k \in 1..n : b[k] = s[k]
  BY <1>1
<1>3. b = << >> <=> n = 0
  BY <1>1, <1>2, EmptySeq
<1>4. w = Out!Overwritten(old, z, b)
  BY DEF Out!Overwritten, OutP!Overwritten, Out!Max, OutP!Max
<1>5. w \in Seq(Nat) /\ Len(w) = size /\ \A i \in 1..Len(w) : w[i] = e(i)
  <2>. HIDE DEF b, size, e
  <2>1. /\ w \in Seq(Nat)
        /\ Len(w) = IF b # << >> /\ z + Len(b) > m THEN z + Len(b) ELSE m
        /\ \A i \in 1..Len(w) : w[i] = IF z < i /\ i <= z + Len(b) THEN b[i - z]
                                       ELSE IF i <= m THEN old[i] ELSE 0
    <3>1. b \in Seq(Nat)
      BY <1>2
    <3>. QED BY <3>1, OverwrittenAre
  <2>. HIDE DEF w, m
  <2>2. Len(w) = size
    BY <1>2, <1>3, <2>1 DEF size
  <2>3. \A i \in 1..Len(w) : w[i] = e(i)
    BY <2>1 DEF e
  <2>. QED BY <2>1, <2>2, <2>3
<1>6. /\ m <= Len(c) /\ (z + 1)..(z + n) \subseteq 1..Len(c)
      /\ Len(c) = m \/ Len(c) \in (z + 1)..(z + n)
      /\ \A i \in 1..Len(c) :
           c[i] = IF i \in (z + 1)..(z + n) THEN s[i - z] ELSE IF i <= m THEN old[i] ELSE 0
  BY DEF PaintedWith
<1>7. Len(c) = size
  <2>1. n # 0 => z + n \in (z + 1)..(z + n)
    BY <1>1
  <2>. DEFINE l == Len(c)
  <2>2. /\ m \in Nat /\ l \in Nat /\ m <= l /\ (n # 0 => z + n \in 1..l)
        /\ l = m \/ (l > z /\ l <= z + n)
    BY <1>1, <1>6, <2>1
  <2>. HIDE DEF b, m, l
  <2>3. l = size
    BY <1>1, <2>2
  <2>. QED BY <2>3 DEF l
<1>8. \A i \in 1..Len(c) : c[i] = e(i)
  <2>. SUFFICES ASSUME NEW i \in 1..Len(c) PROVE c[i] = e(i)
    OBVIOUS
  <2>1. CASE i \in (z + 1)..(z + n)
    <3>1. i - z \in 1..n /\ z < i /\ i <= z + n
      BY <1>1, <2>1
    <3>2. e(i) = b[i - z] /\ b[i - z] = s[i - z]
      <4>. HIDE DEF b
      <4>. QED BY <1>2, <3>1
    <3>3. c[i] = s[i - z]
      BY <1>6, <2>1
    <3>. QED BY <3>2, <3>3
  <2>2. CASE i \notin (z + 1)..(z + n)
    <3>1. ~(z < i /\ i <= z + n)
      BY <1>1, <2>2
    <3>2. e(i) = IF i <= m THEN old[i] ELSE 0
      <4>. HIDE DEF b
      <4>. QED BY <1>2, <3>1
    <3>3. c[i] = IF i <= m THEN old[i] ELSE 0
      BY <1>6, <2>2
    <3>. QED BY <3>2, <3>3
  <2>. QED BY <2>1, <2>2
<1>10. Len(c) = Len(w) /\ \A i \in 1..Len(c) : c[i] = w[i]
  BY <1>5, <1>7, <1>8
<1>. HIDE DEF e, size, b, w
<1>9. c = w
  BY <1>5, <1>10, SeqEqual
<1>. QED BY <1>4, <1>9 DEF b

(* What is to be copied.                                                   *)
LEMMA InputIs ==
  ASSUME run \in Runs
  PROVE  /\ Input \in Seq(Nat) /\ Len(Input) \in Nat
         /\ \A k \in 1..Len(Input) : Input[k] = run.in.data[Base + k]
         /\ Len(Input) = IF run.size >= 0 /\ Base + run.size <= Len(run.in.data) THEN run.size
                         ELSE IF Base <= Len(run.in.data) THEN Len(run.in.data) - Base ELSE 0
<1>. DEFINE d == run.in.data
            m == Len(d)
            all == SubSeq(d, Base + 1, m)
            n == IF Base <= m THEN m - Base ELSE 0
<1>1. d \in Seq(Nat) /\ m \in Nat /\ Base \in Nat /\ run.size \in Int /\ run.size >= -1
  BY RunIs, BeginsAt
<1>2. Input = IF run.size \in 0..Len(all) THEN SubSeq(all, 1, run.size) ELSE all
  BY DEF Input, Base
<1>. HIDE DEF d, m
<1>3. all \in Seq(Nat) /\ Len(all) = n /\ \A k \in 1..n : all[k] = d[Base + k]
  <2>1. m = Len(d)
    BY DEF m
  <2>2. Base + 1 \in Int /\ m - (Base + 1) + 1 = m - Base
    BY <1>1
  <2>. QED BY <1>1, <2>1, <2>2
<1>. HIDE DEF all, n
<1>4. n \in Nat
  BY <1>1 DEF n
<1>5. CASE run.size \in 0..n
  <2>1. Input = SubSeq(all, 1, run.size)
    BY <1>2, <1>3, <1>5
  <2>2. run.size \in 0..Len(all)
    BY <1>3, <1>5
  <2>3. /\ Input \in Seq(Nat) /\ Len(Input) = run.size
        /\ \A k \in 1..run.size : Input[k] = all[k]
    <3>1. \A t \in Seq(Nat) : \A i \in 0..Len(t) :
            /\ SubSeq(t, 1, i) \in Seq(Nat) /\ Len(SubSeq(t, 1, i)) = i
            /\ \A k \in 1..i : SubSeq(t, 1, i)[k] = t[k]
      OBVIOUS
    <3>. QED BY <1>3, <2>1, <2>2, <3>1
  <2>4. Len(Input) \in Nat /\ \A k \in 1..Len(Input) : Input[k] = d[Base + k]
    BY <1>3, <1>4, <1>5, <2>3
  <2>5. \/ run.size >= 0 /\ Base + run.size <= m
        \/ ~(Base <= m) /\ run.size = 0
    BY <1>1, <1>5 DEF n
  <2>. QED BY <1>1, <2>3, <2>4, <2>5 DEF d, m
<1>6. CASE run.size \notin 0..n
  <2>1. Input = all
    BY <1>2, <1>3, <1>6
  <2>2. ~(run.size >= 0 /\ Base + run.size <= m)
    BY <1>1, <1>6 DEF n
  <2>. QED BY <1>3, <1>4, <2>1, <2>2 DEF d, m, n
<1>. QED BY <1>5, <1>6

(* And what is to be written.                                              *)
LEMMA TransformedIs ==
  ASSUME run \in Runs, run.prog.order # "stride"
  PROVE  /\ Transformed \in Seq(Nat) /\ Len(Transformed) = Len(Input)
         /\ run.prog.order \in {"next", "shuffled"} => Transformed = Input
         /\ run.prog.order = "down" =>
              \A k \in 1..Len(Input) : Transformed[k] = Input[Len(Input) + 1 - k]
<1>1. Input \in Seq(Nat) /\ Len(Input) \in Nat
  BY InputIs
<1>2. run.prog.order \in {"next", "down", "shuffled", "stride"}
  BY UnitsAre
<1>. DEFINE f == LET n == Len(Input) IN
                 [k \in 1..n |-> Input[(CHOOSE i \in 0..(n - 1) : Rank(run, i, n) = k - 1) + 1]]
            g == LET n == Len(Input) IN [i \in 1..n |-> Input[Rank(run, i - 1, n) + 1]]
            t == Transformed
<1>3. t = CASE run.prog.order \in {"next", "shuffled"} -> Input
            [] run.prog.order = "down" -> Reverse(Input)
            [] run.prog = stridecat61 -> f
            [] run.prog = wstridecat61 -> g
  BY DEF Transformed
<1>4. run.prog # stridecat61 /\ run.prog # wstridecat61
  BY UnitsAre
<1>5. /\ run.prog.order \in {"next", "shuffled"} => t = Input
      /\ run.prog.order = "down" => t = Reverse(Input)
  <2>. HIDE DEF f, g, t
  <2>. QED BY <1>2, <1>3, <1>4
<1>6. CASE run.prog.order \in {"next", "shuffled"}
  BY <1>1, <1>5, <1>6
<1>7. CASE run.prog.order = "down"
  <2>1. Transformed = Reverse(Input)
    BY <1>5, <1>7
  <2>. DEFINE n == Len(Input)
  <2>2. Reverse(Input) = [j \in 1..n |-> Input[n - j + 1]]
    BY DEF Reverse
  <2>3. \A j \in 1..n : Input[n - j + 1] \in Nat /\ n - j + 1 = n + 1 - j
    <3>1. \A j \in 1..n : n - j + 1 \in 1..n /\ n - j + 1 = n + 1 - j
      BY <1>1
    <3>. QED BY <1>1, <3>1
  <2>4. \A j \in 1..n : Transformed[j] = Input[n + 1 - j]
    BY <2>1, <2>2, <2>3
  <2>5. Transformed \in Seq(Nat) /\ Len(Transformed) = n
    <3>. HIDE DEF n
    <3>1. n \in Nat /\ Transformed = [j \in 1..n |-> Input[n - j + 1]]
      BY <1>1, <2>1, <2>2 DEF n
    <3>. QED BY <2>3, <3>1
  <2>. QED BY <1>7, <2>4, <2>5
<1>. QED BY <1>2, <1>6, <1>7

(* How much it is.                                                         *)
LEMMA InputSize ==
  ASSUME run \in Runs, Fits(run), run.prog.order # "next"
  PROVE  Base = 0 /\ Len(Input) = Total /\ Total <= Len(run.in.data)
<1>1. /\ run.prog \in {reverse61, wreverse61, reordercat61, stridecat61, wstridecat61}
      /\ Len(run.in.data) \in Nat /\ run.size \in Int /\ run.size >= -1
  BY UnitsAre, RunIs
<1>2. /\ run.size <= Len(run.in.data)
      /\ run.prog \in {wreverse61, wstridecat61} /\ run.in.seekable => run.in.at = 0
  BY <1>1 DEF Fits
<1>3. Base = 0
  BY <1>1, <1>2, BeginsAt DEF Backwards
<1>4. Len(Input) = IF run.size >= 0 /\ Base + run.size <= Len(run.in.data) THEN run.size
                   ELSE IF Base <= Len(run.in.data) THEN Len(run.in.data) - Base ELSE 0
  BY InputIs
<1>. QED BY <1>1, <1>2, <1>3, <1>4 DEF Total

(* How far a program that copies from the beginning can have come.         *)
LEMMA NextBound ==
  ASSUME CallsInv, NextInv, run.prog.order = "next", Place # "setup"
  PROVE  /\ WriteAt - Start \in 0..Len(Input)
         /\ Place = "holding" => WriteAt - Start + Len(st.buf) <= Len(Input)
         /\ Place = "closing" => WriteAt - Start = Len(Input)
<1>. DEFINE m == Len(run.in.data)
            w == WriteAt - Start
            n == Len(Input)
<1>1. /\ run \in Runs /\ st.left \in Int /\ Origin \in Nat /\ m \in Nat
      /\ run.size \in Int /\ run.size >= -1 /\ Base \in Nat /\ Start \in Nat /\ n \in Nat
  BY CallsAre, RunIs, BeginsAt, InputIs
<1>2. /\ WriteAt \in Nat /\ WriteAt >= Start /\ Origin - Base = WriteAt - Start
      /\ run.size - st.left = (IF run.prog.unit = "char" THEN WriteAt - Start ELSE 0)
      /\ run.size >= 0 => st.left >= 0
      /\ Place \in {"fetching", "holding"} => st.left # 0
      /\ Origin <= Len(run.in.data) \/ Origin = Base
      /\ Place = "closing" => st.left = 0 \/ Origin >= Len(run.in.data)
  BY DEF NextInv
<1>3. n = IF run.size >= 0 /\ Base + run.size <= m THEN run.size ELSE IF Base <= m THEN m - Base ELSE 0
  BY <1>1, InputIs
<1>4. run.prog.unit # "char" => run.size = -1
  BY <1>1, Copy61Assumption
<1>5. Place = "holding" =>
        /\ Len(st.buf) \in Nat \ {0} /\ Origin + Len(st.buf) <= m
        /\ run.prog.unit = "char" => Len(st.buf) = 1
  BY HeldFits
<1>6. w \in Nat /\ Origin = Base + w
  BY <1>1, <1>2
<1>7. run.size >= 0 => run.size - st.left = w /\ st.left >= 0
  BY <1>2, <1>4, <1>1
<1>8. run.size = -1 => st.left # 0
  <2>1. run.size = -1 => run.size - st.left \in Nat
    BY <1>2, <1>6
  <2>. QED BY <1>1, <2>1
<1>9. Origin <= m \/ Origin = Base
  BY <1>2
<1>10. Place = "holding" => st.left # 0
  BY <1>2
<1>11. Place = "closing" => st.left = 0 \/ Origin >= m
  BY <1>2
<1>. HIDE DEF m, w, n
<1>12. w \in 0..n
  BY <1>1, <1>3, <1>6, <1>7, <1>9
<1>13. Place = "holding" => w + Len(st.buf) <= n
  <2>. SUFFICES ASSUME Place = "holding" PROVE w + Len(st.buf) <= n
    OBVIOUS
  <2>. DEFINE k == Len(st.buf)
  <2>1. k \in Nat \ {0} /\ Base + w + k <= m /\ (run.size >= 0 => k = 1)
    <3>1. k \in Nat \ {0} /\ Origin + k <= m /\ (run.prog.unit = "char" => k = 1)
      BY <1>5
    <3>2. run.size >= 0 => run.prog.unit = "char"
      BY <1>4, <1>1
    <3>. HIDE DEF k
    <3>. QED BY <1>6, <3>1, <3>2
  <2>. HIDE DEF k
  <2>2. w + k <= n
    BY <1>1, <1>3, <1>6, <1>7, <1>10, <2>1
  <2>. QED BY <2>2 DEF k
<1>14. Place = "closing" => w = n
  BY <1>1, <1>3, <1>6, <1>7, <1>8, <1>9, <1>11
<1>. QED BY <1>12, <1>13, <1>14 DEF w, n

-----------------------------------------------------------------------------
(* Every step writes what belongs where it is written.                     *)

(* A step writes nothing, or the next bytes of what the program holds.     *)
Kept == Done' = Done /\ OutP!Seen' = OutP!Seen

Grown ==
  /\ Stage = "write"
  /\ \E n \in 1..(Len(st.buf) - Put) :
       /\ Done' = Done \cup ((WriteAt + Put + 1)..(WriteAt + Put + n))
       /\ OutP!Seen' = OutP!Overwritten(OutP!Seen, WriteAt + Put, SubSeq(st.buf, Put + 1, Put + n))

(* Where a step leads to.                                                  *)
LEMMA PlacesGo ==
  ASSUME CallsInv, CallsInv', run' = run, Effect, ~Waits
  PROVE  /\ OutP!Seen' = OutP!Seen /\ WriteAt' + Put' = WriteAt + Put
         /\ Put' = 0 /\ (Put = 0 \/ Writes)
         /\ Place' = "setup" => Place = "setup"
         /\ Place = "setup" /\ Place' # "setup" /\ run.prog.order = "next" =>
              Stage = "seekout" /\ Goes /\ run.prog \in PlainlyAt
<1>1. /\ Sits(Stage, Place) /\ Sits(Stage', Place') /\ Len(st.buf) \in Nat
      /\ outF.pos \in Nat /\ Put \in 0..Len(st.buf)
  BY CallsAre, CallsAreNext
<1>2. WriteAt \in Int
  BY <1>1 DEF WriteAt
<1>3. CASE Goes
  <2>1. /\ GoesOn /\ FilesStay /\ Stage \notin {"size", "blocks", "top", "write", "done"}
    BY <1>3 DEF Goes
  <2>2. /\ Place' = "setup" => Place = "setup"
        /\ Place = "setup" /\ run.prog.order = "next" => Stage = "seekout" /\ run.prog \in PlainlyAt
    BY <1>1, <2>1 DEF GoesOn, Follows, Sits
  <2>. QED BY <1>3, <2>1, <2>2 DEF FilesStay
<1>4. CASE Retries \/ Sizes \/ Divides \/ Loops \/ Stops
  <2>1. FilesStay
    BY <1>4 DEF Retries, Sizes, Divides, Loops, Stops
  <2>2. /\ Place' = "setup" => Place = "setup"
        /\ Place = "setup" /\ Place' # "setup" => run.prog.order # "next"
    <3>1. CASE Retries
      BY <3>1 DEF Retries
    <3>2. CASE Sizes \/ Divides
      BY <1>1, <3>2 DEF Sizes, Divides, Sits
    <3>3. CASE Loops
      BY <1>1, <3>3 DEF Loops, GoesOn, Follows, Sits
    <3>4. CASE Stops
      BY <1>1, <3>4 DEF Stops, Sits
    <3>. QED BY <1>4, <3>1, <3>2, <3>3, <3>4
  <2>. QED BY <2>1, <2>2 DEF FilesStay
<1>5. CASE Writes
  <2>1. /\ Put = Len(st.buf) /\ Put' = 0 /\ OutP!Seen' = OutP!Seen
        /\ WriteAt' = WriteAt + Len(st.buf) /\ Place = "holding" /\ Place' = "written"
    BY <1>1, <1>5 DEF Writes, GoesOn, Follows, Sits
  <2>2. WriteAt' + Put' = WriteAt + Put
    BY <1>1, <1>2, <2>1
  <2>. QED BY <1>5, <2>1, <2>2
<1>. QED BY <1>3, <1>4, <1>5 DEF Effect

(* What is written is written in order by the programs that copy from the  *)
(* beginning and by reverse61.                                             *)
LEMMA DoneInOrder ==
  ASSUME CallsInv, CallsInv', run' = run, Effect, PosInv, NextInv', ReverseInv',
         run.prog.order = "next" \/ run.prog = reverse61
  PROVE  Kept \/ Grown
<1>1. /\ run \in Runs /\ Sits(Stage, Place) /\ Len(st.buf) \in Nat /\ outF.pos \in Nat
      /\ Put \in 0..Len(st.buf) /\ Start \in Nat /\ Start' = Start
      /\ st.left \in Int /\ Total \in Nat
  BY CallsAre, BeginsAt DEF Start
<1>2. /\ Done = IF Place = "setup" THEN {} ELSE (Start + 1)..(WriteAt + Put)
      /\ Done' = IF Place' = "setup" THEN {} ELSE (Start + 1)..(WriteAt' + Put')
  BY <1>1 DEF Done
<1>3. CASE Waits
  <2>1. /\ Place' = Place
        /\ WriteAt' = WriteAt \/ Stage \in {"zeroout", "seekout"}
        /\ Puts \/ (Put' = Put /\ OutP!Seen' = OutP!Seen)
    BY <1>3 DEF Waits
  <2>2. Stage \in {"zeroout", "seekout"} => Place = "setup"
    <3>1. run.prog = reverse61 => Stage \notin {"zeroout", "seekout"}
      BY DownIs, OrdersAre
    <3>. QED BY <1>1, <3>1 DEF Sits
  <2>3. CASE Puts
    <3>1. Stage = "write" /\ Place = "holding" /\ WriteAt' = WriteAt
      BY <1>1, <2>1, <2>3 DEF Puts, Sits
    <3>2. PICK n \in 1..(Len(st.buf) - Put) :
            /\ Put' = Put + n
            /\ OutP!Seen' = OutP!Overwritten(OutP!Seen, WriteAt + Put, SubSeq(st.buf, Put + 1, Put + n))
      BY <2>3 DEF Puts
    <3>3. WriteAt \in Nat /\ WriteAt >= Start
      <4>1. CASE run.prog.order = "next"
        BY <3>1, <4>1 DEF PosInv, NextInv
      <4>2. CASE run.prog = reverse61
        <5>1. run.prog.order = "down"
          BY <4>2, OrdersAre
        <5>2. /\ WriteAt = Start + (Total - st.left - Taken) /\ Taken = 1 /\ st.left < Total
          BY <3>1, <4>2, <5>1 DEF PosInv, ReverseInv, DownInv, Taken
        <5>. QED BY <1>1, <5>2
      <4>. QED BY <4>1, <4>2
    <3>4. (Start + 1)..(WriteAt + (Put + n)) =
            ((Start + 1)..(WriteAt + Put)) \cup ((WriteAt + Put + 1)..(WriteAt + Put + n))
      <4>. DEFINE w == WriteAt
                  p == Put
                  z == Start
      <4>1. w \in Nat /\ p \in Nat /\ n \in Nat /\ z \in Nat /\ w >= z
        BY <1>1, <3>2, <3>3
      <4>. HIDE DEF w, p, z
      <4>2. (z + 1)..(w + (p + n)) = ((z + 1)..(w + p)) \cup ((w + p + 1)..(w + p + n))
        BY <4>1
      <4>. QED BY <4>2 DEF w, p, z
    <3>5. Done' = Done \cup ((WriteAt + Put + 1)..(WriteAt + Put + n))
      BY <1>2, <2>1, <3>1, <3>2, <3>4
    <3>. QED BY <3>1, <3>2, <3>5 DEF Grown
  <2>4. CASE ~Puts
    <3>1. Done' = Done
      BY <1>2, <2>1, <2>2, <2>4
    <3>. QED BY <2>1, <2>4, <3>1 DEF Kept
  <2>. QED BY <2>3, <2>4
<1>4. CASE ~Waits
  <2>1. /\ OutP!Seen' = OutP!Seen /\ WriteAt' + Put' = WriteAt + Put
        /\ Put' = 0 /\ (Put = 0 \/ Writes)
        /\ Place' = "setup" => Place = "setup"
        /\ Place = "setup" /\ Place' # "setup" /\ run.prog.order = "next" =>
             Stage = "seekout" /\ Goes /\ run.prog \in PlainlyAt
    BY <1>4, PlacesGo
  <2>2. CASE Place = "setup" /\ Place' # "setup"
    <3>1. WriteAt + Put = Start
      <4>1. Put = 0
        BY <1>1, <2>1, <2>2 DEF Writes, Sits
      <4>2. WriteAt = Start
        <5>1. CASE run.prog.order = "next"
          <6>1. WriteAt = st.pos /\ run.out.seekable /\ run.prog \in PlainlyAt
            BY <2>1, <2>2, <5>1 DEF Goes
          <6>2. st.pos = run.at
            BY <2>2, <5>1 DEF PosInv, NextInv
          <6>3. Start = run.at
            BY <1>1, <6>1, BeginsAt
          <6>. QED BY <6>1, <6>2, <6>3
        <5>2. CASE run.prog = reverse61
          BY <2>2, <5>2 DEF PosInv, ReverseInv
        <5>. QED BY <5>1, <5>2
      <4>. QED BY <1>1, <4>1, <4>2
    <3>2. Done' = {} /\ Done = {}
      <4>1. (Start + 1)..Start = {}
        BY <1>1
      <4>. QED BY <1>2, <2>1, <2>2, <3>1, <4>1
    <3>. QED BY <2>1, <3>2 DEF Kept
  <2>3. CASE ~(Place = "setup" /\ Place' # "setup")
    <3>1. Done' = Done
      BY <1>2, <2>1, <2>3
    <3>. QED BY <2>1, <3>1 DEF Kept
  <2>. QED BY <2>2, <2>3
<1>. QED BY <1>3, <1>4

(* And from the end on by wreverse61.                                      *)
LEMMA DoneBackwards ==
  ASSUME CallsInv, CallsInv', run' = run, Effect, PosInv, DownInv', run.prog = wreverse61
  PROVE  Kept \/ Grown
<1>1. /\ run \in Runs /\ Sits(Stage, Place) /\ Sits(Stage', Place') /\ Len(st.buf) \in Nat
      /\ outF.pos \in Nat /\ Put \in 0..Len(st.buf) /\ Total \in Nat /\ Total' = Total
      /\ st.left \in Int
  BY CallsAre, CallsAreNext, BeginsAt DEF Total
<1>2. /\ run.prog.order = "down" /\ run.prog.unit = "char" /\ run.prog # reverse61
      /\ run.prog \notin Backwards /\ run.prog # reordercat61
      /\ Stage \notin {"clear", "blocks", "zeroin", "seekin"}
  BY DownIs, OrdersAre, ProgramsDiffer DEF Backwards
<1>3. /\ Done = IF Place = "setup" THEN {} ELSE (st.left + 1 + Taken - Put)..Total
      /\ Done' = IF Place' = "setup" THEN {} ELSE (st'.left + 1 + Taken' - Put')..Total
  BY <1>1, <1>2 DEF Done
<1>4. /\ Place = "setup" /\ Stage # "size" => st.left = Total
      /\ Place \in {"fetching", "holding", "written"} => st.pos = st.left /\ st.left < Total
      /\ Stage = "write" => WriteAt = st.pos
  BY <1>2 DEF PosInv, DownInv, WreverseInv
<1>5. CASE Waits
  <2>1. /\ Place' = Place /\ st'.left = st.left
        /\ Puts \/ (Put' = Put /\ OutP!Seen' = OutP!Seen)
    BY <1>5 DEF Waits, Keeps
  <2>2. Taken' = Taken
    BY <2>1 DEF Taken
  <2>3. CASE Puts
    <3>1. Stage = "write" /\ Place = "holding" /\ Taken = 1
      BY <1>1, <2>3 DEF Puts, Sits, Taken
    <3>2. PICK n \in 1..(Len(st.buf) - Put) :
            /\ Put' = Put + n
            /\ OutP!Seen' = OutP!Overwritten(OutP!Seen, WriteAt + Put, SubSeq(st.buf, Put + 1, Put + n))
      BY <2>3 DEF Puts
    <3>3. Len(st.buf) = 1
      BY <1>2, <3>1, HeldFits
    <3>4. Put = 0 /\ n = 1 /\ WriteAt = st.left /\ st.left < Total
      BY <1>1, <1>4, <3>1, <3>2, <3>3
    <3>5. /\ Done = (st.left + 2)..Total /\ Done' = (st.left + 1)..Total
      BY <1>1, <1>3, <2>1, <2>2, <3>1, <3>2, <3>4
    <3>6. Done' = Done \cup ((WriteAt + Put + 1)..(WriteAt + Put + n))
      BY <1>1, <3>4, <3>5
    <3>. QED BY <3>1, <3>2, <3>6 DEF Grown
  <2>4. CASE ~Puts
    BY <1>3, <2>1, <2>2, <2>4 DEF Kept
  <2>. QED BY <2>3, <2>4
<1>6. CASE ~Waits
  <2>1. /\ OutP!Seen' = OutP!Seen /\ Put' = 0 /\ (Put = 0 \/ Writes)
        /\ Place' = "setup" => Place = "setup"
    BY <1>6, PlacesGo
  <2>2. CASE Goes
    <3>1. st'.left = st.left /\ GoesOn /\ Stage \notin {"size", "blocks", "top", "write", "done"} /\ Put = 0
      BY <2>2 DEF Goes, Keeps, FilesStay
    <3>2. /\ Place' \in {"fetching", "holding"} <=> Place \in {"fetching", "holding"}
      BY <1>1, <1>2, <3>1 DEF GoesOn, Follows, Sits
    <3>3. Taken' = Taken /\ (Place = "setup" => Taken = 0)
      BY <3>2 DEF Taken
    <3>4. CASE Place = "setup" /\ Place' # "setup"
      <4>1. st.left = Total /\ Taken' = 0
        BY <1>4, <3>1, <3>3, <3>4
      <4>2. (st'.left + 1 + Taken' - Put')..Total = {}
        BY <1>1, <2>1, <3>1, <4>1
      <4>. QED BY <1>3, <2>1, <3>4, <4>2 DEF Kept
    <3>5. CASE ~(Place = "setup" /\ Place' # "setup")
      BY <1>3, <2>1, <3>1, <3>3, <3>5 DEF Kept
    <3>. QED BY <3>4, <3>5
  <2>3. CASE Sizes
    <3>1. Stage = "size" /\ Place = "setup" /\ Place' = "setup"
      BY <1>1, <1>2, <2>3 DEF Sizes, GoesOn, Follows, Sits
    <3>. QED BY <1>3, <2>1, <3>1 DEF Kept
  <2>4. CASE Loops
    <3>1. /\ Place = "top" /\ Place' = "fetching" /\ st'.left = st.left - 1 /\ Put = 0
      BY <1>1, <1>2, <2>4 DEF Loops, GoesOn, FilesStay, Follows, Sits
    <3>2. Taken = 0 /\ Taken' = 1
      BY <3>1 DEF Taken
    <3>3. st'.left + 1 + Taken' - Put' = st.left + 1 + Taken - Put
      BY <1>1, <2>1, <3>1, <3>2
    <3>. QED BY <1>3, <2>1, <3>1, <3>3 DEF Kept
  <2>5. CASE Stops
    <3>1. Place = "top" /\ Place' = "closing" /\ st'.left = st.left /\ Put = 0
      BY <1>1, <1>2, <2>5 DEF Stops, Keeps, FilesStay, Sits
    <3>2. Taken = 0 /\ Taken' = 0
      BY <3>1 DEF Taken
    <3>. QED BY <1>3, <2>1, <3>1, <3>2 DEF Kept
  <2>6. CASE Writes
    <3>1. /\ Place = "holding" /\ Place' = "written" /\ st'.left = st.left /\ Put = Len(st.buf)
      BY <1>1, <1>2, <2>6 DEF Writes, GoesOn, Follows, Sits
    <3>2. Taken = 1 /\ Taken' = 0 /\ Len(st.buf) = 1
      BY <1>2, <3>1, HeldFits DEF Taken
    <3>3. st'.left + 1 + Taken' - Put' = st.left + 1 + Taken - Put
      BY <1>1, <2>1, <3>1, <3>2
    <3>. QED BY <1>3, <2>1, <3>1, <3>3 DEF Kept
  <2>7. ~Retries /\ ~Divides
    BY <1>2 DEF Retries, Divides
  <2>. QED BY <1>6, <2>2, <2>3, <2>4, <2>5, <2>6, <2>7 DEF Effect
<1>. QED BY <1>5, <1>6

(* The blocks of a set, byte by byte.                                      *)
BytesOf(t) == UNION {(BlockAt(b) + 1)..(BlockAt(b) + run.block) : b \in t}

(* Blocks do not overlap.                                                  *)
LEMMA BlocksApart ==
  ASSUME run.block \in Nat, NEW t \in SUBSET Nat, NEW b \in Nat \ t
  PROVE  \A i \in (BlockAt(b) + 1)..(BlockAt(b) + run.block) : i \notin BytesOf(t)
<1>. DEFINE n == run.block
<1>. SUFFICES ASSUME NEW i \in (BlockAt(b) + 1)..(BlockAt(b) + n), i \in BytesOf(t) PROVE FALSE
  OBVIOUS
<1>1. PICK c \in t : i \in (BlockAt(c) + 1)..(BlockAt(c) + n)
  BY DEF BytesOf
<1>2. c \in Nat /\ b \in Nat /\ c # b /\ n \in Nat
  OBVIOUS
<1>3. BlockAt(b) = b * n /\ BlockAt(c) = c * n
  BY DEF BlockAt
<1>4. b * n \in Nat /\ c * n \in Nat
  <2>1. \A x, y \in Nat : x * y \in Nat
    OBVIOUS
  <2>. QED BY <1>2, <2>1
<1>5. b * n + n <= c * n \/ c * n + n <= b * n
  <2>1. b < c \/ c < b
    BY <1>2
  <2>2. b < c => b * n + n <= c * n
    BY <1>2, Multiples
  <2>3. c < b => c * n + n <= b * n
    BY <1>2, Multiples
  <2>. QED BY <2>1, <2>2, <2>3
<1>. DEFINE p == BlockAt(b)
            q == BlockAt(c)
<1>6. p \in Nat /\ q \in Nat /\ n \in Nat /\ (p + n <= q \/ q + n <= p)
  BY <1>2, <1>3, <1>4, <1>5
<1>7. i \in (p + 1)..(p + n) /\ i \in (q + 1)..(q + n)
  BY <1>1
<1>. HIDE DEF p, q, n
<1>. QED BY <1>6, <1>7

(* And by reordercat61 block by block.                                     *)
LEMMA DoneByBlocks ==
  ASSUME CallsInv, CallsInv', run' = run, Effect, PosInv, Fits(run), run.prog = reordercat61
  PROVE  Kept \/ Grown
<1>1. /\ run \in Runs /\ Sits(Stage, Place) /\ Sits(Stage', Place') /\ Len(st.buf) \in Nat
      /\ outF.pos \in Nat /\ Put \in 0..Len(st.buf) /\ Total \in Nat /\ Total' = Total
      /\ st.left \in Int /\ st.pos \in Nat /\ st.todo \subseteq Nat /\ run.block \in Nat \ {0}
      /\ Len(run.in.data) \in Nat /\ Origin \in Nat
  BY CallsAre, CallsAreNext, BeginsAt, RunIs DEF Total, StType
<1>2. /\ run.prog.order = "shuffled" /\ run.prog # reverse61 /\ run.prog # wreverse61
      /\ run.prog # carefulcat61 /\ run.prog # wstridecat61
      /\ run.prog \notin PlainlyAt /\ run.prog \notin Backwards /\ st.block = run.block
  BY OrdersAre, ProgramsDiffer DEF Backwards, CallsInv, BufInv
<1>3. Total <= Len(run.in.data)
  BY <1>1, <1>2, InputSize
<1>. DEFINE now == IF Place \in {"fetching", "holding"} THEN (st.pos + 1 + Put)..(st.pos + run.block) ELSE {}
            nxt == IF Place' \in {"fetching", "holding"} THEN (st'.pos + 1 + Put')..(st'.pos + run.block) ELSE {}
            B == BytesOf(st.todo)
<1>4. BytesOf(st.todo)' = BytesOf(st'.todo)
  BY DEF BytesOf, BlockAt
<1>5. /\ Done = IF Place = "setup" THEN {} ELSE (1..Total) \ (B \cup now)
      /\ Done' = IF Place' = "setup" THEN {} ELSE (1..Total) \ (BytesOf(st'.todo) \cup nxt)
  <2>1. Undone = B \cup now
    BY DEF Undone, BytesOf
  <2>2. Undone' = BytesOf(st'.todo) \cup nxt
    BY DEF Undone, BytesOf, BlockAt
  <2>. QED BY <1>1, <1>2, <2>1, <2>2 DEF Done
<1>6. /\ Stage # "size" => st.left = Total
      /\ Place \in {"fetching", "holding"} =>
           \E b \in Nat \ st.todo : st.pos = BlockAt(b) /\ BlockAt(b) + run.block <= Total
      /\ Stage = "read" \/ Place = "holding" => Origin = st.pos
      /\ Place = "holding" => Len(st.buf) = run.block
      /\ Stage = "write" => WriteAt = st.pos
  BY DEF PosInv, ShuffledInv
<1>7. CASE Waits
  <2>1. /\ Place' = Place /\ st'.pos = st.pos /\ st'.todo = st.todo
        /\ Puts \/ (Put' = Put /\ OutP!Seen' = OutP!Seen)
    BY <1>7 DEF Waits, Keeps
  <2>2. CASE Puts
    <3>1. Stage = "write" /\ Place = "holding"
      BY <1>1, <2>2 DEF Puts, Sits
    <3>2. PICK n \in 1..(Len(st.buf) - Put) :
            /\ Put' = Put + n
            /\ OutP!Seen' = OutP!Overwritten(OutP!Seen, WriteAt + Put, SubSeq(st.buf, Put + 1, Put + n))
      BY <2>2 DEF Puts
    <3>3. PICK b \in Nat \ st.todo : st.pos = BlockAt(b) /\ BlockAt(b) + run.block <= Total
      BY <1>6, <3>1
    <3>4. \A i \in (st.pos + 1)..(st.pos + run.block) : i \notin B
      BY <1>1, <3>3, BlocksApart
    <3>. DEFINE p == st.pos
                m == run.block
    <3>5. /\ p \in Nat /\ m \in Nat /\ Put \in Nat /\ n \in Nat /\ Put + n <= m /\ p + m <= Total
          /\ Total \in Nat /\ WriteAt = p
      BY <1>1, <1>6, <3>1, <3>2, <3>3
    <3>6. Done = (1..Total) \ (B \cup ((p + 1 + Put)..(p + m)))
      BY <1>5, <3>1
    <3>7. Done' = (1..Total) \ (B \cup ((p + 1 + (Put + n))..(p + m)))
      BY <1>5, <2>1, <3>1, <3>2
    <3>8. \A i \in (p + 1)..(p + m) : i \notin B
      BY <3>4
    <3>. HIDE DEF p, m, B
    <3>9. Done' = Done \cup ((p + Put + 1)..(p + Put + n))
      <4>1. (p + Put + 1)..(p + Put + n) \subseteq (1..Total) \ B
        BY <3>5, <3>8
      <4>2. \A i \in (p + Put + 1)..(p + Put + n) : i \notin (p + 1 + (Put + n))..(p + m)
        BY <3>5
      <4>3. \A i \in 1..Total : i \in (p + 1 + Put)..(p + m) <=>
              i \in (p + Put + 1)..(p + Put + n) \/ i \in (p + 1 + (Put + n))..(p + m)
        BY <3>5
      <4>. QED BY <3>6, <3>7, <4>1, <4>2, <4>3
    <3>. QED BY <3>1, <3>2, <3>5, <3>9 DEF Grown
  <2>3. CASE ~Puts
    <3>1. Done' = Done
      BY <1>5, <2>1, <2>3
    <3>. QED BY <2>1, <2>3, <3>1 DEF Kept
  <2>. QED BY <2>2, <2>3
<1>8. CASE ~Waits
  <2>1. /\ OutP!Seen' = OutP!Seen /\ Put' = 0 /\ (Put = 0 \/ Writes)
        /\ Place' = "setup" => Place = "setup"
    BY <1>8, PlacesGo
  <2>2. CASE Goes
    <3>1. /\ st'.pos = st.pos /\ st'.todo = st.todo /\ GoesOn /\ Put = 0
          /\ Stage \notin {"size", "blocks", "top", "write", "done"}
      BY <2>2 DEF Goes, Keeps, FilesStay
    <3>2. /\ Place' \in {"fetching", "holding"} <=> Place \in {"fetching", "holding"}
          /\ Place' = "setup" <=> Place = "setup"
      BY <1>1, <1>2, <3>1 DEF GoesOn, Follows, Sits
    <3>3. Done' = Done
      BY <1>5, <2>1, <3>1, <3>2
    <3>. QED BY <2>1, <3>3 DEF Kept
  <2>3. CASE Sizes
    <3>1. Place = "setup" /\ Place' = "setup"
      BY <1>1, <1>2, <2>3 DEF Sizes, GoesOn, Follows, Sits
    <3>. QED BY <1>5, <2>1, <3>1 DEF Kept
  <2>4. CASE Divides
    <3>1. /\ Stage = "blocks" /\ Place = "setup" /\ Place' = "top"
          /\ st.left % st.block = 0 /\ st'.todo = 0..(st.left \div st.block - 1)
      BY <1>1, <2>4 DEF Divides, GoesOn, Follows, Sits
    <3>2. Total % run.block = 0 /\ st'.todo = 0..(Total \div run.block - 1)
      BY <1>2, <1>6, <3>1
    <3>3. \A i \in 1..Total : \E b \in st'.todo : BlockAt(b) < i /\ i <= BlockAt(b) + run.block
      BY <1>1, <3>2, BlocksOf DEF BlockAt
    <3>4. \A i \in 1..Total : i \in BytesOf(st'.todo)
      <4>. SUFFICES ASSUME NEW i \in 1..Total PROVE i \in BytesOf(st'.todo)
        OBVIOUS
      <4>1. PICK b \in st'.todo : BlockAt(b) < i /\ i <= BlockAt(b) + run.block
        BY <3>3
      <4>2. b \in Nat
        BY <1>1, <3>2, BlocksOf
      <4>3. BlockAt(b) \in Nat
        <5>1. \A x, y \in Nat : x * y \in Nat
          OBVIOUS
        <5>. QED BY <1>1, <4>2, <5>1 DEF BlockAt
      <4>4. i \in (BlockAt(b) + 1)..(BlockAt(b) + run.block)
        BY <1>1, <4>1, <4>3
      <4>. QED BY <4>4 DEF BytesOf
    <3>5. Done = {} /\ Done' = {}
      BY <1>5, <3>1, <3>4
    <3>. QED BY <2>1, <3>5 DEF Kept
  <2>5. CASE Loops
    <3>1. /\ Place = "top" /\ Place' = "fetching"
      BY <1>1, <1>2, <2>5 DEF Loops, GoesOn, Follows, Sits
    <3>2. PICK b \in st.todo : st'.todo = st.todo \ {b} /\ st'.pos = b * st.block
      BY <1>2, <2>5 DEF Loops
    <3>3. st'.pos = BlockAt(b) /\ BlockAt(b) \in Nat
      <4>1. \A x, y \in Nat : x * y \in Nat
        OBVIOUS
      <4>. QED BY <1>1, <1>2, <3>2, <4>1 DEF BlockAt
    <3>4. nxt = (BlockAt(b) + 1)..(BlockAt(b) + run.block)
      <4>1. st'.pos + 1 + Put' = BlockAt(b) + 1
        BY <2>1, <3>3
      <4>. QED BY <3>1, <3>3, <4>1
    <3>5. BytesOf(st'.todo) \cup nxt = B
      <4>. HIDE DEF nxt
      <4>. QED BY <3>2, <3>4 DEF BytesOf
    <3>6. now = {}
      BY <3>1
    <3>. HIDE DEF nxt, now, B
    <3>7. Done' = Done
      BY <1>5, <3>1, <3>5, <3>6
    <3>. QED BY <2>1, <3>7 DEF Kept
  <2>6. CASE Stops
    <3>1. /\ Place' = "closing" /\ st'.todo = st.todo
          /\ \/ Stage = "top"
             \/ Stage = "read" /\ Origin >= Len(run.in.data)
      BY <1>2, <2>6 DEF Stops, Keeps
    <3>2. Stage # "read"
      <4>. SUFFICES ASSUME Stage = "read" PROVE FALSE
        OBVIOUS
      <4>1. PICK b \in Nat : st.pos = BlockAt(b) /\ BlockAt(b) + run.block <= Total
        BY <1>1, <1>6 DEF Sits
      <4>2. /\ Origin + run.block <= Total /\ Total <= Len(run.in.data) /\ Origin >= Len(run.in.data)
            /\ Origin \in Nat /\ run.block \in Nat \ {0} /\ Total \in Nat /\ Len(run.in.data) \in Nat
        BY <1>1, <1>3, <1>6, <3>1, <4>1
      <4>. QED BY <4>2
    <3>3. Place = "top"
      BY <1>1, <3>1, <3>2 DEF Sits
    <3>. QED BY <1>5, <2>1, <3>1, <3>3 DEF Kept
  <2>7. CASE Writes
    <3>1. /\ Place = "holding" /\ Place' = "written" /\ st'.todo = st.todo /\ Put = Len(st.buf)
      BY <1>1, <1>2, <2>7 DEF Writes, GoesOn, Follows, Sits
    <3>2. now = {}
      <4>1. Put = run.block
        BY <1>6, <3>1
      <4>. QED BY <1>1, <4>1
    <3>3. Done' = Done
      <4>1. nxt = {}
        BY <3>1
      <4>. HIDE DEF now, nxt, B
      <4>2. Done = (1..Total) \ (B \cup now) /\ Done' = (1..Total) \ (BytesOf(st'.todo) \cup nxt)
        BY <1>5, <3>1
      <4>3. BytesOf(st'.todo) = B
        BY <3>1 DEF B
      <4>. QED BY <3>2, <4>1, <4>2, <4>3
    <3>. QED BY <2>1, <3>3 DEF Kept
  <2>8. ~Retries
    BY <1>2 DEF Retries
  <2>. QED BY <1>8, <2>2, <2>3, <2>4, <2>5, <2>6, <2>7, <2>8 DEF Effect
<1>. QED BY <1>7, <1>8

(* By strides nothing has been written at first, and what is written next  *)
(* is what is held.                                                        *)
LEMMA StridedGrows ==
  ASSUME CallsInv, Fits(run), Evenly(run), ColumnsInv, run.prog.order = "stride", Stage = "write",
         NEW n \in 1..(Len(st.buf) - Put)
  PROVE  Strided(st.written + Put + n)
           = Strided(st.written + Put) \cup ((WriteAt + Put + 1)..(WriteAt + Put + n))
<1>1. /\ run \in Runs /\ Place = "holding" /\ Len(st.buf) \in Nat /\ Put \in 0..Len(st.buf)
      /\ st.written \in Nat /\ Start \in Nat /\ Total \in Nat /\ st.pos \in Nat
  BY CallsAre, BeginsAt DEF StType, Sits
<1>2. run.prog \in {stridecat61, wstridecat61} /\ stridecat61 # wstridecat61
  BY <1>1, UnitsAre, ProgramsDiffer
<1>. DEFINE w == st.written
            p == st.pos
            k == Put
            t == Total
            z == Start
            b == Len(st.buf)
<1>3. CASE run.prog = stridecat61
  <2>1. WriteAt = z + w
    BY <1>1, <1>3 DEF ColumnsInv
  <2>2. w \in Nat /\ k \in Nat /\ n \in Nat /\ z \in Nat
    BY <1>1
  <2>. HIDE DEF w, k, z
  <2>3. (z + 1)..(z + (w + k + n)) = ((z + 1)..(z + (w + k))) \cup ((z + w + k + 1)..(z + w + k + n))
    BY <2>2
  <2>. QED BY <1>3, <2>1, <2>3 DEF Strided, w, k, z
<1>4. CASE run.prog = wstridecat61
  <2>1. WriteAt = p
    BY <1>1, <1>4 DEF ColumnsInv
  <2>2. /\ p \in 0..(t - 1) /\ Aligned(run, p) /\ Rank(run, p, t) = w
        /\ b = IF Width(run, p) <= t - p THEN Width(run, p) ELSE t - p
        /\ Blocked(run)
    BY <1>1, HeldColumn, BlocksFit
  <2>3. Width(run, p) \in Nat \ {0}
    BY <1>1, <2>2, ColumnsAre
  <2>4. /\ w \in Nat /\ k \in Nat /\ n \in Nat /\ t \in Nat /\ p \in Nat /\ b \in Nat
        /\ k + n <= b /\ b <= Width(run, p) /\ p + b <= t
    BY <1>1, <2>2, <2>3
  <2>5. ASSUME NEW j \in 0..(b - 1) PROVE Rank(run, p + j, t) = w + j /\ p + j \in 0..(t - 1)
    <3>. HIDE DEF w, p, k, t, b
    <3>1. j \in 0..(Width(run, p) - 1) /\ p + j < t /\ p + j \in 0..(t - 1)
      BY <2>3, <2>4
    <3>. QED BY <2>2, <2>4, <3>1, RankIn
  <2>6. /\ \A i \in 0..(t - 1) : Rank(run, i, t) \in 0..(t - 1)
        /\ \A i, j \in 0..(t - 1) : Rank(run, i, t) = Rank(run, j, t) => i = j
    BY <2>2, <2>4, RanksDiffer
  <2>7. Strided(w + k) = {i \in 1..t : Rank(run, i - 1, t) < w + k}
        /\ Strided(w + k + n) = {i \in 1..t : Rank(run, i - 1, t) < w + k + n}
    BY <1>2, <1>4 DEF Strided
  <2>. HIDE DEF w, p, k, t, b
  <2>8. ASSUME NEW i \in (p + k + 1)..(p + k + n)
        PROVE  i \in 1..t /\ Rank(run, i - 1, t) < w + k + n
    <3>1. i - 1 = p + (i - 1 - p) /\ i - 1 - p \in 0..(b - 1) /\ i - 1 - p < k + n
      BY <2>4
    <3>2. Rank(run, i - 1, t) = w + (i - 1 - p) /\ i - 1 \in 0..(t - 1)
      BY <2>5, <3>1
    <3>. QED BY <2>4, <3>1, <3>2
  <2>9. ASSUME NEW i \in 1..t, Rank(run, i - 1, t) < w + k + n, ~(Rank(run, i - 1, t) < w + k)
        PROVE  i \in (p + k + 1)..(p + k + n)
    <3>. DEFINE j == Rank(run, i - 1, t) - w
    <3>1. i - 1 \in 0..(t - 1)
      BY <2>4
    <3>2. Rank(run, i - 1, t) \in Nat
      BY <2>6, <3>1
    <3>3. j \in 0..(b - 1) /\ k <= j /\ j < k + n /\ Rank(run, i - 1, t) = w + j
      BY <2>4, <2>9, <3>2
    <3>. HIDE DEF j
    <3>4. Rank(run, p + j, t) = w + j /\ p + j \in 0..(t - 1)
      BY <2>5, <3>3
    <3>5. i - 1 = p + j
      BY <2>6, <3>1, <3>3, <3>4
    <3>6. i \in Int /\ j \in Nat /\ p \in Nat /\ k \in Nat /\ n \in Nat /\ i = p + j + 1
      BY <2>4, <3>3, <3>5
    <3>7. k <= j /\ j < k + n
      BY <3>3
    <3>. QED BY <3>6, <3>7
  <2>10. ASSUME NEW i \in 1..t
         PROVE  Rank(run, i - 1, t) < w + k => Rank(run, i - 1, t) < w + k + n
    <3>1. i - 1 \in 0..(t - 1)
      BY <2>4
    <3>2. Rank(run, i - 1, t) \in Nat
      BY <2>6, <3>1
    <3>. QED BY <2>4, <3>2
  <2>11. Strided(w + k + n) = Strided(w + k) \cup ((p + k + 1)..(p + k + n))
    BY <2>7, <2>8, <2>9, <2>10
  <2>. QED BY <2>1, <2>11 DEF w, p, k, t
<1>. QED BY <1>2, <1>3, <1>4

(* And by strides.                                                         *)
LEMMA DoneByStrides ==
  ASSUME CallsInv, CallsInv', run' = run, Effect, Fits(run), Evenly(run), StrideFits, PosInv, PosInv',
         run.prog.order = "stride"
  PROVE  Kept \/ Grown
<1>1. /\ run \in Runs /\ Sits(Stage, Place) /\ Len(st.buf) \in Nat /\ Put \in 0..Len(st.buf)
      /\ st.written \in Nat /\ Total \in Nat /\ Total' = Total /\ Start \in Nat /\ Start' = Start
      /\ Sits(Stage', Place') /\ Put' \in 0..Len(st'.buf)
  BY CallsAre, CallsAreNext, BeginsAt DEF Total, Start, StType
<1>2. run.prog # reverse61 /\ run.prog # wreverse61 /\ Stage \notin {"clear", "blocks"}
  BY <1>1, OrdersAre DEF Sits
<1>3. ColumnsInv /\ ColumnsInv'
  <2>1. Evenly(run)'
    BY DEF Evenly
  <2>. QED BY <2>1 DEF PosInv
<1>4. Strided(0) = {}
  <2>1. ASSUME NEW i \in 1..Total PROVE ~(Rank(run, i - 1, Total) < 0)
    <3>1. Blocked(run) /\ i - 1 \in 0..(Total - 1)
      BY <1>1, FirstBlock
    <3>. QED BY <1>1, <3>1, RanksDiffer
  <2>2. (Start + 1)..(Start + 0) = {}
    BY <1>1
  <2>. QED BY <2>1, <2>2 DEF Strided
<1>5. Done = Strided(st.written + Put)
  <2>1. CASE Place = "setup"
    <3>1. st.written = 0 /\ Stage # "write"
      BY <1>1, <1>3, <2>1 DEF ColumnsInv, Sits
    <3>2. st.written + Put = 0
      BY <3>1 DEF Put
    <3>. QED BY <1>4, <2>1, <3>2 DEF Done
  <2>. QED BY <1>2, <2>1 DEF Done
<1>6. Done' = Strided(st'.written + Put')
  <2>1. Place' = "setup" => Done' = {}
    BY DEF Done
  <2>2. Place' # "setup" => Done' = Strided(st'.written + Put')
    BY <1>1, <1>2 DEF Done, Strided, Rank, Before, Column
  <2>3. CASE Place' = "setup"
    <3>1. st'.written = 0 /\ Stage' # "write"
      BY <1>1, <1>3, <2>3 DEF ColumnsInv, Sits
    <3>2. st'.written + Put' = 0
      BY <3>1 DEF Put
    <3>. QED BY <1>4, <2>1, <2>3, <3>2
  <2>. QED BY <2>2, <2>3
<1>7. CASE Waits
  <2>1. /\ st'.written = st.written
        /\ Puts \/ (Put' = Put /\ OutP!Seen' = OutP!Seen)
    BY <1>7 DEF Waits, Keeps
  <2>2. CASE Puts
    <3>1. Stage = "write"
      BY <2>2 DEF Puts
    <3>2. PICK n \in 1..(Len(st.buf) - Put) :
            /\ Put' = Put + n
            /\ OutP!Seen' = OutP!Overwritten(OutP!Seen, WriteAt + Put, SubSeq(st.buf, Put + 1, Put + n))
      BY <2>2 DEF Puts
    <3>3. st'.written + Put' = st.written + Put + n
      BY <1>1, <2>1, <3>2
    <3>4. Strided(st.written + Put + n)
            = Strided(st.written + Put) \cup ((WriteAt + Put + 1)..(WriteAt + Put + n))
      BY <1>3, <3>1, StridedGrows
    <3>. QED BY <1>5, <1>6, <3>1, <3>2, <3>3, <3>4 DEF Grown
  <2>3. CASE ~Puts
    BY <1>5, <1>6, <2>1, <2>3 DEF Kept
  <2>. QED BY <2>2, <2>3
<1>8. CASE ~Waits
  <2>1. OutP!Seen' = OutP!Seen /\ Put' = 0
    BY <1>8, PlacesGo
  <2>2. st'.written + Put' = st.written + Put
    <3>1. CASE Writes
      <4>1. Put = Len(st.buf) /\ st'.written = st.written + Len(st.buf)
        BY <3>1, StrideWrites DEF Writes
      <4>. QED BY <1>1, <2>1, <4>1
    <3>2. CASE Goes \/ Sizes \/ Loops \/ Stops
      <4>1. Put = 0 /\ st'.written = st.written
        BY <3>2 DEF Goes, Sizes, Loops, Stops, Keeps, FilesStay
      <4>. QED BY <2>1, <4>1
    <3>3. ~Retries /\ ~Divides
      BY <1>2 DEF Retries, Divides
    <3>. QED BY <1>8, <3>1, <3>2, <3>3 DEF Effect
  <2>3. Done' = Done
    BY <1>5, <1>6, <2>2
  <2>. QED BY <2>1, <2>3 DEF Kept
<1>. QED BY <1>7, <1>8

(* What is to be written by strides.                                       *)
LEMMA StridedIs ==
  ASSUME run \in Runs, Fits(run), run.prog.order = "stride"
  PROVE  /\ Transformed = [k \in 1..Total |-> Transformed[k]]
         /\ \A i \in 0..(Total - 1) :
              /\ run.prog = stridecat61 => Transformed[Rank(run, i, Total) + 1] = Input[i + 1]
              /\ run.prog = wstridecat61 => Transformed[i + 1] = Input[Rank(run, i, Total) + 1]
<1>1. Total \in Nat /\ Len(Input) = Total /\ Blocked(run)
  BY BeginsAt, InputSize, FirstBlock
<1>2. run.prog \in {stridecat61, wstridecat61} /\ stridecat61 # wstridecat61
  BY UnitsAre, ProgramsDiffer
<1>. DEFINE n == Total
            at(k) == CHOOSE i \in 0..(n - 1) : Rank(run, i, n) = k - 1
            f == [k \in 1..n |-> Input[at(k) + 1]]
            g == [i \in 1..n |-> Input[Rank(run, i - 1, n) + 1]]
            t == Transformed
<1>3. t = CASE run.prog.order \in {"next", "shuffled"} -> Input
            [] run.prog.order = "down" -> Reverse(Input)
            [] run.prog = stridecat61 -> f
            [] run.prog = wstridecat61 -> g
  BY <1>1 DEF Transformed
<1>4. /\ run.prog = stridecat61 => t = f
      /\ run.prog = wstridecat61 => t = g
  <2>. HIDE DEF f, g, t
  <2>. QED BY <1>2, <1>3
<1>5. /\ \A i \in 0..(n - 1) : Rank(run, i, n) \in 0..(n - 1)
      /\ \A i, j \in 0..(n - 1) : Rank(run, i, n) = Rank(run, j, n) => i = j
  BY <1>1, RanksDiffer
<1>6. ASSUME NEW i \in 0..(n - 1) PROVE Rank(run, i, n) + 1 \in 1..n /\ at(Rank(run, i, n) + 1) = i
  <2>. DEFINE k == Rank(run, i, n)
  <2>1. k \in 0..(n - 1) /\ n \in Nat
    BY <1>1, <1>5
  <2>2. k + 1 \in 1..n /\ (k + 1) - 1 = k
    <3>. HIDE DEF k, n
    <3>. QED BY <2>1
  <2>3. \E j \in 0..(n - 1) : Rank(run, j, n) = (k + 1) - 1
    BY <2>2
  <2>4. at(k + 1) \in 0..(n - 1) /\ Rank(run, at(k + 1), n) = (k + 1) - 1
    <3>. HIDE DEF k, n
    <3>. QED BY <2>3
  <2>5. at(k + 1) = i
    <3>. HIDE DEF at, n
    <3>. QED BY <1>5, <2>2, <2>4
  <2>. QED BY <2>2, <2>5
<1>7. ASSUME NEW i \in 0..(n - 1), run.prog = stridecat61 PROVE t[Rank(run, i, n) + 1] = Input[i + 1]
  <2>. HIDE DEF t, at, n
  <2>1. t[Rank(run, i, n) + 1] = Input[at(Rank(run, i, n) + 1) + 1]
    BY <1>4, <1>6, <1>7
  <2>. QED BY <1>6, <2>1
<1>8. ASSUME NEW i \in 0..(n - 1), run.prog = wstridecat61 PROVE t[i + 1] = Input[Rank(run, i, n) + 1]
  <2>1. i + 1 \in 1..n /\ (i + 1) - 1 = i
    BY <1>1
  <2>. HIDE DEF t, n
  <2>. QED BY <1>4, <1>8, <2>1
<1>9. t = [k \in 1..n |-> t[k]]
  <2>1. f = [k \in 1..n |-> f[k]] /\ g = [k \in 1..n |-> g[k]]
    OBVIOUS
  <2>. HIDE DEF f, g, t
  <2>. QED BY <1>2, <1>4, <2>1
<1>. QED BY <1>7, <1>8, <1>9

(* What is held is what belongs where it is going to be written.           *)
LEMMA HeldBelongs ==
  ASSUME CallsInv, Fits(run), Evenly(run), PosInv, Stage = "write"
  PROVE  /\ WriteAt \in Nat
         /\ \A k \in 1..Len(st.buf) : st.buf[k] = Transformed[WriteAt + k - Start]
<1>. DEFINE d == run.in.data
            n == Len(st.buf)
<1>1. /\ run \in Runs /\ Sits(Stage, Place) /\ Origin \in Nat /\ st.left \in Int /\ Place = "holding"
      /\ Start \in Nat /\ Total \in Nat /\ Base \in Nat /\ st.pos \in Nat
  BY CallsAre, BeginsAt DEF Sits
<1>2. n \in Nat \ {0} /\ Origin + n <= Len(d) /\ \A k \in 1..n : st.buf[k] = d[Origin + k]
  BY <1>1, HeldFits
<1>3. /\ Input \in Seq(Nat) /\ Len(Input) \in Nat
      /\ \A k \in 1..Len(Input) : Input[k] = d[Base + k]
  BY <1>1, InputIs
<1>4. /\ run.prog.order \in {"next", "shuffled"} => Transformed = Input
      /\ run.prog.order = "down" =>
           \A k \in 1..Len(Input) : Transformed[k] = Input[Len(Input) + 1 - k]
  BY <1>1, TransformedIs
<1>5. /\ run.prog.order \in {"next", "down", "shuffled", "stride"}
      /\ run.prog.order = "down" => run.prog \in {reverse61, wreverse61}
      /\ run.prog.order = "shuffled" => run.prog = reordercat61
  BY <1>1, UnitsAre
<1>. HIDE DEF d, n
<1>6. CASE run.prog.order = "next"
  <2>1. /\ WriteAt - Start \in 0..Len(Input) /\ WriteAt - Start + n <= Len(Input)
    BY <1>1, <1>6, NextBound DEF PosInv, n
  <2>2. WriteAt \in Nat /\ WriteAt >= Start /\ Origin - Base = WriteAt - Start
    BY <1>1, <1>6 DEF PosInv, NextInv
  <2>3. ASSUME NEW k \in 1..n PROVE st.buf[k] = Transformed[WriteAt + k - Start]
    <3>1. /\ WriteAt + k - Start \in 1..Len(Input)
          /\ Base + (WriteAt + k - Start) = Origin + k
      BY <1>1, <1>2, <1>3, <2>1, <2>2
    <3>. QED BY <1>2, <1>3, <1>4, <1>6, <3>1
  <2>. QED BY <1>4, <2>2, <2>3 DEF n
<1>7. CASE run.prog.order = "down"
  <2>1. Base = 0 /\ Len(Input) = Total
    BY <1>1, <1>7, InputSize
  <2>2. n = 1
    BY <1>1, <1>7, DownIs, HeldFits DEF n
  <2>3. st.pos = st.left /\ st.left < Total /\ Taken = 1 /\ st.left \in Nat
    BY <1>1, <1>7 DEF PosInv, DownInv, Taken
  <2>4. /\ WriteAt \in Nat /\ WriteAt + 1 - Start \in 1..Total
        /\ Total + 1 - (WriteAt + 1 - Start) = Origin + 1
    <3>1. CASE run.prog = reverse61
      <4>1. Origin = st.left /\ WriteAt = Start + (Total - st.left - 1)
        BY <1>1, <2>3, <3>1 DEF PosInv, ReverseInv
      <4>. QED BY <1>1, <2>3, <4>1
    <3>2. CASE run.prog = wreverse61
      <4>1. Origin = Total - st.left - 1 /\ WriteAt = st.left
        BY <1>1, <2>3, <3>2 DEF PosInv, WreverseInv
      <4>2. Start = 0
        <5>1. run.prog \notin PlainlyAt
          BY <1>7, OrdersAre
        <5>. QED BY <1>1, <3>2, <5>1, BeginsAt
      <4>. QED BY <1>1, <2>3, <4>1, <4>2
    <3>. QED BY <1>5, <1>7, <3>1, <3>2
  <2>5. Transformed[WriteAt + 1 - Start] = d[Origin + 1]
    <3>1. Transformed[WriteAt + 1 - Start] = Input[Total + 1 - (WriteAt + 1 - Start)]
      BY <1>4, <1>7, <2>1, <2>4
    <3>2. Origin + 1 \in 1..Len(Input)
      BY <1>1, <2>1, <2>4
    <3>3. Input[Origin + 1] = d[Base + (Origin + 1)] /\ Base + (Origin + 1) = Origin + 1
      BY <1>1, <1>3, <2>1, <3>2
    <3>. QED BY <2>4, <3>1, <3>3
  <2>6. ASSUME NEW k \in 1..n PROVE st.buf[k] = Transformed[WriteAt + k - Start]
    <3>1. k = 1
      BY <2>2
    <3>. QED BY <1>2, <2>2, <2>5, <3>1
  <2>. QED BY <1>4, <2>4, <2>6 DEF n
<1>8. CASE run.prog.order = "shuffled"
  <2>1. Base = 0 /\ Len(Input) = Total
    BY <1>1, <1>8, InputSize
  <2>2. run.prog = reordercat61 /\ run.prog \notin PlainlyAt
    BY <1>5, <1>8, OrdersAre
  <2>3. Start = 0
    BY <1>1, <2>2, BeginsAt
  <2>4. /\ Origin = st.pos /\ WriteAt = st.pos /\ n = run.block
        /\ \E b \in Nat : st.pos = BlockAt(b) /\ BlockAt(b) + run.block <= Total
    BY <1>1, <2>2 DEF PosInv, ShuffledInv, n
  <2>5. st.pos + n <= Total
    BY <2>4
  <2>6. ASSUME NEW k \in 1..n PROVE st.buf[k] = Transformed[WriteAt + k - Start]
    <3>1. /\ WriteAt + k - Start \in 1..Len(Input)
          /\ Base + (WriteAt + k - Start) = Origin + k
      BY <1>1, <1>2, <2>1, <2>3, <2>4, <2>5
    <3>. QED BY <1>2, <1>3, <1>4, <1>8, <3>1
  <2>. QED BY <1>1, <1>4, <2>4, <2>6 DEF n
<1>9. CASE run.prog.order = "stride"
  <2>1. Base = 0 /\ Len(Input) = Total /\ Blocked(run) /\ ColumnsInv
    BY <1>1, <1>9, InputSize, FirstBlock DEF PosInv
  <2>2. run.prog \in {stridecat61, wstridecat61} /\ stridecat61 # wstridecat61 /\ st.written \in Nat
    BY <1>1, <1>9, UnitsAre, ProgramsDiffer, CallsAre DEF StType
  <2>3. /\ st.pos \in 0..(Total - 1) /\ Aligned(run, st.pos) /\ Rank(run, st.pos, Total) = st.written
        /\ n = IF Width(run, st.pos) <= Total - st.pos THEN Width(run, st.pos) ELSE Total - st.pos
    BY <1>1, <1>9, <2>1, HeldColumn DEF n
  <2>4. Width(run, st.pos) \in Nat \ {0}
    BY <1>1, <2>1, <2>3, ColumnsAre
  <2>5. n <= Width(run, st.pos) /\ st.pos + n <= Total
    BY <1>1, <2>3, <2>4
  <2>6. ASSUME NEW k \in 1..n
        PROVE  /\ st.pos + (k - 1) \in 0..(Total - 1) /\ st.written + (k - 1) \in 0..(Total - 1)
               /\ Rank(run, st.pos + (k - 1), Total) = st.written + (k - 1)
    <3>. DEFINE v == Width(run, st.pos)
                p == st.pos
                t == Total
    <3>0. v \in Nat /\ p \in Nat /\ t \in Nat /\ n \in Nat /\ n <= v /\ p + n <= t
      BY <1>1, <1>2, <2>4, <2>5
    <3>1. k - 1 \in 0..(v - 1) /\ p + (k - 1) < t /\ p + (k - 1) \in 0..(t - 1)
      <4>. HIDE DEF v, p, t
      <4>. QED BY <3>0
    <3>2. Rank(run, st.pos + (k - 1), Total) = st.written + (k - 1)
      BY <1>1, <2>1, <2>3, <3>1, RankIn
    <3>3. Rank(run, st.pos + (k - 1), Total) \in 0..(Total - 1)
      BY <1>1, <2>1, <3>1, RanksDiffer
    <3>. QED BY <3>1, <3>2, <3>3
  <2>7. CASE run.prog = stridecat61
    <3>1. WriteAt = Start + st.written /\ Origin = st.pos
      BY <1>1, <1>9, <2>1, <2>7 DEF ColumnsInv
    <3>2. ASSUME NEW k \in 1..n PROVE st.buf[k] = Transformed[WriteAt + k - Start]
      <4>1. Transformed[(st.written + (k - 1)) + 1] = Input[(st.pos + (k - 1)) + 1]
        BY <1>1, <1>9, <2>6, <2>7, StridedIs
      <4>2. /\ (st.written + (k - 1)) + 1 = WriteAt + k - Start
            /\ (st.pos + (k - 1)) + 1 = Origin + k /\ Origin + k \in 1..Total
            /\ Base + (Origin + k) = Origin + k
        <5>. DEFINE p == st.pos
                    w == st.written
                    t == Total
                    z == Start
        <5>1. /\ p \in Nat /\ w \in Nat /\ t \in Nat /\ z \in Nat /\ n \in Nat /\ p + n <= t
              /\ WriteAt = z + w /\ Origin = p /\ Base = 0
          BY <1>1, <1>2, <2>1, <2>2, <2>5, <3>1
        <5>. HIDE DEF p, w, t, z
        <5>2. /\ (w + (k - 1)) + 1 = WriteAt + k - z
              /\ (p + (k - 1)) + 1 = Origin + k /\ Origin + k \in 1..t
              /\ Base + (Origin + k) = Origin + k
          BY <5>1
        <5>. QED BY <5>2 DEF p, w, t, z
      <4>. QED BY <1>2, <1>3, <2>1, <4>1, <4>2
    <3>. QED BY <1>1, <2>2, <3>1, <3>2 DEF n
  <2>8. CASE run.prog = wstridecat61
    <3>1. WriteAt = st.pos /\ Origin = st.written
      BY <1>1, <1>9, <2>1, <2>8 DEF ColumnsInv, Sits
    <3>2. Start = 0
      <4>1. run.prog \notin PlainlyAt
        BY <1>9, OrdersAre
      <4>. QED BY <1>1, <2>8, <4>1, BeginsAt
    <3>3. ASSUME NEW k \in 1..n PROVE st.buf[k] = Transformed[WriteAt + k - Start]
      <4>1. Transformed[(st.pos + (k - 1)) + 1] = Input[(st.written + (k - 1)) + 1]
        BY <1>1, <1>9, <2>6, <2>8, StridedIs
      <4>2. /\ (st.pos + (k - 1)) + 1 = WriteAt + k - Start
            /\ (st.written + (k - 1)) + 1 = Origin + k /\ Origin + k \in 1..Total
            /\ Base + (Origin + k) = Origin + k
        <5>. DEFINE p == st.pos
                    w == st.written
                    t == Total
        <5>1. /\ p \in Nat /\ w \in Nat /\ t \in Nat /\ w + (k - 1) \in 0..(t - 1)
              /\ WriteAt = p /\ Origin = w /\ Base = 0 /\ Start = 0 /\ k \in Nat
          BY <1>1, <1>2, <2>1, <2>2, <2>6, <3>1, <3>2
        <5>. HIDE DEF p, w, t
        <5>2. /\ (p + (k - 1)) + 1 = WriteAt + k - Start
              /\ (w + (k - 1)) + 1 = Origin + k /\ Origin + k \in 1..t
              /\ Base + (Origin + k) = Origin + k
          BY <5>1
        <5>. QED BY <5>2 DEF p, w, t
      <4>. QED BY <1>2, <1>3, <2>1, <4>1, <4>2
    <3>. QED BY <1>1, <3>1, <3>3 DEF n
  <2>. QED BY <2>2, <2>7, <2>8
<1>. QED BY <1>5, <1>6, <1>7, <1>8, <1>9

(* At first nothing has been written.                                      *)
LEMMA InitPainted == Init /\ Fits(run) => Painted
<1>. SUFFICES ASSUME Init, Fits(run) PROVE Painted
  BY DEF Painted
<1>1. /\ CallsInv /\ NextInv /\ run \in Runs
      /\ OutP!Seen = run.out.data /\ run.out.data \in Seq(Nat)
  BY InitCalls, InitNext, OutOpened, RunIs DEF Init
<1>2. Place = "setup" \/ (Place = "top" /\ run.prog.order = "next" /\ run.prog \notin PlainlyAt)
  <2>1. st.pc = 1
    BY DEF Init
  <2>2. Begins(StageAt(1), PlaceAt(1))
    BY <1>1, RunIs
  <2>3. Place \in {"setup", "top"} /\ (run.prog \in PlainlyAt => Place = "setup")
    BY <2>1, <2>2 DEF Begins, Place
  <2>4. run.prog \in Backwards \cup {wreverse61, reordercat61, wstridecat61} => Place = "setup"
    BY <1>1, <2>1, <2>2, CallsAre DEF Begins, Sits
  <2>5. run.prog.order # "next" =>
          run.prog \in {reverse61, wreverse61, reordercat61, stridecat61, wstridecat61}
    BY <1>1, UnitsAre
  <2>. QED BY <2>3, <2>4, <2>5 DEF Backwards
<1>3. Done = {}
  <2>1. CASE Place = "setup"
    BY <2>1 DEF Done
  <2>2. CASE Place = "top" /\ run.prog.order = "next" /\ run.prog \notin PlainlyAt
    <3>1. Put = 0 /\ st.sent = FALSE
      BY DEF Init, Put
    <3>2. outF.pos = IF run.out.seekable THEN run.out.at ELSE 0
      BY <1>1, OutOpened DEF Init
    <3>3. run.prog \notin {wreverse61, reordercat61, wstridecat61}
      BY <2>2, OrdersAre
    <3>4. Start = outF.pos /\ Start \in Nat
      BY <1>1, <2>2, <3>2, <3>3, BeginsAt
    <3>5. (Start + 1)..(WriteAt + Put) = {}
      BY <3>1, <3>4 DEF WriteAt
    <3>. QED BY <2>2, <3>5 DEF Done
  <2>. QED BY <1>2, <2>1, <2>2
<1>4. PaintedWith(run.out.data, Transformed, Start, run.out.data, {})
  BY <1>1, LenProperties DEF PaintedWith
<1>. QED BY <1>1, <1>3, <1>4 DEF Painted

(* And every step keeps what has been written where it belongs.            *)
LEMMA PaintedGoes ==
  ASSUME CallsInv, CallsInv', run' = run, Effect, Fits(run), StrideFits, PosInv, PosInv',
         Painted
  PROVE  Painted'
<1>. SUFFICES ASSUME Evenly(run) PROVE Painted'
  BY DEF Painted, Evenly
<1>1. run \in Runs /\ run.out.data \in Seq(Nat) /\ Start \in Nat /\ OutP!Seen \in Seq(Nat)
  BY CallsAre, RunIs, BeginsAt, FilesAre DEF CallsInv, OutGood
<1>2. Transformed' = Transformed /\ Start' = Start
  BY DEF Transformed, Start, Input, Rank, Before, Column
<1>3. Kept \/ Grown
  <2>1. \/ run.prog.order \in {"next", "stride"}
        \/ run.prog \in {reverse61, wreverse61, reordercat61}
    BY <1>1, UnitsAre
  <2>. QED BY <2>1, DoneInOrder, DoneBackwards, DoneByBlocks, DoneByStrides DEF PosInv
<1>4. PaintedWith(run.out.data, Transformed, Start, OutP!Seen, Done)
  BY DEF Painted
<1>5. CASE Kept
  BY <1>2, <1>4, <1>5 DEF Kept, Painted, PaintedWith
<1>6. CASE Grown
  <2>1. PICK n \in 1..(Len(st.buf) - Put) :
          /\ Done' = Done \cup ((WriteAt + Put + 1)..(WriteAt + Put + n))
          /\ OutP!Seen' = OutP!Overwritten(OutP!Seen, WriteAt + Put, SubSeq(st.buf, Put + 1, Put + n))
    BY <1>6 DEF Grown
  <2>2. /\ WriteAt \in Nat
        /\ \A k \in 1..Len(st.buf) : st.buf[k] = Transformed[WriteAt + k - Start]
    BY <1>6, HeldBelongs DEF Grown
  <2>3. st.buf \in Seq(Nat) /\ Len(st.buf) \in Nat /\ Put \in 0..Len(st.buf)
    BY CallsAre
  <2>. DEFINE b == SubSeq(st.buf, Put + 1, Put + n)
              at == WriteAt + Put
  <2>4. /\ b \in Seq(Nat) /\ Len(b) = n /\ \A k \in 1..n : b[k] = st.buf[Put + k]
    <3>1. \A s \in Seq(Nat) : \A p \in Nat : \A m \in Nat : p + m <= Len(s) =>
            /\ SubSeq(s, p + 1, p + m) \in Seq(Nat) /\ Len(SubSeq(s, p + 1, p + m)) = m
            /\ \A k \in 1..m : SubSeq(s, p + 1, p + m)[k] = s[p + k]
      OBVIOUS
    <3>2. Put \in Nat /\ n \in Nat /\ Put + n <= Len(st.buf)
      BY <2>3
    <3>. QED BY <2>3, <3>1, <3>2
  <2>. HIDE DEF b
  <2>5. b # << >> /\ at \in Nat
    <3>1. Len(b) # 0 /\ WriteAt + Put \in Nat
      BY <2>2, <2>3, <2>4
    <3>. QED BY <2>4, <3>1, EmptySeq
  <2>6. \A k \in 1..Len(b) : b[k] = Transformed[at + k - Start]
    <3>. SUFFICES ASSUME NEW k \in 1..n PROVE b[k] = Transformed[at + k - Start]
      BY <2>4
    <3>1. Put + k \in 1..Len(st.buf) /\ WriteAt + (Put + k) - Start = at + k - Start
      <4>. DEFINE m == Len(st.buf)
                  p == Put
                  w == WriteAt
      <4>1. m \in Nat /\ p \in Nat /\ n \in Nat /\ p + n <= m /\ w \in Nat /\ Start \in Nat
        BY <1>1, <2>2, <2>3
      <4>. HIDE DEF m, p, w
      <4>2. p + k \in 1..m /\ w + (p + k) - Start = w + p + k - Start
        BY <4>1
      <4>. QED BY <4>2 DEF m, p, w
    <3>. QED BY <2>2, <2>4, <3>1
  <2>. HIDE DEF at
  <2>. DEFINE s == Transformed
              z == Start
              c == OutP!Seen
              e == Done
              o == run.out.data
  <2>7. /\ o \in Seq(Nat) /\ z \in Nat /\ c \in Seq(Nat) /\ PaintedWith(o, s, z, c, e)
        /\ \A k \in 1..Len(b) : b[k] = s[at + k - z]
    BY <1>1, <1>4, <2>6
  <2>. HIDE DEF s, z, c, e, o
  <2>8. PaintedWith(o, s, z, OutP!Overwritten(c, at, b), e \cup ((at + 1)..(at + Len(b))))
    BY <2>4, <2>5, <2>7, PaintsMore
  <2>9. PaintedWith(o, s, z, OutP!Seen', Done')
    BY <2>1, <2>4, <2>8 DEF c, e, at, b
  <2>10. run'.out.data = o /\ Transformed' = s /\ Start' = z
    BY <1>2 DEF o, s, z
  <2>. QED BY <2>9, <2>10 DEF Painted, PaintedWith
<1>. QED BY <1>3, <1>5, <1>6

-----------------------------------------------------------------------------
(* What the programs promise.                                              *)

(* What has been written is where it belongs, and the rest as it was.      *)
PaintedInv == Inv /\ (Fits(run) => Painted)

(* What the theorems rest on.                                              *)
LEMMA InitPaintedInv == Init => PaintedInv
BY InitInv, InitPainted DEF PaintedInv

(* PaintedInv is inductive.                                                *)
LEMMA StepPainted ==
  ASSUME Recovers, PaintedInv, [Next]_vars
  PROVE  PaintedInv'
<1>1. Inv' /\ run' = run /\ (Fits(run) => Effect)
  BY StepInv DEF PaintedInv
<1>2. Fits(run)' <=> Fits(run)
  BY <1>1 DEF Fits
<1>3. ASSUME Fits(run) PROVE Painted'
  <2>1. CallsInv /\ StrideFits /\ PosInv /\ Painted /\ CallsInv' /\ PosInv' /\ Effect
    BY <1>1, <1>2, <1>3 DEF PaintedInv, Inv
  <2>. QED BY <1>1, <1>3, <2>1, PaintedGoes
<1>. QED BY <1>1, <1>2, <1>3 DEF PaintedInv

(* It holds in every behaviour.                                            *)
LEMMA PaintedSound ==
  ASSUME Recovers
  PROVE  Spec => []PaintedInv
<1>1. PaintedInv /\ [Next]_vars => PaintedInv'
  BY StepPainted
<1>. QED BY <1>1, InitPaintedInv, PTL DEF Spec

(* What is to be written is all of it, or its beginning.                   *)
LEMMA WholeSeq ==
  ASSUME NEW s \in Seq(Nat)
  PROVE  Len(s) \in 0..Len(s) /\ SubSeq(s, 1, Len(s)) = s
<1>1. Len(s) \in 0..Len(s)
  OBVIOUS
<1>. DEFINE t == SubSeq(s, 1, Len(s))
<1>2. t \in Seq(Nat) /\ Len(t) = Len(s) /\ \A i \in 1..Len(t) : t[i] = s[i]
  OBVIOUS
<1>. HIDE DEF t
<1>3. t = s
  BY <1>2, SeqEqual
<1>. QED BY <1>1, <1>3 DEF t

(* A program that is done has written everything.                          *)
LEMMA DoneIsAll ==
  ASSUME CallsInv, PosInv, Fits(run), Evenly(run), Stage = "done"
  PROVE  Done = (Start + 1)..(Start + Len(Input)) /\ Len(Input) \in Nat
<1>1. /\ run \in Runs /\ Sits(Stage, Place) /\ Place = "closing" /\ Start \in Nat /\ Total \in Nat
      /\ outF.pos \in Nat /\ st.left \in Int
  BY CallsAre, BeginsAt DEF Sits
<1>2. /\ run.prog.order \in {"next", "down", "shuffled", "stride"}
      /\ run.prog.order = "down" => run.prog \in {reverse61, wreverse61}
      /\ run.prog.order = "shuffled" => run.prog = reordercat61
  BY <1>1, UnitsAre
<1>3. Len(Input) \in Nat
  BY <1>1, InputIs
<1>4. Put = 0 /\ Taken = 0
  BY <1>1 DEF Put, Taken
<1>5. CASE run.prog.order = "next"
  <2>1. WriteAt - Start = Len(Input) /\ WriteAt \in Nat
    BY <1>1, <1>5, NextBound DEF PosInv, NextInv
  <2>2. WriteAt + Put = Start + Len(Input)
    BY <1>1, <1>3, <1>4, <2>1
  <2>. QED BY <1>1, <1>5, <2>2 DEF Done
<1>6. CASE run.prog = reverse61
  <2>1. run.prog.order = "down"
    BY <1>6, OrdersAre
  <2>2. st.left = 0 /\ WriteAt = Start + (Total - st.left - Taken)
    BY <1>1, <1>6, <2>1 DEF PosInv, DownInv, ReverseInv
  <2>3. Len(Input) = Total
    BY <1>1, <1>3, <2>1, InputSize
  <2>4. WriteAt + Put = Start + Len(Input)
    BY <1>1, <1>4, <2>2, <2>3
  <2>. QED BY <1>1, <1>6, <2>4 DEF Done
<1>7. CASE run.prog = wreverse61
  <2>1. run.prog.order = "down" /\ run.prog # reverse61 /\ run.prog \notin PlainlyAt
    BY <1>7, OrdersAre, ProgramsDiffer
  <2>2. st.left = 0
    BY <1>1, <1>7, <2>1 DEF PosInv, DownInv
  <2>3. Len(Input) = Total
    BY <1>1, <1>3, <2>1, InputSize
  <2>4. Start = 0
    BY <1>1, <1>7, <2>1, BeginsAt
  <2>5. Done = (st.left + 1 + Taken - Put)..Total
    BY <1>1, <1>7, <2>1 DEF Done
  <2>6. st.left + 1 + Taken - Put = Start + 1 /\ Total = Start + Len(Input)
    BY <1>1, <1>4, <2>2, <2>3, <2>4
  <2>. QED BY <2>5, <2>6
<1>8. CASE run.prog = reordercat61
  <2>1. /\ run.prog.order = "shuffled" /\ run.prog # reverse61 /\ run.prog # wreverse61
        /\ run.prog \notin PlainlyAt
    BY <1>8, OrdersAre, ProgramsDiffer
  <2>2. st.todo = {}
    BY <1>1, <1>8 DEF PosInv, ShuffledInv
  <2>3. Len(Input) = Total
    BY <1>1, <1>3, <2>1, InputSize
  <2>4. Start = 0
    BY <1>1, <1>8, <2>1, BeginsAt
  <2>5. Undone = {}
    BY <1>1, <2>2 DEF Undone
  <2>6. Done = 1..Total
    BY <1>1, <2>1, <2>5 DEF Done
  <2>. QED BY <1>1, <2>3, <2>4, <2>6
<1>9. CASE run.prog.order = "stride"
  <2>1. Len(Input) = Total /\ Blocked(run) /\ st.written = Total
    BY <1>1, <1>9, InputSize, FirstBlock DEF PosInv, ColumnsInv
  <2>2. /\ run.prog \in {stridecat61, wstridecat61} /\ stridecat61 # wstridecat61
        /\ run.prog # reverse61 /\ run.prog # wreverse61 /\ run.prog \notin PlainlyAt
    BY <1>1, <1>9, UnitsAre, OrdersAre, ProgramsDiffer
  <2>3. Done = Strided(Total)
    <3>1. st.written + Put = Total
      BY <1>1, <1>4, <2>1
    <3>. QED BY <1>1, <1>9, <2>2, <3>1 DEF Done
  <2>4. CASE run.prog = wstridecat61
    <3>1. Start = 0
      BY <1>1, <2>2, <2>4, BeginsAt
    <3>2. ASSUME NEW i \in 1..Total PROVE Rank(run, i - 1, Total) < Total
      <4>1. i - 1 \in 0..(Total - 1)
        BY <1>1
      <4>2. Rank(run, i - 1, Total) \in 0..(Total - 1)
        BY <1>1, <2>1, <4>1, RanksDiffer
      <4>. QED BY <1>1, <4>2
    <3>3. Strided(Total) = 1..Total
      BY <2>2, <2>4, <3>2 DEF Strided
    <3>. QED BY <1>1, <2>1, <2>3, <3>1, <3>3
  <2>. QED BY <1>3, <2>1, <2>2, <2>3, <2>4 DEF Strided
<1>. QED BY <1>2, <1>3, <1>5, <1>6, <1>7, <1>8, <1>9

(* A function on 1..n is a sequence.                                       *)
LEMMA ListSeq ==
  ASSUME NEW n \in Nat, NEW f, \A k \in 1..n : f[k] \in Nat
  PROVE  [k \in 1..n |-> f[k]] \in Seq(Nat) /\ Len([k \in 1..n |-> f[k]]) = n
OBVIOUS

(* And what it has written is a sequence.                                  *)
LEMMA PaintedSeq ==
  ASSUME NEW old, NEW s, NEW z \in Nat, NEW c \in Seq(Nat), NEW n \in Nat,
         PaintedWith(old, s, z, c, (z + 1)..(z + n)), s = [k \in 1..n |-> s[k]]
  PROVE  s \in Seq(Nat) /\ Len(s) = n
<1>1. ASSUME NEW k \in 1..n PROVE s[k] \in Nat
  <2>1. z + k \in (z + 1)..(z + n) /\ (z + k) - z = k
    OBVIOUS
  <2>2. z + k \in 1..Len(c) /\ c[z + k] = s[k]
    BY <2>1 DEF PaintedWith
  <2>. QED BY <2>2
<1>. QED BY <1>1, ListSeq


(* CopiesInput in every behaviour, if no system call fails for good, the   *)
(* size asked for fits the input and, by strides, no block lies across its *)
(* end: a program that ends normally has copied every byte to its place    *)
(* (cat61.cc:4, reverse61.cc:4-5, wreverse61.cc:4-5, reordercat61.cc:5-7,  *)
(* stridecat61.cc:5-9, wstridecat61.cc:4-8), whatever sizes the system     *)
(* calls return and however often they are interrupted.                    *)
THEOREM InputCopied ==
  ASSUME Recovers
  PROVE  Spec => [](Fits(run) /\ Evenly(run) => CopiesInput)
<1>1. PaintedInv => (Fits(run) /\ Evenly(run) => CopiesInput)
  <2>. SUFFICES ASSUME PaintedInv, Fits(run), Evenly(run), Stage = "done"
                PROVE  outOs.data = Written(Transformed)
    BY DEF CopiesInput
  <2>1. CallsInv /\ PosInv /\ Painted /\ run \in Runs
    BY CallsAre DEF PaintedInv, Inv
  <2>. DEFINE o == run.out.data
              s == Transformed
              z == Start
              c == OutP!Seen
              n == Len(Input)
  <2>2. /\ o \in Seq(Nat) /\ z \in Nat /\ c \in Seq(Nat)
    BY <2>1, RunIs, BeginsAt, FilesAre DEF CallsInv, OutGood
  <2>3. PaintedWith(o, s, z, c, (z + 1)..(z + n)) /\ n \in Nat
    BY <2>1, DoneIsAll DEF Painted
  <2>4. c = outOs.data
    BY <2>1 DEF CallsInv, OutCallInv, OutP!Seen
  <2>5. Written(s) = Out!Overwritten(o, z, s)
    BY DEF Written
  <2>6. s \in Seq(Nat) /\ Len(s) = n
    <3>1. CASE run.prog.order # "stride"
      BY <2>1, <3>1, TransformedIs
    <3>2. CASE run.prog.order = "stride"
      <4>1. s = [k \in 1..n |-> s[k]]
        BY <2>1, <3>2, StridedIs, InputSize
      <4>. HIDE DEF o, s, z, c, n
      <4>. QED BY <2>2, <2>3, <4>1, PaintedSeq
    <3>. QED BY <3>1, <3>2
  <2>. HIDE DEF o, s, z, c, n
  <2>7. Len(s) \in 0..Len(s) /\ SubSeq(s, 1, Len(s)) = s
    BY <2>6, WholeSeq
  <2>8. c = Out!Overwritten(o, z, SubSeq(s, 1, Len(s)))
    BY <2>2, <2>3, <2>6, <2>7, PaintedIs
  <2>. QED BY <2>4, <2>5, <2>7, <2>8 DEF s
<1>. QED BY <1>1, PaintedSound, PTL

(* FlushedInStep in every behaviour, if no system call fails for good: with *)
(* -F, what a program that copies from the beginning has read is in the    *)
(* file before it reads on (helpers.cc:300-308).                           *)
THEOREM FlushedOnTime ==
  ASSUME Recovers
  PROVE  Spec => []FlushedInStep
<1>1. PaintedInv => FlushedInStep
  <2>. SUFFICES ASSUME PaintedInv, run.flush, run.prog.order = "next", Stage = "top"
                PROVE  outOs.data = Written(SubSeq(Input, 1, outF.pos - Start))
    BY DEF FlushedInStep
  <2>1. CallsInv /\ PosInv /\ Painted /\ run \in Runs
    BY CallsAre DEF PaintedInv, Inv, Fits
  <2>2. Place = "top" /\ Put = 0 /\ WriteAt = outF.pos /\ outF.pos \in Nat
    BY <2>1, CallsAre DEF Sits, Put, WriteAt
  <2>. DEFINE o == run.out.data
              s == Transformed
              z == Start
              c == OutP!Seen
              n == outF.pos - Start
  <2>3. /\ o \in Seq(Nat) /\ s \in Seq(Nat) /\ z \in Nat /\ c \in Seq(Nat)
        /\ s = Input
    BY <2>1, RunIs, TransformedIs, BeginsAt, FilesAre DEF CallsInv, OutGood
  <2>4. n \in 0..Len(s) /\ z + n = WriteAt + Put
    <3>1. WriteAt - Start \in 0..Len(Input)
      BY <2>1, <2>2, NextBound DEF PosInv
    <3>. QED BY <2>2, <2>3, <3>1
  <2>5. PaintedWith(o, s, z, c, (z + 1)..(z + n))
    <3>1. Done = (Start + 1)..(WriteAt + Put)
      BY <2>2 DEF Done
    <3>2. PaintedWith(o, s, z, c, Done)
      BY <2>1 DEF Painted, Evenly
    <3>. HIDE DEF o, s, z, c, n
    <3>3. Done = (z + 1)..(z + n)
      BY <2>4, <3>1 DEF z
    <3>. QED BY <3>2, <3>3
  <2>6. c = outOs.data
    BY <2>1, <2>2 DEF CallsInv, FlushInv, OutP!Seen
  <2>7. Written(SubSeq(s, 1, n)) = Out!Overwritten(o, z, SubSeq(s, 1, n))
    BY DEF Written
  <2>8. s = Input
    BY <2>3
  <2>. HIDE DEF o, s, z, c
  <2>9. c = Out!Overwritten(o, z, SubSeq(s, 1, n))
    <3>. HIDE DEF n
    <3>. QED BY <2>3, <2>4, <2>5, PaintedIs
  <2>. QED BY <2>6, <2>7, <2>8, <2>9
<1>. QED BY <1>1, PaintedSound, PTL

(* A program that starts to write at -p can seek in its output.            *)
Seekable(r) == "seekout" \in Range(r.prog.setup) => r.out.seekable

(* What changes the state of a program does not end it.                    *)
LEMMA ExitsStay ==
  /\ \A s \in StType : Onward(s).exit = s.exit /\ Leave(s).exit = s.exit
  /\ st \in StType => Retry.exit = st.exit
  /\ \A s \in StType : Stride(s).exit = s.exit
<1>1. \A s \in StType : Onward(s).exit = s.exit /\ Leave(s).exit = s.exit
  BY DEF Onward, Leave, StType
<1>2. st \in StType => Retry.exit = st.exit
  BY DEF Retry, StType
<1>3. ASSUME NEW s \in StType PROVE Stride(s).exit = s.exit
  <2>. DEFINE p == s.pos + run.stride
              q == (p % run.stride) + s.block
              b == Min({s.block, run.stride - q})
  <2>1. Stride(s) = IF p < s.left THEN [s EXCEPT !.pos = p] ELSE [s EXCEPT !.pos = q, !.block = b]
    BY DEF Stride, StType
  <2>. HIDE DEF p, q, b
  <2>. QED BY <2>1 DEF StType
<1>. QED BY <1>1, <1>2, <1>3

(* A written block does not end the program.                               *)
LEMMA WroteStays ==
  ASSUME CallsInv, StrideFits, outRet = Len(st.buf)
  PROVE  Wrote(st) \in StType /\ Wrote(st).exit = st.exit
<1>1. st \in StType /\ run \in Runs /\ Len(st.buf) \in Nat /\ st.written \in Nat
  BY CallsAre DEF StType
<1>2. Wrote(st) \in StType
  BY WroteIs
<1>3. CASE run.prog.order = "stride"
  <2>. DEFINE n == st.written + Len(st.buf)
              s == [st EXCEPT !.written = n]
  <2>1. n \in Nat /\ Wrote(st) = Stride(s)
    BY <1>1, <1>3 DEF Wrote
  <2>. HIDE DEF n
  <2>2. s \in StType /\ s.exit = st.exit
    BY <1>1, <2>1 DEF StType
  <2>. HIDE DEF s
  <2>. QED BY <1>2, <2>1, <2>2, ExitsStay
<1>4. CASE run.prog.order = "next"
  <2>. DEFINE n == IF run.prog.unit = "char" THEN st.left - 1 ELSE st.left
  <2>1. Wrote(st) = [st EXCEPT !.left = n]
    BY <1>1, <1>4 DEF Wrote, StType
  <2>. HIDE DEF n
  <2>. QED BY <1>1, <1>2, <2>1 DEF StType
<1>5. CASE run.prog.order \in {"down", "shuffled"}
  BY <1>1, <1>2, <1>5 DEF Wrote
<1>. QED BY <1>1, <1>3, <1>4, <1>5, UnitsAre

(* The programs that read from the end find the byte they ask for.         *)
LEMMA FindsByte ==
  ASSUME CallsInv, PosInv, Fits(run), run.prog.order = "down", Stage = "read"
  PROVE  Origin < Len(run.in.data)
<1>1. /\ run \in Runs /\ Place = "fetching" /\ st.left \in Int /\ Total \in Nat
      /\ Len(run.in.data) \in Nat /\ Total <= Len(run.in.data)
  BY CallsAre, BeginsAt, RunIs, InputSize DEF Sits
<1>2. st.pos = st.left /\ st.left < Total /\ st.left \in Nat /\ Taken = 1
  BY <1>1 DEF PosInv, DownInv, Taken
<1>3. Origin = st.pos \/ Origin = Total - st.left - Taken
  BY <1>1, DownIs DEF PosInv, ReverseInv, WreverseInv
<1>. QED BY <1>1, <1>2, <1>3

(* No step ends a program at an assert.                                    *)
LEMMA NoAssert ==
  ASSUME CallsInv, StrideFits, PosInv, Fits(run), Seekable(run), st.exit # "assert", [Next]_vars
  PROVE  st'.exit # "assert"
<1>1. /\ run \in Runs /\ st \in StType /\ Sits(Stage, Place)
      /\ inCall.got \in Seq(Nat) /\ Len(inCall.got) \in Nat /\ inF.pos \in Nat
      /\ Len(st.buf) \in Nat /\ Len(run.in.data) \in Nat
  BY CallsAre, RunIs
<1>2. /\ \A how : Exit(st, how).exit = how
      /\ Onward(st).exit = st.exit /\ Leave(st).exit = st.exit /\ Retry.exit = st.exit
  BY <1>1, ExitsStay DEF Exit, StType
<1>3. CASE Size \/ Blocks \/ ClearErrno \/ NoFlush
  <2>1. CASE Size
    <3>. DEFINE n == Len(run.in.data)
                s == [st EXCEPT !.left = n]
    <3>1. s \in StType /\ s.exit = st.exit
      <4>1. n \in Int
        BY <1>1
      <4>. HIDE DEF n
      <4>. QED BY <1>1, <4>1 DEF StType
    <3>2. st' \in {Onward(st), Exit(st, "failed"), Onward(s)}
      BY <2>1 DEF Size
    <3>. HIDE DEF s
    <3>. QED BY <1>2, <3>1, <3>2, ExitsStay
  <2>2. CASE Blocks
    <3>. DEFINE t == 0..(st.left \div st.block - 1)
                s == [st EXCEPT !.todo = t]
    <3>1. st' = Exit(st, "failed") \/ st' = Onward(s)
      BY <2>2 DEF Blocks
    <3>2. t \subseteq Nat
      OBVIOUS
    <3>. HIDE DEF t
    <3>3. s \in StType /\ s.exit = st.exit
      BY <1>1, <3>2 DEF StType
    <3>. HIDE DEF s
    <3>. QED BY <1>2, <3>1, <3>3, ExitsStay
  <2>. QED BY <1>2, <1>3, <2>1, <2>2 DEF ClearErrno, NoFlush
<1>4. CASE Looping
  <2>1. st' = Leave(st) \/ \E s : st' = Onward(s) /\ Onward(s).exit = st.exit
    <3>1. CASE run.prog.order = "down" /\ st.left # 0
      <4>. DEFINE s == [st EXCEPT !.left = @ - 1, !.pos = st.left - 1]
      <4>1. st' = Onward(s)
        BY <1>4, <3>1 DEF Looping
      <4>2. Onward(s).exit = st.exit
        BY <1>1 DEF Onward, StType
      <4>. QED BY <4>1, <4>2
    <3>2. CASE run.prog.order = "shuffled" /\ st.todo # {}
      <4>1. PICK b \in st.todo : st' = Onward([st EXCEPT !.todo = @ \ {b}, !.pos = b * st.block])
        BY <1>4, <3>2 DEF Looping
      <4>. DEFINE s == [st EXCEPT !.todo = @ \ {b}, !.pos = b * st.block]
      <4>2. Onward(s).exit = st.exit
        BY <1>1 DEF Onward, StType
      <4>. QED BY <4>1, <4>2
    <3>3. CASE ~(run.prog.order = "down" /\ st.left # 0) /\ ~(run.prog.order = "shuffled" /\ st.todo # {})
      <4>1. st' = Leave(st) \/ st' = Onward(st)
        BY <1>4, <3>3 DEF Looping
      <4>. QED BY <1>2, <4>1
    <3>. QED BY <3>1, <3>2, <3>3
  <2>. QED BY <1>2, <2>1
<1>5. CASE SendIn \/ SendOut
  BY <1>1, <1>5 DEF SendIn, SendOut, Sent, StType
<1>6. CASE InReturns
  <2>1. st.sent /\ inCall.op \in {"idle", "closed"}
    BY <1>6 DEF InReturns
  <2>2. CASE Stage = "zeroin"
    BY <1>2, <1>6, <2>2 DEF InReturns
  <2>3. CASE Stage = "seekin"
    <3>1. inRet = 0
      BY <2>1, <2>3 DEF CallsInv, InCallInv
    <3>. QED BY <1>2, <1>6, <2>3, <3>1 DEF InReturns
  <2>4. CASE Stage = "read"
    <3>1. run.prog.order = "down" => inRet > 0
      <4>. SUFFICES ASSUME run.prog.order = "down" PROVE inRet > 0
        OBVIOUS
      <4>1. /\ IF inCall.got = << >> THEN inRet \in {-1, 0} ELSE inRet = Len(inCall.got)
            /\ Len(inCall.got) = inCall.want \/ inF.pos >= Len(run.in.data)
            /\ inCall.want = 1
        BY <2>1, <2>4, DownIs DEF CallsInv, InCallInv
      <4>2. Origin = inF.pos - Len(inCall.got) /\ Origin < Len(run.in.data)
        BY <2>1, <2>4, FindsByte DEF Origin, Held
      <4>3. Len(inCall.got) # 0
        <5>. DEFINE n == Len(inCall.got)
                    m == Len(run.in.data)
        <5>1. n \in Nat /\ m \in Nat /\ (n = 1 \/ inF.pos >= m) /\ inF.pos - n < m
          BY <1>1, <4>1, <4>2
        <5>. HIDE DEF n, m
        <5>2. n # 0
          BY <1>1, <5>1
        <5>. QED BY <5>2 DEF n
      <4>4. inCall.got # << >>
        BY <4>3
      <4>. QED BY <1>1, <4>1, <4>3, <4>4
    <3>2. st' \in {Retry, Leave(st), Onward([st EXCEPT !.buf = inCall.got])}
      BY <1>6, <2>4, <3>1 DEF InReturns
    <3>3. Onward([st EXCEPT !.buf = inCall.got]).exit = st.exit
      BY <1>1 DEF Onward, StType
    <3>. QED BY <1>2, <3>2, <3>3
  <2>5. CASE Stage = "closein"
    BY <1>2, <1>6, <2>5 DEF InReturns
  <2>. QED BY <1>6, <2>2, <2>3, <2>4, <2>5 DEF InReturns
<1>7. CASE OutReturns
  <2>1. st.sent /\ outCall.op \in {"idle", "closed"}
    BY <1>7 DEF OutReturns
  <2>2. CASE Stage = "zeroout"
    BY <1>2, <1>7, <2>2 DEF OutReturns
  <2>3. CASE Stage = "seekout"
    <3>1. run.out.seekable
      <4>1. CASE run.prog \in PlainlyAt
        <5>1. "seekout" \in Range(run.prog.setup)
          BY <4>1, SetupIs
        <5>. QED BY <5>1 DEF Seekable
      <4>2. CASE run.prog \notin PlainlyAt
        <5>1. run.prog \in {wreverse61, reordercat61, wstridecat61}
          <6>1. run.prog.order # "next" /\ run.prog \notin Backwards
            BY <1>1, <2>3, <4>2 DEF Sits
          <6>. QED BY <1>1, <6>1, UnitsAre DEF Backwards
        <5>2. Stage \notin Unsought
          BY <2>3, <5>1 DEF Unsought
        <5>. QED BY <5>2 DEF CallsInv, OutSought
      <4>. QED BY <4>1, <4>2
    <3>2. outRet = 0
      BY <2>1, <2>3, <3>1 DEF CallsInv, OutCallInv
    <3>. QED BY <1>2, <1>7, <2>3, <3>2 DEF OutReturns
  <2>4. CASE Stage = "flush"
    <3>1. outRet = 0
      BY <2>1, <2>4 DEF CallsInv, OutCallInv
    <3>. QED BY <1>2, <1>7, <2>4, <3>1 DEF OutReturns
  <2>5. CASE Stage = "write"
    <3>1. outRet = Len(st.buf)
      BY <2>1, <2>5 DEF CallsInv, OutCallInv
    <3>2. Wrote(st) \in StType /\ Wrote(st).exit = st.exit
      BY <3>1, WroteStays
    <3>3. st' = WriteReturned
      BY <1>7, <2>5 DEF OutReturns
    <3>4. st' = Retry \/ st' = Onward(Wrote(st))
      BY <3>1, <3>3 DEF WriteReturned
    <3>. QED BY <1>2, <3>2, <3>4, ExitsStay
  <2>6. CASE Stage = "closeout"
    BY <1>2, <1>7, <2>6 DEF OutReturns
  <2>. QED BY <1>7, <2>2, <2>3, <2>4, <2>5, <2>6 DEF OutReturns
<1>8. CASE st' = st
  BY <1>8
<1>. QED BY <1>3, <1>4, <1>5, <1>6, <1>7, <1>8 DEF Next, Step, Fault, vars

(* NoAssertFails in every behaviour of every program, if no system call    *)
(* fails for good, the size asked for fits the input, and one that starts  *)
(* at -p can seek in its output: no assert of a program fails, and io61    *)
(* copies from nowhere but the cache and the mapping (reverse61.cc:34,     *)
(* io61.cc:54-56, 205).                                                    *)
THEOREM AssertsHold ==
  ASSUME Recovers
  PROVE  Spec => [](Fits(run) /\ Seekable(run) => NoAssertFails)
<1>. DEFINE Lasts == Fits(run) /\ Seekable(run) => st.exit # "assert"
<1>1. Init => Inv /\ Lasts
  BY InitInv DEF Init
<1>2. ASSUME Inv, Lasts, [Next]_vars PROVE Inv' /\ Lasts'
  <2>1. Inv' /\ run' = run
    BY <1>2, StepInv
  <2>2. Fits(run)' <=> Fits(run)
    BY <2>1 DEF Fits
  <2>3. Seekable(run)' <=> Seekable(run)
    BY <2>1 DEF Seekable
  <2>4. ASSUME Fits(run), Seekable(run) PROVE st'.exit # "assert"
    BY <1>2, <2>4, NoAssert DEF Inv
  <2>. QED BY <2>1, <2>2, <2>3, <2>4
<1>3. Inv /\ Lasts => (Fits(run) /\ Seekable(run) => NoAssertFails)
  BY FilesAre DEF Inv, CallsInv, InGood, OutGood, NoAssertFails
<1>. HIDE DEF Lasts
<1>4. Inv /\ Lasts /\ [Next]_vars => (Inv /\ Lasts)'
  BY <1>2
<1>. QED BY <1>1, <1>3, <1>4, PTL DEF Spec

=============================================================================
