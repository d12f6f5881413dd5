----------------------------- MODULE ShellProofs -----------------------------
(***************************************************************************)
(* Proofs about Shell, for all lines that the user may type, any number of *)
(* control-Cs, and every order in which shells and programs go on:         *)
(* ForegroundReturns and NoEndsLeft.  Both follow from one invariant,      *)
(* ShellInv, whose parts say where each shell may be, what it and others   *)
(* have run, and what it knows of its last command.  On top of it,         *)
(* ChainInv says how far each chain has been followed; it gives            *)
(* ChainsFollowed for lines of programs.                                   *)
(***************************************************************************)
EXTENDS Shell, SequenceTheorems, TLAPS

(* The lines that may be typed.                                            *)
Typable == UNION {Lines[n] : n \in DOMAIN Lines}

(* The lists that they give.                                               *)
Parsed == {ParseLine(t) : t \in Typable}

(* Commands are told apart by line, conditional, pipeline and place.       *)
Ids == Nat \X Nat \X Nat \X Nat
Ends == Ids \X {"r", "w"}

(* The types of the records that shells and commands are.                  *)
Pcs == {"prompt", "top", "fork", "start", "run", "ran", "next", "wait", "eintr", "cond",
        "reap"}
ShellType ==
  [pc : Pcs, n : Nat, c : Nat, p : Nat, k : Nat, run : BOOLEAN, ok : BOOLEAN,
   pgid : Ids \cup {None}, pid : Ids \cup {None}, int : BOOLEAN, ends : SUBSET Ends,
   errno : BOOLEAN, sub : BOOLEAN, by : (Nat \X Nat) \cup {None}]
ProcType ==
  [up : {"running", "zombie", "gone"}, kind : {"any", "source", "filter"}, ok : BOOLEAN,
   group : Ids \cup {Home}, by : Nat \X Nat, ends : SUBSET Ends]

(* Each line that was typed has its list.                                  *)
TypedInv == typed \in Seq(Typable) /\ lists \in Seq(Parsed) /\ Len(lists) = Len(typed)
ShTyped == DOMAIN sh \subseteq Nat \X Nat /\ sh \in [DOMAIN sh -> ShellType]
ProcsTyped == DOMAIN procs \subseteq Ids /\ procs \in [DOMAIN procs -> ProcType]

(* All types.                                                              *)
TypesInv == TypedInv /\ ShTyped /\ ProcsTyped /\ fg \in Ids \cup {Home} /\ cut \in BOOLEAN

(* A shell within run_list, and one that has read the line it runs.        *)
Active(s) == s.pc \notin {"prompt", "reap"}
Reader(s) == ~s.sub /\ Active(s)

(* A subshell runs the one background conditional that it was forked for,  *)
(* any other shell none; a line is read after the one a shell came from.   *)
PlaceOf(i, s) ==
  /\ s.n \in 0..Len(lists) /\ (Active(s) => s.n > 0)
  /\ i # Main => i[1] \in 1..Len(lists)
  /\ IF s.sub
     THEN Active(s) /\ i = <<s.n, s.c>> /\ Background(s)
     ELSE /\ i # Main /\ Active(s) => i[1] < s.n
          /\ Active(s) /\ s.pc \notin {"top", "fork"} => ~Background(s)

(* Who has read a line has passed the conditionals that were left to       *)
(* subshells,                                                              *)
Ahead(s) == \A i \in DOMAIN sh \ {Main} : i[1] = s.n => i[2] < s.c

(* no two have read the same,                                              *)
Apart == \A i, j \in DOMAIN sh : i # j /\ Reader(sh[i]) /\ Reader(sh[j]) => sh[i].n # sh[j].n

(* and every shell is where it may be.                                     *)
PlacesInv ==
  /\ Main \in DOMAIN sh /\ Apart
  /\ \A i \in DOMAIN sh : PlaceOf(i, sh[i]) /\ (Reader(sh[i]) => Ahead(sh[i]))

(* The command that the shell is at has been dealt with.                   *)
Behind(s) == s.pc \in {"ran", "next", "wait", "eintr", "cond"}

(* Command x comes before the one that shell s is to run next.             *)
Before(x, s) ==
  \/ x[2] < s.c
  \/ x[2] = s.c /\ x[3] < s.p
  \/ x[2] = s.c /\ x[3] = s.p /\ x[4] < s.k
  \/ x[2] = s.c /\ x[3] = s.p /\ x[4] = s.k /\ Behind(s)

(* Every command belongs to a line; those of background conditionals were  *)
(* run by the subshells named for them,                                    *)
Backgrounded(x) == lists[x[1]][x[2]].bg
OwnerInv ==
  \A x \in DOMAIN procs :
    x[1] \in 1..Len(lists) /\ (Backgrounded(x) => procs[x].by = <<x[1], x[2]>>)

(* and belong to conditionals that the line's reader has passed; the       *)
(* others were run by that reader,                                         *)
Passed(i, s) ==
  \A x \in DOMAIN procs :
    x[1] = s.n => IF Backgrounded(x) THEN x[2] < s.c ELSE procs[x].by = i

(* and what a shell has run comes before what it is at.                    *)
RanBefore(i, s) ==
  Active(s) => \A x \in DOMAIN procs : procs[x].by = i /\ x[1] = s.n => Before(x, s)

(* The history of commands run,                                            *)
HistoryInv ==
  OwnerInv /\ \A i \in DOMAIN sh : RanBefore(i, sh[i]) /\ (Reader(sh[i]) => Passed(i, sh[i]))

(* What a shell knows of the command it started last: the command is its   *)
(* own child, which nobody else waits for, and in the pipeline's group     *)
(* unless that group has ended before it could join.                       *)
JobOf(i, s) ==
  /\ s.pgid # None => s.pgid \in DOMAIN procs
  /\ s.pc \in {"wait", "eintr"} => s.pid # None
  /\ s.pid # None =>
       /\ Behind(s) /\ s.pid = Id(s) /\ s.pid \in DOMAIN procs /\ procs[s.pid].by = i
       /\ s.pgid # None
       /\ s.pc # "cond" =>
            /\ procs[s.pid].up # "gone"
            /\ procs[s.pid].group = s.pgid \/ ~Exists(s.pgid)

(* So does every shell know its own.                                       *)
JobsInv == \A i \in DOMAIN sh : JobOf(i, sh[i])

(* The read ends that a shell keeps are those of the pipeline it is at,    *)
(* and closed once that has been started, unless an interrupt has cut one  *)
(* in two.                                                                 *)
EndsOf(s, c) ==
  ~c => /\ \A e \in s.ends : SubSeq(e[1], 1, 3) = <<s.n, s.c, s.p>>
        /\ s.pc \in {"wait", "eintr", "cond", "reap", "prompt"} => s.ends = {}
        /\ ~s.sub /\ s.pc \in {"top", "fork"} /\ Background(s) => s.ends = {}
EndsInv == \A i \in DOMAIN sh : EndsOf(sh[i], cut)

(* The terminal is given away only to the group of a pipeline waited for,  *)
(* and the command that is waited for is in it.                            *)
Lent(s, g) == ~s.sub /\ s.pc \in {"wait", "eintr"} /\ s.pgid = g /\ procs[s.pid].group = g
TerminalInv == fg # Home => \E i \in DOMAIN sh : Lent(sh[i], fg)

(* The inductive invariant.                                                *)
ShellInv == TypesInv /\ PlacesInv /\ HistoryInv /\ JobsInv /\ EndsInv /\ TerminalInv

(* A step of the commands: they keep parent and group, and what is gone    *)
(* stays so.                                                               *)
Aged ==
  /\ DOMAIN procs' = DOMAIN procs /\ ProcsTyped'
  /\ \A x \in DOMAIN procs :
       /\ procs'[x].by = procs[x].by /\ procs'[x].group = procs[x].group
       /\ procs[x].up = "gone" => procs'[x].up = "gone" /\ procs'[x].ok = procs[x].ok

(* No child of shell i is waited for.                                      *)
Untouched(i) ==
  \A x \in DOMAIN procs : procs[x].by = i /\ procs[x].up # "gone" => procs'[x].up # "gone"

(* A group that is left stays so. *)
LEMMA GroupsEnd ==
  ASSUME Aged, NEW g, Exists(g)'
  PROVE  Exists(g)
BY DEF Aged, Exists

(* What a shell knows of its command outlives a step of others.            *)
LEMMA JobKept ==
  ASSUME Aged, NEW i, NEW s, JobOf(i, s), Untouched(i)
  PROVE  JobOf(i, s)'
<1>1. ~Exists(s.pgid) => ~Exists(s.pgid)'
  BY GroupsEnd
<1>2. Id(s)' = Id(s) /\ Behind(s)' = Behind(s)
  BY DEF Id, Behind
<1>3. s.pid # None /\ s.pid \in DOMAIN procs /\ procs[s.pid].by = i =>
        s.pid \in DOMAIN procs' /\ procs'[s.pid].by = i
        /\ procs'[s.pid].group = procs[s.pid].group
        /\ (procs[s.pid].up # "gone" => procs'[s.pid].up # "gone")
  BY DEF Aged, Untouched
<1>. QED BY <1>1, <1>2, <1>3 DEF JobOf, Aged

(* So does what is known of the terminal.                                  *)
LEMMA LentKept ==
  ASSUME Aged, NEW i, NEW s, JobOf(i, s), NEW g, Lent(s, g)
  PROVE  Lent(s, g)'
<1>1. s.pid \in DOMAIN procs
  BY DEF JobOf, Lent
<1>. QED BY <1>1 DEF Aged, Lent

(* The terminal stays lent if it is not shell i that waits for it.         *)
LEMMA TerminalStays ==
  ASSUME JobsInv, TerminalInv, Aged, UNCHANGED fg, NEW i, ~Lent(sh[i], fg),
         DOMAIN sh \ {i} \subseteq DOMAIN sh', \A j \in DOMAIN sh \ {i} : sh'[j] = sh[j]
  PROVE  TerminalInv'
<1>1. SUFFICES ASSUME fg # Home PROVE \E j \in DOMAIN sh' : Lent(sh[j], fg)'
  BY DEF TerminalInv
<1>2. PICK j \in DOMAIN sh : Lent(sh[j], fg)
  BY <1>1 DEF TerminalInv
<1>3. j # i /\ sh'[j] = sh[j] /\ j \in DOMAIN sh'
  BY <1>2
<1>4. PICK r : r = sh[j]
  OBVIOUS
<1>5. PICK g : g = fg
  OBVIOUS
<1>6. JobOf(j, r) /\ Lent(r, g)
  BY <1>2, <1>4, <1>5 DEF JobsInv
<1>7. Lent(r, g)'
  BY <1>6, LentKept
<1>. QED BY <1>3, <1>4, <1>5, <1>7

(* Shell i goes on, from s to t.                                           *)
Moves(i, s, t) ==
  /\ i \in DOMAIN sh /\ s = sh[i] /\ sh' = [sh EXCEPT ![i] = t]
  /\ UNCHANGED <<typed, lists>> /\ t \in ShellType
  /\ Active(t) => Active(s) /\ t.n = s.n /\ t.c >= s.c /\ t.sub = s.sub

(* A move keeps the types,                                                 *)
LEMMA MoveTypes ==
  ASSUME TypesInv, NEW i, NEW s, NEW t, Moves(i, s, t), Aged
  PROVE  TypedInv' /\ ShTyped' /\ ProcsTyped' /\ DOMAIN sh' = DOMAIN sh /\ s \in ShellType
         /\ sh'[i] = t /\ \A j \in DOMAIN sh \ {i} : sh'[j] = sh[j]
<1>1. sh \in [DOMAIN sh -> ShellType] /\ DOMAIN sh \subseteq Nat \X Nat
  BY DEF TypesInv, ShTyped
<1>2. sh' = [sh EXCEPT ![i] = t] /\ t \in ShellType /\ i \in DOMAIN sh /\ s = sh[i]
  BY DEF Moves
<1>3. DOMAIN sh' = DOMAIN sh /\ sh' \in [DOMAIN sh' -> ShellType] /\ s \in ShellType
      /\ sh'[i] = t /\ \A j \in DOMAIN sh \ {i} : sh'[j] = sh[j]
  BY <1>1, <1>2
<1>4. TypedInv'
  BY DEF TypesInv, TypedInv, Moves
<1>5. ProcsTyped'
  BY DEF Aged
<1>. QED BY <1>1, <1>3, <1>4, <1>5 DEF ShTyped

(* the places,                                                             *)
LEMMA MovePlaces ==
  ASSUME TypesInv, PlacesInv, NEW i, NEW s, NEW t, Moves(i, s, t), Aged, PlaceOf(i, t)
  PROVE  PlacesInv'
<1>1. DOMAIN sh' = DOMAIN sh /\ s \in ShellType /\ sh'[i] = t
      /\ (\A j \in DOMAIN sh \ {i} : sh'[j] = sh[j])
  BY MoveTypes
<1>2. lists' = lists /\ t \in ShellType /\ i \in DOMAIN sh /\ s = sh[i]
  BY DEF Moves
<1>3. \A j, r : PlaceOf(j, r)' = PlaceOf(j, r)
  BY <1>2 DEF PlaceOf, Active, Background
<1>4. \A j \in DOMAIN sh' : PlaceOf(j, sh[j])'
  BY <1>1, <1>2, <1>3 DEF PlacesInv
<1>5. Reader(t) => Reader(s) /\ t.n = s.n /\ t.c >= s.c
  BY DEF Moves, Reader
<1>6. ASSUME NEW j \in DOMAIN sh', Reader(sh'[j]) PROVE Ahead(sh[j])'
  <2>1. Reader(sh[j]) /\ sh'[j].n = sh[j].n
    BY <1>1, <1>2, <1>5, <1>6
  <2>2. Ahead(sh[j])
    BY <1>1, <1>6, <2>1 DEF PlacesInv
  <2>3. CASE j # i
    BY <1>1, <1>6, <2>2, <2>3 DEF Ahead
  <2>4. CASE j = i
    <3>1. SUFFICES ASSUME NEW m \in DOMAIN sh \ {Main}, m[1] = t.n PROVE m[2] < t.c
      BY <1>1, <2>4 DEF Ahead
    <3>2. t.n = s.n /\ t.c >= s.c /\ m[2] < s.c
      BY <1>1, <1>2, <1>5, <1>6, <2>2, <2>4, <3>1 DEF Ahead
    <3>3. m \in Nat \X Nat /\ s.c \in Nat /\ t.c \in Nat
      BY <1>1, <1>2 DEF TypesInv, ShTyped, ShellType
    <3>. QED BY <3>2, <3>3
  <2>. QED BY <2>3, <2>4
<1>7. Apart'
  <2>1. SUFFICES ASSUME NEW j \in DOMAIN sh, NEW m \in DOMAIN sh, j # m,
                        Reader(sh'[j]), Reader(sh'[m])
                 PROVE  sh'[j].n # sh'[m].n
    BY <1>1 DEF Apart, Reader, Active
  <2>2. /\ Reader(sh[j]) /\ sh'[j].n = sh[j].n
        /\ Reader(sh[m]) /\ sh'[m].n = sh[m].n
    BY <1>1, <1>2, <1>5, <2>1
  <2>. QED BY <2>1, <2>2 DEF PlacesInv, Apart
<1>8. Main \in DOMAIN sh'
  BY <1>1 DEF PlacesInv
<1>9. \A j \in DOMAIN sh' : Reader(sh[j])' <=> Reader(sh'[j])
  BY DEF Reader, Active
<1>. QED BY <1>4, <1>6, <1>7, <1>8, <1>9 DEF PlacesInv

(* the history,                                                            *)
LEMMA MoveHistory ==
  ASSUME TypesInv, PlacesInv, HistoryInv, NEW i, NEW s, NEW t, Moves(i, s, t), Aged,
         RanBefore(i, t)
  PROVE  HistoryInv'
<1>1. DOMAIN sh' = DOMAIN sh /\ s \in ShellType /\ sh'[i] = t
      /\ (\A j \in DOMAIN sh \ {i} : sh'[j] = sh[j])
  BY MoveTypes
<1>2. lists' = lists /\ t \in ShellType /\ i \in DOMAIN sh /\ s = sh[i]
  BY DEF Moves
<1>3. /\ DOMAIN procs' = DOMAIN procs
      /\ \A x \in DOMAIN procs : procs'[x].by = procs[x].by
  BY DEF Aged
<1>4. OwnerInv'
  BY <1>2, <1>3 DEF HistoryInv, OwnerInv, Backgrounded
<1>5. \A j, m : RanBefore(j, m)' = RanBefore(j, m)
  BY <1>3 DEF RanBefore, Active, Before, Behind
<1>6. \A j \in DOMAIN sh' : RanBefore(j, sh[j])'
  BY <1>1, <1>2, <1>5 DEF HistoryInv
<1>7. Reader(t) => Reader(s) /\ t.n = s.n /\ t.c >= s.c
  BY DEF Moves, Reader
<1>8. ASSUME NEW j \in DOMAIN sh, Reader(sh'[j]) PROVE Passed(j, sh[j])'
  <2>1. Reader(sh[j]) /\ Passed(j, sh[j])
    BY <1>1, <1>2, <1>7, <1>8 DEF HistoryInv
  <2>2. CASE j # i
    BY <1>1, <1>2, <1>3, <2>1, <2>2 DEF Passed, Backgrounded
  <2>3. CASE j = i
    <3>1. SUFFICES ASSUME NEW x \in DOMAIN procs, x[1] = t.n
                   PROVE  IF Backgrounded(x) THEN x[2] < t.c ELSE procs[x].by = i
      BY <1>1, <1>2, <1>3, <2>3 DEF Passed, Backgrounded
    <3>2. t.n = s.n /\ t.c >= s.c /\ Passed(i, s)
      BY <1>1, <1>2, <1>7, <1>8, <2>1, <2>3
    <3>3. x \in Ids /\ s.c \in Nat /\ t.c \in Nat
      BY <1>1, <1>2 DEF TypesInv, ProcsTyped, ShellType
    <3>4. Backgrounded(x) => x[2] < s.c
      BY <3>1, <3>2 DEF Passed
    <3>5. ~Backgrounded(x) => procs[x].by = i
      BY <3>1, <3>2 DEF Passed
    <3>. QED BY <3>2, <3>3, <3>4, <3>5 DEF Ids
  <2>. QED BY <2>2, <2>3
<1>9. \A j \in DOMAIN sh' : Reader(sh[j])' <=> Reader(sh'[j])
  BY DEF Reader, Active
<1>. QED BY <1>1, <1>4, <1>6, <1>8, <1>9 DEF HistoryInv

(* and what other shells know of their commands.                           *)
LEMMA MoveJobs ==
  ASSUME TypesInv, JobsInv, NEW i, NEW s, NEW t, Moves(i, s, t), Aged, JobOf(i, t)',
         \A j \in DOMAIN sh \ {i} : Untouched(j)
  PROVE  JobsInv'
<1>1. DOMAIN sh' = DOMAIN sh /\ sh'[i] = t /\ (\A j \in DOMAIN sh \ {i} : sh'[j] = sh[j])
  BY MoveTypes
<1>2. SUFFICES ASSUME NEW j \in DOMAIN sh, j # i PROVE JobOf(j, sh[j])'
  <2>1. JobOf(i, sh[i])'
    BY <1>1
  <2>. QED BY <1>1, <2>1 DEF JobsInv
<1>3. PICK r : r = sh[j]
  OBVIOUS
<1>4. JobOf(j, r) /\ sh'[j] = r
  BY <1>1, <1>2, <1>3 DEF JobsInv
<1>5. JobOf(j, r)'
  BY <1>2, <1>4, JobKept
<1>. QED BY <1>4, <1>5

(* What the invariant says of one shell.                                   *)
LEMMA Sits ==
  ASSUME ShellInv, NEW i \in DOMAIN sh, NEW s, s = sh[i]
  PROVE  s \in ShellType /\ PlaceOf(i, s) /\ RanBefore(i, s) /\ JobOf(i, s)
         /\ EndsOf(s, cut)
<1>1. s \in ShellType
  BY DEF ShellInv, TypesInv, ShTyped
<1>2. PlaceOf(i, s) /\ RanBefore(i, s) /\ JobOf(i, s) /\ EndsOf(s, cut)
  BY DEF ShellInv, PlacesInv, HistoryInv, JobsInv, EndsInv
<1>. QED BY <1>1, <1>2

(* What goes with a move for the invariant to go on. *)
Sound(i, s, t) ==
  /\ PlaceOf(i, t) /\ RanBefore(i, t) /\ JobOf(i, t)' /\ EndsOf(t, cut)'
  /\ fg' \in Ids \cup {Home} /\ cut' \in BOOLEAN /\ (cut => cut')
  /\ fg' = Home \/ (fg' = fg /\ ~Lent(s, fg)) \/ Lent(t, fg)'

(* Such a move keeps the invariant.                                        *)
LEMMA MoveSound ==
  ASSUME ShellInv, NEW i, NEW s, NEW t, Moves(i, s, t), Aged, Sound(i, s, t),
         \A j \in DOMAIN sh \ {i} : Untouched(j)
  PROVE  ShellInv'
<1>1. TypedInv' /\ ShTyped' /\ ProcsTyped' /\ sh'[i] = t
      /\ \A j \in DOMAIN sh \ {i} : sh'[j] = sh[j]
  BY MoveTypes DEF ShellInv
<1>2. TypesInv'
  BY <1>1 DEF Sound, TypesInv
<1>3. PlacesInv'
  BY MovePlaces DEF ShellInv, Sound
<1>4. HistoryInv'
  BY MoveHistory DEF ShellInv, Sound
<1>5. JobsInv'
  BY MoveJobs DEF ShellInv, Sound
<1>6. i \in DOMAIN sh /\ s = sh[i] /\ DOMAIN sh' = DOMAIN sh /\ UNCHANGED lists
  BY MoveTypes DEF Moves, ShellInv
<1>7. EndsInv'
  <2>1. SUFFICES ASSUME NEW j \in DOMAIN sh PROVE EndsOf(sh[j], cut)'
    BY <1>6 DEF EndsInv
  <2>2. CASE j = i
    BY <1>1, <2>2 DEF Sound
  <2>3. CASE j # i
    <3>1. PICK m : m = sh[j]
      OBVIOUS
    <3>2. EndsOf(m, cut) /\ sh'[j] = m /\ (cut => cut')
      BY <1>1, <2>3, <3>1 DEF ShellInv, EndsInv, Sound
    <3>3. EndsOf(m, cut)'
      BY <1>6, <3>2 DEF EndsOf, Background
    <3>. QED BY <3>2, <3>3
  <2>. QED BY <2>2, <2>3
<1>8. TerminalInv'
  <2>1. CASE fg' = Home
    BY <2>1 DEF TerminalInv
  <2>2. CASE fg' = fg /\ ~Lent(s, fg)
    BY <1>1, <1>6, <2>2, TerminalStays DEF ShellInv
  <2>3. CASE Lent(t, fg)'
    <3>1. Lent(sh[i], fg)'
      BY <1>1, <2>3
    <3>. QED BY <1>6, <3>1 DEF TerminalInv
  <2>. QED BY <2>1, <2>2, <2>3 DEF Sound
<1>. QED BY <1>2, <1>3, <1>4, <1>5, <1>7, <1>8 DEF ShellInv

(* When no command changes, all of this is so.                             *)
LEMMA Idle ==
  ASSUME TypesInv, UNCHANGED procs
  PROVE  Aged /\ \A j : Untouched(j)
BY DEF TypesInv, ProcsTyped, Aged, Untouched

(* run_list is left.                                                       *)
LEMMA Leaves ==
  ASSUME ShellInv, NEW i \in DOMAIN sh, NEW s, s = sh[i], Active(s),
         NEW m \in ShellType, m.n = s.n, m.ends = s.ends, UNCHANGED <<typed, lists, procs>>,
         sh' = [sh EXCEPT ![i] = Returned(m)],
         cut' \in BOOLEAN, cut => cut', cut' \/ s.ends = {},
         fg' = Home \/ (fg' = fg /\ ~Lent(s, fg))
  PROVE  ShellInv'
<1>. DEFINE t == Returned(m)
<1>1. /\ t \in ShellType /\ t.n = s.n /\ t.ends = s.ends /\ t.pid = None /\ t.pgid = None
      /\ t.pc = "reap" /\ ~Active(t) /\ ~t.sub
  BY DEF Returned, Fresh, ShellType, Pcs, Active
<1>2. s \in ShellType /\ PlaceOf(i, s)
  BY Sits
<1>. HIDE DEF t
<1>3. Moves(i, s, t)
  BY <1>1 DEF t, Moves
<1>4. Aged /\ \A j : Untouched(j)
  BY Idle DEF ShellInv
<1>5. PlaceOf(i, t)
  BY <1>1, <1>2 DEF PlaceOf
<1>6. RanBefore(i, t) /\ JobOf(i, t)'
  BY <1>1 DEF RanBefore, JobOf
<1>7. EndsOf(t, cut)'
  BY <1>1 DEF EndsOf
<1>8. Sound(i, s, t)
  BY <1>5, <1>6, <1>7 DEF Sound, ShellInv, TypesInv
<1>. QED BY <1>3, <1>4, <1>8, MoveSound

(* An interrupt between two commands makes run_list return.                *)
LEMMA Returns ==
  ASSUME ShellInv, NEW i \in DOMAIN sh, NEW s, s = sh[i], Active(s),
         s.pc \notin {"wait", "eintr"}, Return(i, s), UNCHANGED <<typed, lists, procs, fg>>
  PROVE  ShellInv'
<1>1. s \in ShellType
  BY Sits
<1>2. sh' = [sh EXCEPT ![i] = Returned(s)] /\ cut' = (cut \/ s.ends # {})
  BY DEF Return, Go
<1>3. cut \in BOOLEAN
  BY DEF ShellInv, TypesInv
<1>4. ~Lent(s, fg)
  BY DEF Lent
<1>. QED BY <1>1, <1>2, <1>3, <1>4, Leaves

(* A move within run_list that changes only what the invariant allows.     *)
LEMMA Steps ==
  ASSUME ShellInv, NEW i \in DOMAIN sh, NEW s, s = sh[i], Active(s), NEW t, t \in ShellType,
         sh' = [sh EXCEPT ![i] = t], UNCHANGED <<typed, lists, procs>>,
         cut' = cut, t.n = s.n, t.c >= s.c, t.sub = s.sub, Sound(i, s, t)
  PROVE  ShellInv'
<1>1. Moves(i, s, t)
  BY DEF Moves
<1>2. Aged /\ \A j : Untouched(j)
  BY Idle DEF ShellInv
<1>. QED BY <1>1, <1>2, MoveSound

(* Within a command: nothing changes but where the shell is.              *)
LEMMA Advances ==
  ASSUME ShellInv, NEW i \in DOMAIN sh, NEW s, s = sh[i],
         NEW q \in {"fork", "start", "run", "next"},
         \/ s.pc = "top" /\ q = "fork"
         \/ s.pc = "fork" /\ q = "start" /\ ~(~s.sub /\ Background(s))
         \/ s.pc = "start" /\ q \in {"run", "next"}
         \/ s.pc = "ran" /\ q = "next",
         sh' = [sh EXCEPT ![i] = [s EXCEPT !.pc = q]],
         UNCHANGED <<typed, lists, procs, fg, cut>>
  PROVE  ShellInv'
<1>. DEFINE t == [s EXCEPT !.pc = q]
<1>1. Active(s) /\ s.pc \in {"top", "fork", "start", "ran"}
  BY DEF Active
<1>2. s \in ShellType /\ PlaceOf(i, s) /\ RanBefore(i, s) /\ JobOf(i, s)
      /\ EndsOf(s, cut)
  BY Sits
<1>3. /\ t \in ShellType /\ t.pc = q /\ t.n = s.n /\ t.c = s.c /\ t.p = s.p /\ t.k = s.k
      /\ t.ends = s.ends /\ t.pid = s.pid /\ t.pgid = s.pgid /\ t.sub = s.sub
  BY <1>2 DEF ShellType, Pcs
<1>4. sh' = [sh EXCEPT ![i] = t]
  OBVIOUS
<1>. HIDE DEF t
<1>5. PlaceOf(i, t)
  BY <1>1, <1>2, <1>3 DEF PlaceOf, Active, Background
<1>6. RanBefore(i, t)
  BY <1>1, <1>2, <1>3 DEF RanBefore, Before, Behind, Active
<1>7. JobOf(i, t)'
  <2>1. Id(t) = Id(s) /\ (Behind(s) => Behind(t))
    BY <1>1, <1>3 DEF Id, Behind
  <2>2. JobOf(i, t)
    BY <1>1, <1>2, <1>3, <2>1 DEF JobOf
  <2>. QED BY <2>2 DEF JobOf, Id, Behind, Exists
<1>8. EndsOf(t, cut)' /\ ~Lent(s, fg)
  BY <1>1, <1>2, <1>3 DEF EndsOf, Lent, Background
<1>9. Sound(i, s, t)
  BY <1>5, <1>6, <1>7, <1>8 DEF Sound, ShellInv, TypesInv
<1>10. t.c >= s.c
  BY <1>2, <1>3 DEF ShellType
<1>. QED BY <1>1, <1>3, <1>4, <1>9, <1>10, Steps

(* Top keeps the invariant.                                                *)
LEMMA TopStep ==
  ASSUME ShellInv, NEW i \in DOMAIN sh, NEW s, s = sh[i], Top(i, s),
         UNCHANGED <<typed, lists>>
  PROVE  ShellInv'
<1>1. s.pc = "top" /\ UNCHANGED <<procs, fg>> /\ Active(s)
  BY DEF Top, Active
<1>2. CASE Stops(s)
  BY <1>1, <1>2, Returns DEF Top
<1>3. CASE ~Stops(s)
  <2>1. sh' = [sh EXCEPT ![i] = [s EXCEPT !.pc = "fork"]] /\ cut' = cut
    BY <1>3 DEF Top, Go
  <2>. QED BY <1>1, <2>1, Advances
<1>. QED BY <1>2, <1>3

(* A background conditional is left to a new subshell, which has run       *)
(* nothing yet.                                                            *)
LEMMA ForkRuns ==
  ASSUME ShellInv, NEW i \in DOMAIN sh, NEW s, s = sh[i], Fork(i, s), ~s.sub, Background(s),
         UNCHANGED <<typed, lists>>
  PROVE  ShellInv'
<1>. DEFINE next == IF s.c = Len(lists[s.n]) THEN Returned(s) ELSE [s EXCEPT !.c = @ + 1]
            j == <<s.n, s.c>>
            u == [s EXCEPT !.pc = "start", !.sub = TRUE, !.by = i]
<1>1. s.pc = "fork" /\ UNCHANGED <<procs, fg, cut>> /\ Active(s) /\ Main \in DOMAIN sh
      /\ Reader(s) /\ Ahead(s) /\ Apart /\ i \in Nat \X Nat
  BY DEF Fork, Active, Reader, ShellInv, PlacesInv, TypesInv, ShTyped
<1>2. s \in ShellType /\ PlaceOf(i, s) /\ RanBefore(i, s) /\ JobOf(i, s) /\ EndsOf(s, cut)
      /\ Passed(i, s)
  BY <1>1, Sits DEF ShellInv, HistoryInv
<1>3. s.n \in 1..Len(lists) /\ s.n \in Nat /\ s.c \in Nat
  BY <1>1, <1>2 DEF PlaceOf, ShellType
<1>4. j # Main /\ j \notin DOMAIN sh /\ j \in Nat \X Nat
  <2>1. j # Main
    BY <1>3 DEF Main
  <2>2. j \in DOMAIN sh => s.c < s.c
    BY <1>1, <1>3, <2>1 DEF Ahead
  <2>. QED BY <1>3, <2>1, <2>2
<1>5. sh' = [m \in DOMAIN sh \cup {j} |->
               IF m = i THEN next ELSE IF m \in DOMAIN sh THEN sh[m] ELSE u]
  BY DEF Fork
<1>6. /\ next \in ShellType /\ next.n = s.n /\ next.pid = None /\ next.ends = s.ends /\ ~next.sub
      /\ \/ next.pc = "reap" /\ next.pgid = None
         \/ next.pc = "fork" /\ next.c = s.c + 1 /\ next.pgid = s.pgid
  <2>1. s.pid = None
    BY <1>1, <1>2 DEF JobOf, Behind
  <2>2. CASE s.c = Len(lists[s.n])
    <3>. DEFINE t == Returned(s)
    <3>1. /\ t \in ShellType /\ t.n = s.n /\ t.pid = None /\ t.ends = s.ends /\ ~t.sub
          /\ t.pc = "reap" /\ t.pgid = None
      BY <1>2 DEF Returned, Fresh, ShellType, Pcs
    <3>2. next = t
      BY <2>2
    <3>. HIDE DEF t, next
    <3>. QED BY <3>1, <3>2
  <2>3. CASE s.c # Len(lists[s.n])
    <3>. DEFINE t == [s EXCEPT !.c = @ + 1]
    <3>1. /\ t \in ShellType /\ t.n = s.n /\ t.pid = None /\ t.ends = s.ends /\ ~t.sub
          /\ t.pc = "fork" /\ t.c = s.c + 1 /\ t.pgid = s.pgid
      BY <1>1, <1>2, <2>1 DEF ShellType
    <3>2. next = t
      BY <2>3
    <3>. HIDE DEF t, next
    <3>. QED BY <3>1, <3>2
  <2>. QED BY <2>2, <2>3
<1>7. /\ u \in ShellType /\ u.pc = "start" /\ u.n = s.n /\ u.c = s.c /\ u.pid = None
      /\ u.pgid = s.pgid /\ u.sub /\ u.ends = s.ends /\ u.p = s.p
  BY <1>1, <1>2 DEF JobOf, Behind, ShellType, Pcs
<1>. HIDE DEF next, u
<1>8. /\ DOMAIN sh' = DOMAIN sh \cup {j} /\ sh'[i] = next /\ sh'[j] = u
      /\ \A m \in DOMAIN sh \ {i} : sh'[m] = sh[m]
  BY <1>1, <1>4, <1>5
<1>9. TypesInv'
  <2>1. ShTyped'
    <3>1. DOMAIN sh' \subseteq Nat \X Nat /\ \A m \in DOMAIN sh' : sh'[m] \in ShellType
      BY <1>4, <1>6, <1>7, <1>8 DEF ShellInv, TypesInv, ShTyped
    <3>. QED BY <1>5, <1>8, <3>1 DEF ShTyped
  <2>. QED BY <1>1, <2>1 DEF ShellInv, TypesInv, TypedInv, ProcsTyped
<1>10. PlacesInv'
  <2>1. \A m, r : PlaceOf(m, r)' = PlaceOf(m, r)
    BY DEF PlaceOf, Active, Background
  <2>2. PlaceOf(i, next)
    BY <1>1, <1>2, <1>3, <1>6 DEF PlaceOf, Active
  <2>3. PlaceOf(j, u)
    BY <1>3, <1>4, <1>7 DEF PlaceOf, Active, Background
  <2>4. \A m \in DOMAIN sh' : PlaceOf(m, sh[m])'
    <3>1. \A m \in DOMAIN sh : PlaceOf(m, sh[m])
      BY DEF ShellInv, PlacesInv
    <3>. QED BY <1>8, <2>1, <2>2, <2>3, <3>1
  <2>5. ASSUME NEW q \in DOMAIN sh', Reader(sh'[q])
        PROVE  q \in DOMAIN sh /\ Reader(sh[q]) /\ sh'[q].n = sh[q].n
    BY <1>1, <1>6, <1>7, <1>8, <2>5 DEF Reader
  <2>6. ASSUME NEW q \in DOMAIN sh', Reader(sh'[q]) PROVE Ahead(sh[q])'
    <3>1. SUFFICES ASSUME NEW m \in DOMAIN sh', m # Main, m[1] = sh'[q].n
                   PROVE  m[2] < sh'[q].c
      BY DEF Ahead
    <3>2. q \in DOMAIN sh /\ Reader(sh[q]) /\ sh'[q].n = sh[q].n /\ Ahead(sh[q])
      BY <2>5, <2>6 DEF ShellInv, PlacesInv
    <3>3. CASE q = i
      <4>1. next.c = s.c + 1 /\ sh'[q] = next
        BY <1>6, <1>8, <2>6, <3>3 DEF Reader, Active
      <4>2. m \in DOMAIN sh => m[2] < s.c /\ m \in Nat \X Nat
        BY <3>1, <3>2, <3>3 DEF Ahead, ShellInv, TypesInv, ShTyped
      <4>. QED BY <1>3, <1>8, <4>1, <4>2
    <3>4. CASE q # i
      <4>1. sh'[q] = sh[q] /\ m # j
        BY <1>1, <1>8, <3>1, <3>2, <3>4 DEF Apart
      <4>. QED BY <1>8, <3>1, <3>2, <4>1 DEF Ahead
    <3>. QED BY <3>3, <3>4
  <2>7. Apart'
    <3>1. SUFFICES ASSUME NEW q \in DOMAIN sh', NEW m \in DOMAIN sh', q # m,
                          Reader(sh'[q]), Reader(sh'[m])
                   PROVE  sh'[q].n # sh'[m].n
      BY DEF Apart, Reader, Active
    <3>. QED BY <1>1, <2>5, <3>1 DEF Apart
  <2>8. \A q \in DOMAIN sh' : Reader(sh[q])' <=> Reader(sh'[q])
    BY DEF Reader, Active
  <2>. QED BY <1>1, <1>8, <2>4, <2>6, <2>7, <2>8 DEF PlacesInv
<1>11. HistoryInv'
  <2>1. OwnerInv'
    BY <1>1 DEF ShellInv, HistoryInv, OwnerInv, Backgrounded
  <2>2. \A m, r : RanBefore(m, r)' = RanBefore(m, r)
    BY <1>1 DEF RanBefore, Active, Before, Behind
  <2>3. procs \in [DOMAIN procs -> ProcType] /\ DOMAIN procs \subseteq Ids
    BY DEF ShellInv, TypesInv, ProcsTyped
  <2>4. RanBefore(i, next)
    <3>1. SUFFICES ASSUME Active(next), NEW x \in DOMAIN procs, procs[x].by = i, x[1] = next.n
                   PROVE  Before(x, next)
      BY DEF RanBefore
    <3>2. next.c = s.c + 1 /\ next.n = s.n
      BY <1>6, <3>1 DEF Active
    <3>3. Before(x, s)
      BY <1>1, <1>2, <3>1, <3>2 DEF RanBefore
    <3>4. x \in Ids
      BY <2>3
    <3>. QED BY <1>3, <3>2, <3>3, <3>4 DEF Before, Ids
  <2>5. RanBefore(j, u)
    <3>1. SUFFICES ASSUME NEW x \in DOMAIN procs, procs[x].by = j, x[1] = s.n
                   PROVE  FALSE
      BY <1>7 DEF RanBefore
    <3>2. CASE Backgrounded(x)
      <4>1. x[2] < s.c
        BY <1>2, <3>1, <3>2 DEF Passed
      <4>2. j = <<x[1], x[2]>>
        BY <3>1, <3>2 DEF ShellInv, HistoryInv, OwnerInv
      <4>. QED BY <1>3, <4>1, <4>2
    <3>3. CASE ~Backgrounded(x)
      BY <1>2, <1>4, <3>1, <3>3 DEF Passed
    <3>. QED BY <3>2, <3>3
  <2>6. \A m \in DOMAIN sh' : RanBefore(m, sh[m])'
    <3>1. \A m \in DOMAIN sh : RanBefore(m, sh[m])
      BY DEF ShellInv, HistoryInv
    <3>. QED BY <1>8, <2>2, <2>4, <2>5, <3>1
  <2>7. ASSUME NEW q \in DOMAIN sh', Reader(sh'[q]) PROVE Passed(q, sh[q])'
    <3>1. CASE q = i
      <4>1. next.c = s.c + 1 /\ sh'[q] = next /\ next.n = s.n
        BY <1>6, <1>8, <2>7, <3>1 DEF Reader, Active
      <4>2. SUFFICES ASSUME NEW x \in DOMAIN procs, x[1] = s.n
                     PROVE  IF Backgrounded(x) THEN x[2] < s.c + 1 ELSE procs[x].by = i
        BY <1>1, <3>1, <4>1 DEF Passed, Backgrounded
      <4>3. x \in Ids
        BY <2>3
      <4>. QED BY <1>2, <1>3, <4>2, <4>3 DEF Passed, Ids
    <3>2. CASE q # i
      <4>1. q \in DOMAIN sh /\ sh'[q] = sh[q]
        BY <1>7, <1>8, <2>7, <3>2 DEF Reader
      <4>2. Passed(q, sh[q])
        BY <2>7, <4>1 DEF ShellInv, HistoryInv
      <4>. QED BY <1>1, <4>1, <4>2 DEF Passed, Backgrounded
    <3>. QED BY <3>1, <3>2
  <2>8. \A q \in DOMAIN sh' : Reader(sh[q])' <=> Reader(sh'[q])
    BY DEF Reader, Active
  <2>. QED BY <2>1, <2>6, <2>7, <2>8 DEF HistoryInv
<1>12. JobsInv'
  <2>1. \A m, r : JobOf(m, r)' = JobOf(m, r)
    BY <1>1 DEF JobOf, Behind, Id, Exists
  <2>2. JobOf(i, next)
    BY <1>2, <1>6 DEF JobOf
  <2>3. JobOf(j, u)
    BY <1>2, <1>7 DEF JobOf
  <2>4. \A m \in DOMAIN sh : JobOf(m, sh[m])
    BY DEF ShellInv, JobsInv
  <2>. QED BY <1>8, <2>1, <2>2, <2>3, <2>4 DEF JobsInv
<1>13. EndsInv'
  <2>1. ~cut => s.ends = {}
    BY <1>1, <1>2 DEF EndsOf
  <2>0. PICK v : v = next
    OBVIOUS
  <2>2. EndsOf(v, cut)'
    BY <1>1, <1>6, <2>0, <2>1 DEF EndsOf
  <2>3. EndsOf(u, cut)'
    BY <1>1, <1>7, <2>1 DEF EndsOf
  <2>4. ASSUME NEW m \in DOMAIN sh \ {i} PROVE EndsOf(sh[m], cut)'
    <3>1. PICK w : w = sh[m]
      OBVIOUS
    <3>2. EndsOf(w, cut) /\ sh'[m] = w
      BY <1>8, <3>1 DEF ShellInv, EndsInv
    <3>3. EndsOf(w, cut)'
      BY <1>1, <3>2 DEF EndsOf, Background
    <3>. QED BY <3>2, <3>3
  <2>. QED BY <1>8, <2>0, <2>2, <2>3, <2>4 DEF EndsInv
<1>14. TerminalInv'
  <2>1. ~Lent(sh[i], fg)
    BY <1>1 DEF Lent
  <2>2. Aged
    BY <1>1, Idle DEF ShellInv
  <2>. QED BY <1>1, <1>8, <2>1, <2>2, TerminalStays DEF ShellInv
<1>. QED BY <1>9, <1>10, <1>11, <1>12, <1>13, <1>14 DEF ShellInv

(* Fork keeps the invariant.                                               *)
LEMMA ForkStep ==
  ASSUME ShellInv, NEW i \in DOMAIN sh, NEW s, s = sh[i], Fork(i, s),
         UNCHANGED <<typed, lists>>
  PROVE  ShellInv'
<1>1. CASE ~s.sub /\ Background(s)
  BY <1>1, ForkRuns
<1>2. CASE ~(~s.sub /\ Background(s))
  <2>1. /\ s.pc = "fork" /\ UNCHANGED <<procs, fg, cut>>
        /\ sh' = [sh EXCEPT ![i] = [s EXCEPT !.pc = "start"]]
    BY <1>2 DEF Fork, Go
  <2>. QED BY <1>2, <2>1, Advances
<1>. QED BY <1>1, <1>2

(* Start keeps the invariant.                                              *)
LEMMA StartStep ==
  ASSUME ShellInv, NEW i \in DOMAIN sh, NEW s, s = sh[i], Start(i, s),
         UNCHANGED <<typed, lists>>
  PROVE  ShellInv'
<1>1. s.pc = "start" /\ UNCHANGED <<procs, fg>> /\ Active(s)
  BY DEF Start, Active
<1>2. CASE Return(i, s)
  BY <1>1, <1>2, Returns
<1>3. CASE ~Return(i, s)
  <2>1. PICK q \in {"run", "next"} : sh' = [sh EXCEPT ![i] = [s EXCEPT !.pc = q]] /\ cut' = cut
    BY <1>3 DEF Start, Go
  <2>. QED BY <1>1, <2>1, Advances
<1>. QED BY <1>2, <1>3

(* Ran keeps the invariant.                                                *)
LEMMA RanStep ==
  ASSUME ShellInv, NEW i \in DOMAIN sh, NEW s, s = sh[i], Ran(i, s),
         UNCHANGED <<typed, lists>>
  PROVE  ShellInv'
<1>1. s.pc = "ran" /\ UNCHANGED <<procs, fg>> /\ Active(s)
  BY DEF Ran, Active
<1>2. CASE Return(i, s)
  BY <1>1, <1>2, Returns
<1>3. CASE ~Return(i, s)
  <2>1. sh' = [sh EXCEPT ![i] = [s EXCEPT !.pc = "next"]] /\ cut' = cut
    BY <1>3 DEF Ran, Go
  <2>. QED BY <1>1, <2>1, Advances
<1>. QED BY <1>2, <1>3

(* NextCommand keeps the invariant: the read ends that are closed are all  *)
(* that the shell has, and the terminal goes to a group with the last      *)
(* command in it.                                                          *)
LEMMA NextCommandStep ==
  ASSUME ShellInv, NEW i \in DOMAIN sh, NEW s, s = sh[i], NextCommand(i, s),
         UNCHANGED <<typed, lists>>
  PROVE  ShellInv'
<1>1. s.pc = "next" /\ UNCHANGED <<procs, cut>> /\ Active(s)
  BY DEF NextCommand, Active
<1>2. s \in ShellType /\ PlaceOf(i, s) /\ RanBefore(i, s) /\ JobOf(i, s)
      /\ EndsOf(s, cut)
  BY Sits
<1>3. /\ s.c \in Nat /\ s.p \in Nat /\ s.k \in Nat /\ DOMAIN procs \subseteq Ids
      /\ fg \in Ids \cup {Home} /\ cut \in BOOLEAN
  BY <1>2 DEF ShellType, ShellInv, TypesInv, ProcsTyped
<1>4. CASE s.k < Len(Commands(s)) /\ Commands(s)[s.k + 1] # "empty"
  <2>. DEFINE t == [s EXCEPT !.pc = "top", !.k = @ + 1, !.pid = None]
  <2>1. sh' = [sh EXCEPT ![i] = t] /\ UNCHANGED fg
    BY <1>4 DEF NextCommand, Go
  <2>2. /\ t \in ShellType /\ t.pc = "top" /\ t.n = s.n /\ t.c = s.c /\ t.p = s.p
        /\ t.k = s.k + 1 /\ t.ends = s.ends /\ t.pid = None /\ t.pgid = s.pgid
        /\ t.sub = s.sub
    <3>1. s.k + 1 \in Nat
      BY <1>3
    <3>. QED BY <1>2, <3>1 DEF ShellType, Pcs
  <2>. HIDE DEF t
  <2>3. PlaceOf(i, t)
    BY <1>1, <1>2, <2>2 DEF PlaceOf, Active, Background
  <2>4. RanBefore(i, t)
    <3>1. \A x \in Ids : Before(x, s) => Before(x, t)
      BY <1>3, <2>2 DEF Before, Ids
    <3>. QED BY <1>1, <1>2, <1>3, <2>2, <3>1 DEF RanBefore, Active
  <2>5. JobOf(i, t)'
    BY <1>1, <1>2, <2>2 DEF JobOf
  <2>6. EndsOf(t, cut)' /\ ~Lent(s, fg)
    <3>1. ~t.sub => ~Background(t)'
      BY <1>1, <1>2, <2>2 DEF PlaceOf, Background
    <3>. QED BY <1>1, <1>2, <2>2, <3>1 DEF EndsOf, Lent
  <2>7. Sound(i, s, t)
    BY <1>1, <1>3, <2>1, <2>3, <2>4, <2>5, <2>6 DEF Sound
  <2>8. t.c >= s.c
    BY <1>3, <2>2
  <2>. QED BY <1>1, <2>1, <2>2, <2>7, <2>8, Steps
<1>5. CASE ~(s.k < Len(Commands(s)) /\ Commands(s)[s.k + 1] # "empty")
  <2>. DEFINE t == [s EXCEPT !.ends = @ \ ReadEnds(s), !.pc = IF s.pid = None THEN "cond" ELSE "wait"]
  <2>1. /\ sh' = [sh EXCEPT ![i] = t]
        /\ fg' = IF s.pid = None \/ Background(s) THEN fg ELSE Claimed(s.pgid)
    BY <1>5 DEF NextCommand, Go
  <2>2. /\ t \in ShellType /\ t.pc = (IF s.pid = None THEN "cond" ELSE "wait")
        /\ t.n = s.n /\ t.c = s.c /\ t.p = s.p /\ t.k = s.k
        /\ t.ends = s.ends \ ReadEnds(s) /\ t.pid = s.pid /\ t.pgid = s.pgid
        /\ t.sub = s.sub
    BY <1>2 DEF ShellType, Pcs
  <2>. HIDE DEF t
  <2>3. PlaceOf(i, t)
    BY <1>1, <1>2, <2>2 DEF PlaceOf, Active, Background
  <2>4. RanBefore(i, t)
    <3>1. \A x : Before(x, s) => Before(x, t)
      BY <1>1, <2>2 DEF Before, Behind
    <3>. QED BY <1>1, <1>2, <2>2, <3>1 DEF RanBefore, Active
  <2>5. JobOf(i, t)'
    <3>1. Id(t) = Id(s) /\ Behind(t)
      BY <2>2 DEF Id, Behind
    <3>2. JobOf(i, t)
      BY <1>1, <1>2, <2>2, <3>1 DEF JobOf
    <3>. QED BY <1>1, <3>2 DEF JobOf, Id, Behind, Exists
  <2>6. EndsOf(t, cut)'
    BY <1>1, <1>2, <2>2 DEF EndsOf, ReadEnds
  <2>7. ~Lent(s, fg)
    BY <1>1 DEF Lent
  <2>8. fg' \in Ids \cup {Home}
    BY <1>2, <1>3, <2>1 DEF JobOf, Claimed
  <2>9. Sound(i, s, t)
    <3>1. CASE fg' = fg
      BY <1>1, <1>3, <2>3, <2>4, <2>5, <2>6, <2>7, <2>8, <3>1 DEF Sound
    <3>2. CASE fg' # fg
      <4>1. \/ ~Background(s) /\ ~s.sub /\ s.pid # None /\ fg' = s.pgid /\ Exists(s.pgid)
            \/ fg' = Home
        BY <1>2, <2>1, <3>2 DEF Claimed, PlaceOf
      <4>2. fg' # Home => Lent(t, fg)'
        BY <1>1, <1>2, <2>1, <2>2, <4>1 DEF Lent, JobOf, Claimed
      <4>. QED BY <1>1, <1>3, <2>3, <2>4, <2>5, <2>6, <2>8, <4>2 DEF Sound
    <3>. QED BY <3>1, <3>2
  <2>10. t.c >= s.c
    BY <1>3, <2>2
  <2>. QED BY <1>1, <2>1, <2>2, <2>9, <2>10, Steps
<1>. QED BY <1>4, <1>5

(* Wait is a step of the commands.                                         *)
LEMMA WaitAges ==
  ASSUME ShellInv, NEW i \in DOMAIN sh, NEW s, s = sh[i], Wait(i, s)
  PROVE  Aged /\ \A j \in DOMAIN sh \ {i} : Untouched(j)
<1>. DEFINE q == [procs[s.pid] EXCEPT !.up = "gone"]
<1>1. procs \in [DOMAIN procs -> ProcType] /\ DOMAIN procs \subseteq Ids
  BY DEF ShellInv, TypesInv, ProcsTyped
<1>2. s.pid \in DOMAIN procs /\ procs[s.pid].by = i
  <2>1. JobOf(i, s) /\ s.pc = "wait"
    BY Sits DEF Wait
  <2>. QED BY <2>1 DEF JobOf
<1>3. q \in ProcType /\ q.by = procs[s.pid].by /\ q.group = procs[s.pid].group
      /\ q.ok = procs[s.pid].ok /\ q.up = "gone"
  BY <1>1, <1>2 DEF ProcType
<1>4. procs' = [procs EXCEPT ![s.pid] = q]
  BY DEF Wait
<1>. HIDE DEF q
<1>5. procs' \in [DOMAIN procs -> ProcType] /\ DOMAIN procs' = DOMAIN procs
      /\ procs'[s.pid] = q /\ \A x \in DOMAIN procs \ {s.pid} : procs'[x] = procs[x]
  BY <1>1, <1>2, <1>3, <1>4
<1>6. ProcsTyped'
  BY <1>1, <1>5 DEF ProcsTyped
<1>. QED BY <1>2, <1>3, <1>5, <1>6 DEF Aged, Untouched

(* Wait keeps the invariant: the command was this shell's alone.           *)
LEMMA WaitStep ==
  ASSUME ShellInv, NEW i \in DOMAIN sh, NEW s, s = sh[i], Wait(i, s),
         UNCHANGED <<typed, lists>>
  PROVE  ShellInv'
<1>1. s.pc = "wait" /\ UNCHANGED cut /\ Active(s)
  BY DEF Wait, Active
<1>2. s \in ShellType /\ PlaceOf(i, s) /\ RanBefore(i, s) /\ JobOf(i, s)
      /\ EndsOf(s, cut)
  BY Sits
<1>3. procs \in [DOMAIN procs -> ProcType] /\ DOMAIN procs \subseteq Ids
      /\ fg \in Ids \cup {Home} /\ cut \in BOOLEAN
  BY DEF ShellInv, TypesInv, ProcsTyped
<1>4. s.pid # None /\ s.pid = Id(s) /\ s.pid \in DOMAIN procs /\ procs[s.pid].by = i /\ s.pgid # None
  BY <1>1, <1>2 DEF JobOf
<1>. DEFINE t == [s EXCEPT !.pc = "cond", !.ok = procs[s.pid].ok]
<1>5. PICK u : u = t
  OBVIOUS
<1>6. sh' = [sh EXCEPT ![i] = u] /\ procs' = [procs EXCEPT ![s.pid].up = "gone"]
      /\ fg' = IF Background(s) THEN fg ELSE Reclaimed
  BY <1>5 DEF Wait, Go
<1>7. /\ u \in ShellType /\ u.pc = "cond" /\ u.n = s.n /\ u.c = s.c /\ u.p = s.p /\ u.k = s.k
      /\ u.ends = s.ends /\ u.pid = s.pid /\ u.pgid = s.pgid /\ u.sub = s.sub
  <2>1. procs[s.pid].ok \in BOOLEAN
    BY <1>3, <1>4 DEF ProcType
  <2>. QED BY <1>2, <1>5, <2>1 DEF ShellType, Pcs
<1>8. Aged /\ \A j \in DOMAIN sh \ {i} : Untouched(j)
  BY WaitAges
<1>9. Moves(i, s, u)
  BY <1>1, <1>2, <1>6, <1>7 DEF Moves, ShellType
<1>10. PlaceOf(i, u)
  BY <1>1, <1>2, <1>7 DEF PlaceOf, Active, Background
<1>11. RanBefore(i, u)
  <2>1. \A x : Before(x, s) => Before(x, u)
    BY <1>1, <1>7 DEF Before, Behind
  <2>. QED BY <1>1, <1>2, <1>7, <2>1 DEF RanBefore, Active
<1>12. JobOf(i, u)'
  <2>1. DOMAIN procs' = DOMAIN procs /\ procs'[s.pid].by = i
    BY <1>4, <1>8 DEF Aged
  <2>2. Id(u)' = Id(s) /\ Behind(u)'
    BY <1>7 DEF Id, Behind
  <2>. QED BY <1>2, <1>4, <1>7, <2>1, <2>2 DEF JobOf
<1>13. EndsOf(u, cut)'
  BY <1>1, <1>2, <1>7 DEF EndsOf
<1>14. fg' = Home \/ (fg' = fg /\ ~Lent(s, fg))
  BY <1>1, <1>2, <1>6 DEF PlaceOf, Reclaimed, Claimed, Lent
<1>15. Sound(i, s, u)
  BY <1>1, <1>3, <1>10, <1>11, <1>12, <1>13, <1>14 DEF Sound
<1>. QED BY <1>8, <1>9, <1>15, MoveSound

(* WaitFails keeps the invariant.                                          *)
LEMMA WaitFailsStep ==
  ASSUME ShellInv, NEW i \in DOMAIN sh, NEW s, s = sh[i], WaitFails(i, s),
         UNCHANGED <<typed, lists>>
  PROVE  ShellInv'
<1>. DEFINE r == [s EXCEPT !.errno = TRUE]
<1>1. s.pc = "eintr" /\ UNCHANGED procs /\ Active(s)
      /\ fg' = (IF Background(s) THEN fg ELSE Reclaimed)
  BY DEF WaitFails, Active
<1>2. s \in ShellType /\ PlaceOf(i, s) /\ EndsOf(s, cut)
  BY Sits
<1>3. r \in ShellType /\ r.n = s.n /\ r.ends = s.ends
  BY <1>2 DEF ShellType
<1>4. sh' = [sh EXCEPT ![i] = Returned(r)] /\ cut' = (cut \/ r.ends # {})
  BY DEF WaitFails, Return, Go
<1>. HIDE DEF r
<1>5. cut \in BOOLEAN
  BY DEF ShellInv, TypesInv
<1>6. fg' = Home \/ (fg' = fg /\ ~Lent(s, fg))
  BY <1>1, <1>2 DEF PlaceOf, Reclaimed, Claimed, Lent
<1>. QED BY <1>1, <1>3, <1>4, <1>5, <1>6, Leaves

(* The next pipeline of the conditional. *)
LEMMA NextPipeline ==
  ASSUME ShellInv, NEW i \in DOMAIN sh, NEW s, s = sh[i], Conditional(i, s),
         s.p < Len(Pipes(s)), UNCHANGED <<typed, lists>>
  PROVE  ShellInv'
<1>. DEFINE t == [s EXCEPT !.pc = "top", !.p = @ + 1, !.k = 1, !.pid = None,
                           !.run = RunsNext(s)]
<1>1. s.pc = "cond" /\ UNCHANGED <<procs, fg, cut>> /\ Active(s) /\ sh' = [sh EXCEPT ![i] = t]
  BY DEF Conditional, Active, Go
<1>2. s \in ShellType /\ PlaceOf(i, s) /\ RanBefore(i, s) /\ JobOf(i, s)
      /\ EndsOf(s, cut)
  BY Sits
<1>3. /\ s.c \in Nat /\ s.p \in Nat /\ s.k \in Nat /\ DOMAIN procs \subseteq Ids
      /\ fg \in Ids \cup {Home} /\ cut \in BOOLEAN
  BY <1>2 DEF ShellType, ShellInv, TypesInv, ProcsTyped
<1>4. /\ t \in ShellType /\ t.pc = "top" /\ t.n = s.n /\ t.c = s.c /\ t.p = s.p + 1
      /\ t.ends = s.ends /\ t.pid = None /\ t.pgid = s.pgid /\ t.sub = s.sub
  <2>1. s.p + 1 \in Nat /\ RunsNext(s) \in BOOLEAN
    BY <1>3 DEF RunsNext
  <2>. QED BY <1>2, <2>1 DEF ShellType, Pcs
<1>. HIDE DEF t
<1>4a. PICK u : u = t
  OBVIOUS
<1>5. PlaceOf(i, u)
  BY <1>1, <1>2, <1>4, <1>4a DEF PlaceOf, Active, Background
<1>6. RanBefore(i, u)
  <2>1. \A x \in Ids : Before(x, s) => Before(x, u)
    BY <1>3, <1>4, <1>4a DEF Before, Ids
  <2>. QED BY <1>1, <1>2, <1>3, <1>4, <1>4a, <2>1 DEF RanBefore, Active
<1>7. JobOf(i, u)'
  BY <1>1, <1>2, <1>4, <1>4a DEF JobOf
<1>8. EndsOf(u, cut)' /\ ~Lent(s, fg)
  BY <1>1, <1>2, <1>4, <1>4a DEF EndsOf, Lent
<1>9. Sound(i, s, u)
  BY <1>1, <1>3, <1>5, <1>6, <1>7, <1>8 DEF Sound
<1>10. u.c >= s.c
  BY <1>3, <1>4, <1>4a
<1>. QED BY <1>1, <1>4, <1>4a, <1>9, <1>10, Steps

(* The next conditional, or the end of the list. *)
LEMMA NextConditional ==
  ASSUME ShellInv, NEW i \in DOMAIN sh, NEW s, s = sh[i], ~s.sub, Conditional(i, s),
         ~(s.p < Len(Pipes(s))),
         UNCHANGED <<typed, lists>>
  PROVE  ShellInv'
<1>1. s.pc = "cond" /\ UNCHANGED <<procs, fg, cut>> /\ Active(s)
  BY DEF Conditional, Active
<1>2. s \in ShellType /\ PlaceOf(i, s) /\ RanBefore(i, s) /\ JobOf(i, s)
      /\ EndsOf(s, cut)
  BY <1>1, Sits
<1>3. /\ s.n \in Nat /\ s.c \in Nat /\ s.p \in Nat /\ s.k \in Nat /\ DOMAIN procs \subseteq Ids
      /\ fg \in Ids \cup {Home} /\ cut \in BOOLEAN
  BY <1>2 DEF ShellType, ShellInv, TypesInv, ProcsTyped
<1>4. ~Lent(s, fg) /\ (cut \/ s.ends = {})
  BY <1>1, <1>2 DEF EndsOf, Lent
<1>5. CASE s.c = Len(lists[s.n])
  <2>1. sh' = [sh EXCEPT ![i] = Returned(s)]
    BY <1>5 DEF Conditional, Go
  <2>. QED BY <1>1, <1>2, <1>3, <1>4, <2>1, Leaves
<1>6. CASE s.c # Len(lists[s.n])
  <2>. DEFINE t == [Fresh(s, s.n) EXCEPT !.c = s.c + 1, !.pgid = s.pgid]
  <2>1. sh' = [sh EXCEPT ![i] = t]
    BY <1>6 DEF Conditional, Go
  <2>2. /\ t \in ShellType /\ t.pc = "top" /\ t.n = s.n /\ t.c = s.c + 1
        /\ t.ends = s.ends /\ t.pid = None /\ t.pgid = s.pgid /\ t.sub = s.sub
    <3>1. s.c + 1 \in Nat
      BY <1>3
    <3>. QED BY <1>2, <1>3, <3>1 DEF Fresh, ShellType, Pcs
  <2>. HIDE DEF t
  <2>3. PlaceOf(i, t)
    BY <1>1, <1>2, <2>2 DEF PlaceOf, Active
  <2>4. RanBefore(i, t)
    <3>1. \A x \in Ids : Before(x, s) => Before(x, t)
      BY <1>3, <2>2 DEF Before, Ids
    <3>. QED BY <1>1, <1>2, <1>3, <2>2, <3>1 DEF RanBefore, Active
  <2>5. JobOf(i, t)'
    BY <1>1, <1>2, <2>2 DEF JobOf
  <2>6. EndsOf(t, cut)'
    BY <1>1, <1>4, <2>2 DEF EndsOf
  <2>7. Sound(i, s, t)
    BY <1>1, <1>3, <1>4, <2>3, <2>4, <2>5, <2>6 DEF Sound
  <2>8. t.c >= s.c
    BY <1>3, <2>2
  <2>. QED BY <1>1, <2>1, <2>2, <2>7, <2>8, Steps
<1>. QED BY <1>5, <1>6

(* Commands whose parent is i and that are zombies are gone. *)
Buried(i) ==
  procs' = [x \in DOMAIN procs |->
              IF procs[x].by = i /\ procs[x].up = "zombie"
              THEN [procs[x] EXCEPT !.up = "gone"] ELSE procs[x]]

(* Nobody else's children are touched.                                     *)
LEMMA BuriedAges ==
  ASSUME ShellInv, NEW i, Buried(i)
  PROVE  Aged /\ \A j \in DOMAIN sh \ {i} : Untouched(j)
<1>1. procs \in [DOMAIN procs -> ProcType] /\ DOMAIN procs \subseteq Ids
  BY DEF ShellInv, TypesInv, ProcsTyped
<1>2. \A x \in DOMAIN procs :
        /\ procs'[x] \in ProcType
        /\ procs'[x].by = procs[x].by /\ procs'[x].group = procs[x].group
        /\ procs[x].up = "gone" => procs'[x].up = "gone" /\ procs'[x].ok = procs[x].ok
        /\ procs[x].by # i => procs'[x] = procs[x]
  BY <1>1 DEF ProcType, Buried
<1>3. DOMAIN procs' = DOMAIN procs
  BY DEF Buried
<1>4. procs' \in [DOMAIN procs' -> ProcType]
  BY <1>2, <1>3 DEF Buried
<1>. QED BY <1>1, <1>2, <1>3, <1>4 DEF Aged, ProcsTyped, Untouched

(* A subshell that ends leaves its children to init.                       *)
LEMMA SubshellAges ==
  ASSUME ShellInv, NEW i, NEW s, s.sub, Conditional(i, s), ~(s.p < Len(Pipes(s)))
  PROVE  Aged /\ \A j \in DOMAIN sh \ {i} : Untouched(j)
<1>1. Buried(i)
  BY DEF Conditional, Buried
<1>. QED BY <1>1, BuriedAges

(* A subshell ends. *)
LEMMA SubshellEnds ==
  ASSUME ShellInv, NEW i \in DOMAIN sh, NEW s, s = sh[i], s.sub, Conditional(i, s),
         ~(s.p < Len(Pipes(s))), UNCHANGED <<typed, lists>>
  PROVE  ShellInv'
<1>1. /\ sh' = [j \in DOMAIN sh \ {i} |-> sh[j]] /\ UNCHANGED <<fg, cut>>
      /\ procs' = [x \in DOMAIN procs |->
           IF procs[x].by = i /\ procs[x].up = "zombie"
           THEN [procs[x] EXCEPT !.up = "gone"] ELSE procs[x]]
  BY DEF Conditional
<1>2. DOMAIN sh' = DOMAIN sh \ {i} /\ \A j \in DOMAIN sh' : sh'[j] = sh[j]
  BY <1>1
<1>3. Main \in DOMAIN sh' /\ lists' = lists
  <2>1. PlaceOf(i, s) /\ s \in ShellType
    BY Sits
  <2>2. i # Main
    BY <2>1 DEF PlaceOf, Main, ShellType
  <2>. QED BY <1>2, <2>2 DEF ShellInv, PlacesInv
<1>4. procs \in [DOMAIN procs -> ProcType] /\ DOMAIN procs \subseteq Ids
  BY DEF ShellInv, TypesInv, ProcsTyped
<1>5. Aged /\ \A j \in DOMAIN sh \ {i} : Untouched(j)
  BY SubshellAges
<1>6. TypesInv'
  <2>1. ShTyped'
    BY <1>1, <1>2 DEF ShellInv, TypesInv, ShTyped
  <2>. QED BY <1>1, <1>5, <2>1 DEF ShellInv, TypesInv, TypedInv, Aged
<1>7. PlacesInv'
  <2>1. \A j, r : PlaceOf(j, r)' = PlaceOf(j, r)
    BY DEF PlaceOf, Active, Background
  <2>2. /\ Apart'
        /\ \A j \in DOMAIN sh' : Reader(sh[j])' => Ahead(sh[j])'
    BY <1>2 DEF ShellInv, PlacesInv, Apart, Ahead, Active, Reader
  <2>3. \A j \in DOMAIN sh : PlaceOf(j, sh[j])
    BY DEF ShellInv, PlacesInv
  <2>. QED BY <1>2, <1>3, <2>1, <2>2, <2>3 DEF PlacesInv
<1>8. HistoryInv'
  <2>1. DOMAIN procs' = DOMAIN procs /\ \A x \in DOMAIN procs : procs'[x].by = procs[x].by
    BY <1>5 DEF Aged
  <2>2. OwnerInv'
    BY <2>1 DEF ShellInv, HistoryInv, OwnerInv, Backgrounded
  <2>3. \A j \in DOMAIN sh' : Reader(sh[j])' => Passed(j, sh[j])'
    BY <1>2, <1>3, <2>1 DEF ShellInv, HistoryInv, Passed, Backgrounded, Active, Reader
  <2>4. \A j, r : RanBefore(j, r)' = RanBefore(j, r)
    BY <2>1 DEF RanBefore, Active, Before, Behind
  <2>5. \A j \in DOMAIN sh : RanBefore(j, sh[j])
    BY DEF ShellInv, HistoryInv
  <2>. QED BY <1>2, <2>2, <2>3, <2>4, <2>5 DEF HistoryInv
<1>9. JobsInv'
  <2>1. SUFFICES ASSUME NEW j \in DOMAIN sh \ {i} PROVE JobOf(j, sh[j])'
    BY <1>2 DEF JobsInv
  <2>2. PICK r : r = sh[j]
    OBVIOUS
  <2>3. JobOf(j, r) /\ sh'[j] = r
    BY <1>2, <2>2 DEF ShellInv, JobsInv
  <2>4. JobOf(j, r)'
    BY <1>5, <2>3, JobKept
  <2>. QED BY <2>3, <2>4
<1>10. EndsInv'
  BY <1>1, <1>2, <1>3 DEF ShellInv, EndsInv, EndsOf, Background
<1>11. TerminalInv'
  BY <1>1, <1>2, <1>5, TerminalStays DEF ShellInv, Lent
<1>. QED BY <1>6, <1>7, <1>8, <1>9, <1>10, <1>11 DEF ShellInv

(* Conditional keeps the invariant.                                        *)
LEMMA ConditionalStep ==
  ASSUME ShellInv, NEW i \in DOMAIN sh, NEW s, s = sh[i], Conditional(i, s),
         UNCHANGED <<typed, lists>>
  PROVE  ShellInv'
<1>1. CASE s.p < Len(Pipes(s))
  BY <1>1, NextPipeline
<1>2. CASE ~(s.p < Len(Pipes(s))) /\ ~s.sub
  BY <1>2, NextConditional
<1>3. CASE ~(s.p < Len(Pipes(s))) /\ s.sub
  BY <1>3, SubshellEnds
<1>. QED BY <1>1, <1>2, <1>3

(* A shell reaps its own children.                                           *)
LEMMA ReapAges ==
  ASSUME ShellInv, NEW i, NEW s, Reap(i, s)
  PROVE  Aged /\ \A j \in DOMAIN sh \ {i} : Untouched(j)
<1>1. Buried(i)
  BY DEF Reap, Buried
<1>. QED BY <1>1, BuriedAges

(* Reap keeps the invariant: only the shell's own children are reaped.     *)
LEMMA ReapStep ==
  ASSUME ShellInv, NEW i \in DOMAIN sh, NEW s, s = sh[i], Reap(i, s),
         UNCHANGED <<typed, lists>>
  PROVE  ShellInv'
<1>. DEFINE dead == {x \in DOMAIN procs : procs[x].by = i /\ procs[x].up = "zombie"}
            left == \/ \E x \in DOMAIN procs : procs[x].by = i /\ procs[x].up = "running"
                    \/ \E j \in DOMAIN sh : sh[j].by = i
            e == s.errno \/ ~left
            t == [s EXCEPT !.pc = "prompt", !.errno = e]
<1>1. /\ s.pc = "reap" /\ UNCHANGED <<fg, cut>>
      /\ procs' = [x \in DOMAIN procs |->
              IF x \in dead THEN [procs[x] EXCEPT !.up = "gone"] ELSE procs[x]]
      /\ sh' = [sh EXCEPT ![i] = t]
  BY DEF Reap, Go
<1>2. s \in ShellType /\ PlaceOf(i, s) /\ EndsOf(s, cut)
  BY <1>1, Sits
<1>3. procs \in [DOMAIN procs -> ProcType] /\ DOMAIN procs \subseteq Ids
  BY DEF ShellInv, TypesInv, ProcsTyped
<1>4. Aged /\ \A j \in DOMAIN sh \ {i} : Untouched(j)
  BY ReapAges
<1>5. PICK u : u = t
  OBVIOUS
<1>6. e \in BOOLEAN
  BY <1>2 DEF ShellType
<1>. HIDE DEF e, dead
<1>7. u \in ShellType /\ u.pc = "prompt" /\ u.n = s.n /\ u.ends = s.ends /\ u.pid = s.pid
      /\ u.pgid = s.pgid /\ ~Active(u) /\ u.sub = s.sub
  BY <1>2, <1>5, <1>6 DEF ShellType, Pcs, Active
<1>8. Moves(i, s, u)
  BY <1>1, <1>5, <1>7 DEF Moves
<1>9. PlaceOf(i, u)
  BY <1>1, <1>2, <1>7 DEF PlaceOf, Active
<1>10. RanBefore(i, u)
  BY <1>7 DEF RanBefore
<1>11. JobOf(i, u)'
  <2>1. JobOf(i, s)
    BY Sits
  <2>2. DOMAIN procs' = DOMAIN procs
    BY <1>4 DEF Aged
  <2>. QED BY <1>1, <1>7, <2>1, <2>2 DEF JobOf, Behind
<1>12. EndsOf(u, cut)' /\ ~Lent(s, fg)
  BY <1>1, <1>2, <1>7 DEF EndsOf, Lent
<1>13. Sound(i, s, u)
  BY <1>1, <1>9, <1>10, <1>11, <1>12 DEF Sound, ShellInv, TypesInv
<1>. QED BY <1>4, <1>8, <1>13, MoveSound

(* No command is named like the shell's group, or like none.               *)
LEMMA HomeNoCommand == Home \notin Ids /\ None \notin Ids
  BY DEF Home, None, Ids

(* The first three parts of a command's name.                              *)
LEMMA Prefix ==
  ASSUME NEW a \in Nat, NEW b \in Nat, NEW c \in Nat, NEW d \in Nat
  PROVE  SubSeq(<<a, b, c, d>>, 1, 3) = <<a, b, c>>
<1>. DEFINE l == <<a, b, c, d>>
            m == <<a, b, c>>
            r == SubSeq(l, 1, 3)
<1>1. l \in Seq(Nat) /\ Len(l) = 4 /\ l[1] = a /\ l[2] = b /\ l[3] = c
  OBVIOUS
<1>2. m \in Seq(Nat) /\ Len(m) = 3 /\ m[1] = a /\ m[2] = b /\ m[3] = c
  OBVIOUS
<1>. HIDE DEF l, m
<1>3. r \in Seq(Nat) /\ Len(r) = 3 /\ r[1] = l[1] /\ r[2] = l[2] /\ r[3] = l[3]
  BY <1>1
<1>. HIDE DEF r
<1>4. \A j \in 1..3 : r[j] = m[j]
  BY <1>1, <1>2, <1>3
<1>5. r = m
  BY <1>2, <1>3, <1>4, SeqEqual
<1>. QED BY <1>5 DEF l, m, r

(* Every command has a name of its own. *)
LEMMA NewName ==
  ASSUME ShellInv, NEW i \in DOMAIN sh, NEW s, s = sh[i], s.pc = "run"
  PROVE  /\ Id(s) \in Ids /\ Id(s) \notin DOMAIN procs
         /\ s.n \in 1..Len(lists) /\ (Backgrounded(Id(s)) <=> s.sub)
<1>1. s \in ShellType /\ PlaceOf(i, s) /\ RanBefore(i, s)
  BY Sits
<1>2. Active(s) /\ s.n \in Nat /\ s.c \in Nat /\ s.p \in Nat /\ s.k \in Nat /\ Len(lists) \in Nat
  BY <1>1 DEF Active, ShellType, ShellInv, TypesInv, TypedInv
<1>3. Id(s) \in Ids /\ Id(s)[1] = s.n /\ Id(s)[2] = s.c /\ Id(s)[3] = s.p /\ Id(s)[4] = s.k
  BY <1>2 DEF Id, Ids
<1>4. s.n \in 1..Len(lists) /\ (Backgrounded(Id(s)) <=> s.sub) /\ (s.sub => i = <<s.n, s.c>>)
  <2>1. s.sub \in BOOLEAN /\ (Background(s) <=> s.sub) /\ (s.sub => i = <<s.n, s.c>>)
    BY <1>1, <1>2 DEF PlaceOf, ShellType
  <2>2. Backgrounded(Id(s)) = Background(s)
    BY <1>3 DEF Backgrounded, Background
  <2>3. s.n \in 1..Len(lists)
    BY <1>1, <1>2 DEF PlaceOf
  <2>. QED BY <2>1, <2>2, <2>3
<1>5. ~Before(Id(s), s)
  BY <1>2, <1>3 DEF Before, Behind
<1>6. Id(s) \in DOMAIN procs => Before(Id(s), s)
  <2>1. SUFFICES ASSUME Id(s) \in DOMAIN procs PROVE procs[Id(s)].by = i
    BY <1>1, <1>2, <1>3 DEF RanBefore
  <2>2. CASE s.sub
    BY <1>3, <1>4, <2>1, <2>2 DEF ShellInv, HistoryInv, OwnerInv
  <2>3. CASE ~s.sub
    <3>1. Passed(i, s) /\ ~Backgrounded(Id(s))
      BY <1>2, <1>4, <2>3 DEF Reader, ShellInv, HistoryInv
    <3>. QED BY <1>3, <2>1, <3>1 DEF Passed
  <2>. QED BY <2>2, <2>3
<1>. QED BY <1>3, <1>4, <1>5, <1>6

(* Shell i, in state s, runs its command, which is q, and goes on in t.    *)
Spawned(i, s, q, t) ==
  /\ i \in DOMAIN sh /\ s = sh[i] /\ s.pc = "run" /\ UNCHANGED <<typed, lists, fg, cut>>
  /\ q \in ProcType /\ q.by = i /\ Run(s, Id(s), q)
  /\ q.group \in {Home, Id(s)} \/ Exists(q.group)
  /\ t \in ShellType /\ sh' = [sh EXCEPT ![i] = t]
  /\ t.pc = "ran" /\ t.n = s.n /\ t.c = s.c /\ t.p = s.p /\ t.k = s.k /\ t.sub = s.sub
  /\ \A e \in t.ends : e \in s.ends \/ e[1] = Id(s)
  /\ t.pgid \in {s.pgid, Id(s)} /\ t.pid \in {None, Id(s)}
  /\ t.pid = Id(s) => /\ t.pgid # None /\ q.up # "gone"
                      /\ (q.group = t.pgid \/ (q.group = Home /\ ~Exists(t.pgid)))

(* Running a command keeps the invariant: its name is new, so nobody knows *)
(* it, and no group that has ended comes back.                             *)
LEMMA Spawns ==
  ASSUME ShellInv, NEW i, NEW s, NEW q, NEW t, Spawned(i, s, q, t)
  PROVE  ShellInv'
<1>. USE DEF Spawned
<1>. DEFINE x == Id(s)
<1>1. s \in ShellType /\ PlaceOf(i, s) /\ RanBefore(i, s) /\ JobOf(i, s)
      /\ EndsOf(s, cut)
  BY Sits
<1>2. x \in Ids /\ x \notin DOMAIN procs /\ s.n \in 1..Len(lists) /\ (Backgrounded(x) <=> s.sub)
  BY NewName
<1>3. procs \in [DOMAIN procs -> ProcType] /\ DOMAIN procs \subseteq Ids
      /\ sh \in [DOMAIN sh -> ShellType] /\ DOMAIN sh \subseteq Nat \X Nat
  BY DEF ShellInv, TypesInv, ProcsTyped, ShTyped
<1>4. Active(s) /\ Active(t) /\ Behind(t) /\ Main \in DOMAIN sh
  BY DEF Active, Behind, ShellInv, PlacesInv
<1>5. Id(t) = x /\ x[1] = s.n /\ x[2] = s.c /\ x[3] = s.p /\ x[4] = s.k
      /\ SubSeq(x, 1, 3) = <<s.n, s.c, s.p>>
  <2>1. s.n \in Nat /\ s.c \in Nat /\ s.p \in Nat /\ s.k \in Nat
    BY <1>1 DEF ShellType
  <2>2. SubSeq(x, 1, 3) = <<s.n, s.c, s.p>>
    BY <2>1, Prefix DEF Id
  <2>. QED BY <2>2 DEF Id
<1>6. /\ DOMAIN procs' = DOMAIN procs \cup {x} /\ procs'[x] = q
      /\ \A y \in DOMAIN procs : procs'[y] = procs[y]
      /\ procs' \in [DOMAIN procs' -> ProcType]
  BY <1>2, <1>3 DEF Run
<1>7. /\ DOMAIN sh' = DOMAIN sh /\ sh'[i] = t /\ sh' \in [DOMAIN sh' -> ShellType]
      /\ \A j \in DOMAIN sh \ {i} : sh'[j] = sh[j]
  BY <1>3
<1>. HIDE DEF x
<1>8. \A g \in Ids : g # x /\ Exists(g)' => Exists(g)
  <2>1. SUFFICES ASSUME NEW g \in Ids, g # x, Exists(g)' PROVE Exists(g)
    OBVIOUS
  <2>2. PICK y \in DOMAIN procs' : procs'[y].up # "gone" /\ procs'[y].group = g
    BY <2>1 DEF Exists
  <2>3. CASE y = x
    BY <1>6, <2>1, <2>2, <2>3, HomeNoCommand DEF x
  <2>4. CASE y \in DOMAIN procs
    BY <1>6, <2>2, <2>4 DEF Exists
  <2>. QED BY <1>6, <2>2, <2>3, <2>4
<1>9. TypesInv'
  <2>1. ProcsTyped'
    BY <1>2, <1>3, <1>6 DEF ProcsTyped
  <2>2. ShTyped'
    BY <1>3, <1>7 DEF ShTyped
  <2>. QED BY <2>1, <2>2 DEF ShellInv, TypesInv, TypedInv
<1>10. PlacesInv'
  <2>1. \A j, r : PlaceOf(j, r)' = PlaceOf(j, r)
    BY DEF PlaceOf, Active, Background
  <2>2. PlaceOf(i, t)
    BY <1>1, <1>4 DEF PlaceOf, Background
  <2>3. \A j \in DOMAIN sh : PlaceOf(j, sh[j])
    BY DEF ShellInv, PlacesInv
  <2>4. \A j \in DOMAIN sh : Reader(sh'[j]) => Reader(sh[j]) /\ sh'[j].n = sh[j].n /\ sh'[j].c = sh[j].c
    BY <1>4, <1>7 DEF Reader
  <2>5. \A j \in DOMAIN sh' : Reader(sh[j])' => Ahead(sh[j])'
    BY <1>7, <2>4 DEF ShellInv, PlacesInv, Ahead, Reader, Active
  <2>6. Apart'
    BY <1>7, <2>4 DEF ShellInv, PlacesInv, Apart, Reader, Active
  <2>. QED BY <1>4, <1>7, <2>1, <2>2, <2>3, <2>5, <2>6 DEF PlacesInv
<1>11. HistoryInv'
  <2>0. \A y : Backgrounded(y)' = Backgrounded(y)
    BY DEF Backgrounded
  <2>1. OwnerInv'
    <3>1. x[1] \in 1..Len(lists) /\ (Backgrounded(x) => procs'[x].by = <<x[1], x[2]>>)
      BY <1>1, <1>2, <1>5, <1>6 DEF PlaceOf
    <3>. QED BY <1>6, <2>0, <3>1 DEF ShellInv, HistoryInv, OwnerInv
  <2>2. ASSUME NEW j \in DOMAIN sh, Reader(sh'[j]) PROVE Passed(j, sh[j])'
    <3>1. Reader(sh[j]) /\ sh'[j].n = sh[j].n /\ sh'[j].c = sh[j].c
      BY <1>4, <1>7, <2>2 DEF Reader
    <3>2. Passed(j, sh[j]) /\ Ahead(sh[j])
      BY <3>1 DEF ShellInv, HistoryInv, PlacesInv
    <3>3. x[1] = sh[j].n => IF Backgrounded(x) THEN x[2] < sh[j].c ELSE procs'[x].by = j
      <4>1. SUFFICES ASSUME x[1] = sh[j].n
                     PROVE  IF s.sub THEN x[2] < sh[j].c ELSE i = j
        BY <1>2, <1>6
      <4>2. CASE s.sub
        <5>1. i = <<x[1], x[2]>> /\ i # Main
          BY <1>1, <1>2, <1>5, <4>2 DEF PlaceOf, Main
        <5>. QED BY <3>2, <4>1, <4>2, <5>1 DEF Ahead
      <4>3. CASE ~s.sub
        BY <1>4, <1>5, <3>1, <4>1, <4>3 DEF ShellInv, PlacesInv, Apart, Reader
      <4>. QED BY <4>2, <4>3
    <3>. QED BY <1>6, <2>0, <3>1, <3>2, <3>3 DEF Passed
  <2>3. ASSUME NEW j \in DOMAIN sh PROVE RanBefore(j, sh[j])'
    <3>1. CASE j = i
      <4>1. SUFFICES ASSUME NEW y \in DOMAIN procs', procs'[y].by = i, y[1] = t.n
                     PROVE  Before(y, t)
        BY <1>7, <3>1 DEF RanBefore, Before, Behind
      <4>2. CASE y = x
        BY <1>4, <1>5, <4>2 DEF Before
      <4>3. CASE y \in DOMAIN procs
        <5>1. Before(y, s)
          BY <1>1, <1>4, <1>6, <4>1, <4>3 DEF RanBefore
        <5>. QED BY <1>4, <5>1 DEF Before
      <4>. QED BY <1>6, <4>1, <4>2, <4>3
    <3>2. CASE j # i
      <4>1. RanBefore(j, sh[j]) /\ sh'[j] = sh[j] /\ procs'[x].by # j
        BY <1>6, <1>7, <3>2 DEF ShellInv, HistoryInv
      <4>. QED BY <1>6, <4>1 DEF RanBefore, Before, Behind, Active
    <3>. QED BY <3>1, <3>2
  <2>4. \A j \in DOMAIN sh' : Reader(sh[j])' <=> Reader(sh'[j])
    BY DEF Reader, Active
  <2>. QED BY <1>7, <2>1, <2>2, <2>3, <2>4 DEF HistoryInv
<1>12. JobsInv'
  <2>1. SUFFICES ASSUME NEW j \in DOMAIN sh PROVE JobOf(j, sh[j])'
    BY <1>7 DEF JobsInv
  <2>2. CASE j # i
    <3>1. PICK r : r = sh[j]
      OBVIOUS
    <3>2. JobOf(j, r) /\ sh'[j] = r
      BY <1>7, <2>2, <3>1 DEF ShellInv, JobsInv
    <3>3. r.pgid # None => r.pgid \in DOMAIN procs /\ (~Exists(r.pgid) => ~Exists(r.pgid)')
      BY <1>2, <1>3, <1>8, <3>2 DEF JobOf
    <3>4. r.pid # None => r.pid \in DOMAIN procs'/\ procs'[r.pid] = procs[r.pid]
      BY <1>6, <3>2 DEF JobOf
    <3>5. JobOf(j, r)'
      BY <1>6, <3>2, <3>3, <3>4 DEF JobOf, Behind, Id
    <3>. QED BY <3>2, <3>5
  <2>3. CASE j = i
    <3>1. s.pgid # None => s.pgid \in DOMAIN procs
      BY <1>1 DEF JobOf
    <3>2. t.pid # None =>
            /\ t.pid = Id(t) /\ t.pid \in DOMAIN procs' /\ procs'[t.pid].by = i
            /\ t.pgid # None /\ procs'[t.pid].up # "gone"
            /\ procs'[t.pid].group = t.pgid \/ ~Exists(t.pgid)'
      <4>1. SUFFICES ASSUME t.pid = x
                     PROVE  t.pgid # None /\ q.up # "gone" /\ (q.group = t.pgid \/ ~Exists(t.pgid)')
        BY <1>5, <1>6 DEF x
      <4>2. CASE t.pgid = x
        <5>1. q.group = x \/ (q.group = Home /\ ~Exists(x))
          BY <4>1, <4>2 DEF x
        <5>2. q.group = Home /\ ~Exists(x) => ~Exists(x)'
          BY <1>2, <1>6, HomeNoCommand DEF Exists
        <5>. QED BY <4>1, <4>2, <5>1, <5>2 DEF x
      <4>3. CASE t.pgid # x
        BY <1>3, <1>8, <3>1, <4>1, <4>3 DEF x
      <4>. QED BY <4>2, <4>3
    <3>3. t.pgid # None => t.pgid \in DOMAIN procs'
      BY <1>6, <3>1 DEF x
    <3>4. JobOf(i, t)'
      BY <1>4, <3>2, <3>3 DEF JobOf, Behind, Id
    <3>. QED BY <1>7, <2>3, <3>4
  <2>. QED BY <2>2, <2>3
<1>13. EndsInv'
  <2>1. EndsOf(t, cut)'
    BY <1>1, <1>5 DEF EndsOf, x
  <2>2. ASSUME NEW m \in DOMAIN sh \ {i} PROVE EndsOf(sh[m], cut)'
    <3>1. PICK w : w = sh[m]
      OBVIOUS
    <3>2. EndsOf(w, cut) /\ sh'[m] = w
      BY <1>7, <3>1 DEF ShellInv, EndsInv
    <3>3. EndsOf(w, cut)'
      BY <3>2 DEF EndsOf, Background
    <3>. QED BY <3>2, <3>3
  <2>. QED BY <1>7, <2>1, <2>2 DEF EndsInv
<1>14. TerminalInv'
  <2>1. SUFFICES ASSUME fg # Home PROVE \E j \in DOMAIN sh' : Lent(sh[j], fg)'
    BY DEF TerminalInv
  <2>2. PICK j \in DOMAIN sh : Lent(sh[j], fg)
    BY <2>1 DEF ShellInv, TerminalInv
  <2>3. sh'[j] = sh[j]
    BY <1>7, <2>2 DEF Lent
  <2>4. JobOf(j, sh[j])
    BY DEF ShellInv, JobsInv
  <2>5. procs'[sh[j].pid] = procs[sh[j].pid]
    BY <1>6, <2>2, <2>4 DEF Lent, JobOf
  <2>. QED BY <1>7, <2>2, <2>3, <2>5 DEF Lent
<1>. QED BY <1>9, <1>10, <1>11, <1>12, <1>13, <1>14 DEF ShellInv

(* RunBuiltin keeps the invariant.                                         *)
LEMMA RunBuiltinStep ==
  ASSUME ShellInv, NEW i \in DOMAIN sh, NEW s, s = sh[i], RunBuiltin(i, s),
         UNCHANGED <<typed, lists>>
  PROVE  ShellInv'
<1>1. s.pc = "run" /\ UNCHANGED <<fg, cut>>
  BY DEF RunBuiltin
<1>2. s \in ShellType /\ JobOf(i, s) /\ i \in Nat \X Nat
  BY Sits DEF ShellInv, TypesInv, ShTyped
<1>3. PICK ok \in BOOLEAN :
        LET cd    == Commands(s)[s.k] = "cd"
            errno == s.errno \/ (cd /\ ~ok)
        IN  /\ Run(s, Id(s), [up |-> "gone", kind |-> "any", ok |-> ok, group |-> Home,
                              by |-> i, ends |-> {}])
            /\ Go(i, [s EXCEPT !.pc = "ran", !.errno = errno,
                        !.ok = IF cd THEN ~errno ELSE @])
  BY DEF RunBuiltin
<1>. DEFINE cd == Commands(s)[s.k] = "cd"
            errno == s.errno \/ (cd /\ ~ok)
            good == IF cd THEN ~errno ELSE s.ok
            q == [up |-> "gone", kind |-> "any", ok |-> ok, group |-> Home, by |-> i, ends |-> {}]
            t == [s EXCEPT !.pc = "ran", !.errno = errno, !.ok = good]
<1>4. PICK u : u = t
  OBVIOUS
<1>5. Run(s, Id(s), q) /\ sh' = [sh EXCEPT ![i] = u]
  BY <1>3, <1>4 DEF Go
<1>6. q \in ProcType /\ q.by = i /\ q.group = Home
  BY <1>2 DEF ProcType
<1>7. errno \in BOOLEAN /\ good \in BOOLEAN
  BY <1>2 DEF ShellType
<1>. HIDE DEF q, errno, good
<1>8. /\ u \in ShellType /\ u.pc = "ran" /\ u.n = s.n /\ u.c = s.c /\ u.p = s.p /\ u.k = s.k
      /\ u.ends = s.ends /\ u.pid = s.pid /\ u.pgid = s.pgid /\ u.sub = s.sub
  BY <1>2, <1>4, <1>7 DEF ShellType, Pcs
<1>9. u.pid = None /\ None # Id(s)
  BY <1>1, <1>2, <1>8, NewName, HomeNoCommand DEF JobOf, Behind
<1>10. q.group \in {Home, Id(s)} \/ Exists(q.group)
  BY <1>6
<1>11. \A e \in u.ends : e \in s.ends \/ e[1] = Id(s)
  BY <1>8
<1>12. u.pid \in {None, Id(s)} /\ u.pgid \in {s.pgid, Id(s)}
  BY <1>8, <1>9
<1>13. u.pid = Id(s) => /\ u.pgid # None /\ q.up # "gone"
                        /\ (q.group = u.pgid \/ (q.group = Home /\ ~Exists(u.pgid)))
  BY <1>9
<1>14. UNCHANGED <<typed, lists, fg, cut>>
  BY <1>1
<1>15. Spawned(i, s, q, u)
  BY <1>1, <1>5, <1>6, <1>8, <1>10, <1>11, <1>12, <1>13, <1>14 DEF Spawned
<1>. QED BY <1>15, Spawns

(* RunProgram keeps the invariant.                                         *)
LEMMA RunProgramStep ==
  ASSUME ShellInv, NEW i \in DOMAIN sh, NEW s, s = sh[i], RunProgram(i, s),
         UNCHANGED <<typed, lists>>
  PROVE  ShellInv'
<1>. DEFINE x      == Id(s)
            writes == s.k < Len(Commands(s))
            joins  == s.pgid # None
            fails  == joins /\ ~Exists(s.pgid)
            group  == IF fails THEN Home ELSE IF joins THEN s.pgid ELSE x
            pgid   == IF joins THEN s.pgid ELSE x
            all    == s.ends \cup IF writes THEN {<<x, "w">>} ELSE {}
            kept   == s.ends \cup IF writes THEN ParentEnds(x) ELSE {}
            errno(late) == s.errno \/ fails \/ late
            t(late) == [s EXCEPT !.pc = "ran", !.pid = x, !.pgid = pgid, !.errno = errno(late),
                                 !.ends = kept]
<1>1. s.pc = "run" /\ UNCHANGED <<fg, cut>>
  BY DEF RunProgram
<1>2. s \in ShellType /\ JobOf(i, s) /\ i \in Nat \X Nat
  BY Sits DEF ShellInv, TypesInv, ShTyped
<1>3. x \in Ids /\ x # None
  BY <1>1, NewName, HomeNoCommand
<1>4. PICK kind \in {"any", "source", "filter"} :
        Run(s, x, [up |-> "running", kind |-> kind, ok |-> FALSE, group |-> group,
                   by |-> i, ends |-> all])
  BY DEF RunProgram
<1>. DEFINE q == [up |-> "running", kind |-> kind, ok |-> FALSE, group |-> group,
                  by |-> i, ends |-> all]
<1>5. PICK late \in BOOLEAN : Go(i, t(late))
  BY DEF RunProgram
<1>5a. PICK u : u = t(late)
  OBVIOUS
<1>6. sh' = [sh EXCEPT ![i] = u]
  BY <1>5, <1>5a DEF Go
<1>7. /\ group \in Ids \cup {Home} /\ pgid \in Ids /\ errno(late) \in BOOLEAN
      /\ all \in SUBSET Ends /\ kept \in SUBSET Ends
  BY <1>2, <1>3 DEF ShellType, ParentEnds, Ends
<1>8. \A e \in kept : e \in s.ends \/ e[1] = x
  BY DEF ParentEnds
<1>9. group \in {Home, x} \/ Exists(group)
  OBVIOUS
<1>10. pgid \in {s.pgid, x} /\ pgid # None
       /\ (group = pgid \/ (group = Home /\ ~Exists(pgid)))
  BY <1>3
<1>. HIDE DEF x, group, pgid, all, kept, errno
<1>11. PICK r : r = q
  OBVIOUS
<1>12. r \in ProcType /\ r.by = i /\ r.group = group /\ r.up = "running"
  BY <1>2, <1>7, <1>11 DEF ProcType
<1>13. /\ u \in ShellType /\ u.pc = "ran" /\ u.n = s.n /\ u.c = s.c /\ u.p = s.p /\ u.k = s.k
       /\ u.ends = kept /\ u.pid = x /\ u.pgid = pgid /\ u.sub = s.sub
  BY <1>2, <1>3, <1>5a, <1>7 DEF ShellType, Pcs
<1>14. Run(s, x, r)
  BY <1>4, <1>11
<1>15. Spawned(i, s, r, u)
  BY <1>1, <1>6, <1>8, <1>9, <1>10, <1>12, <1>13, <1>14 DEF x, Spawned
<1>. QED BY <1>15, Spawns

(* The shells stay as they are. *)
LEMMA OthersAge ==
  ASSUME ShellInv, Aged, \A j \in DOMAIN sh : Untouched(j),
         UNCHANGED <<typed, lists, sh, fg, cut>>
  PROVE  ShellInv'
<1>1. PICK s : s = sh[Main]
  OBVIOUS
<1>2. Main \in DOMAIN sh
  BY DEF ShellInv, PlacesInv
<1>3. s \in ShellType /\ PlaceOf(Main, s) /\ RanBefore(Main, s) /\ JobOf(Main, s)
      /\ EndsOf(s, cut)
  BY <1>1, <1>2, Sits
<1>4. Moves(Main, s, s)
  BY <1>1, <1>2, <1>3 DEF Moves, ShellType, ShellInv, TypesInv, ShTyped
<1>5. JobOf(Main, s)'
  BY <1>2, <1>3, JobKept
<1>6. EndsOf(s, cut)'
  BY <1>3 DEF EndsOf, Background
<1>7. Lent(s, fg) => Lent(s, fg)'
  <2>1. PICK g : g = fg
    OBVIOUS
  <2>. QED BY <1>3, <2>1, LentKept
<1>8. Sound(Main, s, s)
  BY <1>3, <1>5, <1>6, <1>7 DEF Sound, ShellInv, TypesInv
<1>. QED BY <1>4, <1>8, MoveSound

(* A program that ends is a step of the commands,                          *)
LEMMA ProgramEndsAges ==
  ASSUME ShellInv, NEW x \in DOMAIN procs, ProgramEnds(x)
  PROVE  Aged /\ \A j \in DOMAIN sh : Untouched(j)
<1>1. procs \in [DOMAIN procs -> ProcType] /\ DOMAIN procs \subseteq Ids
  BY DEF ShellInv, TypesInv, ProcsTyped
<1>2. procs[x].up = "running"
  BY DEF ProgramEnds
<1>3. PICK ok \in BOOLEAN : Ended(x, ok)
  BY DEF ProgramEnds
<1>. DEFINE up == IF procs[x].by \in DOMAIN sh THEN "zombie" ELSE "gone"
            q == [procs[x] EXCEPT !.ok = ok, !.ends = {}, !.up = up]
<1>4. q \in ProcType /\ q.by = procs[x].by /\ q.group = procs[x].group /\ q.up = up
  BY <1>1 DEF ProcType
<1>5. procs' = [procs EXCEPT ![x] = q]
  BY <1>3 DEF Ended
<1>. HIDE DEF q
<1>6. DOMAIN procs' = DOMAIN procs /\ procs' \in [DOMAIN procs -> ProcType] /\ procs'[x] = q
      /\ \A y \in DOMAIN procs \ {x} : procs'[y] = procs[y]
  BY <1>1, <1>4, <1>5
<1>7. Aged
  BY <1>1, <1>2, <1>4, <1>6 DEF Aged, ProcsTyped
<1>8. \A j \in DOMAIN sh : Untouched(j)
  BY <1>4, <1>6 DEF Untouched
<1>. QED BY <1>7, <1>8

(* ProgramEnds keeps the invariant.                                        *)
LEMMA ProgramEndsStep ==
  ASSUME ShellInv, NEW x \in DOMAIN procs, ProgramEnds(x)
  PROVE  ShellInv'
<1>1. UNCHANGED <<typed, lists, sh, fg, cut>>
  BY DEF ProgramEnds
<1>. QED BY <1>1, ProgramEndsAges, OthersAge

(* ReadLine keeps the invariant: nothing of the new line has been run.     *)
LEMMA ReadLineStep ==
  ASSUME ShellInv, ReadLine
  PROVE  ShellInv'
<1>. DEFINE n == Len(typed) + 1
<1>1. PICK i \in DOMAIN sh : sh[i].pc = "prompt" /\ Go(i, Fresh(sh[i], n))
  BY DEF ReadLine
<1>2. PICK s : s = sh[i]
  OBVIOUS
<1>3. PICK t : t = Fresh(s, n)
  OBVIOUS
<1>4. s \in ShellType /\ PlaceOf(i, s) /\ JobOf(i, s) /\ EndsOf(s, cut)
  BY <1>2, Sits
<1>5. /\ typed \in Seq(Typable) /\ lists \in Seq(Parsed) /\ Len(lists) = Len(typed)
      /\ procs \in [DOMAIN procs -> ProcType] /\ DOMAIN procs \subseteq Ids
      /\ sh \in [DOMAIN sh -> ShellType] /\ DOMAIN sh \subseteq Nat \X Nat
  BY DEF ShellInv, TypesInv, TypedInv, ProcsTyped, ShTyped
<1>6. s.pc = "prompt" /\ n <= Len(Lines) /\ UNCHANGED <<procs, fg, cut>>
      /\ sh' = [sh EXCEPT ![i] = t]
  BY <1>1, <1>2, <1>3 DEF ReadLine, Go
<1>7. PICK tokens \in Lines[n] :
        typed' = Append(typed, tokens) /\ lists' = Append(lists, ParseLine(tokens))
  BY DEF ReadLine
<1>8. n \in DOMAIN Lines
  BY <1>5, <1>6, ShellAssumption
<1>9. TypedInv'
  <2>1. tokens \in Typable /\ ParseLine(tokens) \in Parsed
    BY <1>7, <1>8 DEF Typable, Parsed
  <2>. QED BY <1>5, <1>7, <2>1 DEF TypedInv
<1>10. Len(lists') = n /\ n \in Nat /\ n > Len(lists) /\ Len(lists) \in Nat
       /\ \A j \in 1..Len(lists) : lists'[j] = lists[j]
  BY <1>5, <1>7
<1>11. /\ t \in ShellType /\ t.pc = "top" /\ t.n = n /\ t.pid = None /\ t.pgid = None
       /\ t.ends = s.ends /\ Active(t) /\ ~t.sub
  BY <1>3, <1>4, <1>6, <1>10 DEF Fresh, ShellType, Pcs, Active, PlaceOf
<1>12. DOMAIN sh' = DOMAIN sh /\ sh'[i] = t /\ sh' \in [DOMAIN sh' -> ShellType]
       /\ \A j \in DOMAIN sh \ {i} : sh'[j] = sh[j]
  BY <1>5, <1>6, <1>11
<1>. HIDE DEF n
<1>13. TypesInv'
  BY <1>5, <1>6, <1>9, <1>12 DEF TypesInv, ShTyped, ProcsTyped, ShellInv
<1>14. \A j \in DOMAIN sh : PlaceOf(j, sh[j]) /\ (j # Main => j[1] \in 1..Len(lists))
       /\ sh[j].n \in 0..Len(lists)
  BY DEF ShellInv, PlacesInv, PlaceOf
<1>15. \A j \in DOMAIN sh' : Reader(sh[j])' <=> Reader(sh'[j])
  BY DEF Reader, Active
<1>16. PlacesInv'
  <2>1. PlaceOf(i, t)'
    BY <1>10, <1>11, <1>14 DEF PlaceOf, Active
  <2>2. ASSUME NEW j \in DOMAIN sh, j # i PROVE PlaceOf(j, sh[j])'
    <3>1. sh'[j] = sh[j] /\ PlaceOf(j, sh[j])
      BY <1>12, <1>14, <2>2
    <3>2. Active(sh[j]) => lists'[sh[j].n] = lists[sh[j].n]
      BY <1>10, <3>1 DEF PlaceOf
    <3>3. \A k \in 0..Len(lists) : k \in 0..Len(lists')
      BY <1>10
    <3>4. j # Main => j[1] \in 1..Len(lists')
      BY <1>10, <1>14
    <3>. QED BY <3>1, <3>2, <3>3, <3>4 DEF PlaceOf, Active, Background
  <2>3. ASSUME NEW j \in DOMAIN sh, Reader(sh'[j]) PROVE Ahead(sh[j])'
    <3>1. CASE j = i
      <4>1. \A m \in DOMAIN sh \ {Main} : m[1] # t.n
        BY <1>10, <1>11, <1>14
      <4>. QED BY <1>12, <3>1, <4>1 DEF Ahead
    <3>2. CASE j # i
      <4>1. sh'[j] = sh[j] /\ Ahead(sh[j])
        BY <1>12, <2>3, <3>2 DEF ShellInv, PlacesInv
      <4>. QED BY <1>12, <4>1 DEF Ahead
    <3>. QED BY <3>1, <3>2
  <2>4. Apart'
    <3>1. \A j \in DOMAIN sh \ {i} : sh'[j].n # t.n
      BY <1>10, <1>11, <1>12, <1>14
    <3>2. \A j, m \in DOMAIN sh \ {i} : j # m /\ Reader(sh'[j]) /\ Reader(sh'[m]) => sh'[j].n # sh'[m].n
      BY <1>12 DEF ShellInv, PlacesInv, Apart
    <3>. QED BY <1>12, <1>15, <3>1, <3>2 DEF Apart
  <2>. QED BY <1>12, <1>15, <2>1, <2>2, <2>3, <2>4 DEF ShellInv, PlacesInv
<1>17. HistoryInv'
  <2>1. \A x \in DOMAIN procs :
          x[1] \in 1..Len(lists) /\ (Backgrounded(x) => procs[x].by = <<x[1], x[2]>>)
    BY DEF ShellInv, HistoryInv, OwnerInv
  <2>2. \A x \in DOMAIN procs : x[1] # t.n /\ Backgrounded(x)' = Backgrounded(x)
    BY <1>10, <1>11, <2>1 DEF Backgrounded
  <2>3. OwnerInv'
    <3>1. \A x \in DOMAIN procs : x[1] \in 1..Len(lists')
      BY <1>10, <2>1
    <3>. QED BY <1>6, <2>1, <2>2, <3>1 DEF OwnerInv
  <2>4. Passed(i, t)' /\ RanBefore(i, t)'
    BY <1>6, <2>2 DEF Passed, RanBefore
  <2>5. ASSUME NEW j \in DOMAIN sh, j # i
        PROVE  RanBefore(j, sh[j])' /\ (Reader(sh'[j]) => Passed(j, sh[j])')
    <3>1. sh'[j] = sh[j] /\ RanBefore(j, sh[j]) /\ (Reader(sh[j]) => Passed(j, sh[j]))
      BY <1>12, <2>5 DEF ShellInv, HistoryInv
    <3>2. RanBefore(j, sh[j])'
      BY <1>6, <3>1 DEF RanBefore, Active, Before, Behind
    <3>3. Reader(sh[j]) => Passed(j, sh[j])'
      BY <1>6, <2>2, <3>1 DEF Passed
    <3>. QED BY <3>1, <3>2, <3>3
  <2>. QED BY <1>12, <1>15, <2>3, <2>4, <2>5 DEF HistoryInv
<1>18. JobsInv'
  <2>1. JobOf(i, t)'
    BY <1>11 DEF JobOf
  <2>2. ASSUME NEW j \in DOMAIN sh, j # i PROVE JobOf(j, sh[j])'
    <3>1. sh'[j] = sh[j] /\ JobOf(j, sh[j])
      BY <1>12, <2>2 DEF ShellInv, JobsInv
    <3>. QED BY <1>6, <3>1 DEF JobOf, Behind, Id, Exists
  <2>. QED BY <1>12, <2>1, <2>2 DEF JobsInv
<1>19. EndsInv'
  <2>1. ~cut => s.ends = {}
    BY <1>2, <1>4, <1>6 DEF EndsOf
  <2>2. EndsOf(t, cut)'
    BY <1>6, <1>11, <2>1 DEF EndsOf
  <2>3. ASSUME NEW j \in DOMAIN sh, j # i PROVE EndsOf(sh[j], cut)'
    <3>1. sh'[j] = sh[j] /\ EndsOf(sh[j], cut) /\ PlaceOf(j, sh[j])
      BY <1>12, <1>14, <2>3 DEF ShellInv, EndsInv
    <3>2. Active(sh[j]) => Background(sh[j])' = Background(sh[j])
      BY <1>10, <3>1 DEF PlaceOf, Background
    <3>. QED BY <1>6, <3>1, <3>2 DEF EndsOf, Active
  <2>. QED BY <1>12, <2>2, <2>3 DEF EndsInv
<1>20. TerminalInv'
  <2>1. ~Lent(sh[i], fg)
    BY <1>1 DEF Lent
  <2>2. Aged
    BY <1>6, Idle DEF ShellInv
  <2>. QED BY <1>6, <1>12, <2>1, <2>2, TerminalStays DEF ShellInv
<1>. QED BY <1>13, <1>16, <1>17, <1>18, <1>19, <1>20 DEF ShellInv

(* What an interrupt does to a shell that catches it. *)
Caught(s, t) ==
  /\ t \in ShellType /\ t.n = s.n /\ t.c = s.c /\ t.p = s.p /\ t.k = s.k /\ t.ends = s.ends
  /\ t.pid = s.pid /\ t.pgid = s.pgid /\ t.run = s.run /\ t.ok = s.ok
  /\ t.sub = s.sub
  /\ \/ t.pc = s.pc
     \/ s.pc = "wait" /\ t.pc = "eintr"
     \/ s.pc = "prompt" /\ t.pc = "reap"

(* Shells that catch an interrupt keep the invariant.                      *)
LEMMA CaughtSound ==
  ASSUME ShellInv, Aged, \A j \in DOMAIN sh : Untouched(j), fg = Home,
         UNCHANGED <<typed, lists, fg, cut>>,
         sh' \in [DOMAIN sh -> ShellType], \A j \in DOMAIN sh : Caught(sh[j], sh'[j])
  PROVE  ShellInv'
<1>1. DOMAIN sh' = DOMAIN sh /\ Main \in DOMAIN sh
  BY DEF ShellInv, PlacesInv
<1>2. TypesInv'
  BY <1>1 DEF ShellInv, TypesInv, TypedInv, ShTyped, Aged
<1>3. /\ \A j \in DOMAIN sh : Active(sh[j])' = Active(sh[j])
      /\ \A j \in DOMAIN sh : Behind(sh[j])' = Behind(sh[j])
      /\ \A j \in DOMAIN sh : Reader(sh[j])' = Reader(sh[j])
  BY <1>1 DEF Active, Behind, Caught, Reader
<1>4. PlacesInv'
  <2>1. ASSUME NEW j \in DOMAIN sh PROVE PlaceOf(j, sh[j])'
    <3>1. Background(sh[j])' = Background(sh[j])
      BY DEF Background, Caught
    <3>2. PlaceOf(j, sh[j])
      BY DEF ShellInv, PlacesInv
    <3>. QED BY <1>3, <3>1, <3>2 DEF PlaceOf, Caught
  <2>2. ASSUME NEW j \in DOMAIN sh, Reader(sh[j]) PROVE Ahead(sh[j])'
    <3>1. Ahead(sh[j]) /\ Caught(sh[j], sh'[j])
      BY <2>2 DEF ShellInv, PlacesInv
    <3>. QED BY <1>1, <3>1 DEF Ahead, Caught
  <2>3. Apart'
    <3>1. \A j \in DOMAIN sh : sh'[j].n = sh[j].n
      BY DEF Caught
    <3>. QED BY <1>1, <1>3, <3>1 DEF ShellInv, PlacesInv, Apart
  <2>. QED BY <1>1, <1>3, <2>1, <2>2, <2>3 DEF PlacesInv
<1>5. DOMAIN procs' = DOMAIN procs /\ \A x \in DOMAIN procs : procs'[x].by = procs[x].by
  BY DEF Aged
<1>6. HistoryInv'
  <2>1. OwnerInv'
    BY <1>5 DEF ShellInv, HistoryInv, OwnerInv, Backgrounded
  <2>2. ASSUME NEW j \in DOMAIN sh, Reader(sh[j]) PROVE Passed(j, sh[j])'
    <3>1. Passed(j, sh[j]) /\ Caught(sh[j], sh'[j])
      BY <2>2 DEF ShellInv, HistoryInv
    <3>. QED BY <1>5, <3>1 DEF Passed, Caught, Backgrounded
  <2>3. ASSUME NEW j \in DOMAIN sh PROVE RanBefore(j, sh[j])'
    <3>1. \A x : Before(x, sh[j])' = Before(x, sh[j])
      BY <1>3 DEF Before, Caught
    <3>2. RanBefore(j, sh[j])
      BY DEF ShellInv, HistoryInv
    <3>3. Caught(sh[j], sh'[j])
      OBVIOUS
    <3>. QED BY <1>3, <1>5, <3>1, <3>2, <3>3 DEF RanBefore, Caught
  <2>. QED BY <1>1, <1>3, <2>1, <2>2, <2>3 DEF HistoryInv
<1>7. JobsInv'
  <2>1. SUFFICES ASSUME NEW j \in DOMAIN sh PROVE JobOf(j, sh[j])'
    BY <1>1 DEF JobsInv
  <2>2. PICK s : s = sh[j]
    OBVIOUS
  <2>3. JobOf(j, s)
    BY <2>2 DEF ShellInv, JobsInv
  <2>4. JobOf(j, s)'
    BY <2>3, JobKept
  <2>5. PICK t : t = sh'[j]
    OBVIOUS
  <2>6. Caught(s, t)
    BY <2>2, <2>5
  <2>7. s.pc = "wait" => s.pid # None
    BY <2>3 DEF JobOf
  <2>8. Id(t)' = Id(s)' /\ (Behind(s) <=> Behind(t))
    BY <2>6 DEF Id, Behind, Caught
  <2>9. JobOf(j, t)'
    BY <2>4, <2>6, <2>7, <2>8 DEF JobOf, Caught, Behind
  <2>. QED BY <2>5, <2>9
<1>8. EndsInv'
  <2>1. SUFFICES ASSUME NEW j \in DOMAIN sh PROVE EndsOf(sh[j], cut)'
    BY <1>1 DEF EndsInv
  <2>2. PICK s : s = sh[j]
    OBVIOUS
  <2>3. PICK t : t = sh'[j]
    OBVIOUS
  <2>4. Caught(s, t) /\ EndsOf(s, cut)
    BY <2>2, <2>3 DEF ShellInv, EndsInv
  <2>5. EndsOf(t, cut)'
    BY <2>4 DEF EndsOf, Caught, Background
  <2>. QED BY <2>3, <2>5
<1>9. TerminalInv'
  BY DEF TerminalInv
<1>. QED BY <1>2, <1>4, <1>6, <1>7, <1>8, <1>9 DEF ShellInv

(* and so is an interrupt, which ends several.                             *)
LEMMA InterruptAges ==
  ASSUME ShellInv, Interrupt
  PROVE  Aged /\ \A j \in DOMAIN sh : Untouched(j)
<1>1. procs \in [DOMAIN procs -> ProcType] /\ DOMAIN procs \subseteq Ids
  BY DEF ShellInv, TypesInv, ProcsTyped
<1>. DEFINE Hit(x) == procs[x].up = "running" /\ procs[x].group = fg
            up(x) == IF procs[x].by \in DOMAIN sh THEN "zombie" ELSE "gone"
            q(x) == [procs[x] EXCEPT !.ok = FALSE, !.ends = {}, !.up = up(x)]
<1>2. procs' = [x \in DOMAIN procs |-> IF Hit(x) THEN q(x) ELSE procs[x]]
  BY DEF Interrupt
<1>3. ASSUME NEW x \in DOMAIN procs
      PROVE  /\ q(x) \in ProcType /\ q(x).by = procs[x].by /\ q(x).group = procs[x].group
             /\ q(x).up = up(x)
  BY <1>1 DEF ProcType
<1>. HIDE DEF q
<1>4. DOMAIN procs' = DOMAIN procs
      /\ \A x \in DOMAIN procs : procs'[x] = IF Hit(x) THEN q(x) ELSE procs[x]
  BY <1>2
<1>5. procs' \in [DOMAIN procs' -> ProcType]
  BY <1>1, <1>2, <1>3, <1>4
<1>6. Aged
  BY <1>1, <1>3, <1>4, <1>5 DEF Aged, ProcsTyped
<1>7. \A j \in DOMAIN sh : Untouched(j)
  BY <1>3, <1>4 DEF Untouched
<1>. QED BY <1>6, <1>7

(* Shells that are in the foreground group catch it. *)
LEMMA InterruptCaught ==
  ASSUME ShellInv, Interrupt, fg = Home
  PROVE  sh' \in [DOMAIN sh -> ShellType] /\ \A j \in DOMAIN sh : Caught(sh[j], sh'[j])
<1>1. PICK within \in SUBSET {i \in DOMAIN sh : sh[i].pc \in {"wait", "prompt"}} :
        sh' = [i \in DOMAIN sh |->
                 [(IF i \in within THEN Broken(sh[i]) ELSE sh[i]) EXCEPT !.int = TRUE]]
  BY DEF Interrupt
<1>2. ASSUME NEW i \in DOMAIN sh PROVE sh'[i] \in ShellType /\ Caught(sh[i], sh'[i])
  <2>1. sh[i] \in ShellType
    BY DEF ShellInv, TypesInv, ShTyped
  <2>2. CASE i \notin within
    <3>1. sh'[i] = [sh[i] EXCEPT !.int = TRUE]
      BY <1>1, <2>2
    <3>. QED BY <2>1, <3>1 DEF Caught, ShellType
  <2>3. CASE i \in within /\ sh[i].pc = "wait"
    <3>1. sh'[i] = [[sh[i] EXCEPT !.pc = "eintr"] EXCEPT !.int = TRUE]
      BY <1>1, <2>3 DEF Broken
    <3>. QED BY <2>1, <2>3, <3>1 DEF Caught, ShellType, Pcs
  <2>4. CASE i \in within /\ sh[i].pc = "prompt"
    <3>1. sh'[i] = [[sh[i] EXCEPT !.pc = "reap", !.errno = TRUE] EXCEPT !.int = TRUE]
      BY <1>1, <2>4 DEF Broken
    <3>. QED BY <2>1, <2>4, <3>1 DEF Caught, ShellType, Pcs
  <2>. QED BY <2>2, <2>3, <2>4
<1>3. sh' \in [DOMAIN sh -> ShellType]
  BY <1>1, <1>2
<1>. QED BY <1>2, <1>3

(* Interrupt keeps the invariant.                                          *)
LEMMA InterruptStep ==
  ASSUME ShellInv, Interrupt
  PROVE  ShellInv'
<1>1. UNCHANGED <<typed, lists, fg, cut>>
  BY DEF Interrupt
<1>2. CASE fg # Home
  <2>1. sh' = sh
    BY <1>2 DEF Interrupt
  <2>. QED BY <1>1, <2>1, InterruptAges, OthersAge
<1>3. CASE fg = Home
  BY <1>1, <1>3, InterruptAges, InterruptCaught, CaughtSound
<1>. QED BY <1>2, <1>3

(* The invariant holds in the beginning.                                   *)
LEMMA InitSound ==
  ASSUME Init
  PROVE  ShellInv
<1>1. /\ typed = << >> /\ lists = << >> /\ procs = << >> /\ fg = Home /\ cut = FALSE
      /\ DOMAIN procs = {} /\ DOMAIN sh = {Main}
      /\ sh[Main] = [pc |-> "prompt", n |-> 0, c |-> 1, p |-> 1, k |-> 1, run |-> TRUE,
                     ok |-> TRUE, pgid |-> None, pid |-> None, int |-> FALSE, ends |-> {},
                     errno |-> FALSE, sub |-> FALSE, by |-> None]
      /\ sh = [i \in {Main} |-> sh[Main]]
  BY DEF Init
<1>2. /\ sh[Main] \in ShellType /\ sh[Main].pc = "prompt" /\ sh[Main].n = 0 /\ sh[Main].ends = {}
      /\ sh[Main].pgid = None /\ sh[Main].pid = None /\ ~Active(sh[Main]) /\ ~sh[Main].sub
  BY <1>1 DEF ShellType, Pcs, Active
<1>3. ShTyped
  BY <1>1, <1>2 DEF ShTyped, Main
<1>4. ProcsTyped
  BY <1>1 DEF ProcsTyped
<1>5. TypedInv
  BY <1>1 DEF TypedInv
<1>6. PlacesInv
  BY <1>1, <1>2 DEF PlacesInv, PlaceOf, Apart, Reader
<1>7. HistoryInv
  BY <1>1, <1>2 DEF HistoryInv, OwnerInv, Reader, RanBefore
<1>8. JobsInv
  BY <1>1, <1>2 DEF JobsInv, JobOf
<1>9. EndsInv /\ TerminalInv
  BY <1>1, <1>2 DEF EndsInv, EndsOf, TerminalInv
<1>. QED BY <1>1, <1>3, <1>4, <1>5, <1>6, <1>7, <1>8, <1>9 DEF ShellInv, TypesInv

(* Every step of a shell keeps the invariant.                              *)
LEMMA StepSound ==
  ASSUME ShellInv, NEW i \in DOMAIN sh, ShellStep(i, sh[i])
  PROVE  ShellInv'
<1>1. PICK s : s = sh[i]
  OBVIOUS
<1>2. (RunListStep(i, s) \/ Reap(i, s)) /\ UNCHANGED <<typed, lists>>
  BY <1>1 DEF ShellStep
<1>3. CASE Top(i, s)
  BY <1>1, <1>2, <1>3, TopStep
<1>4. CASE Fork(i, s)
  BY <1>1, <1>2, <1>4, ForkStep
<1>5. CASE Start(i, s)
  BY <1>1, <1>2, <1>5, StartStep
<1>6. CASE RunBuiltin(i, s)
  BY <1>1, <1>2, <1>6, RunBuiltinStep
<1>7. CASE RunProgram(i, s)
  BY <1>1, <1>2, <1>7, RunProgramStep
<1>8. CASE Ran(i, s)
  BY <1>1, <1>2, <1>8, RanStep
<1>9. CASE NextCommand(i, s)
  BY <1>1, <1>2, <1>9, NextCommandStep
<1>10. CASE Wait(i, s)
  BY <1>1, <1>2, <1>10, WaitStep
<1>11. CASE WaitFails(i, s)
  BY <1>1, <1>2, <1>11, WaitFailsStep
<1>12. CASE Conditional(i, s)
  BY <1>1, <1>2, <1>12, ConditionalStep
<1>13. CASE Reap(i, s)
  BY <1>1, <1>2, <1>13, ReapStep
<1>. QED BY <1>2, <1>3, <1>4, <1>5, <1>6, <1>7, <1>8, <1>9, <1>10, <1>11, <1>12, <1>13
         DEF RunListStep

(* Every step keeps the invariant.                                         *)
LEMMA NextSound ==
  ASSUME ShellInv, [Next]_vars
  PROVE  ShellInv'
<1>1. ASSUME NEW i \in DOMAIN sh, ShellStep(i, sh[i])
      PROVE  ShellInv'
  BY <1>1, StepSound
<1>2. ASSUME NEW x \in DOMAIN procs, ProgramEnds(x) PROVE ShellInv'
  BY <1>2, ProgramEndsStep
<1>3. CASE ReadLine
  BY <1>3, ReadLineStep
<1>4. CASE Interrupt
  BY <1>4, InterruptStep
<1>5. CASE UNCHANGED vars
  <2>1. UNCHANGED <<typed, lists, sh, procs, fg, cut>>
    BY <1>5 DEF vars
  <2>2. Aged /\ \A j : Untouched(j)
    BY <2>1, Idle DEF ShellInv
  <2>. QED BY <2>1, <2>2, OthersAge
<1>. QED BY <1>1, <1>2, <1>3, <1>4, <1>5 DEF Next, Step

(* The invariant holds: shells stay at their places, names of commands are *)
(* never used twice, and a child is waited for by its parent alone         *)
(* (sh61.cc:200-320).                                                      *)
THEOREM ShellSound == Spec => []ShellInv
<1>1. Init => ShellInv
  BY InitSound
<1>2. ShellInv /\ [Next]_vars => ShellInv'
  BY NextSound
<1>. QED BY <1>1, <1>2, PTL DEF Spec

(* The terminal is away from the shell's group only while a shell waits    *)
(* for the foreground pipeline that it was given to, of which something is *)
(* left to wait for, however many subshells have become shells of their    *)
(* own (sh61.cc:287-290, 506-510, 519-554).                                *)
THEOREM TerminalReturns == Spec => []ForegroundReturns
<1>1. ShellInv => ForegroundReturns
  <2>1. SUFFICES ASSUME ShellInv, fg # Home
                 PROVE  /\ \E i \in DOMAIN sh :
                             sh[i].pc \in {"wait", "eintr"} /\ ~sh[i].sub /\ sh[i].pgid = fg
                        /\ Exists(fg)
    BY DEF ForegroundReturns
  <2>2. PICK i \in DOMAIN sh : Lent(sh[i], fg)
    BY <2>1 DEF ShellInv, TerminalInv
  <2>3. JobOf(i, sh[i])
    BY <2>1, <2>2 DEF ShellInv, JobsInv
  <2>4. /\ sh[i].pid \in DOMAIN procs /\ procs[sh[i].pid].up # "gone"
        /\ procs[sh[i].pid].group = fg
    BY <2>2, <2>3 DEF JobOf, Lent
  <2>5. Exists(fg)
    BY <2>4 DEF Exists
  <2>. QED BY <2>2, <2>5 DEF Lent
<1>. QED BY <1>1, ShellSound, PTL

(* No end of a pipe is left open in a shell at its prompt, unless an       *)
(* interrupt has cut a pipeline in two (sh61.cc:173-177, 276-282).         *)
THEOREM EndsClosed == Spec => []NoEndsLeft
<1>1. ShellInv => NoEndsLeft
  BY DEF ShellInv, EndsInv, EndsOf, NoEndsLeft
<1>. QED BY <1>1, ShellSound, PTL

(* What parse_line returns.                                                *)
Word == {"empty", "cd", "def", "prog"}
PipeType == [or : BOOLEAN, cmds : Seq(Word)]
CondType == [bg : BOOLEAN, pipes : Seq(PipeType)]
Listing == Seq(CondType)

(* A conditional of programs, or an empty one,                             *)
ProgramsIn(cond) ==
  \/ Len(cond.pipes) = 1 /\ cond.pipes[1].cmds = <<"empty">>
  \/ \A p \in 1..Len(cond.pipes) :
       /\ Len(cond.pipes[p].cmds) > 0
       /\ \A k \in 1..Len(cond.pipes[p].cmds) : cond.pipes[p].cmds[k] = "prog"

(* and lines of such.  A builtin is none: after cd the status depends on   *)
(* whether errno was set before, and after a definition it stays as it was *)
(* (sh61.cc:200-238).                                                      *)
ProgramsOnly ==
  \A l \in Parsed :
    /\ l \in Listing /\ Len(l) > 0
    /\ \A c \in 1..Len(l) : Len(l[c].pipes) > 0 /\ ProgramsIn(l[c])

(* Pipeline p of the conditional that s is at: its last command, whether   *)
(* it has been run, whether that command is over, and with what result.    *)
Full(s) == Commands(s)[1] # "empty"
LastOf(s, p) == <<s.n, s.c, p, Len(Pipes(s)[p].cmds)>>
HasRun(s, p) == <<s.n, s.c, p, 1>> \in DOMAIN procs
Over(s, p) == LastOf(s, p) \in DOMAIN procs /\ procs[LastOf(s, p)].up = "gone"
Result(s, p) == procs[LastOf(s, p)].ok

(* The last pipeline before p that has been run is q.                      *)
LastRun(s, p, q) ==
  /\ q \in 1..(p - 1) /\ HasRun(s, q)
  /\ \A r \in 1..(p - 1) : HasRun(s, r) => r <= q

(* So p is to run, or is not,                                              *)
Due(s, p) == \E q \in Nat : LastRun(s, p, q) /\ Result(s, q) # Pipes(s)[p - 1].or
NotDue(s, p) == \E q \in Nat : LastRun(s, p, q) /\ Result(s, q) = Pipes(s)[p - 1].or

(* and the shell's status is that of q.                                    *)
Status(s, p) == \E q \in Nat : LastRun(s, p, q) /\ Result(s, q) = s.ok

(* The shell is at a command of the list.                                  *)
AtOf(s) ==
  /\ s.c \in 1..Len(lists[s.n]) /\ s.p \in 1..Len(Pipes(s)) /\ s.k \in 1..Len(Commands(s))

(* The pipelines behind it have been run if and only if they were due.     *)
Past(s) ==
  \A p \in 1..(s.p - 1) :
    /\ HasRun(s, p) => Over(s, p)
    /\ p > 1 => IF HasRun(s, p) THEN Due(s, p) ELSE NotDue(s, p)

(* So will be the one that it is at.                                       *)
Now(s) == IF s.p = 1 THEN s.run ELSE IF s.run THEN Due(s, s.p) ELSE NotDue(s, s.p)

(* It has waited for the last one that was run, and knows its result.      *)
Known(s) ==
  IF s.pc = "cond"
  THEN (HasRun(s, s.p) => Over(s, s.p)) /\ (Full(s) => Status(s, s.p + 1))
  ELSE s.p > 1 => Status(s, s.p)

(* Of the pipeline that it is at, it has run a command if it is to and has *)
(* come so far.                                                            *)
Here(s) ==
  /\ HasRun(s, s.p) => s.run /\ Full(s)
  /\ s.run /\ Full(s) /\ (s.k > 1 \/ Behind(s)) => HasRun(s, s.p)
  /\ s.pc = "run" => s.run /\ Full(s)
  /\ Behind(s) => (s.pid # None <=> s.run /\ Full(s))
  /\ s.pc \in {"wait", "eintr", "cond"} => s.k = Len(Commands(s))
  /\ ~s.sub /\ s.pc \in {"top", "fork"} /\ Background(s) => s.p = 1 /\ s.k = 1

(* All of this, of one shell,                                              *)
ChainOf(s) == AtOf(s) /\ Past(s) /\ Now(s) /\ Known(s) /\ Here(s)

(* and of all that are within run_list: inductive together with ShellInv.  *)
ChainInv == \A i \in DOMAIN sh : Active(sh[i]) => ChainOf(sh[i])

(* The lengths in a list are positive,                                     *)
LEMMA ListIs ==
  ASSUME ProgramsOnly, NEW l \in Parsed
  PROVE  /\ Len(l) \in Nat \ {0}
         /\ \A c \in 1..Len(l) :
              /\ Len(l[c].pipes) \in Nat \ {0} /\ ProgramsIn(l[c])
              /\ \A p \in 1..Len(l[c].pipes) : Len(l[c].pipes[p].cmds) \in Nat \ {0}
<1>1. l \in Listing /\ Len(l) > 0 /\ \A c \in 1..Len(l) : Len(l[c].pipes) > 0 /\ ProgramsIn(l[c])
  BY DEF ProgramsOnly
<1>2. ASSUME NEW c \in 1..Len(l)
      PROVE  /\ Len(l[c].pipes) \in Nat \ {0}
             /\ \A p \in 1..Len(l[c].pipes) : Len(l[c].pipes[p].cmds) \in Nat \ {0}
  <2>1. l[c] \in CondType
    BY <1>1 DEF Listing
  <2>. DEFINE pipes == l[c].pipes
  <2>2. pipes \in Seq(PipeType)
    BY <2>1 DEF CondType
  <2>. HIDE DEF pipes
  <2>3. ASSUME NEW p \in 1..Len(pipes) PROVE Len(pipes[p].cmds) \in Nat \ {0}
    <3>1. pipes[p] \in PipeType
      BY <2>2
    <3>. DEFINE cmds == pipes[p].cmds
    <3>2. cmds \in Seq(Word)
      BY <3>1 DEF PipeType
    <3>3. (Len(pipes) = 1 /\ pipes[1].cmds = <<"empty">>) \/ Len(pipes[p].cmds) > 0
      BY <1>1 DEF ProgramsIn, pipes
    <3>4. cmds = <<"empty">> \/ Len(cmds) > 0
      BY <3>3
    <3>. HIDE DEF cmds
    <3>5. Len(cmds) \in Nat
      BY <3>2
    <3>6. Len(<<"empty">>) = 1
      OBVIOUS
    <3>7. CASE cmds = <<"empty">>
      <4>1. Len(cmds) = 1
        BY <3>6, <3>7
      <4>. QED BY <4>1 DEF cmds
    <3>8. CASE Len(cmds) > 0
      BY <3>5, <3>8 DEF cmds
    <3>. QED BY <3>4, <3>7, <3>8
  <2>4. Len(pipes) > 0
    BY <1>1 DEF pipes
  <2>. QED BY <2>2, <2>3, <2>4 DEF pipes
<1>3. Len(l) \in Nat \ {0}
  BY <1>1 DEF Listing
<1>. QED BY <1>1, <1>2, <1>3

(* in all lists.                                                           *)
LEMMA ListsAre ==
  ASSUME ShellInv, ProgramsOnly, NEW n \in 1..Len(lists)
  PROVE  /\ Len(lists[n]) \in Nat \ {0}
         /\ \A c \in 1..Len(lists[n]) :
              /\ Len(lists[n][c].pipes) \in Nat \ {0} /\ ProgramsIn(lists[n][c])
              /\ \A p \in 1..Len(lists[n][c].pipes) : Len(lists[n][c].pipes[p].cmds) \in Nat \ {0}
<1>1. lists[n] \in Parsed
  BY DEF ShellInv, TypesInv, TypedInv
<1>. QED BY <1>1, ListIs

(* What At says of the place, in numbers. *)
LEMMA PlaceIs ==
  ASSUME ShellInv, ProgramsOnly, NEW s \in ShellType, s.n \in 1..Len(lists), AtOf(s)
  PROVE  /\ s.n \in Nat /\ s.c \in Nat \ {0} /\ s.p \in Nat \ {0} /\ s.k \in Nat \ {0}
         /\ Len(lists[s.n]) \in Nat /\ Len(Pipes(s)) \in Nat /\ Len(Commands(s)) \in Nat
         /\ s.c <= Len(lists[s.n]) /\ s.p <= Len(Pipes(s)) /\ s.k <= Len(Commands(s))
         /\ Full(s) => \A k \in 1..Len(Commands(s)) : Commands(s)[k] = "prog"
         /\ ~Full(s) => Len(Commands(s)) = 1 /\ Len(Pipes(s)) = 1
<1>1. s.n \in Nat /\ s.c \in 1..Len(lists[s.n]) /\ s.p \in 1..Len(Pipes(s))
      /\ s.k \in 1..Len(Commands(s))
  BY DEF AtOf, ShellType
<1>2. /\ Len(lists[s.n]) \in Nat \ {0} /\ Len(Pipes(s)) \in Nat \ {0}
      /\ Len(Commands(s)) \in Nat \ {0} /\ ProgramsIn(lists[s.n][s.c])
  BY <1>1, ListsAre DEF Pipes, Commands
<1>3. \/ Len(Pipes(s)) = 1 /\ Pipes(s)[1].cmds = <<"empty">>
      \/ \A k \in 1..Len(Commands(s)) : Commands(s)[k] = "prog"
  BY <1>1, <1>2 DEF ProgramsIn, Pipes, Commands
<1>4. Len(Pipes(s)) = 1 /\ Pipes(s)[1].cmds = <<"empty">> =>
        s.p = 1 /\ ~Full(s) /\ Len(Commands(s)) = 1
  <2>1. SUFFICES ASSUME Len(Pipes(s)) = 1, Pipes(s)[1].cmds = <<"empty">>
                 PROVE  s.p = 1 /\ ~Full(s) /\ Len(Commands(s)) = 1
    OBVIOUS
  <2>2. s.p = 1
    BY <1>1, <2>1
  <2>3. Commands(s) = <<"empty">>
    BY <2>1, <2>2 DEF Commands
  <2>. QED BY <2>2, <2>3 DEF Full
<1>5. (\A k \in 1..Len(Commands(s)) : Commands(s)[k] = "prog") => Full(s)
  BY <1>2 DEF Full
<1>. QED BY <1>1, <1>2, <1>3, <1>4, <1>5

(* Nothing is forgotten of the first P pipelines of r's conditional.       *)
Stable(r, P) ==
  /\ lists'[r.n] = lists[r.n]
  /\ \A p \in 1..P :
       /\ HasRun(r, p)' <=> HasRun(r, p)
       /\ Over(r, p) => Over(r, p)' /\ Result(r, p)' = Result(r, p)

(* What follows from the first pipelines does not change with the others,  *)
LEMMA LastKept ==
  ASSUME NEW r, NEW P \in Nat, Stable(r, P), NEW p \in 1..(P + 1),
         \A m \in 1..P : HasRun(r, m) => Over(r, m)
  PROVE  /\ Due(r, p) => Due(r, p)'
         /\ NotDue(r, p) => NotDue(r, p)'
         /\ Status(r, p) => Status(r, p)'
<1>1. Pipes(r)' = Pipes(r)
  BY DEF Stable, Pipes
<1>2. \A m \in 1..(p - 1) : m \in 1..P
  OBVIOUS
<1>3. ASSUME NEW q \in Nat, LastRun(r, p, q) PROVE LastRun(r, p, q)' /\ Result(r, q)' = Result(r, q)
  <2>1. q \in 1..P
    BY <1>2, <1>3 DEF LastRun
  <2>2. \A m \in 1..(p - 1) : HasRun(r, m)' <=> HasRun(r, m)
    BY <1>2 DEF Stable
  <2>3. Result(r, q)' = Result(r, q)
    BY <1>3, <2>1 DEF Stable, LastRun
  <2>. QED BY <1>3, <2>2, <2>3 DEF LastRun
<1>4. Due(r, p) => Due(r, p)'
  BY <1>1, <1>3 DEF Due
<1>5. NotDue(r, p) => NotDue(r, p)'
  BY <1>1, <1>3 DEF NotDue
<1>6. Status(r, p) => Status(r, p)'
  BY <1>3 DEF Status
<1>. QED BY <1>4, <1>5, <1>6

(* nor does what they have led to.                                         *)
LEMMA PastKept ==
  ASSUME NEW r, r.p \in Nat \ {0}, Stable(r, r.p - 1), Past(r)
  PROVE  Past(r)'
<1>. DEFINE P == r.p - 1
<1>1. P \in Nat /\ \A m \in 1..P : HasRun(r, m) => Over(r, m)
  BY DEF Past
<1>2. SUFFICES ASSUME NEW p \in 1..P
               PROVE  /\ HasRun(r, p)' => Over(r, p)'
                      /\ p > 1 => IF HasRun(r, p)' THEN Due(r, p)' ELSE NotDue(r, p)'
  BY DEF Past
<1>3. /\ HasRun(r, p)' <=> HasRun(r, p)
      /\ Over(r, p) => Over(r, p)'
  BY DEF Stable
<1>4. /\ Due(r, p) => Due(r, p)'
      /\ NotDue(r, p) => NotDue(r, p)'
  <2>1. p \in 1..(P + 1)
    BY <1>1
  <2>2. Stable(r, P)
    OBVIOUS
  <2>. HIDE DEF P
  <2>. QED BY <1>1, <2>1, <2>2, LastKept
<1>. QED BY <1>3, <1>4 DEF Past

(* Steps of commands do not change it either.                              *)
LEMMA AgedStable ==
  ASSUME Aged, lists' = lists, NEW r, NEW P
  PROVE  Stable(r, P)
BY DEF Aged, Stable, HasRun, Over, Result, LastOf, Pipes

(* What is known before the pipeline that r is at is run outlives what     *)
(* happens to that pipeline.                                               *)
LEMMA ChainSoFar ==
  ASSUME NEW r, r.p \in Nat \ {0}, Stable(r, r.p - 1), AtOf(r), Past(r), Now(r)
  PROVE  AtOf(r)' /\ Past(r)' /\ Now(r)' /\ (Status(r, r.p) => Status(r, r.p)')
<1>1. lists'[r.n] = lists[r.n]
  BY DEF Stable
<1>2. AtOf(r)'
  BY <1>1 DEF AtOf, Pipes, Commands
<1>3. Past(r)'
  BY PastKept
<1>4. \A m \in 1..(r.p - 1) : HasRun(r, m) => Over(r, m)
  BY DEF Past
<1>5. r.p - 1 \in Nat /\ r.p \in 1..(r.p - 1 + 1)
  OBVIOUS
<1>6. /\ Due(r, r.p) => Due(r, r.p)'
      /\ NotDue(r, r.p) => NotDue(r, r.p)'
      /\ Status(r, r.p) => Status(r, r.p)'
  BY <1>4, <1>5, LastKept
<1>. QED BY <1>2, <1>3, <1>6 DEF Now

(* So a shell that stays as it is keeps its chain.                         *)
LEMMA ChainKept ==
  ASSUME ShellInv, ProgramsOnly, NEW j, NEW r \in ShellType, r.n \in 1..Len(lists),
         ChainOf(r), Stable(r, r.p)
  PROVE  ChainOf(r)'
<1>1. r.p \in Nat \ {0}
  BY PlaceIs DEF ChainOf
<1>2. Stable(r, r.p - 1)
  BY <1>1 DEF Stable
<1>3. /\ lists'[r.n] = lists[r.n] /\ (HasRun(r, r.p)' <=> HasRun(r, r.p))
      /\ Over(r, r.p) => Over(r, r.p)'
  BY <1>1 DEF Stable
<1>4. AtOf(r)' /\ Past(r)' /\ Now(r)' /\ (Status(r, r.p) => Status(r, r.p)')
  BY <1>1, <1>2, ChainSoFar DEF ChainOf
<1>5. Known(r)'
  <2>1. CASE r.pc = "cond"
    <3>1. Full(r)' <=> Full(r)
      BY <1>3 DEF Full, Commands, Pipes
    <3>2. \A m \in 1..r.p : HasRun(r, m) => Over(r, m)
      BY <1>1, <2>1 DEF ChainOf, Past, Known
    <3>3. r.p \in Nat /\ r.p + 1 \in 1..(r.p + 1)
      BY <1>1
    <3>4. Status(r, r.p + 1) => Status(r, r.p + 1)'
      BY <3>2, <3>3, LastKept
    <3>. QED BY <1>3, <2>1, <3>1, <3>4 DEF ChainOf, Known
  <2>2. CASE r.pc # "cond"
    BY <1>4, <2>2 DEF ChainOf, Known
  <2>. QED BY <2>1, <2>2
<1>6. Here(r)'
  BY <1>3 DEF ChainOf, Here, Full, Commands, Pipes, Background, Behind
<1>. QED BY <1>4, <1>5, <1>6 DEF ChainOf

(* Where a shell in run_list is. *)
LEMMA ListOf ==
  ASSUME ShellInv, NEW i \in DOMAIN sh, Active(sh[i])
  PROVE  sh[i] \in ShellType /\ sh[i].n \in 1..Len(lists)
<1>1. sh[i] \in ShellType /\ PlaceOf(i, sh[i]) /\ Len(lists) \in Nat
  BY DEF ShellInv, TypesInv, TypedInv, ShTyped, PlacesInv
<1>2. sh[i].n \in Nat
  BY <1>1 DEF ShellType
<1>. QED BY <1>1, <1>2 DEF PlaceOf

(* Other shells' chains outlive a step of commands. *)
LEMMA OthersChains ==
  ASSUME ShellInv, ProgramsOnly, ChainInv, Aged, lists' = lists,
         NEW j \in DOMAIN sh, NEW r, r = sh[j], Active(r)
  PROVE  ChainOf(r)'
<1>1. r \in ShellType /\ r.n \in 1..Len(lists)
  BY ListOf
<1>2. ChainOf(r)
  BY DEF ChainInv
<1>. QED BY <1>1, <1>2, AgedStable, ChainKept

(* When one shell moves, only its own chain is to be looked at.            *)
LEMMA ChainMove ==
  ASSUME ShellInv, ProgramsOnly, ChainInv, NEW i, NEW s, NEW t, Moves(i, s, t), Aged,
         Active(t) => ChainOf(t)'
  PROVE  ChainInv'
<1>1. DOMAIN sh' = DOMAIN sh /\ sh'[i] = t /\ \A j \in DOMAIN sh \ {i} : sh'[j] = sh[j]
  BY MoveTypes DEF ShellInv
<1>2. SUFFICES ASSUME NEW j \in DOMAIN sh, NEW r, r = sh'[j], Active(r) PROVE ChainOf(r)'
  BY <1>1 DEF ChainInv, Active
<1>3. CASE j = i
  BY <1>1, <1>2, <1>3
<1>4. CASE j # i
  <2>1. r = sh[j] /\ lists' = lists
    BY <1>1, <1>2, <1>4 DEF Moves
  <2>. QED BY <1>2, <2>1, OthersChains
<1>. QED BY <1>3, <1>4

(* A move that changes no command. *)
LEMMA ChainSteps ==
  ASSUME ShellInv, ProgramsOnly, ChainInv, NEW i, NEW s, NEW t, Moves(i, s, t),
         UNCHANGED procs, Active(t) => ChainOf(t)
  PROVE  ChainInv'
<1>1. Aged
  BY Idle DEF ShellInv
<1>2. Active(t) => t.n \in 1..Len(lists) /\ t \in ShellType
  BY ListOf DEF Moves
<1>3. Stable(t, t.p)
  BY <1>1, AgedStable DEF Moves
<1>4. Active(t) => ChainOf(t)'
  BY <1>2, <1>3, ChainKept
<1>. QED BY <1>1, <1>4, ChainMove

(* Where two shells are at the same conditional, it has gone the same way. *)
LEMMA SameList ==
  ASSUME NEW s, NEW t, t.n = s.n, t.c = s.c
  PROVE  /\ Pipes(t) = Pipes(s)
         /\ \A p : /\ HasRun(t, p) = HasRun(s, p) /\ Over(t, p) = Over(s, p)
                   /\ Result(t, p) = Result(s, p)
         /\ \A p : (Due(s, p) => Due(t, p)) /\ (NotDue(s, p) => NotDue(t, p))
         /\ t.ok = s.ok => \A p : Status(s, p) => Status(t, p)
<1>1. Pipes(t) = Pipes(s)
  BY DEF Pipes
<1>2. \A p : /\ HasRun(t, p) = HasRun(s, p) /\ Over(t, p) = Over(s, p)
             /\ Result(t, p) = Result(s, p)
  BY <1>1 DEF HasRun, Over, Result, LastOf
<1>3. \A p, m : LastRun(t, p, m) = LastRun(s, p, m)
  BY <1>2 DEF LastRun
<1>4. \A p : (Due(s, p) => Due(t, p)) /\ (NotDue(s, p) => NotDue(t, p))
  BY <1>1, <1>2, <1>3 DEF Due, NotDue
<1>5. t.ok = s.ok => \A p : Status(s, p) => Status(t, p)
  BY <1>2, <1>3 DEF Status
<1>. QED BY <1>1, <1>2, <1>4, <1>5

(* Or the same pipeline.                                                   *)
LEMMA SameChain ==
  ASSUME NEW s, NEW t, t.n = s.n, t.c = s.c, t.p = s.p
  PROVE  /\ Pipes(t) = Pipes(s) /\ Commands(t) = Commands(s) /\ Full(t) = Full(s)
         /\ HasRun(t, t.p) = HasRun(s, s.p)
         /\ Past(s) => Past(t)
         /\ t.run = s.run /\ Now(s) => Now(t)
         /\ t.ok = s.ok => \A p : Status(s, p) => Status(t, p)
<1>1. Pipes(t) = Pipes(s) /\ Commands(t) = Commands(s) /\ Full(t) = Full(s)
  BY DEF Pipes, Commands, Full
<1>2. Past(s) => Past(t)
  BY SameList DEF Past
<1>3. t.run = s.run /\ Now(s) => Now(t)
  BY SameList DEF Now
<1>. QED BY <1>1, <1>2, <1>3, SameList

(* Within a command: nothing changes but where the shell is.               *)
LEMMA ChainAdvances ==
  ASSUME ShellInv, ProgramsOnly, ChainInv, NEW i \in DOMAIN sh, NEW s, s = sh[i],
         NEW q \in {"fork", "start", "run", "next"},
         \/ s.pc = "top" /\ q = "fork"
         \/ s.pc = "fork" /\ q = "start"
         \/ s.pc = "start" /\ q = "run" /\ s.run /\ Commands(s)[s.k] # "empty"
         \/ s.pc = "start" /\ q = "next" /\ (~s.run \/ Commands(s)[s.k] = "empty")
         \/ s.pc = "ran" /\ q = "next",
         sh' = [sh EXCEPT ![i] = [s EXCEPT !.pc = q]], UNCHANGED <<typed, lists, procs>>
  PROVE  ChainInv'
<1>. DEFINE t == [s EXCEPT !.pc = q]
<1>1. Active(s) /\ s.pc \in {"top", "fork", "start", "ran"}
  BY DEF Active
<1>2. s \in ShellType /\ s.n \in 1..Len(lists) /\ ChainOf(s) /\ JobOf(i, s)
  BY <1>1, ListOf, Sits DEF ChainInv
<1>3. /\ t \in ShellType /\ t.pc = q /\ t.n = s.n /\ t.c = s.c /\ t.p = s.p /\ t.k = s.k
      /\ t.run = s.run /\ t.ok = s.ok /\ t.pid = s.pid /\ t.sub = s.sub
  BY <1>2 DEF ShellType, Pcs
<1>4. sh' = [sh EXCEPT ![i] = t]
  OBVIOUS
<1>. HIDE DEF t
<1>5. Moves(i, s, t)
  <2>1. t.c >= s.c
    BY <1>2, <1>3 DEF ShellType
  <2>. QED BY <1>1, <1>3, <1>4, <2>1 DEF Moves
<1>6. AtOf(t) /\ Past(t) /\ Now(t) /\ Known(t)
  BY <1>1, <1>2, <1>3, SameChain DEF ChainOf, AtOf, Known
<1>7. Here(t)
  <2>1. Full(t) = Full(s) /\ HasRun(t, t.p) = HasRun(s, s.p) /\ Commands(t) = Commands(s)
    BY <1>3, SameChain
  <2>2. /\ Full(s) => \A k \in 1..Len(Commands(s)) : Commands(s)[k] = "prog"
        /\ ~Full(s) => s.k = 1
        /\ s.k \in 1..Len(Commands(s))
    <3>1. AtOf(s)
      BY <1>2 DEF ChainOf
    <3>2. /\ s.k \in Nat \ {0} /\ Len(Commands(s)) \in Nat /\ s.k <= Len(Commands(s))
          /\ Full(s) => \A k \in 1..Len(Commands(s)) : Commands(s)[k] = "prog"
          /\ ~Full(s) => Len(Commands(s)) = 1
      BY <1>2, <3>1, PlaceIs
    <3>3. s.k \in 1..Len(Commands(s))
      BY <3>1 DEF AtOf
    <3>4. Len(Commands(s)) = 1 => s.k = 1
      BY <3>3
    <3>. QED BY <3>2, <3>3, <3>4
  <2>3. Commands(s)[s.k] = "empty" <=> ~Full(s)
    BY <2>2 DEF Full
  <2>4. s.pc = "start" => s.pid = None
    BY <1>2 DEF JobOf, Behind
  <2>5. Here(s)
    BY <1>2 DEF ChainOf
  <2>. QED BY <1>1, <1>3, <2>1, <2>3, <2>4, <2>5 DEF Here, Behind, Background
<1>8. ChainOf(t)
  BY <1>6, <1>7 DEF ChainOf
<1>. QED BY <1>5, <1>8, ChainSteps

(* What has been run of the conditional that a shell is at comes before    *)
(* its place, and the shell itself has run nothing behind it.              *)
LEMMA RunBefore ==
  ASSUME ShellInv, NEW i \in DOMAIN sh, NEW s, s = sh[i], Active(s),
         NEW x \in DOMAIN procs, x[1] = s.n
  PROVE  /\ x[2] = s.c => Before(x, s)
         /\ ~s.sub => ~(x[2] > s.c)
<1>1. s \in ShellType /\ PlaceOf(i, s) /\ RanBefore(i, s)
  BY Sits
<1>2. Backgrounded(x) => procs[x].by = <<x[1], x[2]>>
  BY DEF ShellInv, HistoryInv, OwnerInv
<1>3. s.c \in Nat /\ x[2] \in Nat
  BY <1>1 DEF ShellType, ShellInv, TypesInv, ProcsTyped, Ids
<1>4. CASE ~s.sub
  <2>1. IF Backgrounded(x) THEN x[2] < s.c ELSE procs[x].by = i
    BY <1>4 DEF Reader, ShellInv, HistoryInv, Passed
  <2>2. procs[x].by = i => Before(x, s)
    BY <1>1 DEF RanBefore
  <2>. QED BY <1>3, <2>1, <2>2 DEF Before
<1>5. CASE s.sub
  <2>1. i = <<s.n, s.c>> /\ Background(s)
    BY <1>1, <1>5 DEF PlaceOf
  <2>2. x[2] = s.c => Backgrounded(x)
    BY <2>1 DEF Backgrounded, Background
  <2>3. x[2] = s.c => procs[x].by = i
    BY <1>2, <2>1, <2>2
  <2>. QED BY <1>1, <1>5, <2>3 DEF RanBefore
<1>. QED BY <1>4, <1>5

(* The pipelines from p on have not been run. *)
LEMMA NotYet ==
  ASSUME ShellInv, NEW i \in DOMAIN sh, NEW s, s = sh[i], Active(s), NEW p \in Nat, p > s.p
  PROVE  ~HasRun(s, p)
<1>1. s.c \in Nat /\ s.p \in Nat
  BY Sits DEF ShellType
<1>. DEFINE x == <<s.n, s.c, p, 1>>
<1>2. x[1] = s.n /\ x[2] = s.c /\ x[3] = p
  OBVIOUS
<1>. HIDE DEF x
<1>3. ~Before(x, s)
  BY <1>1, <1>2 DEF Before
<1>4. x \notin DOMAIN procs
  BY <1>2, <1>3, RunBefore
<1>. QED BY <1>4 DEF HasRun, x

(* No conditional that a line's reader has not come to has been run. *)
LEMMA NotAhead ==
  ASSUME ShellInv, NEW i \in DOMAIN sh, NEW s, s = sh[i], Active(s), ~s.sub,
         NEW t, t.n = s.n, t.c = s.c + 1, NEW p
  PROVE  ~HasRun(t, p)
<1>2. s.c \in Nat
  BY Sits DEF ShellType
<1>. DEFINE x == <<t.n, t.c, p, 1>>
<1>3. x[1] = s.n /\ x[2] = s.c + 1
  OBVIOUS
<1>. HIDE DEF x
<1>4. x[2] > s.c
  BY <1>2, <1>3
<1>5. x \notin DOMAIN procs
  BY <1>3, <1>4, RunBefore
<1>. QED BY <1>5 DEF HasRun, x

(* Two shells are not at the same conditional. *)
LEMMA Elsewhere ==
  ASSUME ShellInv, NEW i \in DOMAIN sh, NEW s, s = sh[i], s.pc = "run",
         NEW j \in DOMAIN sh \ {i}, NEW r, r = sh[j], Active(r)
  PROVE  ~(r.n = s.n /\ r.c = s.c)
<1>1. SUFFICES ASSUME r.n = s.n, r.c = s.c PROVE FALSE
  OBVIOUS
<1>2. PlaceOf(i, s) /\ PlaceOf(j, r) /\ Active(s) /\ s \in ShellType /\ r \in ShellType
  BY Sits DEF Active
<1>3. s.c \in Nat
  BY <1>2 DEF ShellType
<1>4. CASE ~s.sub /\ ~r.sub
  BY <1>1, <1>2, <1>4 DEF ShellInv, PlacesInv, Apart, Reader
<1>5. CASE ~s.sub /\ r.sub
  BY <1>1, <1>2, <1>5 DEF PlaceOf, Background
<1>6. CASE s.sub /\ ~r.sub
  <2>1. i = <<s.n, s.c>> /\ s.n \in 1..Len(lists)
    BY <1>2, <1>6 DEF PlaceOf
  <2>2. i \in DOMAIN sh \ {Main} /\ i[1] = r.n /\ i[2] = s.c
    BY <1>1, <2>1 DEF Main
  <2>3. Ahead(r)
    BY <1>2, <1>6 DEF Reader, ShellInv, PlacesInv
  <2>. QED BY <1>1, <1>3, <2>2, <2>3 DEF Ahead
<1>7. CASE s.sub /\ r.sub
  BY <1>1, <1>2, <1>7 DEF PlaceOf
<1>. QED BY <1>2, <1>4, <1>5, <1>6, <1>7 DEF ShellType

(* run_list is left, by Top, Start or Ran. *)
LEMMA ChainLeft ==
  ASSUME ShellInv, ProgramsOnly, ChainInv, NEW i \in DOMAIN sh, NEW s, s = sh[i],
         NEW r \in ShellType, sh' = [sh EXCEPT ![i] = Returned(r)],
         UNCHANGED <<typed, lists, procs>>
  PROVE  ChainInv'
<1>. DEFINE t == Returned(r)
<1>1. t \in ShellType /\ ~Active(t)
  BY DEF Returned, Fresh, ShellType, Pcs, Active
<1>. HIDE DEF t
<1>2. Moves(i, s, t)
  BY <1>1 DEF t, Moves
<1>. QED BY <1>1, <1>2, ChainSteps

(* An interrupt.                                                           *)
LEMMA ChainReturns ==
  ASSUME ShellInv, ProgramsOnly, ChainInv, NEW i \in DOMAIN sh, NEW s, s = sh[i],
         Return(i, s), UNCHANGED <<typed, lists, procs>>
  PROVE  ChainInv'
<1>1. s \in ShellType
  BY Sits
<1>2. sh' = [sh EXCEPT ![i] = Returned(s)]
  BY DEF Return, Go
<1>. QED BY <1>1, <1>2, ChainLeft

(* Top keeps the chains,                                                   *)
LEMMA TopChain ==
  ASSUME ShellInv, ProgramsOnly, ChainInv, NEW i \in DOMAIN sh, NEW s, s = sh[i],
         Top(i, s), UNCHANGED <<typed, lists>>
  PROVE  ChainInv'
<1>1. s.pc = "top" /\ UNCHANGED procs
  BY DEF Top
<1>2. CASE Return(i, s)
  BY <1>1, <1>2, ChainReturns
<1>3. CASE ~Return(i, s)
  <2>1. sh' = [sh EXCEPT ![i] = [s EXCEPT !.pc = "fork"]]
    BY <1>3 DEF Top, Go
  <2>. QED BY <1>1, <2>1, ChainAdvances
<1>. QED BY <1>2, <1>3

(* Start,                                                                  *)
LEMMA StartChain ==
  ASSUME ShellInv, ProgramsOnly, ChainInv, NEW i \in DOMAIN sh, NEW s, s = sh[i],
         Start(i, s), UNCHANGED <<typed, lists>>
  PROVE  ChainInv'
<1>1. s.pc = "start" /\ UNCHANGED procs
  BY DEF Start
<1>2. CASE Return(i, s)
  BY <1>1, <1>2, ChainReturns
<1>3. CASE ~Return(i, s) /\ (~s.run \/ Commands(s)[s.k] = "empty")
  <2>1. sh' = [sh EXCEPT ![i] = [s EXCEPT !.pc = "next"]]
    BY <1>3 DEF Start, Go
  <2>. QED BY <1>1, <1>3, <2>1, ChainAdvances
<1>4. CASE ~Return(i, s) /\ ~(~s.run \/ Commands(s)[s.k] = "empty")
  <2>1. sh' = [sh EXCEPT ![i] = [s EXCEPT !.pc = "run"]]
    BY <1>4 DEF Start, Go
  <2>. QED BY <1>1, <1>4, <2>1, ChainAdvances
<1>. QED BY <1>2, <1>3, <1>4

(* Ran,                                                                    *)
LEMMA RanChain ==
  ASSUME ShellInv, ProgramsOnly, ChainInv, NEW i \in DOMAIN sh, NEW s, s = sh[i],
         Ran(i, s), UNCHANGED <<typed, lists>>
  PROVE  ChainInv'
<1>1. s.pc = "ran" /\ UNCHANGED procs
  BY DEF Ran
<1>2. CASE Return(i, s)
  BY <1>1, <1>2, ChainReturns
<1>3. CASE ~Return(i, s)
  <2>1. sh' = [sh EXCEPT ![i] = [s EXCEPT !.pc = "next"]]
    BY <1>3 DEF Ran, Go
  <2>. QED BY <1>1, <2>1, ChainAdvances
<1>. QED BY <1>2, <1>3

(* and WaitFails.                                                          *)
LEMMA WaitFailsChain ==
  ASSUME ShellInv, ProgramsOnly, ChainInv, NEW i \in DOMAIN sh, NEW s, s = sh[i],
         WaitFails(i, s), UNCHANGED <<typed, lists>>
  PROVE  ChainInv'
<1>. DEFINE r == [s EXCEPT !.errno = TRUE]
<1>1. r \in ShellType
  <2>1. s \in ShellType
    BY Sits
  <2>. QED BY <2>1 DEF ShellType
<1>2. sh' = [sh EXCEPT ![i] = Returned(r)] /\ UNCHANGED procs
  BY DEF WaitFails, Return, Go
<1>. HIDE DEF r
<1>. QED BY <1>1, <1>2, ChainLeft

(* Pipeline q is the last of the first P that has been run.                *)
LEMMA LastRunIs ==
  ASSUME NEW s, NEW P \in Nat, NEW q \in 1..P, HasRun(s, q),
         \A r \in 1..P : HasRun(s, r) => r <= q
  PROVE  LastRun(s, P + 1, q)
<1>1. PICK p : p = P + 1
  OBVIOUS
<1>2. p - 1 = P
  BY <1>1
<1>3. LastRun(s, p, q)
  BY <1>2 DEF LastRun
<1>. QED BY <1>1, <1>3

(* NextCommand keeps the chains: a pipeline without command to wait for    *)
(* was skipped or is empty, and the status is still that of the last one   *)
(* run.                                                                    *)
LEMMA NextCommandChain ==
  ASSUME ShellInv, ProgramsOnly, ChainInv, NEW i \in DOMAIN sh, NEW s, s = sh[i],
         NextCommand(i, s), UNCHANGED <<typed, lists>>
  PROVE  ChainInv'
<1>1. s.pc = "next" /\ UNCHANGED procs /\ Active(s) /\ Behind(s)
  BY DEF NextCommand, Active, Behind
<1>2. s \in ShellType /\ PlaceOf(i, s) /\ s.n \in 1..Len(lists) /\ ChainOf(s)
  BY <1>1, ListOf, Sits DEF ChainInv
<1>3. AtOf(s) /\ Past(s) /\ Now(s) /\ Known(s) /\ Here(s)
  BY <1>2 DEF ChainOf
<1>4. /\ s.c \in Nat \ {0} /\ s.p \in Nat \ {0} /\ s.k \in Nat \ {0}
      /\ Len(Commands(s)) \in Nat /\ s.k <= Len(Commands(s))
      /\ Full(s) => \A k \in 1..Len(Commands(s)) : Commands(s)[k] = "prog"
      /\ ~Full(s) => Len(Commands(s)) = 1
  BY <1>2, <1>3, PlaceIs
<1>5. CASE s.k < Len(Commands(s)) /\ Commands(s)[s.k + 1] # "empty"
  <2>. DEFINE t == [s EXCEPT !.pc = "top", !.k = @ + 1, !.pid = None]
  <2>1. sh' = [sh EXCEPT ![i] = t]
    BY <1>5 DEF NextCommand, Go
  <2>2. /\ t \in ShellType /\ t.pc = "top" /\ t.n = s.n /\ t.c = s.c /\ t.p = s.p
        /\ t.k = s.k + 1 /\ t.pid = None /\ t.run = s.run /\ t.ok = s.ok /\ t.sub = s.sub
    <3>1. s.k + 1 \in Nat
      BY <1>4
    <3>. QED BY <1>2, <3>1 DEF ShellType, Pcs
  <2>. HIDE DEF t
  <2>3. /\ Pipes(t) = Pipes(s) /\ Commands(t) = Commands(s) /\ Full(t) = Full(s)
        /\ HasRun(t, t.p) = HasRun(s, s.p) /\ Past(t) /\ Now(t)
        /\ \A p : Status(s, p) => Status(t, p)
    BY <1>3, <2>2, SameChain
  <2>4. AtOf(t)
    <3>1. s.k + 1 \in 1..Len(Commands(s))
      BY <1>4, <1>5
    <3>. QED BY <1>3, <2>2, <2>3, <3>1 DEF AtOf
  <2>5. Known(t)
    BY <1>1, <1>3, <2>2, <2>3 DEF Known
  <2>6. Here(t)
    BY <1>1, <1>2, <1>3, <2>2, <2>3 DEF Here, Behind, PlaceOf, Background
  <2>7. Moves(i, s, t)
    <3>1. t.c >= s.c
      BY <1>4, <2>2
    <3>. QED BY <1>1, <2>1, <2>2, <3>1 DEF Moves
  <2>8. ChainOf(t)
    BY <2>3, <2>4, <2>5, <2>6 DEF ChainOf
  <2>. QED BY <1>1, <2>7, <2>8, ChainSteps
<1>6. CASE ~(s.k < Len(Commands(s)) /\ Commands(s)[s.k + 1] # "empty")
  <2>. DEFINE t == [s EXCEPT !.ends = @ \ ReadEnds(s), !.pc = IF s.pid = None THEN "cond" ELSE "wait"]
  <2>1. sh' = [sh EXCEPT ![i] = t]
    BY <1>6 DEF NextCommand, Go
  <2>2. /\ t \in ShellType /\ t.pc = (IF s.pid = None THEN "cond" ELSE "wait")
        /\ t.n = s.n /\ t.c = s.c /\ t.p = s.p /\ t.k = s.k /\ t.pid = s.pid
        /\ t.run = s.run /\ t.ok = s.ok /\ t.sub = s.sub
    BY <1>2 DEF ShellType, Pcs
  <2>. HIDE DEF t
  <2>3. /\ Pipes(t) = Pipes(s) /\ Commands(t) = Commands(s) /\ Full(t) = Full(s)
        /\ HasRun(t, t.p) = HasRun(s, s.p) /\ Past(t) /\ Now(t)
        /\ \A p : Status(s, p) => Status(t, p)
    BY <1>3, <2>2, SameChain
  <2>4. AtOf(t)
    BY <1>3, <2>2, <2>3 DEF AtOf
  <2>5. s.k = Len(Commands(s))
    <3>1. CASE Full(s)
      <4>1. s.k < Len(Commands(s)) => s.k + 1 \in 1..Len(Commands(s))
        BY <1>4
      <4>2. ~(s.k < Len(Commands(s)))
        BY <1>4, <1>6, <3>1, <4>1
      <4>3. s.k \in Nat /\ Len(Commands(s)) \in Nat /\ s.k <= Len(Commands(s))
        BY <1>4
      <4>. QED BY <4>2, <4>3
    <3>2. CASE ~Full(s)
      <4>1. Len(Commands(s)) = 1
        BY <1>4, <3>2
      <4>. QED BY <1>4, <4>1
    <3>. QED BY <3>1, <3>2
  <2>6. Known(t)
    <3>1. CASE s.pid # None
      BY <1>1, <1>3, <2>2, <2>3, <3>1 DEF Known
    <3>2. CASE s.pid = None
      <4>1. ~(s.run /\ Full(s)) /\ ~HasRun(s, s.p)
        BY <1>1, <1>3, <3>2 DEF Here
      <4>2. ASSUME Full(s) PROVE Status(t, s.p + 1)
        <5>1. s.p > 1
          BY <1>3, <1>4, <4>1, <4>2 DEF Now
        <5>2. Status(s, s.p)
          BY <1>1, <1>3, <5>1 DEF Known
        <5>3. PICK q \in Nat : LastRun(s, s.p, q) /\ Result(s, q) = s.ok
          BY <5>2 DEF Status
        <5>4. q \in 1..s.p /\ HasRun(s, q)
          BY <1>4, <5>3 DEF LastRun
        <5>5. ASSUME NEW r \in 1..s.p, HasRun(s, r) PROVE r <= q
          <6>1. r # s.p
            BY <4>1, <5>5
          <6>2. r \in 1..(s.p - 1)
            BY <1>4, <6>1
          <6>. QED BY <5>3, <5>5, <6>2 DEF LastRun
        <5>6. LastRun(s, s.p + 1, q)
          BY <1>4, <5>4, <5>5, LastRunIs
        <5>7. Status(s, s.p + 1)
          BY <5>3, <5>6 DEF Status
        <5>. QED BY <2>3, <5>7
      <4>. QED BY <2>2, <2>3, <3>2, <4>1, <4>2 DEF Known
    <3>. QED BY <3>1, <3>2
  <2>7. Here(t)
    BY <1>1, <1>3, <2>2, <2>3, <2>5 DEF Here, Behind
  <2>8. Moves(i, s, t)
    <3>1. t.c >= s.c
      BY <1>4, <2>2
    <3>. QED BY <1>1, <2>1, <2>2, <3>1 DEF Moves
  <2>9. ChainOf(t)
    BY <2>3, <2>4, <2>6, <2>7 DEF ChainOf
  <2>. QED BY <1>1, <2>8, <2>9, ChainSteps
<1>. QED BY <1>5, <1>6

(* Wait keeps the chains: the command waited for is the pipeline's last.   *)
LEMMA WaitChain ==
  ASSUME ShellInv, ProgramsOnly, ChainInv, NEW i \in DOMAIN sh, NEW s, s = sh[i],
         Wait(i, s), UNCHANGED <<typed, lists>>
  PROVE  ChainInv'
<1>1. s.pc = "wait" /\ Active(s) /\ Behind(s)
  BY DEF Wait, Active, Behind
<1>2. s \in ShellType /\ JobOf(i, s) /\ s.n \in 1..Len(lists) /\ ChainOf(s)
  BY <1>1, ListOf, Sits DEF ChainInv
<1>3. AtOf(s) /\ Past(s) /\ Now(s) /\ Known(s) /\ Here(s)
  BY <1>2 DEF ChainOf
<1>4. s.c \in Nat \ {0} /\ s.p \in Nat \ {0}
  BY <1>2, <1>3, PlaceIs
<1>5. /\ s.pid # None /\ s.pid = LastOf(s, s.p) /\ s.pid \in DOMAIN procs
      /\ s.run /\ Full(s) /\ HasRun(s, s.p) /\ s.k = Len(Commands(s))
  <2>1. s.pid # None /\ s.pid = Id(s) /\ s.pid \in DOMAIN procs
    BY <1>1, <1>2 DEF JobOf
  <2>2. s.run /\ Full(s) /\ HasRun(s, s.p) /\ s.k = Len(Commands(s))
    BY <1>1, <1>3, <2>1 DEF Here
  <2>. QED BY <2>1, <2>2 DEF LastOf, Id, Commands
<1>. DEFINE ok == procs[s.pid].ok
<1>6. PICK t : t = [s EXCEPT !.pc = "cond", !.ok = ok]
  OBVIOUS
<1>7. sh' = [sh EXCEPT ![i] = t] /\ procs' = [procs EXCEPT ![s.pid].up = "gone"]
  BY <1>6 DEF Wait, Go
<1>8. procs \in [DOMAIN procs -> ProcType]
  BY DEF ShellInv, TypesInv, ProcsTyped
<1>9. /\ DOMAIN procs' = DOMAIN procs /\ procs'[s.pid].up = "gone" /\ procs'[s.pid].ok = ok
      /\ ok \in BOOLEAN
  BY <1>5, <1>7, <1>8 DEF ProcType
<1>. HIDE DEF ok
<1>10. /\ t \in ShellType /\ t.pc = "cond" /\ t.n = s.n /\ t.c = s.c /\ t.p = s.p /\ t.k = s.k
       /\ t.pid = s.pid /\ t.run = s.run /\ t.ok = ok /\ t.sub = s.sub
  BY <1>2, <1>6, <1>9 DEF ShellType, Pcs
<1>11. Aged
  BY WaitAges
<1>12. /\ Pipes(t) = Pipes(s) /\ Commands(t) = Commands(s) /\ Full(t) = Full(s)
       /\ HasRun(t, t.p) = HasRun(s, s.p) /\ Past(t) /\ Now(t)
  BY <1>3, <1>10, SameChain
<1>13. AtOf(t)' /\ Past(t)' /\ Now(t)'
  <2>1. AtOf(t)
    BY <1>3, <1>10, <1>12 DEF AtOf
  <2>2. Stable(t, t.p - 1) /\ t.p \in Nat \ {0}
    BY <1>4, <1>10, <1>11, AgedStable
  <2>. QED BY <1>12, <2>1, <2>2, ChainSoFar
<1>14. Pipes(t)' = Pipes(t) /\ Full(t)' = Full(t) /\ LastOf(t, t.p)' = s.pid
       /\ Commands(t)' = Commands(t)
  BY <1>5, <1>10, <1>12 DEF Pipes, Full, LastOf, Commands
<1>15. HasRun(t, t.p)' /\ (\A p : HasRun(t, p)' = HasRun(t, p))
  BY <1>5, <1>9, <1>12 DEF HasRun
<1>16. Over(t, t.p)' /\ Result(t, t.p)' = ok
  BY <1>5, <1>9, <1>14 DEF Over, Result
<1>17. Known(t)'
  <2>1. LastRun(t, t.p + 1, t.p)'
    <3>1. t.p \in 1..(t.p + 1 - 1) /\ \A r \in 1..(t.p + 1 - 1) : r <= t.p
      BY <1>4, <1>10
    <3>. QED BY <1>15, <3>1 DEF LastRun
  <2>2. Status(t, t.p + 1)'
    BY <1>4, <1>10, <1>16, <2>1 DEF Status
  <2>. QED BY <1>10, <1>16, <2>2 DEF Known
<1>18. Here(t)'
  BY <1>5, <1>10, <1>12, <1>14, <1>15 DEF Here, Behind
<1>19. ChainOf(t)'
  BY <1>13, <1>17, <1>18 DEF ChainOf
<1>20. Moves(i, s, t)
  <2>1. t.c >= s.c
    BY <1>4, <1>10
  <2>. QED BY <1>1, <1>7, <1>10, <2>1 DEF Moves
<1>. QED BY <1>11, <1>19, <1>20, ChainMove

(* The next pipeline: it is to run if and only if it is due.               *)
LEMMA NextPipelineChain ==
  ASSUME ShellInv, ProgramsOnly, ChainInv, NEW i \in DOMAIN sh, NEW s, s = sh[i],
         Conditional(i, s), s.p < Len(Pipes(s)), UNCHANGED <<typed, lists>>
  PROVE  ChainInv'
<1>. DEFINE run == RunsNext(s)
            t == [s EXCEPT !.pc = "top", !.p = @ + 1, !.k = 1, !.pid = None, !.run = run]
<1>1. s.pc = "cond" /\ UNCHANGED procs /\ Active(s) /\ Behind(s) /\ sh' = [sh EXCEPT ![i] = t]
  BY DEF Conditional, Active, Behind, Go
<1>2. s \in ShellType /\ PlaceOf(i, s) /\ s.n \in 1..Len(lists) /\ ChainOf(s)
  BY <1>1, ListOf, Sits DEF ChainInv
<1>3. AtOf(s) /\ Past(s) /\ Now(s) /\ Known(s) /\ Here(s)
  BY <1>2 DEF ChainOf
<1>4. /\ s.c \in Nat \ {0} /\ s.p \in Nat \ {0} /\ Len(Pipes(s)) \in Nat
      /\ ~Full(s) => Len(Pipes(s)) = 1
  BY <1>2, <1>3, PlaceIs
<1>5. Full(s)
  <2>1. s.p \in Nat \ {0} /\ Len(Pipes(s)) \in Nat
    BY <1>4
  <2>2. PICK m : m = Len(Pipes(s))
    OBVIOUS
  <2>3. s.p < m
    BY <2>2
  <2>4. m # 1
    BY <2>1, <2>3
  <2>. QED BY <1>4, <2>2, <2>4
<1>6. run \in BOOLEAN /\ run = (s.ok # Pipes(s)[s.p].or)
  BY DEF RunsNext
<1>. HIDE DEF run
<1>7. /\ t \in ShellType /\ t.pc = "top" /\ t.n = s.n /\ t.c = s.c /\ t.p = s.p + 1
      /\ t.k = 1 /\ t.pid = None /\ t.run = run /\ t.ok = s.ok /\ t.sub = s.sub
  <2>1. s.p + 1 \in Nat
    BY <1>4
  <2>. QED BY <1>2, <1>6, <2>1 DEF ShellType, Pcs
<1>. HIDE DEF t
<1>8. t.p - 1 = s.p /\ t.p > 1 /\ t.p \in Nat
  BY <1>4, <1>7
<1>9. /\ Pipes(t) = Pipes(s)
      /\ \A p : HasRun(t, p) = HasRun(s, p) /\ Over(t, p) = Over(s, p)
      /\ \A p : (Due(s, p) => Due(t, p)) /\ (NotDue(s, p) => NotDue(t, p))
      /\ \A p : Status(s, p) => Status(t, p)
  BY <1>7, SameList
<1>10. AtOf(t)
  <2>1. t.p \in 1..Len(Pipes(t)) /\ s.c \in 1..Len(lists[s.n])
    BY <1>3, <1>4, <1>7, <1>9 DEF AtOf
  <2>2. Len(Commands(t)) \in Nat \ {0}
    BY <1>2, <1>7, <2>1, ListsAre DEF Commands, Pipes
  <2>3. t.k \in 1..Len(Commands(t))
    BY <1>7, <2>2
  <2>. QED BY <1>7, <2>1, <2>3 DEF AtOf
<1>11. Past(t)
  <2>1. SUFFICES ASSUME NEW p \in 1..s.p
                 PROVE  /\ HasRun(s, p) => Over(s, p)
                        /\ p > 1 => IF HasRun(s, p) THEN Due(s, p) ELSE NotDue(s, p)
    BY <1>8, <1>9 DEF Past
  <2>2. CASE p = s.p
    <3>1. HasRun(s, p) => Over(s, p)
      BY <1>1, <1>3, <2>2 DEF Known
    <3>2. HasRun(s, p) <=> s.run
      BY <1>1, <1>3, <1>5, <2>2 DEF Here
    <3>. QED BY <1>3, <2>2, <3>1, <3>2 DEF Now
  <2>3. CASE p # s.p
    <3>1. p \in 1..(s.p - 1)
      BY <1>4, <2>3
    <3>. QED BY <1>3, <3>1 DEF Past
  <2>. QED BY <2>2, <2>3
<1>12. Status(t, t.p) /\ Now(t)
  <2>1. Status(s, t.p)
    BY <1>1, <1>3, <1>5, <1>7 DEF Known
  <2>2. PICK q \in Nat : LastRun(s, t.p, q) /\ Result(s, q) = s.ok
    BY <2>1 DEF Status
  <2>3. IF run THEN Due(s, t.p) ELSE NotDue(s, t.p)
    BY <1>6, <1>8, <2>2 DEF Due, NotDue
  <2>. QED BY <1>7, <1>8, <1>9, <2>1, <2>3 DEF Now
<1>13. Known(t)
  BY <1>7, <1>12 DEF Known
<1>14. Here(t)
  <2>1. ~HasRun(t, t.p)
    <3>1. t.p > s.p
      BY <1>4, <1>7
    <3>. QED BY <1>1, <1>8, <1>9, <3>1, NotYet
  <2>2. ~s.sub => ~Background(t)
    BY <1>1, <1>2, <1>7 DEF PlaceOf, Background
  <2>. QED BY <1>7, <2>1, <2>2 DEF Here, Behind
<1>15. Moves(i, s, t)
  <2>1. t.c >= s.c
    BY <1>4, <1>7
  <2>. QED BY <1>1, <1>7, <2>1 DEF Moves
<1>16. ChainOf(t)
  BY <1>10, <1>11, <1>12, <1>13, <1>14 DEF ChainOf
<1>. QED BY <1>1, <1>15, <1>16, ChainSteps

(* At the beginning of a conditional. *)
LEMMA ChainBegins ==
  ASSUME ShellInv, ProgramsOnly, NEW t, t.n \in 1..Len(lists),
         t.c \in 1..Len(lists[t.n]), t.p = 1, t.k = 1, t.run, t.pc \in {"top", "fork"},
         ~HasRun(t, 1)
  PROVE  ChainOf(t)
<1>1. /\ Len(lists[t.n][t.c].pipes) \in Nat \ {0}
      /\ \A p \in 1..Len(lists[t.n][t.c].pipes) : Len(lists[t.n][t.c].pipes[p].cmds) \in Nat \ {0}
  BY ListsAre
<1>2. t.p \in 1..Len(Pipes(t))
  BY <1>1 DEF Pipes
<1>3. t.k \in 1..Len(Commands(t))
  BY <1>1, <1>2 DEF Pipes, Commands
<1>4. AtOf(t)
  BY <1>2, <1>3 DEF AtOf
<1>5. Past(t) /\ Now(t) /\ Known(t)
  BY DEF Past, Now, Known
<1>6. Here(t)
  BY DEF Here, Behind
<1>. QED BY <1>4, <1>5, <1>6 DEF ChainOf

(* The next conditional, or the end of the list.                           *)
LEMMA NextConditionalChain ==
  ASSUME ShellInv, ProgramsOnly, ChainInv, NEW i \in DOMAIN sh, NEW s, s = sh[i], ~s.sub,
         Conditional(i, s), ~(s.p < Len(Pipes(s))), UNCHANGED <<typed, lists>>
  PROVE  ChainInv'
<1>1. s.pc = "cond" /\ UNCHANGED procs /\ Active(s)
  BY DEF Conditional, Active
<1>2. s \in ShellType /\ s.n \in 1..Len(lists) /\ ChainOf(s)
  BY <1>1, ListOf DEF ChainInv
<1>3. s.n \in Nat /\ s.c \in Nat /\ s.c \in 1..Len(lists[s.n]) /\ Len(lists[s.n]) \in Nat
  BY <1>2, ListsAre DEF ShellType, ChainOf, AtOf
<1>4. CASE s.c = Len(lists[s.n])
  <2>1. sh' = [sh EXCEPT ![i] = Returned(s)]
    BY <1>4 DEF Conditional, Go
  <2>. QED BY <1>1, <1>2, <2>1, ChainLeft
<1>5. CASE s.c # Len(lists[s.n])
  <2>. DEFINE t == [Fresh(s, s.n) EXCEPT !.c = s.c + 1, !.pgid = s.pgid]
  <2>1. sh' = [sh EXCEPT ![i] = t]
    BY <1>5 DEF Conditional, Go
  <2>2. /\ t \in ShellType /\ t.pc = "top" /\ t.n = s.n /\ t.c = s.c + 1
        /\ t.p = 1 /\ t.k = 1 /\ t.run /\ t.sub = s.sub
    <3>1. s.c + 1 \in Nat
      BY <1>3
    <3>. QED BY <1>2, <1>3, <3>1 DEF Fresh, ShellType, Pcs
  <2>. HIDE DEF t
  <2>3. t.c \in 1..Len(lists[t.n]) /\ t.c >= s.c
    BY <1>3, <1>5, <2>2
  <2>4. ~HasRun(t, 1)
    BY <1>1, <2>2, NotAhead
  <2>5. ChainOf(t)
    BY <1>2, <2>2, <2>3, <2>4, ChainBegins
  <2>6. Moves(i, s, t)
    BY <1>1, <2>1, <2>2, <2>3 DEF Moves
  <2>. QED BY <1>1, <2>5, <2>6, ChainSteps
<1>. QED BY <1>4, <1>5

(* A subshell ends.                                                        *)
LEMMA SubshellChain ==
  ASSUME ShellInv, ProgramsOnly, ChainInv, NEW i \in DOMAIN sh, NEW s, s = sh[i], s.sub,
         Conditional(i, s), ~(s.p < Len(Pipes(s))), UNCHANGED <<typed, lists>>
  PROVE  ChainInv'
<1>1. sh' = [j \in DOMAIN sh \ {i} |-> sh[j]]
  BY DEF Conditional
<1>2. SUFFICES ASSUME NEW j \in DOMAIN sh \ {i}, NEW r, r = sh[j], Active(r)
               PROVE  ChainOf(r)'
  BY <1>1 DEF ChainInv, Active
<1>3. Aged
  BY SubshellAges
<1>. QED BY <1>2, <1>3, OthersChains

(* Conditional keeps the chains.                                           *)
LEMMA ConditionalChain ==
  ASSUME ShellInv, ProgramsOnly, ChainInv, NEW i \in DOMAIN sh, NEW s, s = sh[i],
         Conditional(i, s), UNCHANGED <<typed, lists>>
  PROVE  ChainInv'
<1>1. CASE s.p < Len(Pipes(s))
  BY <1>1, NextPipelineChain
<1>2. CASE ~(s.p < Len(Pipes(s))) /\ ~s.sub
  BY <1>2, NextConditionalChain
<1>3. CASE ~(s.p < Len(Pipes(s))) /\ s.sub
  BY <1>3, SubshellChain
<1>. QED BY <1>1, <1>2, <1>3

(* A background conditional is left to a new subshell.                     *)
LEMMA ForkRunsChain ==
  ASSUME ShellInv, ProgramsOnly, ChainInv, NEW i \in DOMAIN sh, NEW s, s = sh[i], Fork(i, s),
         ~s.sub, Background(s), UNCHANGED <<typed, lists>>
  PROVE  ChainInv'
<1>. DEFINE next == IF s.c = Len(lists[s.n]) THEN Returned(s) ELSE [s EXCEPT !.c = @ + 1]
            j == <<s.n, s.c>>
            u == [s EXCEPT !.pc = "start", !.sub = TRUE, !.by = i]
<1>1. /\ s.pc = "fork" /\ UNCHANGED procs /\ Active(s) /\ Reader(s) /\ Ahead(s)
      /\ i \in Nat \X Nat
  BY DEF Fork, Active, Reader, ShellInv, PlacesInv, TypesInv, ShTyped
<1>2. s \in ShellType /\ s.n \in 1..Len(lists) /\ ChainOf(s)
  BY <1>1, ListOf DEF ChainInv
<1>3. AtOf(s) /\ Past(s) /\ Now(s) /\ Known(s) /\ Here(s)
  BY <1>2 DEF ChainOf
<1>4. /\ s.n \in Nat /\ s.c \in Nat /\ s.c \in 1..Len(lists[s.n]) /\ Len(lists[s.n]) \in Nat
      /\ s.p = 1 /\ s.k = 1 /\ s.run
  <2>1. s.c \in 1..Len(lists[s.n]) /\ s.n \in Nat /\ Len(lists[s.n]) \in Nat
    BY <1>2, <1>3, ListsAre DEF ShellType, AtOf
  <2>2. s.p = 1 /\ s.k = 1
    BY <1>1, <1>3 DEF Here
  <2>. QED BY <1>3, <2>1, <2>2 DEF Now
<1>5. j \notin DOMAIN sh
  <2>1. j # Main
    BY <1>2, <1>4 DEF Main
  <2>2. j \in DOMAIN sh => s.c < s.c
    BY <1>1, <1>4, <2>1 DEF Ahead
  <2>. QED BY <1>4, <2>2
<1>6. sh' = [m \in DOMAIN sh \cup {j} |->
               IF m = i THEN next ELSE IF m \in DOMAIN sh THEN sh[m] ELSE u]
  BY DEF Fork
<1>7. Active(next) => /\ next \in ShellType /\ next.pc = "fork" /\ next.n = s.n
                      /\ next.c = s.c + 1 /\ next.p = 1 /\ next.k = 1 /\ next.run
                      /\ s.c # Len(lists[s.n])
  <2>1. CASE s.c = Len(lists[s.n])
    BY <1>2, <2>1 DEF Returned, Fresh, Active, ShellType, Pcs
  <2>2. CASE s.c # Len(lists[s.n])
    BY <1>1, <1>2, <1>4, <2>2 DEF ShellType
  <2>. QED BY <2>1, <2>2
<1>8. /\ u \in ShellType /\ u.pc = "start" /\ u.n = s.n /\ u.c = s.c /\ u.p = s.p /\ u.k = s.k
      /\ u.pid = s.pid /\ u.run = s.run /\ u.ok = s.ok
  BY <1>1, <1>2 DEF ShellType, Pcs
<1>. HIDE DEF next, u
<1>9. /\ DOMAIN sh' = DOMAIN sh \cup {j} /\ sh'[i] = next /\ sh'[j] = u
      /\ \A m \in DOMAIN sh \ {i} : sh'[m] = sh[m]
  BY <1>1, <1>5, <1>6
<1>10. Aged
  BY <1>1, Idle DEF ShellInv
<1>11. ChainOf(u)
  <2>1. /\ Pipes(u) = Pipes(s) /\ Commands(u) = Commands(s) /\ Full(u) = Full(s)
        /\ HasRun(u, u.p) = HasRun(s, s.p) /\ Past(u) /\ Now(u)
    BY <1>3, <1>8, SameChain
  <2>2. AtOf(u) /\ Known(u)
    BY <1>3, <1>4, <1>8, <2>1 DEF AtOf, Known
  <2>3. Here(u)
    BY <1>3, <1>4, <1>8, <2>1 DEF Here, Behind
  <2>. QED BY <2>1, <2>2, <2>3 DEF ChainOf
<1>12. Active(next) => ChainOf(next)
  <2>1. SUFFICES ASSUME Active(next) PROVE ChainOf(next)
    OBVIOUS
  <2>2. next.c \in 1..Len(lists[next.n])
    BY <1>4, <1>7, <2>1
  <2>3. ~HasRun(next, 1)
    BY <1>1, <1>7, <2>1, NotAhead
  <2>. QED BY <1>2, <1>7, <2>1, <2>2, <2>3, ChainBegins
<1>13. SUFFICES ASSUME NEW m \in DOMAIN sh', NEW r, r = sh'[m], Active(r) PROVE ChainOf(r)'
  BY DEF ChainInv, Active
<1>14. Stable(r, r.p)
  BY <1>10, AgedStable
<1>15. CASE m = i
  BY <1>2, <1>7, <1>9, <1>12, <1>13, <1>14, <1>15, ChainKept
<1>16. CASE m # i /\ m \in DOMAIN sh
  BY <1>9, <1>10, <1>13, <1>16, OthersChains
<1>17. CASE m = j
  BY <1>2, <1>8, <1>9, <1>11, <1>13, <1>14, <1>17, ChainKept
<1>. QED BY <1>9, <1>15, <1>16, <1>17

(* Fork keeps the chains.                                                  *)
LEMMA ForkChain ==
  ASSUME ShellInv, ProgramsOnly, ChainInv, NEW i \in DOMAIN sh, NEW s, s = sh[i],
         Fork(i, s), UNCHANGED <<typed, lists>>
  PROVE  ChainInv'
<1>1. CASE ~s.sub /\ Background(s)
  BY <1>1, ForkRunsChain
<1>2. CASE ~(~s.sub /\ Background(s))
  <2>1. s.pc = "fork" /\ UNCHANGED procs /\ sh' = [sh EXCEPT ![i] = [s EXCEPT !.pc = "start"]]
    BY <1>2 DEF Fork, Go
  <2>. QED BY <2>1, ChainAdvances
<1>. QED BY <1>1, <1>2

(* RunProgram keeps the chains: nobody else is at this conditional.        *)
LEMMA RunProgramChain ==
  ASSUME ShellInv, ProgramsOnly, ChainInv, NEW i \in DOMAIN sh, NEW s, s = sh[i],
         RunProgram(i, s), UNCHANGED <<typed, lists>>
  PROVE  ChainInv'
<1>. DEFINE x      == Id(s)
            pgid   == IF s.pgid # None THEN s.pgid ELSE x
            kept   == s.ends \cup IF s.k < Len(Commands(s)) THEN ParentEnds(x) ELSE {}
<1>1. s.pc = "run" /\ Active(s)
  BY DEF RunProgram, Active
<1>2. s \in ShellType /\ s.n \in 1..Len(lists) /\ ChainOf(s)
  BY <1>1, ListOf DEF ChainInv
<1>3. AtOf(s) /\ Past(s) /\ Now(s) /\ Known(s) /\ Here(s)
  BY <1>2 DEF ChainOf
<1>4. /\ s.n \in Nat /\ s.c \in Nat \ {0} /\ s.p \in Nat \ {0} /\ s.k \in Nat \ {0}
  BY <1>2, <1>3, PlaceIs
<1>5. x \in Ids /\ x \notin DOMAIN procs
  BY <1>1, NewName
<1>6. /\ DOMAIN procs' = DOMAIN procs \cup {x}
      /\ \A y \in DOMAIN procs : procs'[y] = procs[y]
  BY <1>5 DEF RunProgram, Run
<1>7. PICK late \in BOOLEAN :
        sh' = [sh EXCEPT ![i] = [s EXCEPT !.pc = "ran", !.pid = x, !.pgid = pgid,
                 !.errno = @ \/ (s.pgid # None /\ ~Exists(s.pgid)) \/ late, !.ends = kept]]
  BY DEF RunProgram, Go
<1>. DEFINE errno == s.errno \/ (s.pgid # None /\ ~Exists(s.pgid)) \/ late
<1>7a. PICK t : t = [s EXCEPT !.pc = "ran", !.pid = x, !.pgid = pgid, !.errno = errno, !.ends = kept]
  OBVIOUS
<1>8. sh' = [sh EXCEPT ![i] = t]
  BY <1>7, <1>7a
<1>9. /\ t.pc = "ran" /\ t.n = s.n /\ t.c = s.c /\ t.p = s.p /\ t.k = s.k
      /\ t.pid = x /\ t.run = s.run /\ t.ok = s.ok
  BY <1>2, <1>7a DEF ShellType
<1>10. x = <<s.n, s.c, s.p, s.k>> /\ x # None
  BY <1>5, HomeNoCommand DEF Id
<1>. HIDE DEF x, pgid, errno, kept
(* Elsewhere nothing has changed,                                          *)
<1>11. ASSUME NEW r, NEW P, r.n # s.n \/ r.c # s.c \/ (\A p \in 1..P : p # s.p)
       PROVE  Stable(r, P)
  <2>1. ASSUME NEW p \in 1..P, NEW k PROVE <<r.n, r.c, p, k>> # x
    BY <1>10, <1>11
  <2>2. ASSUME NEW p \in 1..P
        PROVE  /\ HasRun(r, p)' <=> HasRun(r, p)
               /\ Over(r, p) => Over(r, p)' /\ Result(r, p)' = Result(r, p)
    <3>1. HasRun(r, p)' <=> HasRun(r, p)
      BY <1>6, <2>1 DEF HasRun
    <3>2. LastOf(r, p)' = LastOf(r, p)
      BY DEF LastOf, Pipes
    <3>. QED BY <1>6, <3>1, <3>2 DEF Over, Result
  <2>. QED BY <2>2 DEF Stable
(* and here only that this pipeline has been run.                          *)
<1>12. ChainOf(t)'
  <2>1. /\ Pipes(t) = Pipes(s) /\ Commands(t) = Commands(s) /\ Full(t) = Full(s)
        /\ HasRun(t, t.p) = HasRun(s, s.p) /\ Past(t) /\ Now(t)
        /\ \A p : Status(s, p) => Status(t, p)
    BY <1>3, <1>9, SameChain
  <2>2. AtOf(t)
    BY <1>3, <1>9, <2>1 DEF AtOf
  <2>3. \A p \in 1..(t.p - 1) : p # s.p
    BY <1>4, <1>9
  <2>4. Stable(t, t.p - 1)
    BY <1>11, <2>3
  <2>5. AtOf(t)' /\ Past(t)' /\ Now(t)' /\ (Status(t, t.p) => Status(t, t.p)')
    BY <1>4, <1>9, <2>1, <2>2, <2>4, ChainSoFar
  <2>6. Known(t)'
    BY <1>1, <1>3, <1>9, <2>1, <2>5 DEF Known
  <2>7. s.run /\ Full(s)
    BY <1>1, <1>3 DEF Here
  <2>8. Full(t)' /\ Commands(t)' = Commands(t)
    BY <2>1, <2>7 DEF Full, Commands, Pipes
  <2>9. HasRun(t, t.p)'
    <3>1. CASE s.k = 1
      BY <1>6, <1>9, <1>10, <3>1 DEF HasRun
    <3>2. CASE s.k > 1
      BY <1>3, <1>6, <1>9, <2>7, <3>2 DEF HasRun, Here
    <3>. QED BY <1>4, <3>1, <3>2
  <2>10. Here(t)'
    BY <1>9, <1>10, <2>7, <2>8, <2>9 DEF Here, Behind
  <2>. QED BY <2>5, <2>6, <2>10 DEF ChainOf
<1>13. DOMAIN sh' = DOMAIN sh /\ sh'[i] = t /\ \A j \in DOMAIN sh \ {i} : sh'[j] = sh[j]
  BY <1>8
<1>14. SUFFICES ASSUME NEW j \in DOMAIN sh \ {i}, NEW r, r = sh[j], Active(r)
                PROVE  ChainOf(r)'
  BY <1>12, <1>13 DEF ChainInv, Active
<1>15. r \in ShellType /\ r.n \in 1..Len(lists) /\ ChainOf(r)
  BY <1>14, ListOf DEF ChainInv
<1>16. Stable(r, r.p)
  BY <1>1, <1>11, <1>14, Elsewhere
<1>. QED BY <1>15, <1>16, ChainKept

(* There are no builtins.                                                  *)
LEMMA RunBuiltinChain ==
  ASSUME ShellInv, ProgramsOnly, ChainInv, NEW i \in DOMAIN sh, NEW s, s = sh[i],
         RunBuiltin(i, s)
  PROVE  FALSE
<1>1. s.pc = "run" /\ Active(s) /\ Commands(s)[s.k] \in {"cd", "def"}
  BY DEF RunBuiltin, Active
<1>2. s \in ShellType /\ s.n \in 1..Len(lists) /\ ChainOf(s)
  BY <1>1, ListOf DEF ChainInv
<1>3. AtOf(s) /\ Full(s)
  BY <1>1, <1>2 DEF ChainOf, Here
<1>4. Full(s) => \A k \in 1..Len(Commands(s)) : Commands(s)[k] = "prog"
  BY <1>2, <1>3, PlaceIs
<1>5. s.k \in 1..Len(Commands(s))
  BY <1>3 DEF AtOf
<1>. QED BY <1>1, <1>3, <1>4, <1>5

(* Reap keeps the chains,                                                  *)
LEMMA ReapChain ==
  ASSUME ShellInv, ProgramsOnly, ChainInv, NEW i \in DOMAIN sh, NEW s, s = sh[i],
         Reap(i, s), UNCHANGED <<typed, lists>>
  PROVE  ChainInv'
<1>. DEFINE left == \/ \E x \in DOMAIN procs : procs[x].by = i /\ procs[x].up = "running"
                    \/ \E j \in DOMAIN sh : sh[j].by = i
            e == s.errno \/ ~left
<1>1. PICK t : t = [s EXCEPT !.pc = "prompt", !.errno = e]
  OBVIOUS
<1>2. sh' = [sh EXCEPT ![i] = t]
  BY <1>1 DEF Reap, Go
<1>3. s \in ShellType
  BY Sits
<1>4. e \in BOOLEAN
  BY <1>3 DEF ShellType
<1>. HIDE DEF e
<1>5. t \in ShellType /\ ~Active(t)
  BY <1>1, <1>3, <1>4 DEF ShellType, Pcs, Active
<1>6. Moves(i, s, t)
  BY <1>2, <1>5 DEF Moves
<1>7. Aged
  BY ReapAges
<1>. QED BY <1>5, <1>6, <1>7, ChainMove

(* ProgramEnds,                                                            *)
LEMMA ProgramEndsChain ==
  ASSUME ShellInv, ProgramsOnly, ChainInv, NEW x \in DOMAIN procs, ProgramEnds(x)
  PROVE  ChainInv'
<1>1. Aged /\ lists' = lists /\ sh' = sh
  BY ProgramEndsAges DEF ProgramEnds
<1>2. SUFFICES ASSUME NEW j \in DOMAIN sh, NEW r, r = sh[j], Active(r) PROVE ChainOf(r)'
  BY <1>1 DEF ChainInv, Active
<1>. QED BY <1>1, <1>2, OthersChains

(* Interrupt,                                                              *)
LEMMA InterruptChain ==
  ASSUME ShellInv, ProgramsOnly, ChainInv, Interrupt
  PROVE  ChainInv'
<1>1. Aged /\ lists' = lists
  BY InterruptAges DEF Interrupt
<1>2. CASE fg # Home
  <2>1. sh' = sh
    BY <1>2 DEF Interrupt
  <2>2. SUFFICES ASSUME NEW j \in DOMAIN sh, NEW r, r = sh[j], Active(r) PROVE ChainOf(r)'
    BY <2>1 DEF ChainInv, Active
  <2>. QED BY <1>1, <2>2, OthersChains
<1>3. CASE fg = Home
  <2>1. sh' \in [DOMAIN sh -> ShellType] /\ \A j \in DOMAIN sh : Caught(sh[j], sh'[j])
    BY <1>3, InterruptCaught
  <2>2. SUFFICES ASSUME NEW j \in DOMAIN sh, NEW t, t = sh'[j], Active(t) PROVE ChainOf(t)'
    BY <2>1 DEF ChainInv, Active
  <2>3. PICK s : s = sh[j]
    OBVIOUS
  <2>4. Caught(s, t) /\ t \in ShellType
    BY <2>1, <2>2, <2>3
  <2>5. Active(s)
    BY <2>2, <2>4 DEF Caught, Active
  <2>6. ChainOf(s) /\ s.n \in 1..Len(lists)
    BY <2>3, <2>5, ListOf DEF ChainInv
  <2>7. ChainOf(t)
    <3>1. AtOf(s) /\ Past(s) /\ Now(s) /\ Known(s) /\ Here(s)
      BY <2>6 DEF ChainOf
    <3>2. /\ t.n = s.n /\ t.c = s.c /\ t.p = s.p /\ t.k = s.k /\ t.pid = s.pid
          /\ t.run = s.run /\ t.ok = s.ok /\ t.sub = s.sub
          /\ t.pc = s.pc \/ (s.pc = "wait" /\ t.pc = "eintr")
      BY <2>2, <2>4 DEF Caught, Active
    <3>3. /\ Pipes(t) = Pipes(s) /\ Commands(t) = Commands(s) /\ Full(t) = Full(s)
          /\ HasRun(t, t.p) = HasRun(s, s.p) /\ Past(t) /\ Now(t)
          /\ \A p : Status(s, p) => Status(t, p)
      BY <3>1, <3>2, SameChain
    <3>4. AtOf(t)
      BY <3>1, <3>2, <3>3 DEF AtOf
    <3>5. Known(t)
      <4>1. CASE s.pc = "cond"
        <5>1. Over(t, t.p) = Over(s, s.p)
          BY <3>2, SameList
        <5>. QED BY <3>1, <3>2, <3>3, <4>1, <5>1 DEF Known
      <4>2. CASE s.pc # "cond"
        BY <3>1, <3>2, <3>3, <4>2 DEF Known
      <4>. QED BY <4>1, <4>2
    <3>6. Here(t)
      <4>1. Behind(t) = Behind(s) /\ Background(t) = Background(s)
        BY <3>2 DEF Behind, Background
      <4>. QED BY <3>1, <3>2, <3>3, <4>1 DEF Here
    <3>. QED BY <3>3, <3>4, <3>5, <3>6 DEF ChainOf
  <2>8. Stable(t, t.p)
    BY <1>1, AgedStable
  <2>9. t.n \in 1..Len(lists)
    BY <2>4, <2>6 DEF Caught
  <2>. QED BY <2>4, <2>7, <2>8, <2>9, ChainKept
<1>. QED BY <1>2, <1>3

(* and ReadLine.                                                           *)
LEMMA ReadLineChain ==
  ASSUME ShellInv, ProgramsOnly, ChainInv, ReadLine
  PROVE  ChainInv'
<1>. DEFINE n == Len(typed) + 1
<1>0. PICK i \in DOMAIN sh : sh[i].pc = "prompt" /\ Go(i, Fresh(sh[i], n))
  BY DEF ReadLine
<1>1. PICK s : s = sh[i]
  OBVIOUS
<1>2. PICK t : t = Fresh(s, n)
  OBVIOUS
<1>3. s \in ShellType
  BY <1>1, Sits
<1>4. typed \in Seq(Typable) /\ lists \in Seq(Parsed) /\ Len(lists) = Len(typed)
  BY DEF ShellInv, TypesInv, TypedInv
<1>5. PICK tokens \in Lines[n] : lists' = Append(lists, ParseLine(tokens))
  BY DEF ReadLine
<1>6. n \in DOMAIN Lines /\ UNCHANGED procs /\ sh' = [sh EXCEPT ![i] = t]
  <2>1. n <= Len(Lines) /\ UNCHANGED procs
    BY DEF ReadLine
  <2>2. n \in DOMAIN Lines
    BY <1>4, <2>1, ShellAssumption
  <2>. QED BY <1>0, <1>1, <1>2, <2>1, <2>2 DEF Go
<1>. DEFINE l == ParseLine(tokens)
<1>7. l \in Parsed
  BY <1>5, <1>6 DEF Parsed, Typable
<1>. HIDE DEF l
<1>8. n \in Nat /\ n > Len(lists) /\ lists'[n] = l /\ Len(lists) \in Nat
      /\ \A j \in 1..Len(lists) : lists'[j] = lists[j]
  BY <1>4, <1>5 DEF l
<1>. HIDE DEF n
<1>9. DOMAIN sh' = DOMAIN sh /\ sh'[i] = t /\ \A j \in DOMAIN sh \ {i} : sh'[j] = sh[j]
  BY <1>3, <1>6
<1>10. /\ t.pc = "top" /\ t.n = n /\ t.c = 1 /\ t.p = 1 /\ t.k = 1 /\ t.run
  BY <1>2, <1>3 DEF Fresh, ShellType
<1>11. ChainOf(t)'
  <2>1. /\ Len(l) \in Nat \ {0} /\ Len(l[1].pipes) \in Nat \ {0}
        /\ Len(l[1].pipes[1].cmds) \in Nat \ {0}
    <3>1. Len(l) \in Nat \ {0} /\ 1 \in 1..Len(l)
      BY <1>7, ListIs
    <3>2. Len(l[1].pipes) \in Nat \ {0} /\ 1 \in 1..Len(l[1].pipes)
      BY <1>7, <3>1, ListIs
    <3>. QED BY <1>7, <3>1, <3>2, ListIs
  <2>2. AtOf(t)'
    BY <1>8, <1>10, <2>1 DEF AtOf, Pipes, Commands
  <2>3. Past(t)' /\ Now(t)' /\ Known(t)'
    BY <1>10 DEF Past, Now, Known
  <2>4. ~HasRun(t, t.p)'
    <3>. DEFINE x == <<t.n, t.c, t.p, 1>>
    <3>1. x[1] = n
      BY <1>10
    <3>2. x \notin DOMAIN procs
      BY <1>8, <3>1 DEF ShellInv, HistoryInv, OwnerInv
    <3>. QED BY <1>6, <3>2 DEF HasRun
  <2>5. Here(t)'
    BY <1>10, <2>4 DEF Here, Behind
  <2>. QED BY <2>2, <2>3, <2>5 DEF ChainOf
<1>12. SUFFICES ASSUME NEW j \in DOMAIN sh \ {i}, NEW r, r = sh[j], Active(r)
                PROVE  ChainOf(r)'
  BY <1>9, <1>11 DEF ChainInv, Active
<1>13. r \in ShellType /\ r.n \in 1..Len(lists) /\ ChainOf(r)
  BY <1>12, ListOf DEF ChainInv
<1>14. Stable(r, r.p)
  BY <1>6, <1>8, <1>13 DEF Stable, HasRun, Over, Result, LastOf, Pipes
<1>. QED BY <1>13, <1>14, ChainKept

(* Every step keeps the chains.                                            *)
LEMMA ChainNext ==
  ASSUME ShellInv, ProgramsOnly, ChainInv, [Next]_vars
  PROVE  ChainInv'
<1>1. ASSUME NEW i \in DOMAIN sh, ShellStep(i, sh[i]) PROVE ChainInv'
  <2>1. PICK s : s = sh[i]
    OBVIOUS
  <2>2. (RunListStep(i, s) \/ Reap(i, s)) /\ UNCHANGED <<typed, lists>>
    BY <1>1, <2>1 DEF ShellStep
  <2>3. CASE Top(i, s)
    BY <2>1, <2>2, <2>3, TopChain
  <2>4. CASE Fork(i, s)
    BY <2>1, <2>2, <2>4, ForkChain
  <2>5. CASE Start(i, s)
    BY <2>1, <2>2, <2>5, StartChain
  <2>6. CASE RunBuiltin(i, s)
    BY <2>1, <2>2, <2>6, RunBuiltinChain
  <2>7. CASE RunProgram(i, s)
    BY <2>1, <2>2, <2>7, RunProgramChain
  <2>8. CASE Ran(i, s)
    BY <2>1, <2>2, <2>8, RanChain
  <2>9. CASE NextCommand(i, s)
    BY <2>1, <2>2, <2>9, NextCommandChain
  <2>10. CASE Wait(i, s)
    BY <2>1, <2>2, <2>10, WaitChain
  <2>11. CASE WaitFails(i, s)
    BY <2>1, <2>2, <2>11, WaitFailsChain
  <2>12. CASE Conditional(i, s)
    BY <2>1, <2>2, <2>12, ConditionalChain
  <2>13. CASE Reap(i, s)
    BY <2>1, <2>2, <2>13, ReapChain
  <2>. QED BY <2>2, <2>3, <2>4, <2>5, <2>6, <2>7, <2>8, <2>9, <2>10, <2>11, <2>12, <2>13
           DEF RunListStep
<1>2. ASSUME NEW x \in DOMAIN procs, ProgramEnds(x) PROVE ChainInv'
  BY <1>2, ProgramEndsChain
<1>3. CASE ReadLine
  BY <1>3, ReadLineChain
<1>4. CASE Interrupt
  BY <1>4, InterruptChain
<1>5. CASE UNCHANGED vars
  <2>1. UNCHANGED <<lists, sh, procs>>
    BY <1>5 DEF vars
  <2>2. Aged
    BY <2>1, Idle DEF ShellInv
  <2>3. SUFFICES ASSUME NEW j \in DOMAIN sh, NEW r, r = sh[j], Active(r) PROVE ChainOf(r)'
    BY <2>1 DEF ChainInv, Active
  <2>. QED BY <2>1, <2>2, <2>3, OthersChains
<1>. QED BY <1>1, <1>2, <1>3, <1>4, <1>5 DEF Next, Step

(* The maximum of a set of numbers.                                        *)
LEMMA MaxIs ==
  ASSUME NEW S \in SUBSET Nat, NEW q \in S, \A r \in S : r <= q
  PROVE  Max(S) = q
<1>1. \E m \in S : \A r \in S : m >= r
  OBVIOUS
<1>2. Max(S) \in S /\ \A r \in S : Max(S) >= r
  BY <1>1 DEF Max
<1>. DEFINE m == Max(S)
<1>. HIDE DEF m
<1>3. m \in Nat /\ q \in Nat /\ m >= q /\ m <= q
  BY <1>2 DEF m
<1>4. m = q
  BY <1>3
<1>. QED BY <1>4 DEF m

(* The pipeline that a chain looks back at is the last that has run.       *)
LEMMA LastIsMax ==
  ASSUME NEW s, s.p \in Nat, NEW p \in 2..s.p, NEW q, LastRun(s, p, q)
  PROVE  Max({m \in {r \in 1..s.p : HasRun(s, r)} : m < p}) = q
<1>. DEFINE S == {m \in {r \in 1..s.p : HasRun(s, r)} : m < p}
<1>1. S \in SUBSET Nat
  OBVIOUS
<1>2. q \in S
  BY DEF LastRun
<1>3. \A r \in S : r <= q
  BY DEF LastRun
<1>. HIDE DEF S
<1>4. Max(S) = q
  BY <1>1, <1>2, <1>3, MaxIs
<1>. QED BY <1>4 DEF S

(* For lines of programs: a pipeline in a chain runs if and only if the    *)
(* last one run before it succeeded, for &&, or failed, for ||             *)
(* (sh61.cc:243, 294-295), in the shell and in its subshells, whatever is  *)
(* interrupted.                                                            *)
THEOREM ChainsGoOn ==
  ASSUME ProgramsOnly
  PROVE  Spec => []ChainsFollowed
<1>1. Init => ChainInv
  BY DEF Init, ChainInv, Active
<1>2. ShellInv /\ ChainInv /\ [Next]_vars => ChainInv'
  BY ChainNext
<1>3. ShellInv /\ ChainInv => ChainsFollowed
  <2>1. SUFFICES ASSUME ShellInv, ChainInv, NEW i \in DOMAIN sh, Active(sh[i]),
                        NEW s, s = sh[i], NEW p \in 2..s.p
                 PROVE
                   LET ran    == {r \in 1..s.p : HasRun(s, r)}
                       before == {q \in ran : q < p}
                       due    == before # {} => (Result(s, Max(before)) # Pipes(s)[p - 1].or)
                   IN  /\ p \in ran => due
                       /\ p < s.p /\ p \notin ran /\ Pipes(s)[p].cmds[1] # "empty" => ~due
    BY DEF ChainsFollowed, Active, HasRun, Result, LastOf
  <2>2. s \in ShellType /\ s.n \in 1..Len(lists) /\ ChainOf(s)
    BY <2>1, ListOf DEF ChainInv
  <2>3. s.p \in Nat
    BY <2>2 DEF ShellType
  <2>. DEFINE before == {q \in {r \in 1..s.p : HasRun(s, r)} : q < p}
  <2>4. ASSUME Due(s, p) PROVE Result(s, Max(before)) # Pipes(s)[p - 1].or
    <3>1. PICK q \in Nat : LastRun(s, p, q) /\ Result(s, q) # Pipes(s)[p - 1].or
      BY <2>4 DEF Due
    <3>. QED BY <2>3, <3>1, LastIsMax
  <2>5. ASSUME NotDue(s, p)
        PROVE  before # {} /\ Result(s, Max(before)) = Pipes(s)[p - 1].or
    <3>1. PICK q \in Nat : LastRun(s, p, q) /\ Result(s, q) = Pipes(s)[p - 1].or
      BY <2>5 DEF NotDue
    <3>2. q \in before
      BY <2>3, <3>1 DEF LastRun
    <3>. QED BY <2>3, <3>1, <3>2, LastIsMax
  <2>6. HasRun(s, p) => Due(s, p)
    <3>1. CASE p = s.p
      BY <2>2, <2>3, <3>1 DEF ChainOf, Here, Now
    <3>2. CASE p # s.p
      BY <2>2, <2>3, <3>2 DEF ChainOf, Past
    <3>. QED BY <3>1, <3>2
  <2>7. p < s.p /\ ~HasRun(s, p) => NotDue(s, p)
    BY <2>2, <2>3 DEF ChainOf, Past
  <2>. HIDE DEF before
  <2>8. p \in {r \in 1..s.p : HasRun(s, r)} <=> HasRun(s, p)
    BY <2>3
  <2>. QED BY <2>4, <2>5, <2>6, <2>7, <2>8 DEF before
<1>. QED BY <1>1, <1>2, <1>3, ShellSound, PTL DEF Spec
==============================================================================
