-------------------------------- MODULE Shell --------------------------------
(***************************************************************************)
(* The shell of pset5/sh61.cc: parse_line, run_list with its background    *)
(* subshells, command::run with pipes and process groups, the interrupt    *)
(* handler, and the loop of main.  The commands, the terminal and the      *)
(* kernel's side of fork, setpgid, tcsetpgrp, waitpid and pipe are part of *)
(* the model.                                                              *)
(*                                                                         *)
(* A line is a sequence of tokens: operators, and the words "prog" for any *)
(* program, "cd" and "def" (a variable definition).  Substitution and      *)
(* redirection change what a program does, which is left open anyway.      *)
(***************************************************************************)
EXTENDS Integers, Sequences, SequencesExt, FiniteSetsExt

CONSTANTS
  Lines,      (* Lines[n]: the lines that the user may type as the nth     *)
  MaxInts     (* bound on how often the user types control-C               *)

ASSUME ShellAssumption == MaxInts \in Nat /\ DOMAIN Lines = 1..Len(Lines)

VARIABLES
  typed,      (* the lines typed so far, as tokens                         *)
  lists,      (* and as parse_line returns them                            *)
  sh,         (* the shell, Main, and its subshells.  pc: where it is in   *)
              (* run_list or main; n, c, p, k: the line, conditional,      *)
              (* pipeline and command it is at; run; ok: status is 0;      *)
              (* pgid; pid: of the command it is at; int: interrupted;     *)
              (* ends: the pipe ends it has open; errno: it is not 0;      *)
              (* sub: p is 0, it has been forked for one conditional;      *)
              (* by: its parent                                            *)
  procs,      (* history of the commands run.  up: "running", "zombie" or  *)
              (* "gone"; kind; ok: its status is 0; group; by: its parent; *)
              (* ends                                                      *)
  fg,         (* the terminal's foreground group                           *)
  stopped,    (* the shell's group has been stopped by SIGTTIN             *)
  ints,       (* how often control-C was typed                             *)
  cut         (* history: a list was left with the end of a pipe open      *)

vars == <<typed, lists, sh, procs, fg, stopped, ints, cut>>

Main == <<0, 0>>
None == << >>
Home == <<0>>     (* the shell's own group, which subshells stay in *)

-----------------------------------------------------------------------------
(* parse_line. *)
NewPipeline == [or |-> FALSE, cmds |-> <<"empty">>]
NewConditional == [bg |-> FALSE, pipes |-> <<NewPipeline>>]

(* && or || ends the last of a conditional's pipelines.                    *)
(* Mutant: it is the new pipeline that is marked.                          *)
MarkedNext(pipes, or) == Append(pipes, [NewPipeline EXCEPT !.or = or])
Chained(pipes, or) == Append([pipes EXCEPT ![Len(pipes)].or = or], NewPipeline)

(* list ls after one more token.                                           *)
Consume(ls, token) ==
  LET c == Len(ls)
      p == Len(ls[c].pipes)
      k == Len(ls[c].pipes[p].cmds)
  IN  CASE token = "&"  -> Append([ls EXCEPT ![c].bg = TRUE], NewConditional)
        [] token = ";"  -> Append(ls, NewConditional)
        [] token \in {"&&", "||"} ->
             [ls EXCEPT ![c].pipes = Chained(@, token = "||")]
        [] token = "|"  -> [ls EXCEPT ![c].pipes[p].cmds = Append(@, "empty")]
        [] token \in {"prog", "cd", "def"} -> [ls EXCEPT ![c].pipes[p].cmds[k] = token]

ParseLine(tokens) == FoldLeft(Consume, <<NewConditional>>, tokens)

-----------------------------------------------------------------------------
(* Processes, pipes and groups. *)
Exists(group) == \E x \in DOMAIN procs : procs[x].up # "gone" /\ procs[x].group = group

Open(end) ==
  \/ \E i \in DOMAIN sh : end \in sh[i].ends
  \/ \E x \in DOMAIN procs : end \in procs[x].ends

(* A program ends of itself, or when its output has no reader any more, or *)
(* when its input has no writer any more.                                  *)
Ended(x, ok) ==
  procs' = [procs EXCEPT ![x].ok = ok, ![x].ends = {},
              ![x].up = IF procs[x].by \in DOMAIN sh THEN "zombie" ELSE "gone"]

Previous(x) == <<x[1], x[2], x[3], x[4] - 1>>

ProgramEnds(x) ==
  /\ procs[x].up = "running" /\ ~(stopped /\ procs[x].group = Home)
  /\ \/ procs[x].kind = "any" /\ \E ok \in BOOLEAN : Ended(x, ok)
     \/ procs[x].kind = "source" /\ ~Open(<<x, "r">>) /\ Ended(x, FALSE)
     \/ procs[x].kind = "filter" /\ ~Open(<<Previous(x), "w">>) /\ Ended(x, TRUE)
  /\ UNCHANGED <<typed, lists, sh, fg, stopped, ints, cut>>

(* claim_foreground, by a shell; tcsetpgrp fails if there is no group.   *)
Claimed(group) == IF group = Home \/ Exists(group) THEN group ELSE fg

(* Mutant: the terminal is not given back.                                 *)
NotReclaimed == fg
Reclaimed == Claimed(Home)

-----------------------------------------------------------------------------
(* run_list. *)
Pipes(s) == lists[s.n][s.c].pipes
Commands(s) == Pipes(s)[s.p].cmds
Background(s) == lists[s.n][s.c].bg
Id(s) == <<s.n, s.c, s.p, s.k>>

Fresh(s, n) ==
  [s EXCEPT !.pc = "top", !.n = n, !.c = 1, !.p = 1, !.k = 1, !.run = TRUE,
            !.ok = TRUE, !.pgid = None, !.pid = None]

Go(i, s) == sh' = [sh EXCEPT ![i] = s]

(* run_list returns, to main; in a subshell as well, which from then on is *)
(* a shell like any other: p is local to run_list.                         *)
Returned(s) == [Fresh(s, s.n) EXCEPT !.pc = "reap", !.int = FALSE, !.sub = FALSE]

(* An interrupt makes it return. *)
Return(i, s) == Go(i, Returned(s)) /\ cut' = (cut \/ s.ends # {})

Stops(s) == s.int /\ ~Background(s)

Top(i, s) ==
  /\ s.pc = "top"
  /\ IF Stops(s) THEN Return(i, s) ELSE Go(i, [s EXCEPT !.pc = "fork"]) /\ UNCHANGED cut
  /\ UNCHANGED <<procs, fg>>

Fork(i, s) ==
  /\ s.pc = "fork"
  /\ IF ~s.sub /\ Background(s)
     THEN LET next  == IF s.c = Len(lists[s.n]) THEN Returned(s) ELSE [s EXCEPT !.c = @ + 1]
              child == [s EXCEPT !.pc = "start", !.sub = TRUE, !.by = i]
          IN  sh' = [j \in DOMAIN sh \cup {<<s.n, s.c>>} |->
                       IF j = i THEN next ELSE IF j \in DOMAIN sh THEN sh[j] ELSE child]
     ELSE Go(i, [s EXCEPT !.pc = "start"])
  /\ UNCHANGED <<procs, fg, cut>>

Start(i, s) ==
  /\ s.pc = "start"
  /\ IF ~s.run \/ Commands(s)[s.k] = "empty"
     THEN Go(i, [s EXCEPT !.pc = "next"]) /\ UNCHANGED cut
     ELSE IF Stops(s) THEN Return(i, s)
     ELSE Go(i, [s EXCEPT !.pc = "run"]) /\ UNCHANGED cut
  /\ UNCHANGED <<procs, fg>>

(* command::run. *)
Run(s, x, proc) ==
  procs' = [y \in DOMAIN procs \cup {x} |-> IF y = x THEN proc ELSE procs[y]]

RunBuiltin(i, s) ==
  /\ s.pc = "run" /\ Commands(s)[s.k] \in {"cd", "def"}
  /\ \E ok \in BOOLEAN :
       LET cd    == Commands(s)[s.k] = "cd"
           errno == s.errno \/ (cd /\ ~ok)
       IN  /\ cd \/ ok
           /\ Run(s, Id(s), [up |-> "gone", kind |-> "any", ok |-> ok, group |-> Home,
                             by |-> i, ends |-> {}])
           /\ Go(i, [s EXCEPT !.pc = "ran", !.errno = errno,
                       !.ok = IF cd THEN ~errno ELSE @])
  /\ UNCHANGED <<fg, cut>>

(* The child has inherited what its parent had open.                       *)
(* Mutant: the parent keeps the write end.                                 *)
BothEnds(x) == {<<x, "r">>, <<x, "w">>}
ParentEnds(x) == {<<x, "r">>}

(* Its input will end: its writer is none that never ends of itself.       *)
Fed(s) == s.k > 1 /\ procs[Previous(Id(s))].kind # "source"

(* The parent's setpgid fails if the group has gone, like the child's, or  *)
(* if the child has got to execvp by then; errno tells.                    *)
RunProgram(i, s) ==
  /\ s.pc = "run" /\ Commands(s)[s.k] = "prog"
  /\ LET x      == Id(s)
         writes == s.k < Len(Commands(s))
         joins  == s.pgid # None
         fails  == joins /\ ~Exists(s.pgid)
     IN  /\ \E kind \in {"any"} \cup (IF writes THEN {"source"} ELSE {})
                       \cup (IF Fed(s) THEN {"filter"} ELSE {}) :
              Run(s, x, [up |-> "running", kind |-> kind, ok |-> FALSE,
                         group |-> IF fails THEN Home ELSE IF joins THEN s.pgid ELSE x,
                         by |-> i, ends |-> s.ends \cup IF writes THEN {<<x, "w">>} ELSE {}])
         /\ \E late \in BOOLEAN :
              Go(i, [s EXCEPT !.pc = "ran", !.pid = x,
                      !.pgid = IF joins THEN @ ELSE x, !.errno = @ \/ fails \/ late,
                      !.ends = @ \cup IF writes THEN ParentEnds(x) ELSE {}])
  /\ UNCHANGED <<fg, cut>>

Ran(i, s) ==
  /\ s.pc = "ran"
  /\ IF Stops(s) THEN Return(i, s) ELSE Go(i, [s EXCEPT !.pc = "next"]) /\ UNCHANGED cut
  /\ UNCHANGED <<procs, fg>>

(* The next command of the pipeline, or the read ends are closed and the   *)
(* last command waited for.                                                *)
(* Mutant: the last command's read end is overlooked.                      *)
KeptLast(s) == {e \in s.ends : e[1] # Previous(Id(s))}
ReadEnds(s) == {e \in s.ends : SubSeq(e[1], 1, 3) = <<s.n, s.c, s.p>>}

NextCommand(i, s) ==
  /\ s.pc = "next"
  /\ IF s.k < Len(Commands(s)) /\ Commands(s)[s.k + 1] # "empty"
     THEN Go(i, [s EXCEPT !.pc = "top", !.k = @ + 1, !.pid = None]) /\ UNCHANGED fg
     ELSE /\ Go(i, [s EXCEPT !.ends = @ \ ReadEnds(s),
                             !.pc = IF s.pid = None THEN "cond" ELSE "wait"])
          /\ fg' = IF s.pid = None \/ Background(s) THEN fg ELSE Claimed(s.pgid)
  /\ UNCHANGED <<procs, cut>>

Wait(i, s) ==
  /\ s.pc = "wait" /\ procs[s.pid].up = "zombie"
  /\ procs' = [procs EXCEPT ![s.pid].up = "gone"]
  /\ Go(i, [s EXCEPT !.pc = "cond", !.ok = procs[s.pid].ok])
  /\ fg' = IF Background(s) THEN fg ELSE Reclaimed
  /\ UNCHANGED cut

(* waitpid has been interrupted. *)
WaitFails(i, s) ==
  /\ s.pc = "eintr"
  /\ Return(i, [s EXCEPT !.errno = TRUE])
  /\ fg' = IF Background(s) THEN fg ELSE Reclaimed
  /\ UNCHANGED procs

(* The next pipeline, and whether it is to run; or the next conditional.   *)
(* Mutant: what follows is looked up in the pipeline that was skipped.     *)
RunsAlways(s) == ~Pipes(s)[s.p].or
RunsNext(s) == s.ok # Pipes(s)[s.p].or

Conditional(i, s) ==
  /\ s.pc = "cond" /\ UNCHANGED fg
  /\ IF s.p < Len(Pipes(s))
     THEN /\ Go(i, [s EXCEPT !.pc = "top", !.p = @ + 1, !.k = 1, !.pid = None,
                             !.run = RunsNext(s)])
          /\ UNCHANGED <<procs, cut>>
     ELSE IF s.sub       (* _exit; what is left of its children is init's *)
     THEN /\ sh' = [j \in DOMAIN sh \ {i} |-> sh[j]]
          /\ procs' = [x \in DOMAIN procs |->
               IF procs[x].by = i /\ procs[x].up = "zombie"
               THEN [procs[x] EXCEPT !.up = "gone"] ELSE procs[x]]
          /\ UNCHANGED cut
     ELSE /\ UNCHANGED procs
          /\ UNCHANGED cut
          /\ Go(i, IF s.c = Len(lists[s.n]) THEN Returned(s)
                   ELSE [Fresh(s, s.n) EXCEPT !.c = s.c + 1, !.pgid = s.pgid])

-----------------------------------------------------------------------------
(* main: the zombies that no waitpid asked for; then a prompt, and fgets,  *)
(* which stops the shell's group if the terminal is not the group's.  A    *)
(* shell that is in fgets already stays there when that changes.           *)
Reap(i, s) ==
  /\ s.pc = "reap"
  /\ LET dead == {x \in DOMAIN procs : procs[x].by = i /\ procs[x].up = "zombie"}
         left == \/ \E x \in DOMAIN procs : procs[x].by = i /\ procs[x].up = "running"
                 \/ \E j \in DOMAIN sh : sh[j].by = i
     IN  /\ procs' = [x \in DOMAIN procs |->
              IF x \in dead THEN [procs[x] EXCEPT !.up = "gone"] ELSE procs[x]]
         /\ Go(i, [s EXCEPT !.pc = "prompt", !.errno = @ \/ ~left])
  /\ stopped' = (fg # Home)
  /\ UNCHANGED <<fg, cut>>

(* Whichever shell is in fgets gets the line.                              *)
ReadLine ==
  LET n == Len(typed) + 1 IN
  /\ n <= Len(Lines) /\ ~stopped
  /\ \E tokens \in Lines[n] :
       typed' = Append(typed, tokens) /\ lists' = Append(lists, ParseLine(tokens))
  /\ \E i \in DOMAIN sh : sh[i].pc = "prompt" /\ Go(i, Fresh(sh[i], n))
  /\ UNCHANGED <<procs, fg, stopped, ints, cut>>

(* Control-C: SIGINT to the foreground group.  A shell that is in it, or   *)
(* about to be, in waitpid or fgets is interrupted in it, or just before.  *)
Broken(s) ==
  CASE s.pc = "wait"   -> [s EXCEPT !.pc = "eintr"]
    [] s.pc = "prompt" -> [s EXCEPT !.pc = "reap", !.errno = TRUE]

Interrupt ==
  /\ ints < MaxInts /\ ints' = ints + 1 /\ ~stopped
  /\ procs' = [x \in DOMAIN procs |->
       IF procs[x].up = "running" /\ procs[x].group = fg
       THEN [procs[x] EXCEPT !.ok = FALSE, !.ends = {},
               !.up = IF procs[x].by \in DOMAIN sh THEN "zombie" ELSE "gone"]
       ELSE procs[x]]
  /\ \E within \in SUBSET {i \in DOMAIN sh : sh[i].pc \in {"wait", "prompt"}} :
       sh' = IF fg # Home THEN sh
             ELSE [i \in DOMAIN sh |->
                     [(IF i \in within THEN Broken(sh[i]) ELSE sh[i]) EXCEPT !.int = TRUE]]
  /\ UNCHANGED <<typed, lists, fg, stopped, cut>>

Init ==
  /\ typed = << >> /\ lists = << >> /\ procs = << >> /\ fg = Home
  /\ stopped = FALSE /\ ints = 0 /\ cut = FALSE
  /\ sh = [i \in {Main} |->
       [pc |-> "prompt", n |-> 0, c |-> 1, p |-> 1, k |-> 1, run |-> TRUE, ok |-> TRUE,
        pgid |-> None, pid |-> None, int |-> FALSE, ends |-> {}, errno |-> FALSE,
        sub |-> FALSE, by |-> None]]

RunListStep(i, s) ==
  \/ Top(i, s) \/ Fork(i, s) \/ Start(i, s) \/ RunBuiltin(i, s) \/ RunProgram(i, s)
  \/ Ran(i, s) \/ NextCommand(i, s) \/ Wait(i, s) \/ WaitFails(i, s) \/ Conditional(i, s)

ShellStep(i, s) ==
  /\ ~stopped
  /\ (RunListStep(i, s) /\ UNCHANGED stopped) \/ Reap(i, s)
  /\ UNCHANGED <<typed, lists, ints>>

Step ==
  \/ \E i \in DOMAIN sh : ShellStep(i, sh[i])
  \/ \E x \in DOMAIN procs : ProgramEnds(x)

Next == Step \/ ReadLine \/ Interrupt

(* Shells and programs go on; nobody has to type anything.                 *)
Spec == Init /\ [][Next]_vars /\ WF_vars(Step)

-----------------------------------------------------------------------------
(* The line as sh61.hh's grammar reads it: conditionals end at ; and &,    *)
(* pipelines at && and ||, commands at |.                                  *)
Cuts(t, ops) == <<0>> \o SetToSortSeq({i \in DOMAIN t : t[i] \in ops}, <) \o <<Len(t) + 1>>
Parts(t, ops) ==
  LET cuts == Cuts(t, ops)
  IN  [j \in 1..(Len(cuts) - 1) |-> SubSeq(t, cuts[j] + 1, cuts[j + 1] - 1)]
EndsWith(t, ops, j, op) == LET at == Cuts(t, ops)[j + 1] IN at <= Len(t) /\ t[at] = op

Grammar(t) ==
  [c \in DOMAIN Parts(t, {";", "&"}) |->
     LET cond == Parts(t, {";", "&"})[c] IN
     [bg |-> EndsWith(t, {";", "&"}, c, "&"),
      pipes |-> [p \in DOMAIN Parts(cond, {"&&", "||"}) |->
        LET pipe == Parts(cond, {"&&", "||"})[p] IN
        [or |-> EndsWith(cond, {"&&", "||"}, p, "||"),
         cmds |-> [k \in DOMAIN Parts(pipe, {"|"}) |->
           LET words == Parts(pipe, {"|"})[k]
           IN  IF words = << >> THEN "empty" ELSE Last(words)]]]]]

Grammars == [t \in UNION {Lines[n] : n \in DOMAIN Lines} |-> Grammar(t)]

(* parse_line builds the list that the grammar gives (sh61.cc:327-457).    *)
ParsesGrammar == \A n \in DOMAIN typed : lists[n] = Grammars[typed[n]]

(* In a chain, a pipeline runs if and only if the last one that has run    *)
(* before it succeeded, for &&, or failed, for || (sh61.cc:243, 294-295).  *)
ChainsFollowed ==
  \A i \in {j \in DOMAIN sh : sh[j].pc \notin {"prompt", "reap"}} :
    LET s     == sh[i]
        ran   == {p \in 1..s.p : <<s.n, s.c, p, 1>> \in DOMAIN procs}
        ok(p) == procs[<<s.n, s.c, p, Len(Pipes(s)[p].cmds)>>].ok
        due(p) == LET before == {q \in ran : q < p}
                  IN  before # {} => (ok(Max(before)) # Pipes(s)[p - 1].or)
    IN  \A p \in 2..s.p :
          /\ p \in ran => due(p)
          /\ p < s.p /\ p \notin ran /\ Pipes(s)[p].cmds[1] # "empty" => ~due(p)

(* The terminal is away from the shell's group only while a shell waits    *)
(* for the foreground pipeline that it was given to, of which something is *)
(* left to wait for; also when a subshell that was interrupted has become  *)
(* a second shell, which gives the terminal away and takes it back         *)
(* whatever the first is at (sh61.cc:287-290, 506-510).                    *)
ForegroundReturns ==
  fg # Home =>
    /\ \E i \in DOMAIN sh : sh[i].pc \in {"wait", "eintr"} /\ ~sh[i].sub /\ sh[i].pgid = fg
    /\ Exists(fg)

(* No end of a pipe is left open in a shell at its prompt, unless an       *)
(* interrupt has cut a pipeline in two (sh61.cc:173-177, 276-282).         *)
NoEndsLeft == \A i \in DOMAIN sh : sh[i].pc = "prompt" => sh[i].ends = {} \/ cut

(* Every command ends, also those that wait for the end of their input or  *)
(* for a broken pipe, and every shell prompts again, unless an interrupt   *)
(* has cut a pipeline in two, or one shell has asked for a line while      *)
(* another had given the terminal away (sh61.cc:138-150, 173-177,          *)
(* 276-290).                                                               *)
Settles ==
  <>[](\/ cut \/ stopped
       \/ /\ \A i \in DOMAIN sh : sh[i].pc = "prompt"
          /\ \A x \in DOMAIN procs : procs[x].up # "running")

=============================================================================
