------------------------------- MODULE MCShell -------------------------------
(* Instances of Shell.                                                     *)
EXTENDS Shell

Ops == {";", "&", "&&", "||", "|"}

(* Every line of two programs, also with an operator behind them, and of   *)
(* three with at most one & between them.                                  *)
MCFirst ==
  LET two == {<<"prog", op, "prog">> : op \in Ops}
  IN  two \cup {t \o <<op>> : t \in two, op \in {";", "&"}}
          \cup {t \in {u \o <<op, "prog">> : u \in two, op \in Ops} : t[2] # "&" \/ t[4] # "&"}

(* Lines with cd and a definition, which are the shell's own.              *)
MCBuiltins ==
  {<<"cd", "&&", "prog", "||", "cd">>, <<"def", ";", "cd", "||", "prog">>}

MCLines == <<MCFirst \cup MCBuiltins, {<<"prog">>}>>
=============================================================================
