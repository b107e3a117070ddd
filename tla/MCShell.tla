------------------------------ MODULE MCShell ------------------------------
(* Lines with pipelines of up to three stages, redirections, operators and  *)
(* an error; the last line is one that never ends.                          *)
EXTENDS Shell

Cmd(kind, result) == [kind |-> kind, redirect |-> "no", result |-> result, filter |-> FALSE]
Ls == Cmd("program", "ok")
Grep == [Cmd("program", "fail") EXCEPT !.filter = TRUE]
Sort == [Cmd("program", "ok") EXCEPT !.filter = TRUE]
Cd == Cmd("builtin", "ok")
Kill == Cmd("builtin", "fail")
BadType == Cmd("builtin", "error")
Exit_ == Cmd("exit", "ok")
ToFile(c) == [c EXCEPT !.redirect = "out"]
FromFile(c) == [c EXCEPT !.redirect = "in"]
Is(commands, op) == [commands |-> commands, op |-> op]

MCLines ==
    {<<<<Is(<<Ls, Grep, Sort>>, "end")>>>>,
     <<<<Is(<<Ls, Sort>>, "and"), Is(<<Cd>>, "or"), Is(<<Ls>>, "end")>>, <<Is(<<Grep>>, "or")>>>>,
     <<<<Is(<<ToFile(Ls)>>, "or"), Is(<<Kill>>, "and"), Is(<<Cd>>, "end")>>,
       <<Is(<<Ls, ToFile(Sort)>>, "end")>>>>,
     <<<<Is(<<Cd, FromFile(Sort)>>, "or"), Is(<<FromFile(Grep), Ls>>, "bad"), Is(<<Ls>>, "end")>>,
       <<Is(<<Ls>>, "end")>>>>,
     <<<<Is(<<Cd>>, "and"), Is(<<BadType>>, "or"), Is(<<Ls>>, "end")>>, <<Is(<<Ls>>, "end")>>>>,
     <<<<Is(<<Ls, Exit_>>, "end")>>, <<Is(<<Exit_>>, "end")>>>>,
     <<<<Is(<<ToFile(Cd)>>, "or"), Is(<<ToFile(Kill), Ls>>, "end")>>>>,
     <<<<Is(<<Cd>>, "and"), Is(<<>>, "or"), Is(<<Ls>>, "end")>>, <<Is(<<Ls>>, "end")>>>>,
     <<<<Is(<<Cd, Sort>>, "end")>>>>}
=============================================================================
