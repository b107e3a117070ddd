-------------------------------- MODULE Shell --------------------------------
(***************************************************************************)
(* How the shell of Project1 runs a line: the command sequences separated  *)
(* by ";", the pipelines joined by "&&" and "||" in each of them, and the  *)
(* processes, pipes and waits of a pipeline (input_parser.c), of a         *)
(* redirected command (io_redir.c) and of a program (fsh_nice.c).  A line  *)
(* is given as the parser has split it.  Programs are external: one that   *)
(* reads its input to the end ends when nobody can write to its pipe any   *)
(* more.  fork, pipe, dup2 and execvp succeed.                             *)
(***************************************************************************)
EXTENDS Naturals, Sequences, FiniteSets

CONSTANTS
    Lines,      \* what the user may type: Seq(Seq([commands, op]))
    MaxLines,   \* bound on the lines typed
    MaxProcs    \* bound on the processes that exist at the same time

Results == {"ok", "fail", "error"}
Command == [kind : {"builtin", "program", "exit"}, redirect : {"no", "in", "out"},
            result : Results, filter : BOOLEAN]
Item == [commands : Seq(Command), op : {"and", "or", "end", "bad"}]
Pid == 1 .. MaxProcs
Shell == 1
None == 0

\* main leaves out an empty line and parse_input_line an empty sequence
ASSUME ShellAssumption ==
    /\ MaxLines \in Nat /\ MaxProcs \in Nat \ {0}
    /\ Lines \subseteq Seq(Seq(Item))
    /\ \A l \in Lines : l # <<>> /\ \A i \in DOMAIN l : l[i] # <<>>

VARIABLES
    line,   \* the line being run, or the last one
    at,     \* <<sequence, item>> being run
    typed,  \* lines typed
    proc,   \* [Pid -> the process, or Gone]
    ran     \* history: [items of the line that were run -> their results]

vars == <<line, at, typed, proc, ran>>

(* A process is the shell, a stage of a pipeline, the child of a redirection *)
(* or a program.  A pipe is known by the stage that reads from it: "reads"   *)
(* and "writes" are the pipes behind the process's standard streams.         *)
Gone == [pc |-> "gone", role |-> "none", parent |-> None, commands |-> <<>>, stage |-> 0,
         no_fork |-> FALSE, redirected |-> FALSE, reads |-> None, writes |-> None,
         status |-> "ok"]
Points == {"gone", "prompt", "item", "command", "stage", "set up", "run", "zombie",
           "wait pipeline", "wait stage", "wait redirected", "wait program"}

ProcRec == [pc : Points, role : {"none", "shell", "stage", "redirected", "program"},
            parent : Pid \cup {None}, commands : Seq(Command), stage : Nat,
            no_fork : BOOLEAN, redirected : BOOLEAN, reads : Pid \cup {None},
            writes : Pid \cup {None}, status : {"ok", "fail"}]

TypeOK ==
    /\ line \in Lines \cup {<<>>} /\ typed \in 0 .. MaxLines
    /\ at \in Nat \X Nat /\ at[1] \in 1 .. Len(line) + 1
    /\ at[1] <= Len(line) => at[2] \in 1 .. Len(line[at[1]])
    /\ proc \in [Pid -> ProcRec]
    /\ \A p \in Pid :
          /\ proc[p].stage \in 0 .. Len(proc[p].commands)
          /\ proc[p].pc = "gone" => proc[p] = Gone
    /\ \A i \in DOMAIN ran : ran[i] \in Results

Init ==
    /\ line = <<>> /\ at = <<1, 1>> /\ typed = 0 /\ ran = <<>>
    /\ proc = [p \in Pid |-> IF p = Shell THEN [Gone EXCEPT !.pc = "prompt", !.role = "shell"]
                             ELSE Gone]

-----------------------------------------------------------------------------
(* Processes *)

At(p, point) == proc[p].pc = point
Children(p) == {q \in Pid : proc[q].parent = p}
Writers(pipe) == {q \in Pid : proc[q].writes = pipe}
Free == {p \in Pid : proc[p] = Gone /\ \A q \in Pid : p \notin {proc[q].reads, proc[q].writes}}
NewPid == CHOOSE p \in Free : \A q \in Free : p <= q
Success(status) == status = "ok"
Status(result) == IF result = "ok" THEN "ok" ELSE "fail"

\* fork: the parent goes on at a point, the child has a copy of its streams
Forked(p, point, child) ==
    /\ Free # {}
    /\ proc' = [proc EXCEPT ![p].pc = point, ![NewPid] = [child EXCEPT !.parent = p]]

\* exit: a zombie for its parent; its children have none any more
Exited(ps, p, status) ==
    [q \in Pid |->
        IF q = p
        THEN IF ps[p].parent = None THEN Gone
             ELSE [Gone EXCEPT !.pc = "zombie", !.role = ps[p].role,
                               !.parent = ps[p].parent, !.status = status]
        ELSE IF ps[q].parent = p
        THEN IF ps[q].pc = "zombie" THEN Gone ELSE [ps[q] EXCEPT !.parent = None]
        ELSE ps[q]]

-----------------------------------------------------------------------------
(* The line: parse_input_line and parse_command_sequence *)

\* The operator lets the result of the item before it through
Swapped(op, result) == (op = "or" /\ result = "ok") \/ (op = "and" /\ result = "fail")
Passed(op, result) == (op = "and" /\ result = "ok") \/ (op = "or" /\ result = "fail")

\* Where to go after an item: to the next one, to the next sequence, or out of
\* the line after an error.  The last operator may be followed by nothing.
More == at[2] + 1 <= Len(line[at[1]])
After(result) ==
    LET op == line[at[1]][at[2]].op IN
    IF result = "error" \/ op = "bad" THEN <<Len(line) + 1, 1>>
    ELSE IF Passed(op, result) /\ More THEN <<at[1], at[2] + 1>>
    ELSE <<at[1] + 1, 1>>

ItemDone(ps, result) ==
    LET next == After(result)
        point == IF next[1] > Len(line) THEN "prompt" ELSE "item" IN
    /\ at' = next
    /\ ran' = [x \in DOMAIN ran \cup {at} |-> IF x = at THEN result ELSE ran[x]]
    /\ proc' = [ps EXCEPT ![Shell] = [Gone EXCEPT !.pc = point, !.role = "shell"]]
    /\ UNCHANGED <<line, typed>>

\* main: readline
readline(l) ==
    /\ At(Shell, "prompt") /\ typed < MaxLines
    /\ line' = l /\ at' = <<1, 1>> /\ typed' = typed + 1 /\ ran' = <<>>
    /\ proc' = [proc EXCEPT ![Shell].pc = "item"]

\* parse_pipeline: one command is run by the shell, several by a child, and
\* none is an error
parse_pipeline ==
    LET commands == line[at[1]][at[2]].commands IN
    /\ At(Shell, "item")
    /\ \/ /\ Len(commands) = 0
          /\ ItemDone(proc, "error")
       \/ /\ Len(commands) = 1
          /\ proc' = [proc EXCEPT ![Shell].pc = "command", ![Shell].commands = commands,
                                  ![Shell].stage = 1]
          /\ UNCHANGED <<line, at, typed, ran>>
       \/ /\ Len(commands) > 1
          /\ Forked(Shell, "wait pipeline",
                    [Gone EXCEPT !.pc = "stage", !.role = "stage", !.commands = commands, !.stage = 1])
          /\ UNCHANGED <<line, at, typed, ran>>

-----------------------------------------------------------------------------
(* A pipeline: execute_pipeline_process *)

Last(p) == proc[p].stage = Len(proc[p].commands)

\* The last stage runs its command; any other makes a pipe, forks the next
\* stage, closes the end it does not use and runs its own command in place
execute_stage(p) ==
    /\ At(p, "stage")
    /\ \/ Last(p) /\ proc' = [proc EXCEPT ![p].pc = "command"]
       \/ /\ ~Last(p) /\ Free # {}
          /\ LET q == NewPid
                 next == [proc[p] EXCEPT !.pc = "set up", !.stage = @ + 1, !.parent = p,
                                         !.writes = q] IN
             proc' = [proc EXCEPT ![p].pc = "command", ![p].no_fork = TRUE, ![p].writes = q,
                                  ![q] = next]
    /\ UNCHANGED <<line, at, typed, ran>>

\* The next stage: close(pipe_fd[1]), then the pipe is its standard input
KeepsEnd(p) == proc[p].writes
ClosesEnd(p) == None
set_up(p) ==
    /\ At(p, "set up")
    /\ proc' = [proc EXCEPT ![p].pc = "stage", ![p].reads = p, ![p].writes = ClosesEnd(p)]
    /\ UNCHANGED <<line, at, typed, ran>>

-----------------------------------------------------------------------------
(* A command: execute_command *)

\* What follows the command, by the process that ran it.  A stage but the last
\* waits for the next; every stage but the first exits with an error whatever
\* the result, because it tests the pointer error.
Returned(ps, p, result) ==
    \/ /\ ps[p].role = "shell"
       /\ ItemDone(ps, result)
    \/ /\ ps[p].role = "stage"
       /\ proc' = IF Last(p) THEN Exited(ps, p, "fail") ELSE [ps EXCEPT ![p].pc = "wait stage"]
       /\ UNCHANGED <<line, at, typed, ran>>
    \/ /\ ps[p].role = "redirected"
       /\ proc' = Exited(ps, p, Status(result))
       /\ UNCHANGED <<line, at, typed, ran>>

CommandOf(p) == proc[p].commands[proc[p].stage]
Redirects(p) == CommandOf(p).redirect # "no" /\ ~proc[p].redirected

builtin(p) ==
    /\ At(p, "command") /\ ~Redirects(p) /\ CommandOf(p).kind = "builtin"
    /\ Returned(proc, p, CommandOf(p).result)

\* exit is looked for before anything else
exit(p) ==
    /\ At(p, "command") /\ CommandOf(p).kind = "exit"
    /\ proc' = Exited(proc, p, "ok")
    /\ UNCHANGED <<line, at, typed, ran>>

\* io_redirect: a child runs the command with one stream replaced
io_redirect(p) ==
    /\ At(p, "command") /\ Redirects(p) /\ CommandOf(p).kind # "exit"
    /\ Forked(p, "wait redirected",
              [proc[p] EXCEPT !.role = "redirected", !.redirected = TRUE,
                              !.reads = IF CommandOf(p).redirect = "in" THEN None ELSE @,
                              !.writes = IF CommandOf(p).redirect = "out" THEN None ELSE @])
    /\ UNCHANGED <<line, at, typed, ran>>

\* fsh_nice_helper: with no_fork the process becomes the program
AlwaysForks(p) == TRUE
Forks(p) == ~proc[p].no_fork
fsh_nice(p) ==
    /\ At(p, "command") /\ ~Redirects(p) /\ CommandOf(p).kind = "program"
    /\ \/ /\ ~Forks(p)
          /\ proc' = [proc EXCEPT ![p].pc = "run", ![p].role = "program"]
       \/ /\ Forks(p)
          /\ Forked(p, "wait program", [proc[p] EXCEPT !.pc = "run", !.role = "program"])
    /\ UNCHANGED <<line, at, typed, ran>>

\* A program that reads to the end of its input ends when it gets there
program_ends(p) ==
    /\ At(p, "run")
    /\ CommandOf(p).filter /\ proc[p].reads # None => Writers(proc[p].reads) = {}
    /\ proc' = Exited(proc, p, Status(CommandOf(p).result))
    /\ UNCHANGED <<line, at, typed, ran>>

-----------------------------------------------------------------------------
(* wait: any child that has ended *)

\* io_redirect returns wait(NULL) == 0, and wait returns the child's number
RedirectResult == "fail"

wait(p) ==
    \E q \in Children(p) :
        LET ps == [proc EXCEPT ![q] = Gone]
            status == proc[q].status IN
        /\ At(q, "zombie")
        /\ \/ /\ proc[p].pc \in {"wait program", "wait redirected"}
              /\ Returned(ps, p, IF At(p, "wait program") THEN status ELSE RedirectResult)
           \/ At(p, "wait pipeline") /\ ItemDone(ps, status)
           \/ /\ At(p, "wait stage")
              /\ proc' = Exited(ps, p, IF proc[p].stage = 1 THEN status ELSE "fail")
              /\ UNCHANGED <<line, at, typed, ran>>

-----------------------------------------------------------------------------
\* A stage that stays between its pipe's ends and a reader that waits for the
\* end of the input: the stage's own standard output keeps the pipe open
Hangs(commands) ==
    \E k \in 1 .. Len(commands) - 1 :
        /\ commands[k].kind = "builtin" \/ (commands[k].kind # "exit" /\ commands[k].redirect # "no")
        /\ commands[k + 1].kind = "program" /\ commands[k + 1].filter
        /\ commands[k + 1].redirect # "in"
LineHangs == \E i \in DOMAIN line : \E j \in DOMAIN line[i] : Hangs(line[i][j].commands)

ProcessStep(p) ==
    \/ execute_stage(p) \/ set_up(p) \/ builtin(p) \/ exit(p) \/ io_redirect(p)
    \/ fsh_nice(p) \/ program_ends(p) \/ wait(p)

Finished ==
    /\ typed = MaxLines \/ LineHangs \/ At(Shell, "gone")
    /\ UNCHANGED vars

Next ==
    \/ \E l \in Lines : readline(l)
    \/ parse_pipeline
    \/ \E p \in Pid : ProcessStep(p)
    \/ Finished

\* Every process is scheduled and every program ends
Fairness == WF_vars(parse_pipeline) /\ \A p \in Pid : WF_vars(ProcessStep(p))
Spec == Init /\ [][Next]_vars /\ Fairness

-----------------------------------------------------------------------------
(* Properties *)

Waits == {"wait pipeline", "wait stage", "wait redirected", "wait program"}

\* A process that waits has exactly one child, although wait takes any, so that
\* the status it gets is that of the process it means, and a shell at the prompt
\* has no child left.  The exception is a redirected stage that is not the last:
\* io_redirect's wait and that for the next stage have two children to take.
\* All variables have their types.
TwoChildren(p) == At(p, "wait redirected") /\ proc[p].role = "stage" /\ ~Last(p)
WaitsForOne ==
    /\ TypeOK
    /\ \A p \in Pid :
        /\ proc[p].pc \in Waits /\ ~TwoChildren(p) => Cardinality(Children(p)) = 1
        /\ proc[p].pc \in {"prompt", "item"} => Children(p) = {}

\* How an item of the line may end, from the commands in it.  One command ends
\* as it does itself, and so does a pipeline whose first stage is a program: the
\* stage becomes it, and the next stages' results are lost.  A redirected command
\* counts as failed whatever it did.  A pipeline that starts with a builtin or a
\* redirected command may be taken for either; no command at all is an error.
Outcomes(commands) ==
    LET first == commands[1]
        redirected == first.redirect # "no" IN
    CASE commands = <<>> -> {"error"}
      [] commands # <<>> /\ first.kind = "exit" -> {"ok"}
      [] commands # <<>> /\ first.kind = "program" /\ ~redirected -> {Status(first.result)}
      [] Len(commands) = 1 /\ first.kind = "builtin" /\ ~redirected -> {first.result}
      [] Len(commands) = 1 /\ first.kind # "exit" /\ redirected -> {"fail"}
      [] OTHER -> {"ok", "fail"}

\* readme.txt:58: the right operand of "&&" is run when the left one returned 0,
\* that of "||" when it returned something else, where left is what the commands
\* of the line do and not what the shell has made of it: its status goes through
\* every process between the program and the operator.  The exceptions are those
\* of Outcomes, a redirected command before all.  A sequence after ";" is run
\* whatever the one before it did, unless the shell met an error.
Stops(item) == "error" \in Outcomes(item.commands) \/ item.op = "bad"
Admitted(item) ==
    {r \in Outcomes(item.commands) : (item.op = "and" /\ r = "ok") \/ (item.op = "or" /\ r = "fail")}
RunsAsWritten ==
    At(Shell, "prompt") =>
        \A i \in DOMAIN line :
            /\ <<i, 1>> \in DOMAIN ran
                  <=> \A x \in DOMAIN ran : x[1] < i => ~Stops(line[x[1]][x[2]])
            /\ \A j \in 2 .. Len(line[i]) :
                  LET left == line[i][j - 1] IN
                  /\ <<i, j>> \in DOMAIN ran => <<i, j - 1>> \in DOMAIN ran /\ Admitted(left) # {}
                  /\ <<i, j - 1>> \in DOMAIN ran /\ Admitted(left) = Outcomes(left.commands)
                        => <<i, j>> \in DOMAIN ran

\* The shell comes back to the prompt and every process it started for a line
\* ends, the stages it does not wait for too: no reader keeps the write end of
\* its own pipe.  The exception is a stage that is a builtin or is redirected
\* and waits for a reader that waits for the end of its input.
LinesEnd ==
    /\ At(Shell, "item") ~> (At(Shell, "prompt") \/ At(Shell, "gone") \/ LineHangs)
    /\ \A p \in Pid \ {Shell} : ~At(p, "gone") ~> (At(p, "gone") \/ LineHangs)
=============================================================================
