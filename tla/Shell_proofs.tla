---------------------------- MODULE Shell_proofs ----------------------------
(***************************************************************************)
(* Proofs about the shell for any set of lines and any number of           *)
(* processes: a process that waits has the one child it means, and what    *)
(* has run of a line is what its operators admit.                          *)
(***************************************************************************)
EXTENDS Shell, FiniteSetTheorems, WellFoundedInduction, TLAPS

-----------------------------------------------------------------------------
(* The inductive invariant.  Processes are described for any function of   *)
(* processes, because wait reaps a child before the rest of its step.      *)

(* Which children a process has, from where it is: only a redirected stage *)
(* before the last has two, and a stage that has become its program keeps  *)
(* the next stage as its child.                                            *)
Between(x) == x.role = "stage" /\ x.stage # Len(x.commands)
HasTwo(x) == x.pc = "wait redirected" /\ Between(x)
HasNone(x) ==
    \/ x.pc \in {"gone", "zombie", "prompt", "item", "set up", "stage"}
    \/ x.pc = "command" /\ ~Between(x)
    \/ x.pc = "run" /\ (x.no_fork => x.redirected)
HasOne(x) == ~HasNone(x) /\ ~HasTwo(x)

NoChild(ps, p) == \A s \in Pid : ps[s].parent # p
OneChild(ps, p) == \E q \in Pid : \A s \in Pid : ps[s].parent = p <=> s = q
TwoInAll(ps, p) ==
    \E q, r \in Pid : q # r /\ \A s \in Pid : ps[s].parent = p <=> s = q \/ s = r
Kids(ps, p) ==
    /\ HasNone(ps[p]) => NoChild(ps, p)
    /\ HasOne(ps[p]) => OneChild(ps, p)
    /\ HasTwo(ps[p]) => TwoInAll(ps, p)

(* What the fields of a process say of each other. *)
RecOK(p, x) ==
    /\ x \in ProcRec /\ x.stage <= Len(x.commands) /\ x.parent # p
    /\ x.pc = "gone" => x = Gone
    /\ x.pc \in {"command", "stage", "set up", "run", "wait stage", "wait redirected",
                 "wait program"} => x.stage > 0
    /\ x.role = "shell" => p = Shell /\ x.parent = None /\ ~x.no_fork
    /\ x.role = "stage" /\ x.pc \in {"command", "wait stage", "wait redirected"} =>
          (x.no_fork <=> Between(x))
    /\ x.role \in {"shell", "stage"} => ~x.redirected
    /\ x.role = "redirected" => x.pc # "wait redirected" /\ (x.pc # "zombie" => x.redirected)
    /\ x.pc \in {"prompt", "item", "wait pipeline"} => x.role = "shell"
    /\ x.pc \in {"stage", "set up"} => x.role = "stage" /\ ~x.no_fork
    /\ x.pc = "wait stage" => Between(x)
    /\ x.pc = "wait program" => ~x.no_fork /\ ~Between(x)
    /\ x.pc \in {"command", "wait redirected", "wait program"} =>
          x.role \in {"shell", "stage", "redirected"}
    /\ x.pc = "run" => x.role = "program"

Records(ps) == ps \in [Pid -> ProcRec] /\ \A p \in Pid : RecOK(p, ps[p])
Sound(ps) == Records(ps) /\ \A p \in Pid : Kids(ps, p)

(* The shell is at its prompt when nothing is left of the line. *)
ShellAt == proc[Shell].role = "shell" => (At(Shell, "prompt") <=> at[1] > Len(line))

(* What has run lies before the place the shell is at; up to there the     *)
(* items that ran are those to be run by the results the shell got, and    *)
(* the item it is at is to be run.                                         *)
Before(x, y) == x[1] < y[1] \/ (x[1] = y[1] /\ x[2] < y[2])
InLine(x) == x \in Nat \X Nat /\ x[1] \in DOMAIN line /\ x[2] \in DOMAIN line[x[1]]
ToBeRun(i, j) ==
    IF j > 1
    THEN /\ <<i, j - 1>> \in DOMAIN ran
         /\ \/ line[i][j - 1].op = "and" /\ ran[<<i, j - 1>>] = "ok"
            \/ line[i][j - 1].op = "or" /\ ran[<<i, j - 1>>] = "fail"
    ELSE \A x \in DOMAIN ran : x[1] < i => ran[x] # "error" /\ line[x[1]][x[2]].op # "bad"
Failed(x) == ran[x] = "error" \/ line[x[1]][x[2]].op = "bad"
Progress ==
    /\ \A x \in DOMAIN ran : InLine(x) /\ Before(x, at)
    /\ \A i \in DOMAIN line : \A j \in DOMAIN line[i] :
          Before(<<i, j>>, at) => (<<i, j>> \in DOMAIN ran <=> ToBeRun(i, j))
    /\ at[1] <= Len(line) => ToBeRun(at[1], at[2]) /\ \A x \in DOMAIN ran : ~Failed(x)

IInv == TypeOK /\ Sound(proc) /\ ShellAt /\ Progress

(* The results the shell got are how the commands ended: the child whose   *)
(* status it waits for runs the item's first command or has its outcome.   *)
Here == line[at[1]][at[2]].commands
Open(c) == Outcomes(c) = {"ok", "fail"}
Reports(x, c) ==
    \/ x.pc = "zombie" /\ x.status \in Outcomes(c)
    \/ /\ x.pc = "run" /\ x.commands = c /\ x.stage = 1
       /\ c # <<>> /\ c[1].kind = "program" /\ c[1].redirect = "no"
    \/ /\ x.role = "stage" /\ x.commands = c /\ x.stage = 1 /\ Len(c) > 1
       /\ x.pc \in {"stage", "command"} \/ (x.pc \in {"wait stage", "wait redirected"} /\ Open(c))
Runs(x) ==
    /\ x.pc \in {"command", "wait redirected", "wait program"} =>
          x.commands = Here /\ x.stage = 1 /\ Len(Here) = 1
    /\ x.pc = "wait redirected" => "fail" \in Outcomes(Here)
    /\ x.pc \in {"wait program", "wait pipeline"} =>
          \A q \in Pid : proc[q].parent = Shell => Reports(proc[q], Here)
Carried ==
    /\ \A x \in DOMAIN ran : ran[x] \in Outcomes(line[x[1]][x[2]].commands)
    /\ proc[Shell].role = "shell" => Runs(proc[Shell])

-----------------------------------------------------------------------------
(* Process numbers, and the record of a process that does not exist. *)
LEMMA Marks ==
    /\ Shell \in Pid /\ None \notin Pid /\ \A p \in Pid : p \in Nat /\ p # None
    /\ Gone \in ProcRec /\ Gone.pc = "gone" /\ Gone.parent = None
    /\ \A p \in Pid : RecOK(p, Gone)
<1>1. Shell \in Pid /\ None \notin Pid /\ \A p \in Pid : p \in Nat /\ p # None
  BY ShellAssumption DEF Pid, Shell, None
<1>2. <<>> \in Seq(Command) /\ Len(<<>>) = 0
  OBVIOUS
<1>3. Gone \in ProcRec /\ Gone.pc = "gone" /\ Gone.parent = None
  BY <1>2 DEF Gone, ProcRec, Points
<1>4. \A p \in Pid : RecOK(p, Gone)
  BY <1>1, <1>2, <1>3 DEF RecOK, Gone
<1> QED BY <1>1, <1>3, <1>4

(* A set of numbers that is not empty has a least element. *)
LEMMA LeastExists ==
    ASSUME NEW S \in SUBSET Nat, S # {}
    PROVE  \E x \in S : \A y \in S : x <= y
<1>1. PICK R : R = OpToRel(<, Nat) /\ IsWellFoundedOn(R, Nat)
  BY NatLessThanWellFounded
<1>2. \A x, y \in Nat : <<x, y>> \in R <=> x < y
  BY <1>1 DEF OpToRel
<1>3. PICK x \in S : \A y \in S : <<y, x>> \notin R
  BY <1>1, WFMin
<1>4. \A y \in S : y \in Nat /\ ~(y < x)
  BY <1>2, <1>3
<1>5. x \in Nat
  OBVIOUS
<1>6. \A y \in S : x <= y
  BY <1>4, <1>5
<1> QED BY <1>6

(* fork finds a process that does not exist, when there is one. *)
LEMMA NewPidFree ==
    ASSUME Free # {}
    PROVE  NewPid \in Pid /\ proc[NewPid] = Gone
<1>1. Free \in SUBSET Nat
  BY Marks DEF Free
<1>2. \E p \in Free : \A q \in Free : p <= q
  BY <1>1, LeastExists
<1>3. NewPid \in Free
  BY <1>2 DEF NewPid
<1> QED BY <1>3 DEF Free

-----------------------------------------------------------------------------
(* What happens to processes, for any function of processes. *)

(* The children of a process that a step does not touch. *)
LEMMA KidsSame ==
    ASSUME NEW ps, NEW e, NEW p \in Pid, Kids(ps, p), e[p] = ps[p],
           \A s \in Pid : e[s].parent = p <=> ps[s].parent = p
    PROVE  Kids(e, p)
<1>1. NoChild(ps, p) => NoChild(e, p)
  BY DEF NoChild
<1>2. OneChild(ps, p) => OneChild(e, p)
  BY DEF OneChild
<1>3. TwoInAll(ps, p) => TwoInAll(e, p)
  BY Zenon DEF TwoInAll
<1> QED BY <1>1, <1>2, <1>3 DEF Kids

(* A step of p alone. *)
LEMMA MoveSound ==
    ASSUME NEW ps, Records(ps), NEW p \in Pid, \A r \in Pid \ {p} : Kids(ps, r),
           NEW x, RecOK(p, x), x.parent = ps[p].parent,
           HasNone(x) => NoChild(ps, p),
           HasOne(x) => OneChild(ps, p),
           HasTwo(x) => TwoInAll(ps, p)
    PROVE  Sound([ps EXCEPT ![p] = x])
<1>1. PICK e : e = [ps EXCEPT ![p] = x]
  OBVIOUS
<1>2. e \in [Pid -> ProcRec] /\ e[p] = x /\ \A r \in Pid \ {p} : e[r] = ps[r]
  BY <1>1 DEF Records, RecOK
<1>3. \A s \in Pid : e[s].parent = ps[s].parent
  BY <1>2
<1>4. Records(e)
  BY <1>2 DEF Records
<1>5. ASSUME NEW r \in Pid PROVE Kids(e, r)
  <2>1. CASE r # p
    BY <2>1, <1>2, <1>3, KidsSame
  <2>2. CASE r = p
    <3>1. NoChild(ps, p) => NoChild(e, p)
      BY <1>3 DEF NoChild
    <3>2. OneChild(ps, p) => OneChild(e, p)
      BY <1>3 DEF OneChild
    <3>3. \A s \in Pid : e[s].parent = p <=> ps[s].parent = p
      BY <1>3
    <3>4. TwoInAll(ps, p) => TwoInAll(e, p)
      BY <3>3, ZenonT(30) DEF TwoInAll
    <3> QED BY <2>2, <1>2, <3>1, <3>2, <3>4 DEF Kids
  <2> QED BY <2>1, <2>2
<1> QED BY <1>1, <1>4, <1>5 DEF Sound

(* p forks q: a child more for p, and none for q. *)
LEMMA ForkSound ==
    ASSUME NEW ps, Sound(ps), NEW p \in Pid, NEW q \in Pid, ps[q] = Gone, ps[p] # Gone,
           NEW x, RecOK(p, x), x.parent = ps[p].parent,
           NEW y, RecOK(q, y), y.parent = p, HasNone(y),
           \/ HasNone(ps[p]) /\ HasOne(x)
           \/ HasOne(ps[p]) /\ HasTwo(x)
    PROVE  Sound([ps EXCEPT ![p] = x, ![q] = y])
<1>1. PICK e : e = [ps EXCEPT ![p] = x, ![q] = y]
  OBVIOUS
<1>2. p # q /\ ps \in [Pid -> ProcRec]
  BY DEF Sound, Records
<1>3. e \in [Pid -> ProcRec] /\ e[p] = x /\ e[q] = y /\ \A r \in Pid \ {p, q} : e[r] = ps[r]
  BY <1>1, <1>2 DEF RecOK
<1>4. Records(e)
  BY <1>3 DEF Records, Sound
<1>5. NoChild(ps, q)
  BY Marks DEF Sound, Kids, HasNone
<1>6. ps[q].parent = None
  BY Marks
<1>7. \A s \in Pid \ {q} : e[s].parent = ps[s].parent
  BY <1>3
<1>8. ASSUME NEW r \in Pid PROVE Kids(e, r)
  <2>1. CASE r = q
    <3>1. NoChild(e, q)
      BY <1>2, <1>3, <1>5, <1>7 DEF NoChild
    <3> QED BY <2>1, <1>3, <3>1 DEF Kids, HasOne, HasTwo, HasNone
  <2>2. CASE r # q /\ r # p
    <3>1. \A s \in Pid : e[s].parent = r <=> ps[s].parent = r
      BY <2>2, <1>3, <1>6, <1>7, Marks
    <3> QED BY <2>2, <3>1, <1>3, KidsSame DEF Sound
  <2>3. CASE r = p
    <3>1. CASE HasNone(ps[p]) /\ HasOne(x)
      <4>1. NoChild(ps, p)
        BY <3>1 DEF Sound, Kids
      <4>2. \A s \in Pid : e[s].parent = p <=> s = q
        BY <4>1, <1>3, <1>7 DEF NoChild
      <4>3. OneChild(e, p)
        BY <4>2 DEF OneChild
      <4> QED BY <2>3, <3>1, <4>3, <1>3 DEF Kids, HasOne
    <3>2. CASE HasOne(ps[p]) /\ HasTwo(x)
      <4>1. PICK u \in Pid : \A s \in Pid : ps[s].parent = p <=> s = u
        BY <3>2 DEF Sound, Kids, OneChild
      <4>2. u # q
        BY <4>1, <1>6, Marks
      <4>3. \A s \in Pid : e[s].parent = p <=> s = q \/ s = u
        BY <4>1, <4>2, <1>3, <1>7
      <4>4. TwoInAll(e, p)
        BY <4>2, <4>3 DEF TwoInAll
      <4> QED BY <2>3, <3>2, <4>4, <1>3 DEF Kids, HasOne, HasTwo, HasNone
    <3> QED BY <3>1, <3>2
  <2> QED BY <2>1, <2>2, <2>3
<1> QED BY <1>1, <1>4, <1>8 DEF Sound

(* e is ps after p has reaped a child: it has one less. *)
Reaped(ps, p, e) ==
    /\ Records(e) /\ e[p] = ps[p] /\ \A r \in Pid \ {p} : Kids(e, r)
    /\ HasOne(ps[p]) => NoChild(e, p)
    /\ HasTwo(ps[p]) => OneChild(e, p)

(* A zombie q is reaped by its parent p: one child less for p. *)
LEMMA ReapSound ==
    ASSUME NEW ps, Sound(ps), NEW p \in Pid, NEW q \in Pid, ps[q].parent = p,
           ps[q].pc = "zombie", NEW e, e = [ps EXCEPT ![q] = Gone]
    PROVE  Reaped(ps, p, e)
<1>0. PICK f : f = [ps EXCEPT ![q] = Gone]
  OBVIOUS
<1>1. p # q /\ ps \in [Pid -> ProcRec]
  BY DEF Sound, Records, RecOK
<1>2. f \in [Pid -> ProcRec] /\ f[q] = Gone /\ \A r \in Pid \ {q} : f[r] = ps[r]
  BY <1>0, <1>1, Marks
<1>3. Records(f)
  BY <1>2, Marks DEF Records, Sound
<1>4. f[q].parent = None /\ \A s \in Pid \ {q} : f[s].parent = ps[s].parent
  BY <1>2, Marks
<1>5. ASSUME NEW r \in Pid \ {p} PROVE Kids(f, r)
  <2>1. \A s \in Pid : f[s].parent = r <=> ps[s].parent = r
    BY <1>4, Marks
  <2>2. CASE r # q
    <3>1. r \in Pid /\ Kids(ps, r) /\ f[r] = ps[r]
      BY <2>2, <1>2 DEF Sound
    <3> QED BY <3>1, <2>1, KidsSame
  <2>3. CASE r = q
    <3>1. NoChild(ps, q)
      BY DEF Sound, Kids, HasNone
    <3>2. NoChild(f, q)
      BY <3>1, <2>1, <2>3 DEF NoChild
    <3> QED BY <2>3, <3>2, <1>2, Marks DEF Kids, HasOne, HasTwo, HasNone
  <2> QED BY <2>2, <2>3
<1>6. ASSUME HasOne(ps[p]) PROVE NoChild(f, p)
  <2>1. PICK u \in Pid : \A s \in Pid : ps[s].parent = p <=> s = u
    BY <1>6 DEF Sound, Kids, OneChild
  <2>2. u = q
    BY <2>1
  <2> QED BY <2>1, <2>2, <1>4, Marks DEF NoChild
<1>7. ASSUME HasTwo(ps[p]) PROVE OneChild(f, p)
  <2>1. PICK u, v \in Pid : u # v /\ \A s \in Pid : ps[s].parent = p <=> s = u \/ s = v
    BY <1>7 DEF Sound, Kids, TwoInAll
  <2>2. q = u \/ q = v
    BY <2>1
  <2>3. CASE q = u
    <3>1. \A s \in Pid : f[s].parent = p <=> s = v
      BY <2>1, <2>3, <1>4, Marks
    <3> QED BY <3>1 DEF OneChild
  <2>4. CASE q = v
    <3>1. \A s \in Pid : f[s].parent = p <=> s = u
      BY <2>1, <2>4, <1>4, Marks
    <3> QED BY <3>1 DEF OneChild
  <2> QED BY <2>2, <2>3, <2>4
<1> QED BY <1>0, <1>1, <1>2, <1>3, <1>5, <1>6, <1>7 DEF Reaped

(* p exits: its children have no parent any more, and it is a zombie for   *)
(* its own.                                                                *)
LEMMA ExitSound ==
    ASSUME NEW ps, Records(ps), NEW p \in Pid, \A r \in Pid \ {p} : Kids(ps, r),
           NEW status \in {"ok", "fail"}
    PROVE  Sound(Exited(ps, p, status))
<1>1. PICK e : e = Exited(ps, p, status)
  OBVIOUS
<1>2. ps \in [Pid -> ProcRec] /\ \A r \in Pid : ps[r] \in ProcRec /\ RecOK(r, ps[r])
  BY DEF Records
<1>3. PICK z : z = [Gone EXCEPT !.pc = "zombie", !.role = ps[p].role,
                                !.parent = ps[p].parent, !.status = status]
  OBVIOUS
<1>4. /\ z \in ProcRec /\ z.pc = "zombie" /\ z.role = ps[p].role /\ z.parent = ps[p].parent
      /\ ~z.no_fork /\ ~z.redirected /\ z.stage = 0 /\ z.commands = <<>>
  <2>1. ps[p] \in ProcRec /\ "zombie" \in Points /\ <<>> \in Seq(Command)
    BY <1>2 DEF Points
  <2> QED BY <2>1, <1>3 DEF ProcRec, Gone
<1>5. ps[p].parent # None => RecOK(p, z)
  <2>1. ps[p].parent # p /\ (ps[p].role = "shell" => ps[p].parent = None)
    BY <1>2 DEF RecOK
  <2>2. z.stage <= Len(z.commands)
    BY <1>4
  <2> QED BY <2>1, <2>2, <1>4 DEF RecOK
<1>6. e = [q \in Pid |->
              IF q = p THEN IF ps[p].parent = None THEN Gone ELSE z
              ELSE IF ps[q].parent = p
              THEN IF ps[q].pc = "zombie" THEN Gone ELSE [ps[q] EXCEPT !.parent = None]
              ELSE ps[q]]
  BY <1>1, <1>3 DEF Exited
<1>7. ASSUME NEW r \in Pid, r # p, ps[r].parent = p
      PROVE  /\ [ps[r] EXCEPT !.parent = None].parent = None
             /\ RecOK(r, [ps[r] EXCEPT !.parent = None])
             /\ HasNone([ps[r] EXCEPT !.parent = None]) <=> HasNone(ps[r])
             /\ HasOne([ps[r] EXCEPT !.parent = None]) <=> HasOne(ps[r])
             /\ HasTwo([ps[r] EXCEPT !.parent = None]) <=> HasTwo(ps[r])
  <2>1. PICK x : x = [ps[r] EXCEPT !.parent = None]
    OBVIOUS
  <2>2. /\ x \in ProcRec /\ x.parent = None /\ x.pc = ps[r].pc /\ x.role = ps[r].role
        /\ x.commands = ps[r].commands /\ x.stage = ps[r].stage
        /\ x.no_fork <=> ps[r].no_fork
        /\ x.redirected <=> ps[r].redirected
    BY <1>2, <2>1 DEF ProcRec
  <2>3. ps[r].pc # "gone"
    BY <1>2, <1>7, Marks DEF RecOK
  <2>4. Between(x) <=> Between(ps[r])
    BY <2>2 DEF Between
  <2>5. RecOK(r, ps[r]) /\ r # None /\ x.stage <= Len(x.commands)
    BY <1>2, <2>2, Marks DEF RecOK
  <2>6. RecOK(r, x)
    BY <2>2, <2>3, <2>4, <2>5 DEF RecOK
  <2> QED BY <2>1, <2>2, <2>4, <2>6 DEF HasNone, HasOne, HasTwo
<1>8. ASSUME NEW r \in Pid PROVE RecOK(r, e[r]) /\ e[r] \in ProcRec
  <2>1. CASE r = p
    BY <2>1, <1>4, <1>5, <1>6, Marks
  <2>2. CASE r # p /\ ps[r].parent = p
    BY <2>2, <1>6, <1>7, Marks DEF RecOK
  <2>3. CASE r # p /\ ps[r].parent # p
    BY <2>3, <1>2, <1>6
  <2> QED BY <2>1, <2>2, <2>3
<1>9. Records(e)
  BY <1>6, <1>8 DEF Records
<1>10. ps[p].parent # p /\ e[p].parent = ps[p].parent
  BY <1>2, <1>4, <1>6, Marks DEF RecOK
<1>11. \A s \in Pid : ps[s].parent = p => e[s].parent = None
  BY <1>10, <1>6, <1>7, Marks
<1>12. \A s \in Pid : e[s].parent # p /\ (ps[s].parent # p => e[s].parent = ps[s].parent)
  BY <1>10, <1>11, <1>6, Marks
<1>13. ASSUME NEW r \in Pid PROVE Kids(e, r)
  <2>1. CASE r = p
    <3>1. NoChild(e, p)
      BY <1>12 DEF NoChild
    <3>2. HasNone(e[p])
      BY <1>4, <1>6, Marks DEF HasNone
    <3> QED BY <2>1, <3>1, <3>2 DEF Kids, HasOne, HasTwo, HasNone
  <2>2. CASE r # p
    <3>1. \A s \in Pid : e[s].parent = r <=> ps[s].parent = r
      BY <2>2, <1>11, <1>12, Marks
    <3>2. CASE ps[r].parent # p
      <4>1. Kids(ps, r) /\ e[r] = ps[r]
        BY <2>2, <3>2, <1>6
      <4> QED BY <4>1, <3>1, KidsSame
    <3>3. CASE ps[r].parent = p
      <4>1. /\ NoChild(ps, r) => NoChild(e, r)
            /\ OneChild(ps, r) => OneChild(e, r)
        BY <3>1 DEF NoChild, OneChild
      <4>2. TwoInAll(ps, r) => TwoInAll(e, r)
        BY <3>1, ZenonT(30) DEF TwoInAll
      <4>3. CASE ps[r].pc = "zombie"
        <5>1. e[r] = Gone /\ HasNone(ps[r])
          BY <4>3, <3>3, <2>2, <1>6 DEF HasNone
        <5> QED BY <5>1, <4>1, <2>2, Marks DEF Kids, HasOne, HasTwo, HasNone
      <4>4. CASE ps[r].pc # "zombie"
        <5>1. e[r] = [ps[r] EXCEPT !.parent = None]
          BY <4>4, <3>3, <2>2, <1>6
        <5> QED BY <5>1, <4>1, <4>2, <2>2, <3>3, <1>7 DEF Kids
      <4> QED BY <4>3, <4>4
    <3> QED BY <3>2, <3>3
  <2> QED BY <2>1, <2>2
<1> QED BY <1>1, <1>9, <1>13 DEF Sound

-----------------------------------------------------------------------------
(* The line. *)

(* A line as it is split: sequences, items, operators. *)
LEMMA LineType ==
    ASSUME TypeOK
    PROVE  /\ line \in Seq(Seq(Item))
           /\ \A i \in DOMAIN line : line[i] \in Seq(Item) /\ Len(line[i]) > 0
           /\ \A i \in DOMAIN line : \A j \in DOMAIN line[i] :
                 /\ line[i][j].op \in {"and", "or", "end", "bad"}
                 /\ line[i][j].commands \in Seq(Command)
<1>0. <<>> \in Seq(Seq(Item))
  OBVIOUS
<1>1. line \in Seq(Seq(Item))
  BY <1>0, ShellAssumption, Zenon DEF TypeOK
<1>2. \A i \in DOMAIN line : line[i] \in Seq(Item) /\ line[i] # <<>>
  BY <1>1, ShellAssumption DEF TypeOK
<1>3. \A i \in DOMAIN line : Len(line[i]) > 0
  BY <1>2
<1>4. \A i \in DOMAIN line : \A j \in DOMAIN line[i] : line[i][j] \in Item
  BY <1>2
<1> QED BY <1>1, <1>2, <1>3, <1>4 DEF Item

(* The place the shell is at, while it runs a line. *)
LEMMA PlaceType ==
    ASSUME TypeOK, at[1] <= Len(line)
    PROVE  /\ at = <<at[1], at[2]>> /\ at \in Nat \X Nat
           /\ at[1] \in DOMAIN line /\ at[2] \in DOMAIN line[at[1]]
           /\ line[at[1]] \in Seq(Item) /\ Len(line) \in Nat /\ Len(line[at[1]]) \in Nat
           /\ InLine(at)
<1>1. at \in Nat \X Nat /\ at[1] \in 1 .. Len(line) + 1 /\ at[2] \in 1 .. Len(line[at[1]])
  BY DEF TypeOK
<1>2. line \in Seq(Seq(Item))
  BY LineType
<1>3. at[1] \in DOMAIN line
  BY <1>1, <1>2
<1>4. line[at[1]] \in Seq(Item)
  BY <1>3, LineType
<1> QED BY <1>1, <1>2, <1>3, <1>4 DEF InLine

(* What was to be run up to the place the shell is at does not depend on   *)
(* the result of the item there.                                           *)
LEMMA SameBefore ==
    ASSUME TypeOK, Progress, at[1] <= Len(line), NEW result \in Results, line' = line,
           ran' = [x \in DOMAIN ran \cup {at} |-> IF x = at THEN result ELSE ran[x]],
           NEW i \in DOMAIN line, NEW j \in DOMAIN line[i], ~Before(at, <<i, j>>)
    PROVE  ToBeRun(i, j)' <=> ToBeRun(i, j)
<1>1. at[1] \in Nat /\ at[2] \in Nat /\ i \in Nat /\ j \in Nat /\ at = <<at[1], at[2]>>
  BY PlaceType, LineType
<1>2. at[1] > i \/ (at[1] = i /\ at[2] >= j)
  BY <1>1 DEF Before
<1>3. DOMAIN ran' = DOMAIN ran \cup {at} /\ \A x \in DOMAIN ran : x # at => ran'[x] = ran[x]
  OBVIOUS
<1>4. \A x \in DOMAIN ran : x # at
  BY <1>1 DEF Progress, Before
<1>5. CASE j > 1
  <2>1. <<i, j - 1>> # at
    BY <1>1, <1>2
  <2>2. /\ <<i, j - 1>> \in DOMAIN ran' <=> <<i, j - 1>> \in DOMAIN ran
        /\ <<i, j - 1>> \in DOMAIN ran => ran'[<<i, j - 1>>] = ran[<<i, j - 1>>]
    BY <1>3, <2>1
  <2>3. ToBeRun(i, j) <=> /\ <<i, j - 1>> \in DOMAIN ran
                          /\ \/ line[i][j - 1].op = "and" /\ ran[<<i, j - 1>>] = "ok"
                             \/ line[i][j - 1].op = "or" /\ ran[<<i, j - 1>>] = "fail"
    BY <1>5 DEF ToBeRun
  <2>4. ToBeRun(i, j)' <=> /\ <<i, j - 1>> \in DOMAIN ran'
                           /\ \/ line[i][j - 1].op = "and" /\ ran'[<<i, j - 1>>] = "ok"
                              \/ line[i][j - 1].op = "or" /\ ran'[<<i, j - 1>>] = "fail"
    BY <1>5 DEF ToBeRun
  <2> QED BY <2>2, <2>3, <2>4
<1>6. CASE ~(j > 1)
  <2>1. ~(at[1] < i)
    BY <1>1, <1>2
  <2>2. ToBeRun(i, j) <=>
            \A x \in DOMAIN ran : x[1] < i => ran[x] # "error" /\ line[x[1]][x[2]].op # "bad"
    BY <1>6 DEF ToBeRun
  <2>3. ToBeRun(i, j)' <=>
            \A x \in DOMAIN ran' : x[1] < i => ran'[x] # "error" /\ line[x[1]][x[2]].op # "bad"
    BY <1>6 DEF ToBeRun
  <2> QED BY <2>1, <2>2, <2>3, <1>3, <1>4
<1> QED BY <1>5, <1>6

(* An item is done: the shell goes on where the operators say. *)
LEMMA ItemProgress ==
    ASSUME TypeOK, Progress, at[1] <= Len(line), NEW result \in Results, line' = line,
           at' = After(result),
           ran' = [x \in DOMAIN ran \cup {at} |-> IF x = at THEN result ELSE ran[x]]
    PROVE  /\ at' \in Nat \X Nat /\ at'[1] \in 1 .. Len(line) + 1
           /\ at'[1] <= Len(line) => at'[2] \in 1 .. Len(line[at'[1]])
           /\ \A x \in DOMAIN ran' : ran'[x] \in Results
           /\ Progress'
<1>1. PICK a \in DOMAIN line : a = at[1]
  BY PlaceType
<1>2. PICK b \in DOMAIN line[a] : b = at[2]
  BY <1>1, PlaceType
<1>3. /\ at = <<a, b>> /\ a \in Nat /\ b \in Nat /\ InLine(at)
      /\ Len(line) \in Nat /\ Len(line[a]) \in Nat /\ a \in 1 .. Len(line) /\ b \in 1 .. Len(line[a])
  BY <1>1, <1>2, PlaceType
<1>4. PICK op \in {"and", "or", "end", "bad"} : op = line[a][b].op
  BY LineType
<1>5. DOMAIN ran' = DOMAIN ran \cup {at} /\ ran'[at] = result
      /\ \A x \in DOMAIN ran : x # at => ran'[x] = ran[x]
  OBVIOUS
<1>6. \A x \in DOMAIN ran : x # at /\ ran'[x] = ran[x] /\ InLine(x) /\ Before(x, at)
                            /\ ~Failed(x) /\ x \in Nat \X Nat
  BY <1>1, <1>3, <1>5 DEF Progress, Before, InLine
<1>7. \A x \in DOMAIN ran' : ran'[x] \in Results
  BY <1>5 DEF TypeOK
<1>8. ToBeRun(a, b)
  BY <1>1, <1>2 DEF Progress
<1>9. ASSUME NEW i \in DOMAIN line, NEW j \in DOMAIN line[i]
      PROVE  /\ i \in Nat /\ j \in Nat /\ j >= 1 /\ j <= Len(line[i])
             /\ Before(<<i, j>>, at) <=> (i < a \/ (i = a /\ j < b))
             /\ Before(at, <<i, j>>) <=> (a < i \/ (a = i /\ b < j))
             /\ <<i, j>> = at <=> (i = a /\ j = b)
  BY <1>3, LineType DEF Before
<1>10. ASSUME NEW i \in DOMAIN line, NEW j \in DOMAIN line[i], ~Before(at, <<i, j>>)
       PROVE  /\ <<i, j>> \in DOMAIN ran' <=> ToBeRun(i, j)'
              /\ <<i, j>> \in DOMAIN ran'
                 <=> (<<i, j>> \in DOMAIN ran \/ <<i, j>> = at)
  <2>1. ToBeRun(i, j)' <=> ToBeRun(i, j)
    BY <1>10, SameBefore
  <2>2. CASE <<i, j>> = at
    BY <2>1, <2>2, <1>3, <1>5, <1>8, <1>9
  <2>3. CASE <<i, j>> # at
    <3>1. i \in Nat /\ j \in Nat /\ ~(a < i \/ (a = i /\ b < j)) /\ ~(i = a /\ j = b)
      BY <2>3, <1>9, <1>10
    <3>2. i < a \/ (i = a /\ j < b)
      BY <3>1, <1>3
    <3>3. Before(<<i, j>>, at)
      BY <3>2, <1>9
    <3> QED BY <2>1, <2>3, <3>3, <1>5 DEF Progress
  <2> QED BY <2>2, <2>3
<1>11. ASSUME NEW i \in DOMAIN line, NEW j \in DOMAIN line[i], Before(at, <<i, j>>)
       PROVE  <<i, j>> \notin DOMAIN ran'
  <2>1. i \in Nat /\ j \in Nat /\ (a < i \/ (a = i /\ b < j))
    BY <1>9, <1>11
  <2>2. ~(i < a \/ (i = a /\ j < b)) /\ ~(i = a /\ j = b)
    BY <2>1, <1>3
  <2>3. ~Before(<<i, j>>, at) /\ <<i, j>> # at
    BY <2>2, <1>9
  <2> QED BY <2>3, <1>5, <1>6
<1>12. ASSUME NEW j \in DOMAIN line[a], b < j,
              ~(/\ j = b + 1
                /\ ((op = "and" /\ result = "ok") \/ (op = "or" /\ result = "fail")))
       PROVE  ~ToBeRun(a, j)'
  <2>1. j > 1 /\ j - 1 \in DOMAIN line[a] /\ j - 1 >= b
    BY <1>3, <1>9, <1>12
  <2>2. ToBeRun(a, j)' <=> /\ <<a, j - 1>> \in DOMAIN ran'
                           /\ \/ line[a][j - 1].op = "and" /\ ran'[<<a, j - 1>>] = "ok"
                              \/ line[a][j - 1].op = "or" /\ ran'[<<a, j - 1>>] = "fail"
    BY <2>1 DEF ToBeRun
  <2>3. CASE j - 1 > b
    <3>1. <<a, j - 1>> \notin DOMAIN ran'
      BY <2>1, <2>3, <1>9, <1>11
    <3> QED BY <3>1, <2>2
  <2>4. CASE j - 1 = b
    <3>1. j = b + 1
      BY <2>4, <1>3, <1>9
    <3> QED BY <3>1, <2>4, <2>2, <1>3, <1>4, <1>5, <1>12
  <2> QED BY <2>1, <2>3, <2>4, <1>3, <1>9
<1>13. CASE result = "error" \/ op = "bad"
  <2>1. at' = <<Len(line) + 1, 1>>
    BY <1>1, <1>2, <1>4, <1>13 DEF After
  <2>2. at' \in Nat \X Nat /\ at'[1] = Len(line) + 1 /\ at'[2] = 1
    BY <2>1, <1>3
  <2>3. \A x \in DOMAIN ran' : InLine(x)' /\ Before(x, at)'
    <3>1. \A x \in DOMAIN ran' : InLine(x)
      BY <1>3, <1>5, <1>6
    <3>2. \A x \in DOMAIN ran' : x[1] \in Nat /\ x[1] <= Len(line)
      BY <3>1, LineType DEF InLine
    <3> QED BY <3>1, <3>2, <2>2, <1>3 DEF InLine, Before
  <2>4. ASSUME NEW i \in DOMAIN line, NEW j \in DOMAIN line[i]
        PROVE  <<i, j>> \in DOMAIN ran' <=> ToBeRun(i, j)'
    <3>1. CASE ~Before(at, <<i, j>>)
      BY <3>1, <1>10
    <3>2. CASE Before(at, <<i, j>>)
      <4>1. CASE i = a
        <5>1. b < j
          BY <4>1, <3>2, <1>3, <1>9
        <5> QED BY <5>1, <4>1, <3>2, <1>11, <1>12, <1>13
      <4>2. CASE i # a /\ j = 1
        <5>1. a < i
          BY <4>2, <3>2, <1>3, <1>9
        <5>2. at \in DOMAIN ran' /\ at[1] < i /\ (ran'[at] = "error" \/ line[at[1]][at[2]].op = "bad")
          BY <5>1, <1>1, <1>2, <1>4, <1>5, <1>13
        <5>3. ToBeRun(i, j)' <=>
                \A x \in DOMAIN ran' : x[1] < i => ran'[x] # "error" /\ line[x[1]][x[2]].op # "bad"
          BY <4>2 DEF ToBeRun
        <5> QED BY <5>2, <5>3, <3>2, <1>11
      <4>3. CASE i # a /\ j # 1
        <5>0. i \in Nat /\ j \in Nat /\ j >= 1 /\ (a < i \/ (a = i /\ b < j))
          BY <3>2, <1>9
        <5>1. a < i /\ j > 1 /\ j - 1 \in DOMAIN line[i]
          BY <5>0, <4>3, LineType
        <5>2. <<i, j - 1>> \notin DOMAIN ran'
          BY <5>1, <1>9, <1>11
        <5> QED BY <5>1, <5>2, <3>2, <1>11 DEF ToBeRun
      <4> QED BY <4>1, <4>2, <4>3
    <3> QED BY <3>1, <3>2
  <2>5. Progress'
    <3>1. ~(at'[1] <= Len(line'))
      BY <2>2, <1>3
    <3>2. \A i \in DOMAIN line' : \A j \in DOMAIN line'[i] :
             <<i, j>> \in DOMAIN ran' <=> ToBeRun(i, j)'
      BY <2>4
    <3> QED BY <2>3, <3>1, <3>2 DEF Progress
  <2>6. at'[1] \in 1 .. Len(line) + 1 /\ ~(at'[1] <= Len(line))
    BY <2>2, <1>3
  <2> QED BY <2>2, <2>5, <2>6, <1>7
<1>14. CASE result # "error" /\ op # "bad"
  <2>1. \A x \in DOMAIN ran' : ~Failed(x)' /\ InLine(x)'
    BY <1>1, <1>2, <1>3, <1>4, <1>5, <1>6, <1>14 DEF Failed, InLine
  <2>2. CASE Passed(op, result) /\ More
    <3>1. at' = <<a, b + 1>> /\ b + 1 \in DOMAIN line[a] /\ b + 1 <= Len(line[a])
      BY <1>1, <1>2, <1>3, <1>4, <1>14, <2>2, PlaceType DEF After, More
    <3>2. at' \in Nat \X Nat /\ at'[1] = a /\ at'[2] = b + 1
      BY <3>1, <1>3
    <3>3. \A x \in DOMAIN ran' : Before(x, at)'
      BY <3>2, <1>1, <1>2, <1>3, <1>5, <1>6, SMTT(20) DEF Before, InLine
    <3>4. ASSUME NEW i \in DOMAIN line, NEW j \in DOMAIN line[i], Before(<<i, j>>, at')
          PROVE  <<i, j>> \in DOMAIN ran' <=> ToBeRun(i, j)'
      <4>1. ~Before(at, <<i, j>>)
        BY <3>2, <3>4, <1>3, <1>9 DEF Before
      <4> QED BY <4>1, <1>10
    <3>5. ToBeRun(a, b + 1)'
      <4>1. b + 1 > 1 /\ (b + 1) - 1 = b
        BY <1>3
      <4>2. at \in DOMAIN ran' /\ (\/ line[a][b].op = "and" /\ ran'[at] = "ok"
                                   \/ line[a][b].op = "or" /\ ran'[at] = "fail")
        BY <2>2, <1>4, <1>5 DEF Passed
      <4> QED BY <4>1, <4>2, <1>3 DEF ToBeRun
    <3>6. Progress'
      <4>1. \A i \in DOMAIN line' : \A j \in DOMAIN line'[i] :
               Before(<<i, j>>, at') => (<<i, j>> \in DOMAIN ran' <=> ToBeRun(i, j)')
        BY <3>4
      <4>2. ToBeRun(at[1], at[2])'
        BY <3>2, <3>5
      <4> QED BY <4>1, <4>2, <2>1, <3>3 DEF Progress
    <3>7. at'[1] \in 1 .. Len(line) + 1 /\ at'[2] \in 1 .. Len(line[at'[1]])
      BY <3>1, <3>2, <1>3
    <3> QED BY <3>2, <3>6, <3>7, <1>7
  <2>3. CASE ~(Passed(op, result) /\ More)
    <3>1. at' = <<a + 1, 1>>
      BY <1>1, <1>2, <1>4, <1>14, <2>3 DEF After
    <3>2. at' \in Nat \X Nat /\ at'[1] = a + 1 /\ at'[2] = 1 /\ at'[1] \in 1 .. Len(line) + 1
      BY <3>1, <1>3
    <3>3. \A x \in DOMAIN ran' : Before(x, at)'
      BY <3>2, <1>1, <1>2, <1>3, <1>5, <1>6 DEF Before, InLine
    <3>4. ASSUME NEW i \in DOMAIN line, NEW j \in DOMAIN line[i], Before(<<i, j>>, at')
          PROVE  <<i, j>> \in DOMAIN ran' <=> ToBeRun(i, j)'
      <4>1. CASE ~Before(at, <<i, j>>)
        BY <4>1, <1>10
      <4>2. CASE Before(at, <<i, j>>)
        <5>1. i = a /\ b < j
          BY <4>2, <3>2, <3>4, <1>3, <1>9, SMTT(20) DEF Before
        <5>2. ~(/\ j = b + 1
                /\ ((op = "and" /\ result = "ok") \/ (op = "or" /\ result = "fail")))
          BY <5>1, <2>3, <1>1, <1>2, <1>9 DEF Passed, More
        <5>3. ~ToBeRun(i, j)'
          BY <5>1, <5>2, <1>12
        <5> QED BY <5>3, <4>2, <1>11
      <4> QED BY <4>1, <4>2
    <3>5. at'[1] <= Len(line) => at'[2] \in 1 .. Len(line[at'[1]])
      BY <3>2, <1>3, LineType
    <3>6. ToBeRun(a + 1, 1)'
      <4>1. \A x \in DOMAIN ran' : ran'[x] # "error" /\ line'[x[1]][x[2]].op # "bad"
        BY <2>1 DEF Failed
      <4>2. ~(1 > 1)
        OBVIOUS
      <4> QED BY <4>1, <4>2 DEF ToBeRun
    <3>7. Progress'
      <4>1. \A i \in DOMAIN line' : \A j \in DOMAIN line'[i] :
               Before(<<i, j>>, at') => (<<i, j>> \in DOMAIN ran' <=> ToBeRun(i, j)')
        BY <3>4
      <4>2. ToBeRun(at[1], at[2])'
        BY <3>2, <3>6
      <4> QED BY <4>1, <4>2, <2>1, <3>3 DEF Progress
    <3> QED BY <3>2, <3>5, <3>7, <1>7
  <2> QED BY <2>2, <2>3
<1> QED BY <1>13, <1>14

-----------------------------------------------------------------------------
(* What a step does to the invariant. *)

(* A step of processes that leaves the line alone. *)
LEMMA QuietInv ==
    ASSUME IInv, UNCHANGED <<line, at, typed, ran>>, NEW e, proc' = e, Sound(e),
           e[Shell].role = "shell" =>
               /\ proc[Shell].role = "shell"
               /\ e[Shell].pc = "prompt" <=> proc[Shell].pc = "prompt"
    PROVE  IInv'
<1>1. Progress'
  BY DEF IInv, Progress, InLine, Failed, Before, ToBeRun
<1>2. ShellAt'
  BY DEF IInv, ShellAt, At
<1>3. e \in [Pid -> ProcRec] /\ \A p \in Pid : e[p] \in ProcRec /\ RecOK(p, e[p])
  BY DEF Sound, Records
<1>4. \A p \in Pid : e[p].stage \in 0 .. Len(e[p].commands) /\ (e[p].pc = "gone" => e[p] = Gone)
  <2> TAKE p \in Pid
  <2>1. e[p].stage \in Nat /\ e[p].commands \in Seq(Command) /\ e[p].stage <= Len(e[p].commands)
    BY <1>3 DEF ProcRec, RecOK
  <2>2. e[p].stage \in 0 .. Len(e[p].commands)
    BY <2>1
  <2>3. e[p].pc = "gone" => e[p] = Gone
    BY <1>3 DEF RecOK
  <2> QED BY <2>2, <2>3
<1>5. TypeOK'
  BY <1>3, <1>4 DEF IInv, TypeOK
<1> QED BY <1>1, <1>2, <1>5 DEF IInv

(* p exits. *)
LEMMA ExitInv ==
    ASSUME IInv, UNCHANGED <<line, at, typed, ran>>, NEW ps, Records(ps), NEW p \in Pid,
           \A r \in Pid \ {p} : Kids(ps, r), NEW status \in {"ok", "fail"},
           ps[Shell].role = "shell" => ps[Shell] = proc[Shell],
           proc' = Exited(ps, p, status)
    PROVE  IInv'
<1>1. PICK e : e = Exited(ps, p, status)
  OBVIOUS
<1>2. Sound(e)
  BY <1>1, ExitSound
<1>3. e[Shell].role = "shell" => e[Shell] = ps[Shell]
  <2>1. RecOK(Shell, ps[Shell]) /\ ps[Shell] \in ProcRec /\ Shell \in Pid
    BY Marks DEF Records
  <2>2. ps[Shell].role = "shell" => ps[Shell].parent = None
    BY <2>1 DEF RecOK
  <2>3. CASE Shell = p
    <3>1. ps[Shell].parent = None => e[Shell] = Gone
      BY <1>1, <2>1, <2>3 DEF Exited
    <3>2. ps[Shell].parent # None => e[Shell].role = ps[Shell].role
      BY <1>1, <2>1, <2>3 DEF Exited, Gone
    <3>3. Gone.role # "shell"
      BY DEF Gone
    <3>4. e[Shell].role # "shell"
      <4>1. CASE ps[Shell].parent = None
        BY <4>1, <3>1, <3>3
      <4>2. CASE ps[Shell].parent # None
        BY <4>2, <3>2, <2>2
      <4> QED BY <4>1, <4>2
    <3> QED BY <3>4
  <2>4. CASE Shell # p /\ ps[Shell].parent = p
    <3>1. ps[Shell].role # "shell"
      BY <2>2, <2>4, Marks
    <3>2. e[Shell] = Gone \/ e[Shell] = [ps[Shell] EXCEPT !.parent = None]
      BY <1>1, <2>1, <2>4 DEF Exited
    <3>3. [ps[Shell] EXCEPT !.parent = None].role = ps[Shell].role
      BY <2>1 DEF ProcRec
    <3>4. Gone.role # "shell"
      BY DEF Gone
    <3>5. e[Shell].role # "shell"
      BY <3>1, <3>2, <3>3, <3>4
    <3> QED BY <3>5
  <2>5. CASE Shell # p /\ ps[Shell].parent # p
    BY <1>1, <2>1, <2>5 DEF Exited
  <2> QED BY <2>3, <2>4, <2>5
<1>4. proc' = e
  BY <1>1
<1>5. e[Shell].role = "shell" => proc[Shell].role = "shell" /\ e[Shell] = proc[Shell]
  BY <1>3
<1> QED BY <1>2, <1>4, <1>5, QuietInv

(* The shell is done with an item. *)
LEMMA ItemInv ==
    ASSUME IInv, NEW ps, Records(ps), \A r \in Pid \ {Shell} : Kids(ps, r), NoChild(ps, Shell),
           proc[Shell].role = "shell", ~At(Shell, "prompt"), ps[Shell] = proc[Shell],
           NEW result \in Results, ItemDone(ps, result)
    PROVE  IInv'
<1>1. at[1] <= Len(line)
  <2>1. at[1] \in Nat /\ Len(line) \in Nat
    BY LineType DEF IInv, TypeOK
  <2> QED BY <2>1 DEF IInv, ShellAt
<1>2. /\ at' = After(result) /\ line' = line /\ typed' = typed
      /\ ran' = [x \in DOMAIN ran \cup {at} |-> IF x = at THEN result ELSE ran[x]]
  BY DEF ItemDone
<1>3. PICK point \in {"prompt", "item"} :
         /\ point = "prompt" <=> at'[1] > Len(line)
         /\ proc' = [ps EXCEPT ![Shell] = [Gone EXCEPT !.pc = point, !.role = "shell"]]
  BY DEF ItemDone
<1>4. PICK x : x = [Gone EXCEPT !.pc = point, !.role = "shell"]
  OBVIOUS
<1>5. /\ x \in ProcRec /\ x.pc = point /\ x.role = "shell" /\ x.parent = None
      /\ ~x.no_fork /\ ~x.redirected /\ x.stage = 0 /\ x.commands = <<>>
  <2>1. Gone \in ProcRec /\ point \in Points
    BY Marks DEF Points
  <2> QED BY <2>1, <1>4 DEF ProcRec, Gone
<1>6. RecOK(Shell, x)
  <2>1. x.stage <= Len(x.commands) /\ None # Shell
    BY <1>5 DEF None, Shell
  <2> QED BY <2>1, <1>5 DEF RecOK
<1>7. ps[Shell].parent = None
  BY Marks DEF Records, RecOK
<1>8. HasNone(x) /\ ~HasOne(x) /\ ~HasTwo(x)
  BY <1>5 DEF HasNone, HasOne, HasTwo
<1>9. PICK e : e = [ps EXCEPT ![Shell] = x]
  OBVIOUS
<1>10. Sound(e)
  BY <1>5, <1>6, <1>7, <1>8, <1>9, Marks, MoveSound
<1>11. proc' = e /\ e[Shell] = x
  BY <1>3, <1>4, <1>9, Marks DEF Records
<1>12. /\ at' \in Nat \X Nat /\ at'[1] \in 1 .. Len(line) + 1
       /\ at'[1] <= Len(line) => at'[2] \in 1 .. Len(line[at'[1]])
       /\ \A y \in DOMAIN ran' : ran'[y] \in Results
       /\ Progress'
  BY <1>1, <1>2, ItemProgress DEF IInv
<1>13. ShellAt'
  BY <1>2, <1>3, <1>5, <1>11 DEF ShellAt, At
<1>14. e \in [Pid -> ProcRec] /\ \A p \in Pid : e[p] \in ProcRec /\ RecOK(p, e[p])
  BY <1>10 DEF Sound, Records
<1>15. \A p \in Pid : e[p].stage \in 0 .. Len(e[p].commands) /\ (e[p].pc = "gone" => e[p] = Gone)
  <2> TAKE p \in Pid
  <2>1. e[p].stage \in Nat /\ e[p].commands \in Seq(Command) /\ e[p].stage <= Len(e[p].commands)
    BY <1>14 DEF ProcRec, RecOK
  <2>2. e[p].stage \in 0 .. Len(e[p].commands)
    BY <2>1
  <2>3. e[p].pc = "gone" => e[p] = Gone
    BY <1>14 DEF RecOK
  <2> QED BY <2>2, <2>3
<1>16. TypeOK'
  BY <1>2, <1>11, <1>12, <1>14, <1>15 DEF IInv, TypeOK
<1> QED BY <1>10, <1>11, <1>12, <1>13, <1>16 DEF IInv

(* A command has returned to the process that ran it. *)
LEMMA ReturnedInv ==
    ASSUME IInv, NEW ps, Records(ps), NEW p \in Pid, \A r \in Pid \ {p} : Kids(ps, r),
           ps[p] = proc[p], ps[Shell].role = "shell" => ps[Shell] = proc[Shell],
           proc[p].pc \in {"command", "wait program", "wait redirected"},
           Between(proc[p]) => OneChild(ps, p), ~Between(proc[p]) => NoChild(ps, p),
           Between(proc[p]) => proc[p].pc # "wait program",
           NEW result \in Results, Returned(ps, p, result)
    PROVE  IInv'
<1>1. CASE ps[p].role = "shell" /\ ItemDone(ps, result)
  <2>1. p = Shell /\ proc[Shell].role = "shell" /\ ~At(Shell, "prompt")
    BY <1>1 DEF Records, RecOK, At
  <2>2. NoChild(ps, Shell)
    BY <2>1 DEF Between
  <2> QED BY <2>1, <2>2, <1>1, ItemInv
<1>2. CASE /\ ps[p].role = "stage" /\ Last(p) /\ proc' = Exited(ps, p, "fail")
           /\ UNCHANGED <<line, at, typed, ran>>
  BY <1>2, ExitInv
<1>3. CASE /\ ps[p].role = "stage" /\ ~Last(p) /\ proc' = [ps EXCEPT ![p].pc = "wait stage"]
           /\ UNCHANGED <<line, at, typed, ran>>
  <2>1. Between(ps[p])
    BY <1>3 DEF Between, Last
  <2>2. ps \in [Pid -> ProcRec] /\ ps[p] \in ProcRec /\ RecOK(p, ps[p]) /\ "wait stage" \in Points
    BY DEF Records, Points
  <2>3. PICK x : x = [ps[p] EXCEPT !.pc = "wait stage"]
    OBVIOUS
  <2>4. /\ x \in ProcRec /\ x.parent = ps[p].parent /\ x.pc = "wait stage" /\ x.role = ps[p].role
        /\ x.commands = ps[p].commands /\ x.stage = ps[p].stage
        /\ x.no_fork <=> ps[p].no_fork
        /\ x.redirected <=> ps[p].redirected
    BY <2>2, <2>3 DEF ProcRec
  <2>5. Between(x)
    BY <2>1, <2>4 DEF Between
  <2>6. RecOK(p, x)
    BY <2>1, <2>2, <2>4, <2>5, <1>3 DEF RecOK
  <2>7. HasOne(x) /\ ~HasNone(x) /\ ~HasTwo(x)
    BY <2>4 DEF HasOne, HasNone, HasTwo
  <2>8. PICK e : e = [ps EXCEPT ![p] = x]
    OBVIOUS
  <2>9. Sound(e)
    BY <2>1, <2>4, <2>6, <2>7, <2>8, MoveSound
  <2>10. proc' = e
    BY <1>3, <2>2, <2>3, <2>8
  <2>11. e[Shell].role = "shell" => e[Shell] = proc[Shell]
    BY <2>2, <2>4, <2>8, <1>3, Marks
  <2> QED BY <1>3, <2>9, <2>10, <2>11, QuietInv
<1>4. CASE /\ ps[p].role = "redirected" /\ proc' = Exited(ps, p, Status(result))
           /\ UNCHANGED <<line, at, typed, ran>>
  <2>1. Status(result) \in {"ok", "fail"}
    BY DEF Status
  <2> QED BY <2>1, <1>4, ExitInv
<1> QED BY <1>1, <1>2, <1>3, <1>4 DEF Returned

(* p forks q, and nothing else changes. *)
LEMMA ForkInv ==
    ASSUME IInv, UNCHANGED <<line, at, typed, ran>>, NEW p \in Pid, Free # {},
           NEW x, RecOK(p, x), x.parent = proc[p].parent, x.role = proc[p].role,
           x.pc # "prompt", proc[p].pc \notin {"prompt", "gone"},
           NEW y, RecOK(NewPid, y), y.parent = p, HasNone(y), y.role # "shell",
           \/ HasNone(proc[p]) /\ HasOne(x)
           \/ HasOne(proc[p]) /\ HasTwo(x),
           NEW e, e = [proc EXCEPT ![p] = x, ![NewPid] = y], proc' = e
    PROVE  IInv'
<1>1. PICK q \in Pid : q = NewPid /\ proc[q] = Gone
  BY NewPidFree
<1>2. proc[p] # Gone /\ p # q /\ proc \in [Pid -> ProcRec]
  BY <1>1, Marks DEF IInv, TypeOK
<1>3. Sound([proc EXCEPT ![p] = x, ![q] = y])
  BY <1>1, <1>2, ForkSound DEF IInv
<1>4. PICK f : f = e
  OBVIOUS
<1>5. Sound(f) /\ proc' = f
  BY <1>1, <1>3, <1>4
<1>6. f[p] = x /\ f[q] = y /\ \A r \in Pid \ {p, q} : f[r] = proc[r]
  BY <1>1, <1>2, <1>4
<1>7. f[Shell].role = "shell" =>
         /\ proc[Shell].role = "shell"
         /\ f[Shell].pc = "prompt" <=> proc[Shell].pc = "prompt"
  BY <1>6, Marks
<1> QED BY <1>5, <1>7, QuietInv

(* p goes on alone, and nothing else changes. *)
LEMMA MoveInv ==
    ASSUME IInv, UNCHANGED <<line, at, typed, ran>>, NEW p \in Pid,
           NEW x, RecOK(p, x), x.parent = proc[p].parent, 
           x.role = "shell" => proc[p].role = "shell",
           x.pc # "prompt", proc[p].pc # "prompt",
           HasNone(x) <=> HasNone(proc[p]),
           HasOne(x) <=> HasOne(proc[p]),
           HasTwo(x) <=> HasTwo(proc[p]),
           NEW e, e = [proc EXCEPT ![p] = x], proc' = e
    PROVE  IInv'
<1>1. Kids(proc, p) /\ Records(proc) /\ \A r \in Pid \ {p} : Kids(proc, r)
  BY DEF IInv, Sound
<1>2. Sound([proc EXCEPT ![p] = x])
  <2>1. /\ HasNone(x) => NoChild(proc, p)
        /\ HasOne(x) => OneChild(proc, p)
        /\ HasTwo(x) => TwoInAll(proc, p)
    BY <1>1 DEF Kids
  <2> QED BY <1>1, <2>1, MoveSound
<1>3. PICK f : f = e
  OBVIOUS
<1>4. Sound(f) /\ proc' = f
  BY <1>2, <1>3
<1>5. f[p] = x /\ \A r \in Pid \ {p} : f[r] = proc[r]
  BY <1>3 DEF IInv, TypeOK
<1>6. f[Shell].role = "shell" =>
         /\ proc[Shell].role = "shell"
         /\ f[Shell].pc = "prompt" <=> proc[Shell].pc = "prompt"
  BY <1>5, Marks
<1> QED BY <1>4, <1>6, QuietInv

-----------------------------------------------------------------------------
(* Every action. *)

(* A line is typed: nothing of it has run. *)
LEMMA ReadlineInv ==
    ASSUME IInv, NEW l \in Lines, readline(l)
    PROVE  IInv'
<1>1. /\ At(Shell, "prompt") /\ typed < MaxLines
      /\ line' = l /\ at' = <<1, 1>> /\ typed' = typed + 1 /\ ran' = <<>>
      /\ proc' = [proc EXCEPT ![Shell].pc = "item"]
  BY DEF readline
<1>2. l \in Seq(Seq(Item)) /\ l # <<>> /\ \A i \in DOMAIN l : l[i] \in Seq(Item) /\ l[i] # <<>>
  BY ShellAssumption
<1>3. Len(l) \in Nat /\ Len(l) >= 1 /\ l[1] \in Seq(Item) /\ l[1] # <<>>
  BY <1>2
<1>4. Len(l[1]) \in Nat /\ Len(l[1]) >= 1
  BY <1>3
<1>5. at' \in Nat \X Nat /\ at'[1] = 1 /\ at'[2] = 1
  BY <1>1
<1>6. typed' \in 0 .. MaxLines
  BY <1>1, ShellAssumption DEF IInv, TypeOK
<1>7. DOMAIN ran' = {}
  BY <1>1
<1>8. proc \in [Pid -> ProcRec] /\ proc[Shell] \in ProcRec /\ RecOK(Shell, proc[Shell]) /\ Shell \in Pid
  BY Marks DEF IInv, Sound, Records
<1>9. PICK x : x = [proc[Shell] EXCEPT !.pc = "item"]
  OBVIOUS
<1>10. /\ x \in ProcRec /\ x.pc = "item" /\ x.role = proc[Shell].role
       /\ x.parent = proc[Shell].parent
       /\ x.commands = proc[Shell].commands /\ x.stage = proc[Shell].stage
       /\ x.no_fork <=> proc[Shell].no_fork
       /\ x.redirected <=> proc[Shell].redirected
  <2>1. "item" \in Points
    BY DEF Points
  <2> QED BY <2>1, <1>8, <1>9 DEF ProcRec
<1>11. RecOK(Shell, x) /\ x.role = "shell"
  BY <1>1, <1>8, <1>10 DEF RecOK, At
<1>12. HasNone(x) /\ ~HasOne(x) /\ ~HasTwo(x) /\ HasNone(proc[Shell])
  BY <1>1, <1>10 DEF HasNone, HasOne, HasTwo, At
<1>13. PICK e : e = [proc EXCEPT ![Shell] = x]
  OBVIOUS
<1>14. Sound(e)
  BY <1>8, <1>10, <1>11, <1>12, <1>13, MoveSound DEF IInv, Sound, Kids
<1>15. proc' = e /\ e[Shell] = x
  BY <1>1, <1>8, <1>9, <1>13
<1>16. ShellAt'
  <2>1. ~(at'[1] > Len(line'))
    BY <1>1, <1>3, <1>5
  <2>2. proc'[Shell].pc # "prompt"
    BY <1>10, <1>15
  <2> QED BY <2>1, <2>2 DEF ShellAt, At
<1>17. Progress'
  <2>1. ~(1 > 1)
    OBVIOUS
  <2>2. ToBeRun(1, 1)'
    BY <2>1, <1>7 DEF ToBeRun
  <2>3. \A i \in DOMAIN line' : \A j \in DOMAIN line'[i] : ~Before(<<i, j>>, at')
    <3> TAKE i \in DOMAIN line'
    <3> TAKE j \in DOMAIN line'[i]
    <3>1. i \in Nat /\ i >= 1 /\ j \in Nat /\ j >= 1
      BY <1>1, <1>2
    <3> QED BY <3>1, <1>5 DEF Before
  <2> QED BY <2>2, <2>3, <1>5, <1>7 DEF Progress
<1>18. e \in [Pid -> ProcRec] /\ \A p \in Pid : e[p] \in ProcRec /\ RecOK(p, e[p])
  BY <1>14 DEF Sound, Records
<1>19. \A p \in Pid : e[p].stage \in 0 .. Len(e[p].commands) /\ (e[p].pc = "gone" => e[p] = Gone)
  <2> TAKE p \in Pid
  <2>1. e[p].stage \in Nat /\ e[p].commands \in Seq(Command) /\ e[p].stage <= Len(e[p].commands)
    BY <1>18 DEF ProcRec, RecOK
  <2>2. e[p].stage \in 0 .. Len(e[p].commands)
    BY <2>1
  <2>3. e[p].pc = "gone" => e[p] = Gone
    BY <1>18 DEF RecOK
  <2> QED BY <2>2, <2>3
<1>20. at'[1] \in 1 .. Len(line') + 1 /\ at'[2] \in 1 .. Len(line'[at'[1]])
  BY <1>1, <1>3, <1>4, <1>5
<1>21. TypeOK'
  BY <1>1, <1>5, <1>6, <1>7, <1>15, <1>18, <1>19, <1>20 DEF TypeOK
<1> QED BY <1>14, <1>15, <1>16, <1>17, <1>21 DEF IInv

(* A pipeline of the line is started. *)
LEMMA PipelineInv ==
    ASSUME IInv, parse_pipeline
    PROVE  IInv'
<1>1. PICK commands : commands = line[at[1]][at[2]].commands
  OBVIOUS
<1>2. Shell \in Pid /\ RecOK(Shell, proc[Shell]) /\ proc[Shell] \in ProcRec /\ At(Shell, "item")
  BY Marks DEF IInv, Sound, Records, parse_pipeline
<1>3. /\ proc[Shell].role = "shell" /\ ~proc[Shell].no_fork /\ ~proc[Shell].redirected
      /\ proc[Shell].parent = None /\ ~At(Shell, "prompt") /\ HasNone(proc[Shell])
  BY <1>2 DEF RecOK, At, HasNone
<1>4. at[1] <= Len(line)
  <2>1. at[1] \in Nat /\ Len(line) \in Nat
    BY LineType DEF IInv, TypeOK
  <2> QED BY <2>1, <1>3 DEF IInv, ShellAt
<1>5. commands \in Seq(Command)
  BY <1>1, <1>4, PlaceType, LineType DEF IInv
<1>6. CASE ItemDone(proc, "error")
  <2>1. Records(proc) /\ (\A r \in Pid \ {Shell} : Kids(proc, r)) /\ NoChild(proc, Shell)
    BY <1>2, <1>3 DEF IInv, Sound, Kids
  <2>2. "error" \in Results
    BY DEF Results
  <2> QED BY <2>1, <2>2, <1>3, <1>6, ItemInv
<1>7. CASE /\ Len(commands) = 1
           /\ proc' = [proc EXCEPT ![Shell].pc = "command", ![Shell].commands = commands,
                                   ![Shell].stage = 1]
           /\ UNCHANGED <<line, at, typed, ran>>
  <2>1. PICK x : x = [proc[Shell] EXCEPT !.pc = "command", !.commands = commands, !.stage = 1]
    OBVIOUS
  <2>2. /\ x \in ProcRec /\ x.pc = "command" /\ x.role = proc[Shell].role
        /\ x.parent = proc[Shell].parent /\ x.commands = commands /\ x.stage = 1
        /\ x.no_fork <=> proc[Shell].no_fork
        /\ x.redirected <=> proc[Shell].redirected
    <3>1. "command" \in Points
      BY DEF Points
    <3> QED BY <3>1, <2>1, <1>2, <1>5 DEF ProcRec
  <2>3. RecOK(Shell, x)
    <3>1. x.stage <= Len(x.commands) /\ x.stage > 0 /\ None # Shell
      BY <2>2, <1>7 DEF None, Shell
    <3> QED BY <3>1, <2>2, <1>3 DEF RecOK
  <2>4. HasNone(x) /\ ~HasOne(x) /\ ~HasTwo(x)
    BY <2>2, <1>3 DEF HasNone, HasOne, HasTwo, Between
  <2>5. ~HasOne(proc[Shell]) /\ ~HasTwo(proc[Shell])
    BY <1>2, <1>3 DEF HasNone, HasOne, HasTwo, At
  <2>6. proc' = [proc EXCEPT ![Shell] = x]
    BY <2>1, <1>2, <1>7 DEF IInv, TypeOK, ProcRec
  <2> QED BY <2>2, <2>3, <2>4, <2>5, <2>6, <1>2, <1>3, <1>7, MoveInv DEF At
<1>8. CASE /\ Len(commands) > 1
           /\ Forked(Shell, "wait pipeline",
                    [Gone EXCEPT !.pc = "stage", !.role = "stage", !.commands = commands,
                                 !.stage = 1])
           /\ UNCHANGED <<line, at, typed, ran>>
  <2>1. Free # {}
    BY <1>8 DEF Forked
  <2>2. PICK x : x = [proc[Shell] EXCEPT !.pc = "wait pipeline"]
    OBVIOUS
  <2>3. /\ x \in ProcRec /\ x.pc = "wait pipeline" /\ x.role = proc[Shell].role
        /\ x.parent = proc[Shell].parent
        /\ x.commands = proc[Shell].commands /\ x.stage = proc[Shell].stage
        /\ x.no_fork <=> proc[Shell].no_fork
        /\ x.redirected <=> proc[Shell].redirected
    <3>1. "wait pipeline" \in Points
      BY DEF Points
    <3> QED BY <3>1, <2>2, <1>2 DEF ProcRec
  <2>4. RecOK(Shell, x)
    BY <2>3, <1>2, <1>3 DEF RecOK
  <2>5. HasOne(x)
    BY <2>3 DEF HasOne, HasNone, HasTwo
  <2>6. PICK y : y = [[Gone EXCEPT !.pc = "stage", !.role = "stage", !.commands = commands,
                                   !.stage = 1] EXCEPT !.parent = Shell]
    OBVIOUS
  <2>7. /\ y \in ProcRec /\ y.pc = "stage" /\ y.role = "stage" /\ y.parent = Shell
        /\ y.commands = commands /\ y.stage = 1 /\ ~y.no_fork /\ ~y.redirected
    <3>1. "stage" \in Points /\ Gone \in ProcRec
      BY Marks DEF Points
    <3> QED BY <3>1, <2>6, <1>2, <1>5 DEF ProcRec, Gone
  <2>8. PICK q \in Pid : q = NewPid /\ proc[q] = Gone
    BY <2>1, NewPidFree
  <2>9. q # Shell
    BY <2>8, <1>2, Marks DEF At
  <2>10. RecOK(q, y)
    <3>0. Len(commands) \in Nat
      BY <1>5
    <3>1. Len(commands) > 1
      BY <1>8, Zenon
    <3>2. y.stage <= Len(y.commands) /\ y.stage > 0
      BY <3>0, <3>1, <2>7
    <3> QED BY <3>2, <2>7, <2>9 DEF RecOK
  <2>11. HasNone(y)
    BY <2>7 DEF HasNone
  <2>12. proc' = [proc EXCEPT ![Shell] = x, ![NewPid] = y]
    BY <2>2, <2>6, <2>8, <2>9, <1>2, <1>8 DEF Forked, IInv, TypeOK, ProcRec
  <2>13. proc[Shell].pc \notin {"prompt", "gone"}
    BY <1>2 DEF At
  <2> QED BY <2>1, <2>3, <2>4, <2>5, <2>7, <2>8, <2>10, <2>11, <2>12, <2>13, <1>2, <1>3, <1>8, ForkInv
<1> QED BY <1>1, <1>6, <1>7, <1>8 DEF parse_pipeline

(* A stage of a pipeline starts its command, and the next stage. *)
LEMMA StageInv ==
    ASSUME IInv, NEW p \in Pid, execute_stage(p)
    PROVE  IInv'
<1>1. /\ RecOK(p, proc[p]) /\ proc[p] \in ProcRec /\ proc \in [Pid -> ProcRec]
      /\ proc[p].pc = "stage" /\ UNCHANGED <<line, at, typed, ran>>
  BY DEF IInv, Sound, Records, execute_stage, At
<1>2. /\ proc[p].role = "stage" /\ ~proc[p].no_fork /\ ~proc[p].redirected
      /\ HasNone(proc[p]) /\ ~HasOne(proc[p]) /\ ~HasTwo(proc[p])
      /\ proc[p].commands \in Seq(Command) /\ proc[p].stage \in Nat /\ proc[p].stage > 0
      /\ proc[p].stage <= Len(proc[p].commands)
  BY <1>1 DEF RecOK, HasNone, HasOne, HasTwo, ProcRec
<1>3. CASE Last(p) /\ proc' = [proc EXCEPT ![p].pc = "command"]
  <2>1. PICK x : x = [proc[p] EXCEPT !.pc = "command"]
    OBVIOUS
  <2>2. /\ x \in ProcRec /\ x.pc = "command" /\ x.role = "stage" /\ x.parent = proc[p].parent
        /\ x.commands = proc[p].commands /\ x.stage = proc[p].stage
        /\ ~x.no_fork /\ ~x.redirected
    <3>1. "command" \in Points
      BY DEF Points
    <3> QED BY <3>1, <2>1, <1>1, <1>2 DEF ProcRec
  <2>3. ~Between(x)
    BY <2>2, <1>3 DEF Between, Last
  <2>4. RecOK(p, x)
    BY <2>2, <2>3, <1>1 DEF RecOK
  <2>5. HasNone(x) /\ ~HasOne(x) /\ ~HasTwo(x)
    BY <2>2, <2>3 DEF HasNone, HasOne, HasTwo
  <2>6. proc' = [proc EXCEPT ![p] = x]
    BY <2>1, <1>1, <1>3
  <2> QED BY <2>2, <2>4, <2>5, <2>6, <1>1, <1>2, MoveInv
<1>4. CASE /\ ~Last(p) /\ Free # {}
           /\ LET q == NewPid
                  next == [proc[p] EXCEPT !.pc = "set up", !.stage = @ + 1, !.parent = p,
                                          !.writes = q] IN
              proc' = [proc EXCEPT ![p].pc = "command", ![p].no_fork = TRUE, ![p].writes = q,
                                   ![q] = next]
  <2>1. PICK q \in Pid : q = NewPid /\ proc[q] = Gone
    BY <1>4, NewPidFree
  <2>2. q # p
    BY <2>1, <1>1, Marks
  <2>3. PICK x : x = [proc[p] EXCEPT !.pc = "command", !.no_fork = TRUE, !.writes = q]
    OBVIOUS
  <2>4. /\ x \in ProcRec /\ x.pc = "command" /\ x.role = "stage" /\ x.parent = proc[p].parent
        /\ x.commands = proc[p].commands /\ x.stage = proc[p].stage
        /\ x.no_fork /\ ~x.redirected
    <3>1. "command" \in Points
      BY DEF Points
    <3> QED BY <3>1, <2>1, <2>3, <1>1, <1>2 DEF ProcRec
  <2>5. PICK n : n = proc[p].stage + 1
    OBVIOUS
  <2>6. PICK y : y = [proc[p] EXCEPT !.pc = "set up", !.stage = n, !.parent = p, !.writes = q]
    OBVIOUS
  <2>7. n \in Nat /\ n > 0 /\ n <= Len(proc[p].commands)
    BY <2>5, <1>2, <1>4 DEF Last
  <2>8. /\ y \in ProcRec /\ y.pc = "set up" /\ y.role = "stage" /\ y.parent = p
        /\ y.commands = proc[p].commands /\ y.stage = n
        /\ ~y.no_fork /\ ~y.redirected
    <3>1. "set up" \in Points
      BY DEF Points
    <3> QED BY <3>1, <2>1, <2>6, <2>7, <1>1, <1>2 DEF ProcRec
  <2>9. Between(x)
    BY <2>4, <1>4 DEF Between, Last
  <2>10. RecOK(p, x)
    BY <2>4, <2>9, <1>1 DEF RecOK
  <2>11. RecOK(q, y)
    BY <2>2, <2>7, <2>8 DEF RecOK
  <2>12. HasOne(x) /\ HasNone(y)
    BY <2>4, <2>8, <2>9 DEF HasNone, HasOne, HasTwo
  <2>13. proc' = [proc EXCEPT ![p] = x, ![NewPid] = y]
    BY <2>1, <2>2, <2>3, <2>5, <2>6, <1>1, <1>4 DEF ProcRec
  <2>14. Free # {} /\ proc[p].pc \notin {"prompt", "gone"} /\ x.role = proc[p].role
    BY <2>4, <1>1, <1>2, <1>4
  <2> QED BY <2>1, <2>4, <2>8, <2>10, <2>11, <2>12, <2>13, <2>14, <1>1, <1>2, ForkInv
<1> QED BY <1>3, <1>4 DEF execute_stage

(* The next stage closes the end it does not use. *)
LEMMA SetUpInv ==
    ASSUME IInv, NEW p \in Pid, set_up(p)
    PROVE  IInv'
<1>1. /\ RecOK(p, proc[p]) /\ proc[p] \in ProcRec /\ proc \in [Pid -> ProcRec]
      /\ proc[p].pc = "set up" /\ UNCHANGED <<line, at, typed, ran>>
  BY DEF IInv, Sound, Records, set_up, At
<1>2. PICK x : x = [proc[p] EXCEPT !.pc = "stage", !.reads = p, !.writes = None]
  OBVIOUS
<1>3. /\ x \in ProcRec /\ x.pc = "stage" /\ x.role = proc[p].role /\ x.parent = proc[p].parent
      /\ x.commands = proc[p].commands /\ x.stage = proc[p].stage
      /\ x.no_fork <=> proc[p].no_fork
      /\ x.redirected <=> proc[p].redirected
  <2>1. "stage" \in Points
    BY DEF Points
  <2> QED BY <2>1, <1>1, <1>2 DEF ProcRec
<1>4. RecOK(p, x)
  BY <1>1, <1>3 DEF RecOK
<1>5. /\ HasNone(x) /\ ~HasOne(x) /\ ~HasTwo(x)
      /\ HasNone(proc[p]) /\ ~HasOne(proc[p]) /\ ~HasTwo(proc[p])
  BY <1>1, <1>3 DEF HasNone, HasOne, HasTwo
<1>6. proc' = [proc EXCEPT ![p] = x]
  BY <1>1, <1>2 DEF ProcRec, set_up, ClosesEnd
<1> QED BY <1>1, <1>3, <1>4, <1>5, <1>6, MoveInv

(* What a process that runs a command knows of its children and its command. *)
LEMMA AtCommand ==
    ASSUME IInv, NEW p \in Pid, proc[p].pc \in {"command", "run"}
    PROVE  /\ RecOK(p, proc[p]) /\ proc[p] \in ProcRec /\ proc \in [Pid -> ProcRec]
           /\ Records(proc) /\ \A r \in Pid \ {p} : Kids(proc, r)
           /\ CommandOf(p) \in Command
           /\ proc[p].pc = "command" => /\ Between(proc[p]) => OneChild(proc, p)
                                        /\ ~Between(proc[p]) => NoChild(proc, p)
<1>1. /\ RecOK(p, proc[p]) /\ proc[p] \in ProcRec /\ proc \in [Pid -> ProcRec]
      /\ Records(proc) /\ \A r \in Pid : Kids(proc, r)
  BY DEF IInv, Sound, Records
<1>2. /\ proc[p].commands \in Seq(Command) /\ proc[p].stage \in Nat
      /\ proc[p].stage > 0 /\ proc[p].stage <= Len(proc[p].commands)
  BY <1>1 DEF RecOK, ProcRec
<1>3. CommandOf(p) \in Command
  BY <1>2 DEF CommandOf
<1>4. proc[p].pc = "command" => /\ Between(proc[p]) => HasOne(proc[p])
                                /\ ~Between(proc[p]) => HasNone(proc[p])
  BY DEF HasOne, HasNone, HasTwo
<1> QED BY <1>1, <1>3, <1>4 DEF Kids

(* A builtin. *)
LEMMA BuiltinInv ==
    ASSUME IInv, NEW p \in Pid, builtin(p)
    PROVE  IInv'
<1>1. proc[p].pc = "command" /\ Returned(proc, p, CommandOf(p).result)
  BY DEF builtin, At
<1>2. CommandOf(p).result \in Results
  BY <1>1, AtCommand DEF Command
<1> QED BY <1>1, <1>2, AtCommand, ReturnedInv

(* exit, in whichever process it is met. *)
LEMMA ExitCommandInv ==
    ASSUME IInv, NEW p \in Pid, exit(p)
    PROVE  IInv'
<1>1. /\ proc[p].pc = "command" /\ proc' = Exited(proc, p, "ok")
      /\ UNCHANGED <<line, at, typed, ran>>
  BY DEF exit, At
<1> QED BY <1>1, AtCommand, ExitInv

(* A program ends. *)
LEMMA ProgramEndsInv ==
    ASSUME IInv, NEW p \in Pid, program_ends(p)
    PROVE  IInv'
<1>1. /\ proc[p].pc = "run" /\ proc' = Exited(proc, p, Status(CommandOf(p).result))
      /\ UNCHANGED <<line, at, typed, ran>>
  BY DEF program_ends, At
<1>2. Status(CommandOf(p).result) \in {"ok", "fail"}
  BY DEF Status
<1> QED BY <1>1, <1>2, AtCommand, ExitInv

(* A redirection: its child runs the command with one stream replaced. *)
LEMMA RedirectInv ==
    ASSUME IInv, NEW p \in Pid, io_redirect(p)
    PROVE  IInv'
<1>1. /\ proc[p].pc = "command" /\ Free # {} /\ ~proc[p].redirected
      /\ UNCHANGED <<line, at, typed, ran>>
  BY DEF io_redirect, At, Forked, Redirects
<1>2. /\ RecOK(p, proc[p]) /\ proc[p] \in ProcRec /\ proc \in [Pid -> ProcRec]
      /\ proc[p].role \in {"shell", "stage"}
  BY <1>1, AtCommand DEF RecOK
<1>3. PICK q \in Pid : q = NewPid /\ proc[q] = Gone
  BY <1>1, NewPidFree
<1>4. q # p
  BY <1>1, <1>3, Marks
<1>5. PICK x : x = [proc[p] EXCEPT !.pc = "wait redirected"]
  OBVIOUS
<1>6. /\ x \in ProcRec /\ x.pc = "wait redirected" /\ x.role = proc[p].role
      /\ x.parent = proc[p].parent
      /\ x.commands = proc[p].commands /\ x.stage = proc[p].stage
      /\ x.no_fork <=> proc[p].no_fork
      /\ x.redirected <=> proc[p].redirected
  <2>1. "wait redirected" \in Points
    BY DEF Points
  <2> QED BY <2>1, <1>2, <1>5 DEF ProcRec
<1>7. PICK in \in Pid \cup {None} :
         in = IF CommandOf(p).redirect = "in" THEN None ELSE proc[p].reads
  BY <1>2 DEF ProcRec
<1>8. PICK out \in Pid \cup {None} :
         out = IF CommandOf(p).redirect = "out" THEN None ELSE proc[p].writes
  BY <1>2 DEF ProcRec
<1>9. PICK y : y = [[proc[p] EXCEPT !.role = "redirected", !.redirected = TRUE,
                                    !.reads = in, !.writes = out] EXCEPT !.parent = p]
  OBVIOUS
<1>10. /\ y \in ProcRec /\ y.pc = "command" /\ y.role = "redirected" /\ y.parent = p
       /\ y.commands = proc[p].commands /\ y.stage = proc[p].stage
       /\ y.redirected
  BY <1>1, <1>2, <1>7, <1>8, <1>9 DEF ProcRec
<1>11. Between(x) <=> Between(proc[p])
  BY <1>6 DEF Between
<1>12. RecOK(p, x)
  BY <1>1, <1>2, <1>6, <1>11 DEF RecOK
<1>13. RecOK(q, y)
  BY <1>1, <1>2, <1>4, <1>10 DEF RecOK
<1>14. HasNone(y)
  BY <1>10 DEF HasNone, Between
<1>15. \/ HasNone(proc[p]) /\ HasOne(x)
       \/ HasOne(proc[p]) /\ HasTwo(x)
  BY <1>1, <1>6, <1>11 DEF HasNone, HasOne, HasTwo
<1>16. proc' = [proc EXCEPT ![p] = x, ![NewPid] = y]
  BY <1>2, <1>3, <1>4, <1>5, <1>7, <1>8, <1>9 DEF io_redirect, Forked, ProcRec
<1>17. proc[p].pc \notin {"prompt", "gone"}
  BY <1>1
<1> QED BY <1>1, <1>3, <1>6, <1>10, <1>12, <1>13, <1>14, <1>15, <1>16, <1>17, ForkInv

(* A program is started, in place of the process or in a child. *)
LEMMA NiceInv ==
    ASSUME IInv, NEW p \in Pid, fsh_nice(p)
    PROVE  IInv'
<1>1. proc[p].pc = "command" /\ UNCHANGED <<line, at, typed, ran>>
  BY DEF fsh_nice, At
<1>2. RecOK(p, proc[p]) /\ proc[p] \in ProcRec /\ proc \in [Pid -> ProcRec]
  BY <1>1, AtCommand
<1>3. CASE ~Forks(p) /\ proc' = [proc EXCEPT ![p].pc = "run", ![p].role = "program"]
  <2>1. proc[p].no_fork
    BY <1>3 DEF Forks
  <2>2. PICK x : x = [proc[p] EXCEPT !.pc = "run", !.role = "program"]
    OBVIOUS
  <2>3. /\ x \in ProcRec /\ x.pc = "run" /\ x.role = "program" /\ x.parent = proc[p].parent
        /\ x.commands = proc[p].commands /\ x.stage = proc[p].stage
        /\ x.no_fork /\ (x.redirected <=> proc[p].redirected)
    <3>1. "run" \in Points
      BY DEF Points
    <3> QED BY <3>1, <2>1, <2>2, <1>2 DEF ProcRec
  <2>4. RecOK(p, x)
    BY <2>3, <1>1, <1>2 DEF RecOK
  <2>5. proc[p].redirected <=> ~Between(proc[p])
    BY <2>1, <1>1, <1>2 DEF RecOK, Between
  <2>6. /\ HasNone(x) <=> HasNone(proc[p])
        /\ ~HasTwo(x) /\ ~HasTwo(proc[p])
    BY <2>3, <2>5, <1>1 DEF HasNone, HasTwo
  <2>7. HasOne(x) <=> HasOne(proc[p])
    BY <2>6 DEF HasOne
  <2>8. proc' = [proc EXCEPT ![p] = x]
    BY <2>2, <1>2, <1>3 DEF ProcRec
  <2> QED BY <2>3, <2>4, <2>6, <2>7, <2>8, <1>1, MoveInv
<1>4. CASE /\ Forks(p)
           /\ Forked(p, "wait program", [proc[p] EXCEPT !.pc = "run", !.role = "program"])
  <2>1. ~proc[p].no_fork /\ Free # {}
    BY <1>4 DEF Forks, Forked
  <2>2. PICK q \in Pid : q = NewPid /\ proc[q] = Gone
    BY <2>1, NewPidFree
  <2>3. q # p
    BY <2>2, <1>1, Marks
  <2>4. PICK x : x = [proc[p] EXCEPT !.pc = "wait program"]
    OBVIOUS
  <2>5. /\ x \in ProcRec /\ x.pc = "wait program" /\ x.role = proc[p].role
        /\ x.parent = proc[p].parent
        /\ x.commands = proc[p].commands /\ x.stage = proc[p].stage
        /\ ~x.no_fork /\ (x.redirected <=> proc[p].redirected)
    <3>1. "wait program" \in Points
      BY DEF Points
    <3> QED BY <3>1, <2>1, <2>4, <1>2 DEF ProcRec
  <2>6. PICK y : y = [[proc[p] EXCEPT !.pc = "run", !.role = "program"] EXCEPT !.parent = p]
    OBVIOUS
  <2>7. /\ y \in ProcRec /\ y.pc = "run" /\ y.role = "program" /\ y.parent = p
        /\ y.commands = proc[p].commands /\ y.stage = proc[p].stage /\ ~y.no_fork
    <3>1. "run" \in Points
      BY DEF Points
    <3> QED BY <3>1, <2>1, <2>6, <1>2 DEF ProcRec
  <2>8. ~Between(proc[p]) /\ ~Between(x)
    BY <2>1, <2>5, <1>1, <1>2 DEF RecOK, Between
  <2>9. RecOK(p, x)
    BY <2>5, <2>8, <1>1, <1>2 DEF RecOK
  <2>10. RecOK(q, y)
    BY <2>3, <2>7, <1>1, <1>2 DEF RecOK
  <2>11. HasNone(y) /\ HasNone(proc[p]) /\ HasOne(x)
    BY <2>5, <2>7, <2>8, <1>1 DEF HasNone, HasOne, HasTwo
  <2>12. proc' = [proc EXCEPT ![p] = x, ![NewPid] = y]
    BY <2>2, <2>3, <2>4, <2>6, <1>2, <1>4 DEF Forked, ProcRec
  <2>13. proc[p].pc \notin {"prompt", "gone"}
    BY <1>1
  <2> QED BY <2>1, <2>2, <2>5, <2>7, <2>9, <2>10, <2>11, <2>12, <2>13, <1>1, ForkInv
<1> QED BY <1>3, <1>4 DEF fsh_nice

(* wait reaps a child, and its status goes where it is waited for. *)
LEMMA WaitInv ==
    ASSUME IInv, NEW p \in Pid, wait(p)
    PROVE  IInv'
<1>1. PICK q \in Children(p) :
        /\ At(q, "zombie")
        /\ \/ /\ proc[p].pc \in {"wait program", "wait redirected"}
              /\ Returned([proc EXCEPT ![q] = Gone], p,
                          IF At(p, "wait program") THEN proc[q].status ELSE RedirectResult)
           \/ At(p, "wait pipeline") /\ ItemDone([proc EXCEPT ![q] = Gone], proc[q].status)
           \/ /\ At(p, "wait stage")
              /\ proc' = Exited([proc EXCEPT ![q] = Gone], p,
                                IF proc[p].stage = 1 THEN proc[q].status ELSE "fail")
              /\ UNCHANGED <<line, at, typed, ran>>
  BY DEF wait
<1>2. q \in Pid /\ proc[q].parent = p /\ proc[q].pc = "zombie"
  BY <1>1 DEF Children, At
<1>3. PICK e : e = [proc EXCEPT ![q] = Gone]
  OBVIOUS
<1>4. Sound(proc)
  BY DEF IInv
<1>5. /\ Records(e) /\ e[p] = proc[p] /\ \A r \in Pid \ {p} : Kids(e, r)
      /\ HasOne(proc[p]) => NoChild(e, p)
      /\ HasTwo(proc[p]) => OneChild(e, p)
  <2>1. Reaped(proc, p, e)
    BY <1>2, <1>3, <1>4, ReapSound
  <2> QED BY <2>1 DEF Reaped
<1>6. /\ RecOK(p, proc[p]) /\ RecOK(q, proc[q]) /\ proc[q].status \in {"ok", "fail"}
      /\ proc \in [Pid -> ProcRec]
  BY <1>2, <1>4 DEF Sound, Records, ProcRec
<1>7. e[Shell].role = "shell" => e[Shell] = proc[Shell]
  <2>1. Gone.role # "shell"
    BY DEF Gone
  <2> QED BY <2>1, <1>2, <1>3, <1>6, Marks
<1>8. CASE /\ proc[p].pc \in {"wait program", "wait redirected"}
           /\ Returned(e, p, IF At(p, "wait program") THEN proc[q].status ELSE RedirectResult)
  <2>1. PICK result \in Results :
            result = IF At(p, "wait program") THEN proc[q].status ELSE RedirectResult
    BY <1>6 DEF Results, RedirectResult
  <2>2. /\ Between(proc[p]) => HasTwo(proc[p]) /\ proc[p].pc # "wait program"
        /\ ~Between(proc[p]) => HasOne(proc[p])
    BY <1>6, <1>8 DEF RecOK, HasOne, HasTwo, HasNone
  <2>3. Returned(e, p, result)
    BY <2>1, <1>8
  <2>4. proc[p].pc \in {"command", "wait program", "wait redirected"}
    BY <1>8
  <2> QED BY <2>2, <2>3, <2>4, <1>5, <1>7, ReturnedInv
<1>9. CASE At(p, "wait pipeline") /\ ItemDone(e, proc[q].status)
  <2>1. p = Shell /\ proc[Shell].role = "shell" /\ ~At(Shell, "prompt") /\ HasOne(proc[p])
    BY <1>6, <1>9 DEF RecOK, At, HasOne, HasNone, HasTwo
  <2>2. proc[q].status \in Results
    BY <1>6 DEF Results
  <2> QED BY <2>1, <2>2, <1>5, <1>9, ItemInv
<1>10. CASE /\ At(p, "wait stage")
            /\ proc' = Exited(e, p, IF proc[p].stage = 1 THEN proc[q].status ELSE "fail")
            /\ UNCHANGED <<line, at, typed, ran>>
  <2>1. PICK status \in {"ok", "fail"} :
            status = IF proc[p].stage = 1 THEN proc[q].status ELSE "fail"
    BY <1>6
  <2> QED BY <2>1, <1>5, <1>7, <1>10, ExitInv
<1> QED BY <1>1, <1>3, <1>8, <1>9, <1>10

-----------------------------------------------------------------------------
(* The theorems. *)

(* Every step keeps the invariant. *)
LEMMA Step ==
    ASSUME IInv, [Next]_vars
    PROVE  IInv'
<1>1. CASE UNCHANGED vars
  <2>1. Sound(proc) /\ proc' = proc /\ UNCHANGED <<line, at, typed, ran>>
    BY <1>1 DEF IInv, vars
  <2> QED BY <2>1, QuietInv
<1>2. CASE \E l \in Lines : readline(l)
  BY <1>2, ReadlineInv
<1>3. CASE parse_pipeline
  BY <1>3, PipelineInv
<1>4. ASSUME NEW p \in Pid, ProcessStep(p) PROVE IInv'
  <2>1. CASE execute_stage(p)  BY <2>1, StageInv
  <2>2. CASE set_up(p)  BY <2>2, SetUpInv
  <2>3. CASE builtin(p)  BY <2>3, BuiltinInv
  <2>4. CASE exit(p)  BY <2>4, ExitCommandInv
  <2>5. CASE io_redirect(p)  BY <2>5, RedirectInv
  <2>6. CASE fsh_nice(p)  BY <2>6, NiceInv
  <2>7. CASE program_ends(p)  BY <2>7, ProgramEndsInv
  <2>8. CASE wait(p)  BY <2>8, WaitInv
  <2> QED BY <1>4, <2>1, <2>2, <2>3, <2>4, <2>5, <2>6, <2>7, <2>8 DEF ProcessStep
<1>5. CASE Finished
  BY <1>5, <1>1 DEF Finished
<1> QED BY <1>1, <1>2, <1>3, <1>4, <1>5 DEF Next

(* The shell starts at its prompt, alone, with no line. *)
LEMMA Start ==
    ASSUME Init
    PROVE  IInv
<1>1. PICK x : x = [Gone EXCEPT !.pc = "prompt", !.role = "shell"]
  OBVIOUS
<1>2. /\ x \in ProcRec /\ x.pc = "prompt" /\ x.role = "shell" /\ x.parent = None
      /\ ~x.no_fork /\ ~x.redirected /\ x.stage = 0 /\ x.commands = <<>>
  <2>1. Gone \in ProcRec /\ "prompt" \in Points
    BY Marks DEF Points
  <2> QED BY <2>1, <1>1 DEF ProcRec, Gone
<1>3. RecOK(Shell, x)
  <2>1. x.stage <= Len(x.commands) /\ None # Shell
    BY <1>2 DEF None, Shell
  <2> QED BY <2>1, <1>2 DEF RecOK
<1>4. proc = [p \in Pid |-> IF p = Shell THEN x ELSE Gone]
  BY <1>1 DEF Init
<1>5. Records(proc) /\ proc \in [Pid -> ProcRec]
  BY <1>2, <1>3, <1>4, Marks DEF Records
<1>6. \A p \in Pid : proc[p].parent = None /\ HasNone(proc[p])
  BY <1>2, <1>4, Marks DEF HasNone
<1>7. Sound(proc)
  <2>1. \A p \in Pid : NoChild(proc, p)
    BY <1>6, Marks DEF NoChild
  <2>2. \A p \in Pid : ~HasOne(proc[p]) /\ ~HasTwo(proc[p])
    BY <1>2, <1>4, Marks DEF HasOne, HasNone, HasTwo
  <2> QED BY <2>1, <2>2, <1>5 DEF Sound, Kids
<1>8. line = <<>> /\ at = <<1, 1>> /\ typed = 0 /\ ran = <<>> /\ Len(<<>>) = 0
  BY DEF Init
<1>9. DOMAIN ran = {} /\ DOMAIN line = {}
  BY <1>8
<1>10. at[1] = 1 /\ at \in Nat \X Nat /\ ~(at[1] <= Len(line)) /\ at[1] \in 1 .. Len(line) + 1
  BY <1>8
<1>11. Progress
  BY <1>9, <1>10 DEF Progress
<1>12. ShellAt
  <2>1. At(Shell, "prompt") /\ at[1] > Len(line)
    BY <1>2, <1>4, <1>8, <1>10, Marks DEF At
  <2> QED BY <2>1 DEF ShellAt
<1>13. \A p \in Pid : /\ proc[p].stage \in 0 .. Len(proc[p].commands)
                      /\ proc[p].pc = "gone" => proc[p] = Gone
  <2>1. Gone.stage = 0 /\ Gone.commands = <<>>
    BY DEF Gone
  <2>2. \A p \in Pid : proc[p].stage = 0 /\ proc[p].commands = <<>>
    BY <2>1, <1>2, <1>4
  <2>3. 0 \in 0 .. Len(<<>>)
    BY <1>8
  <2> QED BY <2>2, <2>3, <1>2, <1>4
<1>14. TypeOK
  BY <1>5, <1>8, <1>9, <1>10, <1>13, ShellAssumption DEF TypeOK
<1> QED BY <1>7, <1>11, <1>12, <1>14 DEF IInv

(* The invariant holds in every behaviour of the shell. *)
THEOREM Invariance == Spec => []IInv
<1>1. Init => IInv
  BY Start
<1>2. IInv /\ [Next]_vars => IInv'
  BY Step
<1> QED BY <1>1, <1>2, PTL DEF Spec

(* The children of a process are what the invariant says. *)
LEMMA ChildrenCounted ==
    ASSUME IInv
    PROVE  WaitsForOne
<1>1. ASSUME NEW p \in Pid, proc[p].pc \in Waits, ~TwoChildren(p)
      PROVE  Cardinality(Children(p)) = 1
  <2>1. HasOne(proc[p])
    BY <1>1 DEF TwoChildren, Waits, At, Last, HasOne, HasNone, HasTwo, Between
  <2>2. PICK q \in Pid : \A s \in Pid : proc[s].parent = p <=> s = q
    BY <2>1 DEF IInv, Sound, Kids, OneChild
  <2>3. Children(p) = {q}
    BY <2>2 DEF Children
  <2> QED BY <2>3, FS_Singleton
<1>2. ASSUME NEW p \in Pid, proc[p].pc \in {"prompt", "item"}
      PROVE  Children(p) = {}
  <2>1. HasNone(proc[p])
    BY <1>2 DEF HasNone
  <2> QED BY <2>1 DEF IInv, Sound, Kids, NoChild, Children
<1> QED BY <1>1, <1>2 DEF WaitsForOne, IInv

(* Whatever the lines and however its processes are scheduled, a process   *)
(* that waits has one child to take, the one it means, but for a redirected *)
(* stage before the last, and the shell is at its prompt without a child:  *)
(* the waits of execute_pipeline, io_redirect and fsh_nice_helper, which   *)
(* take any child, do not mix statuses up.                                 *)
THEOREM StatusesKept == Spec => []WaitsForOne
<1>1. IInv => WaitsForOne
  BY ChildrenCounted
<1> QED BY <1>1, Invariance, PTL

-----------------------------------------------------------------------------
(* The results are the commands' own. *)

(* The number of commands. *)
LEMMA Counted ==
    ASSUME NEW c \in Seq(Command)
    PROVE  /\ c = <<>> => Len(c) # 1 /\ ~(Len(c) > 1)
           /\ Len(c) > 1 => Len(c) # 1 /\ 1 # Len(c)
<1>1. Len(<<>>) = 0
  OBVIOUS
<1>2. c = <<>> => Len(c) = 0
  BY <1>1, Zenon
<1>3. PICK n : n = Len(c)
  OBVIOUS
<1>4. n \in Nat
  BY <1>3
<1>5. /\ n = 0 => n # 1 /\ ~(n > 1)
      /\ n > 1 => n # 1 /\ 1 # n
  BY <1>4
<1>6. /\ Len(c) = 0 => Len(c) # 1 /\ ~(Len(c) > 1)
      /\ Len(c) > 1 => Len(c) # 1 /\ 1 # Len(c)
  BY <1>3, <1>5, Zenon
<1> QED BY <1>2, <1>6, Zenon

(* What a command in front of the item leaves open. *)
LEMMA OutcomeCases ==
    ASSUME NEW c \in Seq(Command)
    PROVE  /\ c = <<>> => Outcomes(c) = {"error"}
           /\ c # <<>> => /\ c[1] \in Command /\ Len(c) \in Nat \ {0}
                          /\ c[1].kind = "exit" => Outcomes(c) = {"ok"}
                          /\ c[1].kind = "program" /\ c[1].redirect = "no" =>
                                Outcomes(c) = {Status(c[1].result)}
                          /\ c[1].kind = "builtin" /\ c[1].redirect = "no" =>
                                Outcomes(c) = IF Len(c) = 1 THEN {c[1].result} ELSE {"ok", "fail"}
                          /\ c[1].kind # "exit" /\ c[1].redirect # "no" =>
                                Outcomes(c) = IF Len(c) = 1 THEN {"fail"} ELSE {"ok", "fail"}
           /\ Outcomes(c) \subseteq Results
           /\ "error" \in Outcomes(c) => Outcomes(c) = {"error"}
<1>1. CASE c = <<>>
  <2>1. Outcomes(c) = {"error"}
    BY <1>1 DEF Outcomes
  <2> QED BY <2>1, <1>1 DEF Results
<1>2. CASE c # <<>>
  <2>1. Len(c) \in Nat \ {0} /\ c[1] \in Command
    BY <1>2
  <2>2. /\ c[1].kind \in {"builtin", "program", "exit"} /\ c[1].result \in Results
        /\ Status(c[1].result) \in {"ok", "fail"}
    BY <2>1 DEF Command, Status
  <2>3. CASE c[1].kind = "exit"
    <3>1. Outcomes(c) = {"ok"}
      BY <1>2, <2>3 DEF Outcomes
    <3> QED BY <3>1, <2>1, <2>3, <1>2 DEF Results
  <2>4. CASE c[1].kind = "program" /\ c[1].redirect = "no"
    <3>1. Outcomes(c) = {Status(c[1].result)}
      BY <1>2, <2>4 DEF Outcomes
    <3> QED BY <3>1, <2>1, <2>2, <2>4, <1>2 DEF Results
  <2>5. CASE c[1].kind = "builtin" /\ c[1].redirect = "no"
    <3>1. Outcomes(c) = IF Len(c) = 1 THEN {c[1].result} ELSE {"ok", "fail"}
      BY <1>2, <2>1, <2>5 DEF Outcomes
    <3> QED BY <3>1, <2>1, <2>2, <2>5, <1>2 DEF Results
  <2>6. CASE c[1].kind # "exit" /\ c[1].redirect # "no"
    <3>1. Outcomes(c) = IF Len(c) = 1 THEN {"fail"} ELSE {"ok", "fail"}
      BY <1>2, <2>1, <2>2, <2>6 DEF Outcomes
    <3> QED BY <3>1, <2>1, <2>6, <1>2 DEF Results
  <2> QED BY <2>2, <2>3, <2>4, <2>5, <2>6
<1> QED BY <1>1, <1>2

(* A step that leaves the line and the shell alone. *)
LEMMA QuietCarried ==
    ASSUME Carried, UNCHANGED <<line, at, ran>>,
           proc'[Shell].role = "shell" => proc'[Shell] = proc[Shell],
           proc[Shell].role = "shell" /\ proc[Shell].pc \in {"wait program", "wait pipeline"} =>
               \A q \in Pid : proc'[q].parent = Shell => Reports(proc'[q], Here)
    PROVE  Carried'
<1>1. Here' = Here
  BY DEF Here
<1>2. \A x \in DOMAIN ran' : ran'[x] \in Outcomes(line'[x[1]][x[2]].commands)
  BY DEF Carried
<1>3. ASSUME proc'[Shell].role = "shell" PROVE Runs(proc[Shell])'
  <2>1. proc'[Shell] = proc[Shell] /\ proc[Shell].role = "shell" /\ Runs(proc[Shell])
    BY <1>3 DEF Carried
  <2>2. /\ proc'[Shell].pc \in {"command", "wait redirected", "wait program"} =>
             proc'[Shell].commands = Here' /\ proc'[Shell].stage = 1 /\ Len(Here') = 1
        /\ proc'[Shell].pc = "wait redirected" => "fail" \in Outcomes(Here')
    BY <2>1, <1>1 DEF Runs
  <2>3. proc'[Shell].pc \in {"wait program", "wait pipeline"} =>
             \A q \in Pid : proc'[q].parent = Shell => Reports(proc'[q], Here')
    BY <2>1, <1>1
  <2> QED BY <2>2, <2>3 DEF Runs
<1> QED BY <1>2, <1>3 DEF Carried

(* The shell is done with an item. *)
LEMMA ItemCarried ==
    ASSUME Carried, NEW ps \in [Pid -> ProcRec], NEW result, result \in Outcomes(Here),
           ItemDone(ps, result)
    PROVE  Carried'
<1>1. \A x \in DOMAIN ran' : ran'[x] \in Outcomes(line'[x[1]][x[2]].commands)
  BY DEF ItemDone, Carried, Here
<1>2. PICK point \in {"prompt", "item"} :
         proc' = [ps EXCEPT ![Shell] = [Gone EXCEPT !.pc = point, !.role = "shell"]]
  BY DEF ItemDone
<1>3. proc'[Shell].pc = point
  BY <1>2, Marks DEF Gone
<1>4. Runs(proc[Shell])'
  BY <1>3 DEF Runs
<1> QED BY <1>1, <1>4 DEF Carried

(* A process that is not the shell: what it becomes, and what the others do. *)
LEMMA StepCarried ==
    ASSUME IInv, Carried, UNCHANGED <<line, at, ran>>, NEW p \in Pid,
           proc[p].role # "shell", proc'[p].role # "shell",
           \A r \in Pid \ {p} :
               \/ proc'[r] = proc[r]
               \/ proc'[r].parent # Shell /\ (r = Shell => proc'[r].role # "shell")
               \/ r # Shell /\ proc'[r].parent = p,
           proc[p].parent = Shell /\ proc[Shell].role = "shell"
               /\ proc[Shell].pc \in {"wait program", "wait pipeline"} => Reports(proc'[p], Here),
           proc'[p].parent = Shell => proc[p].parent = Shell
    PROVE  Carried'
<1>1. proc'[Shell].role = "shell" => proc'[Shell] = proc[Shell]
  BY Marks
<1>2. ASSUME proc[Shell].role = "shell", proc[Shell].pc \in {"wait program", "wait pipeline"},
             NEW q \in Pid, proc'[q].parent = Shell
      PROVE  Reports(proc'[q], Here)
  <2>1. p # Shell
    BY <1>2
  <2>2. CASE q = p
    BY <1>2, <2>2
  <2>3. CASE q # p
    <3>1. proc'[q] = proc[q]
      BY <1>2, <2>1, <2>3
    <3> QED BY <3>1, <1>2 DEF Carried, Runs
  <2> QED BY <2>2, <2>3
<1> QED BY <1>1, <1>2, QuietCarried

(* exit, as the other processes see it. *)
LEMMA ExitCarried ==
    ASSUME IInv, Carried, UNCHANGED <<line, at, ran>>, NEW ps \in [Pid -> ProcRec], NEW p \in Pid,
           proc[p].role # "shell", ps[p] = proc[p], ps[Shell].parent # Shell,
           \A r \in Pid \ {p} : ps[r] = proc[r] \/ (ps[r] = Gone /\ proc[r].parent = p),
           NEW status, proc' = Exited(ps, p, status),
           proc[p].parent = Shell /\ proc[Shell].role = "shell"
               /\ proc[Shell].pc \in {"wait program", "wait pipeline"} => status \in Outcomes(Here)
    PROVE  Carried'
<1>1. PICK e : e = Exited(ps, p, status)
  OBVIOUS
<1>2. /\ proc' = e
      /\ ps[p].parent = None => e[p] = Gone
      /\ ps[p].parent # None =>
            e[p] = [Gone EXCEPT !.pc = "zombie", !.role = ps[p].role, !.parent = ps[p].parent,
                                !.status = status]
  BY <1>1 DEF Exited
<1>3. /\ ps[p].parent # None => /\ e[p].pc = "zombie" /\ e[p].role = ps[p].role
                                /\ e[p].parent = ps[p].parent /\ e[p].status = status
      /\ Gone.role # "shell" /\ Gone.parent = None /\ None # Shell
  <2>1. Gone.role # "shell" /\ Gone.parent = None /\ None # Shell
    <3>1. Gone.role # "shell"
      BY DEF Gone
    <3> QED BY <3>1, Marks
  <2>2. PICK z : z = [Gone EXCEPT !.pc = "zombie", !.role = ps[p].role, !.parent = ps[p].parent,
                                  !.status = status]
    OBVIOUS
  <2>3. z.pc = "zombie" /\ z.role = ps[p].role /\ z.parent = ps[p].parent /\ z.status = status
    BY <2>2 DEF Gone
  <2> QED BY <2>1, <2>2, <2>3, <1>2
<1>4. e[p].role # "shell" /\ (e[p].parent = Shell => proc[p].parent = Shell)
  <2>1. CASE ps[p].parent = None
    BY <2>1, <1>2, <1>3
  <2>2. CASE ps[p].parent # None
    BY <2>2, <1>3
  <2> QED BY <2>1, <2>2
<1>5. ASSUME NEW r \in Pid \ {p}
      PROVE  \/ e[r] = proc[r]
             \/ e[r].parent # Shell /\ (r = Shell => e[r].role # "shell")
  <2>1. /\ ps[r].parent # p => e[r] = ps[r]
        /\ ps[r].parent = p => e[r] = Gone \/ e[r] = [ps[r] EXCEPT !.parent = None]
    BY <1>1 DEF Exited
  <2>2. [ps[r] EXCEPT !.parent = None].parent = None /\ [ps[r] EXCEPT !.parent = None].role = ps[r].role
    <3>1. ps[r] \in ProcRec
      OBVIOUS
    <3>2. \A z \in ProcRec : [z EXCEPT !.parent = None].parent = None /\ [z EXCEPT !.parent = None].role = z.role
      BY DEF ProcRec
    <3> QED BY <3>1, <3>2
  <2>3. CASE ps[r] = proc[r]
    <3>1. CASE ps[r].parent # p
      BY <3>1, <2>1, <2>3
    <3>2. CASE ps[r].parent = p
      <4>1. e[r].parent = None
        BY <3>2, <2>1, <2>2, <1>3
      <4>2. r = Shell => ps[r].role # "shell"
        <5>1. RecOK(r, proc[r]) /\ p # None
          BY Marks DEF IInv, Sound, Records
        <5>2. proc[r].role = "shell" => proc[r].parent = None
          BY <5>1 DEF RecOK
        <5> QED BY <5>1, <5>2, <3>2, <2>3
      <4>3. r = Shell => e[r].role # "shell"
        BY <4>2, <3>2, <2>1, <2>2, <1>3
      <4> QED BY <4>1, <4>3, <1>3
    <3> QED BY <3>1, <3>2
  <2>4. CASE ps[r] = Gone
    <3>1. e[r] = Gone
      BY <2>4, <2>1, <1>3, Marks
    <3> QED BY <3>1, <1>3
  <2> QED BY <2>3, <2>4
<1>6. proc[p].parent = Shell /\ proc[Shell].role = "shell"
         /\ proc[Shell].pc \in {"wait program", "wait pipeline"} => Reports(e[p], Here)
  BY <1>3 DEF Reports
<1>7. /\ proc'[p].role # "shell" /\ (proc'[p].parent = Shell => proc[p].parent = Shell)
      /\ \A r \in Pid \ {p} :
            \/ proc'[r] = proc[r]
            \/ proc'[r].parent # Shell /\ (r = Shell => proc'[r].role # "shell")
      /\ proc[p].parent = Shell /\ proc[Shell].role = "shell"
            /\ proc[Shell].pc \in {"wait program", "wait pipeline"} => Reports(proc'[p], Here)
  BY <1>2, <1>4, <1>5, <1>6
<1> QED BY <1>7, StepCarried

(* The item the shell is at. *)
LEMMA HereType ==
    ASSUME IInv, proc[Shell].role = "shell", ~At(Shell, "prompt")
    PROVE  Here \in Seq(Command)
<1>1. at[1] \in Nat /\ Len(line) \in Nat /\ TypeOK
  BY LineType DEF IInv, TypeOK
<1>2. at[1] <= Len(line)
  BY <1>1 DEF IInv, ShellAt
<1>3. at[1] \in DOMAIN line /\ at[2] \in DOMAIN line[at[1]]
  BY <1>1, <1>2, PlaceType
<1> QED BY <1>1, <1>3, LineType DEF Here

(* Where the child whose status the shell waits for is, if it is p. *)
LEMMA ChildReports ==
    ASSUME IInv, Carried, NEW p \in Pid, proc[p].parent = Shell, proc[Shell].role = "shell",
           proc[Shell].pc \in {"wait program", "wait pipeline"}
    PROVE  /\ Reports(proc[p], Here) /\ Here \in Seq(Command)
           /\ proc[p].pc # "zombie" => Here # <<>> /\ proc[p].commands = Here /\ proc[p].stage = 1
<1>1. Reports(proc[p], Here)
  <2>1. Runs(proc[Shell])
    BY DEF Carried
  <2> QED BY <2>1 DEF Runs
<1>2. ~At(Shell, "prompt")
  BY DEF At
<1>3. Here \in Seq(Command)
  BY <1>2, HereType
<1>4. Here = <<>> => ~(Len(Here) > 1)
  BY <1>3, Counted, Zenon
<1>5. proc[p].pc # "zombie" => proc[p].commands = Here /\ proc[p].stage = 1
  BY <1>1 DEF Reports
<1>6. proc[p].pc # "zombie" => Here # <<>>
  BY <1>1, <1>4 DEF Reports
<1> QED BY <1>1, <1>3, <1>5, <1>6

(* Every step keeps the results. *)

(* parse_pipeline starts an item. *)
LEMMA PipelineCarried ==
    ASSUME IInv, Carried, parse_pipeline
    PROVE  Carried'
<1>1. At(Shell, "item") /\ proc \in [Pid -> ProcRec] /\ Shell \in Pid /\ NoChild(proc, Shell)
  <2>1. HasNone(proc[Shell]) /\ At(Shell, "item")
    BY DEF parse_pipeline, At, HasNone
  <2> QED BY <2>1, Marks DEF IInv, TypeOK, Sound, Kids
<1>2. proc[Shell].role = "shell" /\ ~At(Shell, "prompt")
  BY <1>1 DEF IInv, Sound, Records, RecOK, At
<1>3. Here \in Seq(Command)
  BY <1>2, HereType
<1>4. CASE Len(Here) = 0 /\ ItemDone(proc, "error")
  <2>0. Here = <<>>
    BY <1>3, <1>4
  <2>1. "error" \in Outcomes(Here)
    BY <2>0, <1>3, <1>4, OutcomeCases
  <2> QED BY <2>1, <1>1, <1>4, ItemCarried
<1>5. CASE /\ Len(Here) = 1 /\ UNCHANGED <<line, at, typed, ran>>
           /\ proc' = [proc EXCEPT ![Shell].pc = "command", ![Shell].commands = Here,
                                   ![Shell].stage = 1]
  <2>1. proc[Shell] \in ProcRec
    BY <1>1
  <2>2. PICK x : x = [proc[Shell] EXCEPT !.pc = "command", !.commands = Here, !.stage = 1]
    OBVIOUS
  <2>3. x.pc = "command" /\ x.commands = Here /\ x.stage = 1
    BY <2>1, <2>2 DEF ProcRec
  <2>4. proc' = [proc EXCEPT ![Shell] = x]
    BY <1>1, <1>5, <2>2
  <2>5. proc'[Shell] = x /\ Here' = Here
    BY <2>4, <1>1, <1>5 DEF Here
  <2>6. Runs(proc[Shell])'
    BY <2>3, <2>5, <1>5 DEF Runs
  <2> QED BY <2>6, <1>5 DEF Carried
<1>6. CASE /\ Len(Here) > 1 /\ UNCHANGED <<line, at, typed, ran>>
           /\ Forked(Shell, "wait pipeline", [Gone EXCEPT !.pc = "stage", !.role = "stage",
                                                          !.commands = Here, !.stage = 1])
  <2>1. PICK y : y = [[Gone EXCEPT !.pc = "stage", !.role = "stage", !.commands = Here,
                                   !.stage = 1] EXCEPT !.parent = Shell]
    OBVIOUS
  <2>2. /\ y.pc = "stage" /\ y.role = "stage" /\ y.commands = Here /\ y.stage = 1
        /\ y.parent = Shell
    BY <2>1 DEF Gone
  <2>3. PICK q \in Pid : q = NewPid /\ proc[q] = Gone
    BY <1>6, NewPidFree DEF Forked
  <2>4. q # Shell
    BY <2>3, <1>1 DEF At, Gone
  <2>5. proc' = [proc EXCEPT ![Shell].pc = "wait pipeline", ![q] = y]
    BY <1>6, <2>1, <2>3 DEF Forked
  <2>6. proc'[Shell].pc = "wait pipeline" /\ proc'[q] = y /\ \A r \in Pid \ {Shell, q} : proc'[r] = proc[r]
    BY <2>4, <2>5, <1>1 DEF ProcRec
  <2>7. proc'[Shell].parent = proc[Shell].parent
    BY <2>4, <2>5, <1>1 DEF ProcRec
  <2>8. \A r \in Pid : proc'[r].parent = Shell => r = q
    BY <2>6, <2>7, <1>1 DEF NoChild
  <2>9. Reports(y, Here) /\ Here' = Here
    BY <2>2, <1>6 DEF Reports, Here
  <2>10. Runs(proc[Shell])'
    BY <2>6, <2>8, <2>9 DEF Runs
  <2> QED BY <2>10, <1>6 DEF Carried
<1> QED BY <1>4, <1>5, <1>6 DEF parse_pipeline, Here

(* p goes from the set-up of a stage to its command, and may fork the next. *)
LEMMA StartsCarried ==
    ASSUME IInv, Carried, UNCHANGED <<line, at, ran>>, NEW p \in Pid,
           proc[p].pc = "stage", proc[p].role = "stage",
           NEW x, x.pc = "command", x.role = "stage", x.parent = proc[p].parent,
           x.commands = proc[p].commands, x.stage = proc[p].stage, proc'[p] = x,
           \A r \in Pid \ {p} :
               proc'[r] = proc[r] \/ (proc'[r].parent = p /\ proc'[r].role = "stage")
    PROVE  Carried'
<1>1. ASSUME proc[p].parent = Shell, proc[Shell].role = "shell",
             proc[Shell].pc \in {"wait program", "wait pipeline"}
      PROVE  Reports(proc'[p], Here)
  <2>1. Reports(proc[p], Here)
    BY <1>1, ChildReports
  <2> QED BY <2>1 DEF Reports
<1>2. \A r \in Pid \ {p} :
          \/ proc'[r] = proc[r]
          \/ proc'[r].parent # Shell /\ (r = Shell => proc'[r].role # "shell")
          \/ r # Shell /\ proc'[r].parent = p
  <2> TAKE r \in Pid \ {p}
  <2>1. CASE proc'[r].parent = p /\ proc'[r].role = "stage"
    BY <2>1
  <2> QED BY <2>1
<1> QED BY <1>1, <1>2, StepCarried

(* A stage of a pipeline starts its command, and before it the next stage. *)
LEMMA StageCarried ==
    ASSUME IInv, Carried, NEW p \in Pid, execute_stage(p)
    PROVE  Carried'
<1>1. /\ proc[p].pc = "stage" /\ UNCHANGED <<line, at, typed, ran>>
      /\ proc \in [Pid -> ProcRec] /\ proc[p] \in ProcRec
  BY DEF execute_stage, At, IInv, TypeOK
<1>2. proc[p].role = "stage"
  BY <1>1 DEF IInv, Sound, Records, RecOK
<1>3. CASE Last(p) /\ proc' = [proc EXCEPT ![p].pc = "command"]
  <2>1. PICK x : x = [proc[p] EXCEPT !.pc = "command"]
    OBVIOUS
  <2>2. /\ x.pc = "command" /\ x.role = "stage" /\ x.parent = proc[p].parent
        /\ x.commands = proc[p].commands /\ x.stage = proc[p].stage
    BY <2>1, <1>1, <1>2 DEF ProcRec
  <2>3. proc' = [proc EXCEPT ![p] = x]
    BY <1>1, <1>3, <2>1
  <2>4. proc'[p] = x /\ \A r \in Pid \ {p} : proc'[r] = proc[r]
    BY <2>3, <1>1
  <2> QED BY <2>2, <2>4, <1>1, <1>2, StartsCarried
<1>4. CASE /\ ~Last(p) /\ Free # {}
           /\ proc' = [proc EXCEPT ![p].pc = "command", ![p].no_fork = TRUE, ![p].writes = NewPid,
                                   ![NewPid] = [proc[p] EXCEPT !.pc = "set up", !.stage = @ + 1,
                                                               !.parent = p, !.writes = NewPid]]
  <2>1. PICK q \in Pid : q = NewPid /\ proc[q] = Gone
    BY <1>4, NewPidFree
  <2>2. q # p
    BY <2>1, <1>1 DEF Gone
  <2>3. PICK x : x = [proc[p] EXCEPT !.pc = "command", !.no_fork = TRUE, !.writes = q]
    OBVIOUS
  <2>4. /\ x.pc = "command" /\ x.role = "stage" /\ x.parent = proc[p].parent
        /\ x.commands = proc[p].commands /\ x.stage = proc[p].stage
    BY <2>3, <1>1, <1>2 DEF ProcRec
  <2>5. PICK y : y = [proc[p] EXCEPT !.pc = "set up", !.stage = @ + 1, !.parent = p, !.writes = q]
    OBVIOUS
  <2>6. y.parent = p /\ y.role = "stage"
    BY <2>5, <1>1, <1>2 DEF ProcRec
  <2>7. proc' = [proc EXCEPT ![p] = x, ![q] = y]
    BY <1>1, <1>4, <2>1, <2>2, <2>3, <2>5
  <2>8. proc'[p] = x /\ proc'[q] = y /\ \A r \in Pid \ {p, q} : proc'[r] = proc[r]
    BY <2>2, <2>7, <1>1
  <2> QED BY <2>4, <2>6, <2>8, <1>1, <1>2, StartsCarried
<1> QED BY <1>3, <1>4 DEF execute_stage

(* The next stage takes its standard input: it is no child of the shell. *)
LEMMA SetUpCarried ==
    ASSUME IInv, Carried, NEW p \in Pid, set_up(p)
    PROVE  Carried'
<1>1. /\ proc[p].pc = "set up" /\ UNCHANGED <<line, at, typed, ran>>
      /\ proc' = [proc EXCEPT ![p].pc = "stage", ![p].reads = p, ![p].writes = ClosesEnd(p)]
      /\ proc \in [Pid -> ProcRec] /\ proc[p] \in ProcRec
  BY DEF set_up, At, IInv, TypeOK
<1>2. proc[p].role = "stage"
  BY <1>1 DEF IInv, Sound, Records, RecOK
<1>3. PICK x : x = [proc[p] EXCEPT !.pc = "stage", !.reads = p, !.writes = ClosesEnd(p)]
  OBVIOUS
<1>4. x.role = "stage" /\ x.parent = proc[p].parent
  BY <1>3, <1>1, <1>2 DEF ProcRec
<1>5. proc' = [proc EXCEPT ![p] = x]
  BY <1>1, <1>3
<1>6. proc'[p] = x /\ \A r \in Pid \ {p} : proc'[r] = proc[r]
  BY <1>5, <1>1
<1>7. ASSUME proc[p].parent = Shell, proc[Shell].role = "shell",
             proc[Shell].pc \in {"wait program", "wait pipeline"}
      PROVE  FALSE
  <2>1. Reports(proc[p], Here)
    BY <1>7, ChildReports
  <2> QED BY <2>1, <1>1 DEF Reports
<1> QED BY <1>1, <1>2, <1>4, <1>6, <1>7, StepCarried

(* A command has returned to the process that ran it. *)
LEMMA ReturnedCarried ==
    ASSUME IInv, Carried, NEW p \in Pid, NEW ps \in [Pid -> ProcRec],
           ps[p] = proc[p], ps[Shell].parent # Shell,
           proc[p].pc \in {"command", "wait program", "wait redirected"},
           \A r \in Pid \ {p} : ps[r] = proc[r] \/ (ps[r] = Gone /\ proc[r].parent = p),
           NEW result, Returned(ps, p, result),
           proc[p].role = "shell" => result \in Outcomes(Here),
           proc[p].role = "stage" /\ proc[p].parent = Shell /\ proc[Shell].role = "shell"
               /\ proc[Shell].pc \in {"wait program", "wait pipeline"} => Open(Here)
    PROVE  Carried'
<1>1. CASE ps[p].role = "shell" /\ ItemDone(ps, result)
  BY <1>1, ItemCarried
<1>2. ASSUME proc[p].parent = Shell, proc[Shell].role = "shell",
             proc[Shell].pc \in {"wait program", "wait pipeline"}
      PROVE  /\ proc[p].role = "stage" /\ ~Last(p) /\ proc[p].commands = Here
             /\ proc[p].stage = 1 /\ Len(Here) > 1
  <2>1. Reports(proc[p], Here)
    BY <1>2, ChildReports
  <2>2. /\ proc[p].role = "stage" /\ proc[p].commands = Here
        /\ proc[p].stage = 1 /\ Len(Here) > 1
    BY <2>1 DEF Reports
  <2>3. Here \in Seq(Command)
    BY <1>2, ChildReports
  <2>4. ~Last(p)
    BY <2>2, <2>3, Counted, Zenon DEF Last
  <2> QED BY <2>2, <2>4
<1>3. CASE /\ ps[p].role = "stage" /\ Last(p) /\ proc' = Exited(ps, p, "fail")
           /\ UNCHANGED <<line, at, typed, ran>>
  <2>1. ~(proc[p].parent = Shell /\ proc[Shell].role = "shell"
           /\ proc[Shell].pc \in {"wait program", "wait pipeline"})
    BY <1>2, <1>3
  <2>2. proc[p].role # "shell"
    BY <1>3
  <2> QED BY <1>3, <2>1, <2>2, ExitCarried
<1>4. CASE /\ ps[p].role = "stage" /\ ~Last(p) /\ proc' = [ps EXCEPT ![p].pc = "wait stage"]
           /\ UNCHANGED <<line, at, typed, ran>>
  <2>1. PICK x : x = [ps[p] EXCEPT !.pc = "wait stage"]
    OBVIOUS
  <2>2. /\ x.pc = "wait stage" /\ x.role = "stage" /\ x.parent = proc[p].parent
        /\ x.commands = proc[p].commands /\ x.stage = proc[p].stage
    BY <2>1, <1>4 DEF ProcRec
  <2>3. proc' = [ps EXCEPT ![p] = x]
    BY <1>4, <2>1
  <2>4. proc'[p] = x /\ \A r \in Pid \ {p} : proc'[r] = ps[r]
    BY <2>3
  <2>5. Gone.role # "shell"
    BY DEF Gone
  <2>6. Gone.parent # Shell
    BY Marks
  <2>7. \A r \in Pid \ {p} :
            \/ proc'[r] = proc[r]
            \/ proc'[r].parent # Shell /\ (r = Shell => proc'[r].role # "shell")
    BY <2>4, <2>5, <2>6
  <2>8. ASSUME proc[p].parent = Shell, proc[Shell].role = "shell",
               proc[Shell].pc \in {"wait program", "wait pipeline"}
        PROVE  Reports(proc'[p], Here)
    <3>1. Open(Here)
      BY <2>8, <1>4
    <3> QED BY <2>8, <3>1, <1>2, <2>2, <2>4 DEF Reports
  <2>9. proc[p].role # "shell" /\ proc'[p].role # "shell" /\ proc'[p].parent = proc[p].parent
    BY <1>4, <2>2, <2>4
  <2> QED BY <1>4, <2>7, <2>8, <2>9, StepCarried
<1>5. CASE /\ ps[p].role = "redirected" /\ proc' = Exited(ps, p, Status(result))
           /\ UNCHANGED <<line, at, typed, ran>>
  <2>1. ~(proc[p].parent = Shell /\ proc[Shell].role = "shell"
           /\ proc[Shell].pc \in {"wait program", "wait pipeline"})
    BY <1>2, <1>5
  <2>2. proc[p].role # "shell"
    BY <1>5
  <2>3. PICK status : status = Status(result)
    OBVIOUS
  <2> QED BY <1>5, <2>1, <2>2, <2>3, ExitCarried
<1> QED BY <1>1, <1>3, <1>4, <1>5 DEF Returned

(* What a process at its command is about to run, when the shell is to     *)
(* learn how it ends.                                                      *)
LEMMA CommandHere ==
    ASSUME IInv, Carried, NEW p \in Pid, proc[p].pc = "command"
    PROVE  /\ proc[p].role = "shell" =>
                 /\ p = Shell /\ CommandOf(p) = Here[1] /\ Here \in Seq(Command) /\ Len(Here) = 1
                 /\ Here # <<>> /\ proc[p].commands = Here /\ proc[p].stage = 1 /\ ~proc[p].no_fork
           /\ proc[p].parent = Shell /\ proc[Shell].role = "shell"
                 /\ proc[Shell].pc \in {"wait program", "wait pipeline"} =>
                 /\ CommandOf(p) = Here[1] /\ Here \in Seq(Command) /\ Len(Here) > 1 /\ Here # <<>>
                 /\ proc[p].role = "stage" /\ proc[p].no_fork
                 /\ proc[p].commands = Here /\ proc[p].stage = 1
           /\ proc[p].role \in {"shell", "stage"} => ~proc[p].redirected
           /\ proc[p] \in ProcRec /\ proc \in [Pid -> ProcRec] /\ proc[Shell].parent # Shell
<1>1. /\ RecOK(p, proc[p]) /\ proc[p] \in ProcRec /\ proc \in [Pid -> ProcRec]
      /\ RecOK(Shell, proc[Shell])
  BY Marks DEF IInv, Sound, Records
<1>2. ASSUME proc[p].role = "shell"
      PROVE  /\ p = Shell /\ CommandOf(p) = Here[1] /\ Here \in Seq(Command) /\ Len(Here) = 1
             /\ Here # <<>> /\ proc[p].commands = Here /\ proc[p].stage = 1 /\ ~proc[p].no_fork
  <2>1. p = Shell /\ ~proc[p].no_fork
    BY <1>1, <1>2 DEF RecOK
  <2>2. Runs(proc[Shell])
    BY <1>2, <2>1 DEF Carried
  <2>3. proc[p].commands = Here /\ proc[p].stage = 1 /\ Len(Here) = 1
    BY <2>1, <2>2 DEF Runs
  <2>4. Here \in Seq(Command)
    BY <2>1, <1>2, HereType DEF At
  <2>5. Here # <<>>
    BY <2>3, <2>4, Counted, Zenon
  <2> QED BY <2>1, <2>3, <2>4, <2>5 DEF CommandOf
<1>3. ASSUME proc[p].parent = Shell, proc[Shell].role = "shell",
             proc[Shell].pc \in {"wait program", "wait pipeline"}
      PROVE  /\ CommandOf(p) = Here[1] /\ Here \in Seq(Command) /\ Len(Here) > 1 /\ Here # <<>>
             /\ proc[p].role = "stage" /\ proc[p].no_fork
             /\ proc[p].commands = Here /\ proc[p].stage = 1
  <2>1. /\ Reports(proc[p], Here) /\ Here \in Seq(Command) /\ Here # <<>>
        /\ proc[p].commands = Here /\ proc[p].stage = 1
    BY <1>3, ChildReports
  <2>2. proc[p].role = "stage" /\ Len(Here) > 1
    BY <2>1 DEF Reports
  <2>3. Between(proc[p])
    BY <2>1, <2>2 DEF Between
  <2>4. proc[p].no_fork
    BY <1>1, <2>2, <2>3 DEF RecOK
  <2> QED BY <2>1, <2>2, <2>4 DEF CommandOf
<1>4. proc[p].role \in {"shell", "stage"} => ~proc[p].redirected
  BY <1>1 DEF RecOK
<1> QED BY <1>1, <1>2, <1>3, <1>4 DEF RecOK

(* A builtin returns. *)
LEMMA BuiltinCarried ==
    ASSUME IInv, Carried, NEW p \in Pid, builtin(p)
    PROVE  Carried'
<1>1. /\ proc[p].pc = "command" /\ CommandOf(p).kind = "builtin"
      /\ CommandOf(p).redirect = "no" \/ proc[p].redirected
      /\ Returned(proc, p, CommandOf(p).result)
  BY DEF builtin, At, Redirects
<1>2. proc[p].role = "shell" => CommandOf(p).result \in Outcomes(Here)
  <2> HAVE proc[p].role = "shell"
  <2>1. /\ CommandOf(p) = Here[1] /\ Here \in Seq(Command) /\ Len(Here) = 1 /\ Here # <<>>
        /\ ~proc[p].redirected
    BY <1>1, CommandHere
  <2> QED BY <2>1, <1>1, OutcomeCases
<1>3. ASSUME proc[p].parent = Shell, proc[Shell].role = "shell",
             proc[Shell].pc \in {"wait program", "wait pipeline"}
      PROVE  Open(Here)
  <2>1. /\ CommandOf(p) = Here[1] /\ Here \in Seq(Command) /\ Len(Here) > 1 /\ Here # <<>>
        /\ ~proc[p].redirected
    BY <1>1, <1>3, CommandHere
  <2>2. Len(Here) # 1
    BY <2>1, Counted, Zenon
  <2> QED BY <2>1, <2>2, <1>1, OutcomeCases DEF Open
<1>4. proc \in [Pid -> ProcRec] /\ proc[Shell].parent # Shell
  BY <1>1, CommandHere
<1> QED BY <1>1, <1>2, <1>3, <1>4, ReturnedCarried

(* exit: the status of a first stage is 0, and a shell is gone. *)
LEMMA ExitCommandCarried ==
    ASSUME IInv, Carried, NEW p \in Pid, exit(p)
    PROVE  Carried'
<1>1. /\ proc[p].pc = "command" /\ CommandOf(p).kind = "exit"
      /\ proc' = Exited(proc, p, "ok") /\ UNCHANGED <<line, at, typed, ran>>
  BY DEF exit, At
<1>2. proc \in [Pid -> ProcRec] /\ proc[Shell].parent # Shell
  BY <1>1, CommandHere
<1>3. ASSUME proc[p].parent = Shell, proc[Shell].role = "shell",
             proc[Shell].pc \in {"wait program", "wait pipeline"}
      PROVE  "ok" \in Outcomes(Here)
  <2>1. CommandOf(p) = Here[1] /\ Here \in Seq(Command) /\ Here # <<>>
    BY <1>1, <1>3, CommandHere
  <2> QED BY <2>1, <1>1, OutcomeCases
<1>4. CASE proc[p].role # "shell"
  BY <1>1, <1>2, <1>3, <1>4, ExitCarried
<1>5. CASE proc[p].role = "shell"
  <2>1. p = Shell /\ proc[p].parent = None
    BY <1>5, Marks DEF IInv, Sound, Records, RecOK
  <2>2. proc'[Shell] = Gone
    BY <2>1, <1>1, Marks DEF Exited
  <2>3. proc'[Shell].role # "shell"
    BY <2>2 DEF Gone
  <2> QED BY <2>3, <1>1 DEF Carried
<1> QED BY <1>4, <1>5

(* A program ends: it was the item's command or the first stage, if the    *)
(* shell waits for it.                                                     *)
LEMMA ProgramEndsCarried ==
    ASSUME IInv, Carried, NEW p \in Pid, program_ends(p)
    PROVE  Carried'
<1>1. /\ proc[p].pc = "run" /\ UNCHANGED <<line, at, typed, ran>>
      /\ proc' = Exited(proc, p, Status(CommandOf(p).result))
  BY DEF program_ends, At
<1>2. /\ proc \in [Pid -> ProcRec] /\ proc[Shell].parent # Shell /\ proc[p].role = "program"
  BY <1>1, Marks DEF IInv, Sound, Records, RecOK
<1>3. ASSUME proc[p].parent = Shell, proc[Shell].role = "shell",
             proc[Shell].pc \in {"wait program", "wait pipeline"}
      PROVE  Status(CommandOf(p).result) \in Outcomes(Here)
  <2>1. Reports(proc[p], Here) /\ Here \in Seq(Command)
    BY <1>3, ChildReports
  <2>2. /\ proc[p].commands = Here /\ proc[p].stage = 1
        /\ Here # <<>> /\ Here[1].kind = "program" /\ Here[1].redirect = "no"
    BY <2>1, <1>1, <1>2 DEF Reports
  <2>3. CommandOf(p) = Here[1]
    BY <2>2 DEF CommandOf
  <2> QED BY <2>1, <2>2, <2>3, OutcomeCases
<1>4. proc[p].role # "shell"
  BY <1>2
<1>5. PICK status : status = Status(CommandOf(p).result)
  OBVIOUS
<1> QED BY <1>1, <1>2, <1>3, <1>4, <1>5, ExitCarried

(* p forks a child of its own kind and goes on. *)
LEMMA ForkCarried ==
    ASSUME IInv, Carried, UNCHANGED <<line, at, ran>>, NEW p \in Pid, Free # {},
           proc[p].pc = "command",
           NEW x, x.role = proc[p].role, x.parent = proc[p].parent, x.stage = proc[p].stage,
           x.commands = proc[p].commands,
           NEW y, y.parent = p, y.role # "shell",
           NEW e, e = [proc EXCEPT ![p] = x, ![NewPid] = y], proc' = e,
           proc[p].role = "shell" =>
               \/ x.pc = "wait redirected" /\ "fail" \in Outcomes(Here)
               \/ x.pc = "wait program" /\ Reports(y, Here),
           proc[p].parent = Shell /\ proc[Shell].role = "shell"
               /\ proc[Shell].pc \in {"wait program", "wait pipeline"} =>
               x.pc = "wait redirected" /\ Open(Here)
    PROVE  Carried'
<1>1. PICK q \in Pid : q = NewPid /\ proc[q] = Gone
  BY NewPidFree
<1>2. q # p /\ proc \in [Pid -> ProcRec]
  <2>1. q # p
    BY <1>1, Marks
  <2> QED BY <2>1 DEF IInv, TypeOK
<1>3. proc'[p] = x /\ proc'[q] = y /\ \A r \in Pid \ {p, q} : proc'[r] = proc[r]
  BY <1>1, <1>2
<1>4. CASE proc[p].role # "shell"
  <2>1. ASSUME proc[p].parent = Shell, proc[Shell].role = "shell",
               proc[Shell].pc \in {"wait program", "wait pipeline"}
        PROVE  Reports(proc'[p], Here)
    <3>1. /\ proc[p].role = "stage" /\ proc[p].commands = Here /\ proc[p].stage = 1
          /\ Len(Here) > 1
      BY <2>1, CommandHere
    <3>2. x.pc = "wait redirected" /\ Open(Here)
      BY <2>1
    <3> QED BY <3>1, <3>2, <1>3 DEF Reports
  <2>2. \A r \in Pid \ {p} :
            \/ proc'[r] = proc[r]
            \/ proc'[r].parent # Shell /\ (r = Shell => proc'[r].role # "shell")
            \/ r # Shell /\ proc'[r].parent = p
    <3> TAKE r \in Pid \ {p}
    <3>1. CASE r = q
      BY <3>1, <1>3
    <3>2. CASE r # q
      BY <3>2, <1>3
    <3> QED BY <3>1, <3>2
  <2>3. proc'[p].role # "shell" /\ (proc'[p].parent = Shell => proc[p].parent = Shell)
    BY <1>3, <1>4
  <2> QED BY <1>4, <2>1, <2>2, <2>3, StepCarried
<1>5. CASE proc[p].role = "shell"
  <2>1. /\ p = Shell /\ proc[p].commands = Here /\ proc[p].stage = 1 /\ Len(Here) = 1
    BY <1>5, CommandHere
  <2>2. Here' = Here
    BY DEF Here
  <2>3. ASSUME x.pc = "wait program", NEW r \in Pid, proc'[r].parent = Shell
        PROVE  Reports(proc'[r], Here)
    <3>1. CASE r = q
      BY <3>1, <2>3, <1>3, <1>5
    <3>2. CASE r # q
      <4>1. HasNone(proc[p])
        BY <1>5 DEF HasNone, Between
      <4>2. NoChild(proc, p)
        BY <4>1 DEF IInv, Sound, Kids
      <4>3. proc[r].parent = p
        BY <3>2, <2>1, <2>3, <1>3
      <4> QED BY <4>2, <4>3 DEF NoChild
    <3> QED BY <3>1, <3>2
  <2>4. Runs(proc[Shell])'
    <3>1. proc'[Shell] = x /\ x.pc \in {"wait redirected", "wait program"}
      BY <2>1, <1>3, <1>5
    <3>2. x.pc = "wait redirected" => "fail" \in Outcomes(Here)
      BY <1>5
    <3> QED BY <3>1, <3>2, <2>1, <2>2, <2>3 DEF Runs
  <2> QED BY <2>4 DEF Carried
<1> QED BY <1>4, <1>5

(* io_redirect forks a child for the command. *)
LEMMA RedirectCarried ==
    ASSUME IInv, Carried, NEW p \in Pid, io_redirect(p)
    PROVE  Carried'
<1>1. /\ proc[p].pc = "command" /\ CommandOf(p).kind # "exit" /\ CommandOf(p).redirect # "no"
      /\ UNCHANGED <<line, at, typed, ran>> /\ Free # {}
  BY DEF io_redirect, At, Redirects, Forked
<1>2. PICK child : child = [proc[p] EXCEPT !.role = "redirected", !.redirected = TRUE,
                              !.reads = IF CommandOf(p).redirect = "in" THEN None ELSE @,
                              !.writes = IF CommandOf(p).redirect = "out" THEN None ELSE @]
  OBVIOUS
<1>3. proc' = [proc EXCEPT ![p].pc = "wait redirected", ![NewPid] = [child EXCEPT !.parent = p]]
  BY <1>2 DEF io_redirect, Forked
<1>4. proc \in [Pid -> ProcRec] /\ proc[p] \in ProcRec
  BY DEF IInv, TypeOK
<1>5. PICK x : x = [proc[p] EXCEPT !.pc = "wait redirected"]
  OBVIOUS
<1>6. /\ x.role = proc[p].role /\ x.parent = proc[p].parent /\ x.stage = proc[p].stage
      /\ x.commands = proc[p].commands /\ x.pc = "wait redirected"
  BY <1>4, <1>5 DEF ProcRec
<1>7. PICK y : y = [child EXCEPT !.parent = p]
  OBVIOUS
<1>8. y.parent = p /\ y.role # "shell"
  BY <1>2, <1>4, <1>7 DEF ProcRec
<1>9. PICK e : e = [proc EXCEPT ![p] = x, ![NewPid] = y] /\ proc' = e
  BY <1>3, <1>4, <1>5, <1>7
<1>10. proc[p].role = "shell" => "fail" \in Outcomes(Here)
  <2> HAVE proc[p].role = "shell"
  <2>1. CommandOf(p) = Here[1] /\ Here \in Seq(Command) /\ Len(Here) = 1 /\ Here # <<>>
    BY <1>1, CommandHere
  <2> QED BY <2>1, <1>1, OutcomeCases
<1>11. ASSUME proc[p].parent = Shell, proc[Shell].role = "shell",
             proc[Shell].pc \in {"wait program", "wait pipeline"}
      PROVE  Open(Here)
  <2>1. CommandOf(p) = Here[1] /\ Here \in Seq(Command) /\ Len(Here) > 1 /\ Here # <<>>
    BY <1>1, <1>11, CommandHere
  <2>2. Len(Here) # 1
    BY <2>1, Counted, Zenon
  <2> QED BY <2>1, <2>2, <1>1, OutcomeCases DEF Open
<1> QED BY <1>1, <1>6, <1>8, <1>9, <1>10, <1>11, ForkCarried

(* A program is started, by a fork or in place. *)
LEMMA NiceCarried ==
    ASSUME IInv, Carried, NEW p \in Pid, fsh_nice(p)
    PROVE  Carried'
<1>1. /\ proc[p].pc = "command" /\ CommandOf(p).kind = "program"
      /\ CommandOf(p).redirect = "no" \/ proc[p].redirected
      /\ UNCHANGED <<line, at, typed, ran>>
  BY DEF fsh_nice, At, Redirects
<1>2. proc \in [Pid -> ProcRec] /\ proc[p] \in ProcRec
  BY DEF IInv, TypeOK
<1>3. CASE proc[p].no_fork /\ proc' = [proc EXCEPT ![p].pc = "run", ![p].role = "program"]
  <2>1. PICK x : x = [proc[p] EXCEPT !.pc = "run", !.role = "program"]
    OBVIOUS
  <2>2. /\ x.role = "program" /\ x.parent = proc[p].parent /\ x.stage = proc[p].stage
        /\ x.commands = proc[p].commands /\ x.pc = "run"
    BY <1>2, <2>1 DEF ProcRec
  <2>3. proc' = [proc EXCEPT ![p] = x]
    BY <1>2, <1>3, <2>1
  <2>4. proc'[p] = x /\ \A r \in Pid \ {p} : proc'[r] = proc[r]
    BY <1>2, <2>3
  <2>5. proc[p].role # "shell"
    BY <1>1, <1>3, CommandHere
  <2>6. ASSUME proc[p].parent = Shell, proc[Shell].role = "shell",
               proc[Shell].pc \in {"wait program", "wait pipeline"}
        PROVE  Reports(proc'[p], Here)
    <3>1. /\ CommandOf(p) = Here[1] /\ Here # <<>> /\ proc[p].commands = Here
          /\ proc[p].stage = 1 /\ ~proc[p].redirected
      BY <1>1, <2>6, CommandHere
    <3> QED BY <3>1, <1>1, <2>2, <2>4 DEF Reports
  <2> QED BY <1>1, <2>2, <2>4, <2>5, <2>6, StepCarried
<1>4. CASE /\ ~proc[p].no_fork
           /\ Forked(p, "wait program", [proc[p] EXCEPT !.pc = "run", !.role = "program"])
  <2>1. PICK child : child = [proc[p] EXCEPT !.pc = "run", !.role = "program"]
    OBVIOUS
  <2>2. PICK y : y = [child EXCEPT !.parent = p]
    OBVIOUS
  <2>3. /\ y.parent = p /\ y.role = "program" /\ y.pc = "run" /\ y.stage = proc[p].stage
        /\ y.commands = proc[p].commands
    BY <1>2, <2>1, <2>2 DEF ProcRec
  <2>4. PICK x : x = [proc[p] EXCEPT !.pc = "wait program"]
    OBVIOUS
  <2>5. /\ x.role = proc[p].role /\ x.parent = proc[p].parent /\ x.stage = proc[p].stage
        /\ x.commands = proc[p].commands /\ x.pc = "wait program"
    BY <1>2, <2>4 DEF ProcRec
  <2>6. Free # {} /\ proc' = [proc EXCEPT ![p].pc = "wait program", ![NewPid] = y]
    BY <1>4, <2>1, <2>2 DEF Forked
  <2>7. PICK e : e = [proc EXCEPT ![p] = x, ![NewPid] = y] /\ proc' = e
    BY <1>2, <2>4, <2>6
  <2>8. proc[p].role = "shell" => Reports(y, Here)
    <3> HAVE proc[p].role = "shell"
    <3>1. /\ CommandOf(p) = Here[1] /\ Here # <<>> /\ proc[p].commands = Here
          /\ proc[p].stage = 1 /\ ~proc[p].redirected
      BY <1>1, CommandHere
    <3> QED BY <3>1, <1>1, <2>3 DEF Reports
  <2>9. ~(proc[p].parent = Shell /\ proc[Shell].role = "shell"
           /\ proc[Shell].pc \in {"wait program", "wait pipeline"})
    BY <1>1, <1>4, CommandHere
  <2>10. y.role # "shell" /\ y.parent = p
    BY <2>3
  <2>11. Free # {}
    BY <2>6
  <2> QED BY <1>1, <2>5, <2>7, <2>8, <2>9, <2>10, <2>11, ForkCarried
<1> QED BY <1>3, <1>4 DEF fsh_nice, Forks

(* wait: the status the shell gets is the outcome of what it waits for. *)
LEMMA WaitCarried ==
    ASSUME IInv, Carried, NEW p \in Pid, wait(p)
    PROVE  Carried'
<1>1. PICK q \in Children(p) :
        /\ At(q, "zombie")
        /\ \/ /\ proc[p].pc \in {"wait program", "wait redirected"}
              /\ Returned([proc EXCEPT ![q] = Gone], p,
                          IF At(p, "wait program") THEN proc[q].status ELSE RedirectResult)
           \/ At(p, "wait pipeline") /\ ItemDone([proc EXCEPT ![q] = Gone], proc[q].status)
           \/ /\ At(p, "wait stage")
              /\ proc' = Exited([proc EXCEPT ![q] = Gone], p,
                                IF proc[p].stage = 1 THEN proc[q].status ELSE "fail")
              /\ UNCHANGED <<line, at, typed, ran>>
  BY DEF wait
<1>2. q \in Pid /\ proc[q].parent = p /\ proc[q].pc = "zombie"
  BY <1>1 DEF Children, At
<1>3. PICK ps : ps = [proc EXCEPT ![q] = Gone]
  OBVIOUS
<1>4. /\ RecOK(p, proc[p]) /\ RecOK(q, proc[q]) /\ RecOK(Shell, proc[Shell])
      /\ proc \in [Pid -> ProcRec] /\ proc[q] \in ProcRec
  BY <1>2, Marks DEF IInv, Sound, Records
<1>5. p # q /\ proc[q].status \in {"ok", "fail"} /\ proc[Shell].parent # Shell
  BY <1>2, <1>4 DEF RecOK, ProcRec
<1>6. /\ ps \in [Pid -> ProcRec] /\ ps[q] = Gone /\ \A r \in Pid \ {q} : ps[r] = proc[r]
  BY <1>2, <1>3, <1>4, Marks
<1>7. /\ ps[p] = proc[p] /\ ps[Shell].parent # Shell
      /\ \A r \in Pid \ {p} : ps[r] = proc[r] \/ (ps[r] = Gone /\ proc[r].parent = p)
  BY <1>2, <1>5, <1>6, Marks
<1>8. ASSUME proc[p].role = "shell", proc[p].pc \in {"wait program", "wait pipeline"}
      PROVE  p = Shell /\ proc[q].status \in Outcomes(Here)
  <2>1. p = Shell
    BY <1>4, <1>8 DEF RecOK
  <2>2. Reports(proc[q], Here)
    BY <2>1, <1>2, <1>8, ChildReports
  <2> QED BY <2>1, <2>2, <1>2 DEF Reports
<1>9. CASE /\ proc[p].pc \in {"wait program", "wait redirected"}
           /\ Returned(ps, p, IF At(p, "wait program") THEN proc[q].status ELSE RedirectResult)
  <2>1. PICK result : result = IF At(p, "wait program") THEN proc[q].status ELSE RedirectResult
    OBVIOUS
  <2>2. ASSUME proc[p].role = "shell" PROVE result \in Outcomes(Here)
    <3>1. CASE proc[p].pc = "wait program"
      BY <3>1, <2>1, <2>2, <1>8 DEF At
    <3>2. CASE proc[p].pc = "wait redirected"
      <4>1. p = Shell /\ result = "fail"
        BY <3>2, <2>1, <2>2, <1>4 DEF RecOK, At, RedirectResult
      <4>2. Runs(proc[Shell])
        BY <4>1, <2>2 DEF Carried
      <4> QED BY <4>1, <4>2, <3>2 DEF Runs
    <3> QED BY <3>1, <3>2, <1>9
  <2>3. ASSUME proc[p].parent = Shell, proc[Shell].role = "shell",
               proc[Shell].pc \in {"wait program", "wait pipeline"}
        PROVE  Open(Here)
    <3>1. Reports(proc[p], Here)
      BY <2>3, ChildReports
    <3> QED BY <3>1, <1>9 DEF Reports
  <2>4. Returned(ps, p, result)
    BY <1>9, <2>1
  <2>5. proc[p].pc \in {"command", "wait program", "wait redirected"}
    BY <1>9
  <2> QED BY <1>6, <1>7, <2>2, <2>3, <2>4, <2>5, ReturnedCarried
<1>10. CASE At(p, "wait pipeline") /\ ItemDone(ps, proc[q].status)
  <2>1. proc[p].role = "shell" /\ proc[p].pc = "wait pipeline"
    BY <1>10, <1>4 DEF RecOK, At
  <2> QED BY <2>1, <1>6, <1>8, <1>10, ItemCarried
<1>11. CASE /\ At(p, "wait stage") /\ UNCHANGED <<line, at, typed, ran>>
            /\ proc' = Exited(ps, p, IF proc[p].stage = 1 THEN proc[q].status ELSE "fail")
  <2>1. PICK status \in {"ok", "fail"} :
            status = IF proc[p].stage = 1 THEN proc[q].status ELSE "fail"
    BY <1>5
  <2>2. proc[p].role # "shell" /\ proc[p].pc = "wait stage"
    BY <1>11, <1>4 DEF RecOK, At, Between
  <2>3. ASSUME proc[p].parent = Shell, proc[Shell].role = "shell",
               proc[Shell].pc \in {"wait program", "wait pipeline"}
        PROVE  status \in Outcomes(Here)
    <3>1. Reports(proc[p], Here)
      BY <2>3, ChildReports
    <3>2. Open(Here)
      BY <3>1, <2>2 DEF Reports
    <3> QED BY <3>2 DEF Open
  <2>4. proc' = Exited(ps, p, status)
    BY <1>11, <2>1
  <2> QED BY <1>6, <1>7, <1>11, <2>2, <2>3, <2>4, ExitCarried
<1> QED BY <1>1, <1>3, <1>9, <1>10, <1>11

(* Every step carries the results on. *)
LEMMA CarriedStep ==
    ASSUME IInv, Carried, [Next]_vars
    PROVE  Carried'
<1>1. CASE UNCHANGED vars
  BY <1>1 DEF vars, Carried, Runs, Here
<1>2. ASSUME NEW l \in Lines, readline(l) PROVE Carried'
  <2>1. /\ ran' = <<>> /\ proc' = [proc EXCEPT ![Shell].pc = "item"]
        /\ proc \in [Pid -> ProcRec] /\ Shell \in Pid
    BY <1>2, Marks DEF readline, IInv, TypeOK
  <2>2. DOMAIN ran' = {}
    BY <2>1
  <2>3. proc'[Shell].pc = "item"
    BY <2>1 DEF ProcRec
  <2>4. Runs(proc[Shell])'
    BY <2>3 DEF Runs
  <2> QED BY <2>2, <2>4 DEF Carried
<1>3. CASE parse_pipeline
  BY <1>3, PipelineCarried
<1>4. ASSUME NEW p \in Pid, ProcessStep(p) PROVE Carried'
  <2>1. CASE execute_stage(p)  BY <2>1, StageCarried
  <2>2. CASE set_up(p)  BY <2>2, SetUpCarried
  <2>3. CASE builtin(p)  BY <2>3, BuiltinCarried
  <2>4. CASE exit(p)  BY <2>4, ExitCommandCarried
  <2>5. CASE io_redirect(p)  BY <2>5, RedirectCarried
  <2>6. CASE fsh_nice(p)  BY <2>6, NiceCarried
  <2>7. CASE program_ends(p)  BY <2>7, ProgramEndsCarried
  <2>8. CASE wait(p)  BY <2>8, WaitCarried
  <2> QED BY <1>4, <2>1, <2>2, <2>3, <2>4, <2>5, <2>6, <2>7, <2>8 DEF ProcessStep
<1>5. CASE Finished
  BY <1>5, <1>1 DEF Finished
<1> QED BY <1>1, <1>2, <1>3, <1>4, <1>5 DEF Next

(* What has run of a line, when the shell is back at its prompt. *)
LEMMA WrittenHolds ==
    ASSUME IInv, Carried
    PROVE  RunsAsWritten
<1> SUFFICES ASSUME At(Shell, "prompt"), NEW i \in DOMAIN line
             PROVE  /\ <<i, 1>> \in DOMAIN ran
                         <=> \A x \in DOMAIN ran : x[1] < i => ~Stops(line[x[1]][x[2]])
                    /\ \A j \in 2 .. Len(line[i]) :
                         /\ <<i, j>> \in DOMAIN ran =>
                               <<i, j - 1>> \in DOMAIN ran /\ Admitted(line[i][j - 1]) # {}
                         /\ <<i, j - 1>> \in DOMAIN ran
                               /\ Admitted(line[i][j - 1]) = Outcomes(line[i][j - 1].commands)
                               => <<i, j>> \in DOMAIN ran
  BY DEF RunsAsWritten
<1>1. proc[Shell].role = "shell"
  BY Marks DEF IInv, Sound, Records, RecOK, At
<1>2. at[1] > Len(line) /\ at[1] \in Nat /\ Len(line) \in Nat /\ line \in Seq(Seq(Item))
  BY <1>1, LineType DEF IInv, ShellAt, TypeOK
<1>3. /\ i \in Nat /\ i <= Len(line) /\ line[i] \in Seq(Item) /\ Len(line[i]) \in Nat \ {0}
      /\ DOMAIN line[i] = 1 .. Len(line[i])
  BY <1>2, LineType DEF IInv
<1>4. \A j \in DOMAIN line[i] : <<i, j>> \in DOMAIN ran <=> ToBeRun(i, j)
  <2>1. ASSUME NEW j \in DOMAIN line[i] PROVE Before(<<i, j>>, at)
    BY <1>2, <1>3 DEF Before
  <2> QED BY <2>1 DEF IInv, Progress
<1>5. ASSUME NEW x \in DOMAIN ran
      PROVE  /\ ran[x] \in Outcomes(line[x[1]][x[2]].commands)
             /\ line[x[1]][x[2]].commands \in Seq(Command)
             /\ Stops(line[x[1]][x[2]]) <=> (ran[x] = "error" \/ line[x[1]][x[2]].op = "bad")
  <2>1. InLine(x)
    BY DEF IInv, Progress
  <2>2. line[x[1]][x[2]].commands \in Seq(Command)
    BY <2>1, LineType DEF InLine, IInv
  <2>3. ran[x] \in Outcomes(line[x[1]][x[2]].commands)
    BY DEF Carried
  <2>4. "error" \in Outcomes(line[x[1]][x[2]].commands) <=> ran[x] = "error"
    BY <2>2, <2>3, OutcomeCases
  <2> QED BY <2>2, <2>3, <2>4 DEF Stops
<1>6. <<i, 1>> \in DOMAIN ran <=> \A x \in DOMAIN ran : x[1] < i => ~Stops(line[x[1]][x[2]])
  <2>1. <<i, 1>> \in DOMAIN ran <=> ToBeRun(i, 1)
    BY <1>3, <1>4
  <2>2. ToBeRun(i, 1) <=>
            \A x \in DOMAIN ran : x[1] < i => ran[x] # "error" /\ line[x[1]][x[2]].op # "bad"
    BY DEF ToBeRun
  <2> QED BY <2>1, <2>2, <1>5
<1>7. ASSUME NEW j \in 2 .. Len(line[i])
      PROVE  /\ <<i, j>> \in DOMAIN ran =>
                   <<i, j - 1>> \in DOMAIN ran /\ Admitted(line[i][j - 1]) # {}
             /\ <<i, j - 1>> \in DOMAIN ran
                   /\ Admitted(line[i][j - 1]) = Outcomes(line[i][j - 1].commands)
                   => <<i, j>> \in DOMAIN ran
  <2>1. j \in DOMAIN line[i] /\ j > 1
    BY <1>3
  <2>2. PICK left : left = line[i][j - 1]
    OBVIOUS
  <2>3. PICK x : x = <<i, j - 1>>
    OBVIOUS
  <2>4. <<i, j>> \in DOMAIN ran <=>
            x \in DOMAIN ran /\ ((left.op = "and" /\ ran[x] = "ok") \/ (left.op = "or" /\ ran[x] = "fail"))
    <3>1. <<i, j>> \in DOMAIN ran <=> ToBeRun(i, j)
      BY <2>1, <1>4
    <3> QED BY <3>1, <2>1, <2>2, <2>3 DEF ToBeRun
  <2>5. x \in DOMAIN ran => ran[x] \in Outcomes(left.commands)
    <3>1. line[x[1]][x[2]] = left
      BY <2>2, <2>3
    <3> QED BY <3>1, <1>5
  <2>6. <<i, j>> \in DOMAIN ran => ran[x] \in Admitted(left)
    BY <2>4, <2>5 DEF Admitted
  <2>7. x \in DOMAIN ran /\ Admitted(left) = Outcomes(left.commands) => <<i, j>> \in DOMAIN ran
    <3> HAVE x \in DOMAIN ran /\ Admitted(left) = Outcomes(left.commands)
    <3>1. ran[x] \in Admitted(left)
      BY <2>5
    <3> QED BY <3>1, <2>4 DEF Admitted
  <2> QED BY <2>2, <2>3, <2>4, <2>6, <2>7
<1> QED BY <1>6, <1>7

(* When the shell is back at its prompt, what parse_input_line and         *)
(* parse_command_sequence have run of the line is what "&&", "||" and ";"  *)
(* say of how its commands ended, for every line: the exit status of a     *)
(* program gets to the operator through every process in between, unless   *)
(* io_redirect is one of them.                                             *)
THEOREM OperatorsObeyed == Spec => []RunsAsWritten
<1>1. Init => Carried
  <2> HAVE Init
  <2>1. ran = <<>> /\ proc[Shell] = [Gone EXCEPT !.pc = "prompt", !.role = "shell"]
    BY Marks DEF Init
  <2>2. DOMAIN ran = {} /\ proc[Shell].pc = "prompt"
    BY <2>1 DEF Gone
  <2>3. Runs(proc[Shell])
    BY <2>2 DEF Runs
  <2> QED BY <2>2, <2>3 DEF Carried
<1>2. IInv /\ Carried /\ [Next]_vars => Carried'
  BY CarriedStep
<1>3. IInv /\ Carried => RunsAsWritten
  BY WrittenHolds
<1> QED BY <1>1, <1>2, <1>3, Invariance, PTL DEF Spec
=============================================================================
