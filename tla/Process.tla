------------------------------ MODULE Process ------------------------------
(***************************************************************************)
(* The life of user processes in the Project5 kernel: exec, wait and exit  *)
(* of userprog/syscall.c, process_execute, process_wait, process_exit and  *)
(* load of userprog/process.c, and thread_exit of threads/thread.c.        *)
(*                                                                         *)
(* Parent and child meet at three semaphores of the child: load_lock (the  *)
(* executable is loaded or could not be), wait_lock (there is an exit      *)
(* status) and zombie_lock (nobody will look at the struct thread any      *)
(* more).  child_lock is only ever taken by the process it belongs to, so  *)
(* what it protects is one step.                                           *)
(***************************************************************************)
EXTENDS Integers, FiniteSets

CONSTANTS
  MaxTid,       \* bound: processes created during a run
  MaxCalls,     \* bound: system calls of one process besides exit
  MaxTasks,     \* bound: run actions on the kernel command line
  Statuses      \* what programs pass to exit()

ASSUME ConstantsOK ==
  MaxTid \in Nat /\ MaxCalls \in Nat /\ MaxTasks \in Nat /\ Statuses \subseteq Int

Main == 0                  \* the initial thread, which runs the tasks
Pids == 1..MaxTid
Procs == Pids \cup {Main}

VARIABLES
  pc,           \* process -> where it is; "none": not created, "freed": struct gone
  parent,       \* process -> parent
  child_list,   \* process -> set of children
  target,       \* process -> the child it executes or waits for
  load_lock, wait_lock, zombie_lock,      \* semaphores of a process
  load_status, exit_status,
  denies,       \* process -> its executable is open and denies writes
  got,          \* history: process -> exit statuses its parent's wait() returned
  calls,        \* process -> system calls made
  next_tid

locks == <<load_lock, wait_lock, zombie_lock>>
vars == <<pc, parent, child_list, target, locks, load_status, exit_status, denies,
          got, calls, next_tid>>

Init ==
  /\ pc = [p \in Procs |-> IF p = Main THEN "main" ELSE "none"]
  /\ parent = [p \in Procs |-> Main]
  /\ child_list = [p \in Procs |-> {}]
  /\ target = [p \in Procs |-> Main]
  /\ load_lock = [p \in Procs |-> 0] /\ wait_lock = [p \in Procs |-> 0]
  /\ zombie_lock = [p \in Procs |-> 0]
  /\ load_status = [p \in Procs |-> FALSE]
  /\ exit_status = [p \in Procs |-> -1]
  /\ denies = [p \in Procs |-> FALSE]
  /\ got = [p \in Procs |-> {}]
  /\ calls = [p \in Procs |-> 0]
  /\ next_tid = 1

Up(sem, p) == [sem EXCEPT ![p] = @ + 1]
Down(sem, p) == [sem EXCEPT ![p] = @ - 1]

(* Where a call returns to.                                                *)
Caller(p) == IF p = Main THEN "main" ELSE "user"

(* Nothing runs once the machine is off, which pc[Main] = "off" stands for. *)
On == pc[Main] # "off"

At(p, where) == On /\ pc[p] = where

Calls(p) ==
  /\ At(p, Caller(p))
  /\ calls[p] < IF p = Main THEN MaxTasks ELSE MaxCalls
  /\ calls' = [calls EXCEPT ![p] = @ + 1]

-----------------------------------------------------------------------------
(* thread_create() of start_process: the child is on its parent's list     *)
(* before it runs.  An allocation may fail instead.                        *)
process_execute(p, c, next) ==
  /\ c = next_tid /\ c \in Pids /\ next_tid' = next_tid + 1
  /\ pc' = [pc EXCEPT ![p] = next, ![c] = "load"]
  /\ parent' = [parent EXCEPT ![c] = p]
  /\ child_list' = [child_list EXCEPT ![p] = @ \cup {c}]
  /\ target' = [target EXCEPT ![p] = c]
  /\ UNCHANGED <<locks, load_status, exit_status, denies, got>>

(* exec(): the caller goes on to sema_down(&child->load_lock).             *)
exec(p) ==
  /\ p # Main /\ Calls(p)
  /\ \/ \E c \in Pids : process_execute(p, c, "exec")
     \/ UNCHANGED <<pc, parent, child_list, target, locks, load_status, exit_status,
                    denies, got, next_tid>>

(* run_task(): the initial thread waits for the process right away.        *)
run_task ==
  /\ Calls(Main)
  /\ \/ \E c \in Pids : process_execute(Main, c, "wait")
     \/ UNCHANGED <<pc, parent, child_list, target, locks, load_status, exit_status,
                    denies, got, next_tid>>

Unasked(c) == TRUE

Loaded(c) == load_lock[c] > 0

ExecLoaded(p) ==
  /\ At(p, "exec") /\ Loaded(target[p])
  /\ load_lock' = Down(load_lock, target[p])
  /\ pc' = [pc EXCEPT ![p] = "user"]
  /\ UNCHANGED <<parent, child_list, target, wait_lock, zombie_lock, load_status,
                 exit_status, denies, got, calls, next_tid>>

(* load(): opens the executable and denies writes to it, unless it cannot  *)
(* even be opened, and publishes the result.                               *)
load(c) ==
  /\ At(c, "load")
  /\ \E opened, success \in BOOLEAN :
       /\ success => opened
       /\ load_status' = [load_status EXCEPT ![c] = success]
       /\ denies' = [denies EXCEPT ![c] = opened]
       /\ pc' = [pc EXCEPT ![c] = IF success THEN "user" ELSE "load failed"]
  /\ load_lock' = Up(load_lock, c)
  /\ UNCHANGED <<parent, child_list, target, wait_lock, zombie_lock, exit_status,
                 got, calls, next_tid>>

-----------------------------------------------------------------------------
(* thread_exit() lets the waiting parent go on first and cleans up after.  *)

StatusReady(c) == Up(wait_lock, c)

thread_exit(c) ==
  /\ wait_lock' = StatusReady(c)
  /\ pc' = [pc EXCEPT ![c] = "close executable"]

(* load()'s clean-up after a failure, then start_process()'s exit.         *)
LoadFailed(c) ==
  /\ At(c, "load failed")
  /\ denies' = [denies EXCEPT ![c] = FALSE]
  /\ thread_exit(c)
  /\ UNCHANGED <<parent, child_list, target, load_lock, zombie_lock, load_status,
                 exit_status, got, calls, next_tid>>

exit(p, status) ==
  /\ p # Main /\ At(p, "user")
  /\ exit_status' = [exit_status EXCEPT ![p] = status]
  /\ thread_exit(p)
  /\ UNCHANGED <<parent, child_list, target, load_lock, zombie_lock, load_status,
                 denies, got, calls, next_tid>>

(* The process dies of an exception; its status is still the initial -1.   *)
kill(p) ==
  /\ p # Main /\ At(p, "user")
  /\ thread_exit(p)
  /\ UNCHANGED <<parent, child_list, target, load_lock, zombie_lock, load_status,
                 exit_status, denies, got, calls, next_tid>>

(* process_exit(), first its executable ...                                *)
CloseExecutable(p) ==
  /\ At(p, "close executable")
  /\ denies' = [denies EXCEPT ![p] = FALSE]
  /\ pc' = [pc EXCEPT ![p] = "free children"]
  /\ UNCHANGED <<parent, child_list, target, locks, load_status, exit_status, got,
                 calls, next_tid>>

NoneReleased(S) == zombie_lock

(* ... then thread_free_all_children(), and what the process has open.     *)
Released(S) == [c \in Procs |-> IF c \in S THEN zombie_lock[c] + 1 ELSE zombie_lock[c]]

thread_free_all_children(p) ==
  /\ At(p, "free children")
  /\ zombie_lock' = Released(child_list[p])
  /\ child_list' = [child_list EXCEPT ![p] = {}]
  /\ pc' = [pc EXCEPT ![p] = "zombie"]
  /\ UNCHANGED <<parent, target, load_lock, wait_lock, load_status, exit_status,
                 denies, got, calls, next_tid>>

NeedNotWait(p) == TRUE

MayDie(p) == zombie_lock[p] > 0

(* sema_down(&cur_t->zombie_lock), and the page of the struct is freed.    *)
Die(p) ==
  /\ At(p, "zombie") /\ MayDie(p)
  /\ zombie_lock' = Down(zombie_lock, p)
  /\ pc' = [pc EXCEPT ![p] = "freed"]
  /\ UNCHANGED <<parent, child_list, target, load_lock, wait_lock, load_status,
                 exit_status, denies, got, calls, next_tid>>

-----------------------------------------------------------------------------
(* process_wait(): -1 at once for anybody who is not, or no longer, a      *)
(* child.                                                                  *)
process_wait(p, c) ==
  /\ p # Main /\ Calls(p)
  /\ IF c \in child_list[p]
       THEN pc' = [pc EXCEPT ![p] = "wait"] /\ target' = [target EXCEPT ![p] = c]
       ELSE UNCHANGED <<pc, target>>
  /\ UNCHANGED <<parent, child_list, locks, load_status, exit_status, denies, got, next_tid>>

NeverAsked(c) == TRUE

Exited(c) == wait_lock[c] > 0

WaitDown(p) ==
  /\ At(p, "wait") /\ Exited(target[p])
  /\ wait_lock' = Down(wait_lock, target[p])
  /\ pc' = [pc EXCEPT ![p] = "reap"]
  /\ UNCHANGED <<parent, child_list, target, load_lock, zombie_lock, load_status,
                 exit_status, denies, got, calls, next_tid>>

StillListed(p) == child_list

Unlisted(p) == [child_list EXCEPT ![p] = @ \ {target[p]}]

(* It takes the status, forgets the child and lets it die.                 *)
Reap(p) ==
  /\ At(p, "reap")
  /\ got' = [got EXCEPT ![target[p]] = @ \cup {<<p, calls[p], exit_status[target[p]]>>}]
  /\ child_list' = Unlisted(p)
  /\ zombie_lock' = Up(zombie_lock, target[p])
  /\ pc' = [pc EXCEPT ![p] = Caller(p)]
  /\ UNCHANGED <<parent, target, load_lock, wait_lock, load_status, exit_status,
                 denies, calls, next_tid>>

(* The initial thread has run its tasks: shutdown() turns the machine off  *)
(* or, configured not to, returns, and the thread exits like a process.    *)
shutdown ==
  /\ At(Main, "main") /\ calls[Main] = MaxTasks
  /\ \/ pc' = [pc EXCEPT ![Main] = "off"] /\ UNCHANGED wait_lock
     \/ thread_exit(Main)
  /\ UNCHANGED <<parent, child_list, target, load_lock, zombie_lock, load_status,
                 exit_status, denies, got, calls, next_tid>>

(* halt(): shutdown_power_off() in whatever state everybody is.            *)
halt(p) ==
  /\ p # Main /\ At(p, "user")
  /\ pc' = [pc EXCEPT ![Main] = "off"]
  /\ UNCHANGED <<parent, child_list, target, locks, load_status, exit_status, denies,
                 got, calls, next_tid>>

Halted ==
  /\ ~On \/ (pc[Main] = "zombie" /\ \A p \in Pids : pc[p] \in {"none", "freed"})
  /\ UNCHANGED vars

-----------------------------------------------------------------------------
Step(p) ==
  \/ exec(p) \/ ExecLoaded(p) \/ load(p) \/ LoadFailed(p)
  \/ (\E s \in Statuses : exit(p, s)) \/ kill(p) \/ halt(p)
  \/ CloseExecutable(p) \/ thread_free_all_children(p) \/ Die(p)
  \/ (\E c \in Pids : process_wait(p, c)) \/ WaitDown(p) \/ Reap(p)

Next == (\E p \in Procs : Step(p)) \/ run_task \/ shutdown \/ Halted

Spec == Init /\ [][Next]_vars

(* The scheduler is round robin, so every process goes on; programs end.   *)
Fairness ==
  /\ \A p \in Pids : WF_vars(Step(p))
  /\ WF_vars(Step(Main) \/ run_task \/ shutdown)

FairSpec == Spec /\ Fairness

-----------------------------------------------------------------------------
Exiting == {"close executable", "free children", "zombie", "freed"}

Places == {"none", "main", "off", "load", "load failed", "user", "exec", "wait", "reap"} \cup Exiting

PlacesOK == pc \in [Procs -> Places]
KinOK == /\ parent \in [Procs -> Procs] /\ target \in [Procs -> Procs]
         /\ child_list \in [Procs -> SUBSET Pids]
LocksOK == /\ load_lock \in [Procs -> Nat] /\ wait_lock \in [Procs -> Nat]
           /\ zombie_lock \in [Procs -> Nat]
StatusesOK == /\ load_status \in [Procs -> BOOLEAN] /\ denies \in [Procs -> BOOLEAN]
              /\ exit_status \in [Procs -> Statuses \cup {-1}]
CountsOK == calls \in [Procs -> Nat] /\ next_tid \in 1..(MaxTid + 1)
GotOK == got \in [Procs -> SUBSET (Procs \X Nat \X (Statuses \cup {-1}))]

(* Types; a semaphore never goes below zero.                               *)
TypeOK == PlacesOK /\ KinOK /\ LocksOK /\ StatusesOK /\ CountsOK /\ GotOK

(* exec(), process_wait(): a child whose semaphores or fields its parent   *)
(* still uses has not been freed, and is that parent's child.              *)
StructAlive ==
  \A p \in Procs : pc[p] \in {"exec", "wait", "reap"} =>
    /\ pc[target[p]] \notin {"none", "freed"}
    /\ target[p] \in child_list[p]

(* zombie_lock: every process is let go exactly once, by the wait or by    *)
(* the exit of its parent; until then the parent has it on its list.  An   *)
(* up too many would be on a page that is somebody else's by then.         *)
ReleasedOnce ==
  \A c \in Pids : pc[c] # "none" =>
    zombie_lock[c] = IF c \in child_list[parent[c]] \/ pc[c] = "freed" THEN 0 ELSE 1

(* wait(): "a process may wait for any given child at most once", and what *)
(* it gets is the status of a child that has exited, its own child.        *)
StatusOnce ==
  \A c \in Pids : \A g \in got[c] :
    /\ got[c] = {g} /\ g[1] = parent[c]
    /\ pc[c] \in Exiting /\ g[3] = exit_status[c]

(* exec(): "the parent process cannot return from the exec until it knows  *)
(* whether the child process successfully loaded its executable".          *)
ExecKnows ==
  [][\A p \in Procs : pc[p] = "exec" /\ pc'[p] # "exec" =>
       pc[target[p]] \notin {"none", "load"}]_vars

(* wait(): "All of a process's resources, including its struct thread,     *)
(* must be freed whether its parent ever waits for it or not, and          *)
(* regardless of whether the child exits before or after its parent."      *)
Reclaimed ==
  \A c \in Pids : pc[c] = "load" ~> (pc[c] = "freed" \/ ~On)

(* Every wait() and every exec() returns.                                  *)
CallsEnd ==
  \A p \in Procs : pc[p] \in {"exec", "wait"} ~> (pc[p] \notin {"exec", "wait"} \/ ~On)

(* Both: process_wait, exec and thread_exit leave nobody behind.           *)
EverybodyEnds == Reclaimed /\ CallsEnd
=============================================================================
