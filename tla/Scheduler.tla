----------------------------- MODULE Scheduler -----------------------------
(***************************************************************************)
(* The Project2 kernel: the priority scheduler of threads/thread.c, the    *)
(* semaphores, locks with priority donation and condition variables of     *)
(* threads/synch.c, and the sleep queue behind timer_sleep().              *)
(*                                                                         *)
(* There is one CPU, and every operation below runs with interrupts off    *)
(* from its first access to shared state to its end or to schedule(), so   *)
(* one action is such a stretch.  A thread that was switched out in the    *)
(* middle of an operation goes on where its pc says when it is scheduled.  *)
(***************************************************************************)
EXTENDS Integers, Sequences, FiniteSets, SequencesExt

CONSTANTS
  Threads,      \* the pages a struct thread can live in
  Main,         \* initial_thread
  Idle,         \* idle_thread
  NLocks,       \* locks are numbered; programs nest them in ascending order
  Semas,        \* semaphores used directly
  NULL,
  PRI_MIN, PRI_MAX, PRI_DEFAULT,
  MaxSleep,     \* timer_sleep() is called with -1..MaxSleep
  Garbage,      \* what the read past an empty waiters list can return
  Ops,          \* the operations the program uses
  MaxOps        \* bound: how many calls all threads make together

Locks == 1..NLocks
Priorities == PRI_MIN..PRI_MAX

(* A semaphore is a lock's, one used directly, or the one in the           *)
(* semaphore_elem a thread has on its stack in cond_wait().                *)
Sems == Locks \cup Semas \cup Threads

ASSUME ConstantsOK ==
  /\ Main \in Threads /\ Idle \notin Threads /\ NULL \notin Threads \cup Locks
  /\ IsFiniteSet(Threads) /\ NLocks \in Nat /\ MaxOps \in Nat
  /\ {PRI_MIN, PRI_MAX, PRI_DEFAULT} \subseteq Int /\ PRI_DEFAULT \in Priorities
  /\ MaxSleep \in Nat /\ Garbage \subseteq Int /\ Garbage # {}
  /\ Threads \cap (Locks \cup Semas) = {} /\ Locks \cap Semas = {}

VARIABLES
  cur,          \* the running thread
  status,       \* thread -> "RUNNING", "READY", "BLOCKED", or "FREE": no such thread
  ready_list,
  base,         \* thread -> base_priority
  don,          \* thread -> prior_don
  locked_on,    \* thread -> the lock it is, or was last, blocked on, or NULL
  holder,       \* lock -> thread or NULL (lock_list is its inverse)
  value,        \* semaphore -> its value
  waiters,      \* semaphore -> sequence of threads
  cond,         \* lock -> the waiters of its condition variable, in order
  pc,           \* thread -> where it goes on when it is scheduled
  arg,          \* thread -> the semaphore it is in sema_down_donate() for
  owner,        \* thread -> sema_down_donate()'s local variable owner
  monitor,      \* thread -> the lock argument of its cond_wait/cond_broadcast
  sleepers, wake, ticks,
  panic,        \* the ASSERT that failed, or "none"
  calls         \* calls made so far

sched == <<cur, status, ready_list>>
sync == <<locked_on, holder, value, waiters, cond>>
frame == <<pc, arg, owner, monitor>>
alarm == <<sleepers, wake, ticks>>
vars == <<sched, base, don, sync, frame, alarm, panic, calls>>

Init ==
  /\ cur = Main
  /\ status = [t \in Threads |-> IF t = Main THEN "RUNNING" ELSE "FREE"]
  /\ ready_list = <<>>
  /\ base = [t \in Threads |-> PRI_DEFAULT] /\ don = base
  /\ locked_on = [t \in Threads |-> NULL]
  /\ holder = [l \in Locks |-> NULL]
  /\ value = [s \in Sems |-> IF s \in Locks THEN 1 ELSE 0]
  /\ waiters = [s \in Sems |-> <<>>]
  /\ cond = [l \in Locks |-> <<>>]
  /\ pc = [t \in Threads |-> "run"] /\ arg = [t \in Threads |-> NULL]
  /\ owner = [t \in Threads |-> NULL] /\ monitor = [t \in Threads |-> NULL]
  /\ sleepers = <<>> /\ wake = [t \in Threads |-> 0] /\ ticks = 0
  /\ panic = "none" /\ calls = 0

Held(t) == {l \in Locks : holder[l] = t}

-----------------------------------------------------------------------------
(* list_max(): the first of the elements with the largest key.             *)
ListMax(list, key) ==
  CHOOSE i \in DOMAIN list :
    /\ \A j \in DOMAIN list : key[list[j]] <= key[list[i]]
    /\ \A j \in 1..(i - 1) : key[list[j]] < key[list[i]]

(* get_next_thread_to_run(), on a ready list and priorities still being    *)
(* computed by the step.                                                   *)
Foremost(list, d) == ListMax(list, d)

StillQueued(list, i) == list

Dequeued(list, i) == RemoveAt(list, i)

schedule(st, list, d) ==
  IF list = <<>>
    THEN /\ cur' = Idle /\ ready_list' = <<>> /\ status' = st
    ELSE LET i == Foremost(list, d) IN
         /\ cur' = list[i]
         /\ ready_list' = Dequeued(list, i)
         /\ status' = [st EXCEPT ![list[i]] = "RUNNING"]

thread_block(list, d) ==
  schedule([status EXCEPT ![cur] = "BLOCKED"], list, d)

(* thread_unblock() of each of a set of threads, which the caller appends  *)
(* to the ready list.                                                      *)
thread_unblock(woken) ==
  [t \in Threads |-> IF t \in woken THEN "READY" ELSE status[t]]

thread_yield(st, list, d) ==
  schedule([st EXCEPT ![cur] = "READY"], Append(list, cur), d)

Stay(st, list) == cur' = cur /\ ready_list' = list /\ status' = st

NeverOutranked(list, d) == FALSE

(* Whether the running thread of a step gives way to the best ready one.   *)
Outranked(list, d) ==
  list # <<>> /\ d[cur] < d[list[Foremost(list, d)]]

thread_yield_if_needed(st, list, d) ==
  IF Outranked(list, d) THEN thread_yield(st, list, d) ELSE Stay(st, list)

-----------------------------------------------------------------------------
(* thread_donate() and thread_update_donations() call themselves along     *)
(* locked_on->holder.  A walk is [don, at]: the priorities so far and the  *)
(* argument of the next call, NULL or a thread, or "done".                 *)
ChainBound == Cardinality(Threads) + 1

NotNested(t) == "done"

Upstream(t) == IF locked_on[t] = NULL THEN "done" ELSE holder[locked_on[t]]

DonateStep(w, priority) ==
  IF status[w.at] = "FREE" \/ w.don[w.at] >= priority
    THEN [w EXCEPT !.at = "done"]
    ELSE [don |-> [w.don EXCEPT ![w.at] = priority], at |-> Upstream(w.at)]

thread_donate(d, t, priority) ==
  LET w[n \in 0..ChainBound] ==
        IF n = 0 THEN [don |-> d, at |-> t]
        ELSE LET v == w[n - 1] IN IF v.at \in Threads THEN DonateStep(v, priority) ELSE v
  IN  w[ChainBound]

(* The donation of one held lock: its foremost waiter's priority, or       *)
(* whatever lies 24 bytes past the tail of an empty list (UB).             *)
Donation(d, l, g) ==
  IF waiters[l] = <<>> THEN g[l] ELSE d[waiters[l][Foremost(waiters[l], d)]]

Recalculated(d, b, t, g) == Max({b[t]} \cup {Donation(d, l, g) : l \in Held(t)})

UpdateStep(w, b, g) ==
  LET p == Recalculated(w.don, b, w.at, g) IN
  IF status[w.at] = "FREE" THEN [w EXCEPT !.at = "done"]
  ELSE [don |-> [w.don EXCEPT ![w.at] = p],
        at  |-> IF p # w.don[w.at] THEN Upstream(w.at) ELSE "done"]

thread_update_donations(d, b, t, g) ==
  LET w[n \in 0..ChainBound] ==
        IF n = 0 THEN [don |-> d, at |-> t]
        ELSE LET v == w[n - 1] IN IF v.at \in Threads THEN UpdateStep(v, b, g) ELSE v
  IN  w[ChainBound]

-----------------------------------------------------------------------------
(* sema_down_donate(s, lock) by the running thread.  d: the priorities     *)
(* after what the step has already done.                                   *)
Running(t, where) == cur = t /\ pc[t] = where /\ panic = "none"

Free(s) == value[s] > 0

Take(t, s, d) ==
  /\ Free(s)
  /\ value' = [value EXCEPT ![s] = @ - 1]
  /\ locked_on' = [locked_on EXCEPT ![t] = NULL]
  /\ holder' = IF s \in Locks THEN [holder EXCEPT ![s] = t] ELSE holder
  /\ pc' = [pc EXCEPT ![t] = IF s = t THEN "relock" ELSE "run"]
  /\ arg' = [arg EXCEPT ![t] = NULL] /\ owner' = [owner EXCEPT ![t] = NULL]
  /\ don' = d
  /\ UNCHANGED <<sched, waiters, panic>>

(* The donation of a thread that is about to wait for s.                   *)
Donate(t, s, d) ==
  IF s \in Locks /\ holder[s] # NULL
    THEN thread_donate(d, holder[s], d[t]) ELSE [don |-> d, at |-> "done"]

Wait(t, s, d) ==
  LET w == Donate(t, s, d) IN
  /\ ~Free(s)
  /\ waiters' = [waiters EXCEPT ![s] = Append(@, t)]
  /\ locked_on' = IF s \in Locks THEN [locked_on EXCEPT ![t] = s] ELSE locked_on
  /\ owner' = [owner EXCEPT ![t] = IF s \in Locks THEN holder[s] ELSE NULL]
  /\ pc' = [pc EXCEPT ![t] = "down"] /\ arg' = [arg EXCEPT ![t] = s]
  /\ don' = w.don
  /\ IF w.at = "done" THEN thread_block(ready_list, w.don) /\ panic' = panic
                      ELSE panic' = "thread_donate" /\ UNCHANGED sched
  /\ UNCHANGED <<holder, value>>

sema_down_donate(t, s, d) == Take(t, s, d) \/ Wait(t, s, d)

(* The thread was woken: it takes back what it had donated to the owner it *)
(* was blocked by, then tests the semaphore again.                         *)
TakesBack(t) == owner[t] # NULL /\ don[owner[t]] <= don[t]

Woken(t) ==
  /\ Running(t, "down")
  /\ \E g \in [Locks -> Garbage] :
       LET w == IF TakesBack(t) THEN thread_update_donations(don, base, owner[t], g)
                                ELSE [don |-> don, at |-> "done"] IN
       IF w.at = "done" THEN sema_down_donate(t, arg[t], w.don)
       ELSE /\ panic' = "thread_update_donations" /\ don' = w.don
            /\ UNCHANGED <<sched, locked_on, holder, value, waiters, pc, arg, owner>>
  /\ UNCHANGED <<base, cond, monitor, alarm, calls>>

-----------------------------------------------------------------------------
(* The releaser runs on somebody's donated priority, and one of the woken  *)
(* threads has at least that priority.                                     *)
OnDonation(s) ==
  /\ don[cur] > base[cur]
  /\ \E t \in ToSet(waiters[s]) : don[cur] <= don[t]

FirstOnly(s) == IF waiters[s] = <<>> THEN <<>> ELSE <<Head(waiters[s])>>

NoneWoken(s) == <<>>

(* sema_up() wakes all of them.                                            *)
Released(s) == waiters[s]

UpYields(s) == OnDonation(s) \/ Outranked(ready_list \o Released(s), don)

UpIfWaiting(s) == IF waiters[s] = <<>> THEN value[s] ELSE value[s] + 1

Raised(s) == value[s] + 1

sema_up(s) ==
  LET list == ready_list \o Released(s)
      st == thread_unblock(ToSet(Released(s)))
  IN  /\ waiters' = [waiters EXCEPT ![s] = SubSeq(@, Len(Released(s)) + 1, Len(@))]
      /\ value' = [value EXCEPT ![s] = Raised(s)]
      /\ IF UpYields(s) THEN thread_yield(st, list, don) ELSE Stay(st, list)

Calls(t, op) ==
  Running(t, "run") /\ op \in Ops /\ calls < MaxOps /\ calls' = calls + 1

-----------------------------------------------------------------------------
(* The operations, called by the running thread.  Programs acquire locks   *)
(* in ascending order, so that they cannot deadlock by themselves.         *)
Nests(t, l) == \A k \in Held(t) : k < l

lock_acquire(t, l) ==
  /\ Calls(t, "lock") /\ Nests(t, l)
  /\ sema_down_donate(t, l, don)
  /\ UNCHANGED <<base, cond, monitor, alarm>>

lock_try_acquire(t, l) ==
  /\ Calls(t, "try") /\ holder[l] # t
  /\ IF Free(l) THEN /\ value' = [value EXCEPT ![l] = @ - 1]
                     /\ holder' = [holder EXCEPT ![l] = t]
                ELSE UNCHANGED <<value, holder>>
  /\ UNCHANGED <<sched, base, don, locked_on, waiters, cond, frame, alarm, panic>>

lock_release(t, l) ==
  /\ Running(t, "run") /\ l \in Held(t)
  /\ holder' = [holder EXCEPT ![l] = NULL]
  /\ sema_up(l)
  /\ UNCHANGED <<base, don, locked_on, cond, frame, alarm, panic, calls>>

sema_down(t, s) ==
  /\ Calls(t, "sema")
  /\ sema_down_donate(t, s, don)
  /\ UNCHANGED <<base, cond, monitor, alarm>>

SemaUp(t, s) ==
  /\ Calls(t, "sema")
  /\ sema_up(s)
  /\ UNCHANGED <<base, don, locked_on, holder, cond, frame, alarm, panic>>

(* sema_up() in an interrupt handler, as the disk driver calls it.  Both   *)
(* of its yields end in thread_yield(), which asserts that it is not in an *)
(* interrupt handler; with the idle thread running it always yields.       *)
InterruptUp(s) ==
  /\ panic = "none" /\ "interrupt" \in Ops /\ calls < MaxOps /\ calls' = calls + 1
  /\ IF cur = Idle \/ UpYields(s)
       THEN panic' = "thread_yield" /\ UNCHANGED <<sched, value, waiters>>
       ELSE panic' = "none" /\ sema_up(s)
  /\ UNCHANGED <<base, don, locked_on, holder, cond, frame, alarm>>

-----------------------------------------------------------------------------
(* cond_wait(): enqueue and release; then sema_down() on the own           *)
(* semaphore; then lock_acquire() again.                                   *)
cond_wait(t, l) ==
  /\ Calls(t, "cond") /\ l \in Held(t) /\ \A k \in Held(t) : k <= l
  /\ cond' = [cond EXCEPT ![l] = Append(@, t)]
  /\ holder' = [holder EXCEPT ![l] = NULL]
  /\ sema_up(l)
  /\ pc' = [pc EXCEPT ![t] = "enqueued"] /\ monitor' = [monitor EXCEPT ![t] = l]
  /\ UNCHANGED <<base, don, locked_on, arg, owner, alarm, panic>>

CondDown(t) ==
  /\ Running(t, "enqueued")
  /\ sema_down_donate(t, t, don)
  /\ UNCHANGED <<base, cond, monitor, alarm, calls>>

CondRelock(t) ==
  /\ Running(t, "relock")
  /\ sema_down_donate(t, monitor[t], don)
  /\ monitor' = [monitor EXCEPT ![t] = NULL]
  /\ UNCHANGED <<base, cond, alarm, calls>>

(* semaphore_elem_less(): an element nobody waits on yet comes last.       *)
CondKey == [t \in Threads |-> IF waiters[t] = <<>> THEN PRI_MIN - 1 ELSE don[t]]

cond_signal(t, l) ==
  /\ Calls(t, "cond") /\ l \in Held(t)
  /\ IF cond[l] = <<>> THEN UNCHANGED <<sched, value, waiters, cond>>
     ELSE LET i == ListMax(cond[l], CondKey) IN
          /\ cond' = [cond EXCEPT ![l] = RemoveAt(@, i)]
          /\ sema_up(cond[l][i])
  /\ UNCHANGED <<base, don, locked_on, holder, frame, alarm, panic>>

cond_broadcast(t, l) ==
  /\ Calls(t, "cond") /\ l \in Held(t) /\ cond[l] # <<>>
  /\ pc' = [pc EXCEPT ![t] = "broadcast"] /\ monitor' = [monitor EXCEPT ![t] = l]
  /\ UNCHANGED <<sched, base, don, sync, arg, owner, alarm, panic>>

(* The body of its loop, which sema_up() can interrupt.                    *)
BroadcastNext(t) ==
  LET l == monitor[t] IN
  /\ Running(t, "broadcast")
  /\ IF cond[l] = <<>>
       THEN /\ pc' = [pc EXCEPT ![t] = "run"] /\ monitor' = [monitor EXCEPT ![t] = NULL]
            /\ UNCHANGED <<sched, value, waiters, cond>>
       ELSE /\ cond' = [cond EXCEPT ![l] = Tail(@)] /\ sema_up(Head(cond[l]))
            /\ UNCHANGED <<pc, monitor>>
  /\ UNCHANGED <<base, don, locked_on, holder, arg, owner, alarm, panic, calls>>

-----------------------------------------------------------------------------
(* thread_create() makes the new thread ready, in any page but the initial *)
(* thread's, which is never freed; then it yields, if the timer has not    *)
(* done so before.                                                         *)
thread_create(t, u, priority) ==
  /\ Calls(t, "create") /\ status[u] = "FREE" /\ u # Main
  /\ base' = [base EXCEPT ![u] = priority] /\ don' = [don EXCEPT ![u] = priority]
  /\ Stay(thread_unblock({u}), Append(ready_list, u))
  /\ pc' = [pc EXCEPT ![t] = "created"]
  /\ UNCHANGED <<sync, arg, owner, monitor, alarm, panic>>

CreatedYield(t) ==
  /\ Running(t, "created")
  /\ thread_yield(status, ready_list, don)
  /\ pc' = [pc EXCEPT ![t] = "run"]
  /\ UNCHANGED <<base, don, sync, arg, owner, monitor, alarm, panic, calls>>

(* Programs release their locks before they exit.                          *)
thread_exit(t) ==
  /\ Running(t, "run") /\ Held(t) = {}
  /\ schedule([status EXCEPT ![t] = "FREE"], ready_list, don)
  /\ UNCHANGED <<base, don, sync, frame, alarm, panic, calls>>

thread_set_priority(t, priority) ==
  /\ Calls(t, "priority")
  /\ base' = [base EXCEPT ![t] = priority]
  /\ \E g \in [Locks -> Garbage] :
       don' = IF don[t] < priority THEN [don EXCEPT ![t] = priority]
              ELSE thread_update_donations(don, base', t, g).don
  /\ thread_yield_if_needed(status, ready_list, don')
  /\ UNCHANGED <<sync, frame, alarm, panic>>

-----------------------------------------------------------------------------
AtTheEnd(list, t, w) == Append(list, t)

(* list_insert_ordered(): before the first one that wakes up later.        *)
InsertOrdered(list, t, w) ==
  LET later == {i \in DOMAIN list : w[t] < w[list[i]]}
  IN  InsertAt(list, IF later = {} THEN Len(list) + 1 ELSE Min(later), t)

sleep_the_thread(t, n) ==
  /\ Calls(t, "sleep")
  /\ wake' = [wake EXCEPT ![t] = n + ticks]
  /\ sleepers' = InsertOrdered(sleepers, t, wake')
  /\ thread_block(ready_list, don)
  /\ UNCHANGED <<base, don, sync, frame, ticks, panic>>

(* handle_tick_for_sleep_queue(): the due prefix of the sorted queue.      *)
Due(now) ==
  {i \in DOMAIN sleepers : \A j \in 1..i : wake[sleepers[j]] <= now}

(* The timer interrupt, between two stretches of the running thread.  It   *)
(* preempts at the end of a time slice, and always while somebody sleeps;  *)
(* thread_yield() does nothing for the idle thread.  Ticks are counted     *)
(* from the moment the sleep queue was last empty: only differences of     *)
(* ticks are ever used.                                                    *)
timer_interrupt ==
  LET n == Cardinality(Due(ticks + 1))
      due == SubSeq(sleepers, 1, n)
      list == ready_list \o due
      st == thread_unblock(ToSet(due))
  IN  /\ panic = "none"
      /\ sleepers' = SubSeq(sleepers, n + 1, Len(sleepers))
      /\ wake' = [t \in Threads |-> IF t \in ToSet(due) THEN 0 ELSE wake[t]]
      /\ ticks' = IF sleepers' = <<>> THEN 0 ELSE ticks + 1
      /\ \/ cur = Idle /\ sleepers # <<>> /\ Stay(st, list)
         \/ cur # Idle /\ thread_yield(st, list, don)
      /\ UNCHANGED <<base, don, sync, frame, panic, calls>>

(* idle() blocks again after every interrupt.                              *)
idle ==
  /\ cur = Idle /\ ready_list # <<>> /\ panic = "none"
  /\ schedule(status, ready_list, don)
  /\ UNCHANGED <<base, don, sync, frame, alarm, panic, calls>>

-----------------------------------------------------------------------------
Step(t) ==
  \/ \E l \in Locks : \/ lock_acquire(t, l) \/ lock_try_acquire(t, l) \/ lock_release(t, l)
                      \/ cond_wait(t, l) \/ cond_signal(t, l) \/ cond_broadcast(t, l)
  \/ \E s \in Semas : sema_down(t, s) \/ SemaUp(t, s)
  \/ Woken(t) \/ CondDown(t) \/ CondRelock(t) \/ BroadcastNext(t)
  \/ \E p \in Priorities : \/ \E u \in Threads : thread_create(t, u, p)
                           \/ thread_set_priority(t, p)
  \/ CreatedYield(t) \/ thread_exit(t)
  \/ \E n \in (-1)..MaxSleep : sleep_the_thread(t, n)

(* The program has stopped for good.                                       *)
Halted ==
  /\ panic # "none" \/ (cur = Idle /\ ready_list = <<>> /\ sleepers = <<>>)
  /\ UNCHANGED vars

Next ==
  \/ \E t \in Threads : Step(t)
  \/ \E s \in Semas : InterruptUp(s)
  \/ timer_interrupt \/ idle \/ Halted

Spec == Init /\ [][Next]_vars

(* A thread that is given the CPU again and again gets on with its code,   *)
(* the timer ticks, and the idle loop looks for work.                      *)
Fairness ==
  /\ \A t \in Threads : SF_vars(Step(t))
  /\ WF_vars(timer_interrupt) /\ WF_vars(idle)

-----------------------------------------------------------------------------
(* Types of the scheduler's and the synchronization primitives' state.     *)
TypeOK ==
  /\ cur \in Threads \cup {Idle}
  /\ status \in [Threads -> {"RUNNING", "READY", "BLOCKED", "FREE"}]
  /\ ready_list \in Seq(Threads) /\ sleepers \in Seq(Threads)
  /\ base \in [Threads -> Priorities] /\ don \in [Threads -> Int]
  /\ locked_on \in [Threads -> Locks \cup {NULL}] /\ monitor \in [Threads -> Locks \cup {NULL}]
  /\ holder \in [Locks -> Threads \cup {NULL}]
  /\ value \in [Sems -> Nat] /\ waiters \in [Sems -> Seq(Threads)]
  /\ cond \in [Locks -> Seq(Threads)]
  /\ pc \in [Threads -> {"run", "down", "enqueued", "relock", "broadcast", "created"}]
  /\ arg \in [Threads -> Sems \cup {NULL}] /\ owner \in [Threads -> Threads \cup {NULL}]
  /\ wake \in [Threads -> Int] /\ ticks \in Nat
  /\ panic \in {"none", "thread_donate", "thread_update_donations", "thread_yield"}
  /\ calls \in 0..MaxOps

(* Where a thread's elem is linked in: the ready list, a semaphore's       *)
(* waiters, or the sleepers.                                               *)
Links(t) ==
  {<<"ready", i>> : i \in {i \in DOMAIN ready_list : ready_list[i] = t}}
    \cup {<<"asleep", i>> : i \in {i \in DOMAIN sleepers : sleepers[i] = t}}
    \cup UNION {{<<s, i>> : i \in {i \in DOMAIN waiters[s] : waiters[s][i] = t}} : s \in Sems}

(* thread.h: the one elem serves the run queue, the wait lists and the     *)
(* sleep queue, because they exclude each other.  It is in exactly one of  *)
(* them, once, when the thread is ready or blocked, in the run queue       *)
(* exactly when it is ready, and in none when it runs or does not exist;   *)
(* so thread_unblock()'s ASSERT on the status cannot fail either.  All     *)
(* variables have their types.                                             *)
OneList ==
  /\ TypeOK
  /\ panic = "none" => \A t \in Threads :
       /\ Cardinality(Links(t)) = IF status[t] \in {"READY", "BLOCKED"} THEN 1 ELSE 0
       /\ (status[t] = "READY") = (t \in ToSet(ready_list))
       /\ (status[t] = "RUNNING") = (cur = t)

(* sema_down_donate()'s loop and sema_up()'s wake-all: nobody is left      *)
(* waiting on a semaphore that could be taken, and a lock is held exactly  *)
(* when its semaphore is 0, by a thread that exists and does not wait for  *)
(* that lock itself.                                                       *)
NoLostWakeup ==
  /\ \A s \in Sems : value[s] > 0 => waiters[s] = <<>>
  /\ \A l \in Locks : IF holder[l] = NULL THEN value[l] = 1
                      ELSE /\ value[l] = 0 /\ status[holder[l]] # "FREE"
                           /\ holder[l] \notin ToSet(waiters[l])

(* cond_signal() and cond_broadcast() leave nobody behind: a thread in     *)
(* cond_wait() is in the condition's list or has an up to take, also when  *)
(* the signal comes between its lock_release() and its sema_down().        *)
SignalKept ==
  \A t \in Threads : pc[t] = "enqueued" \/ (pc[t] = "down" /\ arg[t] = t) =>
    value[t] = IF t \in ToSet(cond[monitor[t]]) THEN 0 ELSE 1

(* Donation reaches every holder: whoever holds a lock has at least the    *)
(* priority of every thread blocked on it, through chains of locks, woken  *)
(* threads that have not run yet, and changes of base priorities.          *)
NoInversion ==
  panic = "none" =>
    \A l \in Locks : \A t \in ToSet(waiters[l]) : don[t] <= don[holder[l]]

(* The threads that wait, directly or through a chain of locks, for what a *)
(* thread holds, and the thread itself.                                    *)
Behind(t) ==
  LET w[n \in 0..Cardinality(Threads)] ==
        IF n = 0 THEN {t}
        ELSE w[n - 1] \cup UNION {ToSet(waiters[l]) : l \in UNION {Held(u) : u \in w[n - 1]}}
  IN  w[Cardinality(Threads)]

(* Whenever a thread runs, other than thread_create() on its way to        *)
(* thread_yield(), no ready thread is entitled to more than the running    *)
(* one has, by its own base priority or that of anybody who waits behind   *)
(* it: every path that wakes a thread, lowers the running one or donates   *)
(* yields in time.  Nor has a ready thread a higher priority in any other  *)
(* way, but for one that was read past an empty list (thread.c:809).       *)
RunsForemost ==
  panic = "none" /\ cur # Idle /\ pc[cur] # "created" =>
    \A t \in ToSet(ready_list) :
      /\ \A u \in Behind(t) : base[u] <= don[cur]
      /\ don[t] <= don[cur] \/ don[t] \in Garbage

(* timer_sleep(): a thread leaves the sleep queue at the first tick that   *)
(* is not before its time, and never earlier; sorted insertion is what     *)
(* makes looking at the head of the queue enough.                          *)
WakesOnTime ==
  [][\A t \in ToSet(sleepers) :
       IF t \in ToSet(sleepers') THEN ticks' # ticks => wake[t] > ticks'
                                 ELSE wake[t] <= ticks + 1]_vars

(* Every lock_acquire() returns, however the threads are preempted, as     *)
(* long as holders release what they hold.                                 *)
LocksGranted ==
  \A t \in Threads : pc[t] = "down" ~> (pc[t] # "down" \/ panic # "none")
=============================================================================
