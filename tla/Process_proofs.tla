-------------------------- MODULE Process_proofs ---------------------------
(***************************************************************************)
(* Proofs about Process: for any number of processes, calls and tasks, a   *)
(* child's struct thread outlives every use of it, zombie_lock is upped    *)
(* exactly once, and an exit status is delivered once and is the right one *)
(***************************************************************************)
EXTENDS Process, TLAPS

(* A child list names children of the process that have not been freed.    *)
FamilyInv ==
  \A p \in Procs : \A c \in child_list[p] :
    parent[c] = p /\ pc[c] \notin {"none", "freed"}

(* Nothing has happened yet to a process that does not exist.              *)
FreshInv ==
  \A c \in Pids :
    /\ c >= next_tid => pc[c] = "none"
    /\ pc[c] = "none" => zombie_lock[c] = 0 /\ wait_lock[c] = 0 /\ load_lock[c] = 0 /\ got[c] = {}

(* What an up of load_lock and of wait_lock stands for.                    *)
SignalInv ==
  /\ \A c \in Pids : load_lock[c] > 0 => pc[c] # "load"
  /\ \A c \in Pids : wait_lock[c] > 0 => pc[c] \in Exiting
  /\ \A p \in Procs : pc[p] = "reap" => pc[target[p]] \in Exiting

(* A child whose status was delivered is off its parent's list.            *)
DeliveredInv ==
  \A c \in Pids : got[c] # {} => c \notin child_list[parent[c]]

(* The initial thread always exists and never calls exec(); it alone is    *)
(* ever in main() or off.                                                  *)
MainInv == pc[Main] \notin {"none", "exec"} /\ \A p \in Pids : pc[p] \notin {"main", "off"}

IInv ==
  /\ TypeOK /\ FamilyInv /\ FreshInv /\ SignalInv /\ DeliveredInv /\ MainInv
  /\ StructAlive /\ ReleasedOnce /\ StatusOnce

(* The initial thread is none of the processes exec() creates.             *)
LEMMA Ids ==
  /\ Main \in Procs /\ Main \notin Pids /\ Procs = Pids \cup {Main}
  /\ \A c \in Pids : c \in Procs /\ c # Main /\ c \in Int /\ 1 <= c /\ c <= MaxTid
  BY ConstantsOK DEF Main, Pids, Procs

(* When run_task has not run yet nobody but the initial thread exists.     *)
LEMMA InitInv == Init => IInv
<1> SUFFICES ASSUME Init PROVE IInv
  OBVIOUS
<1>1. TypeOK
  BY Ids, ConstantsOK DEF Init, TypeOK, PlacesOK, Places, KinOK, LocksOK, StatusesOK, CountsOK, GotOK
<1>2. /\ FamilyInv /\ FreshInv /\ SignalInv /\ DeliveredInv /\ MainInv
      /\ StructAlive /\ ReleasedOnce /\ StatusOnce
  BY Ids DEF Init, FamilyInv, FreshInv, SignalInv, DeliveredInv, MainInv, StructAlive, ReleasedOnce, StatusOnce
<1> QED BY <1>1, <1>2 DEF IInv

(* A call that fails at once only counts as a call.                        *)
LEMMA StutterInv ==
  ASSUME IInv, calls' \in [Procs -> Nat],
         UNCHANGED <<pc, parent, child_list, target, locks, load_status, exit_status, denies,
                     got, next_tid>>
  PROVE  IInv'
<1>1. TypeOK'
  BY DEF IInv, TypeOK, PlacesOK, KinOK, LocksOK, StatusesOK, CountsOK, GotOK, locks
<1>2. /\ FamilyInv' /\ FreshInv' /\ SignalInv' /\ DeliveredInv' /\ MainInv'
  BY DEF IInv, FamilyInv, FreshInv, SignalInv, DeliveredInv, MainInv, locks
<1>3. StructAlive' /\ ReleasedOnce' /\ StatusOnce'
  BY DEF IInv, StructAlive, ReleasedOnce, StatusOnce, locks
<1> QED BY <1>1, <1>2, <1>3 DEF IInv

(* process_execute(): the new process is on its parent's list, which is    *)
(* the one release it is owed.                                             *)
LEMMA ExecuteInv ==
  ASSUME IInv, NEW p \in Procs, NEW c \in Pids, NEW next \in {"exec", "wait"},
         pc[p] = Caller(p), process_execute(p, c, next), calls' \in [Procs -> Nat],
         next = "exec" => p # Main
  PROVE  IInv'
<1> USE Ids
<1>0. /\ pc[c] = "none" /\ zombie_lock[c] = 0 /\ wait_lock[c] = 0 /\ load_lock[c] = 0
      /\ got[c] = {} /\ p # c /\ pc[p] \in {"main", "user"}
  BY DEF IInv, FreshInv, process_execute, Caller, TypeOK, CountsOK
<1>a. \A q \in Procs : c \notin child_list[q]
  BY <1>0 DEF IInv, FamilyInv
<1>1. TypeOK'
  <2>1. PlacesOK' /\ KinOK'
    BY DEF IInv, TypeOK, PlacesOK, Places, KinOK, process_execute
  <2>2. LocksOK' /\ StatusesOK' /\ GotOK'
    BY DEF IInv, TypeOK, LocksOK, StatusesOK, GotOK, process_execute, locks
  <2>3. CountsOK'
    BY ConstantsOK DEF IInv, TypeOK, CountsOK, process_execute
  <2> QED BY <2>1, <2>2, <2>3 DEF TypeOK
<1>p. /\ \A q \in Procs : pc'[q] = IF q = c THEN "load" ELSE IF q = p THEN next ELSE pc[q]
      /\ \A q \in Procs : parent'[q] = IF q = c THEN p ELSE parent[q]
      /\ \A q \in Procs : child_list'[q] = IF q = p THEN child_list[q] \cup {c} ELSE child_list[q]
      /\ \A q \in Procs : target'[q] = IF q = p THEN c ELSE target[q]
      /\ next_tid' = next_tid + 1 /\ c = next_tid
      /\ UNCHANGED <<load_lock, wait_lock, zombie_lock, exit_status, got>>
  BY <1>0 DEF IInv, TypeOK, PlacesOK, KinOK, process_execute, locks
<1>l. \A q \in Procs : \A d : d \in child_list'[q] <=> d \in child_list[q] \/ (q = p /\ d = c)
  <2> SUFFICES ASSUME NEW q \in Procs, NEW d
               PROVE  d \in child_list'[q] <=> d \in child_list[q] \/ (q = p /\ d = c)
    OBVIOUS
  <2>1. CASE q = p
    <3>1. child_list'[q] = child_list[q] \cup {c} BY <2>1, <1>p
    <3> QED BY <3>1, <2>1
  <2>2. CASE q # p BY <2>2, <1>p
  <2> QED BY <2>1, <2>2
<1> HIDE DEF process_execute
<1>k. child_list \in [Procs -> SUBSET Pids] /\ parent \in [Procs -> Procs] /\ target \in [Procs -> Procs]
  BY DEF IInv, TypeOK, KinOK
<1>2. FamilyInv'
  <2> SUFFICES ASSUME NEW q \in Procs, NEW d \in child_list'[q]
               PROVE  parent'[d] = q /\ pc'[d] \notin {"none", "freed"}
    BY DEF FamilyInv
  <2>1. CASE d = c
    BY <2>1, <1>p, <1>a, <1>l
  <2>2. CASE d # c
    <3>1. d \in child_list[q] /\ d \in Pids BY <2>2, <1>l, <1>k
    <3>2. parent[d] = q /\ pc[d] \notin {"none", "freed"} BY <3>1 DEF IInv, FamilyInv
    <3> QED BY <3>1, <3>2, <2>2, <1>p
  <2> QED BY <2>1, <2>2
<1>3. FreshInv'
  BY <1>p, <1>0 DEF IInv, FreshInv, TypeOK, CountsOK
<1>4. SignalInv'
  <2>1. \A d \in Pids : load_lock'[d] > 0 => pc'[d] # "load"
    BY <1>p, <1>0 DEF IInv, SignalInv
  <2>2. \A d \in Pids : wait_lock'[d] > 0 => pc'[d] \in Exiting
    BY <1>p, <1>0 DEF IInv, SignalInv, Exiting
  <2>3. ASSUME NEW q \in Procs, pc'[q] = "reap" PROVE pc'[target'[q]] \in Exiting
    <3>1. q # c /\ q # p /\ pc[q] = "reap" BY <2>3, <1>p
    <3>2. target[q] # c /\ target[q] # p /\ target[q] \in Procs /\ pc[target[q]] \in Exiting
      BY <3>1, <1>0, <1>k DEF IInv, SignalInv, Exiting
    <3> QED BY <3>1, <3>2, <1>p
  <2> QED BY <2>1, <2>2, <2>3 DEF SignalInv
<1>5. DeliveredInv'
  <2> SUFFICES ASSUME NEW d \in Pids, got'[d] # {} PROVE d \notin child_list'[parent'[d]]
    BY DEF DeliveredInv
  <2>1. d # c /\ got[d] # {} /\ parent[d] \in Procs BY <1>p, <1>0, <1>k
  <2>2. d \notin child_list[parent[d]] /\ parent'[d] = parent[d] BY <2>1, <1>p DEF IInv, DeliveredInv
  <2> QED BY <2>1, <2>2, <1>l
<1>6. MainInv'
  BY <1>p DEF IInv, MainInv
<1>7. StructAlive'
  <2> SUFFICES ASSUME NEW q \in Procs, pc'[q] \in {"exec", "wait", "reap"}
               PROVE  pc'[target'[q]] \notin {"none", "freed"} /\ target'[q] \in child_list'[q]
    BY DEF StructAlive
  <2>1. CASE q = p
    BY <2>1, <1>p
  <2>2. CASE q # p
    <3>1. q # c /\ pc[q] \in {"exec", "wait", "reap"} BY <2>2, <1>p
    <3>2. pc[target[q]] \notin {"none", "freed"} /\ target[q] \in child_list[q] /\ target[q] \in Procs
      BY <3>1, <1>k DEF IInv, StructAlive
    <3> QED BY <3>2, <2>2, <1>p, ZenonT(30)
  <2> QED BY <2>1, <2>2
<1>8. ReleasedOnce'
  <2> SUFFICES ASSUME NEW d \in Pids, pc'[d] # "none"
               PROVE  zombie_lock'[d] = IF d \in child_list'[parent'[d]] \/ pc'[d] = "freed" THEN 0 ELSE 1
    BY DEF ReleasedOnce
  <2>1. CASE d = c
    BY <2>1, <1>p, <1>0
  <2>2. CASE d # c
    <3>1. pc[d] # "none" /\ parent'[d] = parent[d] /\ parent[d] \in Procs /\ (pc'[d] = "freed" <=> pc[d] = "freed")
      BY <2>2, <1>p, <1>0, <1>k
    <3>2. d \in child_list'[parent'[d]] <=> d \in child_list[parent[d]] BY <2>2, <3>1, <1>l
    <3>3. zombie_lock'[d] = zombie_lock[d] BY <1>p
    <3> QED BY <3>1, <3>2, <3>3 DEF IInv, ReleasedOnce
  <2> QED BY <2>1, <2>2
<1>9. StatusOnce'
  <2> SUFFICES ASSUME NEW d \in Pids, NEW g \in got'[d]
               PROVE  /\ got'[d] = {g} /\ g[1] = parent'[d]
                      /\ pc'[d] \in Exiting /\ g[3] = exit_status'[d]
    BY DEF StatusOnce
  <2>1. d # c /\ g \in got[d] /\ got'[d] = got[d] BY <1>p, <1>0
  <2>2. got[d] = {g} /\ g[1] = parent[d] /\ pc[d] \in Exiting /\ g[3] = exit_status[d]
    BY <2>1 DEF IInv, StatusOnce
  <2>3. d # p BY <2>2, <1>0 DEF Exiting
  <2> QED BY <2>1, <2>2, <2>3, <1>p
<1> QED BY <1>1, <1>2, <1>3, <1>4, <1>5, <1>6, <1>7, <1>8, <1>9 DEF IInv

(* sema_down() and sema_up().                                              *)
LEMMA SemaNat ==
  ASSUME NEW f \in [Procs -> Nat], NEW x \in Procs
  PROVE  /\ Up(f, x) \in [Procs -> Nat] /\ (f[x] > 0 => Down(f, x) \in [Procs -> Nat])
         /\ \A q \in Procs : Up(f, x)[q] = IF q = x THEN f[q] + 1 ELSE f[q]
         /\ \A q \in Procs : Down(f, x)[q] = IF q = x THEN f[q] - 1 ELSE f[q]
  BY DEF Up, Down

(* A step that moves one process on, neither creates nor frees anybody,    *)
(* leaves child lists and zombie_lock alone and ups load_lock or wait_lock *)
(* of that process only.                                                   *)
LEMMA MoveInv ==
  ASSUME IInv, TypeOK', NEW p \in Procs, NEW next,
         pc' = [pc EXCEPT ![p] = next], p \in Pids => pc[p] \notin {"none", "freed"},
         next \notin {"none", "freed", "load", "exec"}, next \in {"main", "off"} => p = Main,
         p \in Pids /\ pc[p] \in Exiting => next \in Exiting /\ exit_status' = exit_status,
         \A q \in Procs \ {p} : target'[q] = target[q] /\ exit_status'[q] = exit_status[q],
         next \in {"wait", "reap"} => target'[p] \in child_list[p],
         next = "reap" => pc[target'[p]] \in Exiting,
         \A c \in Pids : /\ load_lock'[c] > 0 => load_lock[c] > 0 \/ c = p
                         /\ wait_lock'[c] > 0 => wait_lock[c] > 0 \/ (c = p /\ next \in Exiting)
                         /\ pc[c] = "none" => load_lock'[c] = load_lock[c] /\ wait_lock'[c] = wait_lock[c],
         UNCHANGED <<parent, child_list, zombie_lock, got, next_tid>>
  PROVE  IInv'
<1> USE Ids
<1>p. \A q \in Procs : pc'[q] = IF q = p THEN next ELSE pc[q]
  BY DEF IInv, TypeOK, PlacesOK
<1>k. child_list \in [Procs -> SUBSET Pids] /\ parent \in [Procs -> Procs] /\ target \in [Procs -> Procs]
  BY DEF IInv, TypeOK, KinOK
<1>g. \A q \in Pids : (pc'[q] \in {"none", "freed"} <=> pc[q] \in {"none", "freed"})
                    /\ (pc'[q] = "none" <=> pc[q] = "none") /\ (pc'[q] = "freed" <=> pc[q] = "freed")
  BY <1>p
<1>e. \A q \in Pids : pc[q] \in Exiting => pc'[q] \in Exiting
  BY <1>p
<1>2. FamilyInv'
  <2> SUFFICES ASSUME NEW q \in Procs, NEW d \in child_list[q]
               PROVE  parent[d] = q /\ pc'[d] \notin {"none", "freed"}
    BY DEF FamilyInv
  <2>1. d \in Pids BY <1>k
  <2>2. parent[d] = q /\ pc[d] \notin {"none", "freed"} BY DEF IInv, FamilyInv
  <2> QED BY <2>1, <2>2, <1>g
<1>3. FreshInv'
  BY <1>g DEF IInv, FreshInv
<1>4. SignalInv'
  <2>1. \A d \in Pids : load_lock'[d] > 0 => pc'[d] # "load"
    BY <1>p DEF IInv, SignalInv
  <2>2. \A d \in Pids : wait_lock'[d] > 0 => pc'[d] \in Exiting
    BY <1>p, <1>e DEF IInv, SignalInv
  <2>3. ASSUME NEW q \in Procs, pc'[q] = "reap" PROVE pc'[target'[q]] \in Exiting
    <3>1. CASE q = p
      <4>1. target'[p] \in Pids BY <2>3, <3>1, <1>p, <1>k
      <4>2. pc[target'[p]] \in Exiting BY <2>3, <3>1, <1>p
      <4> QED BY <4>1, <4>2, <3>1, <1>e
    <3>2. CASE q # p
      <4>1. pc[target[q]] \in Exiting /\ target'[q] = target[q] BY <2>3, <3>2, <1>p DEF IInv, SignalInv
      <4>2. target[q] \in Pids BY <2>3, <3>2, <1>p, <1>k DEF IInv, StructAlive
      <4> QED BY <4>1, <4>2, <1>e
    <3> QED BY <3>1, <3>2
  <2> QED BY <2>1, <2>2, <2>3 DEF SignalInv
<1>5. DeliveredInv' BY DEF IInv, DeliveredInv
<1>6. MainInv' BY <1>p DEF IInv, MainInv
<1>7. StructAlive'
  <2> SUFFICES ASSUME NEW q \in Procs, pc'[q] \in {"exec", "wait", "reap"}
               PROVE  pc'[target'[q]] \notin {"none", "freed"} /\ target'[q] \in child_list[q]
    BY DEF StructAlive
  <2>1. target'[q] \in child_list[q]
    <3>1. CASE q = p BY <3>1, <1>p
    <3>2. CASE q # p BY <3>2, <1>p DEF IInv, StructAlive
    <3> QED BY <3>1, <3>2
  <2>2. pc[target'[q]] \notin {"none", "freed"} BY <2>1 DEF IInv, FamilyInv
  <2> QED BY <2>1, <2>2, <1>g, <1>k
<1>8. ReleasedOnce' BY <1>g DEF IInv, ReleasedOnce
<1>9. StatusOnce'
  <2> SUFFICES ASSUME NEW d \in Pids, NEW g \in got[d]
               PROVE  /\ got[d] = {g} /\ g[1] = parent[d]
                      /\ pc'[d] \in Exiting /\ g[3] = exit_status'[d]
    BY DEF StatusOnce
  <2>2. got[d] = {g} /\ g[1] = parent[d] /\ pc[d] \in Exiting /\ g[3] = exit_status[d]
    BY DEF IInv, StatusOnce
  <2>3. exit_status'[d] = exit_status[d] BY <2>2
  <2> QED BY <2>2, <2>3, <1>e
<1> QED BY <1>2, <1>3, <1>4, <1>5, <1>6, <1>7, <1>8, <1>9 DEF IInv

(* thread_exit(), from wherever the process was running.                   *)
LEMMA ThreadExitInv ==
  ASSUME IInv, NEW p \in Procs, pc[p] \in {"load failed", "user", "main"}, thread_exit(p),
         StatusesOK', \A q \in Procs \ {p} : exit_status'[q] = exit_status[q],
         UNCHANGED <<parent, child_list, target, load_lock, zombie_lock, got, calls, next_tid>>
  PROVE  IInv'
<1> USE Ids
<1>p. \A q \in Procs : wait_lock'[q] = IF q = p THEN wait_lock[q] + 1 ELSE wait_lock[q]
  BY DEF IInv, TypeOK, LocksOK, thread_exit, StatusReady, Up
<1>1. TypeOK'
  <2>1. PlacesOK' BY DEF IInv, TypeOK, PlacesOK, Places, Exiting, thread_exit
  <2>2. LocksOK' BY SemaNat DEF IInv, TypeOK, LocksOK, thread_exit, StatusReady
  <2>3. KinOK' /\ CountsOK' BY DEF IInv, TypeOK, KinOK, CountsOK
  <2>4. GotOK' BY DEF IInv, TypeOK, GotOK
  <2> QED BY <2>1, <2>2, <2>3, <2>4 DEF TypeOK
<1>2. /\ pc' = [pc EXCEPT ![p] = "close executable"] /\ pc[p] \notin Exiting
      /\ "close executable" \in Exiting /\ "close executable" \notin {"none", "freed", "load"}
  BY DEF thread_exit, Exiting
<1>3. \A c \in Pids : /\ wait_lock'[c] > 0 => wait_lock[c] > 0 \/ c = p
                      /\ pc[c] = "none" => wait_lock'[c] = wait_lock[c]
  BY <1>p
<1> QED BY <1>1, <1>2, <1>3, MoveInv, ZenonT(30)

(* exec() returns: the child has upped load_lock.                          *)
LEMMA ExecLoadedInv == ASSUME IInv, NEW p \in Procs, ExecLoaded(p) PROVE IInv'
<1> USE Ids
<1>1. target[p] \in Procs /\ load_lock[target[p]] > 0 /\ pc[p] = "exec" /\ load_lock \in [Procs -> Nat]
  BY DEF ExecLoaded, Loaded, At, IInv, TypeOK, KinOK, LocksOK
<1>2. /\ load_lock' \in [Procs -> Nat]
      /\ \A c \in Procs : load_lock'[c] = IF c = target[p] THEN load_lock[c] - 1 ELSE load_lock[c]
  BY <1>1, SemaNat DEF ExecLoaded
<1>3. pc[target[p]] # "none" BY <1>1 DEF IInv, StructAlive
<1>4. TypeOK'
  <2>1. PlacesOK' BY DEF ExecLoaded, IInv, TypeOK, PlacesOK, Places
  <2>2. KinOK' /\ StatusesOK' /\ CountsOK'
    BY DEF ExecLoaded, IInv, TypeOK, KinOK, StatusesOK, CountsOK
  <2>3. LocksOK' BY <1>2 DEF ExecLoaded, IInv, TypeOK, LocksOK
  <2>4. GotOK' BY DEF ExecLoaded, IInv, TypeOK, GotOK
  <2> QED BY <2>1, <2>2, <2>3, <2>4 DEF TypeOK
<1>5. \A c \in Pids : /\ load_lock'[c] > 0 => load_lock[c] > 0
                      /\ pc[c] = "none" => load_lock'[c] = load_lock[c]
  BY <1>1, <1>2, <1>3
<1> QED BY <1>1, <1>4, <1>5, MoveInv DEF ExecLoaded, Exiting
(* load() publishes its result.                                            *)
LEMMA LoadInv == ASSUME IInv, NEW p \in Procs, load(p) PROVE IInv'
<1> USE Ids
<1>1. pc[p] = "load" /\ load_lock \in [Procs -> Nat]
  BY DEF load, At, IInv, TypeOK, LocksOK
<1>2. /\ load_lock' \in [Procs -> Nat]
      /\ \A c \in Procs : load_lock'[c] = IF c = p THEN load_lock[c] + 1 ELSE load_lock[c]
  <2>1. load_lock' = Up(load_lock, p) BY DEF load
  <2> QED BY <1>1, <2>1 DEF Up
<1>3. PICK opened, success \in BOOLEAN :
        /\ load_status' = [load_status EXCEPT ![p] = success]
        /\ denies' = [denies EXCEPT ![p] = opened]
        /\ pc' = [pc EXCEPT ![p] = IF success THEN "user" ELSE "load failed"]
  BY DEF load
<1>4. TypeOK'
  <2>1. PlacesOK' BY <1>3 DEF IInv, TypeOK, PlacesOK, Places
  <2>2. KinOK' /\ CountsOK' BY DEF load, IInv, TypeOK, KinOK, CountsOK
  <2>3. StatusesOK' BY <1>3 DEF load, IInv, TypeOK, StatusesOK
  <2>4. LocksOK' BY <1>2 DEF load, IInv, TypeOK, LocksOK
  <2>5. GotOK' BY DEF load, IInv, TypeOK, GotOK
  <2> QED BY <2>1, <2>2, <2>3, <2>4, <2>5 DEF TypeOK
<1>5. \A c \in Pids : /\ load_lock'[c] > 0 => load_lock[c] > 0 \/ c = p
                      /\ pc[c] = "none" => load_lock'[c] = load_lock[c]
  BY <1>1, <1>2
<1> DEFINE next == IF success THEN "user" ELSE "load failed"
<1>6. /\ pc' = [pc EXCEPT ![p] = next] /\ pc[p] \notin Exiting \cup {"none", "freed"}
      /\ next \notin {"none", "freed", "load", "main", "off", "exec", "wait", "reap"}
  BY <1>1, <1>3 DEF Exiting
<1> HIDE DEF next
<1> QED BY <1>4, <1>5, <1>6, MoveInv DEF load

(* process_exit() closes the executable.                                   *)
LEMMA CloseInv == ASSUME IInv, NEW p \in Procs, CloseExecutable(p) PROVE IInv'
<1> USE Ids
<1>1. TypeOK'
  <2>1. PlacesOK' BY DEF CloseExecutable, IInv, TypeOK, PlacesOK, Places, Exiting
  <2>2. KinOK' /\ StatusesOK' /\ CountsOK'
    BY DEF CloseExecutable, IInv, TypeOK, KinOK, StatusesOK, CountsOK
  <2>3. LocksOK' /\ GotOK' BY DEF CloseExecutable, IInv, TypeOK, LocksOK, GotOK, locks
  <2> QED BY <2>1, <2>2, <2>3 DEF TypeOK
<1>2. /\ pc' = [pc EXCEPT ![p] = "free children"] /\ pc[p] = "close executable"
      /\ "free children" \in Exiting
      /\ "free children" \notin {"none", "freed", "load", "main", "off", "exec", "wait", "reap"}
  BY DEF CloseExecutable, At, Exiting
<1> QED BY <1>1, <1>2, MoveInv DEF CloseExecutable, locks

(* process_wait() of a child.                                              *)
LEMMA WaitInv ==
  ASSUME IInv, NEW p \in Procs, NEW c \in Pids, process_wait(p, c), c \in child_list[p]
  PROVE  IInv'
<1> USE Ids
<1>1. /\ pc[p] = "user" /\ pc' = [pc EXCEPT ![p] = "wait"] /\ target' = [target EXCEPT ![p] = c]
      /\ calls' = [calls EXCEPT ![p] = @ + 1]
  BY DEF process_wait, Calls, At, Caller
<1>2. TypeOK'
  <2>1. PlacesOK' BY <1>1 DEF IInv, TypeOK, PlacesOK, Places
  <2>2. KinOK' BY <1>1 DEF process_wait, IInv, TypeOK, KinOK
  <2>3. CountsOK' BY <1>1 DEF process_wait, IInv, TypeOK, CountsOK
  <2>4. StatusesOK' /\ LocksOK' /\ GotOK'
    BY DEF process_wait, IInv, TypeOK, StatusesOK, LocksOK, GotOK, locks
  <2> QED BY <2>1, <2>2, <2>3, <2>4 DEF TypeOK
<1>3. target'[p] = c /\ \A q \in Procs \ {p} : target'[q] = target[q]
  BY <1>1 DEF IInv, TypeOK, KinOK
<1>4. pc[p] \notin Exiting BY <1>1 DEF Exiting
<1> QED BY <1>1, <1>2, <1>3, <1>4, MoveInv DEF process_wait, locks

(* process_wait() passes wait_lock: the child has exited.                  *)
LEMMA WaitDownInv == ASSUME IInv, NEW p \in Procs, WaitDown(p) PROVE IInv'
<1> USE Ids
<1>1. target[p] \in Procs /\ wait_lock[target[p]] > 0 /\ pc[p] = "wait" /\ wait_lock \in [Procs -> Nat]
  BY DEF WaitDown, Exited, At, IInv, TypeOK, KinOK, LocksOK
<1>2. /\ wait_lock' \in [Procs -> Nat]
      /\ \A c \in Procs : wait_lock'[c] = IF c = target[p] THEN wait_lock[c] - 1 ELSE wait_lock[c]
  BY <1>1 DEF WaitDown, Down
<1>3. pc[target[p]] # "none" /\ target[p] \in child_list[p] BY <1>1 DEF IInv, StructAlive
<1>4. TypeOK'
  <2>1. PlacesOK' BY DEF WaitDown, IInv, TypeOK, PlacesOK, Places
  <2>2. KinOK' /\ StatusesOK' /\ CountsOK'
    BY DEF WaitDown, IInv, TypeOK, KinOK, StatusesOK, CountsOK
  <2>3. LocksOK' BY <1>2 DEF WaitDown, IInv, TypeOK, LocksOK
  <2>4. GotOK' BY DEF WaitDown, IInv, TypeOK, GotOK
  <2> QED BY <2>1, <2>2, <2>3, <2>4 DEF TypeOK
<1>5. \A c \in Pids : /\ wait_lock'[c] > 0 => wait_lock[c] > 0
                      /\ pc[c] = "none" => wait_lock'[c] = wait_lock[c]
  BY <1>1, <1>2, <1>3
<1>6. target[p] \in Pids BY <1>3 DEF IInv, TypeOK, KinOK
<1>7. pc[target[p]] \in Exiting BY <1>1, <1>6 DEF IInv, SignalInv
<1>8. pc[p] \notin Exiting BY <1>1 DEF Exiting
<1> QED BY <1>1, <1>3, <1>4, <1>5, <1>7, <1>8, MoveInv DEF WaitDown

(* shutdown() or halt() turns the machine off.                             *)
LEMMA OffInv ==
  ASSUME IInv, pc' = [pc EXCEPT ![Main] = "off"],
         UNCHANGED <<parent, child_list, target, locks, load_status,
                     exit_status, denies, got, calls, next_tid>>
  PROVE  IInv'
<1> USE Ids
<1>1. TypeOK'
  <2>1. PlacesOK' BY DEF IInv, TypeOK, PlacesOK, Places
  <2>2. KinOK' /\ StatusesOK' /\ CountsOK' BY DEF IInv, TypeOK, KinOK, StatusesOK, CountsOK
  <2>3. LocksOK' /\ GotOK' BY DEF IInv, TypeOK, LocksOK, GotOK, locks
  <2> QED BY <2>1, <2>2, <2>3 DEF TypeOK
<1> QED BY <1>1, MoveInv DEF locks

(* A process that may die is on nobody's list, so nobody uses its struct.  *)
LEMMA DieInv == ASSUME IInv, NEW p \in Procs, Die(p) PROVE IInv'
<1> USE Ids
<1>k. /\ child_list \in [Procs -> SUBSET Pids] /\ parent \in [Procs -> Procs]
      /\ target \in [Procs -> Procs] /\ zombie_lock \in [Procs -> Nat]
  BY DEF IInv, TypeOK, KinOK, LocksOK
<1>1. pc[p] = "zombie" /\ zombie_lock[p] > 0 /\ pc' = [pc EXCEPT ![p] = "freed"]
  BY DEF Die, At, MayDie
<1>2. zombie_lock' = Down(zombie_lock, p) BY DEF Die
<1>p. /\ \A q \in Procs : pc'[q] = IF q = p THEN "freed" ELSE pc[q]
      /\ \A q \in Procs : zombie_lock'[q] = IF q = p THEN zombie_lock[q] - 1 ELSE zombie_lock[q]
      /\ zombie_lock' \in [Procs -> Nat]
      /\ UNCHANGED <<parent, child_list, target, load_lock, wait_lock, exit_status, got, next_tid>>
  <2>1. \A q \in Procs : pc'[q] = IF q = p THEN "freed" ELSE pc[q]
    BY <1>1 DEF IInv, TypeOK, PlacesOK
  <2>2. /\ \A q \in Procs : zombie_lock'[q] = IF q = p THEN zombie_lock[q] - 1 ELSE zombie_lock[q]
        /\ zombie_lock' \in [Procs -> Nat]
    BY <1>1, <1>2, <1>k DEF Down
  <2> QED BY <2>1, <2>2 DEF Die
<1>e. "freed" \in Exiting BY DEF Exiting
<1>u. ASSUME NEW q \in Procs PROVE p \notin child_list[q]
  <2> SUFFICES ASSUME p \in child_list[q] PROVE FALSE OBVIOUS
  <2>1. p \in Pids /\ parent[p] = q BY <1>k DEF IInv, FamilyInv
  <2> QED BY <2>1, <1>1 DEF IInv, ReleasedOnce
<1>3. TypeOK'
  <2>1. PlacesOK' BY <1>1, <1>e DEF IInv, TypeOK, PlacesOK, Places
  <2>2. KinOK' /\ StatusesOK' /\ CountsOK'
    BY DEF Die, IInv, TypeOK, KinOK, StatusesOK, CountsOK
  <2>3. LocksOK' /\ GotOK' BY <1>p DEF Die, IInv, TypeOK, LocksOK, GotOK
  <2> QED BY <2>1, <2>2, <2>3 DEF TypeOK
<1>4. FamilyInv'
  <2> SUFFICES ASSUME NEW q \in Procs, NEW d \in child_list[q]
               PROVE  parent[d] = q /\ pc'[d] \notin {"none", "freed"}
    BY <1>p DEF FamilyInv
  <2>1. d \in Procs /\ d # p BY <1>k, <1>u
  <2> QED BY <2>1, <1>p DEF IInv, FamilyInv
<1>5. FreshInv' BY <1>p, <1>1 DEF IInv, FreshInv
<1>6. SignalInv'
  <2>1. /\ \A c \in Pids : load_lock'[c] > 0 => pc'[c] # "load"
        /\ \A c \in Pids : wait_lock'[c] > 0 => pc'[c] \in Exiting
    BY <1>p, <1>e DEF IInv, SignalInv
  <2>2. ASSUME NEW q \in Procs, pc'[q] = "reap" PROVE pc'[target'[q]] \in Exiting
    <3>1. pc[target[q]] \in Exiting BY <2>2, <1>p DEF IInv, SignalInv
    <3> QED BY <3>1, <1>p, <1>e, <1>k
  <2> QED BY <2>1, <2>2 DEF SignalInv
<1>7. DeliveredInv' BY <1>p DEF IInv, DeliveredInv
<1>8. MainInv' BY <1>p DEF IInv, MainInv
<1>9. StructAlive'
  <2> SUFFICES ASSUME NEW q \in Procs, pc'[q] \in {"exec", "wait", "reap"}
               PROVE  pc'[target[q]] \notin {"none", "freed"} /\ target[q] \in child_list[q]
    BY <1>p DEF StructAlive
  <2>1. pc[target[q]] \notin {"none", "freed"} /\ target[q] \in child_list[q]
    BY <1>p DEF IInv, StructAlive
  <2>2. target[q] # p BY <2>1, <1>u
  <2> QED BY <2>1, <2>2, <1>p, <1>k
<1>10. ReleasedOnce'
  <2> SUFFICES ASSUME NEW d \in Pids, pc'[d] # "none"
               PROVE  zombie_lock'[d] = IF d \in child_list[parent[d]] \/ pc'[d] = "freed" THEN 0 ELSE 1
    BY <1>p DEF ReleasedOnce
  <2>1. CASE d = p
    <3>1. zombie_lock[d] = 1 BY <2>1, <1>1, <1>u, <1>k DEF IInv, ReleasedOnce
    <3> QED BY <3>1, <2>1, <1>p
  <2>2. CASE d # p
    <3>1. pc'[d] = pc[d] /\ zombie_lock'[d] = zombie_lock[d] BY <2>2, <1>p
    <3> QED BY <3>1 DEF IInv, ReleasedOnce
  <2> QED BY <2>1, <2>2
<1>11. StatusOnce' BY <1>p, <1>e DEF IInv, StatusOnce
<1> QED BY <1>3, <1>4, <1>5, <1>6, <1>7, <1>8, <1>9, <1>10, <1>11 DEF IInv

(* thread_free_all_children() pays every child its release.                *)
LEMMA FreeChildrenInv == ASSUME IInv, NEW p \in Procs, thread_free_all_children(p) PROVE IInv'
<1> USE Ids
<1>k. /\ child_list \in [Procs -> SUBSET Pids] /\ parent \in [Procs -> Procs]
      /\ target \in [Procs -> Procs] /\ zombie_lock \in [Procs -> Nat]
  BY DEF IInv, TypeOK, KinOK, LocksOK
<1>1. /\ pc[p] = "free children" /\ pc' = [pc EXCEPT ![p] = "zombie"]
      /\ child_list' = [child_list EXCEPT ![p] = {}]
  BY DEF thread_free_all_children, At
<1>p. /\ \A q \in Procs : pc'[q] = IF q = p THEN "zombie" ELSE pc[q]
      /\ \A q \in Procs : zombie_lock'[q] = IF q \in child_list[p] THEN zombie_lock[q] + 1 ELSE zombie_lock[q]
      /\ zombie_lock' \in [Procs -> Nat]
      /\ \A q \in Procs : child_list'[q] = IF q = p THEN {} ELSE child_list[q]
      /\ UNCHANGED <<parent, target, load_lock, wait_lock, exit_status, got, next_tid>>
  <2>1. \A q \in Procs : pc'[q] = IF q = p THEN "zombie" ELSE pc[q]
    BY <1>1 DEF IInv, TypeOK, PlacesOK
  <2>2. /\ \A q \in Procs : zombie_lock'[q] = IF q \in child_list[p] THEN zombie_lock[q] + 1 ELSE zombie_lock[q]
        /\ zombie_lock' \in [Procs -> Nat]
    <3>1. zombie_lock' = [c \in Procs |-> IF c \in child_list[p] THEN zombie_lock[c] + 1 ELSE zombie_lock[c]]
      BY DEF thread_free_all_children, Released
    <3> QED BY <3>1, <1>k
  <2>3. \A q \in Procs : child_list'[q] = IF q = p THEN {} ELSE child_list[q]
    BY <1>1, <1>k
  <2> QED BY <2>1, <2>2, <2>3 DEF thread_free_all_children
<1>e. "zombie" \in Exiting BY DEF Exiting
<1>l. \A q \in Procs : \A d : d \in child_list'[q] <=> d \in child_list[q] /\ q # p
  BY <1>p
<1>g. \A q \in Procs : /\ pc'[q] = "none" <=> pc[q] = "none"
                       /\ pc'[q] = "freed" <=> pc[q] = "freed"
  <2> SUFFICES ASSUME NEW q \in Procs
               PROVE  (pc'[q] = "none" <=> pc[q] = "none") /\ (pc'[q] = "freed" <=> pc[q] = "freed")
    OBVIOUS
  <2>1. CASE q = p
    <3>1. pc[q] = "free children" /\ pc'[q] = "zombie" BY <2>1, <1>1, <1>p
    <3> QED BY <3>1
  <2>2. CASE q # p BY <2>2, <1>p
  <2> QED BY <2>1, <2>2
<1>f. \A d \in child_list[p] : parent[d] = p /\ pc[d] \notin {"none", "freed"}
  BY DEF IInv, FamilyInv
<1>3. TypeOK'
  <2>1. PlacesOK' BY <1>1, <1>e DEF IInv, TypeOK, PlacesOK, Places
  <2>2. KinOK' BY <1>1, <1>p DEF IInv, TypeOK, KinOK
  <2>3. StatusesOK' /\ CountsOK'
    BY DEF thread_free_all_children, IInv, TypeOK, StatusesOK, CountsOK
  <2>4. LocksOK' /\ GotOK' BY <1>p DEF IInv, TypeOK, LocksOK, GotOK
  <2> QED BY <2>1, <2>2, <2>3, <2>4 DEF TypeOK
<1>4. FamilyInv'
  <2> SUFFICES ASSUME NEW q \in Procs, NEW d \in child_list'[q]
               PROVE  parent[d] = q /\ pc'[d] \notin {"none", "freed"}
    BY <1>p DEF FamilyInv
  <2>1. d \in child_list[q] /\ d \in Procs BY <1>k, <1>l
  <2> QED BY <2>1, <1>p DEF IInv, FamilyInv
<1>5. FreshInv'
  <2>2. \A c \in Pids : pc[c] = "none" => zombie_lock'[c] = zombie_lock[c] BY <1>p, <1>f
  <2> QED BY <2>2, <1>p, <1>g DEF IInv, FreshInv
<1>6. SignalInv'
  <2>1. /\ \A c \in Pids : load_lock'[c] > 0 => pc'[c] # "load"
        /\ \A c \in Pids : wait_lock'[c] > 0 => pc'[c] \in Exiting
    BY <1>p, <1>e DEF IInv, SignalInv
  <2>2. ASSUME NEW q \in Procs, pc'[q] = "reap" PROVE pc'[target'[q]] \in Exiting
    <3>1. pc[target[q]] \in Exiting BY <2>2, <1>p DEF IInv, SignalInv
    <3> QED BY <3>1, <1>p, <1>e, <1>k
  <2> QED BY <2>1, <2>2 DEF SignalInv
<1>7. DeliveredInv' BY <1>p, <1>l, <1>k DEF IInv, DeliveredInv
<1>8. MainInv' BY <1>p DEF IInv, MainInv
<1>9. StructAlive'
  <2> SUFFICES ASSUME NEW q \in Procs, pc'[q] \in {"exec", "wait", "reap"}
               PROVE  pc'[target[q]] \notin {"none", "freed"} /\ target[q] \in child_list'[q]
    BY <1>p DEF StructAlive
  <2>1. q # p /\ pc[q] \in {"exec", "wait", "reap"} BY <1>p
  <2>2. pc[target[q]] \notin {"none", "freed"} /\ target[q] \in child_list[q]
    BY <2>1 DEF IInv, StructAlive
  <2> QED BY <2>1, <2>2, <1>p, <1>l, <1>k
<1>10. ReleasedOnce'
  <2> SUFFICES ASSUME NEW d \in Pids, pc'[d] # "none"
               PROVE  zombie_lock'[d] = IF d \in child_list'[parent[d]] \/ pc'[d] = "freed" THEN 0 ELSE 1
    BY <1>p DEF ReleasedOnce
  <2>1. pc[d] # "none" /\ (pc'[d] = "freed" <=> pc[d] = "freed") BY <1>g
  <2>2. CASE d \in child_list[p]
    <3>1. zombie_lock[d] = 0 /\ pc[d] # "freed" /\ parent[d] = p
      BY <2>1, <2>2, <1>f DEF IInv, ReleasedOnce
    <3> QED BY <2>1, <2>2, <3>1, <1>p, <1>l
  <2>3. CASE d \notin child_list[p]
    <3>1. d \in child_list'[parent[d]] <=> d \in child_list[parent[d]] BY <2>3, <1>l, <1>k
    <3> QED BY <2>1, <2>3, <3>1, <1>p DEF IInv, ReleasedOnce
  <2> QED BY <2>2, <2>3
<1>11. StatusOnce' BY <1>p, <1>e DEF IInv, StatusOnce
<1> QED BY <1>3, <1>4, <1>5, <1>6, <1>7, <1>8, <1>9, <1>10, <1>11 DEF IInv

(* process_wait() takes the status of a child that nobody took before, and *)
(* pays the child its release.                                             *)
LEMMA ReapInv == ASSUME IInv, NEW p \in Procs, Reap(p) PROVE IInv'
<1> USE Ids
<1> DEFINE t == target[p]
           news == <<p, calls[p], exit_status[t]>>
<1>k. /\ child_list \in [Procs -> SUBSET Pids] /\ parent \in [Procs -> Procs]
      /\ target \in [Procs -> Procs] /\ zombie_lock \in [Procs -> Nat]
  BY DEF IInv, TypeOK, KinOK, LocksOK
<1>1. pc[p] = "reap" /\ pc' = [pc EXCEPT ![p] = Caller(p)]
  BY DEF Reap, At
<1>2. t \in child_list[p] /\ pc[t] \in Exiting /\ pc[t] # "freed"
  BY <1>1 DEF IInv, StructAlive, SignalInv
<1>3. t \in Pids /\ parent[t] = p /\ t # p
  BY <1>1, <1>2, <1>k DEF IInv, FamilyInv, Exiting
<1>4. got[t] = {}
  BY <1>2, <1>3 DEF IInv, DeliveredInv
<1> HIDE DEF t
<1>c. Caller(p) \in {"main", "user"} /\ (Caller(p) = "main" => p = Main)
  BY DEF Caller
<1>p. /\ \A q \in Procs : pc'[q] = IF q = p THEN Caller(p) ELSE pc[q]
      /\ \A q \in Procs : zombie_lock'[q] = IF q = t THEN zombie_lock[q] + 1 ELSE zombie_lock[q]
      /\ zombie_lock' \in [Procs -> Nat]
      /\ \A q \in Procs : got'[q] = IF q = t THEN got[q] \cup {news} ELSE got[q]
      /\ UNCHANGED <<parent, target, load_lock, wait_lock, exit_status, calls, next_tid>>
  <2>1. \A q \in Procs : pc'[q] = IF q = p THEN Caller(p) ELSE pc[q]
    BY <1>1 DEF IInv, TypeOK, PlacesOK
  <2>2. /\ \A q \in Procs : zombie_lock'[q] = IF q = t THEN zombie_lock[q] + 1 ELSE zombie_lock[q]
        /\ zombie_lock' \in [Procs -> Nat]
    BY <1>k, <1>3 DEF Reap, Up, t
  <2>3. \A q \in Procs : got'[q] = IF q = t THEN got[q] \cup {news} ELSE got[q]
    <3>1. got' = [got EXCEPT ![t] = got[t] \cup {news}] BY DEF Reap, t
    <3> QED BY <3>1, <1>3 DEF IInv, TypeOK, GotOK
  <2> QED BY <2>1, <2>2, <2>3 DEF Reap
<1>l. \A q \in Procs : \A d : d \in child_list'[q] <=> d \in child_list[q] /\ ~(q = p /\ d = t)
  <2> SUFFICES ASSUME NEW q \in Procs, NEW d
               PROVE  d \in child_list'[q] <=> d \in child_list[q] /\ ~(q = p /\ d = t)
    OBVIOUS
  <2>1. child_list' = [child_list EXCEPT ![p] = child_list[p] \ {t}] BY DEF Reap, Unlisted, t
  <2>2. CASE q = p
    <3>1. child_list'[q] = child_list[q] \ {t} BY <2>1, <2>2, <1>k
    <3> QED BY <3>1, <2>2
  <2>3. CASE q # p BY <2>1, <2>3, <1>k
  <2> QED BY <2>2, <2>3
<1>n. news[1] = p /\ news[3] = exit_status[t] /\ news \in Procs \X Nat \X (Statuses \cup {-1})
  BY <1>3 DEF IInv, TypeOK, CountsOK, StatusesOK
<1>s. got'[t] = {news} BY <1>4, <1>3, <1>p
<1>x. \A q \in Procs : pc[q] \in Exiting => pc'[q] = pc[q] BY <1>p, <1>1 DEF Exiting
<1> HIDE DEF news
<1>5. TypeOK'
  <2>1. PlacesOK' BY <1>1, <1>c DEF IInv, TypeOK, PlacesOK, Places
  <2>2. KinOK'
    <3>1. child_list' \in [Procs -> SUBSET Pids] BY <1>k DEF Reap, Unlisted
    <3> QED BY <3>1, <1>p DEF IInv, TypeOK, KinOK
  <2>3. StatusesOK' /\ CountsOK' BY DEF Reap, IInv, TypeOK, StatusesOK, CountsOK
  <2>4. LocksOK' BY <1>p DEF IInv, TypeOK, LocksOK
  <2>5. GotOK'
    <3>1. got' = [got EXCEPT ![t] = got[t] \cup {news}] BY DEF Reap, t, news
    <3> QED BY <3>1, <1>n, <1>3 DEF IInv, TypeOK, GotOK
  <2> QED BY <2>1, <2>2, <2>3, <2>4, <2>5 DEF TypeOK
<1>6. FamilyInv'
  <2> SUFFICES ASSUME NEW q \in Procs, NEW d \in child_list'[q]
               PROVE  parent[d] = q /\ pc'[d] \notin {"none", "freed"}
    BY <1>p DEF FamilyInv
  <2>1. d \in child_list[q] /\ d \in Procs BY <1>k, <1>l
  <2>2. parent[d] = q /\ pc[d] \notin {"none", "freed"} BY <2>1 DEF IInv, FamilyInv
  <2> QED BY <2>1, <2>2, <1>p, <1>c
<1>7. FreshInv'
  <2>1. \A c \in Pids : pc'[c] = "none" <=> pc[c] = "none" BY <1>p, <1>1, <1>c
  <2>2. \A c \in Pids : pc[c] = "none" => zombie_lock'[c] = zombie_lock[c] /\ got'[c] = got[c]
    BY <1>p, <1>2 DEF Exiting
  <2> QED BY <2>1, <2>2, <1>p DEF IInv, FreshInv
<1>8. SignalInv'
  <2>1. \A c \in Pids : load_lock'[c] > 0 => pc'[c] # "load" BY <1>p, <1>c DEF IInv, SignalInv
  <2>2. \A c \in Pids : wait_lock'[c] > 0 => pc'[c] \in Exiting BY <1>p, <1>x DEF IInv, SignalInv
  <2>3. ASSUME NEW q \in Procs, pc'[q] = "reap" PROVE pc'[target'[q]] \in Exiting
    <3>1. pc[target[q]] \in Exiting BY <2>3, <1>p, <1>c DEF IInv, SignalInv
    <3> QED BY <3>1, <1>p, <1>x, <1>k
  <2> QED BY <2>1, <2>2, <2>3 DEF SignalInv
<1>9. DeliveredInv'
  <2> SUFFICES ASSUME NEW d \in Pids, got'[d] # {} PROVE d \notin child_list'[parent[d]]
    BY <1>p DEF DeliveredInv
  <2>1. CASE d = t BY <2>1, <1>3, <1>l
  <2>2. CASE d # t
    <3>1. d \notin child_list[parent[d]] BY <2>2, <1>p DEF IInv, DeliveredInv
    <3> QED BY <3>1, <1>l, <1>k
  <2> QED BY <2>1, <2>2
<1>10. MainInv' BY <1>p, <1>c DEF IInv, MainInv
<1>11. StructAlive'
  <2> SUFFICES ASSUME NEW q \in Procs, pc'[q] \in {"exec", "wait", "reap"}
               PROVE  pc'[target[q]] \notin {"none", "freed"} /\ target[q] \in child_list'[q]
    BY <1>p DEF StructAlive
  <2>1. q # p /\ pc[q] \in {"exec", "wait", "reap"} BY <1>p, <1>c
  <2>2. pc[target[q]] \notin {"none", "freed"} /\ target[q] \in child_list[q]
    BY <2>1 DEF IInv, StructAlive
  <2> QED BY <2>1, <2>2, <1>p, <1>c, <1>l, <1>k
<1>12. ReleasedOnce'
  <2> SUFFICES ASSUME NEW d \in Pids, pc'[d] # "none"
               PROVE  zombie_lock'[d] = IF d \in child_list'[parent[d]] \/ pc'[d] = "freed" THEN 0 ELSE 1
    BY <1>p DEF ReleasedOnce
  <2>1. pc[d] # "none" /\ (pc'[d] = "freed" <=> pc[d] = "freed")
    <3>1. CASE d = p BY <3>1, <1>p, <1>1, <1>c
    <3>2. CASE d # p BY <3>2, <1>p
    <3> QED BY <3>1, <3>2
  <2>2. CASE d = t
    <3>1. zombie_lock[d] = 0 BY <2>1, <2>2, <1>2, <1>3 DEF IInv, ReleasedOnce
    <3>2. d \notin child_list'[parent[d]] /\ pc'[d] # "freed" BY <2>1, <2>2, <1>2, <1>3, <1>l
    <3> QED BY <2>2, <3>1, <3>2, <1>p
  <2>3. CASE d # t
    <3>1. d \in child_list'[parent[d]] <=> d \in child_list[parent[d]] BY <2>3, <1>l, <1>k
    <3> QED BY <2>1, <2>3, <3>1, <1>p DEF IInv, ReleasedOnce
  <2> QED BY <2>2, <2>3
<1>13. StatusOnce'
  <2> SUFFICES ASSUME NEW d \in Pids, NEW g \in got'[d]
               PROVE  /\ got'[d] = {g} /\ g[1] = parent[d]
                      /\ pc'[d] \in Exiting /\ g[3] = exit_status[d]
    BY <1>p DEF StatusOnce
  <2>1. CASE d = t
    <3>1. g = news BY <2>1, <1>s
    <3> QED BY <2>1, <3>1, <1>s, <1>n, <1>2, <1>3, <1>x
  <2>2. CASE d # t
    <3>1. got'[d] = got[d] BY <2>2, <1>p
    <3>2. got[d] = {g} /\ g[1] = parent[d] /\ pc[d] \in Exiting /\ g[3] = exit_status[d]
      BY <3>1 DEF IInv, StatusOnce
    <3> QED BY <3>1, <3>2, <1>x
  <2> QED BY <2>1, <2>2
<1> QED BY <1>5, <1>6, <1>7, <1>8, <1>9, <1>10, <1>11, <1>12, <1>13 DEF IInv

(* Every system call, kernel step or exit of one process keeps IInv.       *)
LEMMA StepInv == ASSUME IInv, NEW p \in Procs, Step(p) PROVE IInv'
<1> USE Ids
<1>c. ASSUME Calls(p) PROVE calls' \in [Procs -> Nat] /\ pc[p] = Caller(p)
  BY <1>c DEF Calls, At, IInv, TypeOK, CountsOK
<1>1. CASE exec(p)
  <2>1. ASSUME NEW c \in Pids, process_execute(p, c, "exec") PROVE IInv'
    <3>1. p # Main /\ Calls(p) BY <1>1 DEF exec
    <3> QED BY <3>1, <1>c, <2>1, ExecuteInv
  <2>2. CASE UNCHANGED <<pc, parent, child_list, target, locks, load_status, exit_status,
                         denies, got, next_tid>>
    BY <1>1, <1>c, <2>2, StutterInv DEF exec
  <2> QED BY <1>1, <2>1, <2>2 DEF exec
<1>2. CASE ExecLoaded(p) BY <1>2, ExecLoadedInv
<1>3. CASE load(p) BY <1>3, LoadInv
<1>4. CASE LoadFailed(p)
  <2>1. StatusesOK' BY <1>4 DEF LoadFailed, IInv, TypeOK, StatusesOK
  <2> QED BY <1>4, <2>1, ThreadExitInv DEF LoadFailed, At
<1>5. ASSUME NEW s \in Statuses, exit(p, s) PROVE IInv'
  <2>1. StatusesOK' /\ \A q \in Procs \ {p} : exit_status'[q] = exit_status[q]
    BY <1>5 DEF exit, IInv, TypeOK, StatusesOK
  <2> QED BY <1>5, <2>1, ThreadExitInv DEF exit, At
<1>6. CASE kill(p)
  <2>1. StatusesOK' BY <1>6 DEF kill, IInv, TypeOK, StatusesOK
  <2> QED BY <1>6, <2>1, ThreadExitInv DEF kill, At
<1>7. CASE CloseExecutable(p) BY <1>7, CloseInv
<1>8. CASE thread_free_all_children(p) BY <1>8, FreeChildrenInv
<1>9. CASE Die(p) BY <1>9, DieInv
<1>10. ASSUME NEW c \in Pids, process_wait(p, c) PROVE IInv'
  <2>1. CASE c \in child_list[p] BY <1>10, <2>1, WaitInv
  <2>2. CASE c \notin child_list[p]
    BY <1>10, <1>c, <2>2, StutterInv DEF process_wait
  <2> QED BY <2>1, <2>2
<1>11. CASE WaitDown(p) BY <1>11, WaitDownInv
<1>12. CASE Reap(p) BY <1>12, ReapInv
<1>13. CASE halt(p) BY <1>13, OffInv DEF halt
<1> QED BY <1>1, <1>2, <1>3, <1>4, <1>5, <1>6, <1>7, <1>8, <1>9, <1>10, <1>11, <1>12, <1>13 DEF Step

(* So does every step of the kernel.                                       *)
LEMMA NextInv == IInv /\ [Next]_vars => IInv'
<1> SUFFICES ASSUME IInv, [Next]_vars PROVE IInv'
  OBVIOUS
<1> USE Ids
<1>1. ASSUME NEW p \in Procs, Step(p) PROVE IInv'
  BY <1>1, StepInv
<1>2. CASE run_task
  <2>0. calls' \in [Procs -> Nat] /\ pc[Main] = Caller(Main)
    BY <1>2 DEF run_task, Calls, At, IInv, TypeOK, CountsOK
  <2>1. ASSUME NEW c \in Pids, process_execute(Main, c, "wait") PROVE IInv'
    BY <2>0, <2>1, ExecuteInv
  <2>2. CASE UNCHANGED <<pc, parent, child_list, target, locks, load_status, exit_status,
                         denies, got, next_tid>>
    BY <2>0, <2>2, StutterInv
  <2> QED BY <1>2, <2>1, <2>2 DEF run_task
<1>3. CASE shutdown
  <2>0. /\ pc[Main] = "main"
        /\ UNCHANGED <<parent, child_list, target, load_lock, zombie_lock, load_status,
                       exit_status, denies, got, calls, next_tid>>
    BY <1>3 DEF shutdown, At
  <2>1. CASE pc' = [pc EXCEPT ![Main] = "off"] /\ UNCHANGED wait_lock
    BY <2>0, <2>1, OffInv DEF locks
  <2>2. CASE thread_exit(Main)
    <3>1. StatusesOK' BY <2>0 DEF IInv, TypeOK, StatusesOK
    <3> QED BY <2>0, <2>2, <3>1, ThreadExitInv
  <2> QED BY <1>3, <2>1, <2>2 DEF shutdown
<1>4. CASE UNCHANGED vars
  <2>1. calls' \in [Procs -> Nat] BY <1>4 DEF vars, IInv, TypeOK, CountsOK
  <2> QED BY <1>4, <2>1, StutterInv DEF vars
<1> QED BY <1>1, <1>2, <1>3, <1>4 DEF Next, Halted

(* IInv ties the semaphores of a child to its parent's list and to where   *)
(* both are in exec(), process_wait() and thread_exit(): it always holds.   *)
THEOREM Invariance == Spec => []IInv
<1>1. Init => IInv BY InitInv
<1>2. IInv /\ [Next]_vars => IInv' BY NextInv
<1> QED BY <1>1, <1>2, PTL DEF Spec

(* Semaphores never go below zero, and every field keeps its type.         *)
THEOREM TypeCorrect == Spec => []TypeOK
<1>1. IInv => TypeOK BY DEF IInv
<1> QED BY <1>1, Invariance, PTL

(* exec() and process_wait() only touch a struct thread that is still      *)
(* there, for every number of processes and calls.                         *)
THEOREM NoUseAfterFree == Spec => []StructAlive
<1>1. IInv => StructAlive BY DEF IInv
<1> QED BY <1>1, Invariance, PTL

(* Exactly one up of zombie_lock per process, whoever exits first.         *)
THEOREM ReleasedExactlyOnce == Spec => []ReleasedOnce
<1>1. IInv => ReleasedOnce BY DEF IInv
<1> QED BY <1>1, Invariance, PTL

(* wait() delivers a status at most once, and the right one.               *)
THEOREM StatusDeliveredOnce == Spec => []StatusOnce
<1>1. IInv => StatusOnce BY DEF IInv
<1> QED BY <1>1, Invariance, PTL

(* Only the sema_down of load_lock takes a process out of exec().          *)
LEMMA ExecReturns ==
  ASSUME IInv, Next, NEW q \in Procs, pc[q] = "exec", pc'[q] # "exec"
  PROVE  ExecLoaded(q)
<1> USE Ids
<1>0. pc \in [Procs -> Places] BY DEF IInv, TypeOK, PlacesOK
<1>f. ASSUME NEW p \in Procs, NEW c \in Pids, NEW next, pc[p] = Caller(p), process_execute(p, c, next)
      PROVE  FALSE
  <2>1. pc[c] = "none" BY <1>f DEF IInv, FreshInv, process_execute, TypeOK, CountsOK
  <2>2. q # p /\ q # c BY <1>f, <2>1 DEF Caller
  <2> QED BY <1>0, <1>f, <2>2 DEF process_execute
<1>g. ASSUME NEW p \in Procs, NEW next, pc[p] # "exec", pc' = [pc EXCEPT ![p] = next]
      PROVE  FALSE
  BY <1>0, <1>g
<1>h. ~UNCHANGED pc
  OBVIOUS
<1>1. ASSUME NEW p \in Procs, Step(p) PROVE ExecLoaded(q)
  <2>1. ~exec(p) BY <1>f, <1>h DEF exec, Calls, At
  <2>2. ~load(p) /\ ~LoadFailed(p) /\ ~kill(p)
    BY <1>g DEF load, LoadFailed, kill, thread_exit, At
  <2>3. \A s \in Statuses : ~exit(p, s)
    BY <1>g DEF exit, thread_exit, At
  <2>4. ~CloseExecutable(p) /\ ~thread_free_all_children(p) /\ ~Die(p)
    BY <1>g DEF CloseExecutable, thread_free_all_children, Die, At
  <2>5. \A c \in Pids : ~process_wait(p, c)
    BY <1>g, <1>h DEF process_wait, Calls, At, Caller
  <2>6. ~WaitDown(p) /\ ~Reap(p)
    BY <1>g DEF WaitDown, Reap, At
  <2>a. ~halt(p) BY <1>g DEF halt, IInv, MainInv
  <2>7. ExecLoaded(p) BY <1>1, <2>1, <2>2, <2>3, <2>4, <2>5, <2>6, <2>a DEF Step
  <2>8. pc' = [pc EXCEPT ![p] = "user"] BY <2>7 DEF ExecLoaded
  <2>9. p = q BY <1>0, <2>8
  <2> QED BY <2>7, <2>9
<1>2. ~run_task BY <1>f, <1>h DEF run_task, Calls, At
<1>3. ~shutdown BY <1>g DEF shutdown, thread_exit, At
<1>4. ~Halted BY <1>h DEF Halted, vars
<1> QED BY <1>1, <1>2, <1>3, <1>4 DEF Next

(* exec() does not return before the child's load() has an outcome.        *)
THEOREM ExecWaitsForLoad == Spec => ExecKnows
<1>1. IInv /\ [Next]_vars =>
        [\A p \in Procs : pc[p] = "exec" /\ pc'[p] # "exec" => pc[target[p]] \notin {"none", "load"}]_vars
  <2> SUFFICES ASSUME IInv, Next, NEW p \in Procs, pc[p] = "exec", pc'[p] # "exec"
               PROVE  pc[target[p]] \notin {"none", "load"}
    OBVIOUS
  <2>1. load_lock[target[p]] > 0 BY ExecReturns DEF ExecLoaded, Loaded
  <2>2. target[p] \in Pids /\ pc[target[p]] # "none" BY DEF IInv, StructAlive, TypeOK, KinOK
  <2> QED BY <2>1, <2>2 DEF IInv, SignalInv
<1> QED BY <1>1, Invariance, PTL DEF Spec, ExecKnows
=============================================================================
