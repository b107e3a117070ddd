-------------------------- MODULE WebServer_proofs --------------------------
(***************************************************************************)
(* Proofs about the web server for any number of workers, clients,         *)
(* descriptors and scripts: two workers never serve one connection and     *)
(* none is forgotten, the waits and the scripts balance, and the headers   *)
(* announce the length that is sent.                                       *)
(***************************************************************************)
EXTENDS WebServer, FiniteSetTheorems, WellFoundedInduction, TLAPS

-----------------------------------------------------------------------------
(* The inductive invariant.  It says nothing of a server that has ended. *)

(* The ready list names each armed descriptor at most once. *)
EventsInv ==
    /\ \A i \in DOMAIN events : events[i] \in armed
    /\ \A i, j \in DOMAIN events : events[i] = events[j] => i = j

(* An armed descriptor is a connection that no worker serves; one that is   *)
(* not armed is served.                                                     *)
ArmedInv ==
    /\ \A f \in armed : fds[f] \in Client /\ \A w \in Worker : ~Serving(w, f)
    /\ \A f \in Fd \ armed : fds[f] \in Client => \E w \in Worker : Serving(w, f)

(* A worker's descriptor is its client's, and nobody else's; a file that is *)
(* being measured or sent has a descriptor of its own.                      *)
HasFile == {"fclose", "send"}

WorkInv ==
    /\ \A w \in Worker : th[w].pc # "epoll" =>
          th[w].client \in Client /\ fds[th[w].fd] = th[w].client
    /\ \A v, w \in Worker : th[w].pc # "epoll" /\ th[v].fd = th[w].fd => v = w
    /\ \A w \in Worker : th[w].pc \in HasFile => th[w].file \in Fd /\ fds[th[w].file] = File
    /\ \A v, w \in Worker :
          th[v].pc \in HasFile /\ th[w].pc \in HasFile /\ th[v].file = th[w].file => v = w

Connections == EventsInv /\ ArmedInv /\ WorkInv

IInv ==
    /\ TypeOK /\ ChildrenAwaited /\ LengthAnnounced
    /\ server = "up" => Connections

-----------------------------------------------------------------------------
(* Numbers and the marks None and File. *)
LEMMA Marks ==
    /\ \A c \in Client : c \in Nat /\ c # None /\ c # File
    /\ \A f \in Fd : f \in Nat /\ f # None
    /\ \A p \in Pid : p \in Nat
    /\ File # None
<1>1. Cardinality(Client) \in Nat
  BY WebServerAssumption, FS_CardinalityType
<1> QED BY <1>1, WebServerAssumption DEF Fd, Pid, None, File

(* A set of numbers that is not empty has a least element. *)
LEMMA LeastExists ==
    ASSUME NEW S \in SUBSET Nat, S # {}
    PROVE  \E x \in S : \A y \in S : x <= y
<1>1. PICK R : R = OpToRel(<, Nat) /\ IsWellFoundedOn(R, Nat)
  BY NatLessThanWellFounded
<1>2. \A x, y \in Nat : <<x, y>> \in R <=> x < y
  BY <1>1 DEF OpToRel
<1>3. PICK x \in S : \A y \in S : <<y, x>> \notin R
  BY <1>1, WFMin
<1>4. \A y \in S : y \in Nat /\ ~(y < x)
  BY <1>2, <1>3
<1>5. x \in Nat
  OBVIOUS
<1>6. \A y \in S : x <= y
  BY <1>4, <1>5
<1> QED BY <1>6

(* accept and open get a descriptor that was free. *)
LEMMA LowestIsFree ==
    ASSUME FreeFds # {}
    PROVE  LowestFd \in Fd /\ fds[LowestFd] = None
<1>1. FreeFds \in SUBSET Nat
  BY Marks DEF FreeFds
<1>2. \E f \in FreeFds : \A g \in FreeFds : f <= g
  BY <1>1, LeastExists
<1>3. LowestFd \in FreeFds
  BY <1>2 DEF LowestFd
<1> QED BY <1>3 DEF FreeFds

(* The server starts with nothing open and nobody at work. *)
LEMMA InitInv == Init => IInv
<1> SUFFICES ASSUME Init PROVE IInv
  OBVIOUS
<1>1. TypeOK
  BY WebServerAssumption, Marks DEF Init, TypeOK, NewPeer, Idle, Points, Nothing, PeerRec, ThreadRec, ChildRec
<1>2. ChildrenAwaited
  <2>1. /\ {p \in Pid : child[p].state \in {"script", "server", "zombie"}} = {}
        /\ {w \in Worker : th[w].pc = "wait"} = {}
    BY DEF Init, Idle
  <2> QED BY <2>1 DEF ChildrenAwaited
<1>3. LengthAnnounced
  BY DEF Init, Nothing, LengthAnnounced
<1>4. Connections
  BY Marks DEF Init, Idle, Connections, EventsInv, ArmedInv, WorkInv, HasFile
<1> QED BY <1>1, <1>2, <1>3, <1>4 DEF IInv

(* A client's new data is reported on its descriptor, if that is armed. *)
LEMMA NotifiedInv ==
    ASSUME TypeOK, EventsInv, NEW ready \in SUBSET Fd, events' = Notified(ready, armed),
           armed' = armed
    PROVE  EventsInv' /\ events' \in Seq(Fd)
<1> DEFINE new == {f \in ready \cap armed : \A i \in DOMAIN events : events[i] # f}
<1>1. CASE new = {}
  BY <1>1 DEF Notified, EventsInv, TypeOK
<1>2. CASE new # {}
  <2>1. PICK f : f = CHOOSE g \in new : TRUE
    OBVIOUS
  <2>2. f \in new
    BY <1>2, <2>1
  <2>3. events' = Append(events, f)
    BY <1>2, <2>1 DEF Notified
  <2>4. f \in Fd /\ f \in armed /\ \A i \in DOMAIN events : events[i] # f
    BY <2>2
  <2>5. /\ DOMAIN events' = 1 .. Len(events) + 1 /\ DOMAIN events = 1 .. Len(events)
        /\ Len(events) \in Nat /\ events' \in Seq(Fd)
        /\ \A i \in DOMAIN events : events'[i] = events[i]
        /\ events'[Len(events) + 1] = f
    BY <2>3, <2>4 DEF TypeOK
  <2> QED BY <2>4, <2>5 DEF EventsInv
<1> QED BY <1>1, <1>2

(* What a worker does to its own request leaves the connections alone. *)
LEMMA MoveInv ==
    ASSUME TypeOK, Connections, NEW w \in Worker, th[w].pc \notin {"epoll"} \cup HasFile,
           th'[w].pc \notin {"epoll"} \cup HasFile,
           th'[w].fd = th[w].fd, th'[w].client = th[w].client,
           \A v \in Worker : v # w => th'[v] = th[v],
           UNCHANGED <<fds, armed, events>>
    PROVE  Connections'
<1>1. \A v \in Worker, f \in Fd : Serving(v, f)' <=> Serving(v, f)
  BY DEF Serving
<1>2. EventsInv'
  BY DEF Connections, EventsInv
<1>3. ArmedInv'
  BY <1>1 DEF Connections, ArmedInv, TypeOK
<1>4. WorkInv'
  BY DEF Connections, WorkInv
<1> QED BY <1>2, <1>3, <1>4 DEF Connections

(* The balance of waits and scripts depends on nothing else. *)
Waited == {p \in Pid : child[p].state \in {"script", "server", "zombie"}}
Waiting == {w \in Worker : th[w].pc = "wait"}

(* As long as neither set changes, the balance is kept. *)
LEMMA SameBalance ==
    ASSUME ChildrenAwaited, Waited' = Waited, Waiting' = Waiting
    PROVE  ChildrenAwaited'
BY DEF ChildrenAwaited, Waited, Waiting

(* Both sets are finite. *)
LEMMA BalanceFinite ==
    IsFiniteSet(Waited) /\ IsFiniteSet(Waiting)
<1>1. IsFiniteSet(Pid)
  BY FS_Interval, WebServerAssumption DEF Pid
<1> QED BY <1>1, FS_Subset, WebServerAssumption DEF Waited, Waiting

(* The clients' steps. *)
LEMMA ClientInv ==
    ASSUME IInv, NEW c \in Client, connect(c) \/ hang_up(c) \/ stall(c) \/ \E r \in Requests : ask(c, r)
    PROVE  IInv'
<1>1. CASE connect(c)
  <2>1. TypeOK'
    <3>1. (peer \in [Client -> PeerRec])'
      BY <1>1 DEF connect, IInv, TypeOK, PeerRec
    <3>2. backlog' \in Seq(Client)
      BY <1>1 DEF connect, IInv, TypeOK
    <3> QED BY <1>1, <3>1, <3>2 DEF connect, IInv, TypeOK
  <2>2. ChildrenAwaited' /\ LengthAnnounced'
    BY <1>1 DEF connect, IInv, ChildrenAwaited, LengthAnnounced
  <2>3. Connections'
    BY <1>1 DEF connect, IInv, Connections, EventsInv, ArmedInv, WorkInv, Serving
  <2> QED BY <2>1, <2>2, <2>3 DEF IInv
<1>2. ASSUME hang_up(c) \/ \E r \in Requests : ask(c, r) PROVE IInv'
  <2>0. /\ server = "up" /\ events' = Notified(FdOf(c), armed)
        /\ UNCHANGED <<server, backlog, fds, armed, rcvtimeo, th, child, error_msg,
                       log_level, faults, sent>>
    BY <1>2 DEF hang_up, ask
  <2>1. TypeOK /\ Connections /\ FdOf(c) \in SUBSET Fd
    BY <2>0 DEF IInv, FdOf
  <2>2. EventsInv' /\ events' \in Seq(Fd)
    BY <2>0, <2>1, NotifiedInv DEF Connections
  <2>3. (peer \in [Client -> PeerRec])'
    <3>1. CASE hang_up(c)
      <4>1. PICK x : x = [peer[c] EXCEPT !.closing = TRUE, !.stalled = FALSE]
        OBVIOUS
      <4>2. x \in PeerRec
        BY <2>1, <4>1 DEF TypeOK, PeerRec
      <4>3. peer' = [peer EXCEPT ![c] = x]
        BY <2>1, <3>1, <4>1 DEF hang_up, TypeOK
      <4> QED BY <2>1, <4>2, <4>3 DEF TypeOK
    <3>2. ASSUME NEW r \in Requests, ask(c, r) PROVE (peer \in [Client -> PeerRec])'
      <4>1. peer[c] \in PeerRec /\ peer[c].asked \in Nat
        BY <2>1 DEF TypeOK, PeerRec
      <4>2. PICK n \in Nat : n = peer[c].asked + 1
        BY <4>1
      <4>3. peer' = [peer EXCEPT ![c] = [@ EXCEPT !.inbox = r, !.awaits = TRUE, !.asked = n]]
        BY <3>2, <4>2, <2>1 DEF ask, TypeOK, PeerRec
      <4>4. [peer[c] EXCEPT !.inbox = r, !.awaits = TRUE, !.asked = n] \in PeerRec
        BY <4>1 DEF PeerRec
      <4> QED BY <2>1, <4>3, <4>4 DEF TypeOK
    <3> QED BY <1>2, <3>1, <3>2
  <2>4. TypeOK'
    BY <2>0, <2>1, <2>2, <2>3 DEF TypeOK
  <2>5. ChildrenAwaited' /\ LengthAnnounced'
    BY <2>0 DEF IInv, ChildrenAwaited, LengthAnnounced
  <2>6. ArmedInv' /\ WorkInv'
    BY <2>0, <2>1 DEF Connections, ArmedInv, WorkInv, Serving
  <2> QED BY <2>2, <2>4, <2>5, <2>6 DEF IInv, Connections
<1>3. CASE stall(c)
  <2>1. TypeOK'
    <3>1. (peer \in [Client -> PeerRec])'
      BY <1>3, ZenonT(30) DEF stall, IInv, TypeOK, PeerRec
    <3> QED BY <1>3, <3>1 DEF stall, IInv, TypeOK
  <2>2. ChildrenAwaited' /\ LengthAnnounced'
    BY <1>3 DEF stall, IInv, ChildrenAwaited, LengthAnnounced
  <2>3. Connections'
    BY <1>3 DEF stall, IInv, Connections, EventsInv, ArmedInv, WorkInv, Serving
  <2> QED BY <2>1, <2>2, <2>3 DEF IInv
<1> QED BY <1>1, <1>2, <1>3

(* The scripts' steps. *)
LEMMA ScriptInv ==
    ASSUME IInv, NEW p \in Pid, script_ends(p) \/ execl_fails(p)
    PROVE  IInv'
<1>1. /\ server = "up" /\ child[p].state = "script"
      /\ \E s \in {"zombie", "server"} : child' = [child EXCEPT ![p].state = s]
      /\ UNCHANGED <<server, backlog, fds, armed, events, rcvtimeo, th, error_msg,
                     log_level, sent>>
  BY DEF script_ends, execl_fails
<1>2. TypeOK'
  <2>1. (child \in [Pid -> ChildRec])'
    BY <1>1 DEF IInv, TypeOK, ChildRec
  <2>2. (peer \in [Client -> PeerRec])'
    BY ZenonT(30) DEF script_ends, execl_fails, IInv, TypeOK, PeerRec
  <2>3. (faults \in 0 .. MaxFaults)'
    BY WebServerAssumption DEF script_ends, execl_fails, IInv, TypeOK
  <2> QED BY <1>1, <2>1, <2>2, <2>3 DEF IInv, TypeOK
<1>3. ChildrenAwaited'
  <2>1. Waited' = Waited /\ Waiting' = Waiting
    BY <1>1 DEF IInv, TypeOK, Waited, Waiting
  <2> QED BY <2>1, SameBalance DEF IInv
<1>4. LengthAnnounced' /\ Connections'
  BY <1>1 DEF IInv, LengthAnnounced, Connections, EventsInv, ArmedInv, WorkInv, Serving
<1> QED BY <1>2, <1>3, <1>4 DEF IInv

(* accept: a connection gets a free descriptor, which nobody serves. *)
LEMMA AcceptInv ==
    ASSUME IInv, accept
    PROVE  IInv'
<1>0. /\ server = "up" /\ backlog # <<>> /\ TypeOK /\ Connections
      /\ UNCHANGED <<rcvtimeo, th, child, error_msg, log_level, faults, sent>>
  BY DEF accept, IInv
<1>1. ChildrenAwaited' /\ LengthAnnounced'
  BY <1>0 DEF IInv, ChildrenAwaited, LengthAnnounced
<1>2. CASE FreeFds = {}
  <2>1. server' = "exit" /\ UNCHANGED <<peer, backlog, fds, armed, events>>
    BY <1>2 DEF accept
  <2> QED BY <1>0, <1>1, <2>1 DEF IInv, TypeOK
<1>3. CASE FreeFds # {}
  <2>1. PICK c, f :
          /\ c = Head(backlog) /\ f = LowestFd
          /\ fds' = [fds EXCEPT ![f] = c] /\ armed' = armed \cup {f}
          /\ events' = IF Readable(c) THEN Append(events, f) ELSE events
          /\ peer' = [peer EXCEPT ![c].state = "open"]
          /\ backlog' = Tail(backlog) /\ server' = server
    BY <1>3 DEF accept
  <2>2. c \in Client /\ Tail(backlog) \in Seq(Client)
    BY <1>0, <2>1 DEF TypeOK
  <2>3. f \in Fd /\ fds[f] = None
    BY <1>3, <2>1, LowestIsFree
  <2>4. f \notin armed /\ \A w \in Worker : ~Serving(w, f)
    BY <1>0, <2>3, Marks DEF Connections, ArmedInv, WorkInv, Serving
  <2>5. \A w \in Worker : th[w].pc \in HasFile => th[w].file # f
    BY <1>0, <2>3, Marks DEF Connections, WorkInv
  <2>6. events' \in Seq(Fd) /\ EventsInv'
    <3>1. CASE events' = events
      BY <1>0, <2>1, <3>1 DEF TypeOK, Connections, EventsInv
    <3>2. CASE events' = Append(events, f)
      <4>1. /\ DOMAIN events' = 1 .. Len(events) + 1 /\ DOMAIN events = 1 .. Len(events)
            /\ Len(events) \in Nat /\ events' \in Seq(Fd)
            /\ \A i \in DOMAIN events : events'[i] = events[i]
            /\ events'[Len(events) + 1] = f
        BY <1>0, <2>3, <3>2 DEF TypeOK
      <4> QED BY <1>0, <2>1, <2>4, <4>1 DEF Connections, EventsInv
    <3> QED BY <2>1, <3>1, <3>2
  <2>7. TypeOK'
    <3>1. (peer \in [Client -> PeerRec])'
      BY <1>0, <2>1, <2>2, ZenonT(30) DEF TypeOK, PeerRec
    <3>2. (fds \in [Fd -> Client \cup {File, None}])' /\ armed' \subseteq Fd
      BY <1>0, <2>1, <2>2, <2>3 DEF TypeOK
    <3> QED BY <1>0, <2>1, <2>2, <2>6, <3>1, <3>2 DEF TypeOK
  <2>8. ArmedInv'
    <3>1. \A w \in Worker, g \in Fd : Serving(w, g)' <=> Serving(w, g)
      BY <1>0 DEF Serving
    <3> QED BY <1>0, <2>1, <2>2, <2>3, <2>4, <3>1 DEF Connections, ArmedInv, TypeOK
  <2>9. WorkInv'
    <3>1. \A w \in Worker : th[w].pc # "epoll" => th[w].fd # f /\ th[w].fd \in Fd
      BY <1>0, <2>4 DEF Serving, TypeOK, ThreadRec
    <3> QED BY <1>0, <2>1, <2>5, <3>1 DEF Connections, WorkInv, TypeOK
  <2> QED BY <1>1, <2>6, <2>7, <2>8, <2>9 DEF IInv, Connections
<1> QED BY <1>2, <1>3

(* A worker's step that goes on with its request and touches no descriptor. *)
LEMMA QuietInv ==
    ASSUME IInv, server = "up", NEW w \in Worker, NEW x \in ThreadRec,
           th[w].pc \notin {"epoll", "wait"} \cup HasFile, x.pc \notin {"epoll", "wait"} \cup HasFile,
           x.fd = th[w].fd, x.client = th[w].client, th' = [th EXCEPT ![w] = x],
           peer' \in [Client -> PeerRec], rcvtimeo' \subseteq Fd,
           server' \in {"up", "exit", "crash"}, error_msg' \in {"NULL", "set", "freed"},
           log_level' \in {"access", "error"}, faults' \in 0 .. MaxFaults,
           sent' = sent \/ sent' = Nothing,
           UNCHANGED <<backlog, fds, armed, events, child>>
    PROVE  IInv'
<1>0. TypeOK /\ Connections
  BY DEF IInv
<1>1. TypeOK'
  <2>1. (th \in [Worker -> ThreadRec])'
    BY <1>0 DEF TypeOK
  <2>2. (\A v \in Worker : th[v].pc = "epoll" <=> th[v].fd = None)'
    BY <1>0 DEF TypeOK
  <2>3. (sent.announced \in Int /\ sent.body \in Int)'
    BY <1>0 DEF TypeOK, Nothing
  <2> QED BY <1>0, <2>1, <2>2, <2>3 DEF TypeOK
<1>2. Waited' = Waited /\ Waiting' = Waiting
  BY <1>0 DEF Waited, Waiting, TypeOK
<1>3. LengthAnnounced'
  BY DEF IInv, LengthAnnounced, Nothing
<1>4. Connections'
  BY <1>0, MoveInv DEF TypeOK
<1> QED BY <1>1, <1>2, <1>3, <1>4, SameBalance DEF IInv

(* Another point of the program is all that changes in a thread. *)
LEMMA GotoInv ==
    ASSUME IInv, server = "up", NEW w \in Worker, NEW point \in Points,
           {th[w].pc, point} \cap ({"epoll", "wait"} \cup HasFile) = {}, Goto(w, point),
           peer' \in [Client -> PeerRec], rcvtimeo' \subseteq Fd,
           server' \in {"up", "exit", "crash"}, error_msg' \in {"NULL", "set", "freed"},
           log_level' \in {"access", "error"}, faults' \in 0 .. MaxFaults,
           sent' = sent \/ sent' = Nothing,
           UNCHANGED <<backlog, fds, armed, events, child>>
    PROVE  IInv'
<1>1. PICK x : x = [th[w] EXCEPT !.pc = point]
  OBVIOUS
<1>2. x \in ThreadRec /\ x.pc = point /\ x.fd = th[w].fd /\ x.client = th[w].client
  BY <1>1, ZenonT(30) DEF IInv, TypeOK, ThreadRec
<1>3. th' = [th EXCEPT ![w] = x]
  BY <1>1 DEF Goto
<1> QED BY <1>2, <1>3, QuietInv

(* A step that ends the process, or that leaves its threads where they are. *)
LEMMA EndInv ==
    ASSUME IInv, server = "up", server' \in {"exit", "crash"},
           error_msg' \in {"NULL", "set", "freed"}, log_level' \in {"access", "error"},
           UNCHANGED <<th, peer, backlog, fds, armed, events, rcvtimeo, child, faults, sent>>
    PROVE  IInv'
<1>1. TypeOK'
  BY DEF IInv, TypeOK
<1>2. ChildrenAwaited' /\ LengthAnnounced'
  BY DEF IInv, ChildrenAwaited, LengthAnnounced
<1> QED BY <1>1, <1>2 DEF IInv

(* A field of a connection that is not among the types of the others. *)
LEMMA PeerAnswered ==
    ASSUME TypeOK, NEW c, peer' = [peer EXCEPT ![c].awaits = FALSE]
    PROVE  peer' \in [Client -> PeerRec]
BY DEF TypeOK, PeerRec

(* The steps of a worker with its request. *)
LEMMA RequestInv ==
    ASSUME IInv, NEW w \in Worker,
           \/ init_worker(w) \/ free_error(w) \/ forget_error(w) \/ recv(w) \/ timeout(w)
           \/ serve(w) \/ reply(w) \/ build_log(w) \/ log_request(w) \/ keep(w)
    PROVE  IInv'
<1> USE DEF At, external, Sockets, Globals, HasFile
<1>0. TypeOK /\ th[w] \in ThreadRec
  BY DEF IInv, TypeOK
<1>1. CASE init_worker(w) \/ timeout(w) \/ serve(w)
  <2>1. PICK point \in {"recv", "free", "leave", "reply", "fopen", "log"} :
          /\ Goto(w, point) /\ server = "up" /\ th[w].pc \in {"init", "recv", "serve"}
          /\ UNCHANGED <<server, external, Sockets, Globals, faults, sent>>
    BY <1>1 DEF init_worker, timeout, serve
  <2> QED BY <1>0, <2>1, GotoInv DEF TypeOK, Points
<1>2. CASE free_error(w)
  <2>1. CASE server' = "crash"
    BY <1>0, <1>2, <2>1, EndInv DEF free_error, TypeOK
  <2>2. CASE server' # "crash"
    BY <1>0, <1>2, <2>2, GotoInv DEF free_error, TypeOK, Points
  <2> QED BY <2>1, <2>2
<1>3. CASE recv(w)
  <2> DEFINE c == th[w].client
  <2>1. CASE Goto(w, "leave") /\ UNCHANGED <<peer, log_level>>
    BY <1>0, <1>3, <2>1, GotoInv DEF recv, TypeOK, Points
  <2>2. CASE ~ (Goto(w, "leave") /\ UNCHANGED <<peer, log_level>>)
    <3>1. /\ server = "up" /\ th[w].pc = "recv" /\ peer[c].inbox # NoRequest
          /\ th' = [th EXCEPT ![w].pc = "serve", ![w].req = peer[c].inbox]
          /\ peer' = [peer EXCEPT ![c].inbox = NoRequest] /\ log_level' = "access"
          /\ UNCHANGED <<server, backlog, child, Sockets, error_msg, faults, sent>>
      BY <1>3, <2>2 DEF recv
    <3>2. c \in Client /\ peer[c].inbox \in Requests \cup {NoRequest}
      BY <1>0, <3>1 DEF IInv, Connections, WorkInv, TypeOK, PeerRec
    <3>3. PICK x : x = [th[w] EXCEPT !.pc = "serve", !.req = peer[c].inbox]
      OBVIOUS
    <3>4. x \in ThreadRec /\ x.pc = "serve" /\ x.fd = th[w].fd /\ x.client = c
      BY <1>0, <3>2, <3>3 DEF ThreadRec, Points
    <3>5. th' = [th EXCEPT ![w] = x]
      BY <1>0, <3>1, <3>3 DEF TypeOK
    <3>6. peer' \in [Client -> PeerRec]
      BY <1>0, <3>1 DEF TypeOK, PeerRec
    <3> QED BY <1>0, <3>1, <3>4, <3>5, <3>6, QuietInv, ZenonT(30) DEF TypeOK
  <2> QED BY <2>1, <2>2
<1>4. CASE reply(w)
  <2>1. peer' \in [Client -> PeerRec]
    BY <1>0, <1>4, PeerAnswered DEF reply
  <2> QED BY <1>0, <1>4, <2>1, GotoInv DEF reply, TypeOK, Points
<1>5. CASE build_log(w)
  <2>1. PICK x : x = [th[w] EXCEPT !.pc = "write log", !.built = EntryKind]
    OBVIOUS
  <2>2. x \in ThreadRec /\ x.pc = "write log" /\ x.fd = th[w].fd /\ x.client = th[w].client
    BY <1>0, <2>1 DEF ThreadRec, Points, EntryKind
  <2>3. th' = [th EXCEPT ![w] = x]
    BY <1>0, <1>5, <2>1 DEF build_log, TypeOK
  <2>4. /\ server = "up" /\ th[w].pc = "log" /\ sent' = Nothing
        /\ UNCHANGED <<server, peer, backlog, child, fds, armed, events, rcvtimeo,
                       error_msg, log_level, faults>>
    BY <1>5 DEF build_log
  <2>5. /\ peer' \in [Client -> PeerRec] /\ rcvtimeo' \subseteq Fd
        /\ server' \in {"up", "exit", "crash"} /\ error_msg' \in {"NULL", "set", "freed"}
        /\ log_level' \in {"access", "error"} /\ faults' \in 0 .. MaxFaults
    BY <1>0, <2>4 DEF TypeOK
  <2> QED BY <2>2, <2>3, <2>4, <2>5, QuietInv
<1>6. CASE log_request(w)
  <2>1. CASE server' \in {"exit", "crash"}
    BY <1>0, <1>6, <2>1, EndInv DEF log_request, TypeOK
  <2>2. CASE server' \notin {"exit", "crash"}
    BY <1>0, <1>6, <2>2, GotoInv DEF log_request, TypeOK, Points
  <2> QED BY <2>1, <2>2
<1>7. CASE keep(w)
  <2>0. /\ server = "up" /\ th[w].pc = "keep" /\ th[w].fd \in Fd
        /\ UNCHANGED <<server, external, fds, armed, events, sent>>
    BY <1>0, <1>7 DEF keep, TypeOK, ThreadRec
  <2>1. CASE Goto(w, "leave") /\ UNCHANGED <<rcvtimeo, Globals, faults>>
    BY <1>0, <2>0, <2>1, GotoInv DEF TypeOK, Points
  <2>2. CASE ~ (Goto(w, "leave") /\ UNCHANGED <<rcvtimeo, Globals, faults>>)
    <3>1. NextRequest(w)
      BY <1>7, <2>2 DEF keep
    <3>2. /\ rcvtimeo' \subseteq Fd /\ error_msg' \in {"NULL", "set", "freed"}
          /\ log_level' \in {"access", "error"} /\ faults' \in 0 .. MaxFaults
      BY <1>0, <1>7, <2>0, WebServerAssumption DEF keep, WithTimeout, TypeOK
    <3>3. PICK x : x = [th[w] EXCEPT !.pc = "init", !.req = NoRequest, !.built = "access"]
      OBVIOUS
    <3>4. x \in ThreadRec /\ x.pc = "init" /\ x.fd = th[w].fd /\ x.client = th[w].client
      BY <1>0, <3>3 DEF ThreadRec, Points
    <3>5. th' = [th EXCEPT ![w] = x]
      BY <3>1, <3>3 DEF NextRequest
    <3> QED BY <1>0, <2>0, <3>2, <3>4, <3>5, QuietInv DEF TypeOK
  <2> QED BY <2>1, <2>2
<1>8. CASE forget_error(w)
  BY <1>0, <1>8, GotoInv DEF forget_error, TypeOK, Points
<1> QED BY <1>1, <1>2, <1>3, <1>4, <1>5, <1>6, <1>7, <1>8

(* epoll_wait: the descriptor passes from the epoll set to one worker. *)
LEMMA EpollInv ==
    ASSUME IInv, NEW w \in Worker, epoll_wait(w)
    PROVE  IInv'
<1>0. TypeOK /\ Connections /\ th[w] \in ThreadRec /\ th[w].pc = "epoll" /\ server = "up"
  BY DEF IInv, TypeOK, epoll_wait, At
<1>1. PICK f : /\ f = Head(events) /\ events # <<>> /\ armed' = armed \ {f}
               /\ th' = [th EXCEPT ![w].pc = "init", ![w].fd = f, ![w].client = fds[f]]
               /\ events' = Tail(events)
               /\ UNCHANGED <<server, peer, backlog, child, fds, rcvtimeo, error_msg,
                              log_level, faults, sent>>
  BY DEF epoll_wait, Delivered, external, Globals
<1>2. /\ Len(events) \in Nat /\ DOMAIN events = 1 .. Len(events) /\ 1 \in DOMAIN events
      /\ f = events[1] /\ events' \in Seq(Fd) /\ DOMAIN events' = 1 .. Len(events) - 1
      /\ \A i \in DOMAIN events' : i + 1 \in DOMAIN events /\ events'[i] = events[i + 1]
  BY <1>0, <1>1 DEF TypeOK
<1>3. f \in armed /\ f \in Fd /\ fds[f] \in Client /\ \A v \in Worker : ~Serving(v, f)
  BY <1>0, <1>2 DEF Connections, EventsInv, ArmedInv, TypeOK
<1>4. EventsInv'
  BY <1>0, <1>1, <1>2 DEF Connections, EventsInv
<1>5. PICK x : x = [th[w] EXCEPT !.pc = "init", !.fd = f, !.client = fds[f]]
  OBVIOUS
<1>6. x \in ThreadRec /\ x.pc = "init" /\ x.fd = f /\ x.client = fds[f]
  BY <1>0, <1>3, <1>5 DEF ThreadRec, Points
<1>7. th' = [th EXCEPT ![w] = x]
  BY <1>0, <1>1, <1>5 DEF TypeOK
<1>8. TypeOK'
  <2>1. (th \in [Worker -> ThreadRec])'
    BY <1>0, <1>6, <1>7 DEF TypeOK
  <2>2. (\A v \in Worker : th[v].pc = "epoll" <=> th[v].fd = None)'
    BY <1>0, <1>3, <1>6, <1>7, Marks DEF TypeOK
  <2> QED BY <1>0, <1>1, <1>2, <2>1, <2>2 DEF TypeOK
<1>9. Waited' = Waited /\ Waiting' = Waiting
  BY <1>0, <1>1, <1>6, <1>7 DEF Waited, Waiting, TypeOK
<1>10. \A v \in Worker, g \in Fd : Serving(v, g)' <=> Serving(v, g) \/ (v = w /\ g = f)
  BY <1>0, <1>6, <1>7 DEF Serving, TypeOK
<1>11. ArmedInv'
  BY <1>0, <1>1, <1>3, <1>10 DEF Connections, ArmedInv, TypeOK
<1>12. WorkInv'
  <2>1. \A v \in Worker : v # w => th'[v] = th[v] /\ (th[v].pc # "epoll" => th[v].fd # f)
    BY <1>0, <1>3, <1>7 DEF Serving, TypeOK
  <2>2. \A v \in Worker : th[v].pc = "epoll" => th[v].fd # f
    BY <1>0, <1>3, Marks DEF TypeOK
  <2>3. th'[w] = x
    BY <1>0, <1>7 DEF TypeOK
  <2>4. \A v \in Worker : v # w => th[v].fd # f
    BY <2>1, <2>2
  <2>5. \A v \in Worker : th'[v].pc # "epoll" =>
          th'[v].client \in Client /\ fds'[th'[v].fd] = th'[v].client
    BY <1>0, <1>1, <1>3, <1>6, <2>1, <2>3, ZenonT(30) DEF Connections, WorkInv
  <2>6. \A u, v \in Worker : th'[v].pc # "epoll" /\ th'[u].fd = th'[v].fd => u = v
    <3> SUFFICES ASSUME NEW u \in Worker, NEW v \in Worker, th'[v].pc # "epoll",
                        th'[u].fd = th'[v].fd, u # v
                 PROVE  FALSE
      OBVIOUS
    <3>1. CASE u # w /\ v # w
      BY <1>0, <2>1, <3>1 DEF Connections, WorkInv
    <3>2. CASE u = w \/ v = w
      BY <1>6, <2>1, <2>3, <2>4, <3>2
    <3> QED BY <3>1, <3>2
  <2>7. \A v \in Worker : th'[v].pc \in HasFile => v # w /\ th'[v] = th[v]
    BY <1>6, <2>1, <2>3 DEF HasFile
  <2>8. \A v \in Worker : th'[v].pc \in HasFile =>
          th'[v].file \in Fd /\ fds'[th'[v].file] = File
    BY <1>0, <1>1, <2>7 DEF Connections, WorkInv
  <2>9. \A u, v \in Worker :
          th'[u].pc \in HasFile /\ th'[v].pc \in HasFile /\ th'[u].file = th'[v].file => u = v
    BY <1>0, <2>7 DEF Connections, WorkInv
  <2> QED BY <2>5, <2>6, <2>8, <2>9 DEF WorkInv
<1>13. LengthAnnounced'
  BY <1>1 DEF IInv, LengthAnnounced
<1> QED BY <1>4, <1>8, <1>9, <1>11, <1>12, <1>13, SameBalance DEF IInv, Connections

(* leave: the worker closes its descriptor and nothing else. *)
LEMMA LeaveInv ==
    ASSUME IInv, NEW w \in Worker, leave(w)
    PROVE  IInv'
<1>0. /\ TypeOK /\ Connections /\ th[w] \in ThreadRec /\ th[w].pc = "leave" /\ server = "up"
  BY DEF IInv, TypeOK, leave, At
<1>1. PICK f : /\ f = th[w].fd /\ armed' = armed \ {f} /\ fds' = [fds EXCEPT ![f] = None]
               /\ rcvtimeo' = rcvtimeo \ {f} /\ th' = [th EXCEPT ![w] = Idle]
               /\ peer' = [peer EXCEPT ![fds[f]] =
                     [NewPeer EXCEPT !.state = "closed", !.stalled = peer[fds[f]].stalled]]
               /\ UNCHANGED <<server, backlog, events, child, error_msg, log_level,
                              faults, sent>>
  BY DEF leave, Returned, Globals
<1>2. f \in Fd /\ fds[f] \in Client /\ Serving(w, f)
  BY <1>0, <1>1 DEF TypeOK, ThreadRec, Connections, WorkInv, Serving
<1>3. f \notin armed /\ \A v \in Worker : v # w => th[v].fd # f
  BY <1>0, <1>1, <1>2 DEF Connections, ArmedInv, WorkInv
<1>4. Idle \in ThreadRec /\ Idle.pc = "epoll" /\ Idle.fd = None
  BY DEF Idle, ThreadRec, Points
<1>5. TypeOK'
  <2>1. (th \in [Worker -> ThreadRec])'
    BY <1>0, <1>1, <1>4 DEF TypeOK
  <2>2. (\A v \in Worker : th[v].pc = "epoll" <=> th[v].fd = None)'
    BY <1>0, <1>1, <1>4 DEF TypeOK
  <2>3. [NewPeer EXCEPT !.state = "closed", !.stalled = peer[fds[f]].stalled] \in PeerRec
    <3>1. peer[fds[f]].stalled \in BOOLEAN
      BY <1>0, <1>2 DEF TypeOK, PeerRec
    <3> QED BY <3>1 DEF NewPeer, PeerRec
  <2>4. (peer \in [Client -> PeerRec])'
    BY <1>0, <1>1, <2>3 DEF TypeOK
  <2>5. (fds \in [Fd -> Client \cup {File, None}])'
    BY <1>0, <1>1 DEF TypeOK
  <2> QED BY <1>0, <1>1, <2>1, <2>2, <2>4, <2>5 DEF TypeOK
<1>6. Waited' = Waited /\ Waiting' = Waiting
  BY <1>0, <1>1, <1>4 DEF Waited, Waiting, TypeOK
<1>7. EventsInv'
  BY <1>0, <1>1, <1>3 DEF Connections, EventsInv
<1>8. \A v \in Worker, g \in Fd : g # f => (Serving(v, g)' <=> Serving(v, g))
  BY <1>0, <1>1, <1>4 DEF Serving, TypeOK
<1>9. ArmedInv'
  BY <1>0, <1>1, <1>2, <1>3, <1>8, Marks DEF Connections, ArmedInv, TypeOK
<1>10. WorkInv'
  <2>1. \A v \in Worker : v # w => th'[v] = th[v] /\ th[v].fd # f
    BY <1>0, <1>1, <1>3 DEF TypeOK
  <2>2. th'[w].pc = "epoll" /\ th'[w].fd = None
    BY <1>0, <1>1, <1>4 DEF TypeOK
  <2>3. \A v \in Worker : th[v].pc \in HasFile => th[v].file # f
    BY <1>0, <1>2, Marks DEF Connections, WorkInv
  <2>4. \A v \in Worker : th[v].pc # "epoll" => th[v].fd \in Fd /\ th[v].fd # None
    BY <1>0 DEF TypeOK, ThreadRec
  <2> QED BY <1>0, <1>1, <1>2, <2>1, <2>2, <2>3, <2>4 DEF Connections, WorkInv, TypeOK, HasFile
<1>11. LengthAnnounced'
  BY <1>1 DEF IInv, LengthAnnounced
<1> QED BY <1>5, <1>6, <1>7, <1>9, <1>10, <1>11, SameBalance DEF IInv, Connections

(* fork: one more child, and one more worker that waits. *)
LEMMA ForkInv ==
    ASSUME IInv, NEW w \in Worker, fork(w)
    PROVE  IInv'
<1>0. TypeOK /\ Connections /\ th[w] \in ThreadRec /\ th[w].pc = "serve" /\ server = "up"
  BY DEF IInv, TypeOK, fork, At
<1> DEFINE unborn == {p \in Pid : child[p].state = "unborn"}
<1>1. PICK pid : /\ pid = (CHOOSE p \in unborn : \A q \in unborn : p <= q) /\ unborn # {}
                 /\ child' = [child EXCEPT ![pid] = [state |-> "script", client |-> th[w].client]]
                 /\ th' = [th EXCEPT ![w].pc = "wait"]
                 /\ UNCHANGED <<server, peer, backlog, fds, armed, events, rcvtimeo,
                                error_msg, log_level, faults, sent>>
  BY DEF fork, Goto, ParentGoesTo, Sockets, Globals
<1>2. pid \in Pid /\ child[pid].state = "unborn"
  <2>1. unborn \in SUBSET Nat
    BY Marks
  <2>2. \E p \in unborn : \A q \in unborn : p <= q
    BY <1>1, <2>1, LeastExists
  <2>3. pid \in unborn
    BY <1>1, <2>2
  <2> QED BY <2>3
<1>3. [state |-> "script", client |-> th[w].client] \in ChildRec
  BY <1>0 DEF ThreadRec, ChildRec
<1>4. (child \in [Pid -> ChildRec])' /\ (th \in [Worker -> ThreadRec])'
  BY <1>0, <1>1, <1>3 DEF TypeOK, ThreadRec, Points
<1>5. TypeOK'
  <2>1. (\A v \in Worker : th[v].pc = "epoll" <=> th[v].fd = None)'
    BY <1>0, <1>1 DEF TypeOK, ThreadRec
  <2> QED BY <1>0, <1>1, <1>4, <2>1 DEF TypeOK
<1>6. Connections'
  <2>1. /\ th'[w].pc = "wait" /\ th'[w].fd = th[w].fd /\ th'[w].client = th[w].client
        /\ \A v \in Worker : v # w => th'[v] = th[v]
    BY <1>0, <1>1 DEF TypeOK, ThreadRec
  <2> QED BY <1>0, <1>1, <2>1, MoveInv DEF HasFile
<1>7. ChildrenAwaited'
  <2>1. Waited' = Waited \cup {pid} /\ pid \notin Waited
    BY <1>0, <1>1, <1>2 DEF Waited, TypeOK
  <2>2. Waiting' = Waiting \cup {w} /\ w \notin Waiting
    BY <1>0, <1>1 DEF Waiting, TypeOK, ThreadRec
  <2>3. /\ Cardinality(Waited') = Cardinality(Waited) + 1
        /\ Cardinality(Waiting') = Cardinality(Waiting) + 1
    BY <2>1, <2>2, BalanceFinite, FS_AddElement
  <2> QED BY <2>3 DEF IInv, ChildrenAwaited, Waited, Waiting
<1>8. LengthAnnounced'
  BY <1>1 DEF IInv, LengthAnnounced
<1> QED BY <1>5, <1>6, <1>7, <1>8 DEF IInv

(* wait: one child less, whoever forked it, and one worker less. *)
LEMMA WaitInv ==
    ASSUME IInv, NEW w \in Worker, wait(w)
    PROVE  IInv'
<1>0. TypeOK /\ Connections /\ th[w] \in ThreadRec /\ th[w].pc = "wait" /\ server = "up"
  BY DEF IInv, TypeOK, wait, At
<1>1. PICK p \in Pid : /\ child[p].state = "zombie"
                       /\ child' = [child EXCEPT ![p] = [state |-> "reaped", client |-> None]]
  BY DEF wait
<1>2. /\ th' = [th EXCEPT ![w].pc = "log"]
      /\ UNCHANGED <<server, peer, backlog, fds, armed, events, rcvtimeo, error_msg,
                     log_level, faults, sent>>
  BY DEF wait, Goto, Sockets, Globals
<1>3. (child \in [Pid -> ChildRec])' /\ (th \in [Worker -> ThreadRec])'
  BY <1>0, <1>1, <1>2 DEF TypeOK, ThreadRec, ChildRec, Points
<1>4. TypeOK'
  <2>1. (\A v \in Worker : th[v].pc = "epoll" <=> th[v].fd = None)'
    BY <1>0, <1>2 DEF TypeOK, ThreadRec
  <2> QED BY <1>0, <1>2, <1>3, <2>1 DEF TypeOK
<1>5. Connections'
  <2>1. /\ th'[w].pc = "log" /\ th'[w].fd = th[w].fd /\ th'[w].client = th[w].client
        /\ \A v \in Worker : v # w => th'[v] = th[v]
    BY <1>0, <1>2 DEF TypeOK, ThreadRec
  <2> QED BY <1>0, <1>2, <2>1, MoveInv DEF HasFile
<1>6. ChildrenAwaited'
  <2>1. Waited' = Waited \ {p} /\ p \in Waited
    BY <1>0, <1>1 DEF Waited, TypeOK
  <2>2. Waiting' = Waiting \ {w} /\ w \in Waiting
    BY <1>0, <1>2 DEF Waiting, TypeOK, ThreadRec
  <2>3. /\ Cardinality(Waited') = Cardinality(Waited) - 1
        /\ Cardinality(Waiting') = Cardinality(Waiting) - 1
    BY <2>1, <2>2, BalanceFinite, FS_RemoveElement
  <2> QED BY <2>3 DEF IInv, ChildrenAwaited, Waited, Waiting
<1>7. LengthAnnounced'
  BY <1>2 DEF IInv, LengthAnnounced
<1> QED BY <1>4, <1>5, <1>6, <1>7 DEF IInv

(* fopen and open: a file gets a free descriptor. *)
LEMMA TakesFd ==
    ASSUME IInv, NEW w \in Worker, server = "up", FreeFds # {}, NEW point \in HasFile,
           th[w].pc \in {"fopen", "open"},
           fds' = [fds EXCEPT ![LowestFd] = File],
           th' = [th EXCEPT ![w].pc = point, ![w].file = LowestFd],
           UNCHANGED <<server, peer, backlog, child, armed, events, rcvtimeo,
                       error_msg, log_level, faults, sent>>
    PROVE  IInv'
<1>0. TypeOK /\ Connections /\ th[w] \in ThreadRec /\ th[w].pc \notin {"epoll", "wait"} \cup HasFile
  BY DEF IInv, TypeOK, HasFile
<1>1. PICK f : /\ f = LowestFd /\ fds' = [fds EXCEPT ![f] = File]
               /\ th' = [th EXCEPT ![w].pc = point, ![w].file = f]
               /\ UNCHANGED <<server, peer, backlog, child, armed, events, rcvtimeo,
                              error_msg, log_level, faults, sent>>
  OBVIOUS
<1>2. f \in Fd /\ fds[f] = None
  BY <1>1, LowestIsFree
<1>3. PICK x : x = [th[w] EXCEPT !.pc = point, !.file = f]
  OBVIOUS
<1>4. /\ x \in ThreadRec /\ x.pc = point /\ x.pc \notin {"epoll", "wait"} /\ x.file = f
      /\ x.fd = th[w].fd /\ x.client = th[w].client
  BY <1>0, <1>2, <1>3 DEF ThreadRec, Points, HasFile
<1>5. /\ th' = [th EXCEPT ![w] = x] /\ th'[w] = x
      /\ \A v \in Worker : v # w => th'[v] = th[v]
  BY <1>0, <1>1, <1>3 DEF TypeOK
<1>6. TypeOK'
  <2>1. (th \in [Worker -> ThreadRec])'
    BY <1>0, <1>4, <1>5 DEF TypeOK
  <2>2. (\A v \in Worker : th[v].pc = "epoll" <=> th[v].fd = None)'
    BY <1>0, <1>4, <1>5 DEF TypeOK
  <2>3. (fds \in [Fd -> Client \cup {File, None}])'
    BY <1>0, <1>1 DEF TypeOK
  <2> QED BY <1>0, <1>1, <2>1, <2>2, <2>3 DEF TypeOK
<1>7. Waited' = Waited /\ Waiting' = Waiting
  BY <1>0, <1>1, <1>4, <1>5 DEF Waited, Waiting, HasFile
<1>8. EventsInv'
  BY <1>0, <1>1 DEF Connections, EventsInv
<1>9. ArmedInv'
  <2>1. \A v \in Worker, g \in Fd : Serving(v, g)' <=> Serving(v, g)
    BY <1>0, <1>4, <1>5 DEF Serving
  <2>2. f \notin armed
    BY <1>0, <1>2, Marks DEF Connections, ArmedInv
  <2> QED BY <1>0, <1>1, <1>2, <2>1, <2>2, Marks DEF Connections, ArmedInv, TypeOK
<1>10. WorkInv'
  <2>1. \A v \in Worker : th[v].pc # "epoll" => th[v].fd \in Fd /\ th[v].fd # f
    BY <1>0, <1>2, Marks DEF Connections, WorkInv, TypeOK, ThreadRec
  <2>2. \A v \in Worker : th[v].pc \in HasFile => th[v].file # f
    BY <1>0, <1>2, Marks DEF Connections, WorkInv
  <2>3. \A v \in Worker : /\ th'[v].fd = th[v].fd /\ th'[v].client = th[v].client
                          /\ th'[v].pc # "epoll" <=> th[v].pc # "epoll"
    BY <1>0, <1>4, <1>5
  <2>4. \A v \in Worker : th'[v].pc # "epoll" =>
          th'[v].client \in Client /\ fds'[th'[v].fd] = th'[v].client
    BY <1>0, <1>1, <2>1, <2>3 DEF Connections, WorkInv, TypeOK
  <2>5. \A v \in Worker : th'[v].pc \in HasFile =>
          th'[v].file \in Fd /\ fds'[th'[v].file] = File
    BY <1>0, <1>1, <1>2, <1>4, <1>5, <2>2 DEF Connections, WorkInv, TypeOK
  <2>6. \A u, v \in Worker :
          th'[u].pc \in HasFile /\ th'[v].pc \in HasFile /\ th'[u].file = th'[v].file => u = v
    <3>1. \A v \in Worker : v # w => th'[v] = th[v] /\ (th[v].pc \in HasFile => th'[v].file # th'[w].file)
      BY <1>4, <1>5, <2>2
    <3>2. \A u, v \in Worker :
            th[u].pc \in HasFile /\ th[v].pc \in HasFile /\ th[u].file = th[v].file => u = v
      BY <1>0 DEF Connections, WorkInv
    <3> QED BY <3>1, <3>2
  <2>7. \A u, v \in Worker : th'[v].pc # "epoll" /\ th'[u].fd = th'[v].fd => u = v
    BY <1>0, <2>3 DEF Connections, WorkInv
  <2> QED BY <2>4, <2>5, <2>6, <2>7 DEF WorkInv
<1>11. LengthAnnounced'
  BY <1>1 DEF IInv, LengthAnnounced
<1> QED BY <1>6, <1>7, <1>8, <1>9, <1>10, <1>11, SameBalance DEF IInv, Connections

(* fopen: that, or 404. *)
LEMMA FopenInv ==
    ASSUME IInv, NEW w \in Worker, fopen(w)
    PROVE  IInv'
<1>0. TypeOK /\ th[w].pc = "fopen" /\ server = "up"
  BY DEF IInv, fopen, At
<1>1. CASE FreeFds = {}
  BY <1>0, <1>1, GotoInv DEF fopen, external, Globals, TypeOK, Points, HasFile
<1>2. CASE FreeFds # {}
  BY <1>0, <1>2, TakesFd DEF fopen, external, Globals, HasFile
<1> QED BY <1>1, <1>2

(* open: that, or the process ends. *)
LEMMA OpenInv ==
    ASSUME IInv, NEW w \in Worker, open(w)
    PROVE  IInv'
<1>0. TypeOK /\ th[w].pc = "open" /\ server = "up"
  BY DEF IInv, open, At
<1>1. CASE FreeFds = {}
  BY <1>0, <1>1, EndInv DEF open, external, Globals, TypeOK
<1>2. CASE FreeFds # {}
  BY <1>0, <1>2, TakesFd DEF open, external, Globals, HasFile
<1> QED BY <1>1, <1>2

(* fclose and close: the file's descriptor is free again. *)
LEMMA GivesFd ==
    ASSUME IInv, NEW w \in Worker, server = "up", th[w].pc \in HasFile,
           NEW point \in {"open", "log"},
           fds' = [fds EXCEPT ![th[w].file] = None],
           th' = [th EXCEPT ![w].pc = point, ![w].file = None],
           peer' \in [Client -> PeerRec], LengthAnnounced',
           sent'.announced \in Int, sent'.body \in Int,
           UNCHANGED <<server, backlog, armed, events, rcvtimeo, child, error_msg,
                       log_level, faults>>
    PROVE  IInv'
<1>0. TypeOK /\ Connections /\ th[w] \in ThreadRec /\ th[w].pc \notin {"epoll", "wait"}
  BY DEF IInv, TypeOK, HasFile
<1>1. PICK f : /\ f = th[w].file /\ fds' = [fds EXCEPT ![f] = None]
               /\ th' = [th EXCEPT ![w].pc = point, ![w].file = None]
  OBVIOUS
<1>2. f \in Fd /\ fds[f] = File
  BY <1>0, <1>1 DEF Connections, WorkInv
<1>3. PICK x : x = [th[w] EXCEPT !.pc = point, !.file = None]
  OBVIOUS
<1>4. x \in ThreadRec /\ x.pc = point /\ x.fd = th[w].fd /\ x.client = th[w].client
  BY <1>0, <1>3 DEF ThreadRec, Points
<1>5. /\ th' = [th EXCEPT ![w] = x] /\ th'[w] = x
      /\ \A v \in Worker : v # w => th'[v] = th[v]
  BY <1>0, <1>1, <1>3 DEF TypeOK
<1>6. TypeOK'
  <2>1. (th \in [Worker -> ThreadRec])'
    BY <1>0, <1>4, <1>5 DEF TypeOK
  <2>2. (\A v \in Worker : th[v].pc = "epoll" <=> th[v].fd = None)'
    BY <1>0, <1>4, <1>5 DEF TypeOK
  <2>3. (fds \in [Fd -> Client \cup {File, None}])'
    BY <1>0, <1>1 DEF TypeOK
  <2> QED BY <1>0, <1>1, <2>1, <2>2, <2>3 DEF TypeOK
<1>7. Waited' = Waited /\ Waiting' = Waiting
  BY <1>0, <1>1, <1>4, <1>5 DEF Waited, Waiting, HasFile
<1>8. EventsInv'
  BY <1>0, <1>1 DEF Connections, EventsInv
<1>9. ArmedInv'
  <2>1. \A v \in Worker, g \in Fd : Serving(v, g)' <=> Serving(v, g)
    BY <1>0, <1>4, <1>5 DEF Serving
  <2>2. f \notin armed
    BY <1>0, <1>2, Marks DEF Connections, ArmedInv
  <2> QED BY <1>0, <1>1, <1>2, <2>1, <2>2, Marks DEF Connections, ArmedInv, TypeOK
<1>10. WorkInv'
  <2>1. \A v \in Worker : th[v].pc # "epoll" => th[v].fd \in Fd /\ th[v].fd # f
    BY <1>0, <1>2, Marks DEF Connections, WorkInv, TypeOK, ThreadRec
  <2>2. \A v \in Worker : th'[v].pc \in HasFile => v # w /\ th'[v] = th[v] /\ th[v].file # f
    <3>1. \A v \in Worker : th'[v].pc \in HasFile => v # w /\ th'[v] = th[v]
      BY <1>4, <1>5 DEF HasFile
    <3>2. \A v \in Worker : v # w /\ th[v].pc \in HasFile => th[v].file # f
      BY <1>0, <1>1 DEF Connections, WorkInv
    <3> QED BY <3>1, <3>2
  <2>3. \A v \in Worker : /\ th'[v].fd = th[v].fd /\ th'[v].client = th[v].client
                          /\ th'[v].pc # "epoll" <=> th[v].pc # "epoll"
    BY <1>0, <1>4, <1>5
  <2>4. \A v \in Worker : th'[v].pc # "epoll" =>
          th'[v].client \in Client /\ fds'[th'[v].fd] = th'[v].client
    BY <1>0, <1>1, <2>1, <2>3 DEF Connections, WorkInv, TypeOK
  <2>5. \A v \in Worker : th'[v].pc \in HasFile =>
          th'[v].file \in Fd /\ fds'[th'[v].file] = File
    BY <1>0, <1>1, <2>2 DEF Connections, WorkInv, TypeOK
  <2>6. \A u, v \in Worker : th'[v].pc # "epoll" /\ th'[u].fd = th'[v].fd => u = v
    BY <1>0, <2>3 DEF Connections, WorkInv
  <2> QED BY <1>0, <2>2, <2>4, <2>5, <2>6 DEF Connections, WorkInv
<1> QED BY <1>6, <1>7, <1>8, <1>9, <1>10, SameBalance DEF IInv, Connections

(* fclose: that, and nothing else. *)
LEMMA FcloseInv ==
    ASSUME IInv, NEW w \in Worker, fclose(w)
    PROVE  IInv'
<1>1. LengthAnnounced' /\ sent'.announced \in Int /\ sent'.body \in Int
  BY DEF fclose, IInv, TypeOK, LengthAnnounced
<1>2. peer' \in [Client -> PeerRec]
  BY DEF fclose, external, IInv, TypeOK
<1> QED BY <1>1, <1>2, GivesFd DEF fclose, At, external, Globals, HasFile

(* send_file: what is announced is what is left of the file, and the file   *)
(* is closed.                                                               *)
LEMMA SendInv ==
    ASSUME IInv, NEW w \in Worker, send_file(w)
    PROVE  IInv'
<1>0. /\ TypeOK /\ th[w] \in ThreadRec /\ th[w].pc = "send" /\ server = "up"
  BY DEF IInv, TypeOK, send_file, At
<1>1. PICK r :
        /\ r = th[w].req /\ fds' = [fds EXCEPT ![th[w].file] = None]
        /\ sent' = [announced |-> ContentLength(r),
                    body |-> IF FileSize - Offset(r) > 0 THEN FileSize - Offset(r) ELSE 0,
                    end |-> r.end]
        /\ th' = [th EXCEPT ![w].pc = "log", ![w].file = None]
        /\ peer' = [peer EXCEPT ![th[w].client].awaits = FALSE]
        /\ UNCHANGED <<server, backlog, armed, events, rcvtimeo, child, error_msg,
                       log_level, faults>>
  BY DEF send_file, Globals
<1>2. r.start \in Int /\ r.end \in Int /\ FileSize \in Nat
  BY <1>0, <1>1, WebServerAssumption DEF ThreadRec, NoRequest
<1>3. LengthAnnounced' /\ sent'.announced \in Int /\ sent'.body \in Int
  BY <1>1, <1>2 DEF LengthAnnounced, ContentLength, Offset
<1>4. peer' \in [Client -> PeerRec]
  BY <1>0, <1>1, PeerAnswered
<1> QED BY <1>0, <1>1, <1>3, <1>4, GivesFd DEF HasFile

(* Every step preserves the invariant. *)
LEMMA NextInv == IInv /\ [Next]_vars => IInv'
<1> SUFFICES ASSUME IInv, [Next]_vars PROVE IInv'
  OBVIOUS
<1>1. ASSUME NEW w \in Worker, WorkerStep(w) PROVE IInv'
  BY <1>1, EpollInv, LeaveInv, ForkInv, WaitInv, FopenInv, FcloseInv, OpenInv, SendInv, RequestInv
     DEF WorkerStep
<1>2. CASE UNCHANGED vars
  BY <1>2 DEF vars, IInv, TypeOK, ChildrenAwaited, LengthAnnounced, Connections,
     EventsInv, ArmedInv, WorkInv, Serving
<1> QED BY <1>1, <1>2, ClientInv, ScriptInv, AcceptInv DEF Next, Finished

(* The inductive invariant holds throughout. *)
THEOREM Invariance == Spec => []IInv
BY InitInv, NextInv, PTL DEF Spec

(* The invariant's view of who serves a connection is the property's. *)
LEMMA ServedByOneInv == IInv => ServedByOne
<1> SUFFICES ASSUME IInv PROVE ServedByOne
  OBVIOUS
<1>1. ASSUME server = "up", NEW f \in Fd, fds[f] \in Client
      PROVE  IF f \in armed THEN \A w \in Worker : ~Serving(w, f)
             ELSE Cardinality({w \in Worker : Serving(w, f)}) = 1
  <2>1. CASE f \in armed
    BY <1>1, <2>1 DEF IInv, Connections, ArmedInv
  <2>2. CASE f \notin armed
    <3>1. PICK w \in Worker : Serving(w, f)
      BY <1>1, <2>2 DEF IInv, Connections, ArmedInv
    <3>2. \A v \in Worker : Serving(v, f) => v = w
      BY <1>1, <3>1 DEF IInv, Connections, WorkInv, Serving
    <3>3. {v \in Worker : Serving(v, f)} = {w}
      BY <3>1, <3>2
    <3> QED BY <2>2, <3>3, FS_Singleton
  <2> QED BY <2>1, <2>2
<1>2. ASSUME server = "up", NEW w \in Worker, th[w].pc # "epoll"
      PROVE  fds[th[w].fd] = th[w].client
  BY <1>2 DEF IInv, Connections, WorkInv
<1> QED BY <1>1, <1>2 DEF ServedByOne, IInv

(* An open connection is armed or with exactly one worker: two workers      *)
(* never read from one socket and no connection is forgotten, although      *)
(* descriptors are reused and the listener runs beside the workers.         *)
THEOREM OneWorkerPerConnection == Spec => []ServedByOne
BY Invariance, ServedByOneInv, PTL

(* wait(NULL) in cgi_runner.c never fails: there are as many children as    *)
(* workers that wait, whoever reaps whose.                                  *)
THEOREM WaitsBalance == Spec => []ChildrenAwaited
<1>1. IInv => ChildrenAwaited
  BY DEF IInv
<1> QED BY <1>1, Invariance, PTL

(* Content-Length is the number of bytes sendfile sends, for every range    *)
(* that has no end and starts inside the file.                              *)
THEOREM LengthsAgree == Spec => []LengthAnnounced
<1>1. IInv => LengthAnnounced
  BY DEF IInv
<1> QED BY <1>1, Invariance, PTL
=============================================================================
