------------------------------ MODULE WebServer ------------------------------
(***************************************************************************)
(* The web server of Project6: a listener that accepts connections into an *)
(* epoll set (webserver.c), workers that take one descriptor at a time out *)
(* of it and serve it to the end (worker.c), the scripts they fork         *)
(* (cgi_runner.c) and the log they write through two globals, error_msg    *)
(* and log_level (log_service.c).  Clients, the kernel's sockets, epoll    *)
(* and scripts are external.  A request is well formed and arrives whole.  *)
(***************************************************************************)
EXTENDS Naturals, Integers, Sequences, FiniteSets

CONSTANTS
    Worker,         \* WORKERS_NUM threads
    Client,         \* 1 .. n; each opens one connection
    Requests,       \* what a client may ask for: [kind, keep_alive, start, end]
    MaxFd,          \* descriptors the process may have open, epoll's own apart
    FileSize,       \* bytes in the static file
    MaxRequests,    \* [Client -> bound on the requests of its connection]
    HangUps,        \* bound: the clients that may hang up
    MaxPid,         \* bound on the scripts run
    MaxFaults       \* bound on the calls of setsockopt and execl that fail

Kinds == {"file", "script"}
Fd == 1 .. MaxFd
Pid == 1 .. MaxPid
None == 0
File == -1      \* marks the descriptor of a static file

ASSUME WebServerAssumption ==
    /\ FileSize \in Nat /\ MaxFd \in Nat /\ MaxPid \in Nat
    /\ MaxRequests \in [Client -> Nat] /\ HangUps \subseteq Client /\ MaxFaults \in Nat
    /\ IsFiniteSet(Worker)
    /\ IsFiniteSet(Client) /\ Client = 1 .. Cardinality(Client)
    /\ Requests \subseteq [kind : Kinds, keep_alive : BOOLEAN, start : Int, end : Int]

VARIABLES
    server,     \* "up", or how the process ended: "exit" or "crash"
    peer,       \* [Client -> its connection: state, inbox, asked, awaits, closing, and
                \*            whether the client has stopped reading]
    backlog,    \* connections that wait for accept
    fds,        \* [Fd -> the client of a socket, File, or None]
    armed,      \* descriptors registered with epoll and not delivered yet
    events,     \* epoll's ready list
    rcvtimeo,   \* sockets with SO_RCVTIMEO
    th,         \* [Worker -> where it is, and its locals]
    child,      \* [Pid -> a forked process: state, client]
    error_msg,  \* the global pointer: "NULL", "set" or "freed"
    log_level,  \* the global
    faults,     \* calls that failed
    sent        \* history: what was announced and sent of a file, until it is logged

external == <<peer, backlog, child>>
vars == <<server, peer, backlog, fds, armed, events, rcvtimeo, th, child,
          error_msg, log_level, faults, sent>>

Nothing == [announced |-> 0, body |-> 0, end |-> -1]
NoRequest == [kind |-> "none", keep_alive |-> FALSE, start |-> -1, end |-> -1]
NewPeer ==
    [state |-> "new", inbox |-> NoRequest, asked |-> 0, awaits |-> FALSE, closing |-> FALSE,
     stalled |-> FALSE]
Idle ==
    [pc |-> "epoll", fd |-> None, client |-> None, req |-> NoRequest, built |-> "access",
     file |-> None]
Points == {"epoll", "init", "free", "forget", "recv", "serve", "fopen", "fclose", "open",
           "send", "wait", "reply", "log", "write log", "keep", "leave"}

PeerRec ==
    [state : {"new", "queued", "open", "closed"}, inbox : Requests \cup {NoRequest},
     asked : Nat, awaits : BOOLEAN, closing : BOOLEAN, stalled : BOOLEAN]
ThreadRec ==
    [pc : Points, fd : Fd \cup {None}, client : Client \cup {None},
     req : Requests \cup {NoRequest}, built : {"access", "error"}, file : Fd \cup {None}]
ChildRec ==
    [state : {"unborn", "script", "server", "zombie", "reaped"}, client : Client \cup {None}]

TypeOK ==
    /\ server \in {"up", "exit", "crash"}
    /\ peer \in [Client -> PeerRec]
    /\ backlog \in Seq(Client) /\ events \in Seq(Fd)
    /\ fds \in [Fd -> Client \cup {File, None}]
    /\ armed \subseteq Fd /\ rcvtimeo \subseteq Fd
    /\ th \in [Worker -> ThreadRec]
    /\ child \in [Pid -> ChildRec]
    /\ \A w \in Worker : th[w].pc = "epoll" <=> th[w].fd = None
    /\ error_msg \in {"NULL", "set", "freed"} /\ log_level \in {"access", "error"}
    /\ faults \in 0 .. MaxFaults
    /\ sent.announced \in Int /\ sent.body \in Int

Init ==
    /\ server = "up" /\ backlog = <<>> /\ events = <<>> /\ armed = {} /\ rcvtimeo = {}
    /\ peer = [c \in Client |-> NewPeer]
    /\ fds = [f \in Fd |-> None]
    /\ th = [w \in Worker |-> Idle]
    /\ child = [p \in Pid |-> [state |-> "unborn", client |-> None]]
    /\ error_msg = "NULL" /\ log_level = "access" /\ faults = 0
    /\ sent = Nothing

-----------------------------------------------------------------------------
(* Descriptors: the kernel hands out the lowest free one. *)

FreeFds == {f \in Fd : fds[f] = None}
LowestFd == CHOOSE f \in FreeFds : \A g \in FreeFds : f <= g
FdOf(c) == {f \in Fd : fds[f] = c}

\* epoll reports data or the end of the stream once, on an armed descriptor
Notified(ready, enabled) ==
    LET new == {f \in ready \cap enabled : \A i \in DOMAIN events : events[i] # f} IN
    IF new = {} THEN events ELSE Append(events, CHOOSE f \in new : TRUE)

-----------------------------------------------------------------------------
(* Clients and scripts *)

\* Clients are numbered in the order in which they connect
connect(c) ==
    /\ server = "up" /\ peer[c].state = "new" /\ (c > 1 => peer[c - 1].state # "new")
    /\ peer' = [peer EXCEPT ![c].state = "queued"]
    /\ backlog' = Append(backlog, c)
    /\ UNCHANGED <<server, fds, armed, events, rcvtimeo, th, child, error_msg, log_level,
                   faults, sent>>

\* One request at a time: the next one follows the answer to the last
ask(c, r) ==
    /\ server = "up" /\ peer[c].state \in {"queued", "open"} /\ ~peer[c].awaits /\ ~peer[c].closing
    /\ peer[c].asked < MaxRequests[c]
    /\ peer' = [peer EXCEPT ![c].inbox = r, ![c].awaits = TRUE, ![c].asked = @ + 1]
    /\ events' = Notified(FdOf(c), armed)
    /\ UNCHANGED <<server, backlog, fds, armed, rcvtimeo, th, child, error_msg, log_level,
                   faults, sent>>

\* What is being sent to a client that hangs up fails, and the sender goes on
hang_up(c) ==
    /\ server = "up" /\ c \in HangUps /\ peer[c].state \in {"queued", "open"}
    /\ peer[c].inbox = NoRequest /\ ~peer[c].closing
    /\ peer' = [peer EXCEPT ![c].closing = TRUE, ![c].stalled = FALSE]
    /\ events' = Notified(FdOf(c), armed)
    /\ UNCHANGED <<server, backlog, fds, armed, rcvtimeo, th, child, error_msg, log_level,
                   faults, sent>>

\* A client may stop reading in the middle of an answer that does not fit in
\* the buffers of the two kernels: the sockets have no send timeout, so that
\* whoever sends it, a worker or a script, blocks for as long as the client
\* keeps the connection.
Sending(w) == th[w].pc \in {"send", "reply"}
Stalled == {c \in Client : peer[c].stalled}

stall(c) ==
    /\ server = "up" /\ c \notin Stalled
    /\ \/ \E w \in Worker : Sending(w) /\ th[w].client = c
       \/ \E p \in Pid : child[p].state = "script" /\ child[p].client = c
    /\ peer' = [peer EXCEPT ![c].stalled = TRUE]
    /\ UNCHANGED <<server, backlog, fds, armed, events, rcvtimeo, th, child, error_msg,
                   log_level, faults, sent>>

\* A script answers the client over its copy of the socket and ends
script_ends(p) ==
    /\ server = "up" /\ child[p].state = "script" /\ child[p].client \notin Stalled
    /\ child' = [child EXCEPT ![p].state = "zombie"]
    /\ peer' = [peer EXCEPT ![child[p].client].awaits = FALSE]
    /\ UNCHANGED <<server, backlog, fds, armed, events, rcvtimeo, th, error_msg, log_level,
                   faults, sent>>

\* execl fails in the child, which returns from run_cgi_script and goes on as
\* a second server with one worker; what that process does is not followed
execl_fails(p) ==
    /\ server = "up" /\ child[p].state = "script" /\ faults < MaxFaults
    /\ child' = [child EXCEPT ![p].state = "server"]
    /\ faults' = faults + 1
    /\ UNCHANGED <<server, peer, backlog, fds, armed, events, rcvtimeo, th, error_msg, log_level,
                   sent>>

-----------------------------------------------------------------------------
(* The listener: accept fails when the process has no descriptor left, and
   the listener then ends the process.                                      *)
Readable(c) == peer[c].inbox # NoRequest \/ peer[c].closing

accept ==
    /\ server = "up" /\ backlog # <<>>
    /\ \/ /\ FreeFds = {}
          /\ server' = "exit"
          /\ UNCHANGED <<peer, backlog, fds, armed, events>>
       \/ /\ FreeFds # {}
          /\ LET c == Head(backlog)
                 f == LowestFd IN
             /\ fds' = [fds EXCEPT ![f] = c]
             /\ armed' = armed \cup {f}
             /\ events' = IF Readable(c) THEN Append(events, f) ELSE events
             /\ peer' = [peer EXCEPT ![c].state = "open"]
          /\ backlog' = Tail(backlog)
          /\ UNCHANGED server
    /\ UNCHANGED <<rcvtimeo, th, child, error_msg, log_level, faults, sent>>

-----------------------------------------------------------------------------
(* A worker *)

At(w, point) == server = "up" /\ th[w].pc = point
Goto(w, point) == th' = [th EXCEPT ![w].pc = point]
Sockets == <<fds, armed, events, rcvtimeo>>
Globals == <<error_msg, log_level>>

\* work: an event is delivered once (EPOLLONESHOT) ...
StaysArmed(f) == armed
Delivered(f) == armed \ {f}
epoll_wait(w) ==
    /\ At(w, "epoll") /\ events # <<>>
    /\ LET f == Head(events) IN
       /\ armed' = Delivered(f)
       /\ th' = [th EXCEPT ![w].pc = "init", ![w].fd = f, ![w].client = fds[f]]
    /\ events' = Tail(events)
    /\ UNCHANGED <<server, external, fds, rcvtimeo, Globals, faults, sent>>

\* ... and the descriptor is closed when the connection has been served
Returned(w) == Idle
leave(w) ==
    LET f == th[w].fd IN
    /\ At(w, "leave")
    /\ armed' = armed \ {f}
    /\ fds' = [fds EXCEPT ![f] = None]
    /\ rcvtimeo' = rcvtimeo \ {f}
    /\ peer' = [peer EXCEPT ![fds[f]] =
                   [NewPeer EXCEPT !.state = "closed", !.stalled = peer[fds[f]].stalled]]
    /\ th' = [th EXCEPT ![w] = Returned(w)]
    /\ UNCHANGED <<server, backlog, events, child, Globals, faults, sent>>

\* INIT_WORKER: the test of error_msg ...
init_worker(w) ==
    /\ At(w, "init")
    /\ Goto(w, IF error_msg = "NULL" THEN "recv" ELSE "free")
    /\ UNCHANGED <<server, external, Sockets, Globals, faults, sent>>

\* ... its release, in which another worker may have been faster (freeing
\* what is freed crashes; freeing NULL does nothing) ...
free_error(w) ==
    /\ At(w, "free")
    /\ \/ /\ error_msg = "freed"
          /\ server' = "crash"
          /\ UNCHANGED <<th, error_msg>>
       \/ /\ error_msg # "freed"
          /\ error_msg' = IF error_msg = "set" THEN "freed" ELSE "NULL"
          /\ Goto(w, "forget")
          /\ UNCHANGED server
    /\ UNCHANGED <<external, Sockets, log_level, faults, sent>>

\* ... and error_msg = NULL, which drops whatever is there by then
forget_error(w) ==
    /\ At(w, "forget")
    /\ error_msg' = "NULL"
    /\ Goto(w, "recv")
    /\ UNCHANGED <<server, external, Sockets, log_level, faults, sent>>

\* recv returns a request, or nothing at the end of the stream
recv(w) ==
    LET c == th[w].client IN
    /\ At(w, "recv")
    /\ \/ /\ peer[c].inbox # NoRequest
          /\ th' = [th EXCEPT ![w].pc = "serve", ![w].req = peer[c].inbox]
          /\ peer' = [peer EXCEPT ![c].inbox = NoRequest]
          /\ log_level' = "access"
       \/ /\ peer[c].inbox = NoRequest /\ peer[c].closing
          /\ Goto(w, "leave")
          /\ UNCHANGED <<peer, log_level>>
    /\ UNCHANGED <<server, backlog, child, Sockets, error_msg, faults, sent>>

\* ... or gives up after five seconds, if the socket has a timeout
timeout(w) ==
    LET c == th[w].client IN
    /\ At(w, "recv") /\ th[w].fd \in rcvtimeo
    /\ peer[c].inbox = NoRequest /\ ~peer[c].closing
    /\ Goto(w, "leave")
    /\ UNCHANGED <<server, external, Sockets, Globals, faults, sent>>

\* proccess_request: 304 or 404 without a file, the file, or a script that
\* may not be executable or cannot be forked and then gets no answer
serve(w) ==
    /\ At(w, "serve")
    /\ \/ th[w].req.kind = "file" /\ Goto(w, "reply")
       \/ th[w].req.kind = "file" /\ Goto(w, "fopen")
       \/ th[w].req.kind = "script" /\ Goto(w, "log")
    /\ UNCHANGED <<server, external, Sockets, Globals, faults, sent>>

\* run_cgi_script: fork ...
NotAwaited == "log"
ParentGoesTo == "wait"
fork(w) ==
    LET unborn == {p \in Pid : child[p].state = "unborn"}
        pid == CHOOSE p \in unborn : \A q \in unborn : p <= q IN
    /\ At(w, "serve") /\ th[w].req.kind = "script" /\ unborn # {}
    /\ child' = [child EXCEPT ![pid] = [state |-> "script", client |-> th[w].client]]
    /\ Goto(w, ParentGoesTo)
    /\ UNCHANGED <<server, peer, backlog, Sockets, Globals, faults, sent>>

\* ... and wait(NULL): any child that has ended, whoever forked it
wait(w) ==
    /\ At(w, "wait")
    /\ \E p \in Pid :
          /\ child[p].state = "zombie"
          /\ child' = [child EXCEPT ![p] = [state |-> "reaped", client |-> None]]
    /\ Goto(w, "log")
    /\ UNCHANGED <<server, peer, backlog, Sockets, Globals, faults, sent>>

\* fopen fails without a descriptor: 404
fopen(w) ==
    /\ At(w, "fopen")
    /\ \/ /\ FreeFds = {}
          /\ Goto(w, "reply")
          /\ UNCHANGED fds
       \/ /\ FreeFds # {}
          /\ fds' = [fds EXCEPT ![LowestFd] = File]
          /\ th' = [th EXCEPT ![w].pc = "fclose", ![w].file = LowestFd]
    /\ UNCHANGED <<server, external, armed, events, rcvtimeo, Globals, faults, sent>>

\* The file is closed when its size is known ...
fclose(w) ==
    /\ At(w, "fclose")
    /\ fds' = [fds EXCEPT ![th[w].file] = None]
    /\ th' = [th EXCEPT ![w].pc = "open", ![w].file = None]
    /\ UNCHANGED <<server, external, armed, events, rcvtimeo, Globals, faults, sent>>

\* ... and opened again; FILE_EXIT if that fails
open(w) ==
    /\ At(w, "open")
    /\ \/ /\ FreeFds = {}
          /\ server' = "exit" /\ error_msg' = "set" /\ log_level' = "error"
          /\ UNCHANGED <<th, fds>>
       \/ /\ FreeFds # {}
          /\ fds' = [fds EXCEPT ![LowestFd] = File]
          /\ th' = [th EXCEPT ![w].pc = "send", ![w].file = LowestFd]
          /\ UNCHANGED <<server, Globals>>
    /\ UNCHANGED <<external, armed, events, rcvtimeo, faults, sent>>

\* The range as the code reads it: -1 for a bound that is not given.  The size
\* is what ftell returned: get_file_size leaves it in the return register.
Offset(r) == IF r.start >= 0 THEN r.start ELSE 0
WholeLength(r) == FileSize
ContentLength(r) ==
    IF r.end >= 0 THEN r.end - Offset(r) + 1 ELSE FileSize - Offset(r)

\* The headers, then the file from the offset on, to its end (sendfile)
send_file(w) ==
    LET r == th[w].req
        left == FileSize - Offset(r) IN
    /\ At(w, "send") /\ th[w].client \notin Stalled
    /\ sent' = [announced |-> ContentLength(r), body |-> IF left > 0 THEN left ELSE 0,
                end |-> r.end]
    /\ fds' = [fds EXCEPT ![th[w].file] = None]
    /\ th' = [th EXCEPT ![w].pc = "log", ![w].file = None]
    /\ peer' = [peer EXCEPT ![th[w].client].awaits = FALSE]
    /\ UNCHANGED <<server, backlog, armed, events, rcvtimeo, child, Globals, faults>>

reply(w) ==
    /\ At(w, "reply") /\ th[w].client \notin Stalled
    /\ peer' = [peer EXCEPT ![th[w].client].awaits = FALSE]
    /\ Goto(w, "log")
    /\ UNCHANGED <<server, backlog, child, Sockets, Globals, faults, sent>>

\* LOG: the entry is an error entry if error_msg is set ...
EntryKind == IF error_msg = "NULL" THEN "access" ELSE "error"

build_log(w) ==
    /\ At(w, "log")
    /\ th' = [th EXCEPT ![w].pc = "write log", ![w].built = EntryKind]
    /\ sent' = Nothing
    /\ UNCHANGED <<server, external, Sockets, Globals, faults>>

\* ... and written as log_level says.  An entry of the other kind has fields
\* that were never assigned, and the message of an error entry may be gone:
\* reading or freeing those crashes or not.  An error entry is freed with its
\* message, which error_msg still points to.
Intact(w) == th[w].built = log_level /\ (log_level = "error" => error_msg = "set")

log_request(w) ==
    /\ At(w, "write log")
    /\ \/ /\ FreeFds = {}
          /\ server' = "exit"
          /\ UNCHANGED <<th, error_msg>>
       \/ /\ FreeFds # {} /\ ~Intact(w)
          /\ server' = "crash"
          /\ UNCHANGED <<th, error_msg>>
       \/ /\ FreeFds # {}
          /\ error_msg' = IF Intact(w) /\ log_level = "error" THEN "freed" ELSE error_msg
          /\ Goto(w, "keep")
          /\ UNCHANGED server
    /\ UNCHANGED <<external, Sockets, log_level, faults, sent>>

\* LOG: a connection that is kept gets a receive timeout, and the next request
NoTimeout(f) == rcvtimeo
WithTimeout(f) == rcvtimeo \cup {f}
NextRequest(w) == th' = [th EXCEPT ![w] = [@ EXCEPT !.pc = "init", !.req = NoRequest, !.built = "access"]]
keep(w) ==
    /\ At(w, "keep")
    /\ \/ /\ ~th[w].req.keep_alive
          /\ Goto(w, "leave")
          /\ UNCHANGED <<rcvtimeo, Globals, faults>>
       \/ /\ th[w].req.keep_alive
          /\ rcvtimeo' = WithTimeout(th[w].fd)
          /\ NextRequest(w)
          /\ UNCHANGED <<Globals, faults>>
       \/ /\ th[w].req.keep_alive /\ faults < MaxFaults
          /\ faults' = faults + 1
          /\ error_msg' = "set" /\ log_level' = "error"
          /\ NextRequest(w)
          /\ UNCHANGED rcvtimeo
    /\ UNCHANGED <<server, external, fds, armed, events, sent>>

-----------------------------------------------------------------------------
WorkerStep(w) ==
    \/ epoll_wait(w) \/ init_worker(w) \/ free_error(w) \/ forget_error(w)
    \/ recv(w) \/ timeout(w) \/ serve(w)
    \/ fork(w) \/ wait(w) \/ fopen(w) \/ fclose(w) \/ open(w)
    \/ send_file(w) \/ reply(w) \/ build_log(w) \/ log_request(w) \/ keep(w) \/ leave(w)

\* A worker is held by a client that has stopped reading: it sends to that
\* client, or it waits and the only children left are scripts that send to
\* such clients, which need not be its own.
Held(w) ==
    \/ Sending(w) /\ th[w].client \in Stalled
    \/ /\ th[w].pc = "wait"
       /\ \A p \in Pid : child[p].state \in {"script", "zombie"} =>
             child[p].state = "script" /\ child[p].client \in Stalled

Finished ==
    /\ \/ server # "up"
       \/ /\ backlog = <<>> /\ \A c \in Client : peer[c].state # "new"
          /\ \A w \in Worker :
                \/ th[w].pc = "epoll" /\ events = <<>>
                \/ Held(w)
                \/ th[w].pc \in {"recv", "wait"} /\ faults > 0
    /\ UNCHANGED vars

Next ==
    \/ \E c \in Client : connect(c) \/ hang_up(c) \/ stall(c) \/ \E r \in Requests : ask(c, r)
    \/ \E p \in Pid : script_ends(p) \/ execl_fails(p)
    \/ accept
    \/ \E w \in Worker : WorkerStep(w)
    \/ Finished

\* Threads are scheduled, the kernel's timeout expires and scripts end
Fairness ==
    /\ WF_vars(accept)
    /\ \A w \in Worker : WF_vars(WorkerStep(w))
    /\ \A p \in Pid : WF_vars(script_ends(p))

Spec == Init /\ [][Next]_vars /\ Fairness

-----------------------------------------------------------------------------
(* Properties *)

Serving(w, f) == th[w].pc # "epoll" /\ th[w].fd = f

\* README.txt: epoll's ONESHOT, and that a worker serves a descriptor to the
\* end, keep two workers off one connection.  An open socket is in the epoll
\* set or with one worker, never both and never neither (it would leak), and
\* a worker's descriptor is still the connection it was given, although
\* descriptors are reused.  All variables have their types.
ServedByOne ==
    /\ TypeOK
    /\ server = "up" =>
        /\ \A f \in Fd : fds[f] \in Client =>
              IF f \in armed THEN \A w \in Worker : ~Serving(w, f)
              ELSE Cardinality({w \in Worker : Serving(w, f)}) = 1
        /\ \A w \in Worker : th[w].pc # "epoll" => fds[th[w].fd] = th[w].client

\* Workers reap each other's scripts, but there are always as many children
\* left to reap as workers that wait: wait never fails and none stays a zombie.
ChildrenAwaited ==
    Cardinality({p \in Pid : child[p].state \in {"script", "server", "zombie"}})
        = Cardinality({w \in Worker : th[w].pc = "wait"})

\* The body has the length the headers announce, unless the range has an end
\* or starts behind the file.
LengthAnnounced == sent.end < 0 /\ sent.announced >= 0 => sent.body = sent.announced

\* A worker comes back to epoll, unless the process ends, setsockopt or execl
\* fails, or the worker is held: the timeout takes it from a connection that
\* is kept and idle, and a worker whose script another worker reaped gets that
\* worker's.
WorkersReturn ==
    \A w \in Worker :
        th[w].pc # "epoll" ~> (th[w].pc = "epoll" \/ server # "up" \/ faults > 0 \/ Held(w))

\* Under the same conditions a client that asks for something gets an answer
\* or loses its connection, unless its own worker or every worker is held: no
\* event is lost between accept, epoll and close, also when the request comes
\* as the timeout expires, and a client that does not read costs one worker.
Answered ==
    \A c \in Client :
        peer[c].awaits ~>
            \/ ~peer[c].awaits \/ peer[c].state = "closed" \/ server # "up" \/ faults > 0
            \/ \E w \in Worker : th[w].client = c /\ Held(w)
            \/ \A w \in Worker : Held(w)

\* Both: nobody waits for ever.
Responsive == WorkersReturn /\ Answered
=============================================================================
