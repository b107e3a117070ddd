---------------------------- MODULE MCWebServer ----------------------------
(* Two workers and three connections, on three descriptors: two            *)
(* connections and a file being sent leave none for accept or for the log. *)
EXTENDS WebServer

MCRequests ==
    {[kind |-> "script", keep_alive |-> TRUE, start |-> -1, end |-> -1],
     [kind |-> "file", keep_alive |-> FALSE, start |-> 1, end |-> -1]}
MCAsked == [c \in Client |-> 3 - c]
=============================================================================
