----------------------------- MODULE MCFileSys -----------------------------
(* Two processes, a root directory with room for one name more than it has,  *)
(* a directory "d" in which both may work, and paths that go up again.       *)
EXTENDS FileSys

MCPaths ==
    {[absolute |-> TRUE, names |-> <<"d">>], [absolute |-> TRUE, names |-> <<"d", "a">>],
     [absolute |-> FALSE, names |-> <<"a">>], [absolute |-> FALSE, names |-> <<"..", "d">>]}
MCCalls == [t \in Process |-> IF t = 1 THEN 3 ELSE 2]
=============================================================================
