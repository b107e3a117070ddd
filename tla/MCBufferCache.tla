--------------------------- MODULE MCBufferCache ---------------------------
(* Instances of the buffer cache for TLC. *)
EXTENDS BufferCache, TLC

(* Threads are interchangeable: no definition names one of them. *)
Perms == Permutations(Threads)

(* A freshly zeroed device: the first modification of a block is what makes *)
(* its contents differ from another copy's.                                 *)
MCInit == Init /\ disk = [b \in Blocks |-> Zero]

MCSpec == MCInit /\ [][Next]_vars
MCFairSpec == MCSpec /\ Fairness
=============================================================================
