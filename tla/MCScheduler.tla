---------------------------- MODULE MCScheduler ----------------------------
(* Scheduler for TLC: threads other than the initial one are alike, and    *)
(* every run starts from the kernel as thread_start() leaves it.           *)
EXTENDS Scheduler, TLC

Perms == Permutations(Threads \ {Main})

MCFairSpec == Spec /\ Fairness
=============================================================================
