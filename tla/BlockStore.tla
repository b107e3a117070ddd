----------------------------- MODULE BlockStore -----------------------------
(***************************************************************************)
(* What the buffer cache promises to inode.c: a device whose blocks are    *)
(* read and written in memory, with no cache to be seen.  A thread owns a  *)
(* block between take_sector and release_sector, alone if it asked for the *)
(* lock, and a block's contents change only when an owner modifies them.   *)
(***************************************************************************)
EXTENDS Naturals

CONSTANTS Threads, Blocks, Values

VARIABLES
  store,   (* contents of every block, as a taker sees them              *)
  owned,   (* <<t, b>>: t owns block b                                   *)
  locked   (* <<t, b>>: t owns it with its lock held                     *)

storeVars == <<store, owned, locked>>

InitStore ==
  /\ store \in [Blocks -> Values]
  /\ owned = {} /\ locked = {}

Own(t, b) ==
  /\ owned' = owned \cup {<<t, b>>}
  /\ UNCHANGED <<store, locked>>

Lock(t, b) ==
  /\ <<t, b>> \in owned
  /\ \A u \in Threads : <<u, b>> \notin locked
  /\ locked' = locked \cup {<<t, b>>}
  /\ UNCHANGED <<store, owned>>

ModifyBlock(t, b, v) ==
  /\ <<t, b>> \in owned
  /\ store' = [store EXCEPT ![b] = v]
  /\ UNCHANGED <<owned, locked>>

(* A release gives up the lock, the ownership, or both at once. *)
Disown(t, b) ==
  /\ <<t, b>> \in owned
  /\ owned' \in {owned, owned \ {<<t, b>>}}
  /\ locked' \in {locked, locked \ {<<t, b>>}}
  /\ locked' \subseteq owned'
  /\ UNCHANGED store

NextStore ==
  \E t \in Threads, b \in Blocks :
    \/ Own(t, b) \/ Lock(t, b) \/ Disown(t, b)
    \/ \E v \in Values : ModifyBlock(t, b, v)

SpecStore == InitStore /\ [][NextStore]_storeVars
=============================================================================
