--------------------------- MODULE Paging_proofs ---------------------------
(***************************************************************************)
(* Proofs about virtual memory for any number of processes, pages, frames  *)
(* and swap slots: no frame and no slot is lost or used twice, the list of *)
(* evictable pages stays sound, and a page keeps what its owner wrote.     *)
(***************************************************************************)
EXTENDS Paging, FiniteSetTheorems, WellFoundedInduction, TLAPS

-----------------------------------------------------------------------------
(* The inductive invariant.  It says nothing of a kernel that has stopped. *)

(* What a process is about: while it evicts, where it goes back to. *)
Evicting == {"evict", "write out", "detach", "unmap victim", "get frame"}
Inside == {"write out", "detach", "unmap victim"}
Backs == {"restored frame", "fill", "set page", "unmap"}
Phase(t) == IF th[t].pc \in Evicting THEN th[t].back ELSE th[t].pc

FromSwapping == {"restore", "restored frame"}
FromFile == {"load", "fill"}
Growing == {"grow", "set page"}
Unmapping == {"unmap file", "unregister", "unmap", "write back"}
Disposing == {"dispose", "undo registration"}
Entering == FromSwapping \cup FromFile \cup Growing
Busy == Entering \cup {"register", "loaded"} \cup Unmapping \cup Disposing

(* What a process in phase ph knows of its page p, and where it returns to. *)
PhaseInv(t, ph, p, after) ==
    /\ ph \in Busy => p \in Page /\ Owner[p] = t
    /\ ph \in Busy \ Growing => p \in table
    /\ ph \in Growing => p \notin table /\ Kind[p] = "stack"
    /\ ph \in FromSwapping => sp[p].kaddr = None /\ sp[p].location = "swap"
    /\ ph \in FromFile => sp[p].kaddr = None /\ sp[p].location = "file"
    /\ ph = "register" => sp[p].kaddr # None
    /\ ph \in Unmapping => Kind[p] = "mmap"
    /\ ph = "unmap" => sp[p].kaddr = None
    /\ ph \in Entering => after = "user"
    /\ ph = "register" => after \in {"user", "loaded"}
    /\ ph \in Unmapping => after \in {"user", "exit"}
    /\ ph \in Disposing => after \in {"user", "exit", "delete"}

(* A process has a frame in hand from palloc on until the page has it, and  *)
(* from the page to palloc_free_page.                                       *)
Holding == {"unmap victim"} \cup Backs
ThreadInv(t) ==
    /\ th[t].pc \in Evicting => th[t].back \in Backs
    /\ PhaseInv(t, Phase(t), th[t].arg, th[t].after)
    /\ th[t].pc \in Holding <=> th[t].kpage # None /\ ~Borrowed(t)
    /\ th[t].pc = "unregister" /\ th[t].kpage = None => sp[th[t].arg].kaddr = None

(* The process inside eviction_lock has chosen a page that stays listed. *)
VictimInv(t) ==
    /\ eviction_lock = t <=> th[t].pc \in Inside
    /\ th[t].pc \in Inside => th[t].victim \in Page /\ Listed(th[t].victim)
    /\ th[t].pc \in {"write out", "detach"} =>
          th[t].victim \in table /\ sp[th[t].victim].kaddr # None
    /\ th[t].pc = "unmap victim" => sp[th[t].victim].kaddr = None

(* Frame, slot and mapping of one page *)
Detaching(p) == \E t \in Process : th[t].pc = "detach" /\ th[t].victim = p
PageInv(p) ==
    /\ p \notin table => sp[p].kaddr = None /\ sp[p].saddr = None
    /\ sp[p].kaddr # None => pte[p].frame = sp[p].kaddr
    /\ sp[p].location = "swap" => sp[p].saddr # None
    /\ sp[p].location = "file" => sp[p].saddr = None
    /\ sp[p].kaddr # None /\ sp[p].saddr # None => Detaching(p)
    /\ Kind[p] = "mmap" => sp[p].saddr = None
    /\ Kind[p] = "mmap" /\ p \in table => sp[p].mapping \in {"valid", "dangling"}

(* One hand per frame *)
PageHas(p, f) == sp[p].kaddr = f
ProcHas(t, f) == th[t].kpage = f /\ ~Borrowed(t)
OneHand(f) ==
    /\ \A p, q \in Page : PageHas(p, f) /\ PageHas(q, f) => p = q
    /\ \A t, u \in Process : ProcHas(t, f) /\ ProcHas(u, f) => t = u
    /\ \A p \in Page, t \in Process : ~(PageHas(p, f) /\ ProcHas(t, f))
    /\ f \in free => \A p \in Page : ~PageHas(p, f)
    /\ f \in free => \A t \in Process : ~ProcHas(t, f)
    /\ f \in free \/ (\E p \in Page : PageHas(p, f)) \/ (\E t \in Process : ProcHas(t, f))
FrameInv == \A f \in Frame : OneHand(f)

(* One page per allocated slot *)
OnePage(s) ==
    /\ s \in alloc_map <=> \E p \in Page : sp[p].saddr = s
    /\ \A p, q \in Page : sp[p].saddr = s /\ sp[q].saddr = s => p = q
SlotInv == \A s \in Slot : OnePage(s)

(* The list, with the page that an evictor is unmapping after its owner     *)
(* disposed of it                                                           *)
Distinct == \A i, j \in DOMAIN page_list : page_list[i] = page_list[j] => i = j
ListAt(p) ==
    /\ p \in table =>
          (Listed(p) <=> (sp[p].kaddr # None /\ ~InTransit(p)) \/ BeingUnmapped(p))
    /\ p \notin table /\ Listed(p) =>
          \E t \in Process : th[t].victim = p /\ th[t].pc = "unmap victim"
HandInv == page_elem # NoPage => Listed(page_elem)
ListInv == Distinct /\ (\A p \in Page : ListAt(p)) /\ HandInv

Sound ==
    /\ \A t \in Process : ThreadInv(t) /\ VictimInv(t)
    /\ \A p \in Page : PageInv(p)
    /\ FrameInv /\ SlotInv /\ ListInv
IInv == TypeOK /\ (Alive => Sound)

-----------------------------------------------------------------------------
(* Frames and slots are numbers, None is neither, and NoProc is nobody. *)
LEMMA Marks ==
    /\ Frame \subseteq Nat /\ None \notin Frame
    /\ Slot \subseteq Nat /\ None \notin Slot
    /\ NoProc \notin Process /\ NoPage \notin Page
    /\ Owner \in [Page -> Process] /\ Kind \in [Page -> Kinds]
BY PagingAssumption DEF Frame, Slot, None

(* A set of numbers that is not empty has a least element. *)
LEMMA LeastIn ==
    ASSUME NEW S \in SUBSET Nat, S # {}
    PROVE  Least(S) \in S
<1>1. PICK R : R = OpToRel(<, Nat) /\ IsWellFoundedOn(R, Nat)
  BY NatLessThanWellFounded
<1>2. \A x, y \in Nat : <<x, y>> \in R <=> x < y
  BY <1>1 DEF OpToRel
<1>3. PICK x \in S : \A y \in S : <<y, x>> \notin R
  BY <1>1, WFMin
<1>4. \A y \in S : y \in Nat /\ ~(y < x)
  BY <1>2, <1>3
<1>5. \A y \in S : x <= y
  BY <1>4
<1> QED BY <1>3, <1>5 DEF Least

(* A step of t leaves the other processes where they are. *)
Moves(t) == th' \in [Process -> ThreadRec] /\ \A u \in Process \ {t} : th'[u] = th[u]

(* Goto moves t and changes nothing else of it. *)
LEMMA GotoStep ==
    ASSUME TypeOK, NEW t \in Process, NEW to \in Points, Goto(t, to)
    PROVE  /\ Moves(t) /\ th'[t].pc = to /\ th'[t].arg = th[t].arg
           /\ th'[t].kpage = th[t].kpage /\ th'[t].victim = th[t].victim
           /\ th'[t].modified = th[t].modified /\ th'[t].back = th[t].back
           /\ th'[t].after = th[t].after
BY DEF TypeOK, Goto, Moves, ThreadRec

(* A system call or a fault takes t into the kernel with its page. *)
LEMMA CallStep ==
    ASSUME TypeOK, NEW t \in Process, NEW to \in Points, NEW p \in Page \cup {NoPage},
           Call(t, p, to)
    PROVE  /\ Moves(t) /\ th'[t].pc = to /\ th'[t].arg = p /\ th'[t].after = "user"
           /\ th'[t].kpage = th[t].kpage /\ th'[t].victim = th[t].victim
<1>1. PICK n : n = th[t].calls + 1
  OBVIOUS
<1>2. n \in Nat
  BY <1>1 DEF TypeOK, ThreadRec
<1>3. PICK x : x = [th[t] EXCEPT !.pc = to, !.arg = p, !.after = "user", !.calls = n]
  OBVIOUS
<1>0. th[t] \in ThreadRec /\ "user" \in Points
  BY DEF TypeOK, Points
<1>4. /\ x \in ThreadRec /\ x.pc = to /\ x.arg = p /\ x.after = "user"
      /\ x.kpage = th[t].kpage /\ x.victim = th[t].victim
  BY <1>0, <1>2, <1>3 DEF ThreadRec
<1>5. th' = [th EXCEPT ![t] = x]
  BY <1>1, <1>3 DEF Call, TypeOK, ThreadRec
<1> QED BY <1>4, <1>5 DEF TypeOK, Moves

(* A process that is killed has nothing in hand. *)
LEMMA DieStep ==
    ASSUME TypeOK, NEW t \in Process, Die(t)
    PROVE  /\ Moves(t) /\ th'[t].pc = "exit" /\ th'[t].kpage = None
           /\ th'[t].victim = th[t].victim
<1>1. PICK x : x = [th[t] EXCEPT !.pc = "exit", !.kpage = None]
  OBVIOUS
<1>0. th[t] \in ThreadRec /\ "exit" \in Points
  BY DEF TypeOK, Points
<1>2. /\ x \in ThreadRec /\ x.pc = "exit" /\ x.kpage = None /\ x.victim = th[t].victim
  BY <1>0, <1>1 DEF ThreadRec
<1>3. th' = [th EXCEPT ![t] = x]
  BY <1>1 DEF Die, TypeOK, ThreadRec
<1> QED BY <1>2, <1>3 DEF TypeOK, Moves

(* t turns to evict_page and knows where to come back. *)
LEMMA EvictStep ==
    ASSUME TypeOK, NEW t \in Process, NEW to \in Points, Evict(t, to)
    PROVE  /\ Moves(t) /\ th'[t].pc = "evict" /\ th'[t].back = to
           /\ th'[t].arg = th[t].arg /\ th'[t].kpage = th[t].kpage
           /\ th'[t].victim = th[t].victim /\ th'[t].after = th[t].after
<1>1. PICK x : x = [th[t] EXCEPT !.pc = "evict", !.back = to]
  OBVIOUS
<1>0. th[t] \in ThreadRec /\ "evict" \in Points
  BY DEF TypeOK, Points
<1>2. /\ x \in ThreadRec /\ x.pc = "evict" /\ x.back = to /\ x.arg = th[t].arg
      /\ x.kpage = th[t].kpage /\ x.victim = th[t].victim /\ x.after = th[t].after
  BY <1>0, <1>1 DEF ThreadRec
<1>3. th' = [th EXCEPT ![t] = x]
  BY <1>1 DEF Evict, TypeOK, ThreadRec
<1> QED BY <1>2, <1>3 DEF TypeOK, Moves

(* A step that changes the record of one page. *)
LEMMA PageStep ==
    ASSUME TypeOK, NEW p \in Page, NEW x \in PageRec, sp' = [sp EXCEPT ![p] = x]
    PROVE  /\ sp' \in [Page -> PageRec] /\ sp'[p] = x
           /\ \A q \in Page \ {p} : sp'[q] = sp[q]
BY DEF TypeOK

(* What a process outside evict_page knows of its page *)
LEMMA Known ==
    ASSUME Sound, NEW t \in Process, th[t].pc \notin Evicting
    PROVE  /\ PhaseInv(t, th[t].pc, th[t].arg, th[t].after)
           /\ th[t].pc \in Busy => th[t].arg \in Page /\ Owner[th[t].arg] = t
BY DEF Sound, ThreadInv, Phase, PhaseInv

-----------------------------------------------------------------------------
(* What a step leaves alone keeps its part of the invariant. *)

(* The other processes know no less of their pages than before. *)
SteadyPage(p) ==
    /\ sp'[p].kaddr = sp[p].kaddr /\ sp'[p].location = sp[p].location
    /\ p \in table' <=> p \in table

(* A process that does not move knows as much of its pages as before. *)
LEMMA OtherThreads ==
    ASSUME NEW t \in Process, NEW u \in Process \ {t}, Moves(t), ThreadInv(u),
           \A p \in Page : Owner[p] = u => SteadyPage(p)
    PROVE  ThreadInv(u)'
<1>1. th'[u] = th[u] /\ Phase(u)' = Phase(u) /\ Borrowed(u)' = Borrowed(u)
  BY DEF Moves, Phase, Borrowed
<1>2. th[u].arg \in Page /\ Owner[th[u].arg] = u =>
        SteadyPage(th[u].arg)
  OBVIOUS
<1>3. PhaseInv(u, Phase(u), th[u].arg, th[u].after)'
  BY <1>1, <1>2 DEF ThreadInv, PhaseInv, SteadyPage, Busy, Entering, FromSwapping, FromFile,
     Growing, Unmapping, Disposing
<1>4. th[u].pc = "unregister" => Phase(u) \in Busy
  BY DEF Phase, Busy, Unmapping, Evicting
<1>5. th'[u].pc = "unregister" /\ th'[u].kpage = None => sp'[th'[u].arg].kaddr = None
  BY <1>1, <1>2, <1>4 DEF ThreadInv, PhaseInv, SteadyPage
<1> QED BY <1>1, <1>3, <1>5 DEF ThreadInv

(* A frame that a step does not touch stays in its hand. *)
SameHand(f) ==
    /\ f \in free' <=> f \in free
    /\ \A p \in Page : PageHas(p, f)' <=> PageHas(p, f)
    /\ \A t \in Process : ProcHas(t, f)' <=> ProcHas(t, f)

(* Frames whose hands do not change are still in one hand. *)
LEMMA KeptFrames ==
    ASSUME FrameInv, \A f \in Frame : SameHand(f) \/ OneHand(f)'
    PROVE  FrameInv'
<1> SUFFICES ASSUME NEW f \in Frame, SameHand(f) PROVE OneHand(f)'
  BY DEF FrameInv, Frame
<1>1. OneHand(f)
  BY DEF FrameInv
<1> QED BY <1>1 DEF SameHand, OneHand

(* Slots that no page gains or loses are still accounted for. *)
LEMMA KeptSlots ==
    ASSUME SlotInv, alloc_map' = alloc_map, \A p \in Page : sp'[p].saddr = sp[p].saddr
    PROVE  SlotInv'
BY DEF SlotInv, OnePage, Slot

(* A process outside eviction_lock does not care about the list. *)
LEMMA Outside ==
    ASSUME NEW t \in Process, th'[t].pc \notin Inside, eviction_lock' # t
    PROVE  VictimInv(t)'
BY DEF VictimInv, Inside

(* With the lock free nobody is inside, and nobody unmaps or detaches. *)
LEMMA NobodyInside ==
    ASSUME Sound, LockFree
    PROVE  /\ \A t \in Process : th[t].pc \notin Inside
           /\ \A p \in Page : ~Detaching(p) /\ ~BeingUnmapped(p)
           /\ \A p \in Page : Listed(p) => p \in table
BY Marks DEF Sound, VictimInv, LockFree, Inside, Detaching, BeingUnmapped, ListInv, ListAt

(* Nobody else is inside together with t. *)
LEMMA AloneInside ==
    ASSUME Sound, NEW t \in Process, th[t].pc \in Inside
    PROVE  eviction_lock = t /\ \A u \in Process \ {t} : th[u].pc \notin Inside
BY DEF Sound, VictimInv

(* Of a page that a step does not touch only the mapping may change, when   *)
(* its pool moves.                                                          *)
Untouched(p) ==
    /\ SteadyPage(p)
    /\ sp'[p].saddr = sp[p].saddr /\ pte'[p].frame = pte[p].frame
    /\ sp'[p].mapping = sp[p].mapping \/ sp'[p].mapping = "dangling"

(* A page that a step does not touch. *)
LEMMA OtherPages ==
    ASSUME Sound, NEW t \in Process, Moves(t), NEW p \in Page, Untouched(p),
           th[t].pc # "detach" \/ th[t].victim # p
    PROVE  PageInv(p)'
<1>1. Detaching(p) => Detaching(p)'
  BY DEF Detaching, Moves
<1>2. PageInv(p)
  BY DEF Sound
<1> QED BY <1>1, <1>2 DEF PageInv, Untouched, SteadyPage

Transit == {"register", "write back"}

(* The place on the list of a page that a step does not touch. *)
LEMMA OtherElements ==
    ASSUME Sound, NEW t \in Process, Moves(t), NEW p \in Page,
           p \in table' <=> p \in table, sp'[p].kaddr = sp[p].kaddr, Listed(p)' <=> Listed(p),
           th[t].pc \in Transit => th[t].arg # p, th'[t].pc \in Transit => th'[t].arg # p,
           th[t].pc = "unmap victim" => th[t].victim # p,
           th'[t].pc = "unmap victim" => th'[t].victim # p
    PROVE  ListAt(p)'
<1>1. InTransit(p)' <=> InTransit(p)
  BY DEF InTransit, Transit, Moves
<1>2. (\E u \in Process : th'[u].victim = p /\ th'[u].pc = "unmap victim")
       <=> (\E u \in Process : th[u].victim = p /\ th[u].pc = "unmap victim")
  BY DEF Moves
<1>3. BeingUnmapped(p)' <=> BeingUnmapped(p)
  BY <1>2 DEF BeingUnmapped
<1>4. ListAt(p)
  BY DEF Sound, ListInv
<1> QED BY <1>1, <1>2, <1>3, <1>4 DEF ListAt

(* A step of t outside eviction_lock that changes no more than one page of  *)
(* its own keeps the invariant if it keeps what is said of that page, of t  *)
(* itself, and of the frames, the slots and the list as a whole.  Changing  *)
(* a page that somebody may be evicting needs the lock.                     *)
OwnChange(t, p) ==
    /\ Moves(t) /\ th[t].pc \notin Inside /\ th'[t].pc \notin Inside
    /\ eviction_lock' = eviction_lock
    /\ \A q \in Page \ {p} : Untouched(q) /\ (Listed(q)' <=> Listed(q))
    /\ th[t].pc \in Transit => th[t].arg = p
    /\ th'[t].pc \in Transit => th'[t].arg = p
    /\ \/ LockFree
       \/ sp[p].kaddr = None /\ sp'[p].kaddr = None /\ (Listed(p)' <=> Listed(p))

(* A step of a process on a page of its own: what is left to show of it. *)
LEMMA OwnStep ==
    ASSUME TypeOK, Sound, NEW t \in Process, NEW p \in Page, Owner[p] = t, OwnChange(t, p),
           ThreadInv(t)', PageInv(p)', ListAt(p)', Distinct', HandInv', FrameInv', SlotInv'
    PROVE  Sound'
<1>1. \A u \in Process \ {t} : ThreadInv(u)'
  <2> TAKE u \in Process \ {t}
  <2>1. \A q \in Page : Owner[q] = u => SteadyPage(q)
    BY DEF OwnChange, Untouched
  <2> QED BY <2>1, OtherThreads DEF OwnChange, Sound
<1>2. VictimInv(t)'
  <2>1. eviction_lock' # t
    BY DEF Sound, VictimInv, OwnChange
  <2> QED BY <2>1, Outside DEF OwnChange
<1>3. \A u \in Process \ {t} : VictimInv(u)'
  <2> TAKE u \in Process \ {t}
  <2>1. th'[u] = th[u] /\ VictimInv(u) /\ eviction_lock' = eviction_lock
    BY DEF OwnChange, Moves, Sound
  <2>2. CASE LockFree
    <3>1. th[u].pc \notin Inside /\ eviction_lock' # u
      BY <2>1, <2>2, NobodyInside, Marks DEF LockFree
    <3> QED BY <2>1, <3>1, Outside
  <2>3. CASE sp[p].kaddr = None /\ sp'[p].kaddr = None /\ (Listed(p)' <=> Listed(p))
    <3>1. \A q \in Page : (Listed(q)' <=> Listed(q)) /\ sp'[q].kaddr = sp[q].kaddr
      BY <2>3 DEF OwnChange, Untouched, SteadyPage
    <3>2. \A q \in Page \ {p} : q \in table' <=> q \in table
      BY DEF OwnChange, Untouched, SteadyPage
    <3>3. th[u].pc \in {"write out", "detach"} => th[u].victim # p
      BY <2>1, <2>3 DEF VictimInv
    <3> QED BY <2>1, <3>1, <3>2, <3>3 DEF VictimInv, Inside
  <2> QED BY <2>2, <2>3 DEF OwnChange
<1>4. \A q \in Page \ {p} : PageInv(q)' /\ ListAt(q)'
  <2> TAKE q \in Page \ {p}
  <2>1. /\ Untouched(q) /\ SteadyPage(q) /\ Moves(t) /\ (Listed(q)' <=> Listed(q))
        /\ th[t].pc # "detach" /\ th[t].pc # "unmap victim" /\ th'[t].pc # "unmap victim"
        /\ th[t].pc \in Transit => th[t].arg # q
        /\ th'[t].pc \in Transit => th'[t].arg # q
    BY DEF OwnChange, Inside, Untouched
  <2>2. PageInv(q)'
    BY <2>1, OtherPages
  <2>3. (q \in table' <=> q \in table) /\ sp'[q].kaddr = sp[q].kaddr
    BY <2>1 DEF SteadyPage
  <2>4. ListAt(q)'
    BY <2>1, <2>3, OtherElements
  <2> QED BY <2>2, <2>4
<1> QED BY <1>1, <1>2, <1>3, <1>4 DEF Sound, ListInv

(* A step that moves no slot and no list element, by a process that neither *)
(* enters nor leaves eviction_lock or a transit, keeps the invariant if it  *)
(* keeps that of the frames and the process knows enough of its page.       *)
Calm == {"user", "evict", "get frame", "restore", "load", "loaded", "grow", "unmap file",
         "unregister", "dispose", "undo registration", "exit", "delete", "dead"}
Quiet(t) ==
    /\ Moves(t)
    /\ table' = table /\ alloc_map' = alloc_map
    /\ eviction_lock' = eviction_lock /\ page_list' = page_list /\ page_elem' = page_elem
    /\ \A p \in Page :
          /\ pte'[p].frame = pte[p].frame
          /\ sp'[p].kaddr = sp[p].kaddr /\ sp'[p].saddr = sp[p].saddr
          /\ Kind[p] = "mmap" => sp'[p].mapping = sp[p].mapping
          /\ \/ sp'[p].location = sp[p].location
             \/ Owner[p] = t /\ sp'[p].location = "ram"
    /\ th[t].pc \in Calm \cup Backs /\ th'[t].pc \in Calm \cup Backs

(* A step that touches no page and leaves the list alone. *)
LEMMA QuietStep ==
    ASSUME TypeOK, Sound, NEW t \in Process, Quiet(t), ThreadInv(t)', FrameInv'
    PROVE  Sound'
<1>1. /\ th[t].pc \notin Inside /\ th'[t].pc \notin Inside
      /\ th[t].pc \notin Transit /\ th'[t].pc \notin Transit
      /\ Moves(t) /\ \A u \in Process \ {t} : th'[u] = th[u]
  BY DEF Quiet, Moves, Calm, Inside, Transit, Backs
<1>2. \A u \in Process \ {t} : ThreadInv(u)'
  <2> TAKE u \in Process \ {t}
  <2>1. \A p \in Page : Owner[p] = u => SteadyPage(p)
    BY DEF Quiet, SteadyPage
  <2> QED BY <2>1, OtherThreads DEF Quiet, Sound
<1>3. \A p : Listed(p)' <=> Listed(p)
  BY DEF Quiet, Listed
<1>4. \A u \in Process : VictimInv(u)'
  <2> TAKE u \in Process
  <2>1. VictimInv(u) /\ eviction_lock' = eviction_lock /\ table' = table
    BY DEF Sound, Quiet
  <2>2. CASE u = t
    BY <1>1, <2>1, <2>2 DEF VictimInv, Inside
  <2>3. CASE u # t
    <3>1. th'[u] = th[u]
      BY <1>1, <2>3
    <3>2. th[u].pc \in Inside =>
            th[u].victim \in Page /\ sp'[th[u].victim].kaddr = sp[th[u].victim].kaddr
      BY <2>1 DEF VictimInv, Quiet
    <3> QED BY <1>3, <2>1, <3>1, <3>2 DEF VictimInv, Inside
  <2> QED BY <2>2, <2>3
<1>5. \A p \in Page : PageInv(p)'
  <2> TAKE p \in Page
  <2>1. Detaching(p) => Detaching(p)'
    BY <1>1 DEF Detaching, Inside
  <2>2. PageInv(p)
    BY DEF Sound
  <2> QED BY <2>1, <2>2 DEF PageInv, Quiet
<1>6. SlotInv'
  BY KeptSlots DEF Sound, Quiet
<1>7. ListInv'
  <2>1. \A p \in Page : ListAt(p)'
    <3> TAKE p \in Page
    <3>1. (p \in table' <=> p \in table) /\ sp'[p].kaddr = sp[p].kaddr
      BY DEF Quiet
    <3> QED BY <1>1, <1>3, <3>1, OtherElements DEF Inside
  <2>2. Distinct' /\ HandInv'
    BY <1>3 DEF Quiet, Sound, ListInv, Distinct, HandInv
  <2> QED BY <2>1, <2>2 DEF ListInv
<1> QED BY <1>2, <1>4, <1>5, <1>6, <1>7 DEF Sound

(* The frames stay where they are if t has none in hand before or after. *)
LEMMA SameHands ==
    ASSUME Sound, NEW t \in Process, Moves(t), ThreadInv(t)', free' = free,
           \A p \in Page : sp'[p].kaddr = sp[p].kaddr,
           th[t].pc \notin Holding, th'[t].pc \notin Holding
    PROVE  FrameInv'
<1>1. \A u \in Process, f \in Frame : ProcHas(u, f)' <=> ProcHas(u, f)
  <2> TAKE u \in Process, f \in Frame
  <2>1. CASE u = t
    <3>1. ThreadInv(t)
      BY DEF Sound
    <3> QED BY <2>1, <3>1, Marks DEF ThreadInv, ProcHas
  <2>2. CASE u # t
    BY <2>2 DEF ProcHas, Borrowed, Moves
  <2> QED BY <2>1, <2>2
<1>2. \A f \in Frame : SameHand(f)
  BY <1>1 DEF SameHand, PageHas
<1> QED BY <1>2, KeptFrames DEF Sound

Calmly(t) == Quiet(t) /\ free' = free /\ th[t].pc \in Calm /\ th'[t].pc \in Calm

(* A quiet step between two points at which t has no frame in hand. *)
LEMMA CalmStep ==
    ASSUME TypeOK, Sound, NEW t \in Process, Calmly(t), ThreadInv(t)'
    PROVE  Sound'
<1>1. th[t].pc \notin Holding /\ th'[t].pc \notin Holding
  BY DEF Calmly, Calm, Holding, Backs
<1>2. FrameInv'
  BY <1>1, SameHands DEF Calmly, Quiet
<1> QED BY <1>2, QuietStep DEF Calmly

-----------------------------------------------------------------------------
(* User code *)

(* User code writes to a page that is mapped. *)
LEMMA WriteInv ==
    ASSUME TypeOK, Sound, NEW t \in Process, NEW p \in Page, NEW v \in Values, Write(t, p, v)
    PROVE  TypeOK' /\ Sound'
<1>1. /\ th[t].pc = "user" /\ pte[p].frame \in Frame
      /\ pte' = [pte EXCEPT ![p].dirty = TRUE]
      /\ mem' = [mem EXCEPT ![pte[p].frame] = v]
      /\ expect' = [expect EXCEPT ![p] = v]
      /\ late' \subseteq late \cup {p}
      /\ Call(t, NoPage, "user")
      /\ UNCHANGED <<free, file, alloc_map, swap, sp, table, eviction_lock, page_list,
                     page_elem, pool_size>>
  BY DEF Write, MayCall, Running, evictor, TypeOK, PteRec
<1>2. /\ Moves(t) /\ th'[t].pc = "user" /\ th'[t].arg = NoPage /\ th'[t].kpage = th[t].kpage
  BY <1>1, CallStep DEF Points
<1>3. /\ pte' \in [Page -> PteRec]
      /\ \A q \in Page : pte'[q].frame = pte[q].frame
  BY <1>1, ZenonT(30) DEF TypeOK, PteRec
<1>4. TypeOK'
  BY <1>1, <1>2, <1>3 DEF TypeOK, Moves
<1>5. Calmly(t)
  BY <1>1, <1>2, <1>3 DEF Calmly, Quiet, Calm
<1>6. ThreadInv(t)'
  <2>1. ThreadInv(t)
    BY DEF Sound
  <2> QED BY <1>1, <1>2, <2>1 DEF ThreadInv, PhaseInv, Phase, Evicting, Busy, Entering,
        FromSwapping, FromFile, Growing, Unmapping, Disposing, Holding, Backs, Borrowed
<1> QED BY <1>4, <1>5, <1>6, CalmStep

(* The page fault handler looks where the page is. *)
LEMMA PageFaultInv ==
    ASSUME TypeOK, Sound, NEW t \in Process, NEW p \in Page, page_fault(t, p)
    PROVE  TypeOK' /\ Sound'
<1>0. PICK to : to = Handler(p)
  OBVIOUS
<1>1. /\ th[t].pc = "user" /\ Owner[p] = t /\ (p \in table \/ Kind[p] = "stack")
      /\ Call(t, p, to)
      /\ UNCHANGED <<free, mem, file, alloc_map, swap, pte, sp, table, eviction_lock,
                     page_list, page_elem, pool_size, expect, late>>
  BY <1>0 DEF page_fault, MayCall, Running, evictor, machine, history
<1>2. PageInv(p) /\ ThreadInv(t)
  BY DEF Sound
<1>3. \/ to = "exit"
      \/ to = "grow" /\ p \notin table /\ Kind[p] = "stack"
      \/ to = "restore" /\ p \in table /\ sp[p].location = "swap" /\ sp[p].kaddr = None
      \/ to = "load" /\ p \in table /\ sp[p].location = "file" /\ sp[p].kaddr = None
  BY <1>0, <1>1, <1>2 DEF Handler, PageInv
<1>4. to \in {"exit", "grow", "restore", "load"} /\ to \in Points
  BY <1>3 DEF Points
<1>5. /\ Moves(t) /\ th'[t].pc = to /\ th'[t].arg = p /\ th'[t].after = "user"
      /\ th'[t].kpage = th[t].kpage
  BY <1>1, <1>4, CallStep
<1>6. TypeOK'
  BY <1>1, <1>5 DEF TypeOK, Moves
<1>7. Calmly(t)
  BY <1>1, <1>4, <1>5 DEF Calmly, Quiet, Calm
<1>8. th[t].kpage = None /\ Phase(t)' = to
  BY <1>1, <1>2, <1>4, <1>5 DEF ThreadInv, Holding, Backs, Phase, Evicting, Borrowed
<1>9. PhaseInv(t, to, p, "user")'
  BY <1>1, <1>3 DEF PhaseInv, Busy, Entering,
        FromSwapping, FromFile, Growing, Unmapping, Disposing
<1>10. ThreadInv(t)'
  BY <1>4, <1>5, <1>8, <1>9 DEF ThreadInv, Evicting, Holding, Backs
<1> QED BY <1>6, <1>7, <1>10, CalmStep

(* A system call is given an address: it may kill its process. *)
LEMMA UserAddressInv ==
    ASSUME TypeOK, Sound, NEW t \in Process, NEW p \in Page, user_address_valid(t, p)
    PROVE  TypeOK' /\ Sound'
<1>1. PICK to : to = IF p \notin table /\ Kind[p] = "stack" THEN "grow" ELSE "exit"
  OBVIOUS
<1>2. /\ th[t].pc = "user" /\ Owner[p] = t /\ Call(t, p, to)
      /\ UNCHANGED <<free, mem, file, alloc_map, swap, pte, sp, table, eviction_lock,
                     page_list, page_elem, pool_size, expect, late>>
  BY <1>1 DEF user_address_valid, MayCall, Running, evictor, machine, history
<1>3. to = "exit" \/ (to = "grow" /\ p \notin table /\ Kind[p] = "stack")
  BY <1>1
<1>4. to \in Points
  BY <1>3 DEF Points
<1>5. /\ Moves(t) /\ th'[t].pc = to /\ th'[t].arg = p /\ th'[t].after = "user"
      /\ th'[t].kpage = th[t].kpage
  BY <1>2, <1>4, CallStep
<1>6. TypeOK'
  BY <1>2, <1>5 DEF TypeOK, Moves
<1>7. Calmly(t)
  BY <1>2, <1>3, <1>5 DEF Calmly, Quiet, Calm
<1>8. th[t].kpage = None /\ Phase(t)' = to
  <2>1. ThreadInv(t)
    BY DEF Sound
  <2> QED BY <1>2, <1>3, <1>5, <2>1 DEF ThreadInv, Holding, Backs, Phase, Evicting, Borrowed
<1>9. PhaseInv(t, to, p, "user")'
  BY <1>2, <1>3 DEF PhaseInv, Busy, Entering,
        FromSwapping, FromFile, Growing, Unmapping, Disposing
<1>10. ThreadInv(t)'
  BY <1>3, <1>5, <1>8, <1>9 DEF ThreadInv, Evicting, Holding, Backs
<1> QED BY <1>6, <1>7, <1>10, CalmStep

(* A process that goes to exit, delete, user code or its end holds nothing. *)
LEMMA AtRest ==
    ASSUME NEW t \in Process, th'[t].pc \in {"user", "exit", "delete", "dead"}, th'[t].kpage = None
    PROVE  ThreadInv(t)'
BY DEF ThreadInv, PhaseInv, Phase, Evicting, Busy, Entering,
        FromSwapping, FromFile, Growing, Unmapping, Disposing, Holding, Backs

(* Nothing is in hand at a point that is not a holding or borrowing one. *)
LEMMA EmptyHanded ==
    ASSUME Sound, NEW t \in Process, th[t].pc \notin Holding, ~Borrowed(t)
    PROVE  th[t].kpage = None
BY DEF Sound, ThreadInv

(* A process begins to exit. *)
LEMMA ExitInv ==
    ASSUME TypeOK, Sound, NEW t \in Process, Exit(t)
    PROVE  TypeOK' /\ Sound'
<1>1. /\ th[t].pc = "user" /\ Die(t)
      /\ UNCHANGED <<free, mem, file, alloc_map, swap, pte, sp, table, eviction_lock,
                     page_list, page_elem, pool_size, expect, late>>
  BY DEF Exit, Running, evictor, machine, history
<1>2. Moves(t) /\ th'[t].pc = "exit" /\ th'[t].kpage = None
  BY <1>1, DieStep
<1>3. TypeOK'
  BY <1>1, <1>2 DEF TypeOK, Moves
<1>4. Calmly(t)
  BY <1>1, <1>2 DEF Calmly, Quiet, Calm
<1> QED BY <1>2, <1>3, <1>4, CalmStep, AtRest

(* A process unmaps a file. *)
LEMMA MunmapInv ==
    ASSUME TypeOK, Sound, NEW t \in Process, NEW p \in Page, munmap(t, p)
    PROVE  TypeOK' /\ Sound'
<1>1. /\ th[t].pc = "user" /\ p \in table /\ Owner[p] = t /\ Kind[p] = "mmap"
      /\ Call(t, p, "unmap file")
      /\ UNCHANGED <<free, mem, file, alloc_map, swap, pte, sp, table, eviction_lock,
                     page_list, page_elem, pool_size, expect, late>>
  BY DEF munmap, Mine, MayCall, Running, evictor, machine, history
<1>2. /\ Moves(t) /\ th'[t].pc = "unmap file" /\ th'[t].arg = p /\ th'[t].after = "user"
      /\ th'[t].kpage = None
  BY <1>1, CallStep, EmptyHanded, ZenonT(30) DEF Points, Holding, Backs, Borrowed
<1>3. TypeOK'
  BY <1>1, <1>2 DEF TypeOK, Moves
<1>4. Calmly(t)
  BY <1>1, <1>2 DEF Calmly, Quiet, Calm
<1>5. PhaseInv(t, "unmap file", p, "user")'
  BY <1>1 DEF PhaseInv, Busy, Entering,
        FromSwapping, FromFile, Growing, Unmapping, Disposing
<1>6. ThreadInv(t)'
  BY <1>2, <1>5 DEF ThreadInv, Phase, Evicting, Holding, Backs
<1> QED BY <1>3, <1>4, <1>6, CalmStep

-----------------------------------------------------------------------------
(* Steps that change no more than where the process is *)

Still == UNCHANGED <<free, mem, file, alloc_map, swap, pte, sp, table, eviction_lock,
                     page_list, page_elem, pool_size, expect, late>>

(* A step that moves t and changes nothing but th. *)
LEMMA StillStep ==
    ASSUME TypeOK, Sound, NEW t \in Process, Still, Moves(t), ThreadInv(t)',
           th[t].pc \in Calm, th'[t].pc \in Calm
    PROVE  TypeOK' /\ Sound'
<1>1. TypeOK'
  BY DEF TypeOK, Moves, Still
<1>2. Calmly(t)
  BY DEF Calmly, Quiet, Still
<1> QED BY <1>1, <1>2, CalmStep

(* evict_page is called to restore, to load or to grow. *)
LEMMA EvictInv ==
    ASSUME TypeOK, Sound, NEW t \in Process, NEW to, Evict(t, to), Still,
           \/ th[t].pc = "restore" /\ to = "restored frame"
           \/ th[t].pc = "load" /\ to = "fill"
           \/ th[t].pc = "grow" /\ to = "set page"
    PROVE  TypeOK' /\ Sound'
<1>1. to \in Points /\ to \in Backs
  BY DEF Points, Backs
<1>2. /\ Moves(t) /\ th'[t].pc = "evict" /\ th'[t].back = to /\ th'[t].arg = th[t].arg
      /\ th'[t].kpage = th[t].kpage /\ th'[t].after = th[t].after
  BY <1>1, EvictStep
<1>3. th[t].kpage = None
  BY EmptyHanded DEF Holding, Backs, Borrowed
<1>4. PhaseInv(t, th[t].pc, th[t].arg, th[t].after)
  BY DEF Sound, ThreadInv, Phase, Evicting
<1>5. PhaseInv(t, to, th[t].arg, th[t].after)'
  BY <1>2, <1>4 DEF PhaseInv, Still, Busy, Entering, FromSwapping, FromFile, Growing,
     Unmapping, Disposing
<1>6. ThreadInv(t)'
  BY <1>1, <1>2, <1>3, <1>5 DEF ThreadInv, Phase, Evicting, Holding, Backs
<1> QED BY <1>2, <1>6, StillStep DEF Calm

(* Without a frame to evict the process dies, or the kernel stops. *)
LEMMA NoFrameInv ==
    ASSUME TypeOK, Sound, NEW t \in Process, th[t].pc \in {"evict", "get frame"},
           NoFrame(t), Still
    PROVE  TypeOK' /\ (Alive' => Sound')
<1>1. CASE th[t].back = "unmap"
  BY <1>1 DEF NoFrame, Alive, TypeOK, Still
<1>2. CASE th[t].back # "unmap"
  <2>1. Moves(t) /\ th'[t].pc = "exit" /\ th'[t].kpage = None
    BY <1>2, DieStep DEF NoFrame
  <2> QED BY <2>1, AtRest, StillStep DEF Calm
<1> QED BY <1>1, <1>2

(* Loaded marks a page of its own as being in RAM. *)
LEMMA LoadedInv ==
    ASSUME TypeOK, Sound, NEW t \in Process, Loaded(t)
    PROVE  TypeOK' /\ Sound'
<1>1. /\ th[t].pc = "loaded" /\ sp' = [sp EXCEPT ![th[t].arg].location = "ram"]
      /\ Goto(t, "user")
      /\ UNCHANGED <<free, mem, file, alloc_map, swap, pte, table, eviction_lock,
                     page_list, page_elem, pool_size, expect, late>>
  BY DEF Loaded, Running, evictor, machine, history
<1>2. th[t].kpage = None
  BY <1>1, EmptyHanded DEF Holding, Backs, Borrowed
<1>3. Moves(t) /\ th'[t].pc = "user" /\ th'[t].kpage = None
  BY <1>1, <1>2, GotoStep DEF Points
<1>4. PICK p \in Page : p = th[t].arg /\ Owner[p] = t
  BY <1>1, Known DEF Evicting, Busy
<1>5. /\ sp' \in [Page -> PageRec]
      /\ \A q \in Page :
           /\ sp'[q].kaddr = sp[q].kaddr /\ sp'[q].saddr = sp[q].saddr
           /\ sp'[q].mapping = sp[q].mapping
           /\ sp'[q].location = sp[q].location \/ (q = p /\ sp'[q].location = "ram")
  <2>1. PICK x : x = [sp[p] EXCEPT !.location = "ram"]
    OBVIOUS
  <2>2. /\ x \in PageRec /\ x.kaddr = sp[p].kaddr /\ x.saddr = sp[p].saddr
        /\ x.mapping = sp[p].mapping /\ x.location = "ram"
    BY <2>1 DEF TypeOK, PageRec
  <2>3. sp' = [sp EXCEPT ![p] = x]
    BY <1>1, <1>4, <2>1
  <2> QED BY <2>2, <2>3, PageStep
<1>6. TypeOK'
  BY <1>1, <1>3, <1>5 DEF TypeOK, Moves
<1>7. Calmly(t)
  BY <1>1, <1>3, <1>4, <1>5 DEF Calmly, Quiet, Calm
<1> QED BY <1>3, <1>6, <1>7, AtRest, CalmStep

(* LoadToFile remembers the frame it has seen, which the page keeps. *)
LEMMA LoadToFileInv ==
    ASSUME TypeOK, Sound, NEW t \in Process, LoadToFile(t)
    PROVE  TypeOK' /\ Sound'
<1>0. PICK p : p = th[t].arg
  OBVIOUS
<1>1. /\ th[t].pc = "unmap file"
      /\ sp' = [sp EXCEPT ![p].dirty = suppl_page_dirty(p)]
      /\ th' = IF suppl_page_dirty(p)
                 THEN [th EXCEPT ![t].pc = "unregister", ![t].kpage = sp[p].kaddr]
                 ELSE [th EXCEPT ![t].pc = "dispose"]
      /\ UNCHANGED <<free, mem, file, alloc_map, swap, pte, table, eviction_lock,
                     page_list, page_elem, pool_size, expect, late>>
  BY <1>0 DEF LoadToFile, Running, evictor, machine, history
<1>2. th[t].kpage = None
  BY <1>1, EmptyHanded DEF Holding, Backs, Borrowed
<1>3. PhaseInv(t, "unmap file", p, th[t].after) /\ p \in Page
  BY <1>0, <1>1, Known DEF Evicting, Busy, Unmapping
<1>4. suppl_page_dirty(p) \in BOOLEAN
  BY DEF suppl_page_dirty
<1>5. /\ sp' \in [Page -> PageRec]
      /\ \A q \in Page :
           /\ sp'[q].kaddr = sp[q].kaddr /\ sp'[q].saddr = sp[q].saddr
           /\ sp'[q].mapping = sp[q].mapping /\ sp'[q].location = sp[q].location
  BY <1>1, <1>3, <1>4, ZenonT(30) DEF TypeOK, PageRec
<1>6. /\ Moves(t) /\ th'[t].arg = p /\ th'[t].after = th[t].after
      /\ \/ th'[t].pc = "unregister" /\ th'[t].kpage = sp[p].kaddr
         \/ th'[t].pc = "dispose" /\ th'[t].kpage = None
  <2>1. CASE suppl_page_dirty(p)
    <3>1. PICK x : x = [th[t] EXCEPT !.pc = "unregister", !.kpage = sp[p].kaddr]
      OBVIOUS
    <3>2. th[t] \in ThreadRec /\ "unregister" \in Points /\ sp[p].kaddr \in Frame \cup {None}
      BY <1>3 DEF TypeOK, Points, PageRec
    <3>3. /\ x \in ThreadRec /\ x.pc = "unregister" /\ x.kpage = sp[p].kaddr
          /\ x.arg = th[t].arg /\ x.after = th[t].after
      BY <3>1, <3>2 DEF ThreadRec
    <3>4. th' = [th EXCEPT ![t] = x]
      BY <1>1, <2>1, <3>1 DEF TypeOK, ThreadRec
    <3> QED BY <1>0, <3>3, <3>4 DEF TypeOK, Moves
  <2>2. CASE ~suppl_page_dirty(p)
    <3>1. Goto(t, "dispose")
      BY <1>1, <2>2 DEF Goto
    <3> QED BY <1>0, <1>2, <3>1, GotoStep DEF Points
  <2> QED BY <2>1, <2>2
<1>7. TypeOK'
  BY <1>1, <1>5, <1>6 DEF TypeOK, Moves
<1>8. Calmly(t)
  BY <1>1, <1>5, <1>6 DEF Calmly, Quiet, Calm
<1>9. ThreadInv(t)'
  <2>0. ASSUME NEW a \in {"unregister", "dispose"} PROVE PhaseInv(t, a, p, th[t].after)'
    <3>1. /\ p \in table' /\ Owner[p] = t /\ Kind[p] = "mmap" /\ p \in Page
          /\ th[t].after \in {"user", "exit"} /\ th'[t].after = th[t].after
      BY <1>1, <1>3, <1>6 DEF PhaseInv, Busy, Unmapping
    <3> QED BY <3>1 DEF PhaseInv, Busy, Entering, FromSwapping, FromFile, Growing,
       Unmapping, Disposing
  <2>1. PhaseInv(t, th[t].pc, th[t].arg, th[t].after)'
    BY <1>6, <2>0
  <2> QED BY <1>3, <1>5, <1>6, <2>1
        DEF ThreadInv, Phase, Evicting, Holding, Backs, Borrowed
<1> QED BY <1>7, <1>8, <1>9, CalmStep

(* process_exit clears mappings of segments and unmaps files. *)
LEMMA DisposeMappingInv ==
    ASSUME TypeOK, Sound, NEW t \in Process, DisposeMapping(t)
    PROVE  TypeOK' /\ Sound'
<1>1. PICK p \in Used(t) :
        \/ /\ Kind[p] = "mmap"
           /\ th' = [th EXCEPT ![t].pc = "unmap file", ![t].arg = p, ![t].after = "exit"]
           /\ UNCHANGED sp
        \/ /\ Segment(p) /\ sp[p].mapping = "valid"
           /\ sp' = [sp EXCEPT ![p].mapping = "cleared"]
           /\ UNCHANGED th
  BY DEF DisposeMapping
<1>2. /\ th[t].pc = "exit"
      /\ UNCHANGED <<free, mem, file, alloc_map, swap, pte, table, eviction_lock,
                     page_list, page_elem, pool_size, expect, late>>
  BY DEF DisposeMapping, Running, evictor, machine, history
<1>3. p \in Page /\ p \in table /\ Owner[p] = t
  BY DEF Used, Mine, TypeOK
<1>4. th[t].kpage = None
  BY <1>2, EmptyHanded DEF Holding, Backs, Borrowed
<1>5. CASE Kind[p] = "mmap" /\ UNCHANGED sp /\
             th' = [th EXCEPT ![t].pc = "unmap file", ![t].arg = p, ![t].after = "exit"]
  <2>1. PICK x : x = [th[t] EXCEPT !.pc = "unmap file", !.arg = p, !.after = "exit"]
    OBVIOUS
  <2>2. th[t] \in ThreadRec /\ "unmap file" \in Points /\ "exit" \in Points
    BY DEF TypeOK, Points
  <2>3. /\ x \in ThreadRec /\ x.pc = "unmap file" /\ x.arg = p /\ x.after = "exit"
        /\ x.kpage = th[t].kpage
    BY <1>3, <2>1, <2>2 DEF ThreadRec
  <2>4. th' = [th EXCEPT ![t] = x]
    BY <1>5, <2>1 DEF TypeOK, ThreadRec
  <2>5. /\ Moves(t) /\ th'[t].pc = "unmap file" /\ th'[t].arg = p /\ th'[t].after = "exit"
        /\ th'[t].kpage = None
    BY <1>4, <2>3, <2>4 DEF TypeOK, Moves
  <2>6. PhaseInv(t, "unmap file", p, "exit")'
    BY <1>2, <1>3, <1>5 DEF PhaseInv, Busy, Entering, FromSwapping, FromFile, Growing,
       Unmapping, Disposing
  <2>7. ThreadInv(t)'
    BY <2>5, <2>6 DEF ThreadInv, Phase, Evicting, Holding, Backs
  <2>8. Still
    BY <1>2, <1>5 DEF Still
  <2> QED BY <1>2, <2>5, <2>7, <2>8, StillStep DEF Calm
<1>6. CASE Segment(p) /\ UNCHANGED th /\ sp' = [sp EXCEPT ![p].mapping = "cleared"]
  <2>1. Kind[p] # "mmap"
    BY <1>6 DEF Segment
  <2>2. /\ sp' \in [Page -> PageRec]
        /\ \A q \in Page :
             /\ sp'[q].kaddr = sp[q].kaddr /\ sp'[q].saddr = sp[q].saddr
             /\ sp'[q].location = sp[q].location
             /\ Kind[q] = "mmap" => sp'[q].mapping = sp[q].mapping
    BY <1>3, <1>6, <2>1, ZenonT(30) DEF TypeOK, PageRec
  <2>3. Moves(t)
    BY <1>6 DEF Moves, TypeOK
  <2>4. TypeOK'
    BY <1>2, <2>2, <2>3 DEF TypeOK, Moves
  <2>5. Calmly(t)
    BY <1>2, <1>6, <2>2, <2>3 DEF Calmly, Quiet, Calm
  <2> QED BY <1>2, <1>4, <1>6, <2>4, <2>5, AtRest, CalmStep
<1> QED BY <1>1, <1>5, <1>6

(* An exiting process frees its pool of mappings. *)
LEMMA FreePoolInv ==
    ASSUME TypeOK, Sound, NEW t \in Process, FreePool(t)
    PROVE  TypeOK' /\ Sound'
<1>1. /\ th[t].pc = "exit" /\ Goto(t, "delete")
      /\ \A p \in Used(t) : Segment(p)
      /\ sp' = [p \in Page |->
                  IF p \in Used(t) THEN [sp[p] EXCEPT !.mapping = "dangling"] ELSE sp[p]]
      /\ UNCHANGED <<free, mem, file, alloc_map, swap, pte, table, eviction_lock,
                     page_list, page_elem, pool_size, expect, late>>
  BY DEF FreePool, Running, evictor, machine, history
<1>2. th[t].kpage = None
  BY <1>1, EmptyHanded DEF Holding, Backs, Borrowed
<1>3. Moves(t) /\ th'[t].pc = "delete" /\ th'[t].kpage = None
  BY <1>1, <1>2, GotoStep DEF Points
<1>4. /\ sp' \in [Page -> PageRec]
      /\ \A q \in Page :
           /\ sp'[q].kaddr = sp[q].kaddr /\ sp'[q].saddr = sp[q].saddr
           /\ sp'[q].location = sp[q].location
           /\ Kind[q] = "mmap" => sp'[q].mapping = sp[q].mapping
  <2>1. \A q \in Used(t) : Kind[q] # "mmap"
    BY <1>1 DEF Segment
  <2> QED BY <1>1, <2>1, ZenonT(30) DEF TypeOK, PageRec
<1>5. TypeOK'
  BY <1>1, <1>3, <1>4 DEF TypeOK, Moves
<1>6. Calmly(t)
  BY <1>1, <1>3, <1>4 DEF Calmly, Quiet, Calm
<1> QED BY <1>3, <1>5, <1>6, AtRest, CalmStep

(* suppl_pt_delete takes the next page, or is done. *)
LEMMA DeleteInv ==
    ASSUME TypeOK, Sound, NEW t \in Process, suppl_pt_delete(t)
    PROVE  TypeOK' /\ Sound'
<1>1. th[t].pc = "delete" /\ Still
  BY DEF suppl_pt_delete, Running, evictor, machine, history, Still
<1>2. th[t].kpage = None
  BY <1>1, EmptyHanded DEF Holding, Backs, Borrowed
<1>3. ASSUME NEW p \in Mine(t),
             th' = [th EXCEPT ![t].pc = "dispose", ![t].arg = p, ![t].after = "delete"]
      PROVE  TypeOK' /\ Sound'
  <2>0. p \in Page /\ p \in table /\ Owner[p] = t
    BY DEF Mine, TypeOK
  <2>1. PICK x : x = [th[t] EXCEPT !.pc = "dispose", !.arg = p, !.after = "delete"]
    OBVIOUS
  <2>2. th[t] \in ThreadRec /\ "dispose" \in Points /\ "delete" \in Points
    BY DEF TypeOK, Points
  <2>3. /\ x \in ThreadRec /\ x.pc = "dispose" /\ x.arg = p /\ x.after = "delete"
        /\ x.kpage = th[t].kpage
    BY <2>0, <2>1, <2>2 DEF ThreadRec
  <2>4. th' = [th EXCEPT ![t] = x]
    BY <1>3, <2>1 DEF TypeOK, ThreadRec
  <2>5. /\ Moves(t) /\ th'[t].pc = "dispose" /\ th'[t].arg = p /\ th'[t].after = "delete"
        /\ th'[t].kpage = None
    BY <1>2, <2>3, <2>4 DEF TypeOK, Moves
  <2>6. PhaseInv(t, "dispose", p, "delete")'
    BY <1>1, <2>0 DEF Still, PhaseInv, Busy, Entering, FromSwapping, FromFile, Growing,
       Unmapping, Disposing
  <2>7. ThreadInv(t)'
    BY <2>5, <2>6 DEF ThreadInv, Phase, Evicting, Holding, Backs
  <2> QED BY <1>1, <2>5, <2>7, StillStep DEF Calm
<1>4. CASE Goto(t, "dead")
  <2>1. Moves(t) /\ th'[t].pc = "dead" /\ th'[t].kpage = None
    BY <1>2, <1>4, GotoStep DEF Points
  <2> QED BY <1>1, <2>1, AtRest, StillStep DEF Calm
<1> QED BY <1>3, <1>4 DEF suppl_pt_delete

-----------------------------------------------------------------------------
(* Getting a frame *)

(* palloc_get_page gives t a free frame. *)
LEMMA PallocInv ==
    ASSUME TypeOK, Sound, NEW t \in Process, NEW to, Palloc(t, to),
           UNCHANGED <<file, alloc_map, swap, pte, sp, table, eviction_lock, page_list,
                       page_elem, pool_size, expect, late>>,
           \/ th[t].pc = "load" /\ to = "fill"
           \/ th[t].pc = "grow" /\ to = "set page"
           \/ th[t].pc = "get frame" /\ to = th[t].back
    PROVE  TypeOK' /\ Sound'
<1>1. PICK f : f = Least(free)
  OBVIOUS
<1>2. f \in Frame /\ f \in free /\ f # None
  BY <1>1, LeastIn, Marks DEF Palloc, TypeOK
<1>3. /\ th' = [th EXCEPT ![t].kpage = f, ![t].pc = to]
      /\ mem' = [mem EXCEPT ![f] = Zero] /\ free' = free \ {f}
  BY <1>1 DEF Palloc
<1>4. ThreadInv(t) /\ th[t].pc \notin Holding /\ th[t].kpage = None
  BY EmptyHanded DEF Sound, Holding, Backs, Borrowed
<1>5. to \in Backs /\ to \in Points
  BY <1>4 DEF ThreadInv, Evicting, Backs, Points
<1>6. /\ Moves(t) /\ th'[t].pc = to /\ th'[t].kpage = f /\ th'[t].arg = th[t].arg
      /\ th'[t].after = th[t].after
  <2>1. PICK x : x = [th[t] EXCEPT !.kpage = f, !.pc = to]
    OBVIOUS
  <2>2. th[t] \in ThreadRec
    BY DEF TypeOK
  <2>3. /\ x \in ThreadRec /\ x.pc = to /\ x.kpage = f /\ x.arg = th[t].arg
        /\ x.after = th[t].after
    BY <1>2, <1>5, <2>1, <2>2 DEF ThreadRec
  <2>4. th' = [th EXCEPT ![t] = x]
    BY <1>3, <2>1 DEF TypeOK, ThreadRec
  <2> QED BY <2>3, <2>4 DEF TypeOK, Moves
<1>7. TypeOK'
  <2>1. mem' \in [Frame -> Values]
    BY <1>3, PagingAssumption DEF TypeOK
  <2> QED BY <1>3, <1>6, <2>1 DEF TypeOK, Moves
<1>8. Quiet(t)
  BY <1>5, <1>6 DEF Quiet, Calm
<1>9. ThreadInv(t)'
  <2>1. PhaseInv(t, to, th[t].arg, th[t].after)
    <3>1. PhaseInv(t, Phase(t), th[t].arg, th[t].after)
      BY <1>4 DEF ThreadInv
    <3>2. Phase(t) = to \/ (Phase(t) = "load" /\ to = "fill")
                        \/ (Phase(t) = "grow" /\ to = "set page")
      BY DEF Phase, Evicting
    <3> QED BY <3>1, <3>2 DEF PhaseInv, Busy, Entering, FromSwapping, FromFile, Growing,
       Unmapping, Disposing
  <2>2. PhaseInv(t, to, th[t].arg, th[t].after)'
    BY <1>6, <2>1 DEF PhaseInv
  <2>3. Phase(t)' = to /\ ~Borrowed(t)' /\ to \notin Evicting /\ to \in Holding
        /\ to # "unregister"
    BY <1>5, <1>6 DEF Phase, Evicting, Borrowed, Backs, Holding
  <2> QED BY <1>2, <1>6, <2>2, <2>3 DEF ThreadInv
<1>10. FrameInv'
  <2>1. \A u \in Process \ {t} : \A g \in Frame : ProcHas(u, g)' <=> ProcHas(u, g)
    BY <1>6 DEF Moves, ProcHas, Borrowed
  <2>2. \A g \in Frame : ProcHas(t, g)' <=> g = f
    BY <1>5, <1>6 DEF ProcHas, Borrowed, Backs
  <2>3. \A g \in Frame : ~ProcHas(t, g)
    BY <1>4, Marks DEF ProcHas
  <2>4. \A g \in Frame \ {f} : SameHand(g)
    BY <1>3, <2>1, <2>2, <2>3 DEF SameHand, PageHas
  <2>5. OneHand(f)'
    <3>1. OneHand(f)
      BY <1>2 DEF Sound, FrameInv
    <3>2. /\ \A p \in Page : ~PageHas(p, f)'
          /\ \A u \in Process : ProcHas(u, f)' <=> u = t
          /\ f \notin free'
      BY <1>2, <1>3, <2>1, <2>2, <3>1 DEF OneHand, PageHas
    <3> QED BY <3>2 DEF OneHand
  <2> QED BY <2>4, <2>5, KeptFrames DEF Sound
<1> QED BY <1>7, <1>8, <1>9, <1>10, QuietStep

(* After its eviction a process asks for a frame again. *)
LEMMA GetFrameInv ==
    ASSUME TypeOK, Sound, NEW t \in Process, GetFrame(t)
    PROVE  TypeOK' /\ (Alive' => Sound')
<1>1. /\ th[t].pc = "get frame"
      /\ UNCHANGED <<file, alloc_map, swap, pte, sp, table, eviction_lock, page_list,
                     page_elem, pool_size, expect, late>>
  BY DEF GetFrame, Running, evictor, history
<1>2. CASE Palloc(t, th[t].back)
  BY <1>1, <1>2, PallocInv
<1>3. CASE NoFrame(t) /\ UNCHANGED <<free, mem>>
  <2>1. Still
    BY <1>1, <1>3 DEF Still
  <2> QED BY <1>1, <1>3, <2>1, NoFrameInv
<1> QED BY <1>2, <1>3 DEF GetFrame

(* A page of a file gets a frame, or has to evict for one. *)
LEMMA LoadFrameInv ==
    ASSUME TypeOK, Sound, NEW t \in Process, LoadFrame(t)
    PROVE  TypeOK' /\ Sound'
<1>1. /\ th[t].pc = "load"
      /\ UNCHANGED <<file, alloc_map, swap, pte, sp, table, eviction_lock, page_list,
                     page_elem, pool_size, expect, late>>
  BY DEF LoadFrame, Running, evictor, history
<1>2. CASE Palloc(t, "fill")
  BY <1>1, <1>2, PallocInv
<1>3. CASE Evict(t, "fill") /\ UNCHANGED <<free, mem>>
  <2>1. Still
    BY <1>1, <1>3 DEF Still
  <2> QED BY <1>1, <1>3, <2>1, EvictInv
<1> QED BY <1>2, <1>3 DEF LoadFrame

(* The same for a new page of the stack. *)
LEMMA AllocFrameInv ==
    ASSUME TypeOK, Sound, NEW t \in Process, AllocFrame(t)
    PROVE  TypeOK' /\ Sound'
<1>1. /\ th[t].pc = "grow"
      /\ UNCHANGED <<file, alloc_map, swap, pte, sp, table, eviction_lock, page_list,
                     page_elem, pool_size, expect, late>>
  BY DEF AllocFrame, Running, evictor, history
<1>2. CASE Palloc(t, "set page")
  BY <1>1, <1>2, PallocInv
<1>3. CASE Evict(t, "set page") /\ UNCHANGED <<free, mem>>
  <2>1. Still
    BY <1>1, <1>3 DEF Still
  <2> QED BY <1>1, <1>3, <2>1, EvictInv
<1> QED BY <1>2, <1>3 DEF AllocFrame

-----------------------------------------------------------------------------
(* The list of evictable pages *)

(* A page that was not listed is put in front of the list. *)
LEMMA EnlistStep ==
    ASSUME TypeOK, Distinct, NEW p \in Page, ~Listed(p), page_list' = <<p>> \o page_list
    PROVE  /\ page_list' \in Seq(Page) /\ Distinct'
           /\ \A q : Listed(q)' <=> (Listed(q) \/ q = p)
<1>1. /\ page_list \in Seq(Page) /\ Len(page_list) \in Nat
      /\ DOMAIN page_list = 1 .. Len(page_list)
  BY DEF TypeOK
<1>2. /\ page_list' \in Seq(Page) /\ Len(page_list') = Len(page_list) + 1
      /\ page_list'[1] = p /\ DOMAIN page_list' = 1 .. Len(page_list')
      /\ \A j \in 1 .. Len(page_list) : page_list'[j + 1] = page_list[j]
  BY <1>1
<1>3. \A i \in DOMAIN page_list' : i # 1 =>
        i - 1 \in DOMAIN page_list /\ page_list'[i] = page_list[i - 1]
  BY <1>1, <1>2
<1>4. \A j \in DOMAIN page_list : j + 1 \in DOMAIN page_list' /\ page_list'[j + 1] = page_list[j]
  BY <1>1, <1>2
<1>5. 1 \in DOMAIN page_list'
  BY <1>1, <1>2
<1>6. \A q : Listed(q)' <=> (Listed(q) \/ q = p)
  <2> TAKE q
  <2>1. ASSUME NEW i \in DOMAIN page_list', page_list'[i] = q PROVE Listed(q) \/ q = p
    BY <1>2, <1>3, <2>1 DEF Listed
  <2>2. Listed(q) => Listed(q)'
    BY <1>4 DEF Listed
  <2>3. Listed(p)'
    BY <1>2, <1>5 DEF Listed
  <2> QED BY <2>1, <2>2, <2>3 DEF Listed
<1>7. Distinct'
  <2> SUFFICES ASSUME NEW i \in DOMAIN page_list', NEW j \in DOMAIN page_list',
                      page_list'[i] = page_list'[j]
               PROVE  i = j
    BY DEF Distinct
  <2>1. i \in Nat /\ j \in Nat
    BY <1>1, <1>2
  <2>2. CASE i = 1 /\ j # 1
    BY <1>2, <1>3, <2>2 DEF Listed
  <2>3. CASE i # 1 /\ j = 1
    BY <1>2, <1>3, <2>3 DEF Listed
  <2>4. CASE i # 1 /\ j # 1
    <3>1. i - 1 = j - 1
      BY <1>3, <2>4 DEF Distinct
    <3> QED BY <2>1, <3>1
  <2> QED BY <2>2, <2>3, <2>4
<1> QED BY <1>2, <1>6, <1>7

(* A listed page is taken off the list, and the hand off the page. *)
LEMMA UnlistStep ==
    ASSUME TypeOK, Distinct, HandInv, NEW p \in Page, Listed(p), Unlist(p)
    PROVE  /\ page_list' \in Seq(Page) /\ page_elem' \in Page \cup {NoPage}
           /\ Distinct' /\ HandInv'
           /\ \A q : Listed(q)' <=> Listed(q) /\ q # p
<1>1. /\ page_list \in Seq(Page) /\ Len(page_list) \in Nat
      /\ DOMAIN page_list = 1 .. Len(page_list)
  BY DEF TypeOK
<1>2. PICK i \in DOMAIN page_list : i = IndexOf(p) /\ page_list[i] = p
  BY DEF Listed, IndexOf
<1>3. PICK a, b : a = SubSeq(page_list, 1, i - 1) /\ b = SubSeq(page_list, i + 1, Len(page_list))
  OBVIOUS
<1>4. a \in Seq(Page) /\ Len(a) = i - 1 /\ \A j \in 1 .. i - 1 : a[j] = page_list[j]
  BY <1>1, <1>3
<1>5. /\ b \in Seq(Page) /\ Len(b) = Len(page_list) - i
      /\ \A j \in 1 .. Len(page_list) - i : b[j] = page_list[i + j]
  BY <1>1, <1>3
<1>6. page_list' = a \o b
  BY <1>2, <1>3 DEF Unlist
<1>7. /\ page_list' \in Seq(Page) /\ Len(page_list') = Len(page_list) - 1
      /\ DOMAIN page_list' = 1 .. Len(page_list) - 1
  <2>0. a \in Seq(Page) /\ b \in Seq(Page)
    BY <1>4, <1>5
  <2>1. page_list' \in Seq(Page) /\ Len(page_list') = Len(a) + Len(b)
    BY <1>6, <2>0
  <2>2. Len(a) + Len(b) = Len(page_list) - 1
    BY <1>1, <1>4, <1>5
  <2> QED BY <2>1, <2>2
<1>8. \A j \in 1 .. Len(page_list) - 1 : j < i => page_list'[j] = page_list[j]
  BY <1>1, <1>4, <1>5, <1>6
<1>9. \A j \in 1 .. Len(page_list) - 1 : ~(j < i) => page_list'[j] = page_list[j + 1]
  <2> SUFFICES ASSUME NEW j \in 1 .. Len(page_list) - 1, ~(j < i)
               PROVE  page_list'[j] = page_list[j + 1]
    OBVIOUS
  <2>1. j - Len(a) \in 1 .. Len(b)
    BY <1>1, <1>4, <1>5
  <2>2. page_list'[j] = b[j - Len(a)]
    BY <1>1, <1>4, <1>5, <1>6, <2>1, SMTT(20)
  <2>3. j - Len(a) = j - i + 1
    BY <1>1, <1>4
  <2>4. b[j - i + 1] = page_list[i + (j - i + 1)]
    BY <1>5, <2>1, <2>3
  <2> QED BY <1>1, <2>2, <2>3, <2>4
<1>10. \A q : Listed(q)' <=> Listed(q) /\ q # p
  <2> TAKE q
  <2>1. ASSUME NEW j \in DOMAIN page_list', page_list'[j] = q PROVE Listed(q) /\ q # p
    <3>1. CASE j < i
      BY <1>1, <1>2, <1>7, <1>8, <2>1, <3>1 DEF Listed, Distinct
    <3>2. CASE ~(j < i)
      BY <1>1, <1>2, <1>7, <1>9, <2>1, <3>2, SMTT(20) DEF Listed, Distinct
    <3> QED BY <3>1, <3>2
  <2>2. ASSUME NEW j \in DOMAIN page_list, page_list[j] = q, q # p PROVE Listed(q)'
    <3>1. CASE j < i
      BY <1>1, <1>2, <1>7, <1>8, <2>2, <3>1 DEF Listed
    <3>2. CASE j > i
      <4>1. j - 1 \in DOMAIN page_list' /\ page_list'[j - 1] = q
        BY <1>1, <1>2, <1>7, <1>9, <2>2, <3>2
      <4> QED BY <4>1 DEF Listed
    <3> QED BY <1>1, <1>2, <2>2, <3>1, <3>2
  <2> QED BY <2>1, <2>2 DEF Listed
<1>11. Distinct'
  <2> SUFFICES ASSUME NEW j \in DOMAIN page_list', NEW k \in DOMAIN page_list',
                      page_list'[j] = page_list'[k]
               PROVE  j = k
    BY DEF Distinct
  <2> DEFINE Old(x) == IF x < i THEN x ELSE x + 1
  <2>1. Old(j) \in DOMAIN page_list /\ page_list[Old(j)] = page_list'[j]
    BY <1>1, <1>7, <1>8, <1>9
  <2>2. Old(k) \in DOMAIN page_list /\ page_list[Old(k)] = page_list'[k]
    BY <1>1, <1>7, <1>8, <1>9
  <2>3. Old(j) = Old(k)
    BY <2>1, <2>2 DEF Distinct
  <2> QED BY <1>1, <1>7, <2>3
<1>12. HandInv' /\ page_elem' \in Page \cup {NoPage}
  <2>1. CASE page_elem # p
    BY <1>10, <2>1 DEF Unlist, HandAfter, HandInv, TypeOK
  <2>2. CASE page_elem = p /\ i = Len(page_list)
    BY <1>2, <2>2 DEF Unlist, HandAfter, ListNext, HandInv
  <2>3. CASE page_elem = p /\ i # Len(page_list)
    <3>1. page_elem' = page_list[i + 1]
      BY <1>2, <2>3 DEF Unlist, HandAfter, ListNext
    <3>2. i + 1 \in DOMAIN page_list /\ i + 1 # i
      BY <1>1, <2>3
    <3>3. page_list[i + 1] \in Page /\ Listed(page_list[i + 1]) /\ page_list[i + 1] # p
      BY <1>1, <1>2, <3>2 DEF Listed, Distinct
    <3> QED BY <1>10, <3>1, <3>3 DEF HandInv
  <2> QED BY <2>1, <2>2, <2>3
<1> QED BY <1>7, <1>10, <1>11, <1>12

-----------------------------------------------------------------------------
(* Giving a frame to a page *)

(* A page that has no frame is not listed while the lock is free. *)
LEMMA NotListed ==
    ASSUME Sound, LockFree, NEW p \in Page,
           sp[p].kaddr = None \/ InTransit(p)
    PROVE  ~Listed(p)
<1>1. ListAt(p) /\ ~BeingUnmapped(p) /\ (Listed(p) => p \in table)
  BY NobodyInside DEF Sound, ListInv
<1> QED BY <1>1 DEF ListAt

(* The frame, free or in the hand of t, goes to the page of t. *)
Given(t, p, f) ==
    /\ p = th[t].arg /\ Owner[p] = t /\ LockFree /\ sp[p].kaddr = None
    /\ th[t].pc \notin Transit
    /\ Moves(t) /\ th'[t].arg = p /\ th'[t].pc \in Transit
    /\ th'[t].pc = "register" => th'[t].kpage = None
    /\ UNCHANGED <<eviction_lock, page_list, page_elem>>
    /\ \A q \in Page \ {p} : sp'[q] = sp[q] /\ pte'[q] = pte[q] /\ (q \in table' <=> q \in table)
    /\ p \in table' /\ sp'[p].kaddr = f /\ pte'[p].frame = f
    /\ \/ f \in free /\ free' = free \ {f} /\ th[t].kpage = None
       \/ th[t].pc \in Backs /\ th[t].kpage = f /\ free' = free

(* The frame that t had in hand, or took, is now its page's. *)
LEMMA GivenFrame ==
    ASSUME TypeOK, Sound, NEW t \in Process, NEW p \in Page, NEW f \in Frame, Given(t, p, f)
    PROVE  FrameInv'
<1>1. \A u \in Process \ {t} : \A g \in Frame : ProcHas(u, g)' <=> ProcHas(u, g)
  BY DEF Given, Moves, ProcHas, Borrowed
<1>2. \A g \in Frame : ~ProcHas(t, g)'
  BY Marks DEF Given, ProcHas, Borrowed, Transit
<1>3. \A g \in Frame \ {f} : ~ProcHas(t, g)
  BY Marks DEF Given, ProcHas
<1>4. \A g \in Frame \ {f} : SameHand(g)
  <2> TAKE g \in Frame \ {f}
  <2>1. g \in free' <=> g \in free
    BY DEF Given
  <2>2. \A q \in Page : PageHas(q, g)' <=> PageHas(q, g)
    BY Marks DEF Given, PageHas
  <2> QED BY <1>1, <1>2, <1>3, <2>1, <2>2 DEF SameHand
<1>5. OneHand(f)'
  <2>1. OneHand(f)
    BY DEF Sound, FrameInv
  <2>2. (f \in free /\ f \notin free') \/ (ProcHas(t, f) /\ free' = free)
    BY DEF Given, ProcHas, Backs, Borrowed
  <2>3. /\ \A q \in Page : ~PageHas(q, f)
        /\ \A u \in Process \ {t} : ~ProcHas(u, f)
        /\ f \notin free'
    BY <2>1, <2>2 DEF OneHand
  <2>4. /\ \A q \in Page : PageHas(q, f)' <=> q = p
        /\ \A u \in Process : ~ProcHas(u, f)'
    BY <1>1, <1>2, <2>3 DEF Given, PageHas
  <2> QED BY <2>3, <2>4 DEF OneHand
<1> QED BY <1>4, <1>5, KeptFrames DEF Sound

(* What is left to show of a step that gives a page its frame. *)
LEMMA GivenStep ==
    ASSUME TypeOK, Sound, NEW t \in Process, NEW p \in Page, NEW f \in Frame, Given(t, p, f),
           ThreadInv(t)', PageInv(p)', SlotInv'
    PROVE  Sound'
<1>1. \A q : Listed(q)' <=> Listed(q)
  BY DEF Given, Listed
<1>2. OwnChange(t, p)
  <2>1. th[t].pc \notin Inside
    BY NobodyInside DEF Given
  <2>2. th'[t].pc \notin Inside
    BY DEF Given, Transit, Inside
  <2>3. \A q \in Page \ {p} : Untouched(q)
    BY DEF Given, Untouched, SteadyPage
  <2> QED BY <1>1, <2>1, <2>2, <2>3 DEF OwnChange, Given
<1>3. ListAt(p)'
  <2>1. ~Listed(p)'
    BY <1>1, NotListed DEF Given
  <2>2. InTransit(p)'
    BY DEF InTransit, Given, Transit
  <2>3. \A u \in Process : th'[u].pc # "unmap victim"
    BY NobodyInside DEF Given, Moves, Transit, Inside
  <2> QED BY <2>1, <2>2, <2>3 DEF ListAt, BeingUnmapped, Given
<1>4. Distinct' /\ HandInv'
  BY <1>1 DEF Given, Sound, ListInv, Distinct, HandInv
<1>5. FrameInv'
  BY GivenFrame
<1> QED BY <1>2, <1>3, <1>4, <1>5, OwnStep DEF Given

(* A page comes back from its slot, which is free again. *)
LEMMA FromSwapInv ==
    ASSUME TypeOK, Sound, NEW t \in Process, NEW f \in Frame, FromSwap(t, f), LockFree,
           UNCHANGED <<file, swap, table, eviction_lock, page_list, page_elem, pool_size,
                       expect, late>>,
           \/ th[t].pc = "restore" /\ f \in free /\ free' = free \ {f}
           \/ th[t].pc = "restored frame" /\ f = th[t].kpage /\ free' = free
    PROVE  TypeOK' /\ Sound' /\ Given(t, th[t].arg, f)
<1>1. PICK p : p = th[t].arg
  OBVIOUS
<1>2. /\ PhaseInv(t, th[t].pc, p, th[t].after) /\ p \in Page /\ Owner[p] = t
  BY <1>1, Known DEF Evicting, Busy, Entering, FromSwapping
<1>3. /\ p \in table /\ sp[p].kaddr = None /\ sp[p].location = "swap"
      /\ th[t].after = "user"
  BY <1>2 DEF PhaseInv, Busy, Growing, Entering, FromSwapping
<1>4. PageInv(p)
  BY <1>2 DEF Sound
<1>5. PICK s \in Slot : s = sp[p].saddr
  <2>1. sp[p].saddr \in Slot \cup {None} /\ sp[p].saddr # None
    BY <1>2, <1>3, <1>4 DEF PageInv, TypeOK, PageRec
  <2> QED BY <2>1
<1>6. /\ pte' = [pte EXCEPT ![p] = [frame |-> f, rw |-> TRUE, dirty |-> TRUE]]
      /\ mem' = [mem EXCEPT ![f] = swap[s]]
      /\ alloc_map' = alloc_map \ {s}
      /\ sp' = [sp EXCEPT ![p].kaddr = f, ![p].saddr = None, ![p].location = "ram"]
      /\ th' = [th EXCEPT ![t].pc = "register", ![t].kpage = None]
  BY <1>1, <1>5 DEF FromSwap
<1>7. /\ Moves(t) /\ th'[t].pc = "register" /\ th'[t].kpage = None /\ th'[t].arg = p
      /\ th'[t].after = "user"
  <2>1. PICK x : x = [th[t] EXCEPT !.pc = "register", !.kpage = None]
    OBVIOUS
  <2>2. th[t] \in ThreadRec /\ "register" \in Points
    BY DEF TypeOK, Points
  <2>3. /\ x \in ThreadRec /\ x.pc = "register" /\ x.kpage = None /\ x.arg = th[t].arg
        /\ x.after = th[t].after
    BY <2>1, <2>2 DEF ThreadRec
  <2>4. th' = [th EXCEPT ![t] = x]
    BY <1>6, <2>1 DEF TypeOK, ThreadRec
  <2> QED BY <1>1, <1>3, <2>3, <2>4 DEF TypeOK, Moves
<1>8. /\ sp' \in [Page -> PageRec] /\ \A q \in Page \ {p} : sp'[q] = sp[q]
      /\ sp'[p].kaddr = f /\ sp'[p].saddr = None /\ sp'[p].location = "ram"
      /\ sp'[p].mapping = sp[p].mapping
  <2>1. PICK x : x = [sp[p] EXCEPT !.kaddr = f, !.saddr = None, !.location = "ram"]
    OBVIOUS
  <2>2. sp[p] \in PageRec
    BY <1>2 DEF TypeOK
  <2>3. /\ x \in PageRec /\ x.kaddr = f /\ x.saddr = None /\ x.location = "ram"
        /\ x.mapping = sp[p].mapping
    BY <2>1, <2>2 DEF PageRec
  <2>4. sp' = [sp EXCEPT ![p] = x]
    BY <1>2, <1>6, <2>1 DEF TypeOK, PageRec
  <2> QED BY <1>2, <2>3, <2>4, PageStep
<1>9. pte' \in [Page -> PteRec] /\ pte'[p].frame = f /\ \A q \in Page \ {p} : pte'[q] = pte[q]
  BY <1>2, <1>6 DEF TypeOK, PteRec
<1>10. TypeOK'
  <2>1. mem' \in [Frame -> Values]
    BY <1>6 DEF TypeOK
  <2>2. free' \subseteq Frame /\ alloc_map' \subseteq Slot
    BY <1>6 DEF TypeOK
  <2> QED BY <1>7, <1>8, <1>9, <2>1, <2>2 DEF TypeOK, Moves
<1>11. f # None
  BY Marks
<1>12. ThreadInv(t)'
  <2>1. PhaseInv(t, "register", p, "user")'
    BY <1>2, <1>3, <1>8, <1>11 DEF PhaseInv, Busy, Entering, FromSwapping, FromFile, Growing,
       Unmapping, Disposing
  <2> QED BY <1>7, <2>1 DEF ThreadInv, Phase, Evicting, Holding, Backs, Borrowed
<1>13. PageInv(p)'
  BY <1>3, <1>4, <1>8, <1>9 DEF PageInv
<1>14. SlotInv'
  <2> SUFFICES ASSUME NEW r \in Slot PROVE OnePage(r)'
    BY DEF SlotInv, Slot
  <2>1. OnePage(r)
    BY DEF Sound, SlotInv
  <2>2. r # None
    BY Marks
  <2>3. \A q \in Page : sp'[q].saddr = r <=> (sp[q].saddr = r /\ q # p)
    BY <1>8, <2>2
  <2>4. r \in alloc_map' <=> (r \in alloc_map /\ r # s)
    BY <1>6
  <2> QED BY <1>2, <1>5, <2>1, <2>3, <2>4 DEF OnePage
<1>15. Given(t, p, f)
  <2>1. \/ f \in free /\ free' = free \ {f} /\ th[t].kpage = None
        \/ th[t].pc \in Backs /\ th[t].kpage = f /\ free' = free
    BY EmptyHanded DEF Backs, Holding, Borrowed
  <2>2. th[t].pc \notin Transit
    BY DEF Transit
  <2> QED BY <1>1, <1>2, <1>3, <1>7, <1>8, <1>9, <2>1, <2>2 DEF Given, Transit
<1> QED BY <1>1, <1>2, <1>10, <1>12, <1>13, <1>14, <1>15, GivenStep

(* restore_page_from_swap, with a free frame or by an eviction. *)
LEMMA RestoreInv ==
    ASSUME TypeOK, Sound, NEW t \in Process, restore_page_from_swap(t)
    PROVE  TypeOK' /\ Sound'
<1>1. /\ LockFree
      /\ UNCHANGED <<file, swap, table, eviction_lock, page_list, page_elem, pool_size,
                     expect, late>>
  BY DEF restore_page_from_swap, evictor, history
<1>2. CASE /\ th[t].pc = "restore" /\ free # {}
           /\ FromSwap(t, Least(free)) /\ free' = free \ {Least(free)}
  <2>1. PICK f : f = Least(free)
    OBVIOUS
  <2>2. f \in free /\ f \in Frame
    BY <1>2, <2>1, LeastIn, Marks DEF TypeOK
  <2> QED BY <1>1, <1>2, <2>1, <2>2, FromSwapInv
<1>3. CASE /\ th[t].pc = "restore" /\ Evict(t, "restored frame")
           /\ UNCHANGED <<free, mem, alloc_map, pte, sp>>
  <2>1. Still
    BY <1>1, <1>3 DEF Still
  <2> QED BY <1>3, <2>1, EvictInv
<1>4. CASE /\ th[t].pc = "restored frame" /\ FromSwap(t, th[t].kpage) /\ UNCHANGED free
  <2>1. PICK f : f = th[t].kpage
    OBVIOUS
  <2>2. f \in Frame
    BY <1>4, <2>1 DEF Sound, ThreadInv, Holding, Backs, TypeOK, ThreadRec
  <2> QED BY <1>1, <1>4, <2>1, <2>2, FromSwapInv
<1> QED BY <1>2, <1>3, <1>4 DEF restore_page_from_swap, Running

(* A page of a file is read into its frame. *)
LEMMA FillInv ==
    ASSUME TypeOK, Sound, NEW t \in Process, Fill(t)
    PROVE  TypeOK' /\ Sound' /\ Given(t, th[t].arg, th[t].kpage)
<1>1. PICK p, f : p = th[t].arg /\ f = th[t].kpage
  OBVIOUS
<1>2. /\ th[t].pc = "fill" /\ LockFree
      /\ pte' = [pte EXCEPT ![p] = [frame |-> f, rw |-> Writable(p), dirty |-> FALSE]]
      /\ mem' = [mem EXCEPT ![f] = file[p]]
      /\ sp' = [sp EXCEPT ![p].kaddr = f]
      /\ th' = [th EXCEPT ![t].pc = "register", ![t].kpage = None, ![t].after = "loaded"]
      /\ UNCHANGED <<free, file, alloc_map, swap, table, eviction_lock, page_list, page_elem,
                     pool_size, expect, late>>
  BY <1>1 DEF Fill, Running, evictor, history
<1>3. PhaseInv(t, "fill", p, th[t].after) /\ p \in Page /\ Owner[p] = t
  BY <1>1, <1>2, Known DEF Evicting, Busy, Entering, FromFile
<1>4. p \in table /\ sp[p].kaddr = None /\ sp[p].location = "file"
  BY <1>3 DEF PhaseInv, Busy, Growing, Entering, FromFile
<1>5. PageInv(p) /\ f \in Frame /\ f # None
  BY <1>1, <1>2, <1>3, Marks DEF Sound, ThreadInv, Holding, Backs, TypeOK, ThreadRec
<1>6. /\ Moves(t) /\ th'[t].pc = "register" /\ th'[t].kpage = None /\ th'[t].arg = p
      /\ th'[t].after = "loaded"
  <2>1. PICK x : x = [th[t] EXCEPT !.pc = "register", !.kpage = None, !.after = "loaded"]
    OBVIOUS
  <2>2. th[t] \in ThreadRec /\ "register" \in Points /\ "loaded" \in Points
    BY DEF TypeOK, Points
  <2>3. /\ x \in ThreadRec /\ x.pc = "register" /\ x.kpage = None /\ x.arg = th[t].arg
        /\ x.after = "loaded"
    BY <2>1, <2>2 DEF ThreadRec
  <2>4. th' = [th EXCEPT ![t] = x]
    BY <1>2, <2>1 DEF TypeOK, ThreadRec
  <2> QED BY <1>1, <2>3, <2>4 DEF TypeOK, Moves
<1>7. /\ sp' \in [Page -> PageRec] /\ \A q \in Page \ {p} : sp'[q] = sp[q]
      /\ sp'[p].kaddr = f /\ sp'[p].saddr = sp[p].saddr /\ sp'[p].location = sp[p].location
      /\ sp'[p].mapping = sp[p].mapping
  <2>1. PICK x : x = [sp[p] EXCEPT !.kaddr = f]
    OBVIOUS
  <2>2. sp[p] \in PageRec
    BY <1>3 DEF TypeOK
  <2>3. /\ x \in PageRec /\ x.kaddr = f /\ x.saddr = sp[p].saddr
        /\ x.location = sp[p].location /\ x.mapping = sp[p].mapping
    BY <1>5, <2>1, <2>2 DEF PageRec
  <2>4. sp' = [sp EXCEPT ![p] = x]
    BY <1>2, <2>1
  <2> QED BY <1>3, <2>3, <2>4, PageStep
<1>8. pte' \in [Page -> PteRec] /\ pte'[p].frame = f /\ \A q \in Page \ {p} : pte'[q] = pte[q]
  <2>1. Writable(p) \in BOOLEAN
    BY DEF Writable
  <2> QED BY <1>2, <1>3, <1>5, <2>1 DEF TypeOK, PteRec
<1>9. TypeOK'
  <2>1. mem' \in [Frame -> Values]
    BY <1>2, <1>3 DEF TypeOK
  <2> QED BY <1>2, <1>6, <1>7, <1>8, <2>1 DEF TypeOK, Moves
<1>10. ThreadInv(t)'
  <2>1. PhaseInv(t, "register", p, "loaded")'
    BY <1>2, <1>3, <1>4, <1>5, <1>7 DEF PhaseInv, Busy, Entering, FromSwapping, FromFile,
       Growing, Unmapping, Disposing
  <2> QED BY <1>6, <2>1 DEF ThreadInv, Phase, Evicting, Holding, Backs, Borrowed
<1>11. PageInv(p)'
  BY <1>2, <1>4, <1>5, <1>7, <1>8 DEF PageInv
<1>12. SlotInv'
  BY <1>2, <1>7, KeptSlots DEF Sound
<1>13. Given(t, p, f)
  BY <1>1, <1>2, <1>3, <1>4, <1>6, <1>7, <1>8 DEF Given, Transit, Backs
<1> QED BY <1>1, <1>3, <1>5, <1>9, <1>10, <1>11, <1>12, <1>13, GivenStep

(* A new page of the stack enters the supplemental table. *)
LEMMA SetPageInv ==
    ASSUME TypeOK, Sound, NEW t \in Process, suppl_table_set_page(t)
    PROVE  TypeOK' /\ Sound' /\ Given(t, th[t].arg, th[t].kpage)
<1>1. PICK p, f : p = th[t].arg /\ f = th[t].kpage
  OBVIOUS
<1>2. /\ th[t].pc = "set page" /\ LockFree
      /\ pte' = [pte EXCEPT ![p] = [frame |-> f, rw |-> TRUE, dirty |-> TRUE]]
      /\ table' = table \cup {p}
      /\ sp' = [sp EXCEPT ![p].kaddr = f, ![p].location = "ram", ![p].dirty = TRUE]
      /\ th' = [th EXCEPT ![t].pc = "register", ![t].kpage = None]
      /\ UNCHANGED <<free, mem, file, alloc_map, swap, eviction_lock, page_list, page_elem,
                     pool_size, expect, late>>
  BY <1>1 DEF suppl_table_set_page, Running, evictor, history
<1>3. PhaseInv(t, "set page", p, th[t].after) /\ p \in Page /\ Owner[p] = t
  BY <1>1, <1>2, Known DEF Evicting, Busy, Entering, Growing
<1>4. p \notin table /\ Kind[p] = "stack" /\ th[t].after = "user"
  BY <1>3 DEF PhaseInv, Growing, Entering
<1>5. PageInv(p) /\ f \in Frame /\ f # None
  BY <1>1, <1>2, <1>3, Marks DEF Sound, ThreadInv, Holding, Backs, TypeOK, ThreadRec
<1>6. /\ Moves(t) /\ th'[t].pc = "register" /\ th'[t].kpage = None /\ th'[t].arg = p
      /\ th'[t].after = "user"
  <2>1. PICK x : x = [th[t] EXCEPT !.pc = "register", !.kpage = None]
    OBVIOUS
  <2>2. th[t] \in ThreadRec /\ "register" \in Points
    BY DEF TypeOK, Points
  <2>3. /\ x \in ThreadRec /\ x.pc = "register" /\ x.kpage = None /\ x.arg = th[t].arg
        /\ x.after = th[t].after
    BY <2>1, <2>2 DEF ThreadRec
  <2>4. th' = [th EXCEPT ![t] = x]
    BY <1>2, <2>1 DEF TypeOK, ThreadRec
  <2> QED BY <1>1, <1>4, <2>3, <2>4 DEF TypeOK, Moves
<1>7. /\ sp' \in [Page -> PageRec] /\ \A q \in Page \ {p} : sp'[q] = sp[q]
      /\ sp'[p].kaddr = f /\ sp'[p].saddr = sp[p].saddr /\ sp'[p].location = "ram"
  <2>1. PICK x : x = [sp[p] EXCEPT !.kaddr = f, !.location = "ram", !.dirty = TRUE]
    OBVIOUS
  <2>2. sp[p] \in PageRec
    BY <1>3 DEF TypeOK
  <2>3. x \in PageRec /\ x.kaddr = f /\ x.saddr = sp[p].saddr /\ x.location = "ram"
    BY <1>5, <2>1, <2>2 DEF PageRec
  <2>4. sp' = [sp EXCEPT ![p] = x]
    BY <1>2, <1>3, <2>1 DEF TypeOK, PageRec
  <2> QED BY <1>3, <2>3, <2>4, PageStep
<1>8. pte' \in [Page -> PteRec] /\ pte'[p].frame = f /\ \A q \in Page \ {p} : pte'[q] = pte[q]
  BY <1>2, <1>3, <1>5 DEF TypeOK, PteRec
<1>9. TypeOK'
  BY <1>2, <1>3, <1>6, <1>7, <1>8 DEF TypeOK, Moves
<1>10. ThreadInv(t)'
  <2>1. PhaseInv(t, "register", p, "user")'
    BY <1>2, <1>3, <1>5, <1>7 DEF PhaseInv, Busy, Entering, FromSwapping, FromFile, Growing,
       Unmapping, Disposing
  <2> QED BY <1>6, <2>1 DEF ThreadInv, Phase, Evicting, Holding, Backs, Borrowed
<1>11. PageInv(p)' /\ sp[p].kaddr = None
  BY <1>2, <1>4, <1>5, <1>7, <1>8 DEF PageInv
<1>12. SlotInv'
  BY <1>2, <1>7, KeptSlots DEF Sound
<1>13. Given(t, p, f)
  BY <1>1, <1>2, <1>3, <1>4, <1>6, <1>7, <1>8, <1>11 DEF Given, Transit, Backs
<1> QED BY <1>1, <1>3, <1>5, <1>9, <1>10, <1>11, <1>12, <1>13, GivenStep

(* munmap of an evicted page gives it the frame of an eviction. *)
LEMMA SetKpageInv ==
    ASSUME TypeOK, Sound, NEW t \in Process, SetKpage(t)
    PROVE  TypeOK' /\ Sound' /\ Given(t, th[t].arg, th[t].kpage)
<1>1. PICK p, f : p = th[t].arg /\ f = th[t].kpage
  OBVIOUS
<1>2. /\ th[t].pc = "unmap" /\ LockFree
      /\ pte' = [pte EXCEPT ![p] = [frame |-> f, rw |-> TRUE, dirty |-> FALSE]]
      /\ sp' = [sp EXCEPT ![p].kaddr = f] /\ Goto(t, "write back")
      /\ UNCHANGED <<free, mem, file, alloc_map, swap, table, eviction_lock, page_list,
                     page_elem, pool_size, expect, late>>
  BY <1>1 DEF SetKpage, Running, evictor, history
<1>3. PhaseInv(t, "unmap", p, th[t].after) /\ p \in Page /\ Owner[p] = t
  BY <1>1, <1>2, Known DEF Evicting, Busy, Unmapping
<1>4. /\ p \in table /\ sp[p].kaddr = None /\ Kind[p] = "mmap"
      /\ th[t].after \in {"user", "exit"}
  BY <1>3 DEF PhaseInv, Busy, Growing, Unmapping
<1>5. PageInv(p) /\ f \in Frame /\ f # None
  BY <1>1, <1>2, <1>3, Marks DEF Sound, ThreadInv, Holding, Backs, TypeOK, ThreadRec
<1>6. /\ Moves(t) /\ th'[t].pc = "write back" /\ th'[t].arg = p
      /\ th'[t].after = th[t].after
  BY <1>1, <1>2, GotoStep DEF Points
<1>7. /\ sp' \in [Page -> PageRec] /\ \A q \in Page \ {p} : sp'[q] = sp[q]
      /\ sp'[p].kaddr = f /\ sp'[p].saddr = sp[p].saddr /\ sp'[p].location = sp[p].location
      /\ sp'[p].mapping = sp[p].mapping
  <2>1. PICK x : x = [sp[p] EXCEPT !.kaddr = f]
    OBVIOUS
  <2>2. sp[p] \in PageRec
    BY <1>3 DEF TypeOK
  <2>3. /\ x \in PageRec /\ x.kaddr = f /\ x.saddr = sp[p].saddr
        /\ x.location = sp[p].location /\ x.mapping = sp[p].mapping
    BY <1>5, <2>1, <2>2 DEF PageRec
  <2>4. sp' = [sp EXCEPT ![p] = x]
    BY <1>2, <2>1
  <2> QED BY <1>3, <2>3, <2>4, PageStep
<1>8. pte' \in [Page -> PteRec] /\ pte'[p].frame = f /\ \A q \in Page \ {p} : pte'[q] = pte[q]
  BY <1>2, <1>3, <1>5 DEF TypeOK, PteRec
<1>9. TypeOK'
  BY <1>2, <1>6, <1>7, <1>8 DEF TypeOK, Moves
<1>10. ThreadInv(t)'
  <2>1. PhaseInv(t, "write back", p, th[t].after)'
    BY <1>2, <1>3, <1>4, <1>6 DEF PhaseInv, Busy, Entering, FromSwapping, FromFile, Growing,
       Unmapping, Disposing
  <2> QED BY <1>6, <2>1 DEF ThreadInv, Phase, Evicting, Holding, Backs, Borrowed
<1>11. PageInv(p)'
  BY <1>2, <1>4, <1>5, <1>7, <1>8 DEF PageInv
<1>12. SlotInv'
  BY <1>2, <1>7, KeptSlots DEF Sound
<1>13. Given(t, p, f)
  BY <1>1, <1>2, <1>3, <1>4, <1>6, <1>7, <1>8 DEF Given, Transit, Backs
<1> QED BY <1>1, <1>3, <1>5, <1>9, <1>10, <1>11, <1>12, <1>13, GivenStep

-----------------------------------------------------------------------------
(* Listing and unlisting a page of one's own *)

(* A process that brings in or writes back a page owns it. *)
LEMMA TransitOwner ==
    ASSUME Sound, NEW u \in Process, th[u].pc \in Transit
    PROVE  /\ th[u].arg \in Page /\ Owner[th[u].arg] = u /\ th[u].arg \in table
           /\ PhaseInv(u, th[u].pc, th[u].arg, th[u].after)
<1>1. PhaseInv(u, th[u].pc, th[u].arg, th[u].after)
  BY Known DEF Transit, Evicting
<1> QED BY <1>1 DEF PhaseInv, Transit, Busy, Growing, Unmapping

(* A page that was in transit is listed again. *)
LEMMA EnlistInv ==
    ASSUME TypeOK, Sound, NEW t \in Process, NEW p, p = th[t].arg, th[t].pc \in Transit,
           LockFree, sp[p].kaddr # None, page_list' = <<p>> \o page_list,
           Moves(t), th'[t].pc \in {"user", "loaded", "dispose"}, ThreadInv(t)',
           UNCHANGED <<free, alloc_map, pte, sp, table, eviction_lock, page_elem>>
    PROVE  Sound' /\ page_list' \in Seq(Page)
<1>1. p \in Page /\ Owner[p] = t /\ p \in table
  BY TransitOwner
<1>2. InTransit(p)
  BY DEF InTransit, Transit
<1>3. ~Listed(p)
  BY <1>1, <1>2, NotListed
<1>4. /\ page_list' \in Seq(Page) /\ Distinct'
      /\ \A q : Listed(q)' <=> (Listed(q) \/ q = p)
  BY <1>1, <1>3, EnlistStep DEF Sound, ListInv
<1>5. HandInv'
  BY <1>4 DEF HandInv, Sound, ListInv
<1>6. /\ th'[t].pc \notin Inside /\ th'[t].pc \notin Transit
      /\ th[t].pc \notin Inside /\ th[t].pc \notin Holding /\ th'[t].pc \notin Holding
  BY DEF Inside, Transit, Holding, Backs
<1>7. OwnChange(t, p)
  <2>1. \A q \in Page \ {p} : Untouched(q) /\ (Listed(q)' <=> Listed(q))
    BY <1>4 DEF Untouched, SteadyPage
  <2> QED BY <1>6, <2>1 DEF OwnChange
<1>8. ListAt(p)'
  <2>1. \A u \in Process : ~(th'[u].arg = p /\ th'[u].pc \in Transit)
    BY <1>1, <1>6, TransitOwner DEF Moves
  <2>2. ~InTransit(p)'
    BY <2>1 DEF InTransit, Transit
  <2> QED BY <1>1, <1>4, <2>2 DEF ListAt
<1>9. PageInv(p)'
  <2>1. PageInv(p) /\ ~Detaching(p)
    BY <1>1, NobodyInside DEF Sound
  <2> QED BY <2>1 DEF PageInv
<1>10. FrameInv'
  BY <1>6, SameHands
<1>11. SlotInv'
  BY KeptSlots DEF Sound
<1> QED BY <1>1, <1>4, <1>5, <1>7, <1>8, <1>9, <1>10, <1>11, OwnStep

(* register_suppl_page lists a page that has its frame. *)
LEMMA RegisterInv ==
    ASSUME TypeOK, Sound, NEW t \in Process, register_suppl_page(t)
    PROVE  TypeOK' /\ Sound'
<1>1. /\ th[t].pc = "register" /\ LockFree /\ page_list' = <<th[t].arg>> \o page_list
      /\ Goto(t, th[t].after)
      /\ UNCHANGED <<free, mem, file, alloc_map, swap, pte, sp, table, eviction_lock,
                     page_elem, pool_size, expect, late>>
  BY DEF register_suppl_page, Running, machine, history
<1>2. PhaseInv(t, "register", th[t].arg, th[t].after)
  BY <1>1, Known DEF Evicting
<1>3. /\ sp[th[t].arg].kaddr # None /\ th[t].after \in {"user", "loaded"}
      /\ th[t].arg \in Page /\ Owner[th[t].arg] = t /\ th[t].arg \in table
  BY <1>2 DEF PhaseInv, Busy, Growing
<1>4. th[t].kpage = None /\ th[t].after \in Points
  BY <1>1, <1>3, EmptyHanded DEF Holding, Backs, Borrowed, Points
<1>5. /\ Moves(t) /\ th'[t].pc = th[t].after /\ th'[t].arg = th[t].arg /\ th'[t].kpage = None
  BY <1>1, <1>4, GotoStep
<1>6. ThreadInv(t)'
  <2>1. CASE th[t].after = "user"
    BY <1>5, <2>1, AtRest
  <2>2. CASE th[t].after = "loaded"
    <3>1. PhaseInv(t, "loaded", th[t].arg, th[t].after)'
      BY <1>1, <1>3, <1>5 DEF PhaseInv, Busy, Entering, FromSwapping, FromFile, Growing,
         Unmapping, Disposing
    <3> QED BY <1>5, <2>2, <3>1 DEF ThreadInv, Phase, Evicting, Holding, Backs
  <2> QED BY <1>3, <2>1, <2>2
<1>7. Sound' /\ page_list' \in Seq(Page)
  BY <1>1, <1>3, <1>5, <1>6, EnlistInv DEF Transit
<1>8. TypeOK'
  BY <1>1, <1>5, <1>7 DEF TypeOK, Moves
<1> QED BY <1>7, <1>8

(* munmap writes a page back and lists it again, or panics. *)
LEMMA WriteBackInv ==
    ASSUME TypeOK, Sound, NEW t \in Process, WriteBack(t)
    PROVE  TypeOK' /\ (Alive' => Sound')
<1>1. CASE Stop("write from address 0")
  BY <1>1 DEF Stop, Alive, TypeOK, machine, evictor, history
<1>2. CASE ~Stop("write from address 0")
  <2>1. PICK p : p = th[t].arg
    OBVIOUS
  <2>2. /\ th[t].pc = "write back" /\ LockFree /\ sp[p].kaddr # None
        /\ file' = [file EXCEPT ![p] = mem[sp[p].kaddr]]
        /\ page_list' = <<p>> \o page_list
        /\ th' = [th EXCEPT ![t].pc = "dispose", ![t].kpage = None]
        /\ UNCHANGED <<free, mem, alloc_map, swap, pte, sp, table, eviction_lock,
                       page_elem, pool_size, panic, expect, late>>
    BY <1>2, <2>1 DEF WriteBack, Running, history
  <2>3. /\ PhaseInv(t, "write back", p, th[t].after) /\ p \in Page /\ Owner[p] = t
        /\ p \in table
    BY <2>1, <2>2, TransitOwner DEF Transit
  <2>4. th[t].after \in {"user", "exit"}
    BY <2>3 DEF PhaseInv, Unmapping
  <2>5. /\ Moves(t) /\ th'[t].pc = "dispose" /\ th'[t].kpage = None /\ th'[t].arg = p
        /\ th'[t].after = th[t].after
    <3>1. PICK x : x = [th[t] EXCEPT !.pc = "dispose", !.kpage = None]
      OBVIOUS
    <3>2. th[t] \in ThreadRec /\ "dispose" \in Points
      BY DEF TypeOK, Points
    <3>3. /\ x \in ThreadRec /\ x.pc = "dispose" /\ x.kpage = None /\ x.arg = th[t].arg
          /\ x.after = th[t].after
      BY <3>1, <3>2 DEF ThreadRec
    <3>4. th' = [th EXCEPT ![t] = x]
      BY <2>2, <3>1 DEF TypeOK, ThreadRec
    <3> QED BY <2>1, <3>3, <3>4 DEF TypeOK, Moves
  <2>6. ThreadInv(t)'
    <3>1. PhaseInv(t, "dispose", p, th[t].after)'
      BY <2>2, <2>3, <2>4, <2>5 DEF PhaseInv, Busy, Entering, FromSwapping, FromFile, Growing,
         Unmapping, Disposing
    <3> QED BY <2>5, <3>1 DEF ThreadInv, Phase, Evicting, Holding, Backs
  <2>7. Sound' /\ page_list' \in Seq(Page)
    BY <2>1, <2>2, <2>5, <2>6, EnlistInv DEF Transit
  <2>8. file' \in [Page -> Values]
    <3>1. sp[p].kaddr \in Frame
      BY <2>2, <2>3 DEF TypeOK, PageRec
    <3> QED BY <2>2, <3>1 DEF TypeOK
  <2>9. TypeOK'
    BY <2>2, <2>5, <2>7, <2>8 DEF TypeOK, Moves
  <2> QED BY <2>7, <2>9
<1> QED BY <1>1, <1>2

(* list_remove of a page that may or may not be listed *)
LEMMA UnlistIfListed ==
    ASSUME TypeOK, Sound, NEW p \in Page,
           IF Listed(p) THEN Unlist(p) ELSE UNCHANGED <<page_list, page_elem>>
    PROVE  /\ page_list' \in Seq(Page) /\ page_elem' \in Page \cup {NoPage}
           /\ Distinct' /\ HandInv'
           /\ \A q : Listed(q)' <=> (Listed(q) /\ q # p)
<1>1. Distinct /\ HandInv
  BY DEF Sound, ListInv
<1>2. CASE Listed(p)
  BY <1>1, <1>2, UnlistStep
<1>3. CASE ~Listed(p)
  <2>1. page_list' = page_list /\ page_elem' = page_elem
    BY <1>3
  <2>2. \A q : Listed(q)' <=> Listed(q)
    BY <2>1 DEF Listed
  <2> QED BY <1>1, <1>3, <2>1, <2>2 DEF Distinct, HandInv, TypeOK
<1> QED BY <1>2, <1>3

(* munmap takes the page off the list before it writes it back. *)
LEMMA UnregisterInv ==
    ASSUME TypeOK, Sound, NEW t \in Process, Unregister(t)
    PROVE  TypeOK' /\ Sound'
<1>1. PICK p : p = th[t].arg
  OBVIOUS
<1>2. /\ th[t].pc = "unregister" /\ LockFree
      /\ IF Listed(p) THEN Unlist(p) ELSE UNCHANGED <<page_list, page_elem>>
      /\ IF th[t].kpage = None THEN Evict(t, "unmap") ELSE Goto(t, "write back")
      /\ UNCHANGED <<free, mem, file, alloc_map, swap, pte, sp, table, eviction_lock,
                     pool_size, expect, late>>
  BY <1>1 DEF Unregister, Running, machine, history
<1>3. PhaseInv(t, "unregister", p, th[t].after) /\ p \in Page /\ Owner[p] = t
  BY <1>1, <1>2, Known DEF Evicting, Busy, Unmapping
<1>4. p \in table /\ Kind[p] = "mmap" /\ th[t].after \in {"user", "exit"}
  BY <1>3 DEF PhaseInv, Busy, Growing, Unmapping
<1>5. /\ page_list' \in Seq(Page) /\ page_elem' \in Page \cup {NoPage}
      /\ Distinct' /\ HandInv'
      /\ \A q : Listed(q)' <=> (Listed(q) /\ q # p)
  BY <1>2, <1>3, UnlistIfListed
<1>6. th[t].kpage = None => sp[p].kaddr = None
  BY <1>1, <1>2 DEF Sound, ThreadInv
<1>7. /\ Moves(t) /\ th'[t].arg = p /\ th'[t].after = th[t].after
      /\ th'[t].kpage = th[t].kpage
      /\ \/ th'[t].pc = "evict" /\ th'[t].back = "unmap" /\ th[t].kpage = None
         \/ th'[t].pc = "write back" /\ th[t].kpage # None
  <2>1. CASE th[t].kpage = None
    BY <1>1, <1>2, <2>1, EvictStep DEF Points
  <2>2. CASE th[t].kpage # None
    BY <1>1, <1>2, <2>2, GotoStep DEF Points
  <2> QED BY <2>1, <2>2
<1>8. TypeOK'
  BY <1>2, <1>5, <1>7 DEF TypeOK, Moves
<1>9. ThreadInv(t)'
  <2>1. CASE th'[t].pc = "evict" /\ th'[t].back = "unmap" /\ th[t].kpage = None
    <3>1. PhaseInv(t, "unmap", p, th[t].after)'
      BY <1>2, <1>3, <1>4, <1>6, <1>7, <2>1 DEF PhaseInv, Busy, Entering, FromSwapping,
         FromFile, Growing, Unmapping, Disposing
    <3> QED BY <1>7, <2>1, <3>1 DEF ThreadInv, Phase, Evicting, Holding, Backs, Borrowed
  <2>2. CASE th'[t].pc = "write back" /\ th[t].kpage # None
    <3>1. PhaseInv(t, "write back", p, th[t].after)'
      BY <1>2, <1>3, <1>4, <1>7 DEF PhaseInv, Busy, Entering, FromSwapping, FromFile,
         Growing, Unmapping, Disposing
    <3> QED BY <1>7, <2>2, <3>1 DEF ThreadInv, Phase, Evicting, Holding, Backs, Borrowed
  <2> QED BY <1>7, <2>1, <2>2
<1>10. /\ th[t].pc \notin Inside /\ th[t].pc \notin Transit /\ th[t].pc \notin Holding
       /\ th'[t].pc \notin Inside /\ th'[t].pc \notin Holding
  BY <1>2, <1>7 DEF Inside, Transit, Holding, Backs
<1>11. OwnChange(t, p)
  <2>1. \A q \in Page \ {p} : Untouched(q) /\ (Listed(q)' <=> Listed(q))
    BY <1>2, <1>5 DEF Untouched, SteadyPage
  <2> QED BY <1>2, <1>7, <1>10, <2>1 DEF OwnChange
<1>12. ListAt(p)'
  <2>1. ~Listed(p)' /\ p \in table'
    BY <1>2, <1>4, <1>5
  <2>2. \A u \in Process : th'[u].pc # "unmap victim"
    BY <1>2, <1>7, <1>10, NobodyInside DEF Moves, Inside
  <2>3. sp'[p].kaddr = None \/ InTransit(p)'
    BY <1>2, <1>6, <1>7 DEF InTransit
  <2> QED BY <2>1, <2>2, <2>3 DEF ListAt, BeingUnmapped
<1>13. PageInv(p)'
  <2>1. PageInv(p) /\ ~Detaching(p)
    BY <1>2, <1>3, NobodyInside DEF Sound
  <2> QED BY <1>2, <2>1 DEF PageInv
<1>14. FrameInv'
  BY <1>2, <1>7, <1>9, <1>10, SameHands
<1>15. SlotInv'
  BY <1>2, KeptSlots DEF Sound
<1> QED BY <1>3, <1>5, <1>8, <1>9, <1>11, <1>12, <1>13, <1>14, <1>15, OwnStep

-----------------------------------------------------------------------------
(* Making and disposing of a page *)

(* A process maps a file: a page without frame and slot. *)
LEMMA MmapInv ==
    ASSUME TypeOK, Sound, NEW t \in Process, NEW p \in Page, mmap(t, p)
    PROVE  TypeOK' /\ Sound'
<1>1. /\ th[t].pc = "user" /\ Owner[p] = t /\ Kind[p] = "mmap" /\ p \notin table
      /\ pool_size' = [pool_size EXCEPT ![t] = IF Grown(t) THEN 2 * @ ELSE @]
      /\ sp' = [q \in Page |->
                  IF q = p THEN [sp[q] EXCEPT !.mapping = "valid", !.location = "file",
                                              !.replaced = Copied(q)]
                  ELSE IF Grown(t) /\ q \in Used(t) THEN [sp[q] EXCEPT !.mapping = "dangling"]
                  ELSE sp[q]]
      /\ table' = table \cup {p} /\ expect' = [expect EXCEPT ![p] = file[p]]
      /\ Call(t, p, "user")
      /\ UNCHANGED <<free, mem, file, alloc_map, swap, pte, eviction_lock, page_list,
                     page_elem, late>>
  BY DEF mmap, MayCall, Running, machine, evictor
<1>2. PageInv(p) /\ sp[p].kaddr = None /\ sp[p].saddr = None
  BY <1>1 DEF Sound, PageInv
<1>3. Moves(t) /\ th'[t].pc = "user" /\ th'[t].kpage = None
  BY <1>1, CallStep, EmptyHanded, ZenonT(30) DEF Points, Holding, Backs, Borrowed
<1>4. /\ sp'[p] \in PageRec /\ sp'[p].kaddr = None /\ sp'[p].saddr = None
      /\ sp'[p].mapping = "valid" /\ sp'[p].location = "file"
  <2>1. PICK b \in BOOLEAN : b = Copied(p)
    BY DEF Copied
  <2>2. PICK x : x = [sp[p] EXCEPT !.mapping = "valid", !.location = "file", !.replaced = b]
    OBVIOUS
  <2>3. sp[p] \in PageRec /\ sp'[p] = x
    BY <1>1, <2>1, <2>2 DEF TypeOK
  <2>4. /\ x \in PageRec /\ x.kaddr = sp[p].kaddr /\ x.saddr = sp[p].saddr
        /\ x.mapping = "valid" /\ x.location = "file"
    BY <2>2, <2>3 DEF PageRec
  <2> QED BY <1>2, <2>3, <2>4
<1>5. \A q \in Page \ {p} :
        /\ sp'[q] \in PageRec /\ sp'[q].kaddr = sp[q].kaddr /\ sp'[q].saddr = sp[q].saddr
        /\ sp'[q].location = sp[q].location
        /\ sp'[q].mapping = sp[q].mapping \/ sp'[q].mapping = "dangling"
  <2> TAKE q \in Page \ {p}
  <2>1. sp[q] \in PageRec
    BY DEF TypeOK
  <2>2. sp'[q] = sp[q] \/ sp'[q] = [sp[q] EXCEPT !.mapping = "dangling"]
    BY <1>1
  <2> QED BY <2>1, <2>2 DEF PageRec
<1>6. TypeOK'
  <2>1. sp' \in [Page -> PageRec]
    BY <1>1, <1>4, <1>5
  <2>2. pool_size' \in [Process -> Nat]
    <3>1. PICK n : n = IF Grown(t) THEN 2 * pool_size[t] ELSE pool_size[t]
      OBVIOUS
    <3>2. n \in Nat
      BY <3>1 DEF TypeOK
    <3>3. pool_size' = [pool_size EXCEPT ![t] = n]
      BY <1>1, <3>1
    <3> QED BY <3>2, <3>3 DEF TypeOK
  <2>3. expect' \in [Page -> Values]
    BY <1>1 DEF TypeOK
  <2> QED BY <1>1, <1>3, <2>1, <2>2, <2>3 DEF TypeOK, Moves
<1>7. ThreadInv(t)'
  BY <1>3, AtRest
<1>8. \A q : Listed(q)' <=> Listed(q)
  BY <1>1 DEF Listed
<1>9. OwnChange(t, p)
  <2>1. \A q \in Page \ {p} : Untouched(q)
    BY <1>1, <1>5 DEF Untouched, SteadyPage
  <2> QED BY <1>1, <1>2, <1>3, <1>4, <1>8, <2>1 DEF OwnChange, Inside, Transit
<1>10. ListAt(p)'
  <2>1. Listed(p) => \E u \in Process : th[u].victim = p /\ th[u].pc = "unmap victim"
    BY <1>1 DEF Sound, ListInv, ListAt
  <2>2. Listed(p) => BeingUnmapped(p)'
    BY <1>1, <1>3, <2>1 DEF BeingUnmapped, Moves
  <2>3. BeingUnmapped(p)' => Listed(p)
    BY <1>3 DEF BeingUnmapped, Moves, Sound, VictimInv, Inside
  <2> QED BY <1>1, <1>4, <1>8, <2>2, <2>3 DEF ListAt
<1>11. PageInv(p)'
  BY <1>1, <1>4 DEF PageInv
<1>12. FrameInv'
  <2>1. \A q \in Page : sp'[q].kaddr = sp[q].kaddr
    BY <1>2, <1>4, <1>5
  <2> QED BY <1>1, <1>3, <1>7, <2>1, SameHands DEF Holding, Backs
<1>13. SlotInv'
  <2>1. \A q \in Page : sp'[q].saddr = sp[q].saddr
    BY <1>2, <1>4, <1>5
  <2> QED BY <1>1, <2>1, KeptSlots DEF Sound
<1>14. Distinct' /\ HandInv'
  BY <1>1, <1>8 DEF Sound, ListInv, Distinct, HandInv
<1> QED BY <1>1, <1>6, <1>7, <1>9, <1>10, <1>11, <1>12, <1>13, <1>14, OwnStep

(* What Dispose does to its page, wherever the frame goes *)
Disposed(t, p) ==
    /\ p \in Page /\ Owner[p] = t /\ p \in table /\ Moves(t)
    /\ th'[t].pc \in {"user", "exit", "delete"} /\ th'[t].kpage = None
    /\ sp' \in [Page -> PageRec] /\ (\A q \in Page \ {p} : sp'[q] = sp[q])
    /\ sp'[p].kaddr = None /\ sp'[p].saddr = None /\ sp'[p].location = "unknown"
    /\ table' = table \ {p} /\ late' \subseteq Page /\ alloc_map' \subseteq Slot
    /\ ThreadInv(t)' /\ PageInv(p)' /\ SlotInv'

(* What suppl_page_dispose does to the page, the frame and the slot. *)
LEMMA DisposeStep ==
    ASSUME TypeOK, Sound, NEW t \in Process, th[t].pc \in Disposing, Dispose(t),
           NEW p, p = th[t].arg
    PROVE  Disposed(t, p)
<1>1. PhaseInv(t, th[t].pc, p, th[t].after) /\ p \in Page /\ Owner[p] = t
  BY Known DEF Disposing, Evicting, Busy
<1>2. p \in table /\ th[t].after \in {"user", "exit", "delete"}
  BY <1>1 DEF PhaseInv, Busy, Growing, Disposing
<1>3. PICK x : x = [kaddr |-> None, saddr |-> None, location |-> "unknown",
                    dirty |-> FALSE, mapping |-> "none", replaced |-> FALSE]
  OBVIOUS
<1>4. /\ x \in PageRec /\ x.kaddr = None /\ x.saddr = None /\ x.location = "unknown"
  BY <1>3 DEF PageRec
<1>5. /\ alloc_map' = alloc_map \ {sp[p].saddr} /\ sp' = [sp EXCEPT ![p] = x]
      /\ table' = table \ {p} /\ late' \subseteq late /\ Goto(t, th[t].after)
  BY <1>3 DEF Dispose, SlotsFreed, Unhashed
<1>6. /\ sp' \in [Page -> PageRec] /\ sp'[p] = x /\ \A q \in Page \ {p} : sp'[q] = sp[q]
  BY <1>1, <1>4, <1>5, PageStep
<1>7. th[t].kpage = None
  BY EmptyHanded DEF Holding, Backs, Borrowed, Disposing
<1>8. Moves(t) /\ th'[t].pc = th[t].after /\ th'[t].kpage = None
  BY <1>2, <1>5, <1>7, GotoStep DEF Points
<1>9. ThreadInv(t)'
  BY <1>2, <1>8, AtRest
<1>10. PageInv(p)'
  BY <1>4, <1>5, <1>6 DEF PageInv
<1>11. SlotInv'
  <2> SUFFICES ASSUME NEW r \in Slot PROVE OnePage(r)'
    BY DEF SlotInv, Slot
  <2>1. OnePage(r)
    BY DEF Sound, SlotInv
  <2>2. r # None
    BY Marks
  <2>3. \A q \in Page : sp'[q].saddr = r <=> (sp[q].saddr = r /\ q # p)
    BY <1>4, <1>6, <2>2
  <2>4. r \in alloc_map' <=> (r \in alloc_map /\ r # sp[p].saddr)
    BY <1>5
  <2> QED BY <1>1, <2>1, <2>3, <2>4 DEF OnePage
<1>12. late' \subseteq Page /\ alloc_map' \subseteq Slot
  BY <1>5 DEF TypeOK
<1> QED BY <1>1, <1>2, <1>4, <1>5, <1>6, <1>8, <1>9, <1>10, <1>11, <1>12
       DEF Disposed

(* suppl_page_dispose, also of a page that somebody is evicting. *)
LEMMA DisposeInv ==
    ASSUME TypeOK, Sound, NEW t \in Process, suppl_page_dispose(t)
    PROVE  TypeOK' /\ Sound'
<1>1. PICK p : p = th[t].arg
  OBVIOUS
<1>2. UNCHANGED <<mem, file, swap, eviction_lock, pool_size, expect>>
  BY DEF suppl_page_dispose
<1>3. CASE /\ th[t].pc = "dispose" /\ sp[p].kaddr = None /\ Dispose(t)
           /\ UNCHANGED <<free, pte, page_list, page_elem>>
  <2>1. /\ p \in Page /\ Owner[p] = t /\ p \in table /\ Moves(t)
        /\ th'[t].pc \in {"user", "exit", "delete"} /\ th'[t].kpage = None
        /\ sp' \in [Page -> PageRec] /\ \A q \in Page \ {p} : sp'[q] = sp[q]
        /\ sp'[p].kaddr = None /\ sp'[p].saddr = None /\ sp'[p].location = "unknown"
        /\ table' = table \ {p} /\ late' \subseteq Page /\ alloc_map' \subseteq Slot
        /\ ThreadInv(t)' /\ PageInv(p)' /\ SlotInv'
    <3>1. Disposed(t, p)
      BY <1>1, <1>3, DisposeStep DEF Disposing
    <3> QED BY <3>1 DEF Disposed
  <2>2. TypeOK'
    BY <1>2, <1>3, <2>1 DEF TypeOK, Moves
  <2>3. \A q : Listed(q)' <=> Listed(q)
    BY <1>3 DEF Listed
  <2>4. OwnChange(t, p)
    <3>1. \A q \in Page \ {p} : Untouched(q)
      BY <1>3, <2>1 DEF Untouched, SteadyPage
    <3> QED BY <1>2, <1>3, <2>1, <2>3, <3>1 DEF OwnChange, Inside, Transit
  <2>5. ListAt(p)'
    <3>1. Listed(p) => BeingUnmapped(p)
      BY <1>3, <2>1 DEF Sound, ListInv, ListAt
    <3>2. BeingUnmapped(p) => \E u \in Process : th'[u].victim = p /\ th'[u].pc = "unmap victim"
      BY <1>3, <2>1 DEF BeingUnmapped, Moves
    <3> QED BY <2>1, <2>3, <3>1, <3>2 DEF ListAt
  <2>6. FrameInv'
    <3>1. \A q \in Page : sp'[q].kaddr = sp[q].kaddr
      BY <1>3, <2>1
    <3> QED BY <1>3, <2>1, <3>1, SameHands DEF Holding, Backs
  <2>7. Distinct' /\ HandInv'
    BY <1>3, <2>3 DEF Sound, ListInv, Distinct, HandInv
  <2> QED BY <2>1, <2>2, <2>4, <2>5, <2>6, <2>7, OwnStep
<1>4. CASE /\ th[t].pc = "dispose" /\ Goto(t, "undo registration")
           /\ UNCHANGED <<free, alloc_map, pte, sp, table, page_list, page_elem, late>>
  <2>1. /\ Moves(t) /\ th'[t].pc = "undo registration" /\ th'[t].kpage = th[t].kpage
        /\ th'[t].arg = th[t].arg /\ th'[t].after = th[t].after
    BY <1>4, GotoStep DEF Points
  <2>2. Still
    BY <1>2, <1>4 DEF Still
  <2>3. PhaseInv(t, "dispose", th[t].arg, th[t].after) /\ th[t].kpage = None
    BY <1>4, Known, EmptyHanded DEF Evicting, Holding, Backs, Borrowed
  <2>4. PhaseInv(t, "undo registration", th[t].arg, th[t].after)'
    BY <2>1, <2>2, <2>3 DEF PhaseInv, Still, Busy, Entering, FromSwapping, FromFile, Growing,
       Unmapping, Disposing
  <2>5. ThreadInv(t)'
    BY <2>1, <2>3, <2>4 DEF ThreadInv, Phase, Evicting, Holding, Backs
  <2> QED BY <1>4, <2>1, <2>2, <2>5, StillStep DEF Calm
<1>5. CASE /\ th[t].pc = "undo registration" /\ LockFree /\ Dispose(t)
           /\ IF Listed(p) THEN Unlist(p) ELSE UNCHANGED <<page_list, page_elem>>
           /\ pte' = [pte EXCEPT ![p].frame = None]
           /\ free' = free \cup FramesFreed(p)
  <2>1. /\ p \in Page /\ Owner[p] = t /\ p \in table /\ Moves(t)
        /\ th'[t].pc \in {"user", "exit", "delete"} /\ th'[t].kpage = None
        /\ sp' \in [Page -> PageRec] /\ \A q \in Page \ {p} : sp'[q] = sp[q]
        /\ sp'[p].kaddr = None /\ sp'[p].saddr = None /\ sp'[p].location = "unknown"
        /\ table' = table \ {p} /\ late' \subseteq Page /\ alloc_map' \subseteq Slot
        /\ ThreadInv(t)' /\ PageInv(p)' /\ SlotInv'
    <3>1. Disposed(t, p)
      BY <1>1, <1>5, DisposeStep DEF Disposing
    <3> QED BY <3>1 DEF Disposed
  <2>2. /\ page_list' \in Seq(Page) /\ page_elem' \in Page \cup {NoPage}
        /\ Distinct' /\ HandInv'
        /\ \A q : Listed(q)' <=> (Listed(q) /\ q # p)
    BY <1>5, <2>1, UnlistIfListed
  <2>3. pte' \in [Page -> PteRec] /\ \A q \in Page \ {p} : pte'[q] = pte[q]
    BY <1>5, <2>1 DEF TypeOK, PteRec
  <2>4. free' \subseteq Frame
    BY <1>5, <2>1 DEF FramesFreed, TypeOK, PageRec
  <2>5. TypeOK'
    BY <1>2, <2>1, <2>2, <2>3, <2>4 DEF TypeOK, Moves
  <2>6. OwnChange(t, p)
    <3>1. \A q \in Page \ {p} : Untouched(q) /\ (Listed(q)' <=> Listed(q))
      BY <2>1, <2>2, <2>3 DEF Untouched, SteadyPage
    <3> QED BY <1>2, <1>5, <2>1, <3>1 DEF OwnChange, Inside, Transit
  <2>7. ListAt(p)'
    BY <2>1, <2>2 DEF ListAt
  <2>8. FrameInv'
    <3>1. \A u \in Process \ {t} : \A g \in Frame : ProcHas(u, g)' <=> ProcHas(u, g)
      BY <2>1 DEF Moves, ProcHas, Borrowed
    <3>2. \A g \in Frame : ~ProcHas(t, g)' /\ ~ProcHas(t, g)
      <4>1. th[t].kpage = None
        BY <1>5, EmptyHanded DEF Holding, Backs, Borrowed
      <4> QED BY <2>1, <4>1, Marks DEF ProcHas
    <3>3. \A g \in Frame, q \in Page : PageHas(q, g)' <=> (PageHas(q, g) /\ q # p)
      BY <2>1, Marks DEF PageHas
    <3>4. \A g \in Frame : g \in free' <=> (g \in free \/ PageHas(p, g))
      BY <1>5, Marks DEF FramesFreed, PageHas
    <3>5. \A g \in Frame : SameHand(g) \/ OneHand(g)'
      <4> TAKE g \in Frame
      <4>1. OneHand(g)
        BY DEF Sound, FrameInv
      <4>2. CASE PageHas(p, g)
        <5>1. /\ \A q \in Page : ~PageHas(q, g)'
              /\ \A u \in Process : ~ProcHas(u, g)'
              /\ g \in free'
          BY <2>1, <3>1, <3>2, <3>3, <3>4, <4>1, <4>2 DEF OneHand
        <5> QED BY <5>1 DEF OneHand
      <4>3. CASE ~PageHas(p, g)
        BY <3>1, <3>2, <3>3, <3>4, <4>3 DEF SameHand
      <4> QED BY <4>2, <4>3
    <3> QED BY <3>5, KeptFrames DEF Sound
  <2> QED BY <2>1, <2>2, <2>5, <2>6, <2>7, <2>8, OwnStep
<1> QED BY <1>1, <1>3, <1>4, <1>5 DEF suppl_page_dispose, Running

-----------------------------------------------------------------------------
(* evict_page *)

(* Writing out and detaching the victim takes nothing from anybody who is   *)
(* bringing a page in or unmapping it.                                      *)
VictimChange(t, p) ==
    /\ Moves(t) /\ table' = table
    /\ \A q \in Page \ {p} : Untouched(q)
    /\ sp'[p].location = sp[p].location \/ sp[p].kaddr # None
    /\ sp'[p].kaddr = sp[p].kaddr \/ (sp'[p].kaddr = None /\ ~InTransit(p))

(* An eviction changes nothing that the victim's owner relies on. *)
LEMMA VictimPhases ==
    ASSUME Sound, NEW t \in Process, NEW p \in Page, VictimChange(t, p), NEW u \in Process,
           th'[u].arg = th[u].arg, th'[u].after = th[u].after, Phase(u)' = Phase(u)
    PROVE  PhaseInv(u, Phase(u), th[u].arg, th[u].after)'
<1>1. PICK a, ph : a = th[u].arg /\ ph = Phase(u)
  OBVIOUS
<1>2. PhaseInv(u, ph, a, th[u].after)
  BY <1>1 DEF Sound, ThreadInv
<1>3. ph = "register" => th[u].pc = "register"
  BY <1>1 DEF Sound, ThreadInv, Phase, Backs
<1>4. ph = "register" /\ a = p => InTransit(p)
  BY <1>1, <1>3 DEF InTransit
<1>5. a \in Page \ {p} => sp'[a].kaddr = sp[a].kaddr /\ sp'[a].location = sp[a].location
  BY DEF VictimChange, Untouched, SteadyPage
<1>6. PhaseInv(u, ph, a, th[u].after)'
  <2>1. CASE a = p
    <3>1. /\ ph \in FromSwapping => sp'[p].kaddr = None /\ sp'[p].location = "swap"
          /\ ph \in FromFile => sp'[p].kaddr = None /\ sp'[p].location = "file"
          /\ ph = "unmap" => sp'[p].kaddr = None
          /\ ph = "register" => sp'[p].kaddr # None
      BY <1>2, <1>4, <2>1 DEF PhaseInv, VictimChange
    <3> QED BY <1>2, <2>1, <3>1 DEF PhaseInv, VictimChange
  <2>2. CASE a # p
    <3>1. ph \in Busy => a \in Page
      BY <1>2 DEF PhaseInv
    <3>2. (ph \in FromSwapping \/ ph \in FromFile \/ ph = "register" \/ ph = "unmap") => ph \in Busy
      BY DEF Busy, Entering, Unmapping
    <3> QED BY <1>2, <1>5, <2>2, <3>1, <3>2 DEF PhaseInv, VictimChange
  <2> QED BY <2>1, <2>2
<1> QED BY <1>1, <1>6

EvictChange(t, p) ==
    /\ VictimChange(t, p)
    /\ eviction_lock \in {t, NoProc} /\ eviction_lock' \in {t, NoProc}
    /\ \A q \in Page \ {p} : Listed(q)' <=> Listed(q)
    /\ th[t].pc \in Evicting /\ th'[t].pc \notin Transit
    /\ th[t].pc \in {"detach", "unmap victim"} => th[t].victim = p
    /\ th'[t].pc = "unmap victim" => th'[t].victim = p

(* A step inside eviction_lock on the victim: what is left to show of it. *)
LEMMA EvictorStep ==
    ASSUME TypeOK, Sound, NEW t \in Process, NEW p \in Page, EvictChange(t, p),
           ThreadInv(t)', VictimInv(t)', PageInv(p)', ListAt(p)', Distinct', HandInv',
           FrameInv', SlotInv'
    PROVE  Sound'
<1>0. /\ VictimChange(t, p) /\ Moves(t)
      /\ eviction_lock \in {t, NoProc} /\ eviction_lock' \in {t, NoProc}
      /\ \A q \in Page \ {p} : Untouched(q) /\ (Listed(q)' <=> Listed(q))
      /\ th[t].pc \in Evicting /\ th'[t].pc \notin Transit
      /\ th[t].pc \in {"detach", "unmap victim"} => th[t].victim = p
      /\ th'[t].pc = "unmap victim" => th'[t].victim = p
  BY DEF EvictChange, VictimChange
<1>1. \A u \in Process \ {t} : th'[u] = th[u]
  BY <1>0 DEF Moves
<1>2. \A u \in Process \ {t} : ThreadInv(u)'
  <2> TAKE u \in Process \ {t}
  <2>1. /\ th'[u] = th[u] /\ Phase(u)' = Phase(u) /\ Borrowed(u)' = Borrowed(u)
    BY <1>1 DEF Phase, Borrowed
  <2>2. PhaseInv(u, Phase(u), th[u].arg, th[u].after)'
    BY <2>1, VictimPhases DEF EvictChange
  <2>3. ThreadInv(u)
    BY DEF Sound
  <2>4. th[u].pc = "unregister" => th[u].arg \in Page
    BY Known DEF Evicting, Busy, Unmapping
  <2>5. th[u].pc = "unregister" /\ th[u].kpage = None => sp'[th[u].arg].kaddr = None
    <3>1. \A q \in Page : sp[q].kaddr = None => sp'[q].kaddr = None
      BY DEF EvictChange, VictimChange, Untouched, SteadyPage
    <3> QED BY <2>3, <2>4, <3>1 DEF ThreadInv
  <2> QED BY <2>1, <2>2, <2>3, <2>5 DEF ThreadInv
<1>3. \A u \in Process \ {t} : VictimInv(u)'
  <2> TAKE u \in Process \ {t}
  <2>0. u # NoProc /\ u # t
    BY Marks
  <2>1. eviction_lock # u /\ eviction_lock' # u
    <3>1. eviction_lock \in {t, NoProc} /\ eviction_lock' \in {t, NoProc}
      BY <1>0
    <3> QED BY <2>0, <3>1
  <2>2. th'[u].pc \notin Inside
    BY <1>1, <2>1 DEF Sound, VictimInv
  <2> QED BY <2>1, <2>2, Outside
<1>4. \A q \in Page \ {p} : PageInv(q)' /\ ListAt(q)'
  <2> TAKE q \in Page \ {p}
  <2>1. /\ Moves(t) /\ Untouched(q) /\ SteadyPage(q) /\ (Listed(q)' <=> Listed(q))
        /\ th[t].pc \notin Transit /\ th'[t].pc \notin Transit
        /\ th[t].pc # "detach" \/ th[t].victim # q
        /\ th[t].pc = "unmap victim" => th[t].victim # q
        /\ th'[t].pc = "unmap victim" => th'[t].victim # q
    <3>1. th[t].pc \notin Transit
      BY <1>0 DEF Evicting, Transit
    <3> QED BY <1>0, <3>1 DEF Untouched
  <2>2. PageInv(q)'
    BY <2>1, OtherPages
  <2>3. (q \in table' <=> q \in table) /\ sp'[q].kaddr = sp[q].kaddr
    BY <2>1 DEF SteadyPage
  <2>4. ListAt(q)'
    BY <2>1, <2>3, OtherElements
  <2> QED BY <2>2, <2>4
<1> QED BY <1>2, <1>3, <1>4 DEF Sound, ListInv

(* The scans end on a page that is listed, has a frame and is in its table. *)
LEMMA VictimListed ==
    ASSUME TypeOK, Sound, LockFree, page_list # <<>>, NEW p \in Victims
    PROVE  p \in Page /\ Listed(p) /\ p \in table /\ sp[p].kaddr # None /\ ~InTransit(p)
<1>1. p \in Page /\ Listed(p)
  <2>1. CASE \E q \in Page : Listed(q) /\ ~suppl_page_dirty(q)
    BY <2>1 DEF Victims
  <2>2. CASE ~\E q \in Page : Listed(q) /\ ~suppl_page_dirty(q)
    <3>1. p = Hand
      BY <2>2 DEF Victims
    <3>2. CASE page_elem # NoPage
      BY <3>1, <3>2 DEF Hand, Sound, ListInv, HandInv, TypeOK
    <3>3. CASE page_elem = NoPage
      <4>1. p = page_list[1]
        BY <3>1, <3>3 DEF Hand
      <4>2. 1 \in DOMAIN page_list /\ page_list[1] \in Page
        BY DEF TypeOK
      <4> QED BY <4>1, <4>2 DEF Listed
    <3> QED BY <3>2, <3>3
  <2> QED BY <2>1, <2>2
<1>2. p \in table /\ ~BeingUnmapped(p)
  BY <1>1, NobodyInside
<1> QED BY <1>1, <1>2 DEF Sound, ListInv, ListAt

(* evict_page takes eviction_lock and chooses a page of the list. *)
LEMMA ScanInv ==
    ASSUME TypeOK, Sound, NEW t \in Process, Scan(t)
    PROVE  TypeOK' /\ (Alive' => Sound')
<1>1. /\ th[t].pc = "evict" /\ LockFree
      /\ UNCHANGED <<free, mem, file, alloc_map, swap, pte, table, pool_size, expect, late>>
  BY DEF Scan, Running, machine, history
<1>2. CASE NoFrame(t) /\ UNCHANGED <<sp, evictor>>
  <2>1. Still
    BY <1>1, <1>2 DEF Still, evictor
  <2> QED BY <1>1, <1>2, <2>1, NoFrameInv
<1>3. CASE page_list # <<>>
  <2>1. PICK p \in Victims :
          /\ th' = [th EXCEPT ![t].pc = "write out", ![t].victim = p,
                              ![t].modified = suppl_page_dirty(p)]
          /\ sp' = [sp EXCEPT ![p].dirty = suppl_page_dirty(p)]
          /\ page_elem' = p
    BY <1>3 DEF Scan
  <2>2. eviction_lock' = t /\ page_list' = page_list
    BY <1>3 DEF Scan
  <2>3. p \in Page /\ Listed(p) /\ p \in table /\ sp[p].kaddr # None /\ ~InTransit(p)
    BY <1>1, <1>3, VictimListed
  <2>4. suppl_page_dirty(p) \in BOOLEAN
    BY DEF suppl_page_dirty
  <2>5. ThreadInv(t) /\ th[t].kpage = None
    BY <1>1, EmptyHanded DEF Sound, Holding, Backs, Borrowed
  <2>6. /\ Moves(t) /\ th'[t].pc = "write out" /\ th'[t].victim = p /\ th'[t].kpage = None
        /\ th'[t].arg = th[t].arg /\ th'[t].back = th[t].back /\ th'[t].after = th[t].after
    <3>1. PICK x : x = [th[t] EXCEPT !.pc = "write out", !.victim = p,
                                     !.modified = suppl_page_dirty(p)]
      OBVIOUS
    <3>2. th[t] \in ThreadRec /\ "write out" \in Points
      BY DEF TypeOK, Points
    <3>3. /\ x \in ThreadRec /\ x.pc = "write out" /\ x.victim = p /\ x.kpage = th[t].kpage
          /\ x.arg = th[t].arg /\ x.back = th[t].back /\ x.after = th[t].after
      BY <2>3, <2>4, <3>1, <3>2 DEF ThreadRec
    <3>4. th' = [th EXCEPT ![t] = x]
      BY <2>1, <3>1 DEF TypeOK, ThreadRec
    <3> QED BY <2>5, <3>3, <3>4 DEF TypeOK, Moves
  <2>7. /\ sp' \in [Page -> PageRec]
        /\ \A q \in Page :
             /\ sp'[q].kaddr = sp[q].kaddr /\ sp'[q].saddr = sp[q].saddr
             /\ sp'[q].mapping = sp[q].mapping /\ sp'[q].location = sp[q].location
    BY <2>1, <2>3, <2>4 DEF TypeOK, PageRec
  <2>8. TypeOK'
    BY <1>1, <2>1, <2>2, <2>3, <2>6, <2>7 DEF TypeOK, Moves
  <2>9. \A q : Listed(q)' <=> Listed(q)
    BY <2>2 DEF Listed
  <2>10. EvictChange(t, p)
    <3>1. \A q \in Page \ {p} : Untouched(q)
      BY <1>1, <2>7 DEF Untouched, SteadyPage
    <3> QED BY <1>1, <2>2, <2>3, <2>6, <2>7, <2>9, <3>1
          DEF EvictChange, VictimChange, LockFree, Evicting, Transit
  <2>11. ThreadInv(t)'
    <3>1. Phase(t)' = Phase(t)
      BY <1>1, <2>6 DEF Phase, Evicting
    <3>2. PhaseInv(t, Phase(t), th[t].arg, th[t].after)'
      BY <2>3, <2>6, <2>10, <3>1, VictimPhases DEF EvictChange
    <3> QED BY <1>1, <2>5, <2>6, <3>2 DEF ThreadInv, Evicting, Holding, Backs
  <2>12. VictimInv(t)'
    BY <1>1, <2>2, <2>3, <2>6, <2>7, <2>9 DEF VictimInv, Inside
  <2>13. PageInv(p)'
    <3>1. PageInv(p) /\ ~Detaching(p)
      BY <1>1, <2>3, NobodyInside DEF Sound
    <3> QED BY <1>1, <2>3, <2>7, <3>1 DEF PageInv
  <2>14. ListAt(p)'
    <3>1. p \in table' /\ Listed(p)' /\ sp'[p].kaddr # None
      BY <1>1, <2>3, <2>7, <2>9
    <3>2. ~InTransit(p)'
      BY <2>3, <2>6 DEF InTransit, Moves
    <3> QED BY <3>1, <3>2 DEF ListAt
  <2>15. Distinct' /\ HandInv'
    BY <2>1, <2>2, <2>3, <2>9 DEF Distinct, HandInv, Sound, ListInv
  <2>16. FrameInv'
    BY <1>1, <2>6, <2>7, <2>11, SameHands DEF Holding, Backs
  <2>17. SlotInv'
    BY <1>1, <2>7, KeptSlots DEF Sound
  <2> QED BY <2>3, <2>8, <2>10, <2>11, <2>12, <2>13, <2>14, <2>15, <2>16, <2>17, EvictorStep
<1> QED BY <1>2, <1>3 DEF Scan

(* What the process inside the lock knows before the page is detached *)
LEMMA AtVictim ==
    ASSUME TypeOK, Sound, NEW t \in Process, th[t].pc \in {"write out", "detach"},
           NEW p, p = th[t].victim
    PROVE  /\ p \in Page /\ Listed(p) /\ p \in table /\ sp[p].kaddr \in Frame
           /\ ~InTransit(p) /\ eviction_lock = t /\ th[t].kpage = None
           /\ \A u \in Process \ {t} : th[u].pc \notin Inside
           /\ th[t].pc = "write out" => ~Detaching(p)
<1>1. /\ p \in Page /\ Listed(p) /\ p \in table /\ sp[p].kaddr # None
  BY DEF Sound, VictimInv, Inside
<1>2. eviction_lock = t /\ \A u \in Process \ {t} : th[u].pc \notin Inside
  BY AloneInside DEF Inside
<1>3. ~BeingUnmapped(p) /\ (th[t].pc = "write out" => ~Detaching(p))
  BY <1>2 DEF BeingUnmapped, Detaching, Inside
<1>4. ~InTransit(p)
  BY <1>1, <1>3 DEF Sound, ListInv, ListAt
<1>5. th[t].kpage = None
  BY EmptyHanded DEF Holding, Backs, Borrowed
<1> QED BY <1>1, <1>2, <1>3, <1>4, <1>5 DEF TypeOK, PageRec

(* The victim is copied to its slot or its file, or dropped. *)
LEMMA WriteOutInv ==
    ASSUME TypeOK, Sound, NEW t \in Process, WriteOut(t)
    PROVE  TypeOK' /\ (Alive' => Sound')
<1>1. PICK p : p = th[t].victim
  OBVIOUS
<1>2. /\ th[t].pc = "write out" /\ ~Dangling(p)
      /\ UNCHANGED <<free, mem, pte, table, page_list, page_elem, pool_size, expect, late>>
  BY <1>1 DEF WriteOut, Running, history
<1>3. /\ p \in Page /\ Listed(p) /\ p \in table /\ sp[p].kaddr \in Frame
      /\ ~InTransit(p) /\ eviction_lock = t /\ th[t].kpage = None
      /\ \A u \in Process \ {t} : th[u].pc \notin Inside
      /\ ~Detaching(p)
  BY <1>1, <1>2, AtVictim
<1>4. sp[p].kaddr # None /\ PageInv(p) /\ sp[p].saddr = None /\ ThreadInv(t)
  BY <1>3, Marks DEF Sound, PageInv
<1>5. Kind[p] = "mmap" => ToFile(t)
  <2>1. Kind[p] = "mmap" => sp[p].mapping = "valid"
    BY <1>2, <1>3, <1>4 DEF PageInv, Dangling
  <2> QED BY <1>1, <2>1 DEF ToFile, FlWritable, Writable
<1>6. \A q : Listed(q)' <=> Listed(q)
  BY <1>2 DEF Listed
<1>7. Distinct' /\ HandInv'
  BY <1>2, <1>6 DEF Distinct, HandInv, Sound, ListInv
<1>8. ASSUME Goto(t, "detach"), eviction_lock' = eviction_lock, sp' \in [Page -> PageRec],
             \A q \in Page \ {p} : sp'[q] = sp[q],
             sp'[p].kaddr = sp[p].kaddr, sp'[p].mapping = sp[p].mapping,
             \/ sp'[p].location = "file" /\ sp'[p].saddr = None
             \/ sp'[p].location = "swap" /\ sp'[p].saddr # None /\ Kind[p] # "mmap",
             SlotInv'
      PROVE  Moves(t) /\ Sound'
  <2>1. /\ Moves(t) /\ th'[t].pc = "detach" /\ th'[t].arg = th[t].arg
        /\ th'[t].kpage = None /\ th'[t].victim = p /\ th'[t].back = th[t].back
        /\ th'[t].after = th[t].after
    BY <1>1, <1>3, <1>8, GotoStep DEF Points
  <2>2. EvictChange(t, p)
    <3>1. \A q \in Page \ {p} : Untouched(q)
      BY <1>2, <1>8 DEF Untouched, SteadyPage
    <3> QED BY <1>2, <1>3, <1>4, <1>6, <1>8, <2>1, <3>1
          DEF EvictChange, VictimChange, Evicting, Transit
  <2>3. ThreadInv(t)'
    <3>1. Phase(t)' = Phase(t)
      BY <1>2, <2>1 DEF Phase, Evicting
    <3>2. PhaseInv(t, Phase(t), th[t].arg, th[t].after)'
      BY <1>3, <2>1, <2>2, <3>1, VictimPhases DEF EvictChange
    <3> QED BY <1>2, <1>4, <2>1, <3>2 DEF ThreadInv, Evicting, Holding, Backs
  <2>4. VictimInv(t)'
    BY <1>2, <1>3, <1>4, <1>6, <1>8, <2>1 DEF VictimInv, Inside
  <2>5. PageInv(p)'
    <3>1. Detaching(p)'
      BY <2>1 DEF Detaching
    <3> QED BY <1>2, <1>3, <1>4, <1>8, <3>1 DEF PageInv
  <2>6. ListAt(p)'
    <3>1. ~InTransit(p)'
      BY <1>3, <2>1 DEF InTransit, Moves
    <3> QED BY <1>2, <1>3, <1>4, <1>6, <1>8, <3>1 DEF ListAt
  <2>7. FrameInv'
    <3>1. \A q \in Page : sp'[q].kaddr = sp[q].kaddr
      BY <1>8
    <3> QED BY <1>2, <2>1, <2>3, <3>1, SameHands DEF Holding, Backs
  <2> QED BY <1>3, <1>7, <1>8, <2>1, <2>2, <2>3, <2>4, <2>5, <2>6, <2>7, EvictorStep
<1>9. CASE /\ ToFile(t)
           /\ file' = IF th[t].modified THEN [file EXCEPT ![p] = mem[sp[p].kaddr]] ELSE file
           /\ sp' = [sp EXCEPT ![p].location = "file"] /\ Goto(t, "detach")
           /\ UNCHANGED <<alloc_map, swap, eviction_lock, panic>>
  <2>1. /\ sp' \in [Page -> PageRec] /\ \A q \in Page \ {p} : sp'[q] = sp[q]
        /\ sp'[p].kaddr = sp[p].kaddr /\ sp'[p].saddr = sp[p].saddr
        /\ sp'[p].mapping = sp[p].mapping /\ sp'[p].location = "file"
    <3>1. PICK x : x = [sp[p] EXCEPT !.location = "file"]
      OBVIOUS
    <3>2. sp[p] \in PageRec
      BY <1>3 DEF TypeOK
    <3>3. /\ x \in PageRec /\ x.kaddr = sp[p].kaddr /\ x.saddr = sp[p].saddr
          /\ x.mapping = sp[p].mapping /\ x.location = "file"
      BY <3>1, <3>2 DEF PageRec
    <3>4. sp' = [sp EXCEPT ![p] = x]
      BY <1>3, <1>9, <3>1
    <3> QED BY <1>3, <3>3, <3>4, PageStep
  <2>2. SlotInv'
    <3>1. \A q \in Page : sp'[q].saddr = sp[q].saddr
      BY <2>1
    <3> QED BY <1>9, <3>1, KeptSlots DEF Sound
  <2>3. Moves(t) /\ Sound'
    BY <1>4, <1>8, <1>9, <2>1, <2>2
  <2>4. file' \in [Page -> Values]
    BY <1>3, <1>9 DEF TypeOK
  <2>5. TypeOK'
    BY <1>2, <1>9, <2>1, <2>3, <2>4 DEF TypeOK, Moves
  <2> QED BY <2>3, <2>5
<1>10. CASE /\ ~ToFile(t) /\ alloc_map # Slot
            /\ alloc_map' = alloc_map \cup {NewSlot}
            /\ swap' = [swap EXCEPT ![NewSlot] = mem[sp[p].kaddr]]
            /\ sp' = [sp EXCEPT ![p].saddr = NewSlot, ![p].location = "swap"]
            /\ Goto(t, "detach")
            /\ UNCHANGED <<file, eviction_lock, panic>>
  <2>1. PICK s : s = NewSlot
    OBVIOUS
  <2>2. s \in Slot /\ s \notin alloc_map /\ s # None
    <3>1. Slot \ alloc_map \in SUBSET Nat /\ Slot \ alloc_map # {}
      BY <1>10, Marks DEF TypeOK
    <3> QED BY <2>1, <3>1, LeastIn, Marks DEF NewSlot
  <2>3. /\ sp' \in [Page -> PageRec] /\ \A q \in Page \ {p} : sp'[q] = sp[q]
        /\ sp'[p].kaddr = sp[p].kaddr /\ sp'[p].saddr = s
        /\ sp'[p].mapping = sp[p].mapping /\ sp'[p].location = "swap"
    <3>1. PICK x : x = [sp[p] EXCEPT !.saddr = s, !.location = "swap"]
      OBVIOUS
    <3>2. sp[p] \in PageRec
      BY <1>3 DEF TypeOK
    <3>3. /\ x \in PageRec /\ x.kaddr = sp[p].kaddr /\ x.saddr = s
          /\ x.mapping = sp[p].mapping /\ x.location = "swap"
      BY <2>2, <3>1, <3>2 DEF PageRec
    <3>4. sp' = [sp EXCEPT ![p] = x]
      BY <1>3, <1>10, <2>1, <3>1 DEF TypeOK, PageRec
    <3> QED BY <1>3, <3>3, <3>4, PageStep
  <2>4. SlotInv'
    <3> SUFFICES ASSUME NEW r \in Slot PROVE OnePage(r)'
      BY DEF SlotInv, Slot
    <3>1. OnePage(r)
      BY DEF Sound, SlotInv
    <3>2. r # None
      BY Marks
    <3>3. OnePage(s)
      BY <2>2 DEF Sound, SlotInv
    <3>4. \A q \in Page : sp[q].saddr # s
      BY <2>2, <3>3 DEF OnePage
    <3>5. \A q \in Page : sp'[q].saddr = r <=> (sp[q].saddr = r \/ (q = p /\ r = s))
      BY <1>3, <1>4, <2>3, <3>2
    <3>6. r \in alloc_map' <=> (r \in alloc_map \/ r = s)
      BY <1>10, <2>1
    <3> QED BY <1>3, <3>1, <3>4, <3>5, <3>6 DEF OnePage
  <2>5. Moves(t) /\ Sound'
    BY <1>5, <1>8, <1>10, <2>2, <2>3, <2>4
  <2>6. swap' \in [Slot -> Values] /\ alloc_map' \subseteq Slot
    BY <1>3, <1>10, <2>1, <2>2 DEF TypeOK
  <2>7. TypeOK'
    BY <1>2, <1>10, <2>3, <2>5, <2>6 DEF TypeOK, Moves
  <2> QED BY <2>5, <2>7
<1>11. CASE /\ NoFrame(t) /\ eviction_lock' = NoProc
            /\ UNCHANGED <<file, alloc_map, swap, sp>>
  <2>1. CASE th[t].back = "unmap"
    BY <1>2, <1>11, <2>1 DEF NoFrame, Alive, TypeOK
  <2>2. CASE th[t].back # "unmap"
    <3>1. Moves(t) /\ th'[t].pc = "exit" /\ th'[t].kpage = None
      BY <1>11, <2>2, DieStep DEF NoFrame
    <3>2. TypeOK'
      BY <1>2, <1>11, <3>1 DEF TypeOK, Moves
    <3>3. ThreadInv(t)'
      BY <3>1, AtRest
    <3>4. VictimInv(t)'
      BY <1>11, <3>1, Marks DEF VictimInv, Inside
    <3>5. EvictChange(t, p)
      <4>1. \A q \in Page \ {p} : Untouched(q)
        BY <1>2, <1>11 DEF Untouched, SteadyPage
      <4> QED BY <1>2, <1>3, <1>6, <1>11, <3>1, <4>1
            DEF EvictChange, VictimChange, Evicting, Transit
    <3>6. PageInv(p)'
      BY <1>2, <1>4, <1>11 DEF PageInv
    <3>7. ListAt(p)'
      <4>1. ~InTransit(p)'
        BY <1>3, <3>1 DEF InTransit, Moves
      <4> QED BY <1>2, <1>3, <1>4, <1>6, <1>11, <4>1 DEF ListAt
    <3>8. FrameInv'
      BY <1>2, <1>11, <3>1, <3>3, SameHands DEF Holding, Backs
    <3>9. SlotInv'
      BY <1>11, KeptSlots DEF Sound
    <3> QED BY <1>3, <1>7, <3>2, <3>3, <3>4, <3>5, <3>6, <3>7, <3>8, <3>9, EvictorStep
  <2> QED BY <2>1, <2>2
<1> QED BY <1>1, <1>9, <1>10, <1>11 DEF WriteOut

(* The victim's frame passes to the evictor. *)
LEMMA DetachInv ==
    ASSUME TypeOK, Sound, NEW t \in Process, Detach(t)
    PROVE  TypeOK' /\ Sound'
<1>1. PICK p, f : p = th[t].victim /\ f = sp[p].kaddr
  OBVIOUS
<1>2. /\ th[t].pc = "detach"
      /\ th' = [th EXCEPT ![t].pc = "unmap victim", ![t].kpage = f]
      /\ sp' = [sp EXCEPT ![p].kaddr = None]
      /\ UNCHANGED <<free, mem, file, alloc_map, swap, pte, table, eviction_lock, page_list,
                     page_elem, pool_size, expect, late>>
  BY <1>1 DEF Detach, Running, machine, evictor, history
<1>3. /\ p \in Page /\ Listed(p) /\ p \in table /\ f \in Frame
      /\ ~InTransit(p) /\ eviction_lock = t /\ th[t].kpage = None
      /\ \A u \in Process \ {t} : th[u].pc \notin Inside
  BY <1>1, <1>2, AtVictim
<1>4. f # None /\ PageInv(p) /\ ThreadInv(t)
  BY <1>3, Marks DEF Sound
<1>5. /\ Moves(t) /\ th'[t].pc = "unmap victim" /\ th'[t].kpage = f /\ th'[t].victim = p
      /\ th'[t].arg = th[t].arg /\ th'[t].back = th[t].back /\ th'[t].after = th[t].after
  <2>1. PICK x : x = [th[t] EXCEPT !.pc = "unmap victim", !.kpage = f]
    OBVIOUS
  <2>2. th[t] \in ThreadRec /\ "unmap victim" \in Points
    BY DEF TypeOK, Points
  <2>3. /\ x \in ThreadRec /\ x.pc = "unmap victim" /\ x.kpage = f /\ x.arg = th[t].arg
        /\ x.victim = th[t].victim /\ x.back = th[t].back /\ x.after = th[t].after
    BY <1>3, <2>1, <2>2 DEF ThreadRec
  <2>4. th' = [th EXCEPT ![t] = x]
    BY <1>2, <2>1 DEF TypeOK, ThreadRec
  <2> QED BY <1>1, <2>3, <2>4 DEF TypeOK, Moves
<1>6. /\ sp' \in [Page -> PageRec] /\ \A q \in Page \ {p} : sp'[q] = sp[q]
      /\ sp'[p].kaddr = None /\ sp'[p].saddr = sp[p].saddr
      /\ sp'[p].mapping = sp[p].mapping /\ sp'[p].location = sp[p].location
  <2>1. PICK x : x = [sp[p] EXCEPT !.kaddr = None]
    OBVIOUS
  <2>2. sp[p] \in PageRec
    BY <1>3 DEF TypeOK
  <2>3. /\ x \in PageRec /\ x.kaddr = None /\ x.saddr = sp[p].saddr
        /\ x.mapping = sp[p].mapping /\ x.location = sp[p].location
    BY <2>1, <2>2 DEF PageRec
  <2>4. sp' = [sp EXCEPT ![p] = x]
    BY <1>2, <2>1
  <2> QED BY <1>3, <2>3, <2>4, PageStep
<1>7. TypeOK'
  BY <1>2, <1>5, <1>6 DEF TypeOK, Moves
<1>8. \A q : Listed(q)' <=> Listed(q)
  BY <1>2 DEF Listed
<1>9. EvictChange(t, p)
  <2>1. \A q \in Page \ {p} : Untouched(q)
    BY <1>2, <1>6 DEF Untouched, SteadyPage
  <2> QED BY <1>1, <1>2, <1>3, <1>5, <1>6, <1>8, <2>1
        DEF EvictChange, VictimChange, Evicting, Transit
<1>10. ThreadInv(t)'
  <2>1. Phase(t)' = Phase(t)
    BY <1>2, <1>5 DEF Phase, Evicting
  <2>2. PhaseInv(t, Phase(t), th[t].arg, th[t].after)'
    BY <1>3, <1>5, <1>9, <2>1, VictimPhases DEF EvictChange
  <2> QED BY <1>2, <1>4, <1>5, <2>2 DEF ThreadInv, Evicting, Holding, Backs, Borrowed
<1>11. VictimInv(t)'
  BY <1>2, <1>3, <1>5, <1>6, <1>8 DEF VictimInv, Inside
<1>12. PageInv(p)'
  BY <1>2, <1>3, <1>4, <1>6 DEF PageInv
<1>13. ListAt(p)'
  <2>1. BeingUnmapped(p)'
    BY <1>2, <1>3, <1>5 DEF BeingUnmapped
  <2> QED BY <1>2, <1>3, <1>8, <2>1 DEF ListAt
<1>14. Distinct' /\ HandInv'
  BY <1>2, <1>8 DEF Distinct, HandInv, Sound, ListInv
<1>15. FrameInv'
  <2>1. \A u \in Process \ {t} : \A g \in Frame : ProcHas(u, g)' <=> ProcHas(u, g)
    BY <1>5 DEF Moves, ProcHas, Borrowed
  <2>2. \A g \in Frame : (ProcHas(t, g)' <=> g = f) /\ ~ProcHas(t, g)
    BY <1>3, <1>5, Marks DEF ProcHas, Borrowed
  <2>3. \A g \in Frame, q \in Page : PageHas(q, g)' <=> (PageHas(q, g) /\ q # p)
    BY <1>6, Marks DEF PageHas
  <2>4. \A g \in Frame \ {f} : SameHand(g)
    <3> TAKE g \in Frame \ {f}
    <3>1. ~PageHas(p, g)
      BY <1>1 DEF PageHas
    <3>2. \A q \in Page : PageHas(q, g)' <=> PageHas(q, g)
      BY <2>3, <3>1
    <3> QED BY <1>2, <2>1, <2>2, <3>2 DEF SameHand
  <2>5. OneHand(f)'
    <3>1. OneHand(f) /\ PageHas(p, f)
      BY <1>1, <1>3 DEF Sound, FrameInv, PageHas
    <3>2. /\ \A q \in Page : ~PageHas(q, f)'
          /\ \A u \in Process : ProcHas(u, f)' <=> u = t
          /\ f \notin free'
      BY <1>2, <1>3, <2>1, <2>2, <2>3, <3>1 DEF OneHand
    <3> QED BY <3>2 DEF OneHand
  <2> QED BY <2>4, <2>5, KeptFrames DEF Sound
<1>16. SlotInv'
  <2>1. \A q \in Page : sp'[q].saddr = sp[q].saddr
    BY <1>6
  <2> QED BY <1>2, <2>1, KeptSlots DEF Sound
<1> QED BY <1>3, <1>7, <1>9, <1>10, <1>11, <1>12, <1>13, <1>14, <1>15, <1>16, EvictorStep

(* The victim leaves the list and eviction_lock is released. *)
LEMMA UnmapVictimInv ==
    ASSUME TypeOK, Sound, NEW t \in Process, UnmapVictim(t)
    PROVE  TypeOK' /\ Sound'
<1>1. PICK p, f : p = th[t].victim /\ f = th[t].kpage
  OBVIOUS
<1>2. /\ th[t].pc = "unmap victim" /\ p \in table
      /\ pte' = [pte EXCEPT ![p].frame = None] /\ free' = free \cup {f}
      /\ Unlist(p) /\ eviction_lock' = NoProc
      /\ th' = [th EXCEPT ![t].pc = "get frame", ![t].kpage = None, ![t].victim = NoPage]
      /\ UNCHANGED <<mem, file, alloc_map, swap, sp, table, pool_size, expect, late>>
  BY <1>1 DEF UnmapVictim, Running, Gone, history
<1>3. /\ p \in Page /\ Listed(p) /\ sp[p].kaddr = None /\ eviction_lock = t
      /\ \A u \in Process \ {t} : th[u].pc \notin Inside
  BY <1>1, <1>2, AloneInside DEF Sound, VictimInv, Inside
<1>4. f \in Frame /\ f # None /\ PageInv(p) /\ ThreadInv(t)
  BY <1>1, <1>2, <1>3 DEF Sound, ThreadInv, Holding, TypeOK, ThreadRec
<1>5. /\ Moves(t) /\ th'[t].pc = "get frame" /\ th'[t].kpage = None
      /\ th'[t].arg = th[t].arg /\ th'[t].back = th[t].back /\ th'[t].after = th[t].after
  <2>1. PICK x : x = [th[t] EXCEPT !.pc = "get frame", !.kpage = None, !.victim = NoPage]
    OBVIOUS
  <2>2. th[t] \in ThreadRec /\ "get frame" \in Points
    BY DEF TypeOK, Points
  <2>3. /\ x \in ThreadRec /\ x.pc = "get frame" /\ x.kpage = None /\ x.arg = th[t].arg
        /\ x.back = th[t].back /\ x.after = th[t].after
    BY <2>1, <2>2 DEF ThreadRec
  <2>4. th' = [th EXCEPT ![t] = x]
    BY <1>2, <2>1 DEF TypeOK, ThreadRec
  <2> QED BY <2>3, <2>4 DEF TypeOK, Moves
<1>6. /\ page_list' \in Seq(Page) /\ page_elem' \in Page \cup {NoPage}
      /\ Distinct' /\ HandInv'
      /\ \A q : Listed(q)' <=> (Listed(q) /\ q # p)
  BY <1>2, <1>3, UnlistStep DEF Sound, ListInv
<1>7. pte' \in [Page -> PteRec] /\ \A q \in Page \ {p} : pte'[q] = pte[q]
  BY <1>2, <1>3 DEF TypeOK, PteRec
<1>8. TypeOK'
  BY <1>2, <1>4, <1>5, <1>6, <1>7 DEF TypeOK, Moves
<1>9. EvictChange(t, p)
  <2>1. \A q \in Page \ {p} : Untouched(q) /\ (Listed(q)' <=> Listed(q))
    BY <1>2, <1>6, <1>7 DEF Untouched, SteadyPage
  <2> QED BY <1>1, <1>2, <1>3, <1>5, <2>1 DEF EvictChange, VictimChange, Evicting, Transit
<1>10. ThreadInv(t)'
  <2>1. Phase(t)' = Phase(t)
    BY <1>2, <1>5 DEF Phase, Evicting
  <2>2. PhaseInv(t, Phase(t), th[t].arg, th[t].after)'
    BY <1>3, <1>5, <1>9, <2>1, VictimPhases DEF EvictChange
  <2> QED BY <1>2, <1>4, <1>5, <2>2 DEF ThreadInv, Evicting, Holding, Backs, Borrowed
<1>11. VictimInv(t)'
  BY <1>2, <1>5, Marks DEF VictimInv, Inside
<1>12. PageInv(p)'
  BY <1>2, <1>3, <1>4 DEF PageInv
<1>13. ListAt(p)'
  <2>1. \A u \in Process : th'[u].pc # "unmap victim"
    BY <1>3, <1>5 DEF Moves, Inside
  <2> QED BY <1>2, <1>3, <1>6, <2>1 DEF ListAt, BeingUnmapped
<1>14. FrameInv'
  <2>1. \A u \in Process \ {t} : \A g \in Frame : ProcHas(u, g)' <=> ProcHas(u, g)
    BY <1>5 DEF Moves, ProcHas, Borrowed
  <2>2. \A g \in Frame : ~ProcHas(t, g)' /\ (ProcHas(t, g) <=> g = f)
    BY <1>1, <1>2, <1>5, Marks DEF ProcHas, Borrowed
  <2>3. \A g \in Frame \ {f} : SameHand(g)
    BY <1>2, <2>1, <2>2 DEF SameHand, PageHas
  <2>4. OneHand(f)'
    <3>1. OneHand(f) /\ ProcHas(t, f)
      BY <1>4, <2>2 DEF Sound, FrameInv
    <3>2. /\ \A q \in Page : ~PageHas(q, f)'
          /\ \A u \in Process : ~ProcHas(u, f)'
          /\ f \in free'
      BY <1>2, <1>4, <2>1, <2>2, <3>1 DEF OneHand, PageHas
    <3> QED BY <3>2 DEF OneHand
  <2> QED BY <2>3, <2>4, KeptFrames DEF Sound
<1>15. SlotInv'
  BY <1>2, KeptSlots DEF Sound
<1> QED BY <1>3, <1>6, <1>8, <1>9, <1>10, <1>11, <1>12, <1>13, <1>14, <1>15, EvictorStep

-----------------------------------------------------------------------------
(* The invariant of the specification *)

(* At the start all frames and slots are free and nothing is listed. *)
LEMMA InitInv == Init => IInv
<1> SUFFICES ASSUME Init PROVE IInv
  OBVIOUS
<1>1. TypeOK
  <2>1. PICK v : v = CHOOSE w \in Values : w # Zero
    OBVIOUS
  <2>2. v \in Values
    BY <2>1, PagingAssumption
  <2>3. file = [p \in Page |-> v]
    BY <2>1 DEF Init
  <2>4. file \in [Page -> Values] /\ expect \in [Page -> Values]
    BY <2>2, <2>3, PagingAssumption DEF Init
  <2>5. mem \in [Frame -> Values] /\ swap \in [Slot -> Values]
    BY PagingAssumption DEF Init
  <2>6. pte \in [Page -> PteRec] /\ sp \in [Page -> PageRec]
    BY DEF Init, PteRec, PageRec
  <2>7. th \in [Process -> ThreadRec]
    BY DEF Init, ThreadRec, Points
  <2>8. pool_size \in [Process -> Nat] /\ page_list \in Seq(Page)
    BY DEF Init
  <2>9. /\ free \subseteq Frame /\ alloc_map \subseteq Slot /\ table \subseteq Page
        /\ late \subseteq Page /\ eviction_lock \in Process \cup {NoProc}
        /\ page_elem \in Page \cup {NoPage}
    BY DEF Init
  <2> QED BY <2>4, <2>5, <2>6, <2>7, <2>8, <2>9 DEF TypeOK
<1>2. \A t \in Process : ThreadInv(t) /\ VictimInv(t)
  <2> TAKE t \in Process
  <2>1. th[t].pc = "user" /\ th[t].kpage = None /\ eviction_lock # t
    BY Marks DEF Init
  <2>2. ThreadInv(t)
    BY <2>1 DEF ThreadInv, PhaseInv, Phase, Evicting, Busy, Entering, FromSwapping, FromFile,
       Growing, Unmapping, Disposing, Holding, Backs
  <2> QED BY <2>1, <2>2 DEF VictimInv, Inside
<1>3. \A p \in Page : /\ sp[p].kaddr = None /\ sp[p].saddr = None
                      /\ sp[p].location # "swap" /\ (p \in table => Segment(p))
  BY DEF Init
<1>4. \A p \in Page : PageInv(p)
  BY <1>3 DEF PageInv, Segment
<1>5. FrameInv
  BY <1>3, Marks DEF Init, FrameInv, OneHand, PageHas, ProcHas
<1>6. SlotInv
  BY <1>3, Marks DEF Init, SlotInv, OnePage
<1>7. ListInv
  <2>1. page_list = <<>> /\ page_elem = NoPage /\ DOMAIN page_list = {}
    BY DEF Init
  <2>2. \A p : ~Listed(p)
    BY <2>1 DEF Listed
  <2>3. \A p : ~BeingUnmapped(p)
    BY DEF Init, BeingUnmapped
  <2> QED BY <1>3, <2>1, <2>2, <2>3 DEF ListInv, Distinct, ListAt, HandInv
<1> QED BY <1>1, <1>2, <1>4, <1>5, <1>6, <1>7 DEF IInv, Sound

(* Steps of user code. *)
LEMMA UserStepInv ==
    ASSUME TypeOK, Sound, NEW t \in Process, UserStep(t)
    PROVE  TypeOK' /\ Sound'
BY WriteInv, PageFaultInv, UserAddressInv, MmapInv, MunmapInv, ExitInv DEF UserStep

(* Steps inside the kernel. *)
LEMMA KernelStepInv ==
    ASSUME TypeOK, Sound, NEW t \in Process, KernelStep(t)
    PROVE  TypeOK' /\ (Alive' => Sound')
<1>1. CASE UseAfterFree(t)
  <2>1. \E why \in {"mapping", "evicted page"} : Stop(why)
    BY <1>1 DEF UseAfterFree
  <2> QED BY <2>1 DEF Stop, Alive, TypeOK, machine, evictor, history
<1> QED BY <1>1, ScanInv, WriteOutInv, DetachInv, UnmapVictimInv, GetFrameInv, RestoreInv,
       LoadFrameInv, FillInv, RegisterInv, LoadedInv, AllocFrameInv, SetPageInv,
       LoadToFileInv, UnregisterInv, SetKpageInv, WriteBackInv, DisposeInv,
       DisposeMappingInv, FreePoolInv, DeleteInv DEF KernelStep

(* Nobody moves in a kernel that has stopped. *)
LEMMA OnlyAlive ==
    ASSUME NEW t \in Process, UserStep(t) \/ KernelStep(t)
    PROVE  Alive
BY DEF UserStep, KernelStep, Alive, Running, MayCall, Write, page_fault, user_address_valid,
   mmap, munmap, Exit, Scan, WriteOut, Detach, UnmapVictim, GetFrame, restore_page_from_swap,
   LoadFrame, Fill, register_suppl_page, Loaded, AllocFrame, suppl_table_set_page, LoadToFile,
   Unregister, SetKpage, WriteBack, suppl_page_dispose, DisposeMapping, FreePool,
   suppl_pt_delete, UseAfterFree

(* Stuttering. *)
LEMMA SameInv ==
    ASSUME IInv, UNCHANGED vars
    PROVE  IInv'
<1>1. /\ Still /\ th' = th /\ panic' = panic
  BY DEF vars, Still, machine, evictor, history
<1>2. TypeOK'
  BY <1>1 DEF IInv, TypeOK, Still
<1>3. Alive' => Sound'
  <2> SUFFICES ASSUME Alive' PROVE Sound'
    OBVIOUS
  <2>1. Sound
    BY <1>1 DEF IInv, Alive
  <2>2. \A p : /\ Listed(p)' <=> Listed(p)
               /\ InTransit(p)' <=> InTransit(p)
               /\ BeingUnmapped(p)' <=> BeingUnmapped(p)
               /\ Detaching(p)' <=> Detaching(p)
    BY <1>1 DEF Still, Listed, InTransit, BeingUnmapped, Detaching
  <2>3. \A t \in Process : ThreadInv(t)' /\ VictimInv(t)'
    <3> TAKE t \in Process
    <3>1. /\ Phase(t)' = Phase(t) /\ Borrowed(t)' = Borrowed(t) /\ th' = th /\ sp' = sp
          /\ table' = table /\ eviction_lock' = eviction_lock
      BY <1>1 DEF Phase, Borrowed, Still
    <3>2. ThreadInv(t) /\ VictimInv(t)
      BY <2>1 DEF Sound
    <3>3. PhaseInv(t, Phase(t), th[t].arg, th[t].after)'
      BY <3>1, <3>2 DEF ThreadInv, PhaseInv
    <3> QED BY <2>2, <3>1, <3>2, <3>3 DEF ThreadInv, VictimInv
  <2>4. \A p \in Page : PageInv(p)' /\ ListAt(p)'
    BY <1>1, <2>1, <2>2 DEF Sound, Still, PageInv, ListInv, ListAt
  <2>5. Distinct' /\ HandInv'
    BY <1>1, <2>1, <2>2 DEF Sound, ListInv, Still, Distinct, HandInv
  <2>6. FrameInv' /\ SlotInv'
    <3>1. \A f \in Frame : SameHand(f)
      BY <1>1 DEF SameHand, PageHas, ProcHas, Borrowed, Still
    <3>2. FrameInv'
      BY <2>1, <3>1, KeptFrames DEF Sound
    <3>3. SlotInv'
      BY <1>1, <2>1, KeptSlots DEF Sound, Still
    <3> QED BY <3>2, <3>3
  <2> QED BY <2>3, <2>4, <2>5, <2>6 DEF Sound, ListInv
<1> QED BY <1>2, <1>3 DEF IInv

(* Every step keeps the invariant. *)
LEMMA NextInv == IInv /\ [Next]_vars => IInv'
<1> SUFFICES ASSUME IInv, [Next]_vars PROVE IInv'
  OBVIOUS
<1>1. ASSUME NEW t \in Process, UserStep(t) \/ KernelStep(t) PROVE IInv'
  <2>1. TypeOK /\ Sound
    BY <1>1, OnlyAlive DEF IInv
  <2> QED BY <1>1, <2>1, UserStepInv, KernelStepInv DEF IInv
<1>2. CASE UNCHANGED vars
  BY <1>2, SameInv
<1> QED BY <1>1, <1>2 DEF Next, Finished

(* Whatever the processes do, in whatever order, what a process knows of    *)
(* its page holds until it acts on it.                                      *)
THEOREM Invariance == Spec => []IInv
<1>1. IInv /\ [Next]_vars => IInv'
  BY NextInv
<1> QED BY InitInv, <1>1, PTL DEF Spec

-----------------------------------------------------------------------------
(* What follows from it *)

(* FrameOwned counts the hands that FrameInv describes. *)
LEMMA FramesFollow == IInv => FrameOwned
<1> SUFFICES ASSUME IInv, Alive, NEW f \in Frame PROVE Cardinality(Holders(f)) = 1
  BY DEF FrameOwned
<1>1. OneHand(f) /\ f # None
  BY Marks DEF IInv, Sound, FrameInv
<1>2. \A p \in Page : PageHas(p, f) => p \in table
  BY <1>1 DEF IInv, Sound, PageInv, PageHas
<1>3. table \subseteq Page
  BY DEF IInv, TypeOK
<1> DEFINE pages == {p \in table : sp[p].kaddr = f}
           procs == {u \in Process : th[u].kpage = f /\ ~Borrowed(u)}
<1>4. \E h : Holders(f) = {h}
  <2>1. CASE f \in free
    <3>1. pages = {} /\ procs = {}
      BY <1>1, <1>3, <2>1 DEF OneHand, PageHas, ProcHas
    <3>2. Holders(f) = {<<"free">>}
      BY <2>1, <3>1 DEF Holders
    <3> QED BY <3>2
  <2>2. ASSUME NEW p \in Page, PageHas(p, f) PROVE \E h : Holders(f) = {h}
    <3>1. pages = {p} /\ procs = {} /\ f \notin free
      BY <1>1, <1>2, <1>3, <2>2 DEF OneHand, PageHas, ProcHas
    <3>2. Holders(f) = {<<"page", p>>}
      BY <3>1 DEF Holders
    <3> QED BY <3>2
  <2>3. ASSUME NEW t \in Process, ProcHas(t, f) PROVE \E h : Holders(f) = {h}
    <3>1. pages = {} /\ procs = {t} /\ f \notin free
      BY <1>1, <1>3, <2>3 DEF OneHand, PageHas, ProcHas
    <3>2. Holders(f) = {<<"process", t>>}
      BY <3>1 DEF Holders
    <3> QED BY <3>2
  <2> QED BY <1>1, <2>1, <2>2, <2>3 DEF OneHand
<1> QED BY <1>4, FS_Singleton

(* SlotOwned follows from SlotInv. *)
LEMMA SlotsFollow == IInv => SlotOwned
<1> SUFFICES ASSUME IInv, Alive
             PROVE  /\ alloc_map = {sp[p].saddr : p \in table} \ {None}
                    /\ \A p, q \in table : sp[p].saddr = sp[q].saddr /\ p # q => sp[p].saddr = None
  BY DEF SlotOwned
<1>1. /\ \A s \in Slot : OnePage(s)
      /\ \A p \in Page : p \notin table => sp[p].saddr = None
      /\ table \subseteq Page /\ alloc_map \subseteq Slot
      /\ \A p \in Page : sp[p].saddr \in Slot \cup {None}
  BY DEF IInv, Sound, SlotInv, PageInv, TypeOK, PageRec
<1>2. \A s \in alloc_map : \E p \in table : sp[p].saddr = s /\ s # None
  <2> SUFFICES ASSUME NEW s \in alloc_map
               PROVE  \E p \in table : sp[p].saddr = s /\ s # None
    OBVIOUS
  <2>1. s \in Slot /\ s # None
    BY <1>1, Marks
  <2>2. OnePage(s)
    BY <1>1, <2>1
  <2>3. PICK p \in Page : sp[p].saddr = s
    BY <2>2 DEF OnePage
  <2>4. p \in table
    BY <1>1, <2>1, <2>3
  <2> QED BY <2>1, <2>3, <2>4
<1>3. \A p \in table : sp[p].saddr # None => sp[p].saddr \in alloc_map
  BY <1>1 DEF OnePage
<1>4. alloc_map = {sp[p].saddr : p \in table} \ {None}
  BY <1>2, <1>3
<1>5. \A p, q \in table : sp[p].saddr = sp[q].saddr /\ p # q => sp[p].saddr = None
  BY <1>1 DEF OnePage
<1> QED BY <1>4, <1>5

(* ListSound follows from ListInv. *)
LEMMA ListFollows == IInv => ListSound
<1> SUFFICES ASSUME IInv PROVE ListSound
  OBVIOUS
<1>1. TypeOK /\ table \subseteq Page
  BY DEF IInv, TypeOK
<1>2. ASSUME Alive
      PROVE  /\ \A i, j \in DOMAIN page_list : page_list[i] = page_list[j] => i = j
             /\ \A p \in table :
                   Listed(p) <=> (sp[p].kaddr # None /\ ~InTransit(p)) \/ BeingUnmapped(p)
             /\ page_elem # NoPage => Listed(page_elem)
  BY <1>1, <1>2 DEF IInv, Sound, ListInv, Distinct, ListAt, HandInv
<1> QED BY <1>1, <1>2 DEF ListSound

(* No frame of the user pool is lost, freed twice or used by two pages,     *)
(* whatever is evicted, loaded, grown, unmapped or disposed of meanwhile.   *)
THEOREM FramesAccounted == Spec => []FrameOwned
BY Invariance, FramesFollow, PTL

(* No swap slot is lost, freed twice or shared by two pages. *)
THEOREM SlotsAccounted == Spec => []SlotOwned
BY Invariance, SlotsFollow, PTL

(* evict_page finds every evictable page once in its list and never one     *)
(* that has left, and the hand of the clock stays on the list.              *)
THEOREM EvictablePages == Spec => []ListSound
BY Invariance, ListFollows, PTL

-----------------------------------------------------------------------------
(* What a page holds.  DataKept follows from where the contents of a page   *)
(* are while its owner, an evictor or nobody is at work on it.              *)

(* A process that exits never returns to user code.  A page that its owner  *)
(* unmaps or disposes of is given up: what it holds matters no more.        *)
Leaving(t) == th[t].pc \in {"exit", "delete", "dead"} \/ th[t].after \in {"exit", "delete"}
Giving == Unmapping \cup Disposing
Forsaken(p) == th[Owner[p]].arg = p /\ Phase(Owner[p]) \in Giving

(* A new page of the stack is a page of zeros; only a page that was seen    *)
(* dirty gets a frame to be unmapped with.                                  *)
ThreadData(t) ==
    /\ th[t].pc \in {"user", "loaded"} => ~Leaving(t)
    /\ Phase(t) \in {"unregister", "unmap"} => sp[th[t].arg].dirty
    /\ Phase(t) \in Disposing /\ Kind[th[t].arg] # "mmap" => th[t].after = "delete"
    /\ th[t].pc = "set page" => mem[th[t].kpage] = Zero

(* The copy that an eviction leaves behind, and that it agrees with the     *)
(* frame unless the owner wrote late.                                       *)
Copy(p) == IF sp[p].saddr # None THEN swap[sp[p].saddr] ELSE file[p]
VictimData(t) ==
    th[t].victim \notin late =>
        /\ th[t].pc = "write out" /\ ~th[t].modified /\ Writable(th[t].victim) =>
              mem[sp[th[t].victim].kaddr] = file[th[t].victim]
        /\ th[t].pc = "detach" => mem[sp[th[t].victim].kaddr] = Copy(th[t].victim)
        /\ th[t].pc = "unmap victim" /\ (th[t].victim \in table \/ Kind[th[t].victim] = "mmap") =>
              mem[th[t].kpage] = Copy(th[t].victim)

(* User code reaches a frame that its page has, or that an evictor is about *)
(* to unmap; a clean page is what its file is; and the page or its copy is  *)
(* what the owner wrote last.                                               *)
Mapped(p) ==
    \/ pte[p].frame = sp[p].kaddr
    \/ \E t \in Process : /\ th[t].pc = "unmap victim" /\ th[t].victim = p
                          /\ th[t].kpage = pte[p].frame
PageData(p) ==
    /\ pte[p].frame # None => Mapped(p)
    /\ p \in table /\ sp[p].kaddr # None /\ ~suppl_page_dirty(p) => mem[sp[p].kaddr] = file[p]
    /\ p \in table /\ p \notin late /\ ~Forsaken(p) =>
          expect[p] = IF sp[p].kaddr # None THEN mem[sp[p].kaddr] ELSE Copy(p)
    /\ p \notin table /\ Kind[p] = "stack" /\ ~Leaving(Owner[p]) =>
          expect[p] = Zero /\ pte[p].frame = None

Data ==
    /\ \A t \in Process : ThreadData(t) /\ VictimData(t)
    /\ \A p \in Page : PageData(p)
DataInv == Alive => Data

-----------------------------------------------------------------------------
(* A step that changes the contents of one page at most keeps Data if it    *)
(* keeps what is said of that page and of the process that moves.           *)
SameData(q) ==
    /\ sp'[q].kaddr = sp[q].kaddr /\ sp'[q].saddr = sp[q].saddr
    /\ sp[q].dirty => sp'[q].dirty
    /\ Writable(q)' => Writable(q)
    /\ pte'[q] = pte[q] /\ file'[q] = file[q] /\ expect'[q] = expect[q]
    /\ q \in table' <=> q \in table
    /\ q \in late' <=> q \in late
    /\ sp[q].kaddr # None => mem'[sp[q].kaddr] = mem[sp[q].kaddr]
    /\ sp[q].saddr # None => swap'[sp[q].saddr] = swap[sp[q].saddr]

DataChange(t, p) ==
    /\ Moves(t)
    /\ \A q \in Page \ {p} : SameData(q)
    /\ \A q \in Page : Owner[q] # t /\ sp[q].dirty => sp'[q].dirty
    /\ \A u \in Process \ {t} :
          th[u].pc \in Holding =>
             \/ mem'[th[u].kpage] = mem[th[u].kpage]
             \/ th[u].pc = "unmap victim" /\ th[u].victim = p
    /\ \A u \in Process \ {t} :
          th[u].pc \in Inside /\ th[u].victim = p => VictimData(u)'
    /\ Phase(t) \in Giving =>
          th[t].arg = p \/ (th'[t].arg = th[t].arg /\ Phase(t)' \in Giving)
    /\ Leaving(t) => Leaving(t)'
    /\ th[t].pc = "unmap victim" => th[t].victim = p

(* The copy of a page that a step leaves alone. *)
LEMMA SameCopy ==
    ASSUME NEW q, SameData(q)
    PROVE  Copy(q)' = Copy(q)
<1>1. /\ sp'[q].saddr = sp[q].saddr /\ file'[q] = file[q]
      /\ sp[q].saddr # None => swap'[sp[q].saddr] = swap[sp[q].saddr]
  BY DEF SameData
<1> QED BY <1>1 DEF Copy

(* Of the processes and pages that a step is not about. *)
LEMMA DataStep ==
    ASSUME TypeOK, Sound, Data, NEW t \in Process, NEW p, DataChange(t, p),
           ThreadData(t)', VictimData(t)', p \in Page => PageData(p)'
    PROVE  Data'
<1>1. \A u \in Process \ {t} :
        th'[u] = th[u] /\ Phase(u)' = Phase(u) /\ Leaving(u)' = Leaving(u)
  BY DEF DataChange, Moves, Phase, Leaving
<1>2. \A u \in Process \ {t} : ThreadData(u)'
  <2> TAKE u \in Process \ {t}
  <2>1. ThreadData(u) /\ ThreadInv(u)
    BY DEF Data, Sound
  <2>2. Phase(u) \in {"unregister", "unmap"} => th[u].arg \in Page /\ Owner[th[u].arg] = u
    BY <2>1 DEF ThreadInv, PhaseInv, Busy, Unmapping
  <2>3. Phase(u) \in {"unregister", "unmap"} => sp'[th[u].arg].dirty
    BY <2>1, <2>2 DEF ThreadData, DataChange
  <2>4. th[u].pc = "set page" => mem'[th[u].kpage] = Zero
    BY <2>1 DEF ThreadData, DataChange, Holding, Backs
  <2> QED BY <1>1, <2>1, <2>3, <2>4 DEF ThreadData
<1>3. \A u \in Process \ {t} : VictimData(u)'
  <2> TAKE u \in Process \ {t}
  <2>1. VictimData(u) /\ VictimInv(u) /\ th'[u] = th[u]
    BY <1>1 DEF Data, Sound
  <2>2. CASE th[u].pc \notin Inside
    BY <2>1, <2>2 DEF VictimData, Inside
  <2>3. CASE th[u].pc \in Inside /\ th[u].victim = p
    BY <2>3 DEF DataChange
  <2>4. CASE th[u].pc \in Inside /\ th[u].victim # p
    <3>1. PICK q \in Page \ {p} : q = th[u].victim
      BY <2>1, <2>4 DEF VictimInv
    <3>2. SameData(q) /\ Copy(q)' = Copy(q)
      BY <3>1, SameCopy DEF DataChange
    <3>3. th[u].pc \in {"write out", "detach"} => mem'[sp'[q].kaddr] = mem[sp[q].kaddr]
      BY <2>1, <3>1, <3>2 DEF VictimInv, SameData
    <3>4. th[u].pc = "unmap victim" => mem'[th[u].kpage] = mem[th[u].kpage]
      BY <2>4 DEF DataChange, Holding
    <3>5. /\ file'[q] = file[q] /\ (Writable(q)' => Writable(q))
          /\ q \in table' <=> q \in table
          /\ q \in late' <=> q \in late
      BY <3>2 DEF SameData
    <3> QED BY <2>1, <3>1, <3>2, <3>3, <3>4, <3>5 DEF VictimData
  <2> QED BY <2>2, <2>3, <2>4
<1>4. \A q \in Page \ {p} : PageData(q)'
  <2> TAKE q \in Page \ {p}
  <2>1. PageData(q) /\ SameData(q) /\ Copy(q)' = Copy(q)
    BY SameCopy DEF Data, DataChange
  <2>2. Mapped(q) => Mapped(q)'
    <3>1. pte'[q] = pte[q] /\ sp'[q].kaddr = sp[q].kaddr
      BY <2>1 DEF SameData
    <3>2. \A u \in Process : th[u].pc = "unmap victim" /\ th[u].victim = q => th'[u] = th[u]
      BY <1>1 DEF DataChange
    <3> QED BY <3>1, <3>2 DEF Mapped
  <2>3. suppl_page_dirty(q) => suppl_page_dirty(q)'
    BY <2>1 DEF suppl_page_dirty, SameData
  <2>4. Forsaken(q) => Forsaken(q)'
    BY <1>1, Marks DEF Forsaken, DataChange
  <2>5. Leaving(Owner[q]) => Leaving(Owner[q])'
    BY <1>1, Marks DEF DataChange
  <2> QED BY <2>1, <2>2, <2>3, <2>4, <2>5 DEF PageData, SameData
<1> QED BY <1>2, <1>3, <1>4 DEF Data

(* A step that moves no contents *)
Idle(t) ==
    /\ Moves(t)
    /\ UNCHANGED <<mem, file, swap, pte, table, expect, late>>
    /\ \A q \in Page :
          /\ sp'[q].kaddr = sp[q].kaddr /\ sp'[q].saddr = sp[q].saddr
          /\ sp[q].dirty => sp'[q].dirty
          /\ Writable(q)' => Writable(q)
    /\ Phase(t) \in Giving => th'[t].arg = th[t].arg /\ Phase(t)' \in Giving
    /\ Leaving(t) => Leaving(t)'
    /\ th[t].pc # "unmap victim"

(* What is left to show of it. *)
LEMMA IdleStep ==
    ASSUME TypeOK, Sound, Data, NEW t \in Process, Idle(t), ThreadData(t)', VictimData(t)'
    PROVE  Data'
<1>1. \A q \in Page : SameData(q)
  BY DEF Idle, SameData
<1>2. \A u \in Process : th[u].pc \in Inside => th[u].victim # NoPage
  BY Marks DEF Sound, VictimInv
<1>3. \A u \in Process : mem'[th[u].kpage] = mem[th[u].kpage]
  BY DEF Idle
<1>4. /\ Moves(t) /\ th[t].pc # "unmap victim" /\ (Leaving(t) => Leaving(t)')
      /\ Phase(t) \in Giving => th'[t].arg = th[t].arg /\ Phase(t)' \in Giving
      /\ \A q \in Page : sp[q].dirty => sp'[q].dirty
  BY DEF Idle
<1>5. DataChange(t, NoPage)
  BY <1>1, <1>2, <1>3, <1>4 DEF DataChange
<1> QED BY <1>5, Marks, DataStep

(* A process outside eviction_lock has nothing to say of a victim. *)
LEMMA OutsideData ==
    ASSUME NEW t \in Process, th'[t].pc \notin Inside
    PROVE  VictimData(t)'
BY DEF VictimData, Inside

(* Most points of the kernel promise nothing of the contents. *)
LEMMA PlainData ==
    ASSUME NEW t \in Process, th'[t].pc \notin {"user", "loaded", "set page"},
           Phase(t)' \notin {"unregister", "unmap"} \cup Disposing
    PROVE  ThreadData(t)'
BY DEF ThreadData

(* A step that leaves the pages alone as well. *)
LEMMA SameFields ==
    ASSUME sp' = sp
    PROVE  \A q \in Page : /\ sp'[q].kaddr = sp[q].kaddr /\ sp'[q].saddr = sp[q].saddr
                           /\ sp[q].dirty => sp'[q].dirty
                           /\ Writable(q)' => Writable(q)
BY DEF Writable

(* A process that turns to its exit. *)
LEMMA DieData ==
    ASSUME TypeOK, Sound, Data, NEW t \in Process, Die(t), th[t].pc # "unmap victim",
           Phase(t) \notin Giving, UNCHANGED <<mem, file, swap, pte, sp, table, expect, late>>
    PROVE  Data'
<1>1. Moves(t) /\ th'[t].pc = "exit"
  BY DieStep
<1>2. Leaving(t)' /\ Phase(t)' = "exit"
  BY <1>1 DEF Leaving, Phase, Evicting
<1>3. Idle(t)
  BY <1>1, <1>2, SameFields DEF Idle
<1>4. ThreadData(t)' /\ VictimData(t)'
  BY <1>1, <1>2, PlainData, OutsideData DEF Disposing, Inside
<1> QED BY <1>3, <1>4, IdleStep

(* A process in user code comes back to it, and gives nothing up. *)
LEMMA AtUser ==
    ASSUME Data, NEW t \in Process, th[t].pc = "user"
    PROVE  ~Leaving(t) /\ Phase(t) \notin Giving
BY DEF Data, ThreadData, Phase, Evicting, Giving, Unmapping, Disposing

(* Faults, system calls and munmap only take t into the kernel. *)
LEMMA CallData ==
    ASSUME TypeOK, Sound, Data, NEW t \in Process, NEW p \in Page, NEW to, th[t].pc = "user",
           to \in {"exit", "grow", "restore", "load", "unmap file"}, Call(t, p, to),
           UNCHANGED <<mem, file, swap, pte, sp, table, expect, late>>
    PROVE  Data'
<1>0. to \in Points
  BY DEF Points
<1>1. Moves(t) /\ th'[t].pc = to
  BY <1>0, CallStep
<1>2. Phase(t)' = to
  BY <1>1 DEF Phase, Evicting
<1>3. Idle(t)
  BY <1>1, AtUser, SameFields DEF Idle
<1>4. ThreadData(t)' /\ VictimData(t)'
  BY <1>1, <1>2, PlainData, OutsideData DEF Disposing, Inside
<1> QED BY <1>3, <1>4, IdleStep

(* Calls of user code that change no contents. *)
LEMMA CallsData ==
    ASSUME TypeOK, Sound, Data, NEW t \in Process, NEW p \in Page,
           page_fault(t, p) \/ user_address_valid(t, p) \/ munmap(t, p)
    PROVE  Data'
<1>1. CASE page_fault(t, p)
  <2>1. PICK to : to = Handler(p)
    OBVIOUS
  <2>2. th[t].pc = "user" /\ Call(t, p, to)
        /\ UNCHANGED <<mem, file, swap, pte, sp, table, expect, late>>
    BY <1>1, <2>1 DEF page_fault, MayCall, Running, machine, history
  <2>3. to \in {"exit", "grow", "restore", "load"}
    BY <2>1 DEF Handler
  <2> QED BY <2>2, <2>3, CallData
<1>2. CASE user_address_valid(t, p)
  <2>1. PICK to : to = IF p \notin table /\ Kind[p] = "stack" THEN "grow" ELSE "exit"
    OBVIOUS
  <2>2. th[t].pc = "user" /\ Call(t, p, to)
        /\ UNCHANGED <<mem, file, swap, pte, sp, table, expect, late>>
    BY <1>2, <2>1 DEF user_address_valid, MayCall, Running, machine, history
  <2>3. to \in {"exit", "grow"}
    BY <2>1
  <2> QED BY <2>2, <2>3, CallData
<1>3. CASE munmap(t, p)
  <2>1. th[t].pc = "user" /\ Call(t, p, "unmap file")
        /\ UNCHANGED <<mem, file, swap, pte, sp, table, expect, late>>
    BY <1>3 DEF munmap, MayCall, Running, machine, history
  <2> QED BY <2>1, CallData
<1> QED BY <1>1, <1>2, <1>3

(* Exit. *)
LEMMA ExitData ==
    ASSUME TypeOK, Sound, Data, NEW t \in Process, Exit(t)
    PROVE  Data'
<1>1. /\ th[t].pc = "user" /\ Die(t)
      /\ UNCHANGED <<mem, file, swap, pte, sp, table, expect, late>>
  BY DEF Exit, Running, machine, history
<1> QED BY <1>1, AtUser, DieData

(* Without a frame the process dies, or the kernel stops. *)
LEMMA NoFrameData ==
    ASSUME TypeOK, Sound, Data, NEW t \in Process,
           th[t].pc \in {"evict", "write out", "get frame"}, NoFrame(t),
           UNCHANGED <<mem, file, swap, pte, sp, table, expect, late>>
    PROVE  Alive' => Data'
<1>1. CASE th[t].back = "unmap"
  BY <1>1 DEF NoFrame, Alive
<1>2. CASE th[t].back # "unmap"
  <2>1. Phase(t) = th[t].back /\ th[t].back \in Backs
    BY DEF Phase, Evicting, Sound, ThreadInv
  <2>2. Phase(t) \notin Giving
    BY <1>2, <2>1 DEF Backs, Giving, Unmapping, Disposing
  <2>3. Die(t)
    BY <1>2 DEF NoFrame
  <2> QED BY <2>2, <2>3, DieData
<1> QED BY <1>1, <1>2

(* A process turns to evict_page. *)
LEMMA EvictData ==
    ASSUME TypeOK, Sound, Data, NEW t \in Process, NEW to, Evict(t, to),
           \/ th[t].pc = "restore" /\ to = "restored frame"
           \/ th[t].pc = "load" /\ to = "fill"
           \/ th[t].pc = "grow" /\ to = "set page"
           \/ th[t].pc = "unregister" /\ to = "unmap",
           UNCHANGED <<mem, file, swap, pte, sp, table, expect, late>>
    PROVE  Data'
<1>1. to \in Points
  BY DEF Points
<1>2. /\ Moves(t) /\ th'[t].pc = "evict" /\ th'[t].back = to /\ th'[t].arg = th[t].arg
      /\ th'[t].after = th[t].after
  BY <1>1, EvictStep
<1>3. Phase(t) = th[t].pc /\ Phase(t)' = to /\ ThreadData(t)
  BY <1>2 DEF Phase, Evicting, Data
<1>4. Idle(t)
  <2>1. Phase(t) \in Giving => th'[t].arg = th[t].arg /\ Phase(t)' \in Giving
    BY <1>2, <1>3 DEF Giving, Unmapping, Disposing
  <2>2. Leaving(t) => Leaving(t)'
    BY <1>2 DEF Leaving
  <2> QED BY <1>2, <2>1, <2>2, SameFields DEF Idle
<1>5. ThreadData(t)'
  BY <1>2, <1>3 DEF ThreadData, Disposing
<1> QED BY <1>2, <1>4, <1>5, IdleStep, OutsideData DEF Inside

(* A page is listed, and then says that it is in RAM. *)
LEMMA RegisterData ==
    ASSUME TypeOK, Sound, Data, NEW t \in Process, register_suppl_page(t)
    PROVE  Data'
<1>1. /\ th[t].pc = "register" /\ Goto(t, th[t].after)
      /\ UNCHANGED <<mem, file, swap, pte, sp, table, expect, late>>
  BY DEF register_suppl_page, Running, machine, history
<1>2. th[t].after \in {"user", "loaded"} /\ Phase(t) = "register"
  BY <1>1, Known DEF Evicting, PhaseInv, Phase
<1>3. Moves(t) /\ th'[t].pc = th[t].after /\ th'[t].after = th[t].after
  BY <1>1, <1>2, GotoStep DEF Points
<1>4. ~Leaving(t) /\ ~Leaving(t)' /\ Phase(t)' \in {"user", "loaded"}
  BY <1>1, <1>2, <1>3 DEF Leaving, Phase, Evicting
<1>5. Idle(t)
  BY <1>1, <1>2, <1>3, <1>4, SameFields DEF Idle, Giving, Unmapping, Disposing
<1>6. ThreadData(t)' /\ VictimData(t)'
  BY <1>2, <1>3, <1>4, OutsideData DEF ThreadData, Disposing, Inside
<1> QED BY <1>5, <1>6, IdleStep

(* The location is not where the contents are looked for. *)
LEMMA LoadedData ==
    ASSUME TypeOK, Sound, Data, NEW t \in Process, Loaded(t)
    PROVE  Data'
<1>1. /\ th[t].pc = "loaded" /\ Goto(t, "user")
      /\ sp' = [sp EXCEPT ![th[t].arg].location = "ram"]
      /\ UNCHANGED <<mem, file, swap, pte, table, expect, late>>
  BY DEF Loaded, Running, machine, history
<1>2. Moves(t) /\ th'[t].pc = "user" /\ th'[t].after = th[t].after
  BY <1>1, GotoStep DEF Points
<1>3. ~Leaving(t) /\ Phase(t) = "loaded"
  BY <1>1 DEF Data, ThreadData, Phase, Evicting
<1>4. ~Leaving(t)' /\ Phase(t)' = "user"
  BY <1>2, <1>3 DEF Leaving, Phase, Evicting
<1>5. \A q \in Page :
        /\ sp'[q].kaddr = sp[q].kaddr /\ sp'[q].saddr = sp[q].saddr
        /\ sp'[q].dirty = sp[q].dirty /\ sp'[q].mapping = sp[q].mapping
  BY <1>1, ZenonT(30) DEF TypeOK, PageRec
<1>6. Idle(t)
  BY <1>1, <1>2, <1>3, <1>4, <1>5 DEF Idle, Writable, Giving, Unmapping, Disposing
<1>7. ThreadData(t)' /\ VictimData(t)'
  BY <1>2, <1>4, OutsideData DEF ThreadData, Disposing, Inside
<1> QED BY <1>6, <1>7, IdleStep

(* munmap looks at the dirty bit, which is remembered. *)
LEMMA LoadToFileData ==
    ASSUME TypeOK, Sound, Data, NEW t \in Process, LoadToFile(t)
    PROVE  Data'
<1>0. PICK p : p = th[t].arg
  OBVIOUS
<1>1. /\ th[t].pc = "unmap file"
      /\ sp' = [sp EXCEPT ![p].dirty = suppl_page_dirty(p)]
      /\ th' = IF suppl_page_dirty(p)
                 THEN [th EXCEPT ![t].pc = "unregister", ![t].kpage = sp[p].kaddr]
                 ELSE [th EXCEPT ![t].pc = "dispose"]
      /\ UNCHANGED <<mem, file, swap, pte, table, expect, late>>
  BY <1>0 DEF LoadToFile, Running, machine, history
<1>2. PhaseInv(t, "unmap file", p, th[t].after) /\ p \in Page
  BY <1>0, <1>1, Known DEF Evicting, Busy, Unmapping
<1>3. Kind[p] = "mmap" /\ Phase(t) = "unmap file"
  BY <1>1, <1>2 DEF PhaseInv, Unmapping, Phase, Evicting
<1>4. suppl_page_dirty(p) \in BOOLEAN /\ (sp[p].dirty => suppl_page_dirty(p))
  BY DEF suppl_page_dirty
<1>5. /\ \A q \in Page :
           /\ sp'[q].kaddr = sp[q].kaddr /\ sp'[q].saddr = sp[q].saddr
           /\ sp'[q].mapping = sp[q].mapping
      /\ \A q \in Page \ {p} : sp'[q].dirty = sp[q].dirty
      /\ sp'[p].dirty = suppl_page_dirty(p)
  BY <1>1, <1>2, ZenonT(30) DEF TypeOK, PageRec
<1>6. /\ Moves(t) /\ th'[t].arg = p /\ th'[t].after = th[t].after
      /\ \/ th'[t].pc = "unregister" /\ sp'[p].dirty
         \/ th'[t].pc = "dispose"
  <2>1. CASE suppl_page_dirty(p)
    <3>1. PICK x : x = [th[t] EXCEPT !.pc = "unregister", !.kpage = sp[p].kaddr]
      OBVIOUS
    <3>2. th[t] \in ThreadRec /\ "unregister" \in Points /\ sp[p].kaddr \in Frame \cup {None}
      BY <1>2 DEF TypeOK, Points, PageRec
    <3>3. /\ x \in ThreadRec /\ x.pc = "unregister"
          /\ x.arg = th[t].arg /\ x.after = th[t].after
      BY <3>1, <3>2 DEF ThreadRec
    <3>4. th' = [th EXCEPT ![t] = x]
      BY <1>1, <2>1, <3>1 DEF TypeOK, ThreadRec
    <3> QED BY <1>0, <1>5, <2>1, <3>3, <3>4 DEF TypeOK, Moves
  <2>2. CASE ~suppl_page_dirty(p)
    <3>1. Goto(t, "dispose")
      BY <1>1, <2>2 DEF Goto
    <3> QED BY <1>0, <3>1, GotoStep DEF Points
  <2> QED BY <2>1, <2>2
<1>7. Phase(t)' = th'[t].pc /\ Phase(t)' \in Giving
  BY <1>6 DEF Phase, Evicting, Giving, Unmapping, Disposing
<1>8. Idle(t)
  <2>1. \A q \in Page : (sp[q].dirty => sp'[q].dirty) /\ (Writable(q)' => Writable(q))
    BY <1>4, <1>5 DEF Writable
  <2>2. Leaving(t) => Leaving(t)'
    BY <1>1, <1>6 DEF Leaving
  <2> QED BY <1>0, <1>1, <1>5, <1>6, <1>7, <2>1, <2>2 DEF Idle
<1>9. ThreadData(t)' /\ VictimData(t)'
  BY <1>3, <1>6, <1>7, OutsideData DEF ThreadData, Disposing, Inside
<1> QED BY <1>8, <1>9, IdleStep

(* Clearing a mapping and freeing the pool: no page becomes writable. *)
LEMMA DisposeMappingData ==
    ASSUME TypeOK, Sound, Data, NEW t \in Process, DisposeMapping(t)
    PROVE  Data'
<1>1. PICK p \in Used(t) :
        \/ /\ Kind[p] = "mmap"
           /\ th' = [th EXCEPT ![t].pc = "unmap file", ![t].arg = p, ![t].after = "exit"]
           /\ UNCHANGED sp
        \/ /\ Segment(p) /\ sp[p].mapping = "valid"
           /\ sp' = [sp EXCEPT ![p].mapping = "cleared"]
           /\ UNCHANGED th
  BY DEF DisposeMapping
<1>2. /\ th[t].pc = "exit" /\ UNCHANGED <<mem, file, swap, pte, table, expect, late>>
  BY DEF DisposeMapping, Running, machine, history
<1>3. p \in Page
  BY DEF Used, Mine, TypeOK
<1>4. Phase(t) = "exit" /\ Phase(t) \notin Giving
  BY <1>2 DEF Phase, Evicting, Giving, Unmapping, Disposing
<1>5. CASE UNCHANGED sp /\
             th' = [th EXCEPT ![t].pc = "unmap file", ![t].arg = p, ![t].after = "exit"]
  <2>1. PICK x : x = [th[t] EXCEPT !.pc = "unmap file", !.arg = p, !.after = "exit"]
    OBVIOUS
  <2>2. th[t] \in ThreadRec /\ "unmap file" \in Points /\ "exit" \in Points
    BY DEF TypeOK, Points
  <2>3. x \in ThreadRec /\ x.pc = "unmap file" /\ x.after = "exit"
    BY <1>3, <2>1, <2>2 DEF ThreadRec
  <2>4. th' = [th EXCEPT ![t] = x]
    BY <1>5, <2>1 DEF TypeOK, ThreadRec
  <2>5. Moves(t) /\ th'[t].pc = "unmap file" /\ th'[t].after = "exit"
    BY <2>3, <2>4 DEF TypeOK, Moves
  <2>6. Leaving(t)' /\ Phase(t)' = "unmap file"
    BY <2>5 DEF Leaving, Phase, Evicting
  <2>7. Idle(t)
    BY <1>2, <1>4, <1>5, <2>5, <2>6, SameFields DEF Idle
  <2>8. ThreadData(t)' /\ VictimData(t)'
    BY <2>5, <2>6, PlainData, OutsideData DEF Disposing, Inside
  <2> QED BY <2>7, <2>8, IdleStep
<1>6. CASE UNCHANGED th /\ sp' = [sp EXCEPT ![p].mapping = "cleared"]
  <2>1. \A q \in Page :
          /\ sp'[q].kaddr = sp[q].kaddr /\ sp'[q].saddr = sp[q].saddr
          /\ sp'[q].dirty = sp[q].dirty
          /\ sp'[q].mapping = sp[q].mapping \/ sp'[q].mapping = "cleared"
    BY <1>3, <1>6, ZenonT(30) DEF TypeOK, PageRec
  <2>2. \A q \in Page : (sp[q].dirty => sp'[q].dirty) /\ (Writable(q)' => Writable(q))
    BY <2>1 DEF Writable
  <2>3. Moves(t) /\ Phase(t)' = "exit" /\ (Leaving(t) => Leaving(t)')
    BY <1>2, <1>6 DEF Moves, TypeOK, Phase, Evicting, Leaving
  <2>4. Idle(t)
    BY <1>2, <1>4, <2>1, <2>2, <2>3 DEF Idle
  <2>5. ThreadData(t)' /\ VictimData(t)'
    BY <1>2, <1>6, <2>3, PlainData, OutsideData DEF Disposing, Inside
  <2> QED BY <2>4, <2>5, IdleStep
<1> QED BY <1>1, <1>5, <1>6

(* The pool is freed. *)
LEMMA FreePoolData ==
    ASSUME TypeOK, Sound, Data, NEW t \in Process, FreePool(t)
    PROVE  Data'
<1>1. /\ th[t].pc = "exit" /\ Goto(t, "delete")
      /\ sp' = [p \in Page |->
                  IF p \in Used(t) THEN [sp[p] EXCEPT !.mapping = "dangling"] ELSE sp[p]]
      /\ UNCHANGED <<mem, file, swap, pte, table, expect, late>>
  BY DEF FreePool, Running, machine, history
<1>2. Moves(t) /\ th'[t].pc = "delete"
  BY <1>1, GotoStep DEF Points
<1>3. Leaving(t)' /\ Phase(t)' = "delete" /\ Phase(t) \notin Giving
  BY <1>1, <1>2 DEF Leaving, Phase, Evicting, Giving, Unmapping, Disposing
<1>4. \A q \in Page :
        /\ sp'[q].kaddr = sp[q].kaddr /\ sp'[q].saddr = sp[q].saddr
        /\ sp'[q].dirty = sp[q].dirty
        /\ sp'[q].mapping = sp[q].mapping \/ sp'[q].mapping = "dangling"
  BY <1>1, ZenonT(30) DEF TypeOK, PageRec
<1>5. \A q \in Page : (sp[q].dirty => sp'[q].dirty) /\ (Writable(q)' => Writable(q))
  BY <1>4 DEF Writable
<1>6. Idle(t)
  BY <1>1, <1>2, <1>3, <1>4, <1>5 DEF Idle
<1>7. ThreadData(t)' /\ VictimData(t)'
  BY <1>2, <1>3, PlainData, OutsideData DEF Disposing, Inside
<1> QED BY <1>6, <1>7, IdleStep

(* suppl_pt_delete turns to the next page, or is done. *)
LEMMA DeleteData ==
    ASSUME TypeOK, Sound, Data, NEW t \in Process, suppl_pt_delete(t)
    PROVE  Data'
<1>1. th[t].pc = "delete" /\ UNCHANGED <<mem, file, swap, pte, sp, table, expect, late>>
  BY DEF suppl_pt_delete, Running, machine, history
<1>2. Phase(t) \notin Giving
  BY <1>1 DEF Phase, Evicting, Giving, Unmapping, Disposing
<1>3. ASSUME Moves(t), Leaving(t)', ThreadData(t)', th'[t].pc \notin Inside PROVE Data'
  <2>1. Idle(t)
    BY <1>1, <1>2, <1>3, SameFields DEF Idle
  <2> QED BY <1>3, <2>1, OutsideData, IdleStep
<1>4. ASSUME NEW p \in Mine(t),
             th' = [th EXCEPT ![t].pc = "dispose", ![t].arg = p, ![t].after = "delete"]
      PROVE  Data'
  <2>0. p \in Page
    BY DEF Mine, TypeOK
  <2>1. PICK x : x = [th[t] EXCEPT !.pc = "dispose", !.arg = p, !.after = "delete"]
    OBVIOUS
  <2>2. th[t] \in ThreadRec /\ "dispose" \in Points /\ "delete" \in Points
    BY DEF TypeOK, Points
  <2>3. x \in ThreadRec /\ x.pc = "dispose" /\ x.after = "delete"
    BY <2>0, <2>1, <2>2 DEF ThreadRec
  <2>4. th' = [th EXCEPT ![t] = x]
    BY <1>4, <2>1 DEF TypeOK, ThreadRec
  <2>5. Moves(t) /\ th'[t].pc = "dispose" /\ th'[t].after = "delete"
    BY <2>3, <2>4 DEF TypeOK, Moves
  <2>6. Leaving(t)' /\ ThreadData(t)'
    BY <2>5 DEF Leaving, ThreadData, Phase, Evicting
  <2> QED BY <1>3, <2>5, <2>6 DEF Inside
<1>5. CASE Goto(t, "dead")
  <2>1. Moves(t) /\ th'[t].pc = "dead"
    BY <1>5, GotoStep DEF Points
  <2>2. Leaving(t)' /\ Phase(t)' = "dead"
    BY <2>1 DEF Leaving, Phase, Evicting
  <2> QED BY <1>3, <2>1, <2>2, PlainData DEF Disposing, Inside
<1> QED BY <1>4, <1>5 DEF suppl_pt_delete

(* undo_suppl_page_registration on the way to the file. *)
LEMMA UnregisterData ==
    ASSUME TypeOK, Sound, Data, NEW t \in Process, Unregister(t)
    PROVE  Data'
<1>1. /\ th[t].pc = "unregister"
      /\ IF th[t].kpage = None THEN Evict(t, "unmap") ELSE Goto(t, "write back")
      /\ UNCHANGED <<mem, file, swap, pte, sp, table, expect, late>>
  BY DEF Unregister, Running, machine, history
<1>2. CASE Evict(t, "unmap")
  BY <1>1, <1>2, EvictData
<1>3. CASE Goto(t, "write back")
  <2>1. /\ Moves(t) /\ th'[t].pc = "write back" /\ th'[t].arg = th[t].arg
        /\ th'[t].after = th[t].after
    BY <1>3, GotoStep DEF Points
  <2>2. Phase(t)' = "write back" /\ (Leaving(t) => Leaving(t)')
    BY <1>1, <2>1 DEF Phase, Evicting, Leaving
  <2>3. Idle(t)
    BY <1>1, <2>1, <2>2, SameFields DEF Idle, Giving, Unmapping
  <2>4. ThreadData(t)' /\ VictimData(t)'
    BY <2>1, <2>2, PlainData, OutsideData DEF Disposing, Inside
  <2> QED BY <2>3, <2>4, IdleStep
<1> QED BY <1>1, <1>2, <1>3

(* The scans: a page found clean is what its file is. *)
LEMMA ScanData ==
    ASSUME TypeOK, Sound, Data, NEW t \in Process, Scan(t)
    PROVE  Alive' => Data'
<1>1. /\ th[t].pc = "evict" /\ LockFree
      /\ UNCHANGED <<mem, file, swap, pte, table, expect, late>>
  BY DEF Scan, Running, machine, history
<1>2. CASE NoFrame(t) /\ UNCHANGED sp
  BY <1>1, <1>2, NoFrameData
<1>3. CASE page_list # <<>>
  <2>1. PICK p \in Victims :
          /\ th' = [th EXCEPT ![t].pc = "write out", ![t].victim = p,
                              ![t].modified = suppl_page_dirty(p)]
          /\ sp' = [sp EXCEPT ![p].dirty = suppl_page_dirty(p)]
    BY <1>3 DEF Scan
  <2>2. p \in Page /\ p \in table /\ sp[p].kaddr # None
    BY <1>1, <1>3, VictimListed
  <2>3. suppl_page_dirty(p) \in BOOLEAN /\ (sp[p].dirty => suppl_page_dirty(p))
    BY DEF suppl_page_dirty
  <2>4. /\ Moves(t) /\ th'[t].pc = "write out" /\ th'[t].victim = p
        /\ th'[t].modified = suppl_page_dirty(p)
        /\ th'[t].arg = th[t].arg /\ th'[t].back = th[t].back /\ th'[t].after = th[t].after
    <3>1. PICK x : x = [th[t] EXCEPT !.pc = "write out", !.victim = p,
                                     !.modified = suppl_page_dirty(p)]
      OBVIOUS
    <3>2. th[t] \in ThreadRec /\ "write out" \in Points
      BY DEF TypeOK, Points
    <3>3. /\ x \in ThreadRec /\ x.pc = "write out" /\ x.victim = p
          /\ x.modified = suppl_page_dirty(p)
          /\ x.arg = th[t].arg /\ x.back = th[t].back /\ x.after = th[t].after
      BY <2>2, <2>3, <3>1, <3>2 DEF ThreadRec
    <3>4. th' = [th EXCEPT ![t] = x]
      BY <2>1, <3>1 DEF TypeOK, ThreadRec
    <3> QED BY <3>3, <3>4 DEF TypeOK, Moves
  <2>5. /\ \A q \in Page :
             /\ sp'[q].kaddr = sp[q].kaddr /\ sp'[q].saddr = sp[q].saddr
             /\ sp'[q].mapping = sp[q].mapping
        /\ \A q \in Page \ {p} : sp'[q].dirty = sp[q].dirty
        /\ sp'[p].dirty = suppl_page_dirty(p)
    BY <2>1, <2>2, ZenonT(30) DEF TypeOK, PageRec
  <2>6. \A q \in Page : (sp[q].dirty => sp'[q].dirty) /\ (Writable(q)' => Writable(q))
    BY <2>3, <2>5 DEF Writable
  <2>7. Phase(t)' = Phase(t) /\ (Leaving(t) => Leaving(t)')
    BY <1>1, <2>4 DEF Phase, Evicting, Leaving
  <2>8. Idle(t)
    BY <1>1, <2>4, <2>5, <2>6, <2>7 DEF Idle
  <2>9. ThreadData(t)'
    <3>1. ThreadData(t) /\ ThreadInv(t)
      BY DEF Data, Sound
    <3>2. Phase(t) \in {"unregister", "unmap"} => th[t].arg \in Page
      BY <3>1 DEF ThreadInv, PhaseInv, Busy, Unmapping
    <3>3. Phase(t) \in {"unregister", "unmap"} => sp'[th[t].arg].dirty
      BY <2>6, <3>1, <3>2 DEF ThreadData
    <3> QED BY <2>4, <2>7, <3>1, <3>3 DEF ThreadData
  <2>10. VictimData(t)'
    <3>1. ~suppl_page_dirty(p) => mem[sp[p].kaddr] = file[p]
      BY <2>2 DEF Data, PageData
    <3> QED BY <1>1, <2>2, <2>4, <2>5, <3>1 DEF VictimData
  <2> QED BY <2>8, <2>9, <2>10, IdleStep
<1> QED BY <1>2, <1>3 DEF Scan

-----------------------------------------------------------------------------
(* Steps that move contents *)

(* A frame has one hand, so whoever writes it changes one page. *)
LEMMA Hands ==
    ASSUME Sound, NEW f \in Frame
    PROVE  /\ f \in free => /\ \A q \in Page : sp[q].kaddr # f
                            /\ \A u \in Process : th[u].pc \in Holding => th[u].kpage # f
           /\ \A u \in Process : th[u].pc \in Holding /\ th[u].kpage = f =>
                 /\ \A q \in Page : sp[q].kaddr # f
                 /\ \A v \in Process : th[v].pc \in Holding /\ th[v].kpage = f => v = u
           /\ \A p \in Page : sp[p].kaddr = f =>
                 /\ \A q \in Page : sp[q].kaddr = f => q = p
                 /\ \A u \in Process : th[u].pc \in Holding => th[u].kpage # f
<1>1. OneHand(f)
  BY DEF Sound, FrameInv
<1>2. \A u \in Process : th[u].pc \in Holding /\ th[u].kpage = f => ProcHas(u, f)
  BY DEF Sound, ThreadInv, ProcHas
<1> QED BY <1>1, <1>2 DEF OneHand, PageHas

(* What a process holds is a frame. *)
LEMMA HeldFrame ==
    ASSUME TypeOK, Sound
    PROVE  \A u \in Process : th[u].pc \in Holding => th[u].kpage \in Frame
BY DEF TypeOK, ThreadRec, Sound, ThreadInv

(* A page is given up until it leaves the table. *)
LEMMA StillForsaken ==
    ASSUME NEW t \in Process, Moves(t), NEW p \in Page, Forsaken(p),
           Phase(t) \in Giving => th'[t].arg = th[t].arg /\ Phase(t)' \in Giving
    PROVE  Forsaken(p)'
<1>1. \A u \in Process \ {t} : th'[u] = th[u] /\ Phase(u)' = Phase(u)
  BY DEF Moves, Phase
<1> QED BY <1>1, Marks DEF Forsaken

(* palloc_get_page zeroes a frame that nobody has. *)
LEMMA PallocData ==
    ASSUME TypeOK, Sound, Data, NEW t \in Process, NEW to, Palloc(t, to),
           UNCHANGED <<file, swap, pte, sp, table, expect, late>>,
           \/ th[t].pc = "load" /\ to = "fill"
           \/ th[t].pc = "grow" /\ to = "set page"
           \/ th[t].pc = "get frame" /\ to = th[t].back
    PROVE  Data'
<1>1. PICK f : f = Least(free)
  OBVIOUS
<1>2. f \in Frame /\ f \in free
  BY <1>1, LeastIn, Marks DEF Palloc, TypeOK
<1>3. /\ th' = [th EXCEPT ![t].kpage = f, ![t].pc = to] /\ mem' = [mem EXCEPT ![f] = Zero]
  BY <1>1 DEF Palloc
<1>4. ThreadInv(t) /\ ThreadData(t)
  BY DEF Sound, Data
<1>5. to \in Backs /\ to \in Points
  BY <1>4 DEF ThreadInv, Evicting, Backs, Points
<1>6. /\ Moves(t) /\ th'[t].pc = to /\ th'[t].kpage = f /\ th'[t].arg = th[t].arg
      /\ th'[t].after = th[t].after
  <2>1. PICK x : x = [th[t] EXCEPT !.kpage = f, !.pc = to]
    OBVIOUS
  <2>2. th[t] \in ThreadRec
    BY DEF TypeOK
  <2>3. /\ x \in ThreadRec /\ x.pc = to /\ x.kpage = f /\ x.arg = th[t].arg
        /\ x.after = th[t].after
    BY <1>2, <1>5, <2>1, <2>2 DEF ThreadRec
  <2>4. th' = [th EXCEPT ![t] = x]
    BY <1>3, <2>1 DEF TypeOK, ThreadRec
  <2> QED BY <2>3, <2>4 DEF TypeOK, Moves
<1>7. mem'[f] = Zero /\ \A g \in Frame : g # f => mem'[g] = mem[g]
  BY <1>2, <1>3 DEF TypeOK
<1>8. /\ Phase(t)' = to
      /\ \/ Phase(t) = to
         \/ Phase(t) = "load" /\ to = "fill"
         \/ Phase(t) = "grow" /\ to = "set page"
  BY <1>5, <1>6 DEF Phase, Evicting, Backs
<1>9. \A q \in Page : SameData(q)
  <2> TAKE q \in Page
  <2>1. sp[q].kaddr # None => mem'[sp[q].kaddr] = mem[sp[q].kaddr]
    BY <1>2, <1>7, Hands DEF TypeOK, PageRec
  <2> QED BY <2>1, SameFields DEF SameData
<1>10. \A u \in Process : th[u].pc \in Holding => mem'[th[u].kpage] = mem[th[u].kpage]
  BY <1>2, <1>7, Hands, HeldFrame
<1>11. \A u \in Process : th[u].pc \in Inside => th[u].victim # NoPage
  BY Marks DEF Sound, VictimInv
<1>12. /\ Phase(t) \in Giving => Phase(t)' \in Giving
       /\ Leaving(t) => Leaving(t)'
  BY <1>6, <1>8 DEF Leaving, Giving, Unmapping, Disposing
<1>13. DataChange(t, NoPage)
  BY <1>6, <1>9, <1>10, <1>11, <1>12 DEF DataChange
<1>14. ThreadData(t)'
  BY <1>4, <1>5, <1>6, <1>7, <1>8 DEF ThreadData, Backs, Disposing
<1>15. VictimData(t)'
  BY <1>5, <1>6, OutsideData DEF Inside, Backs
<1> QED BY <1>13, <1>14, <1>15, Marks, DataStep

(* Frames for a page that is brought in. *)
LEMMA FramesData ==
    ASSUME TypeOK, Sound, Data, NEW t \in Process,
           GetFrame(t) \/ LoadFrame(t) \/ AllocFrame(t)
    PROVE  Alive' => Data'
<1>1. CASE GetFrame(t)
  <2>1. th[t].pc = "get frame" /\ UNCHANGED <<file, swap, pte, sp, table, expect, late>>
    BY <1>1 DEF GetFrame, Running, history
  <2>2. CASE Palloc(t, th[t].back)
    BY <2>1, <2>2, PallocData
  <2>3. CASE NoFrame(t) /\ UNCHANGED mem
    BY <2>1, <2>3, NoFrameData
  <2> QED BY <1>1, <2>2, <2>3 DEF GetFrame
<1>2. CASE LoadFrame(t)
  <2>1. th[t].pc = "load" /\ UNCHANGED <<file, swap, pte, sp, table, expect, late>>
    BY <1>2 DEF LoadFrame, Running, history
  <2>2. CASE Palloc(t, "fill")
    BY <2>1, <2>2, PallocData
  <2>3. CASE Evict(t, "fill") /\ UNCHANGED mem
    BY <2>1, <2>3, EvictData
  <2> QED BY <1>2, <2>2, <2>3 DEF LoadFrame
<1>3. CASE AllocFrame(t)
  <2>1. th[t].pc = "grow" /\ UNCHANGED <<file, swap, pte, sp, table, expect, late>>
    BY <1>3 DEF AllocFrame, Running, history
  <2>2. CASE Palloc(t, "set page")
    BY <2>1, <2>2, PallocData
  <2>3. CASE Evict(t, "set page") /\ UNCHANGED mem
    BY <2>1, <2>3, EvictData
  <2> QED BY <1>3, <2>2, <2>3 DEF AllocFrame
<1> QED BY <1>1, <1>2, <1>3

(* A store changes the frame and what is expected, or comes late. *)
LEMMA WriteData ==
    ASSUME TypeOK, Sound, Data, NEW t \in Process, NEW p \in Page, NEW v \in Values,
           Write(t, p, v)
    PROVE  Data'
<1>1. PICK f : f = pte[p].frame
  OBVIOUS
<1>2. /\ th[t].pc = "user" /\ Owner[p] = t /\ f \in Frame /\ f # None
      /\ pte' = [pte EXCEPT ![p].dirty = TRUE]
      /\ mem' = [mem EXCEPT ![f] = v]
      /\ expect' = [expect EXCEPT ![p] = v]
      /\ late' = IF Copied(p) THEN late \cup {p} ELSE late
      /\ Call(t, NoPage, "user")
      /\ UNCHANGED <<file, swap, sp, table>>
  BY <1>1 DEF Write, MayCall, Running, TypeOK, PteRec
<1>3. Moves(t) /\ th'[t].pc = "user" /\ th'[t].after = "user"
  BY <1>2, CallStep DEF Points
<1>4. /\ mem'[f] = v /\ (\A g \in Frame : g # f => mem'[g] = mem[g])
      /\ expect'[p] = v /\ (\A q \in Page \ {p} : expect'[q] = expect[q])
  BY <1>2 DEF TypeOK
<1>5. /\ pte'[p].frame = f /\ pte'[p].dirty /\ \A q \in Page \ {p} : pte'[q] = pte[q]
  BY <1>1, <1>2, ZenonT(30) DEF TypeOK, PteRec
<1>6. ~Leaving(t) /\ Phase(t) \notin Giving
  BY <1>2, AtUser
<1>7. PageData(p) /\ PageInv(p) /\ Mapped(p)
  BY <1>1, <1>2 DEF Data, Sound, PageData
<1>8. \/ f = sp[p].kaddr
      \/ \E u \in Process : th[u].pc = "unmap victim" /\ th[u].victim = p /\ th[u].kpage = f
  BY <1>1, <1>7 DEF Mapped
<1>9. \A q \in Page \ {p} : sp[q].kaddr # f
  BY <1>2, <1>8, Hands DEF Holding
<1>10. \A u \in Process : th[u].pc \in Holding /\ th[u].kpage = f =>
         th[u].pc = "unmap victim" /\ th[u].victim = p
  BY <1>2, <1>8, Hands DEF Holding
<1>11. \A q \in Page \ {p} : SameData(q)
  <2> TAKE q \in Page \ {p}
  <2>1. q \in late' <=> q \in late
    BY <1>2
  <2>2. sp[q].kaddr # None => mem'[sp[q].kaddr] = mem[sp[q].kaddr]
    BY <1>4, <1>9 DEF TypeOK, PageRec
  <2>3. sp' = sp /\ file' = file /\ swap' = swap /\ table' = table
    BY <1>2
  <2>4. pte'[q] = pte[q] /\ expect'[q] = expect[q]
    BY <1>4, <1>5
  <2> QED BY <2>1, <2>2, <2>3, <2>4, SameFields DEF SameData
<1>12. \A u \in Process \ {t} : th[u].pc \in Inside /\ th[u].victim = p => VictimData(u)'
  <2> SUFFICES ASSUME NEW u \in Process \ {t}, th[u].pc \in Inside, th[u].victim = p,
                      p \notin late'
               PROVE  VictimData(u)'
    BY <1>3 DEF VictimData, Moves
  <2>1. ~Copied(p)
    BY <1>2
  <2>2. th'[u] = th[u] /\ th[u].pc = "write out" /\ (th[u].modified \/ ~Writable(p))
    BY <1>3, <2>1 DEF Copied, Inside, Moves
  <2>3. Writable(p)' = Writable(p)
    BY <1>2 DEF Writable
  <2> QED BY <2>2, <2>3 DEF VictimData
<1>13. DataChange(t, p)
  <2>1. \A u \in Process \ {t} : th[u].pc \in Holding =>
          \/ mem'[th[u].kpage] = mem[th[u].kpage]
          \/ th[u].pc = "unmap victim" /\ th[u].victim = p
    BY <1>4, <1>10, HeldFrame
  <2>2. \A q \in Page : sp[q].dirty => sp'[q].dirty
    BY <1>2
  <2> QED BY <1>2, <1>3, <1>6, <1>11, <1>12, <2>1, <2>2 DEF DataChange
<1>14. PageData(p)'
  <2>1. Mapped(p)'
    <3>1. sp' = sp /\ pte'[p].frame = pte[p].frame
      BY <1>1, <1>2, <1>5
    <3>2. \A u \in Process : th[u].pc = "unmap victim" => th'[u] = th[u]
      BY <1>2, <1>3 DEF Moves
    <3> QED BY <1>7, <3>1, <3>2 DEF Mapped
  <2>2. sp'[p].kaddr # None => suppl_page_dirty(p)'
    BY <1>5 DEF suppl_page_dirty
  <2>3. p \notin late' => sp'[p].kaddr # None /\ expect'[p] = mem'[sp'[p].kaddr]
    <3>1. SUFFICES ASSUME p \notin late' PROVE f = sp[p].kaddr
      BY <1>2, <1>4
    <3>2. ~Copied(p)
      BY <1>2, <3>1
    <3> QED BY <1>8, <3>2 DEF Copied
  <2>4. p \in table' \/ Kind[p] # "stack"
    BY <1>1, <1>2, <1>6, <1>7 DEF PageData
  <2> QED BY <2>1, <2>2, <2>3, <2>4 DEF PageData
<1>15. ThreadData(t)' /\ VictimData(t)'
  <2>1. Phase(t)' = "user" /\ ~Leaving(t)'
    BY <1>3 DEF Phase, Evicting, Leaving
  <2> QED BY <1>3, <2>1, OutsideData DEF ThreadData, Disposing, Inside
<1> QED BY <1>13, <1>14, <1>15, DataStep

(* A file is mapped, also where an eviction of an older page goes on. *)
LEMMA MmapData ==
    ASSUME TypeOK, Sound, Data, NEW t \in Process, NEW p \in Page, mmap(t, p)
    PROVE  Data'
<1>1. /\ th[t].pc = "user" /\ Owner[p] = t /\ Kind[p] = "mmap" /\ p \notin table
      /\ sp' = [q \in Page |->
                  IF q = p THEN [sp[q] EXCEPT !.mapping = "valid", !.location = "file",
                                              !.replaced = Copied(q)]
                  ELSE IF Grown(t) /\ q \in Used(t) THEN [sp[q] EXCEPT !.mapping = "dangling"]
                  ELSE sp[q]]
      /\ table' = table \cup {p} /\ expect' = [expect EXCEPT ![p] = file[p]]
      /\ Call(t, p, "user")
      /\ UNCHANGED <<mem, file, swap, pte, late>>
  BY DEF mmap, MayCall, Running, machine
<1>2. PageInv(p) /\ sp[p].kaddr = None /\ sp[p].saddr = None /\ PageData(p)
  BY <1>1 DEF Sound, PageInv, Data
<1>3. Moves(t) /\ th'[t].pc = "user" /\ th'[t].after = "user"
  BY <1>1, CallStep DEF Points
<1>4. sp'[p].kaddr = None /\ sp'[p].saddr = None
  <2>1. PICK x : x = [sp[p] EXCEPT !.mapping = "valid", !.location = "file",
                                   !.replaced = Copied(p)]
    OBVIOUS
  <2>2. sp[p] \in PageRec /\ sp'[p] = x
    BY <1>1, <2>1 DEF TypeOK
  <2> QED BY <1>2, <2>1, <2>2 DEF PageRec
<1>5. \A q \in Page \ {p} :
        /\ sp'[q].kaddr = sp[q].kaddr /\ sp'[q].saddr = sp[q].saddr
        /\ sp'[q].dirty = sp[q].dirty
        /\ sp'[q].mapping = sp[q].mapping \/ sp'[q].mapping = "dangling"
  <2> TAKE q \in Page \ {p}
  <2>1. sp[q] \in PageRec
    BY DEF TypeOK
  <2>2. sp'[q] = sp[q] \/ sp'[q] = [sp[q] EXCEPT !.mapping = "dangling"]
    BY <1>1
  <2> QED BY <2>1, <2>2 DEF PageRec
<1>6. ~Leaving(t) /\ Phase(t) \notin Giving
  BY <1>1, AtUser
<1>7. expect'[p] = file[p] /\ \A q \in Page \ {p} : expect'[q] = expect[q]
  BY <1>1 DEF TypeOK
<1>8. \A q \in Page \ {p} : SameData(q)
  <2> TAKE q \in Page \ {p}
  <2>1. Writable(q)' => Writable(q)
    BY <1>5 DEF Writable
  <2> QED BY <1>1, <1>5, <1>7, <2>1 DEF SameData
<1>9. \A u \in Process \ {t} : th[u].pc \in Inside /\ th[u].victim = p => VictimData(u)'
  <2> SUFFICES ASSUME NEW u \in Process \ {t}, th[u].pc \in Inside, th[u].victim = p
               PROVE  VictimData(u)'
    OBVIOUS
  <2>1. th'[u] = th[u] /\ th[u].pc = "unmap victim"
    BY <1>1, <1>3 DEF Moves, Sound, VictimInv, Inside
  <2>2. p \notin late => mem[th[u].kpage] = file[p]
    <3>1. VictimData(u)
      BY DEF Data
    <3> QED BY <1>1, <1>2, <2>1, <3>1 DEF VictimData, Copy
  <2> QED BY <1>1, <1>4, <2>1, <2>2 DEF VictimData, Copy
<1>10. DataChange(t, p)
  <2>1. \A q \in Page : Owner[q] # t /\ sp[q].dirty => sp'[q].dirty
    BY <1>1, <1>5
  <2>2. \A u \in Process : mem'[th[u].kpage] = mem[th[u].kpage]
    BY <1>1
  <2> QED BY <1>1, <1>3, <1>6, <1>8, <1>9, <2>1, <2>2 DEF DataChange
<1>11. PageData(p)'
  <2>1. pte'[p].frame # None => Mapped(p)'
    <3>1. \A u \in Process : th[u].pc = "unmap victim" => th'[u] = th[u]
      BY <1>1, <1>3 DEF Moves
    <3> QED BY <1>1, <1>2, <1>4, <3>1 DEF PageData, Mapped
  <2>2. Copy(p)' = file[p]
    BY <1>1, <1>4 DEF Copy
  <2> QED BY <1>1, <1>4, <1>7, <2>1, <2>2 DEF PageData
<1>12. ThreadData(t)' /\ VictimData(t)'
  <2>1. Phase(t)' = "user" /\ ~Leaving(t)'
    BY <1>3 DEF Phase, Evicting, Leaving
  <2> QED BY <1>3, <2>1, OutsideData DEF ThreadData, Disposing, Inside
<1> QED BY <1>10, <1>11, <1>12, DataStep

(* A page that got a frame is all that such a step changes. *)
LEMMA GivenData ==
    ASSUME TypeOK, Sound, Data, NEW t \in Process, NEW p \in Page, NEW f \in Frame,
           Given(t, p, f), \A g \in Frame \ {f} : mem'[g] = mem[g],
           UNCHANGED <<file, swap, expect, late>>, Leaving(t) => Leaving(t)', PageData(p)'
    PROVE  Data'
<1>1. /\ p = th[t].arg /\ Owner[p] = t /\ LockFree /\ Moves(t) /\ th'[t].pc \in Transit
      /\ \A q \in Page \ {p} :
            sp'[q] = sp[q] /\ pte'[q] = pte[q] /\ (q \in table' <=> q \in table)
  BY DEF Given
<1>2. \A u \in Process : th[u].pc \notin Inside
  BY <1>1, NobodyInside
<1>3. \/ f \in free
      \/ th[t].pc \in Holding /\ th[t].kpage = f
  BY DEF Given, Holding
<1>4. \A q \in Page : sp[q].kaddr # f
  BY <1>3, Hands
<1>5. \A u \in Process \ {t} : th[u].pc \in Holding => th[u].kpage # f
  BY <1>3, Hands
<1>6. \A q \in Page \ {p} : SameData(q)
  <2> TAKE q \in Page \ {p}
  <2>1. sp[q].kaddr # None => mem'[sp[q].kaddr] = mem[sp[q].kaddr]
    BY <1>4 DEF TypeOK, PageRec
  <2>2. Writable(q)' => Writable(q)
    BY <1>1 DEF Writable
  <2> QED BY <1>1, <2>1, <2>2 DEF SameData
<1>7. \A u \in Process \ {t} : th[u].pc \in Holding => mem'[th[u].kpage] = mem[th[u].kpage]
  BY <1>5, HeldFrame
<1>8. \A q \in Page : Owner[q] # t /\ sp[q].dirty => sp'[q].dirty
  BY <1>1
<1>9. DataChange(t, p)
  BY <1>1, <1>2, <1>6, <1>7, <1>8 DEF DataChange, Inside
<1>10. ThreadData(t)' /\ VictimData(t)'
  <2>1. Phase(t)' = th'[t].pc
    BY <1>1 DEF Phase, Evicting, Transit
  <2> QED BY <1>1, <2>1, PlainData, OutsideData DEF Transit, Disposing, Inside
<1> QED BY <1>9, <1>10, DataStep

(* The page comes back from its slot as it was written out. *)
LEMMA FromSwapData ==
    ASSUME TypeOK, Sound, Data, NEW t \in Process, NEW f \in Frame, FromSwap(t, f), LockFree,
           UNCHANGED <<file, swap, table, eviction_lock, page_list, page_elem, pool_size,
                       expect, late>>,
           \/ th[t].pc = "restore" /\ f \in free /\ free' = free \ {f}
           \/ th[t].pc = "restored frame" /\ f = th[t].kpage /\ free' = free
    PROVE  Data'
<1>1. PICK p : p = th[t].arg
  OBVIOUS
<1>2. Given(t, p, f)
  BY <1>1, FromSwapInv
<1>3. PhaseInv(t, th[t].pc, p, th[t].after) /\ p \in Page /\ Owner[p] = t
  BY <1>1, Known DEF Evicting, Busy, Entering, FromSwapping
<1>4. /\ p \in table /\ sp[p].kaddr = None /\ sp[p].location = "swap"
      /\ th[t].after = "user"
  BY <1>3 DEF PhaseInv, Busy, Growing, Entering, FromSwapping
<1>5. sp[p].saddr # None /\ PageData(p)
  BY <1>3, <1>4 DEF Sound, PageInv, Data
<1>6. /\ pte' = [pte EXCEPT ![p] = [frame |-> f, rw |-> TRUE, dirty |-> TRUE]]
      /\ mem' = [mem EXCEPT ![f] = swap[sp[p].saddr]]
  BY <1>1 DEF FromSwap
<1>7. /\ mem'[f] = swap[sp[p].saddr] /\ (\A g \in Frame \ {f} : mem'[g] = mem[g])
      /\ pte'[p].dirty
  BY <1>3, <1>6 DEF TypeOK
<1>8. ~Forsaken(p) /\ ~Leaving(t)
  BY <1>3, <1>4 DEF Forsaken, Leaving, Phase, Evicting, Giving, Unmapping, Disposing
<1>9. p \notin late => expect[p] = swap[sp[p].saddr]
  BY <1>4, <1>5, <1>8 DEF PageData, Copy
<1>10. /\ sp'[p].kaddr = f /\ pte'[p].frame = f /\ p \in table' /\ f # None
  BY <1>2, Marks DEF Given
<1>11. PageData(p)'
  BY <1>7, <1>9, <1>10 DEF PageData, Mapped, suppl_page_dirty
<1> QED BY <1>2, <1>3, <1>7, <1>8, <1>11, GivenData

(* restore_page_from_swap *)
LEMMA RestoreData ==
    ASSUME TypeOK, Sound, Data, NEW t \in Process, restore_page_from_swap(t)
    PROVE  Data'
<1>1. /\ LockFree
      /\ UNCHANGED <<file, swap, table, eviction_lock, page_list, page_elem, pool_size,
                     expect, late>>
  BY DEF restore_page_from_swap, evictor, history
<1>2. CASE /\ th[t].pc = "restore" /\ free # {}
           /\ FromSwap(t, Least(free)) /\ free' = free \ {Least(free)}
  <2>1. PICK f : f = Least(free)
    OBVIOUS
  <2>2. f \in free /\ f \in Frame
    BY <1>2, <2>1, LeastIn, Marks DEF TypeOK
  <2> QED BY <1>1, <1>2, <2>1, <2>2, FromSwapData
<1>3. CASE /\ th[t].pc = "restore" /\ Evict(t, "restored frame")
           /\ UNCHANGED <<free, mem, alloc_map, pte, sp>>
  BY <1>1, <1>3, EvictData
<1>4. CASE /\ th[t].pc = "restored frame" /\ FromSwap(t, th[t].kpage) /\ UNCHANGED free
  <2>1. PICK f : f = th[t].kpage
    OBVIOUS
  <2>2. f \in Frame
    BY <1>4, <2>1, HeldFrame DEF Holding, Backs
  <2> QED BY <1>1, <1>4, <2>1, <2>2, FromSwapData
<1> QED BY <1>2, <1>3, <1>4 DEF restore_page_from_swap, Running

(* A page is read from its file, where its contents are. *)
LEMMA FillData ==
    ASSUME TypeOK, Sound, Data, NEW t \in Process, Fill(t)
    PROVE  Data'
<1>1. PICK p, f : p = th[t].arg /\ f = th[t].kpage
  OBVIOUS
<1>2. /\ th[t].pc = "fill" /\ mem' = [mem EXCEPT ![f] = file[p]]
      /\ UNCHANGED <<file, swap, expect, late>>
  BY <1>1 DEF Fill, Running, history
<1>3. PhaseInv(t, "fill", p, th[t].after) /\ p \in Page /\ Owner[p] = t
  BY <1>1, <1>2, Known DEF Evicting, Busy, Entering, FromFile
<1>4. /\ p \in table /\ sp[p].kaddr = None /\ sp[p].location = "file"
      /\ th[t].after = "user"
  BY <1>3 DEF PhaseInv, Busy, Growing, Entering, FromFile
<1>5. f \in Frame /\ f # None
  BY <1>1, <1>2, HeldFrame, Marks DEF Holding, Backs
<1>6. Given(t, p, f)
  BY <1>1, FillInv
<1>7. mem'[f] = file[p] /\ \A g \in Frame \ {f} : mem'[g] = mem[g]
  BY <1>2, <1>5 DEF TypeOK
<1>8. ~Forsaken(p) /\ ~Leaving(t)
  BY <1>2, <1>3, <1>4 DEF Forsaken, Leaving, Phase, Evicting, Giving, Unmapping, Disposing
<1>9. p \notin late => expect[p] = file[p]
  <2>1. sp[p].saddr = None /\ PageData(p)
    BY <1>3, <1>4 DEF Sound, PageInv, Data
  <2> QED BY <1>4, <1>8, <2>1 DEF PageData, Copy
<1>10. /\ sp'[p].kaddr = f /\ pte'[p].frame = f /\ p \in table'
  BY <1>6 DEF Given
<1>11. PageData(p)'
  BY <1>2, <1>5, <1>7, <1>9, <1>10 DEF PageData, Mapped
<1> QED BY <1>2, <1>3, <1>5, <1>6, <1>7, <1>8, <1>11, GivenData

(* A new page of the stack is a frame of zeros. *)
LEMMA SetPageData ==
    ASSUME TypeOK, Sound, Data, NEW t \in Process, suppl_table_set_page(t)
    PROVE  Data'
<1>1. PICK p, f : p = th[t].arg /\ f = th[t].kpage
  OBVIOUS
<1>2. /\ th[t].pc = "set page" /\ UNCHANGED <<mem, file, swap, expect, late>>
      /\ pte' = [pte EXCEPT ![p] = [frame |-> f, rw |-> TRUE, dirty |-> TRUE]]
  BY <1>1 DEF suppl_table_set_page, Running, history
<1>3. PhaseInv(t, "set page", p, th[t].after) /\ p \in Page /\ Owner[p] = t
  BY <1>1, <1>2, Known DEF Evicting, Busy, Entering, Growing
<1>4. p \notin table /\ Kind[p] = "stack" /\ th[t].after = "user"
  BY <1>3 DEF PhaseInv, Growing, Entering
<1>5. f \in Frame /\ f # None
  BY <1>1, <1>2, HeldFrame, Marks DEF Holding, Backs
<1>6. Given(t, p, f)
  BY <1>1, SetPageInv
<1>7. pte'[p].dirty
  BY <1>2, <1>3 DEF TypeOK
<1>8. ~Leaving(t)
  BY <1>2, <1>4 DEF Leaving
<1>9. expect[p] = Zero /\ mem[f] = Zero
  <2>1. ThreadData(t) /\ PageData(p)
    BY <1>3 DEF Data
  <2> QED BY <1>1, <1>2, <1>3, <1>4, <1>8, <2>1 DEF ThreadData, PageData
<1>10. /\ sp'[p].kaddr = f /\ pte'[p].frame = f /\ p \in table'
  BY <1>6 DEF Given
<1>11. PageData(p)'
  BY <1>2, <1>5, <1>7, <1>9, <1>10 DEF PageData, Mapped, suppl_page_dirty
<1> QED BY <1>2, <1>3, <1>5, <1>6, <1>8, <1>11, GivenData

(* The frame that munmap gives a page holds what it held: the page is       *)
(* given up.                                                                *)
LEMMA SetKpageData ==
    ASSUME TypeOK, Sound, Data, NEW t \in Process, SetKpage(t)
    PROVE  Data'
<1>1. PICK p, f : p = th[t].arg /\ f = th[t].kpage
  OBVIOUS
<1>2. /\ th[t].pc = "unmap" /\ UNCHANGED <<mem, file, swap, expect, late>>
      /\ sp' = [sp EXCEPT ![p].kaddr = f] /\ Goto(t, "write back")
  BY <1>1 DEF SetKpage, Running, history
<1>3. PhaseInv(t, "unmap", p, th[t].after) /\ p \in Page /\ Owner[p] = t
  BY <1>1, <1>2, Known DEF Evicting, Busy, Unmapping
<1>4. f \in Frame /\ f # None
  BY <1>1, <1>2, HeldFrame, Marks DEF Holding, Backs
<1>5. Given(t, p, f)
  BY <1>1, SetKpageInv
<1>6. /\ Moves(t) /\ th'[t].pc = "write back" /\ th'[t].arg = p
      /\ th'[t].after = th[t].after
  BY <1>1, <1>2, GotoStep DEF Points
<1>7. sp'[p].dirty
  <2>1. Phase(t) = "unmap" /\ ThreadData(t)
    BY <1>2 DEF Phase, Evicting, Data
  <2>2. sp[p].dirty
    BY <1>1, <2>1 DEF ThreadData
  <2> QED BY <1>2, <1>3, <2>2, ZenonT(30) DEF TypeOK, PageRec
<1>8. Forsaken(p)'
  BY <1>3, <1>6 DEF Forsaken, Phase, Evicting, Giving, Unmapping
<1>9. Leaving(t) => Leaving(t)'
  BY <1>2, <1>6 DEF Leaving
<1>10. /\ sp'[p].kaddr = f /\ pte'[p].frame = f /\ p \in table'
  BY <1>5 DEF Given
<1>11. PageData(p)'
  BY <1>7, <1>8, <1>10 DEF PageData, Mapped, suppl_page_dirty
<1> QED BY <1>2, <1>3, <1>4, <1>5, <1>9, <1>11, GivenData

(* munmap writes the page back. *)
LEMMA WriteBackData ==
    ASSUME TypeOK, Sound, Data, NEW t \in Process, WriteBack(t)
    PROVE  Alive' => Data'
<1>1. CASE Stop("write from address 0")
  BY <1>1 DEF Stop, Alive
<1>2. CASE ~Stop("write from address 0")
  <2>1. PICK p : p = th[t].arg
    OBVIOUS
  <2>2. /\ th[t].pc = "write back" /\ LockFree /\ sp[p].kaddr # None
        /\ file' = [file EXCEPT ![p] = mem[sp[p].kaddr]]
        /\ th' = [th EXCEPT ![t].pc = "dispose", ![t].kpage = None]
        /\ UNCHANGED <<mem, swap, pte, sp, table, expect, late>>
    BY <1>2, <2>1 DEF WriteBack, Running, history
  <2>3. /\ PhaseInv(t, "write back", p, th[t].after) /\ p \in Page /\ Owner[p] = t
        /\ p \in table
    BY <2>1, <2>2, TransitOwner DEF Transit
  <2>4. Kind[p] = "mmap"
    BY <2>3 DEF PhaseInv, Unmapping
  <2>5. /\ Moves(t) /\ th'[t].pc = "dispose" /\ th'[t].arg = p
        /\ th'[t].after = th[t].after
    <3>1. PICK x : x = [th[t] EXCEPT !.pc = "dispose", !.kpage = None]
      OBVIOUS
    <3>2. th[t] \in ThreadRec /\ "dispose" \in Points
      BY DEF TypeOK, Points
    <3>3. /\ x \in ThreadRec /\ x.pc = "dispose" /\ x.arg = th[t].arg
          /\ x.after = th[t].after
      BY <3>1, <3>2 DEF ThreadRec
    <3>4. th' = [th EXCEPT ![t] = x]
      BY <2>2, <3>1 DEF TypeOK, ThreadRec
    <3> QED BY <2>1, <3>3, <3>4 DEF TypeOK, Moves
  <2>6. \A u \in Process : th[u].pc \notin Inside
    BY <2>2, NobodyInside
  <2>7. file'[p] = mem[sp[p].kaddr] /\ \A q \in Page \ {p} : file'[q] = file[q]
    BY <2>2, <2>3 DEF TypeOK
  <2>8. \A q \in Page \ {p} : SameData(q)
    BY <2>2, <2>7, SameFields DEF SameData
  <2>9. DataChange(t, p)
    <3>1. \A u \in Process : mem'[th[u].kpage] = mem[th[u].kpage]
      BY <2>2
    <3>2. Leaving(t) => Leaving(t)'
      BY <2>2, <2>5 DEF Leaving
    <3>3. \A q \in Page : sp[q].dirty => sp'[q].dirty
      BY <2>2
    <3> QED BY <2>1, <2>2, <2>5, <2>6, <2>8, <3>1, <3>2, <3>3 DEF DataChange
  <2>10. Phase(t)' = "dispose"
    BY <2>5 DEF Phase, Evicting
  <2>11. PageData(p)'
    <3>1. Forsaken(p)'
      BY <2>3, <2>5, <2>10 DEF Forsaken, Giving, Disposing
    <3>2. Mapped(p)'
      BY <2>2, <2>3 DEF Mapped, Sound, PageInv
    <3> QED BY <2>2, <2>3, <2>7, <3>1, <3>2 DEF PageData
  <2>12. ThreadData(t)' /\ VictimData(t)'
    BY <2>4, <2>5, <2>10, OutsideData DEF ThreadData, Inside
  <2> QED BY <2>9, <2>11, <2>12, DataStep
<1> QED BY <1>1, <1>2

(* The process inside eviction_lock changes nothing but its victim. *)
LEMMA EvictorData ==
    ASSUME TypeOK, Sound, Data, NEW t \in Process, NEW p \in Page, th[t].pc \in Inside,
           p = th[t].victim, Moves(t), th'[t].pc \in Evicting, th'[t].arg = th[t].arg,
           th'[t].back = th[t].back, th'[t].after = th[t].after,
           UNCHANGED mem, \A q \in Page \ {p} : SameData(q),
           sp[p].dirty => sp'[p].dirty, VictimData(t)', PageData(p)'
    PROVE  Data'
<1>1. Phase(t)' = Phase(t) /\ (Leaving(t) => Leaving(t)')
  BY DEF Phase, Leaving, Inside, Evicting
<1>2. \A u \in Process \ {t} : th[u].pc \notin Inside
  BY AloneInside
<1>3. \A q \in Page : sp[q].dirty => sp'[q].dirty
  BY DEF SameData
<1>4. DataChange(t, p)
  BY <1>1, <1>2, <1>3 DEF DataChange
<1>5. ThreadData(t)'
  <2>1. ThreadData(t) /\ ThreadInv(t)
    BY DEF Data, Sound
  <2>2. Phase(t) \in {"unregister", "unmap"} => th[t].arg \in Page
    BY <2>1 DEF ThreadInv, PhaseInv, Busy, Unmapping
  <2>3. Phase(t) \in {"unregister", "unmap"} => sp'[th[t].arg].dirty
    BY <1>3, <2>1, <2>2 DEF ThreadData
  <2> QED BY <1>1, <2>1, <2>3 DEF ThreadData, Evicting
<1> QED BY <1>4, <1>5, DataStep

(* The victim's contents are safe where the mapping sends them. *)
LEMMA WriteOutData ==
    ASSUME TypeOK, Sound, Data, NEW t \in Process, WriteOut(t)
    PROVE  Alive' => Data'
<1>1. PICK p, f : p = th[t].victim /\ f = sp[p].kaddr
  OBVIOUS
<1>2. /\ th[t].pc = "write out" /\ UNCHANGED <<mem, pte, table, expect, late>>
  BY <1>1 DEF WriteOut, Running, history
<1>3. /\ p \in Page /\ p \in table /\ f \in Frame /\ f # None /\ ~Detaching(p)
  BY <1>1, <1>2, AtVictim, Marks
<1>4. sp[p].saddr = None /\ pte[p].frame = f /\ PageData(p) /\ VictimData(t)
  BY <1>1, <1>3 DEF Sound, PageInv, Data
<1>5. ASSUME Goto(t, "detach"), \A q \in Page \ {p} : SameData(q),
             sp'[p].kaddr = f, sp'[p].dirty = sp[p].dirty,
             p \notin late => mem[f] = Copy(p)', ~suppl_page_dirty(p) => mem[f] = file'[p]
      PROVE  Data'
  <2>1. /\ Moves(t) /\ th'[t].pc = "detach" /\ th'[t].victim = p /\ th'[t].arg = th[t].arg
        /\ th'[t].back = th[t].back /\ th'[t].after = th[t].after
    BY <1>1, <1>5, GotoStep DEF Points
  <2>2. VictimData(t)'
    BY <1>2, <1>5, <2>1 DEF VictimData
  <2>3. Forsaken(p) => Forsaken(p)'
    <3>1. Phase(t)' = Phase(t)
      BY <1>2, <2>1 DEF Phase, Evicting
    <3> QED BY <1>3, <2>1, <3>1, StillForsaken
  <2>4. PageData(p)'
    <3>1. suppl_page_dirty(p) => suppl_page_dirty(p)'
      BY <1>1, <1>2, <1>5 DEF suppl_page_dirty
    <3>2. p \notin late /\ ~Forsaken(p) => expect[p] = mem[f]
      BY <1>1, <1>3, <1>4 DEF PageData
    <3> QED BY <1>2, <1>3, <1>4, <1>5, <2>3, <3>1, <3>2 DEF PageData, Mapped
  <2> QED BY <1>1, <1>2, <1>3, <1>5, <2>1, <2>2, <2>4, EvictorData DEF Inside, Evicting
<1>6. CASE /\ ToFile(t)
           /\ file' = IF th[t].modified THEN [file EXCEPT ![p] = mem[sp[p].kaddr]] ELSE file
           /\ sp' = [sp EXCEPT ![p].location = "file"] /\ Goto(t, "detach")
           /\ UNCHANGED swap
  <2>1. \A q \in Page :
          /\ sp'[q].kaddr = sp[q].kaddr /\ sp'[q].saddr = sp[q].saddr
          /\ sp'[q].dirty = sp[q].dirty /\ sp'[q].mapping = sp[q].mapping
    BY <1>6, ZenonT(30) DEF TypeOK, PageRec
  <2>2. \A q \in Page \ {p} : file'[q] = file[q]
    BY <1>3, <1>6 DEF TypeOK
  <2>3. \A q \in Page \ {p} : SameData(q)
    <3> TAKE q \in Page \ {p}
    <3>1. Writable(q)' => Writable(q)
      BY <2>1 DEF Writable
    <3> QED BY <1>2, <1>6, <2>1, <2>2, <3>1 DEF SameData
  <2>4. /\ p \notin late => mem[f] = file'[p]
        /\ ~suppl_page_dirty(p) => mem[f] = file'[p]
    <3>1. CASE th[t].modified
      <4>1. file'[p] = mem[f]
        BY <1>1, <1>3, <1>6, <3>1 DEF TypeOK
      <4> QED BY <4>1
    <3>2. CASE ~th[t].modified
      <4>1. file' = file /\ Writable(p)
        BY <1>1, <1>6, <3>2 DEF ToFile
      <4> QED BY <1>1, <1>2, <1>3, <1>4, <3>2, <4>1 DEF VictimData, PageData
    <3> QED BY <3>1, <3>2
  <2>5. Copy(p)' = file'[p]
    BY <1>3, <1>4, <2>1 DEF Copy
  <2> QED BY <1>1, <1>3, <1>5, <1>6, <2>1, <2>3, <2>4, <2>5
<1>7. CASE /\ alloc_map # Slot
           /\ swap' = [swap EXCEPT ![NewSlot] = mem[sp[p].kaddr]]
           /\ sp' = [sp EXCEPT ![p].saddr = NewSlot, ![p].location = "swap"]
           /\ Goto(t, "detach")
           /\ UNCHANGED file
  <2>1. PICK s : s = NewSlot
    OBVIOUS
  <2>2. s \in Slot /\ s \notin alloc_map /\ s # None
    <3>1. Slot \ alloc_map \in SUBSET Nat /\ Slot \ alloc_map # {}
      BY <1>7, Marks DEF TypeOK
    <3> QED BY <2>1, <3>1, LeastIn, Marks DEF NewSlot
  <2>3. \A q \in Page : sp[q].saddr # s
    BY <2>2 DEF Sound, SlotInv, OnePage
  <2>4. /\ \A q \in Page \ {p} : sp'[q] = sp[q]
        /\ sp'[p].kaddr = sp[p].kaddr /\ sp'[p].saddr = s /\ sp'[p].dirty = sp[p].dirty
    <3>1. PICK x : x = [sp[p] EXCEPT !.saddr = s, !.location = "swap"]
      OBVIOUS
    <3>2. sp[p] \in PageRec
      BY <1>3 DEF TypeOK
    <3>3. /\ x \in PageRec /\ x.kaddr = sp[p].kaddr /\ x.saddr = s /\ x.dirty = sp[p].dirty
      BY <2>2, <3>1, <3>2 DEF PageRec
    <3>4. sp' = [sp EXCEPT ![p] = x]
      BY <1>3, <1>7, <2>1, <3>1 DEF TypeOK, PageRec
    <3> QED BY <1>3, <3>3, <3>4, PageStep
  <2>5. swap'[s] = mem[f] /\ \A r \in Slot \ {s} : swap'[r] = swap[r]
    BY <1>1, <1>7, <2>1, <2>2 DEF TypeOK
  <2>6. \A q \in Page \ {p} : SameData(q)
    <3> TAKE q \in Page \ {p}
    <3>1. Writable(q)' => Writable(q)
      BY <2>4 DEF Writable
    <3>2. sp[q].saddr # None => swap'[sp[q].saddr] = swap[sp[q].saddr]
      BY <2>3, <2>5 DEF TypeOK, PageRec
    <3> QED BY <1>2, <1>7, <2>4, <3>1, <3>2 DEF SameData
  <2>7. Copy(p)' = mem[f]
    BY <2>2, <2>4, <2>5 DEF Copy
  <2>8. ~suppl_page_dirty(p) => mem[f] = file'[p]
    BY <1>1, <1>3, <1>4, <1>7 DEF PageData
  <2> QED BY <1>1, <1>5, <1>7, <2>4, <2>6, <2>7, <2>8
<1>8. CASE NoFrame(t) /\ UNCHANGED <<file, swap, sp>>
  BY <1>2, <1>8, NoFrameData
<1> QED BY <1>1, <1>6, <1>7, <1>8 DEF WriteOut

(* The victim gives up its frame, and its copy is what the frame holds. *)
LEMMA DetachData ==
    ASSUME TypeOK, Sound, Data, NEW t \in Process, Detach(t)
    PROVE  Data'
<1>1. PICK p, f : p = th[t].victim /\ f = sp[p].kaddr
  OBVIOUS
<1>2. /\ th[t].pc = "detach"
      /\ th' = [th EXCEPT ![t].pc = "unmap victim", ![t].kpage = f]
      /\ sp' = [sp EXCEPT ![p].kaddr = None]
      /\ UNCHANGED <<mem, file, swap, pte, table, expect, late>>
  BY <1>1 DEF Detach, Running, machine, history
<1>3. p \in Page /\ p \in table /\ f \in Frame /\ f # None
  BY <1>1, <1>2, AtVictim, Marks
<1>4. pte[p].frame = f /\ PageData(p) /\ VictimData(t)
  BY <1>1, <1>3 DEF Sound, PageInv, Data
<1>5. /\ Moves(t) /\ th'[t].pc = "unmap victim" /\ th'[t].kpage = f /\ th'[t].victim = p
      /\ th'[t].arg = th[t].arg /\ th'[t].back = th[t].back /\ th'[t].after = th[t].after
  <2>1. PICK x : x = [th[t] EXCEPT !.pc = "unmap victim", !.kpage = f]
    OBVIOUS
  <2>2. th[t] \in ThreadRec /\ "unmap victim" \in Points
    BY DEF TypeOK, Points
  <2>3. /\ x \in ThreadRec /\ x.pc = "unmap victim" /\ x.kpage = f /\ x.victim = th[t].victim
        /\ x.arg = th[t].arg /\ x.back = th[t].back /\ x.after = th[t].after
    BY <1>3, <2>1, <2>2 DEF ThreadRec
  <2>4. th' = [th EXCEPT ![t] = x]
    BY <1>2, <2>1 DEF TypeOK, ThreadRec
  <2> QED BY <1>1, <2>3, <2>4 DEF TypeOK, Moves
<1>6. /\ \A q \in Page \ {p} : sp'[q] = sp[q]
      /\ sp'[p].kaddr = None /\ sp'[p].saddr = sp[p].saddr /\ sp'[p].dirty = sp[p].dirty
  BY <1>2, <1>3, ZenonT(30) DEF TypeOK, PageRec
<1>7. \A q \in Page \ {p} : SameData(q)
  <2> TAKE q \in Page \ {p}
  <2>1. Writable(q)' => Writable(q)
    BY <1>6 DEF Writable
  <2> QED BY <1>2, <1>6, <2>1 DEF SameData
<1>8. Copy(p)' = Copy(p)
  <2>1. sp'[p].saddr = sp[p].saddr /\ file' = file /\ swap' = swap
    BY <1>2, <1>6
  <2> QED BY <2>1 DEF Copy
<1>9. p \notin late => mem[f] = Copy(p)
  BY <1>1, <1>2, <1>4 DEF VictimData
<1>10. VictimData(t)'
  BY <1>2, <1>5, <1>8, <1>9 DEF VictimData
<1>11. PageData(p)'
  <2>1. Mapped(p)'
    BY <1>2, <1>4, <1>5 DEF Mapped
  <2>2. Forsaken(p) => Forsaken(p)'
    <3>1. Phase(t)' = Phase(t)
      BY <1>2, <1>5 DEF Phase, Evicting
    <3> QED BY <1>3, <1>5, <3>1, StillForsaken
  <2>3. p \notin late /\ ~Forsaken(p) => expect[p] = Copy(p)
    BY <1>1, <1>3, <1>4, <1>9 DEF PageData
  <2> QED BY <1>2, <1>3, <1>6, <1>8, <2>1, <2>2, <2>3 DEF PageData
<1> QED BY <1>1, <1>2, <1>3, <1>5, <1>6, <1>7, <1>10, <1>11, EvictorData
       DEF Inside, Evicting

(* The victim is unmapped: what its owner finds is the copy. *)
LEMMA UnmapVictimData ==
    ASSUME TypeOK, Sound, Data, NEW t \in Process, UnmapVictim(t)
    PROVE  Data'
<1>1. PICK p : p = th[t].victim
  OBVIOUS
<1>2. /\ th[t].pc = "unmap victim" /\ p \in table
      /\ pte' = [pte EXCEPT ![p].frame = None]
      /\ th' = [th EXCEPT ![t].pc = "get frame", ![t].kpage = None, ![t].victim = NoPage]
      /\ UNCHANGED <<mem, file, swap, sp, table, expect, late>>
  BY <1>1 DEF UnmapVictim, Running, Gone, history
<1>3. p \in Page /\ sp[p].kaddr = None /\ PageData(p)
  BY <1>1, <1>2 DEF Sound, VictimInv, Inside, Data
<1>4. /\ Moves(t) /\ th'[t].pc = "get frame"
      /\ th'[t].arg = th[t].arg /\ th'[t].back = th[t].back /\ th'[t].after = th[t].after
  <2>1. PICK x : x = [th[t] EXCEPT !.pc = "get frame", !.kpage = None, !.victim = NoPage]
    OBVIOUS
  <2>2. th[t] \in ThreadRec /\ "get frame" \in Points
    BY DEF TypeOK, Points
  <2>3. /\ x \in ThreadRec /\ x.pc = "get frame" /\ x.arg = th[t].arg
        /\ x.back = th[t].back /\ x.after = th[t].after
    BY <2>1, <2>2 DEF ThreadRec
  <2>4. th' = [th EXCEPT ![t] = x]
    BY <1>2, <2>1 DEF TypeOK, ThreadRec
  <2> QED BY <2>3, <2>4 DEF TypeOK, Moves
<1>5. pte'[p].frame = None /\ \A q \in Page \ {p} : pte'[q] = pte[q]
  BY <1>2, <1>3 DEF TypeOK, PteRec
<1>6. \A q \in Page \ {p} : SameData(q)
  BY <1>2, <1>5, SameFields DEF SameData
<1>7. PageData(p)'
  <2>1. Copy(p)' = Copy(p)
    BY <1>2 DEF Copy
  <2>2. Forsaken(p) => Forsaken(p)'
    <3>1. Phase(t)' = Phase(t)
      BY <1>2, <1>4 DEF Phase, Evicting
    <3> QED BY <1>3, <1>4, <3>1, StillForsaken
  <2>3. p \notin late /\ ~Forsaken(p) => expect[p] = Copy(p)
    BY <1>2, <1>3 DEF PageData
  <2> QED BY <1>2, <1>3, <1>5, <2>1, <2>2, <2>3 DEF PageData
<1>8. VictimData(t)'
  BY <1>4, OutsideData DEF Inside
<1> QED BY <1>1, <1>2, <1>3, <1>4, <1>6, <1>7, <1>8, EvictorData DEF Inside, Evicting

(* A page that leaves the table leaves an evictor with a frame that is what *)
(* the file is.                                                             *)
LEMMA DisposeData ==
    ASSUME TypeOK, Sound, Data, NEW t \in Process, suppl_page_dispose(t)
    PROVE  Data'
<1>1. PICK p : p = th[t].arg
  OBVIOUS
<1>2. UNCHANGED <<mem, file, swap, expect>> /\ th[t].pc \in Disposing
  BY DEF suppl_page_dispose, Running, Disposing
<1>3. Phase(t) = th[t].pc /\ ThreadData(t)
  BY <1>2 DEF Phase, Disposing, Evicting, Data
<1>4. ASSUME Dispose(t), \A q \in Page \ {p} : pte'[q] = pte[q],
             pte'[p].frame # None => Mapped(p)',
             \A u \in Process \ {t} :
                th[u].pc \in Inside /\ th[u].victim = p => VictimData(u)'
      PROVE  Data'
  <2>1. Disposed(t, p) /\ Goto(t, th[t].after)
    BY <1>1, <1>2, <1>4, DisposeStep DEF Dispose
  <2>2. /\ p \in Page /\ Owner[p] = t /\ Moves(t)
        /\ th'[t].pc \in {"user", "exit", "delete"}
        /\ (\A q \in Page \ {p} : sp'[q] = sp[q]) /\ table' = table \ {p}
    BY <2>1 DEF Disposed
  <2>3. /\ th'[t].pc = th[t].after /\ th'[t].after = th[t].after
    <3>1. th[t].after \in Points
      BY DEF TypeOK, ThreadRec
    <3> QED BY <2>1, <3>1, GotoStep
  <2>4. \A q \in Page \ {p} : q \in late' <=> q \in late
    BY <1>1, <1>4 DEF Dispose
  <2>5. \A q \in Page \ {p} : SameData(q)
    <3> TAKE q \in Page \ {p}
    <3>1. Writable(q)' => Writable(q)
      BY <2>2 DEF Writable
    <3> QED BY <1>2, <1>4, <2>2, <2>4, <3>1 DEF SameData
  <2>6. Leaving(t) => Leaving(t)'
    BY <1>2, <2>3 DEF Leaving, Disposing
  <2>7. DataChange(t, p)
    <3>1. \A q \in Page : Owner[q] # t /\ sp[q].dirty => sp'[q].dirty
      BY <2>2
    <3>2. \A u \in Process : mem'[th[u].kpage] = mem[th[u].kpage]
      BY <1>2
    <3>3. th[t].pc # "unmap victim"
      BY <1>2 DEF Disposing
    <3> QED BY <1>1, <1>4, <2>2, <2>5, <2>6, <3>1, <3>2, <3>3 DEF DataChange
  <2>8. PageData(p)'
    <3>1. Kind[p] = "stack" => Leaving(t)'
      BY <1>1, <1>2, <1>3, <2>3 DEF ThreadData, Leaving
    <3> QED BY <1>4, <2>2, <3>1 DEF PageData
  <2>9. ThreadData(t)' /\ VictimData(t)'
    <3>1. Phase(t)' = th'[t].pc /\ (th'[t].pc = "user" => ~Leaving(t)')
      BY <2>2, <2>3 DEF Phase, Evicting, Leaving
    <3> QED BY <2>2, <3>1, OutsideData DEF ThreadData, Disposing, Inside
  <2> QED BY <2>2, <2>7, <2>8, <2>9, DataStep
<1>5. CASE /\ th[t].pc = "dispose" /\ sp[p].kaddr = None /\ Dispose(t) /\ UNCHANGED pte
  <2>1. Disposed(t, p)
    BY <1>1, <1>2, <1>5, DisposeStep
  <2>2. /\ p \in Page /\ p \in table /\ Moves(t) /\ table' = table \ {p}
        /\ sp'[p].saddr = None
    BY <2>1 DEF Disposed
  <2>3. ASSUME NEW u \in Process \ {t}, th[u].pc \in Inside, th[u].victim = p
        PROVE  VictimData(u)'
    <3>1. th[u].pc = "unmap victim" /\ th'[u] = th[u]
      BY <1>5, <2>2, <2>3 DEF Sound, VictimInv, Inside, Moves
    <3>2. late' = late
      BY <1>1, <1>5, <2>3, <3>1 DEF Dispose, Copied
    <3>3. VictimData(u) /\ PageInv(p)
      BY <2>2 DEF Data, Sound
    <3>4. Kind[p] = "mmap" /\ p \notin late => mem[th[u].kpage] = file[p]
      BY <2>2, <2>3, <3>1, <3>3 DEF VictimData, PageInv, Copy
    <3>5. Copy(p)' = file[p]
      BY <1>2, <2>2 DEF Copy
    <3> QED BY <1>2, <2>2, <2>3, <3>1, <3>2, <3>4, <3>5 DEF VictimData
  <2>4. pte'[p].frame # None => Mapped(p)'
    <3> SUFFICES ASSUME pte[p].frame # None PROVE Mapped(p)'
      BY <1>5
    <3>1. PICK u \in Process :
            th[u].pc = "unmap victim" /\ th[u].victim = p /\ th[u].kpage = pte[p].frame
      BY <1>5, <2>2 DEF Data, PageData, Mapped
    <3>2. th'[u] = th[u]
      BY <1>5, <2>2, <3>1 DEF Moves
    <3> QED BY <1>5, <3>1, <3>2 DEF Mapped
  <2> QED BY <1>4, <1>5, <2>3, <2>4
<1>6. CASE /\ th[t].pc = "dispose" /\ Goto(t, "undo registration")
           /\ UNCHANGED <<pte, sp, table, late>>
  <2>1. /\ Moves(t) /\ th'[t].pc = "undo registration" /\ th'[t].arg = th[t].arg
        /\ th'[t].after = th[t].after
    BY <1>6, GotoStep DEF Points
  <2>2. Phase(t)' = "undo registration" /\ (Leaving(t) => Leaving(t)')
    BY <1>6, <2>1 DEF Phase, Evicting, Leaving
  <2>3. Idle(t)
    BY <1>2, <1>6, <2>1, <2>2, SameFields DEF Idle, Giving, Disposing
  <2>4. ThreadData(t)' /\ VictimData(t)'
    BY <1>2, <1>3, <2>1, <2>2, OutsideData DEF ThreadData, Disposing, Inside
  <2> QED BY <2>3, <2>4, IdleStep
<1>7. CASE /\ th[t].pc = "undo registration" /\ LockFree /\ Dispose(t)
           /\ pte' = [pte EXCEPT ![p].frame = None]
  <2>1. p \in Page
    BY <1>1, <1>2, <1>7, DisposeStep DEF Disposed
  <2>2. pte'[p].frame = None /\ \A q \in Page \ {p} : pte'[q] = pte[q]
    BY <1>7, <2>1 DEF TypeOK, PteRec
  <2>3. \A u \in Process : th[u].pc \notin Inside
    BY <1>7, NobodyInside
  <2> QED BY <1>4, <1>7, <2>2, <2>3
<1> QED BY <1>1, <1>5, <1>6, <1>7 DEF suppl_page_dispose, Running

-----------------------------------------------------------------------------
(* The contents under the specification *)

(* At the start every page is what its file is, or a page of zeros. *)
LEMMA InitData == Init => Data
<1> SUFFICES ASSUME Init PROVE Data
  OBVIOUS
<1>1. \A t \in Process : th[t].pc = "user" /\ th[t].after = "user"
  BY DEF Init
<1>2. \A p \in Page :
        /\ sp[p].kaddr = None /\ sp[p].saddr = None /\ pte[p].frame = None
        /\ expect[p] = IF Kind[p] = "stack" THEN Zero ELSE file[p]
        /\ p \in table => Kind[p] # "stack"
  BY DEF Init, Segment
<1>3. \A t \in Process : ThreadData(t) /\ VictimData(t)
  BY <1>1 DEF ThreadData, VictimData, Phase, Evicting, Leaving, Disposing
<1>4. \A p \in Page : PageData(p)
  BY <1>2 DEF PageData, Copy
<1> QED BY <1>3, <1>4 DEF Data

(* Stuttering. *)
LEMMA StutterData ==
    ASSUME Data, UNCHANGED <<mem, file, swap, pte, sp, table, th, expect, late>>
    PROVE  Data'
<1>1. \A t \in Process : Phase(t)' = Phase(t) /\ Leaving(t)' = Leaving(t)
  BY DEF Phase, Leaving
<1>2. \A p : /\ Copy(p)' = Copy(p) /\ (Writable(p)' <=> Writable(p))
             /\ Mapped(p)' <=> Mapped(p)
             /\ suppl_page_dirty(p)' <=> suppl_page_dirty(p)
  BY DEF Copy, Writable, Mapped, suppl_page_dirty
<1>3. \A p \in Page : Forsaken(p)' <=> Forsaken(p)
  BY <1>1, Marks DEF Forsaken
<1>4. \A t \in Process : ThreadData(t)' /\ VictimData(t)'
  BY <1>1, <1>2 DEF Data, ThreadData, VictimData
<1>5. \A p \in Page : PageData(p)'
  BY <1>1, <1>2, <1>3, Marks DEF Data, PageData
<1> QED BY <1>4, <1>5 DEF Data

(* Steps of user code. *)
LEMMA UserStepData ==
    ASSUME TypeOK, Sound, Data, NEW t \in Process, UserStep(t)
    PROVE  Data'
BY WriteData, CallsData, MmapData, ExitData DEF UserStep

(* Steps inside the kernel. *)
LEMMA KernelStepData ==
    ASSUME TypeOK, Sound, Data, NEW t \in Process, KernelStep(t)
    PROVE  Alive' => Data'
<1>1. CASE UseAfterFree(t)
  <2>1. \E why \in {"mapping", "evicted page"} : Stop(why)
    BY <1>1 DEF UseAfterFree
  <2> QED BY <2>1 DEF Stop, Alive
<1> QED BY <1>1, ScanData, WriteOutData, DetachData, UnmapVictimData, FramesData, RestoreData,
       FillData, RegisterData, LoadedData, SetPageData, LoadToFileData, UnregisterData,
       SetKpageData, WriteBackData, DisposeData, DisposeMappingData, FreePoolData, DeleteData
       DEF KernelStep

(* Every step keeps the contents where they belong. *)
LEMMA NextData == IInv /\ DataInv /\ [Next]_vars => DataInv'
<1> SUFFICES ASSUME IInv, DataInv, [Next]_vars PROVE DataInv'
  OBVIOUS
<1>1. ASSUME NEW t \in Process, UserStep(t) \/ KernelStep(t) PROVE DataInv'
  <2>1. TypeOK /\ Sound /\ Data
    BY <1>1, OnlyAlive DEF IInv, DataInv
  <2> QED BY <1>1, <2>1, UserStepData, KernelStepData DEF DataInv
<1>2. CASE UNCHANGED vars
  <2>1. /\ UNCHANGED <<mem, file, swap, pte, sp, table, th, expect, late>> /\ panic' = panic
    BY <1>2 DEF vars, machine, history
  <2> QED BY <2>1, StutterData DEF DataInv, Alive
<1> QED BY <1>1, <1>2 DEF Next, Finished

(* The contents of every page are in its frame, its slot or its file,       *)
(* wherever an eviction, a fault or a munmap has got to.                    *)
THEOREM DataInvariance == Spec => []DataInv
<1>1. Init => DataInv
  BY InitData DEF DataInv
<1>2. IInv /\ DataInv /\ [Next]_vars => DataInv'
  BY NextData
<1> QED BY <1>1, <1>2, Invariance, PTL DEF Spec

(* A page in user code is not given up, and its location says where its     *)
(* contents are.                                                            *)
LEMMA DataFollows == IInv /\ DataInv => DataKept
<1> SUFFICES ASSUME IInv, DataInv, Alive, NEW p \in table \ late, th[Owner[p]].pc = "user",
                    pte[p].frame # None \/ sp[p].location \in {"swap", "file"}
             PROVE  Contents(p) = expect[p]
  BY DEF DataKept
<1>1. p \in Page /\ p \in table /\ p \notin late /\ Owner[p] \in Process
  BY Marks DEF IInv, TypeOK
<1>2. TypeOK /\ Sound /\ Data
  BY DEF IInv, DataInv
<1>3. PageInv(p) /\ PageData(p)
  BY <1>1, <1>2 DEF Sound, Data
<1>4. ~Forsaken(p)
  BY DEF Forsaken, Phase, Evicting, Giving, Unmapping, Disposing
<1>5. expect[p] = IF sp[p].kaddr # None THEN mem[sp[p].kaddr] ELSE Copy(p)
  BY <1>1, <1>3, <1>4 DEF PageData
<1>6. CASE pte[p].frame # None
  <2>1. CASE pte[p].frame = sp[p].kaddr
    BY <1>5, <1>6, <2>1 DEF Contents
  <2>2. CASE pte[p].frame # sp[p].kaddr
    <3>1. PICK u \in Process : /\ th[u].pc = "unmap victim" /\ th[u].victim = p
                               /\ th[u].kpage = pte[p].frame
      BY <1>3, <1>6, <2>2 DEF PageData, Mapped
    <3>2. sp[p].kaddr = None /\ VictimData(u)
      BY <1>2, <3>1 DEF Sound, VictimInv, Data
    <3>3. mem[pte[p].frame] = Copy(p)
      BY <1>1, <3>1, <3>2 DEF VictimData
    <3> QED BY <1>5, <1>6, <3>2, <3>3 DEF Contents
  <2> QED BY <2>1, <2>2
<1>7. CASE pte[p].frame = None
  <2>1. sp[p].kaddr = None
    BY <1>3, <1>7 DEF PageInv
  <2>2. CASE sp[p].location = "swap"
    BY <1>3, <1>5, <1>7, <2>1, <2>2 DEF PageInv, Contents, Copy
  <2>3. CASE sp[p].location = "file"
    BY <1>3, <1>5, <1>7, <2>1, <2>3 DEF PageInv, Contents, Copy
  <2> QED BY <1>7, <2>2, <2>3
<1> QED BY <1>6, <1>7

(* What a process wrote last is what it finds, however often the page was   *)
(* evicted, written back and brought in meanwhile.                          *)
THEOREM DataKeptAlways == Spec => []DataKept
BY Invariance, DataInvariance, DataFollows, PTL
=============================================================================
