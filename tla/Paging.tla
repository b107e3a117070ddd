------------------------------- MODULE Paging -------------------------------
(***************************************************************************)
(* Virtual memory of Project5 (vm/vm_util.c, supplemental_page.c, swap.c,  *)
(* file_mapping.c and the page fault handler): pages of several processes  *)
(* that live in a frame, in a swap slot or in their file.  A step is what  *)
(* one process does between two points at which another process can change *)
(* what it looks at; eviction_lock, held over several steps, excludes the  *)
(* other users of the page list only.  User code runs between any two      *)
(* steps, also while its page is being evicted.                            *)
(***************************************************************************)
EXTENDS Naturals, FiniteSets, Sequences

CONSTANTS
    Process,        \* processes, each with its page directory
    Page,           \* virtual pages of all processes
    Owner,          \* [Page -> Process]
    Kind,           \* [Page -> Kinds]
    NFrames,        \* size of the user pool of palloc
    NSlots,         \* size of the swap device, in pages
    Values,         \* contents of a page
    Zero,           \* ... of a page of zeros
    NoProc, NoPage, \* model values: NULL
    MaxCalls        \* [Process -> bound on its stores, faults and system calls]

(***************************************************************************)
(* What is mapped onto a page: nothing (stack), a segment of the           *)
(* executable that is read-only (code) or writable (data), or a file mapped*)
(* by mmap.  A mapping covers one page.                                    *)
(***************************************************************************)
Kinds == {"stack", "code", "data", "mmap"}
Frame == 1 .. NFrames
Slot == 1 .. NSlots
None == 0           \* no frame (kaddr = 0), no slot (SWAP_NO_PAGE)

ASSUME PagingAssumption ==
    /\ NFrames \in Nat /\ NSlots \in Nat /\ MaxCalls \in [Process -> Nat]
    /\ Owner \in [Page -> Process]
    /\ Kind \in [Page -> Kinds]
    /\ Zero \in Values /\ \E v \in Values : v # Zero
    /\ NoProc \notin Process /\ NoPage \notin Page

VARIABLES
    free,           \* frames palloc can give
    mem,            \* [Frame -> Values]
    file,           \* [Page -> Values]: the part of the file behind a page
    alloc_map,      \* allocated swap slots
    swap,           \* [Slot -> Values]
    pte,            \* [Page -> entry of the owner's page directory]
    sp,             \* [Page -> struct suppl_page]
    table,          \* pages that have one, in their owner's hash table
    eviction_lock,  \* the process inside, or NoProc
    page_list,      \* evictable pages
    page_elem,      \* hand of the clock
    pool_size,      \* [Process -> size of the pool of mappings]
    th,             \* [Process -> where it is, and its locals]
    panic,          \* why the kernel has stopped, or "no"
    expect,         \* history: [Page -> the value its owner wrote last]
    late            \* history: pages written after their eviction had copied them

machine == <<free, mem, file, alloc_map, swap, pte>>
evictor == <<eviction_lock, page_list, page_elem>>
history == <<expect, late>>
vars == <<machine, sp, table, evictor, pool_size, th, panic, history>>

\* Where a process is: in user code, in the kernel, or gone
Points == {"user", "evict", "write out", "detach", "unmap victim", "get frame",
           "restore", "restored frame", "load", "fill", "loaded", "register", "grow",
           "set page", "unmap file", "unregister", "unmap", "write back", "dispose",
           "undo registration", "exit", "delete", "dead"}

PteRec == [frame : Frame \cup {None}, rw : BOOLEAN, dirty : BOOLEAN]
\* replaced: the struct was made while an earlier one of its page was being evicted.
PageRec ==
    [kaddr : Frame \cup {None}, saddr : Slot \cup {None},
     location : {"unknown", "ram", "swap", "file"}, dirty : BOOLEAN,
     mapping : {"none", "valid", "cleared", "dangling"}, replaced : BOOLEAN]
ThreadRec ==
    [pc : Points, arg : Page \cup {NoPage}, kpage : Frame \cup {None},
     victim : Page \cup {NoPage}, modified : BOOLEAN, back : Points, after : Points,
     calls : Nat]

TypeOK ==
    /\ free \subseteq Frame /\ alloc_map \subseteq Slot
    /\ table \subseteq Page /\ late \subseteq Page
    /\ mem \in [Frame -> Values] /\ swap \in [Slot -> Values]
    /\ file \in [Page -> Values] /\ expect \in [Page -> Values]
    /\ pte \in [Page -> PteRec] /\ sp \in [Page -> PageRec]
    /\ eviction_lock \in Process \cup {NoProc}
    /\ page_list \in Seq(Page) /\ page_elem \in Page \cup {NoPage}
    /\ pool_size \in [Process -> Nat]
    /\ th \in [Process -> ThreadRec]

-----------------------------------------------------------------------------
(* Operators of the code *)

Mine(t) == {p \in table : Owner[p] = t}

\* Segments of the executable are mapped when a process starts.
Segment(p) == Kind[p] \in {"code", "data"}

\* fields of the mapping a page points to
Dangling(p) == sp[p].mapping = "dangling"
Writable(p) == sp[p].mapping = "valid" /\ Kind[p] # "code"
FlWritable(p) == sp[p].mapping = "valid" /\ Kind[p] = "mmap"

\* suppl_page_dirty: once seen, the bit is remembered in the struct; without
\* a frame the page directory is not asked.
Remembered(p) == sp[p].dirty
suppl_page_dirty(p) == sp[p].dirty \/ (sp[p].kaddr # None /\ pte[p].dirty)

Least(S) == CHOOSE x \in S : \A y \in S : x <= y

\* Position of p in page_list, and the element after it (NULL at the end)
IndexOf(p) == CHOOSE i \in DOMAIN page_list : page_list[i] = p
Listed(p) == \E i \in DOMAIN page_list : page_list[i] = p
ListNext(p) ==
    IF IndexOf(p) = Len(page_list) THEN NoPage ELSE page_list[IndexOf(p) + 1]

\* list_remove with the hand moved on when it points to p
HandStays(p) == page_elem
HandAfter(p) == IF page_elem = p THEN ListNext(p) ELSE page_elem
Unlist(p) ==
    /\ page_elem' = HandAfter(p)
    /\ page_list' = SubSeq(page_list, 1, IndexOf(p) - 1)
                    \o SubSeq(page_list, IndexOf(p) + 1, Len(page_list))

Running(t, at) == panic = "no" /\ th[t].pc = at
Goto(t, to) == th' = [th EXCEPT ![t].pc = to]
LockFree == eviction_lock = NoProc

\* swap_get_page, swap_free_page and the palloc_free_page of a disposed page
NewSlot == Least(Slot \ alloc_map)
SlotKept(p) == {}
SlotsFreed(p) == {sp[p].saddr}
FrameKept(p) == {}
FramesFreed(p) == {sp[p].kaddr} \ {None}

\* PANIC, a failed ASSERT or a kernel access to memory that is not there
Stop(why) ==
    /\ panic' = why
    /\ UNCHANGED <<machine, sp, table, evictor, pool_size, th, history>>

\* kill() in the page fault handler, exit() in a system call: thread_exit
Die(t) == th' = [th EXCEPT ![t].pc = "exit", ![t].kpage = None]

Init ==
    /\ free = Frame /\ alloc_map = {}
    /\ mem = [f \in Frame |-> Zero] /\ swap = [s \in Slot |-> Zero]
    /\ file = [p \in Page |-> CHOOSE v \in Values : v # Zero]
    /\ pte = [p \in Page |-> [frame |-> None, rw |-> FALSE, dirty |-> FALSE]]
    /\ table = {p \in Page : Segment(p)}
    /\ sp = [p \in Page |->
               [kaddr |-> None, saddr |-> None, dirty |-> FALSE,
                replaced |-> FALSE,
                location |-> IF Segment(p) THEN "file" ELSE "unknown",
                mapping |-> IF Segment(p) THEN "valid" ELSE "none"]]
    /\ eviction_lock = NoProc /\ page_list = <<>> /\ page_elem = NoPage
    /\ pool_size = [t \in Process |-> 2]
    /\ th = [t \in Process |->
               [pc |-> "user", arg |-> NoPage, kpage |-> None, victim |-> NoPage,
                modified |-> FALSE, back |-> "user", after |-> "user", calls |-> 0]]
    /\ panic = "no"
    /\ expect = [p \in Page |-> IF Kind[p] = "stack" THEN Zero ELSE file[p]]
    /\ late = {}

-----------------------------------------------------------------------------
(* User code *)

\* The program still does something, and in the kernel goes on at to.
MayCall(t) == Running(t, "user") /\ th[t].calls < MaxCalls[t]
Call(t, p, to) ==
    th' = [th EXCEPT ![t].pc = to, ![t].arg = p, ![t].after = "user", ![t].calls = @ + 1]

\* An eviction has already copied p, or has decided to throw it away.
Copied(p) ==
    \E t \in Process :
        /\ th[t].victim = p
        /\ \/ th[t].pc \in {"detach", "unmap victim"}
           \/ th[t].pc = "write out" /\ ~th[t].modified /\ Writable(p)

\* A store to a page that is present and writable
Write(t, p, v) ==
    /\ MayCall(t)
    /\ Owner[p] = t /\ pte[p].frame # None /\ pte[p].rw /\ v # expect[p]
    /\ mem' = [mem EXCEPT ![pte[p].frame] = v]
    /\ pte' = [pte EXCEPT ![p].dirty = TRUE]
    /\ expect' = [expect EXCEPT ![p] = v]
    /\ late' = IF Copied(p) THEN late \cup {p} ELSE late
    /\ Call(t, NoPage, "user")
    /\ UNCHANGED <<free, file, alloc_map, swap, sp, table, evictor, pool_size, panic>>

\* page_fault: an access to a page that is not present, a store to a read-only one
Handler(p) ==
    IF pte[p].frame # None THEN "exit"
    ELSE IF p \notin table THEN "grow"
    ELSE IF sp[p].location = "swap" THEN "restore"
    ELSE IF sp[p].location = "file" THEN "load"
    ELSE "exit"

page_fault(t, p) ==
    /\ MayCall(t)
    /\ Owner[p] = t /\ (p \in table \/ Kind[p] = "stack")
    /\ pte[p].frame = None \/ ~pte[p].rw
    /\ Call(t, p, Handler(p))
    /\ UNCHANGED <<machine, sp, table, evictor, pool_size, panic, history>>

\* A system call with a buffer in p: user_address_valid accepts a page that is
\* present, allocates one that belongs to the stack, and refuses any other, be
\* it in swap or in its file.
user_address_valid(t, p) ==
    /\ MayCall(t)
    /\ Owner[p] = t /\ pte[p].frame = None
    /\ Call(t, p, IF p \notin table /\ Kind[p] = "stack" THEN "grow" ELSE "exit")
    /\ UNCHANGED <<machine, sp, table, evictor, pool_size, panic, history>>

\* thread_exit by the program's own wish
Exit(t) ==
    /\ Running(t, "user")
    /\ Die(t)
    /\ UNCHANGED <<machine, sp, table, evictor, pool_size, panic, history>>

-----------------------------------------------------------------------------
(* evict_page *)

\* The scans find an unmodified page if there is one; which one depends on the
\* accessed bits, which are left open.  If all are modified the hand, put on
\* the list if it is on no page, comes back to where it started.
Hand == IF page_elem = NoPage THEN page_list[1] ELSE page_elem
Victims ==
    LET clean == {p \in Page : Listed(p) /\ ~suppl_page_dirty(p)}
    IN  IF clean # {} THEN clean ELSE {Hand}

\* evict_and_get_kaddr returns NULL to whoever called it.
NoFrame(t) ==
    IF th[t].back = "unmap"
      THEN panic' = "error loading changes" /\ UNCHANGED th
      ELSE Die(t) /\ UNCHANGED panic

\* sema_down and the scans
Scan(t) ==
    /\ Running(t, "evict") /\ LockFree
    /\ \/ /\ page_list = <<>>
          /\ NoFrame(t)
          /\ UNCHANGED <<sp, evictor>>
       \/ /\ page_list # <<>>
          /\ \E p \in Victims :
                /\ th' = [th EXCEPT ![t].pc = "write out", ![t].victim = p,
                                    ![t].modified = suppl_page_dirty(p)]
                /\ sp' = [sp EXCEPT ![p].dirty = suppl_page_dirty(p)]
                /\ page_elem' = p
          /\ eviction_lock' = t
          /\ UNCHANGED <<page_list, panic>>
    /\ UNCHANGED <<machine, table, pool_size, history>>

\* The mapping decides where the contents go.
ToFile(t) ==
    LET p == th[t].victim IN IF th[t].modified THEN FlWritable(p) ELSE Writable(p)

\* EVICTION_EVICT_NOT_MODIFIED and EVICTION_EVICT_MODIFIED up to the point
\* where the contents are safe; file_write is taken to write all of the page
WriteOut(t) ==
    LET p == th[t].victim IN
    /\ Running(t, "write out") /\ ~Dangling(p)
    /\ \/ /\ ToFile(t)
          /\ file' = IF th[t].modified THEN [file EXCEPT ![p] = mem[sp[p].kaddr]] ELSE file
          /\ sp' = [sp EXCEPT ![p].location = "file"]
          /\ Goto(t, "detach")
          /\ UNCHANGED <<alloc_map, swap, eviction_lock, panic>>
       \/ /\ ~ToFile(t) /\ alloc_map # Slot
          /\ alloc_map' = alloc_map \cup {NewSlot}
          /\ swap' = [swap EXCEPT ![NewSlot] = mem[sp[p].kaddr]]
          /\ sp' = [sp EXCEPT ![p].saddr = NewSlot, ![p].location = "swap"]
          /\ Goto(t, "detach")
          /\ UNCHANGED <<file, eviction_lock, panic>>
       \/ /\ ~ToFile(t) /\ alloc_map = Slot
          /\ NoFrame(t)
          /\ eviction_lock' = NoProc
          /\ UNCHANGED <<file, alloc_map, swap, sp>>
    /\ UNCHANGED <<free, mem, pte, table, page_list, page_elem, pool_size, history>>

\* EVICTION_EVICT_PAGE: page->kaddr = 0 ...
Detach(t) ==
    LET p == th[t].victim IN
    /\ Running(t, "detach")
    /\ th' = [th EXCEPT ![t].pc = "unmap victim", ![t].kpage = sp[p].kaddr]
    /\ sp' = [sp EXCEPT ![p].kaddr = None]
    /\ UNCHANGED <<machine, table, evictor, pool_size, panic, history>>

\* The evicted struct is freed: p has none, or one made since then.
Gone(p) == p \notin table \/ sp[p].replaced

\* ... and the rest, up to sema_up
UnmapVictim(t) ==
    LET p == th[t].victim IN
    /\ Running(t, "unmap victim") /\ ~Gone(p)
    /\ pte' = [pte EXCEPT ![p].frame = None]
    /\ free' = free \cup {th[t].kpage}
    /\ Unlist(p)
    /\ eviction_lock' = NoProc
    /\ th' = [th EXCEPT ![t].pc = "get frame", ![t].kpage = None, ![t].victim = NoPage]
    /\ UNCHANGED <<mem, file, alloc_map, swap, sp, table, pool_size, panic, history>>

\* palloc_get_page(PAL_USER | PAL_ZERO) by t, which goes on at to
Palloc(t, to) ==
    /\ free # {}
    /\ th' = [th EXCEPT ![t].kpage = Least(free), ![t].pc = to]
    /\ mem' = [mem EXCEPT ![Least(free)] = Zero]
    /\ free' = free \ {Least(free)}

\* The second half of evict_and_get_kaddr, without eviction_lock
GetFrame(t) ==
    /\ Running(t, "get frame")
    /\ \/ Palloc(t, th[t].back) /\ UNCHANGED panic
       \/ free = {} /\ NoFrame(t) /\ UNCHANGED <<free, mem>>
    /\ UNCHANGED <<file, alloc_map, swap, pte, sp, table, evictor, pool_size, history>>

Evict(t, to) == th' = [th EXCEPT ![t].pc = "evict", ![t].back = to]

\* The kernel follows a pointer to freed memory: a mapping whose pool has moved
\* or was freed, or a page disposed of while it was being evicted.
UseAfterFree(t) ==
    \/ /\ Running(t, "write out") /\ Dangling(th[t].victim)
       /\ Stop("mapping")
    \/ /\ \E at \in {"load", "fill", "unmap file"} : Running(t, at)
       /\ Dangling(th[t].arg)
       /\ Stop("mapping")
    \/ /\ Running(t, "unmap victim") /\ Gone(th[t].victim)
       /\ Stop("evicted page")

-----------------------------------------------------------------------------
(* Bringing a page in *)

\* restore_page_from_swap from pagedir_set_page to sema_up.  The entry allows
\* writing, and swap_load_page_to_ram sets its dirty bit.
FromSwap(t, f) ==
    LET p == th[t].arg IN
    /\ pte' = [pte EXCEPT ![p] = [frame |-> f, rw |-> TRUE, dirty |-> TRUE]]
    /\ mem' = [mem EXCEPT ![f] = swap[sp[p].saddr]]
    /\ alloc_map' = alloc_map \ {sp[p].saddr}
    /\ sp' = [sp EXCEPT ![p].kaddr = f, ![p].saddr = None, ![p].location = "ram"]
    /\ th' = [th EXCEPT ![t].pc = "register", ![t].kpage = None]

restore_page_from_swap(t) ==
    /\ LockFree
    /\ \/ /\ Running(t, "restore") /\ free # {}
          /\ FromSwap(t, Least(free))
          /\ free' = free \ {Least(free)}
       \/ /\ Running(t, "restore") /\ free = {}
          /\ Evict(t, "restored frame")
          /\ UNCHANGED <<free, mem, alloc_map, pte, sp>>
       \/ /\ Running(t, "restored frame")
          /\ FromSwap(t, th[t].kpage)
          /\ UNCHANGED free
    /\ UNCHANGED <<file, swap, table, evictor, pool_size, panic, history>>

\* suppl_page_load_from_file up to the moment it has a frame: a page that was
\* ever dirty does not ask palloc first.
LoadFrame(t) ==
    LET p == th[t].arg IN
    /\ Running(t, "load") /\ LockFree /\ ~Dangling(p)
    /\ \/ ~sp[p].dirty /\ Palloc(t, "fill")
       \/ (sp[p].dirty \/ free = {}) /\ Evict(t, "fill") /\ UNCHANGED <<free, mem>>
    /\ UNCHANGED <<file, alloc_map, swap, pte, sp, table, evictor, pool_size, panic,
                   history>>

\* ... and from there to register_suppl_page
Fill(t) ==
    LET p == th[t].arg
        f == th[t].kpage IN
    /\ Running(t, "fill") /\ LockFree /\ ~Dangling(p)
    /\ pte' = [pte EXCEPT ![p] = [frame |-> f, rw |-> Writable(p), dirty |-> FALSE]]
    /\ mem' = [mem EXCEPT ![f] = file[p]]
    /\ sp' = [sp EXCEPT ![p].kaddr = f]
    /\ th' = [th EXCEPT ![t].pc = "register", ![t].kpage = None, ![t].after = "loaded"]
    /\ UNCHANGED <<free, file, alloc_map, swap, table, evictor, pool_size, panic, history>>

register_suppl_page(t) ==
    /\ Running(t, "register") /\ LockFree
    /\ page_list' = <<th[t].arg>> \o page_list
    /\ Goto(t, th[t].after)
    /\ UNCHANGED <<machine, sp, table, eviction_lock, page_elem, pool_size, panic, history>>

\* The page is evictable before it says that it is in RAM.
Loaded(t) ==
    /\ Running(t, "loaded")
    /\ sp' = [sp EXCEPT ![th[t].arg].location = "ram"]
    /\ Goto(t, "user")
    /\ UNCHANGED <<machine, table, evictor, pool_size, panic, history>>

\* suppl_table_alloc_user_page: stack growth
AllocFrame(t) ==
    /\ Running(t, "grow")
    /\ \/ Palloc(t, "set page")
       \/ free = {} /\ Evict(t, "set page") /\ UNCHANGED <<free, mem>>
    /\ UNCHANGED <<file, alloc_map, swap, pte, sp, table, evictor, pool_size, panic,
                   history>>

suppl_table_set_page(t) ==
    LET p == th[t].arg
        f == th[t].kpage IN
    /\ Running(t, "set page") /\ LockFree
    /\ pte' = [pte EXCEPT ![p] = [frame |-> f, rw |-> TRUE, dirty |-> TRUE]]
    /\ table' = table \cup {p}
    /\ sp' = [sp EXCEPT ![p].kaddr = f, ![p].location = "ram", ![p].dirty = TRUE]
    /\ th' = [th EXCEPT ![t].pc = "register", ![t].kpage = None]
    /\ UNCHANGED <<free, mem, file, alloc_map, swap, evictor, pool_size, panic, history>>

-----------------------------------------------------------------------------
(* Mapping and unmapping files *)

\* file_mappings_map of a file mapped by the program.  When the pool is full it
\* moves, and the pages mapped before keep their pointers.  The code refuses an
\* address that still has a frame, of a page that is being evicted; here the call
\* is made all the same.
Used(t) == {p \in Mine(t) : Kind[p] # "stack"}
Grown(t) == Cardinality(Used(t)) = pool_size[t]

mmap(t, p) ==
    /\ MayCall(t)
    /\ Owner[p] = t /\ Kind[p] = "mmap" /\ p \notin table
    /\ pool_size' = [pool_size EXCEPT ![t] = IF Grown(t) THEN 2 * @ ELSE @]
    /\ sp' = [q \in Page |->
                IF q = p THEN [sp[q] EXCEPT !.mapping = "valid", !.location = "file",
                                            !.replaced = Copied(q)]
                ELSE IF Grown(t) /\ q \in Used(t) THEN [sp[q] EXCEPT !.mapping = "dangling"]
                ELSE sp[q]]
    /\ table' = table \cup {p}
    /\ expect' = [expect EXCEPT ![p] = file[p]]
    /\ Call(t, p, "user")
    /\ UNCHANGED <<machine, evictor, panic, late>>

munmap(t, p) ==
    /\ MayCall(t)
    /\ p \in Mine(t) /\ Kind[p] = "mmap"
    /\ Call(t, p, "unmap file")
    /\ UNCHANGED <<machine, sp, table, evictor, pool_size, panic, history>>

\* suppl_page_load_to_file by the owner: a clean page needs nothing; kaddr is
\* read before eviction_lock is taken.
LoadToFile(t) ==
    LET p == th[t].arg IN
    /\ Running(t, "unmap file") /\ ~Dangling(p)
    /\ sp' = [sp EXCEPT ![p].dirty = suppl_page_dirty(p)]
    /\ th' = IF suppl_page_dirty(p)
               THEN [th EXCEPT ![t].pc = "unregister", ![t].kpage = sp[p].kaddr]
               ELSE [th EXCEPT ![t].pc = "dispose"]
    /\ UNCHANGED <<machine, table, evictor, pool_size, panic, history>>

\* set_kpage_if_needed: a dirty page without a frame gets a fresh one.
Unregister(t) ==
    LET p == th[t].arg IN
    /\ Running(t, "unregister") /\ LockFree
    /\ IF Listed(p) THEN Unlist(p) ELSE UNCHANGED <<page_list, page_elem>>
    /\ IF th[t].kpage = None THEN Evict(t, "unmap") ELSE Goto(t, "write back")
    /\ UNCHANGED <<machine, sp, table, eviction_lock, pool_size, panic, history>>

SetKpage(t) ==
    LET p == th[t].arg
        f == th[t].kpage IN
    /\ Running(t, "unmap") /\ LockFree
    /\ pte' = [pte EXCEPT ![p] = [frame |-> f, rw |-> TRUE, dirty |-> FALSE]]
    /\ sp' = [sp EXCEPT ![p].kaddr = f]
    /\ Goto(t, "write back")
    /\ UNCHANGED <<free, mem, file, alloc_map, swap, table, evictor, pool_size, panic, history>>

\* file_write from the frame the page has now, then register_suppl_page
WriteBack(t) ==
    LET p == th[t].arg IN
    /\ Running(t, "write back") /\ LockFree
    /\ \/ sp[p].kaddr = None /\ Stop("write from address 0")
       \/ /\ sp[p].kaddr # None
          /\ file' = [file EXCEPT ![p] = mem[sp[p].kaddr]]
          /\ page_list' = <<p>> \o page_list
          /\ th' = [th EXCEPT ![t].pc = "dispose", ![t].kpage = None]
          /\ UNCHANGED <<free, mem, alloc_map, swap, pte, sp, table, eviction_lock,
                         page_elem, pool_size, panic, history>>

\* hash_delete
StillHashed(p) == table
Unhashed(p) == table \ {p}

\* suppl_page_dispose, then free of the struct: a page without a frame is not
\* looked for in page_list, and eviction_lock is not taken.  An eviction that
\* goes on leaves its frame mapped, with what was written late.
Dispose(t) ==
    LET p == th[t].arg IN
    /\ alloc_map' = alloc_map \ SlotsFreed(p)
    /\ sp' = [sp EXCEPT ![p] = [kaddr |-> None, saddr |-> None, location |-> "unknown",
                                dirty |-> FALSE, mapping |-> "none", replaced |-> FALSE]]
    /\ table' = Unhashed(p)
    /\ late' = IF Copied(p) THEN late ELSE late \ {p}
    /\ Goto(t, th[t].after)

suppl_page_dispose(t) ==
    LET p == th[t].arg IN
    /\ \/ /\ Running(t, "dispose") /\ sp[p].kaddr = None
          /\ Dispose(t)
          /\ UNCHANGED <<free, pte, page_list, page_elem>>
       \/ /\ Running(t, "dispose") /\ sp[p].kaddr # None
          /\ Goto(t, "undo registration")
          /\ UNCHANGED <<free, alloc_map, pte, sp, table, page_list, page_elem, late>>
       \/ /\ Running(t, "undo registration") /\ LockFree
          /\ Dispose(t)
          /\ IF Listed(p) THEN Unlist(p) ELSE UNCHANGED <<page_list, page_elem>>
          /\ pte' = [pte EXCEPT ![p].frame = None]
          /\ free' = free \cup FramesFreed(p)
    /\ UNCHANGED <<mem, file, swap, eviction_lock, pool_size, panic, expect>>

-----------------------------------------------------------------------------
(* process_exit *)

\* file_mappings_dispose, one mapping at a time ...
DisposeMapping(t) ==
    /\ Running(t, "exit")
    /\ \E p \in Used(t) :
          \/ /\ Kind[p] = "mmap"
             /\ th' = [th EXCEPT ![t].pc = "unmap file", ![t].arg = p, ![t].after = "exit"]
             /\ UNCHANGED sp
          \/ /\ Segment(p) /\ sp[p].mapping = "valid"
             /\ sp' = [sp EXCEPT ![p].mapping = "cleared"]
             /\ UNCHANGED th
    /\ UNCHANGED <<machine, table, evictor, pool_size, panic, history>>

\* ... then the pool is freed, the segments' pages still point into it ...
FreePool(t) ==
    /\ Running(t, "exit")
    /\ \A p \in Used(t) : Segment(p) /\ sp[p].mapping # "valid"
    /\ sp' = [p \in Page |->
                IF p \in Used(t) THEN [sp[p] EXCEPT !.mapping = "dangling"] ELSE sp[p]]
    /\ Goto(t, "delete")
    /\ UNCHANGED <<machine, table, evictor, pool_size, panic, history>>

\* ... and suppl_pt_delete disposes of the pages, in the order of the hash.
suppl_pt_delete(t) ==
    /\ Running(t, "delete")
    /\ \/ \E p \in Mine(t) :
             th' = [th EXCEPT ![t].pc = "dispose", ![t].arg = p, ![t].after = "delete"]
       \/ Mine(t) = {} /\ Goto(t, "dead")
    /\ UNCHANGED <<machine, sp, table, evictor, pool_size, panic, history>>

-----------------------------------------------------------------------------
UserStep(t) ==
    \/ \E p \in Page :
          \/ \E v \in Values : Write(t, p, v)
          \/ page_fault(t, p) \/ user_address_valid(t, p)
          \/ mmap(t, p) \/ munmap(t, p)
    \/ Exit(t)

KernelStep(t) ==
    \/ Scan(t) \/ WriteOut(t) \/ Detach(t) \/ UnmapVictim(t) \/ GetFrame(t)
    \/ restore_page_from_swap(t) \/ LoadFrame(t) \/ Fill(t)
    \/ register_suppl_page(t) \/ Loaded(t) \/ AllocFrame(t) \/ suppl_table_set_page(t)
    \/ LoadToFile(t) \/ Unregister(t) \/ SetKpage(t) \/ WriteBack(t)
    \/ suppl_page_dispose(t)
    \/ DisposeMapping(t) \/ FreePool(t) \/ suppl_pt_delete(t)
    \/ UseAfterFree(t)

\* Nothing is left to do, or the kernel has stopped.
Finished ==
    /\ panic # "no" \/ \A t \in Process : th[t].pc = "dead"
    /\ UNCHANGED vars

Next ==
    \/ \E t \in Process : UserStep(t) \/ KernelStep(t)
    \/ Finished

Fairness == \A t \in Process : WF_vars(KernelStep(t))
Spec == Init /\ [][Next]_vars /\ Fairness

-----------------------------------------------------------------------------
(* Properties.  They speak about the states before the kernel stops. *)

Alive == panic = "no"

\* Every frame of the user pool is in exactly one hand: free, the frame of one
\* page, or a process that has just got it from palloc or is about to free it.
Borrowed(t) == th[t].pc \in {"unregister", "write back"}
Holders(f) ==
    {<<"page", p>> : p \in {q \in table : sp[q].kaddr = f}}
    \cup {<<"process", t>> : t \in {u \in Process : th[u].kpage = f /\ ~Borrowed(u)}}
    \cup (IF f \in free THEN {<<"free">>} ELSE {})
FrameOwned == Alive => \A f \in Frame : Cardinality(Holders(f)) = 1

\* A swap slot is allocated exactly when one page says that it is there, so
\* swap_free_page and the two copies never meet a slot that is not allocated.
SlotOwned ==
    Alive =>
        /\ alloc_map = {sp[p].saddr : p \in table} \ {None}
        /\ \A p, q \in table : sp[p].saddr = sp[q].saddr /\ p # q => sp[p].saddr = None

\* The evictable pages are those with a frame that nobody is bringing in or
\* writing back, each listed once, and the hand of the clock is on one of them:
\* evict_page never follows a list element of a page that has left.  All of
\* it is of the right type.
InTransit(p) ==
    \E t \in Process : th[t].arg = p /\ th[t].pc \in {"register", "write back"}
BeingUnmapped(p) ==
    \E t \in Process : th[t].victim = p /\ th[t].pc = "unmap victim" /\ p \in table
ListSound ==
    /\ TypeOK
    /\ Alive =>
        /\ \A i, j \in DOMAIN page_list : page_list[i] = page_list[j] => i = j
        /\ \A p \in table :
              Listed(p) <=> (sp[p].kaddr # None /\ ~InTransit(p)) \/ BeingUnmapped(p)
        /\ page_elem # NoPage => Listed(page_elem)

\* What its owner wrote last is what the owner finds: in its frame, or wherever
\* the location sends the page fault handler, unless the owner wrote while an
\* eviction that had already copied the page was going on.
Contents(p) ==
    IF pte[p].frame # None THEN mem[pte[p].frame]
    ELSE IF sp[p].location = "swap" THEN swap[sp[p].saddr]
    ELSE file[p]
DataKept ==
    Alive =>
        \A p \in table \ late :
            /\ th[Owner[p]].pc = "user"
            /\ pte[p].frame # None \/ sp[p].location \in {"swap", "file"}
            => Contents(p) = expect[p]

\* Whoever is in the kernel for a page returns to user code or is dead in the
\* end: nobody waits for eviction_lock for ever.
Returns ==
    \A t \in Process :
        th[t].pc # "user" ~> (th[t].pc \in {"user", "dead"} \/ ~Alive)
=============================================================================
