------------------------------- MODULE FileSys -------------------------------
(***************************************************************************)
(* Directories, path resolution and the file system calls of Project5      *)
(* (filesys/filesys.c, directory.c, file.c, the calls of                   *)
(* userprog/syscall.c and the descriptors of threads/thread.c).  A step is *)
(* the reading of one directory entry, or what a call does between two     *)
(* such readings.  dir_lock belongs to the struct dir of one opener, so it *)
(* excludes nobody.  An open inode is known by its sector: inode_open and  *)
(* inode_close are one step each (module Inode looks inside them).         *)
(***************************************************************************)
EXTENDS Naturals, Sequences, FiniteSets

CONSTANTS
    Process,
    NSectors,           \* sectors for inodes, the root directory's included
    Name,               \* names of files and directories
    Paths,              \* paths the processes use: [absolute, names]
    INITIAL_DIR_SIZE,   \* entries a new directory has room for
    MaxEntries,         \* bound on the entries of a directory: no room for more
    MAX_OPEN_FILES,     \* descriptors of a process
    MaxCalls            \* [Process -> bound on its calls]

Sector == 1 .. NSectors
ROOT_DIR_SECTOR == 1
None == 0
Fd == 1 .. MAX_OPEN_FILES
Dots == {".", ".."}
Mutators == {"create", "mkdir", "remove"}
Calls == Mutators \cup {"open", "chdir"}

\* approach_leaf refuses a path without names and keeps nothing open; that open
\* takes / all the same has the effect of /. on the model.
ASSUME FileSysAssumption ==
    /\ IsFiniteSet(Process)
    /\ NSectors \in Nat \ {0} /\ MAX_OPEN_FILES \in Nat /\ MaxCalls \in [Process -> Nat]
    /\ INITIAL_DIR_SIZE \in Nat \ {0, 1} /\ MaxEntries >= INITIAL_DIR_SIZE
    /\ Paths \subseteq [absolute : BOOLEAN, names : Seq(Name \cup Dots)]
    /\ \A path \in Paths : path.names # <<>>

VARIABLES
    free_map,   \* allocated sectors
    is_dir,     \* [Sector -> BOOLEAN]: flags of the inode on disk
    entries,    \* [Sector -> Seq(struct dir_entry)]: contents of a directory
    open_cnt,   \* [Sector -> openers of the inode]
    removed,    \* open inodes that are removed when closed
    fds,        \* [Process -> [Fd -> struct file, without an inode if not open]]
    pwd,        \* [Process -> sector of the working directory]
    th,         \* [Process -> where it is, and its locals]
    panic,      \* why the kernel has stopped, or "no"
    lost,       \* history: [Sector -> openers that will never close it]
    unsafe      \* history: two calls met in a directory, or a dot was removed

disk == <<free_map, is_dir, entries>>
vars == <<disk, open_cnt, removed, fds, pwd, th, panic, lost, unsafe>>

Slot == [name : Name \cup Dots \cup {""}, sector : Sector \cup {None}, in_use : BOOLEAN]
NoFile == [sector |-> None, pos |-> 0]
FreeSlot == [name |-> "", sector |-> None, in_use |-> FALSE]
Points == {"user", "walk", "enter", "find", "open", "allocate", "add", "slot", "write slot",
           "check", "check leaf", "erase", "open victim", "erase entry", "dead"}

TypeOK ==
    /\ free_map \subseteq Sector /\ removed \subseteq Sector
    /\ is_dir \in [Sector -> BOOLEAN]
    /\ entries \in [Sector -> Seq(Slot)]
    /\ open_cnt \in [Sector -> Nat] /\ lost \in [Sector -> Nat]
    /\ fds \in [Process -> [Fd -> [sector : Sector \cup {None}, pos : Nat]]]
    /\ pwd \in [Process -> Sector \cup {None}]
    /\ th \in [Process -> [pc : Points, call : Calls \cup {""}, names : Seq(Name \cup Dots),
                           dir : Sector \cup {None}, ofs : Nat \ {0}, new : Sector \cup {None},
                           ent : Slot, child : Sector \cup {None}, calls : Nat]]

-----------------------------------------------------------------------------
(* Operators of the code *)

\* A directory as dir_create leaves it: its two dots, and room
SelfParent(self, parent) ==
    [k \in 1 .. INITIAL_DIR_SIZE |->
        CASE k \in {1, 2} -> [name |-> IF k = 1 THEN "." ELSE "..", sector |-> self, in_use |-> TRUE]
          [] OTHER -> FreeSlot]
NewDir(self, parent) ==
    [k \in 1 .. INITIAL_DIR_SIZE |->
        CASE k = 1 -> [name |-> ".", sector |-> self, in_use |-> TRUE]
          [] k = 2 -> [name |-> "..", sector |-> parent, in_use |-> TRUE]
          [] OTHER -> FreeSlot]

\* dir_num_entries
dir_num_entries(s) ==
    Cardinality({k \in DOMAIN entries[s] : entries[s][k].in_use}) - 2

Count(q, s) == Cardinality({k \in DOMAIN q : q[k] = s})
Least(S) == CHOOSE x \in S : \A y \in S : x <= y

Running(t, at) == panic = "no" /\ th[t].pc = at
Rest(n) ==
    [pc |-> "user", call |-> "", names |-> <<>>, dir |-> None, ofs |-> 1, new |-> None,
     ent |-> FreeSlot, child |-> None, calls |-> n]
Return(t) == th' = [th EXCEPT ![t] = Rest(@.calls)]

\* free_map_allocate: bitmap_scan_and_flip
FirstFree == Least(Sector \ free_map)

\* inode_open of the inodes in opened, then inode_close of those in closed: the
\* last one to close a removed inode frees its sector.
Inodes(opened, closed, alsoRemoved) ==
    LET cnt == [s \in Sector |-> open_cnt[s] + Count(opened, s) - Count(closed, s)]
        gone == {s \in Sector : cnt[s] = 0}
    IN  /\ open_cnt' = cnt
        /\ removed' = (removed \cup alsoRemoved) \ gone
        /\ free_map' = free_map \ (gone \cap (removed \cup alsoRemoved))
Close(closed) == Inodes(<<>>, closed, {})

\* Two calls are in the same directory, or at the same file, and one of them is a
\* call that changes directories, be it on its way to another one; or . or .. is
\* being removed.
InCall(t) == th[t].pc \notin {"user", "dead"}
At(t) == {th[t].dir, th[t].ent.sector, th[t].child} \ {None}
Meet ==
    \/ \E t, u \in Process :
          /\ t # u /\ InCall(t) /\ InCall(u) /\ th[t].call \in Mutators
          /\ At(t) \cap At(u) # {}
    \/ \E t \in Process : th[t].pc = "check" /\ Head(th[t].names) \in Dots
Watch == unsafe' = (unsafe \/ Meet')

Stop(why) ==
    /\ panic' = why
    /\ UNCHANGED <<disk, open_cnt, removed, fds, pwd, th, lost>>

Init ==
    /\ free_map = {ROOT_DIR_SECTOR}
    /\ is_dir = [s \in Sector |-> s = ROOT_DIR_SECTOR]
    /\ entries = [s \in Sector |->
          IF s = ROOT_DIR_SECTOR THEN NewDir(ROOT_DIR_SECTOR, ROOT_DIR_SECTOR) ELSE <<>>]
    /\ open_cnt = [s \in Sector |-> IF s = ROOT_DIR_SECTOR THEN Cardinality(Process) ELSE 0]
    /\ removed = {}
    /\ fds = [t \in Process |-> [f \in Fd |-> NoFile]]
    /\ pwd = [t \in Process |-> ROOT_DIR_SECTOR]
    /\ th = [t \in Process |-> Rest(0)]
    /\ panic = "no"
    /\ lost = [s \in Sector |-> 0]
    /\ unsafe = FALSE

MayCall(t) == Running(t, "user") /\ th[t].calls < MaxCalls[t]

-----------------------------------------------------------------------------
(* Path resolution *)

\* What a call does with the names that are left of its path
Stage(call, names) ==
    IF Len(names) > 1 THEN "walk"
    ELSE CASE call \in {"create", "mkdir"} -> "allocate"
           [] call = "remove" -> "check"
           [] OTHER -> "find"

\* thread_get_free_fd
FreeFds(t) == {f \in Fd : fds[t][f] = NoFile}

\* dir_open and file_open refuse a removed inode.
AnyInode(s) == TRUE
MayEnter(s) == s \notin removed

\* A system call up to the first name: approach_leaf opens the root or the
\* working directory, which fails if that is removed.  open wants a descriptor.
Begin(t, call, path) ==
    LET start == IF path.absolute THEN ROOT_DIR_SECTOR ELSE pwd[t] IN
    /\ MayCall(t) /\ (call = "open" => FreeFds(t) # {})
    /\ \/ /\ MayEnter(start)
          /\ th' = [th EXCEPT ![t] = [Rest(@.calls + 1) EXCEPT
                      !.pc = Stage(call, path.names), !.call = call,
                      !.names = path.names, !.dir = start]]
          /\ Inodes(<<start>>, <<>>, {})
       \/ /\ ~MayEnter(start)
          /\ th' = [th EXCEPT ![t].calls = @ + 1]
          /\ UNCHANGED <<open_cnt, removed, free_map>>
    /\ UNCHANGED <<is_dir, entries, fds, pwd, panic, lost>>
    /\ Watch

\* lookup: the entry at ofs, if it is the one that is searched
Searching == {"walk", "find", "check", "add", "erase"}
Current(t) == entries[th[t].dir][th[t].ofs]
AtEnd(t) == th[t].ofs > Len(entries[th[t].dir])
Match(t) == Current(t).in_use /\ Current(t).name = Head(th[t].names)

lookup(t) ==
    /\ panic = "no" /\ th[t].pc \in Searching /\ ~AtEnd(t)
    /\ \/ /\ Match(t)
          /\ th' = [th EXCEPT ![t].ent = Current(t),
                ![t].pc = CASE @ = "walk" -> "enter"
                            [] @ = "find" -> "open"
                            [] @ = "check" -> "check leaf"
                            [] @ = "add" -> "write slot"
                            [] @ = "erase" -> "open victim"]
       \/ /\ ~Match(t)
          /\ th' = [th EXCEPT ![t].ofs = @ + 1]
    /\ UNCHANGED <<disk, open_cnt, removed, fds, pwd, panic, lost>>
    /\ Watch

\* lookup found nothing.  A name that is not there fails the call, is what
\* create wants, makes filesys_remove look into a null inode and, when it has
\* gone in the meantime, makes dir_remove release a lock it does not hold.
NotFound(t) ==
    /\ panic = "no" /\ th[t].pc \in Searching /\ AtEnd(t)
    /\ \/ /\ th[t].pc \in {"walk", "find"}
          /\ Close(<<th[t].dir>>)
          /\ Return(t)
          /\ UNCHANGED <<is_dir, entries, fds, pwd, panic, lost>>
       \/ /\ th[t].pc = "add"
          /\ th' = [th EXCEPT ![t].pc = "slot", ![t].ofs = 1]
          /\ UNCHANGED <<disk, open_cnt, removed, fds, pwd, panic, lost>>
       \/ th[t].pc = "check" /\ Stop("null inode")
       \/ th[t].pc = "erase" /\ Stop("lock not held")
    /\ Watch

\* The next directory of the path: inode_open, dir_close, dir_open.  The inode
\* of a file is not closed again.
Enter(t) ==
    LET s == th[t].ent.sector IN
    /\ Running(t, "enter")
    /\ \/ /\ is_dir[s] /\ s \notin removed
          /\ Inodes(<<s>>, <<th[t].dir>>, {})
          /\ th' = [th EXCEPT ![t].pc = Stage(th[t].call, Tail(th[t].names)),
                              ![t].dir = s, ![t].ofs = 1, ![t].names = Tail(@),
                              ![t].ent = FreeSlot]
          /\ UNCHANGED lost
       \/ /\ is_dir[s] /\ s \in removed
          /\ Close(<<th[t].dir>>)
          /\ Return(t)
          /\ UNCHANGED lost
       \/ /\ ~is_dir[s]
          /\ Inodes(<<s>>, <<th[t].dir>>, {})
          /\ Return(t)
          /\ lost' = [lost EXCEPT ![s] = @ + 1]
    /\ UNCHANGED <<is_dir, entries, fds, pwd, panic>>
    /\ Watch

-----------------------------------------------------------------------------
(* open, chdir, close, readdir, exit *)

\* filesys_open of the last name, then open or chdir.  chdir keeps a file that
\* is not a directory open for ever.
OpenLeaf(t) ==
    LET s == th[t].ent.sector
        d == th[t].dir IN
    /\ Running(t, "open")
    /\ Return(t)
    /\ \/ /\ s \in removed
          /\ Close(<<d>>)
          /\ UNCHANGED <<fds, pwd, lost>>
       \/ /\ s \notin removed /\ th[t].call = "open"
          /\ Inodes(<<s>>, <<d>>, {})
          /\ fds' = [fds EXCEPT ![t][Least(FreeFds(t))] = [sector |-> s, pos |-> 1]]
          /\ UNCHANGED <<pwd, lost>>
       \/ /\ s \notin removed /\ th[t].call = "chdir" /\ is_dir[s]
          /\ Inodes(<<s>>, <<d, pwd[t]>>, {})
          /\ pwd' = [pwd EXCEPT ![t] = s]
          /\ UNCHANGED <<fds, lost>>
       \/ /\ s \notin removed /\ th[t].call = "chdir" /\ ~is_dir[s]
          /\ Inodes(<<s>>, <<d>>, {})
          /\ lost' = [lost EXCEPT ![s] = @ + 1]
          /\ UNCHANGED <<fds, pwd>>
    /\ UNCHANGED <<is_dir, entries, panic>>
    /\ Watch

close(t, f) ==
    /\ Running(t, "user") /\ fds[t][f] # NoFile
    /\ Close(<<fds[t][f].sector>>)
    /\ fds' = [fds EXCEPT ![t][f] = NoFile]
    /\ UNCHANGED <<is_dir, entries, pwd, th, panic, lost>>
    /\ Watch

\* dir_readdir: the next entry in use that is not a dot, or the end
readdir(t, f) ==
    LET s == fds[t][f].sector
        p == fds[t][f].pos
        left == {k \in DOMAIN entries[s] :
                    k >= p /\ entries[s][k].in_use /\ entries[s][k].name \notin Dots} IN
    /\ MayCall(t) /\ fds[t][f] # NoFile /\ is_dir[s]
    /\ fds' = [fds EXCEPT ![t][f].pos =
                 IF left = {} THEN Len(entries[s]) + 1 ELSE Least(left) + 1]
    /\ th' = [th EXCEPT ![t].calls = @ + 1]
    /\ UNCHANGED <<disk, open_cnt, removed, pwd, panic, lost>>
    /\ Watch

\* process_exit: thread_close_all_files and dir_close of the working directory
Exit(t) ==
    /\ Running(t, "user")
    /\ Close(Append([f \in Fd |-> fds[t][f].sector], pwd[t]))
    /\ fds' = [fds EXCEPT ![t] = [f \in Fd |-> NoFile]]
    /\ pwd' = [pwd EXCEPT ![t] = None]
    /\ th' = [th EXCEPT ![t].pc = "dead"]
    /\ UNCHANGED <<is_dir, entries, panic, lost>>
    /\ Watch

-----------------------------------------------------------------------------
(* create and mkdir *)

\* filesys_create: the sector, then inode_create or dir_create
Allocate(t) ==
    LET s == FirstFree
        dir == th[t].call = "mkdir" IN
    /\ Running(t, "allocate")
    /\ \/ free_map = Sector /\ Stop("no sector for the inode")
       \/ /\ free_map # Sector
          /\ free_map' = free_map \cup {s}
          /\ is_dir' = [is_dir EXCEPT ![s] = dir]
          /\ entries' = [entries EXCEPT ![s] = IF dir THEN NewDir(s, th[t].dir) ELSE <<>>]
          /\ th' = [th EXCEPT ![t].pc = "add", ![t].new = s, ![t].ofs = 1]
          /\ UNCHANGED <<open_cnt, removed, fds, pwd, panic, lost>>
    /\ Watch

\* dir_add: the search for a free slot ...
FindSlot(t) ==
    /\ Running(t, "slot")
    /\ th' = IF AtEnd(t) \/ ~Current(t).in_use THEN [th EXCEPT ![t].pc = "write slot"]
             ELSE [th EXCEPT ![t].ofs = @ + 1]
    /\ UNCHANGED <<disk, open_cnt, removed, fds, pwd, panic, lost>>
    /\ Watch

\* ... and the writing of it.  If the name exists or there is no room the sector
\* of the new inode is given back, and no other: what the file had besides stays
\* marked (leaked of Inode).
Leaked(t) == {}
GivenBack(t) == {th[t].new}
WriteSlot(t) ==
    LET d == th[t].dir
        entry == [name |-> Head(th[t].names), sector |-> th[t].new, in_use |-> TRUE]
        exists == th[t].ent # FreeSlot IN
    /\ Running(t, "write slot")
    /\ \/ /\ exists \/ th[t].ofs > MaxEntries
          /\ open_cnt' = [open_cnt EXCEPT ![d] = @ - 1]
          /\ removed' = IF open_cnt[d] = 1 THEN removed \ {d} ELSE removed
          /\ free_map' = free_map \ (GivenBack(t) \cup
                            (IF open_cnt[d] = 1 /\ d \in removed THEN {d} ELSE {}))
          /\ UNCHANGED entries
       \/ /\ ~exists /\ th[t].ofs <= MaxEntries
          /\ entries' = [entries EXCEPT ![d] =
                IF th[t].ofs > Len(@) THEN Append(@, entry) ELSE [@ EXCEPT ![th[t].ofs] = entry]]
          /\ Close(<<d>>)
    /\ Return(t)
    /\ UNCHANGED <<is_dir, fds, pwd, panic, lost>>
    /\ Watch

-----------------------------------------------------------------------------
(* remove *)

\* filesys_remove opens the inode to see whether it is a directory in use.  The
\* inode of a file is not closed again.
CheckLeaf(t) ==
    LET s == th[t].ent.sector IN
    /\ Running(t, "check leaf")
    /\ \/ /\ is_dir[s] /\ s \in removed
          /\ Stop("null directory")
       \/ /\ is_dir[s] /\ s \notin removed /\ dir_num_entries(s) > 0
          /\ Close(<<th[t].dir>>)
          /\ Return(t)
          /\ UNCHANGED <<is_dir, entries, fds, pwd, panic, lost>>
       \/ /\ is_dir[s] /\ s \notin removed /\ dir_num_entries(s) <= 0
          /\ th' = [th EXCEPT ![t].pc = "erase", ![t].ofs = 1]
          /\ UNCHANGED <<disk, open_cnt, removed, fds, pwd, panic, lost>>
       \/ /\ ~is_dir[s]
          /\ open_cnt' = [open_cnt EXCEPT ![s] = @ + 1]
          /\ lost' = [lost EXCEPT ![s] = @ + 1]
          /\ th' = [th EXCEPT ![t].pc = "erase", ![t].ofs = 1]
          /\ UNCHANGED <<disk, removed, fds, pwd, panic>>
    /\ Watch

\* dir_remove: inode_open ...
OpenVictim(t) ==
    LET s == th[t].ent.sector IN
    /\ Running(t, "open victim")
    /\ open_cnt' = [open_cnt EXCEPT ![s] = @ + 1]
    /\ th' = [th EXCEPT ![t].pc = "erase entry", ![t].child = s]
    /\ UNCHANGED <<disk, removed, fds, pwd, panic, lost>>
    /\ Watch

\* ... the entry as it was read is written back as free, inode_remove, the closes
EraseEntry(t) ==
    LET s == th[t].child
        d == th[t].dir IN
    /\ Running(t, "erase entry")
    /\ entries' = [entries EXCEPT ![d][th[t].ofs] = [th[t].ent EXCEPT !.in_use = FALSE]]
    /\ Inodes(<<>>, <<s, d>>, {s})
    /\ Return(t)
    /\ UNCHANGED <<is_dir, fds, pwd, panic, lost>>
    /\ Watch

-----------------------------------------------------------------------------
KernelStep(t) ==
    \/ lookup(t) \/ NotFound(t) \/ Enter(t) \/ OpenLeaf(t)
    \/ Allocate(t) \/ FindSlot(t) \/ WriteSlot(t)
    \/ CheckLeaf(t) \/ OpenVictim(t) \/ EraseEntry(t)

UserStep(t) ==
    \/ \E call \in Calls, path \in Paths : Begin(t, call, path)
    \/ \E f \in Fd : close(t, f) \/ readdir(t, f)
    \/ Exit(t)

Finished ==
    /\ panic # "no" \/ \A t \in Process : th[t].pc = "dead"
    /\ UNCHANGED vars

Next ==
    \/ \E t \in Process : KernelStep(t) \/ UserStep(t)
    \/ Finished

Spec == Init /\ [][Next]_vars

-----------------------------------------------------------------------------
(* Properties *)

Safe == panic = "no" /\ ~unsafe

\* Entries of a directory, but for its dots
Files(d) == {k \in DOMAIN entries[d] : entries[d][k].in_use /\ entries[d][k].name \notin Dots}
Dirs == {d \in free_map : is_dir[d]}

\* The inodes a process refers to
Holds(t) ==
    <<pwd[t], th[t].dir, th[t].child>> \o [f \in Fd |-> fds[t][f].sector]

\* The counter of an inode is the number of its openers, and of those that
\* forgot to close it; the allocated inodes are those that have a name, are
\* open or are being created.  So no call frees an inode that somebody uses,
\* and nothing but a forgotten close keeps a removed one.
InodesAccounted ==
    Safe =>
        /\ \A s \in Sector :
              open_cnt[s] = lost[s] +
                Cardinality({h \in Process \X (1 .. MAX_OPEN_FILES + 3) : Holds(h[1])[h[2]] = s})
        /\ free_map = {ROOT_DIR_SECTOR} \cup {s \in Sector : open_cnt[s] > 0}
                       \cup (UNION {{entries[d][k].sector : k \in Files(d)} : d \in Dirs})
                       \cup ({th[t].new : t \in Process} \ {None})

\* The directories form a tree: a name is used once in its directory, an inode
\* has one name, and the dots of a directory lead to itself and its parent.
\* All variables have their types.
UniqueNames(d) == \A j, k \in Files(d) : entries[d][j].name = entries[d][k].name => j = k
TreeSound ==
    /\ TypeOK
    /\ Safe =>
        \A d \in Dirs :
            /\ UniqueNames(d)
            /\ \A c \in Dirs : \A j \in Files(c), k \in Files(d) :
                  entries[c][j].sector = entries[d][k].sector => c = d /\ j = k
            /\ \A k \in Files(d) :
                  LET c == entries[d][k].sector IN
                  is_dir[c] => entries[c][1].sector = c /\ entries[c][2].sector = d

\* A directory that is removed is empty and stays so, whoever works in it or has
\* it open.  A call that was already in it when it was removed is excluded: the
\* two have met, and dir_add may write into it.
RemovedEmpty == Safe => \A s \in removed : is_dir[s] => Files(s) = {}
=============================================================================
