-------------------------------- MODULE Inode --------------------------------
(***************************************************************************)
(* Inodes of Project5 (filesys/inode.c, the inode part of file.c) and the  *)
(* free map (free-map.c): threads open, read, write, grow, remove, close   *)
(* and create files over one device.  The buffer cache below is the block  *)
(* store that BufferCache shows it to be, except for a sector that is      *)
(* changed and released as unchanged.  A step is what a thread does        *)
(* between two waits for a sector lock, one level of an allocation, or one *)
(* sector of a copy.                                                       *)
(***************************************************************************)
EXTENDS Integers, FiniteSets

CONSTANTS
    Thread,
    NSectors,           \* size of the device, without the system sectors
    REDIRECTION_LEVEL,  \* levels of the index
    ON_INODE_DIR_SIZE,  \* pointers in the inode
    FANOUT,             \* pointers in an index sector (128 in the code)
    BLOCK_SECTOR_SIZE,  \* bytes in a sector
    Requests,           \* the <<offset, size>> that are written
    MaxCalls            \* bound on the calls of a thread

Sector == 1 .. NSectors
Struct == 1 .. Cardinality(Thread)  \* a freed one is used again when nobody points to it
None == 0               \* a sector number of -1, a null pointer, nobody
Zero == 0
Power[l \in 0 .. REDIRECTION_LEVEL] == IF l = 0 THEN 1 ELSE FANOUT * Power[l - 1]
Index == 0 .. ON_INODE_DIR_SIZE * Power[REDIRECTION_LEVEL - 1] - 1
Pos == 0 .. Cardinality(Index) * BLOCK_SECTOR_SIZE - 1
Byte == 0 .. BLOCK_SECTOR_SIZE - 1
Entry == 0 .. (IF FANOUT > ON_INODE_DIR_SIZE THEN FANOUT ELSE ON_INODE_DIR_SIZE) - 1

\* A request ends within the largest file.
ASSUME InodeAssumption ==
    /\ Thread \subseteq Nat \ {None} /\ IsFiniteSet(Thread)
    /\ NSectors \in Nat /\ MaxCalls \in Nat
    /\ REDIRECTION_LEVEL \in Nat \ {0, 1} /\ FANOUT \in Nat \ {0}
    /\ ON_INODE_DIR_SIZE \in Nat \ {0} /\ BLOCK_SECTOR_SIZE \in Nat \ {0}
    /\ \A r \in Requests : r[1] \in Nat /\ r[2] \in Nat \ {0} /\ r[1] + r[2] - 1 \in Pos

VARIABLES
    free_map,       \* allocated sectors
    ptr,            \* [Sector -> [Entry -> Sector or None]]: pointers of inodes and indexes
    length,         \* [Sector -> Nat]: length in the inode on disk
    bytes,          \* [Sector -> [Byte -> value]]: contents of data sectors
    lock,           \* [Sector -> the thread that took the sector to write, or None]
    unsaved,        \* index sectors whose contents are in the cache only, as unchanged
    garbage,        \* index sectors whose contents were dropped by the cache
    inode,          \* [Struct -> struct inode]
    open_inodes,    \* structs in the list
    linked,         \* inodes that have a directory entry
    th,             \* [Thread -> where it is, and its locals]
    panic,          \* why the kernel has stopped, or "no"
    expect,         \* history: [Sector -> [Pos -> what the file should hold]]
    shared,         \* history: inodes two threads were opening, or had open as two structs
    leaked          \* history: sectors of files that were created and not linked

disk == <<free_map, ptr, length, bytes, unsaved, garbage>>
memory == <<inode, open_inodes>>
history == <<expect, shared, leaked>>
vars == <<disk, lock, memory, linked, th, panic, history>>

Points == {"idle", "open", "publish", "settle", "reopen", "close", "cleanup",
           "write", "grow", "copy"}

TypeOK ==
    /\ free_map \subseteq Sector /\ linked \subseteq Sector /\ shared \subseteq Sector
    /\ unsaved \subseteq Sector /\ garbage \subseteq Sector /\ leaked \subseteq Sector
    /\ ptr \in [Sector -> [Entry -> Sector \cup {None}]]
    /\ length \in [Sector -> 0 .. Cardinality(Pos)]
    /\ bytes \in [Sector -> [Byte -> Thread \cup {Zero}]]
    /\ lock \in [Sector -> Thread \cup {None}]
    /\ inode \in [Struct -> [sector : Sector \cup {None}, open_cnt : Nat, removed : BOOLEAN,
                             deny_write_cnt : Nat, length : Nat]]
    /\ open_inodes \subseteq Struct
    /\ th \in [Thread -> [pc : Points, ino : Struct \cup {None}, main : Sector \cup {None},
                          idx : Nat, start : Nat, level : 1 .. REDIRECTION_LEVEL,
                          cur : Sector \cup {None}, fresh : BOOLEAN, creating : BOOLEAN,
                          offset : Nat, end : Nat, grown : BOOLEAN, deny_write : BOOLEAN,
                          calls : 0 .. MaxCalls]]

-----------------------------------------------------------------------------
(* The index of an inode *)

bytes_to_sectors(n) == (n + BLOCK_SECTOR_SIZE - 1) \div BLOCK_SECTOR_SIZE

\* get_redirection_ids: the entries to follow, from the inode to the data
get_redirection_ids(i) ==
    [l \in 1 .. REDIRECTION_LEVEL |->
        LET q == i \div Power[REDIRECTION_LEVEL - l] IN IF l = 1 THEN q ELSE q % FANOUT]

\* The sectors on the way to index i of inode m: m itself, then one per level
Way(m, i) ==
    LET w[l \in 0 .. REDIRECTION_LEVEL] ==
            IF l = 0 THEN m
            ELSE IF w[l - 1] = None THEN None
            ELSE ptr[w[l - 1]][get_redirection_ids(i)[l]]
    IN  w
get_inode_sector(m, i) == Way(m, i)[REDIRECTION_LEVEL]

\* All nodes of the tree, each with its place in its level, and their sectors
Place(i, l) == IF l = 0 THEN 0 ELSE i \div Power[REDIRECTION_LEVEL - l]
Node(m) ==
    {<<l, Place(i, l), Way(m, i)[l]>> : l \in 0 .. REDIRECTION_LEVEL, i \in Index}
Reach(m) == {n[3] : n \in Node(m)} \ {None}

\* Some index sector of the inode lost its contents.
Lost(m) == Reach(m) \cap garbage # {}

Least(S) == CHOOSE x \in S : \A y \in S : x <= y
Empty == [e \in Entry |-> None]

Running(t, at) == panic = "no" /\ th[t].pc = at
Goto(t, to) == th' = [th EXCEPT ![t].pc = to]
Freed(i) == inode[i].sector = None

\* PANIC, a failed ASSERT, a null pointer, or memory and sectors that are
\* somebody else's by now
Stop(why) ==
    /\ panic' = why
    /\ UNCHANGED <<disk, lock, memory, linked, th, history>>

\* Between two calls a thread has an open file or none.
Rest(i, deny, n) ==
    [pc |-> "idle", ino |-> i, main |-> None, idx |-> 0, start |-> 0, level |-> 1,
     cur |-> None, fresh |-> FALSE, creating |-> FALSE, offset |-> 0, end |-> 0,
     grown |-> FALSE, deny_write |-> deny, calls |-> n]
Return(t) == th' = [th EXCEPT ![t] = Rest(@.ino, @.deny_write, @.calls)]

Init ==
    /\ free_map = {} /\ linked = {} /\ unsaved = {} /\ garbage = {} /\ shared = {}
    /\ leaked = {}
    /\ ptr = [s \in Sector |-> Empty] /\ length = [s \in Sector |-> 0]
    /\ bytes = [s \in Sector |-> [b \in Byte |-> Zero]]
    /\ lock = [s \in Sector |-> None]
    /\ inode = [i \in Struct |-> [sector |-> None, open_cnt |-> 0, removed |-> FALSE,
                                  deny_write_cnt |-> 0, length |-> 0]]
    /\ open_inodes = {}
    /\ th = [t \in Thread |-> Rest(None, FALSE, 0)]
    /\ panic = "no"
    /\ expect = [s \in Sector |-> [p \in Pos |-> Zero]]

MayCall(t) == Running(t, "idle") /\ th[t].calls < MaxCalls

-----------------------------------------------------------------------------
(* Opening and closing *)

\* inode_open: the search in open_inodes, of an inode found in a directory
inode_open(t, s) ==
    /\ MayCall(t) /\ th[t].ino = None /\ s \in linked
    /\ \/ \E i \in open_inodes :
             /\ inode[i].sector = s
             /\ th' = [th EXCEPT ![t].pc = "reopen", ![t].ino = i, ![t].calls = @ + 1]
       \/ /\ \A i \in open_inodes : inode[i].sector # s
          /\ th' = [th EXCEPT ![t].pc = "open", ![t].main = s, ![t].calls = @ + 1]
    /\ UNCHANGED <<disk, lock, memory, linked, panic, history>>

\* file_open gives a removed inode back.
AfterOpen(t, i, removed) ==
    th' = [th EXCEPT ![t].pc = IF removed THEN "close" ELSE "idle", ![t].ino = i,
                     ![t].main = None]

\* Nobody is still at work on the fields of the struct.
Settled(i) == \A u \in Thread : th[u].pc = "settle" => th[u].ino # i
NotCounted(i) == inode[i].open_cnt
Counted(i) == inode[i].open_cnt + 1
inode_reopen(t) ==
    LET i == th[t].ino IN
    /\ Running(t, "reopen")
    /\ \/ Freed(i) /\ Stop("freed inode")
       \/ /\ ~Freed(i)
          /\ inode' = [inode EXCEPT ![i].open_cnt = Counted(i)]
          /\ AfterOpen(t, i, inode[i].removed)
          /\ shared' = IF Settled(i) THEN shared ELSE shared \cup {inode[i].sector}
          /\ UNCHANGED <<disk, lock, open_inodes, linked, panic, expect, leaked>>

\* ... and the rest of inode_open: the length is read once nobody writes to the
\* inode, into a struct that nobody else knows (a local, up to Publish).  An
\* inode that is unlinked by now may have been freed: what is read is undefined.
ReadInode(t) ==
    LET s == th[t].main IN
    /\ Running(t, "open") /\ lock[s] = None
    /\ \/ s \notin linked /\ Stop("unlinked inode")
       \/ /\ s \in linked
          /\ th' = [th EXCEPT ![t].pc = "publish", ![t].start = length[s]]
          /\ UNCHANGED <<disk, lock, memory, linked, panic, history>>

\* list_push_front, and the sector that a search goes by (up to then a search
\* passes the struct over: no sector has the number 0xcccccccc).  The counters
\* and the flag still are what malloc found in the memory: zeros, or what free
\* has filled it with.
Unused == {i \in Struct : Freed(i) /\ \A u \in Thread : th[u].ino # i}
Filled == Cardinality(Thread) + 2   \* 0xcccccccc: no count comes near it
Contended(t, s) ==
    \/ \E i \in open_inodes : inode[i].sector = s
    \/ \E u \in Thread \ {t} : th[u].pc \in {"open", "publish"} /\ th[u].main = s
Publish(t) ==
    LET s == th[t].main
        i == Least(Unused) IN
    /\ Running(t, "publish")
    /\ \/ s \notin linked /\ Stop("unlinked inode")
       \/ /\ s \in linked
          /\ \E junk \in {0, Filled} :
                inode' = [inode EXCEPT ![i] =
                    [sector |-> s, open_cnt |-> junk, removed |-> junk # 0,
                     deny_write_cnt |-> junk, length |-> th[t].start]]
          /\ open_inodes' = open_inodes \cup {i}
          /\ th' = [th EXCEPT ![t].pc = "settle", ![t].ino = i, ![t].start = 0]
          /\ shared' = IF Contended(t, s) THEN shared \cup {s} ELSE shared
          /\ UNCHANGED <<disk, lock, linked, panic, expect, leaked>>

\* The counters are set, whoever has changed them since.
Settle(t) ==
    LET i == th[t].ino IN
    /\ Running(t, "settle")
    /\ \/ Freed(i) /\ Stop("freed inode")
       \/ /\ ~Freed(i)
          /\ inode' = [inode EXCEPT ![i] =
                [sector |-> inode[i].sector, open_cnt |-> 1, removed |-> FALSE,
                 deny_write_cnt |-> 0, length |-> inode[i].length]]
          /\ AfterOpen(t, i, FALSE)
          /\ UNCHANGED <<disk, lock, open_inodes, linked, panic, history>>

\* dir_remove, once the entry is erased: inode_remove
inode_remove(t) ==
    LET i == th[t].ino IN
    /\ MayCall(t) /\ i # None /\ inode[i].sector \in linked
    /\ linked' = linked \ {inode[i].sector}
    /\ inode' = [inode EXCEPT ![i].removed = TRUE]
    /\ th' = [th EXCEPT ![t].calls = @ + 1]
    /\ UNCHANGED <<disk, lock, open_inodes, panic, history>>

\* file_deny_write, for the executable of a process
file_deny_write(t) ==
    LET i == th[t].ino IN
    /\ MayCall(t) /\ i # None /\ ~th[t].deny_write
    /\ \/ Freed(i) /\ Stop("freed inode")
       \/ /\ ~Freed(i)
          /\ th' = [th EXCEPT ![t].deny_write = TRUE, ![t].calls = @ + 1]
          /\ inode' = [inode EXCEPT ![i].deny_write_cnt = @ + 1]
          /\ UNCHANGED <<disk, lock, open_inodes, linked, panic, history>>

\* file_close: file_allow_write, then inode_close up to its wait
Denials(t) == IF th[t].deny_write THEN 1 ELSE 0
file_close(t) ==
    LET i == th[t].ino
        last == inode[i].open_cnt = 1 IN
    /\ \/ Running(t, "idle") /\ i # None
       \/ Running(t, "close")
    /\ \/ Freed(i) /\ Stop("freed inode")
       \/ /\ ~Freed(i)
          /\ inode' = [inode EXCEPT
                ![i].deny_write_cnt = @ - Denials(t),
                ![i].open_cnt = @ - 1,
                ![i].sector = IF last /\ ~inode[i].removed THEN None ELSE @]
          /\ open_inodes' = IF last THEN open_inodes \ {i} ELSE open_inodes
          /\ th' = [th EXCEPT ![t].pc = IF last /\ inode[i].removed THEN "cleanup" ELSE "idle",
                              ![t].ino = IF last /\ inode[i].removed THEN i ELSE None,
                              ![t].deny_write = FALSE]
          /\ UNCHANGED <<disk, lock, linked, panic, history>>

\* inode_dir_cleanup of a removed inode, then its own sector and struct.  The
\* ASSERT of free_map_release is a guard: no thread is ever stuck on it.
AllButItself(m) == Reach(m) \ {m}
Released(m) == Reach(m)
inode_dir_cleanup(t) ==
    LET i == th[t].ino
        m == inode[i].sector IN
    /\ Running(t, "cleanup")
    /\ \/ Freed(i) /\ Stop("freed inode")
       \/ /\ ~Freed(i) /\ lock[m] = None
          /\ Lost(m) /\ Stop("garbage index")
       \/ /\ ~Freed(i) /\ lock[m] = None
          /\ ~Lost(m) /\ Reach(m) \subseteq free_map
          /\ free_map' = free_map \ Released(m)
          /\ unsaved' = unsaved \ Reach(m)
          /\ ptr' = [ptr EXCEPT ![m] = Empty]
          /\ inode' = [inode EXCEPT ![i].sector = None]
          /\ th' = [th EXCEPT ![t].pc = "idle", ![t].ino = None]
          /\ UNCHANGED <<length, bytes, garbage, lock, open_inodes, linked, panic, history>>

-----------------------------------------------------------------------------
(* Growing *)

\* Allocation of index th[t].idx of inode m starts at the inode.
Allocate(t, m, i) ==
    [th EXCEPT ![t].idx = i, ![t].level = 1, ![t].cur = m, ![t].fresh = FALSE]

\* All sectors are there.  inode_write_at goes on to copy; inode_create writes
\* the inode, and dir_add links it or fails: then filesys_create gives back the
\* sector of the inode and no other.
Linked(t, m) ==
    /\ linked' = linked \cup {m}
    /\ UNCHANGED <<free_map, leaked>>
NotLinked(t, m) ==
    /\ free_map' = free_map \ {m}
    /\ leaked' = leaked \cup (Reach(m) \ {m})
    /\ UNCHANGED linked
Allocated(t, m) ==
    \/ /\ th[t].creating
       /\ length' = [length EXCEPT ![m] = th[t].end]
       /\ lock' = [lock EXCEPT ![m] = None]
       /\ Return(t)
       /\ Linked(t, m) \/ NotLinked(t, m)
    \/ /\ ~th[t].creating
       /\ th' = [th EXCEPT ![t].pc = "copy", ![t].grown = TRUE]
       /\ UNCHANGED <<free_map, length, linked, lock, leaked>>

\* filesys_create: the sector of the inode, then inode_create of a file of n
\* bytes.  Nobody else can see the inode: its lock stands for the private copy.
filesys_create(t, n) ==
    /\ MayCall(t) /\ th[t].ino = None
    /\ \/ free_map = Sector /\ Stop("no sector for the inode")
       \/ /\ free_map # Sector
          /\ LET m == Least(Sector \ free_map) IN
                /\ free_map' = free_map \cup {m}
                /\ ptr' = [ptr EXCEPT ![m] = Empty]
                /\ lock' = [lock EXCEPT ![m] = t]
                /\ expect' = [expect EXCEPT ![m] = [p \in Pos |-> Zero]]
                /\ th' = [Allocate(t, m, 0) EXCEPT
                            ![t].pc = "grow", ![t].main = m, ![t].creating = TRUE,
                            ![t].start = 0, ![t].end = n, ![t].calls = @ + 1]
          /\ UNCHANGED <<length, bytes, unsaved, garbage, memory, linked, panic, shared, leaked>>

\* allocate_inode_sector failed.  A file that could not be created stops the
\* kernel; so does giving back what a write had already allocated, as the
\* parent is released under the number of the child.
Failed(t, m) ==
    IF th[t].creating \/ th[t].idx > th[t].start
      THEN /\ panic' = IF th[t].creating THEN "no inode" ELSE "wrong sector"
           /\ UNCHANGED <<lock, th>>
      ELSE /\ lock' = [lock EXCEPT ![m] = None]
           /\ Return(t)
           /\ UNCHANGED panic

\* One level of allocate_inode_sector: a sector that is new is filled with -1,
\* or with zeros if it is the last.
AllocateLevel(t) ==
    LET m == th[t].main
        l == th[t].level
        parent == th[t].cur
        slot == get_redirection_ids(th[t].idx)[l]
        altered == ptr[parent][slot] = None
        child == IF altered THEN Least(Sector \ free_map) ELSE ptr[parent][slot] IN
    /\ Running(t, "grow") /\ th[t].idx < bytes_to_sectors(th[t].end)
    /\ \/ parent \in garbage /\ Stop("garbage index")
       \/ /\ parent \notin garbage /\ altered /\ free_map = Sector
          /\ unsaved' = IF th[t].fresh THEN unsaved \cup {parent} ELSE unsaved
          /\ Failed(t, m)
          /\ UNCHANGED <<free_map, ptr, length, bytes, garbage, memory, linked, history>>
       \/ /\ parent \notin garbage /\ (altered => free_map # Sector)
          /\ free_map' = free_map \cup {child}
          /\ ptr' = [ptr EXCEPT ![parent][slot] = child,
                                ![child] = IF altered THEN Empty ELSE @]
          /\ unsaved' = IF altered THEN unsaved \ {parent} ELSE unsaved
          /\ bytes' = IF altered /\ l = REDIRECTION_LEVEL
                        THEN [bytes EXCEPT ![child] = [b \in Byte |-> Zero]] ELSE bytes
          /\ th' = IF l < REDIRECTION_LEVEL
                     THEN [th EXCEPT ![t].level = l + 1, ![t].cur = child,
                                     ![t].fresh = altered]
                     ELSE Allocate(t, m, th[t].idx + 1)
          /\ UNCHANGED <<length, garbage, lock, memory, linked, panic, history>>

GrowthDone(t) ==
    /\ Running(t, "grow") /\ th[t].idx >= bytes_to_sectors(th[t].end)
    /\ Allocated(t, th[t].main)
    /\ UNCHANGED <<ptr, bytes, unsaved, garbage, memory, panic, expect, shared>>

\* The cache evicts a sector that was changed and released as unchanged.
CacheDrops(s) ==
    /\ panic = "no" /\ s \in unsaved /\ \A t \in Thread : th[t].pc # "grow" \/ th[t].cur # s
    /\ unsaved' = unsaved \ {s}
    /\ garbage' = garbage \cup {s}
    /\ UNCHANGED <<free_map, ptr, length, bytes, lock, memory, linked, th, panic, history>>

-----------------------------------------------------------------------------
(* Writing and reading *)

\* inode_write_at up to its wait for the inode: the sectors to allocate are
\* counted from the length it has now.
inode_write_at(t, r) ==
    LET i == th[t].ino IN
    /\ MayCall(t) /\ i # None
    /\ \/ Freed(i) /\ Stop("freed inode")
       \/ /\ ~Freed(i)
          /\ th' = IF inode[i].deny_write_cnt # 0 THEN [th EXCEPT ![t].calls = @ + 1]
                   ELSE [th EXCEPT ![t].pc = "write", ![t].main = inode[i].sector,
                                   ![t].offset = r[1], ![t].end = r[1] + r[2],
                                   ![t].start = bytes_to_sectors(inode[i].length),
                                   ![t].calls = @ + 1]
          /\ UNCHANGED <<disk, lock, memory, linked, panic, history>>

\* With the inode: beyond the end the sectors are allocated first, and the
\* inode is kept until the end of the write.
AlwaysGrows(t) == TRUE
Grows(t) == inode[th[t].ino].length < th[t].end
Locked(t) ==
    LET m == th[t].main
        i == th[t].ino IN
    /\ Running(t, "write") /\ lock[m] = None
    /\ \/ Freed(i) /\ Stop("freed inode")
       \/ /\ ~Freed(i) /\ Grows(t)
          /\ lock' = [lock EXCEPT ![m] = t]
          /\ th' = [Allocate(t, m, th[t].start) EXCEPT ![t].pc = "grow"]
          /\ expect' = [expect EXCEPT ![m] =
                [p \in Pos |-> IF p < inode[i].length THEN @[p]
                               ELSE IF p >= th[t].offset /\ p < th[t].end THEN t ELSE Zero]]
          /\ UNCHANGED <<disk, memory, linked, panic, shared, leaked>>
       \/ /\ ~Freed(i) /\ ~Grows(t)
          /\ Goto(t, "copy")
          /\ UNCHANGED <<disk, lock, memory, linked, panic, history>>

\* One sector of the copy: n bytes from first on
FromTheStart(first, n) == 0 .. n - 1
Chunk(first, n) == first .. first + n - 1
RoundedUp(o, last) ==
    LET room == bytes_to_sectors(o) * BLOCK_SECTOR_SIZE IN IF room < last THEN room ELSE last
ChunkEnd(o, last) ==
    LET room == o + BLOCK_SECTOR_SIZE - (o % BLOCK_SECTOR_SIZE)
    IN  IF room < last THEN room ELSE last
Copy(t) ==
    LET m == th[t].main
        o == th[t].offset
        s == get_inode_sector(m, o \div BLOCK_SECTOR_SIZE)
        first == o % BLOCK_SECTOR_SIZE
        next == ChunkEnd(o, th[t].end) IN
    /\ Running(t, "copy") /\ o < th[t].end
    /\ \/ s = None /\ Stop("null handle")
       \/ /\ s # None
          /\ bytes' = [bytes EXCEPT ![s] =
                [b \in Byte |-> IF b \in Chunk(first, next - o) THEN t ELSE @[b]]]
          /\ expect' = [expect EXCEPT ![m] =
                [p \in Pos |-> IF p >= o /\ p < next THEN t ELSE @[p]]]
          /\ th' = [th EXCEPT ![t].offset = next]
          /\ UNCHANGED <<free_map, ptr, length, unsaved, garbage, lock, memory, linked, panic,
                         shared, leaked>>

\* The end of the write: the new length is published last, on the disk and in
\* the struct.
SavedLength(t) == th[t].end
Written(t) ==
    LET m == th[t].main
        i == th[t].ino IN
    /\ Running(t, "copy") /\ th[t].offset = th[t].end
    /\ \/ th[t].grown /\ Freed(i) /\ Stop("freed inode")
       \/ /\ th[t].grown /\ ~Freed(i)
          /\ length' = [length EXCEPT ![m] = SavedLength(t)]
          /\ inode' = [inode EXCEPT ![i].length = th[t].end]
          /\ lock' = [lock EXCEPT ![m] = None]
          /\ Return(t)
          /\ UNCHANGED <<free_map, ptr, bytes, unsaved, garbage, open_inodes, linked, panic,
                         history>>
       \/ /\ ~th[t].grown
          /\ Return(t)
          /\ UNCHANGED <<disk, lock, memory, linked, panic, history>>

\* What inode_read_at finds at a position of an open inode before its end, if
\* there is a sector for it
Backed(i, p) == get_inode_sector(inode[i].sector, p \div BLOCK_SECTOR_SIZE) # None
inode_read_at(i, p) ==
    LET s == get_inode_sector(inode[i].sector, p \div BLOCK_SECTOR_SIZE)
    IN  bytes[s][p % BLOCK_SECTOR_SIZE]
-----------------------------------------------------------------------------
Step(t) ==
    \/ inode_reopen(t) \/ ReadInode(t) \/ Publish(t) \/ Settle(t)
    \/ file_close(t) \/ inode_dir_cleanup(t)
    \/ AllocateLevel(t) \/ GrowthDone(t)
    \/ Locked(t) \/ Copy(t) \/ Written(t)

Call(t) ==
    \/ \E s \in Sector : inode_open(t, s)
    \/ inode_remove(t) \/ file_deny_write(t)
    \/ \E n \in {0, 1} : filesys_create(t, n)
    \/ \E r \in Requests : inode_write_at(t, r)

\* All threads have made their calls, or the kernel has stopped.
Finished ==
    /\ panic # "no" \/ \A t \in Thread : th[t].pc = "idle"
    /\ UNCHANGED vars

Next ==
    \/ \E t \in Thread : Step(t) \/ Call(t)
    \/ \E s \in Sector : CacheDrops(s)
    \/ Finished

\* A thread in a call is scheduled again and again; a lock that is free again
\* and again is got in the end, as its waiters are queued.
Fairness == \A t \in Thread : SF_vars(th[t].pc # "idle" /\ Step(t))
Spec == Init /\ [][Next]_vars /\ Fairness

-----------------------------------------------------------------------------
(* Properties.  They speak about the states before the kernel stops and, but *)
(* for the last, about inodes that no two threads were opening at once (one   *)
(* past its search when the other puts its struct in the list, or finds it    *)
(* there before its counters are set).                                        *)

Sound == panic = "no" /\ shared = {}

\* The inodes in use: linked, being created, or removed and not yet closed
InUse ==
    (linked \cup {inode[i].sector : i \in Struct}
            \cup {th[t].main : t \in {u \in Thread : th[u].creating}}) \ {None}

\* A sector that is marked in the free map has one place in one inode in use,
\* or is one that a create left behind when its dir_add failed: growth, its
\* failure, removal and the last close neither lose a sector nor give it to two
\* files, and what is left behind is never given to a file again.
SectorsOwned ==
    Sound =>
        /\ free_map = leaked \cup UNION {Reach(m) : m \in InUse}
        /\ \A m \in InUse : Reach(m) \cap leaked = {}
        /\ \A m, n \in InUse : \A x \in Node(m), y \in Node(n) :
              x[3] = y[3] /\ x[3] # None => m = n /\ x = y

\* A reader finds in every position before the end what was last written there
\* or, in a gap, zeros: never the zeros of a sector that is still being filled.
ReadsWritten ==
    Sound =>
        \A i \in open_inodes : \A p \in Pos :
            p < inode[i].length =>
                Backed(i, p) /\ inode_read_at(i, p) = expect[inode[i].sector][p]

\* Whoever grows a file, the length in memory is the length on disk, and a file
\* never gets shorter while it is linked: not when two writers extend it from
\* lengths they read before they had the inode.
LengthStored == \A i \in open_inodes : inode[i].length = length[inode[i].sector]
LengthsKept ==
    [][Sound' => LengthStored' /\ \A m \in linked \cap InUse' : length'[m] >= length[m]]_vars

\* The counters of an open inode, once inode_open has set them, are those of its
\* openers: the ASSERTs of inode_deny_write and inode_allow_write hold.  All
\* variables have their types.
Openers(i) ==
    {t \in Thread : /\ th[t].ino = i
                    /\ th[t].pc \notin {"settle", "reopen", "cleanup"}}
CountsMatch ==
    shared = {} =>
        /\ TypeOK
        /\ \A i \in open_inodes : Settled(i) =>
              /\ inode[i].open_cnt = Cardinality(Openers(i))
              /\ inode[i].deny_write_cnt = Cardinality({t \in Openers(i) : th[t].deny_write})

\* Every call ends.
CallsEnd == \A t \in Thread : th[t].pc # "idle" ~> (th[t].pc = "idle" \/ panic # "no")
=============================================================================
