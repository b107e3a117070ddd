----------------------------- MODULE BufferCache -----------------------------
(***************************************************************************)
(* The write-back buffer cache of the Project5 kernel (filesys/cache.c):   *)
(* SECTOR_COUNT sectors of memory in front of the file system's disk,      *)
(* shared by every kernel thread through take_sector / release_sector and  *)
(* flushed by the "write-behind" thread.                                   *)
(*                                                                         *)
(* The kernel is preemptive, so a thread can lose the CPU between any two  *)
(* instructions; one action is a stretch of code whose accesses to shared  *)
(* state are protected by the locks it holds, or a single unprotected      *)
(* access (evict_sector reads owners without owners_lock, the flush reads  *)
(* dirty without it).  A device transfer is a step of its own wherever     *)
(* another thread can touch the sector while it is in progress.            *)
(***************************************************************************)
EXTENDS Integers, FiniteSets

CONSTANTS
  Threads,     (* kernel threads that call into the file system             *)
  Flusher,     (* the write-behind thread (and the flush at shutdown)       *)
  NoThread,    (* the NULL holder of a lock                                 *)
  Blocks,      (* block_sector_t: numbers of the sectors of the device      *)
  NoBlock,     (* (block_sector_t)(-1)                                      *)
  Values,      (* contents of one sector                                    *)
  Zero,        (* what the cache's static storage holds at boot             *)
  SECTOR_COUNT,
  MaxHold,     (* bound: sectors one thread owns at the same time           *)
  MaxTakes,    (* bound: calls of take_sector per thread                    *)
  MaxFlushes   (* bound: passes of sector_cache_flush                       *)

ASSUME CacheAssumption ==
  /\ IsFiniteSet(Threads)
  /\ Flusher \notin Threads
  /\ NoThread \notin Threads \cup {Flusher}
  /\ Blocks \subseteq Nat
  /\ NoBlock \notin Blocks
  /\ Zero \in Values
  /\ SECTOR_COUNT \in Nat \ {0}
  /\ MaxHold \in Nat /\ MaxTakes \in Nat /\ MaxFlushes \in Nat

VARIABLES
  disk,         (* contents of the block device                             *)
  index, data, dirty, owners, sector_lock, owners_lock,  (* struct sector   *)
  cache_lock, cache_sem, free_list,                      (* struct cache    *)
  clock_hand,
  pc,           (* where each thread is; "run" = outside cache.c            *)
  arg,          (* arg[t]: the block t asked take_sector for                *)
  block,        (* block[t]: take_sector's block, release_sector's blocked  *)
  res,          (* res[t]: the sector t is taking or releasing              *)
  end,          (* evict_sector's local                                     *)
  refs,         (* <<t, s, b>>: t owns s, taken with block = b              *)
  wrote,        (* those of refs through which the data was modified        *)
  takes,        (* calls of take_sector made so far                         *)
  fpc, i,       (* where the flush is and its loop variable                 *)
  flushes       (* flushes made so far                                      *)

sectorVars == <<index, data, dirty, owners, sector_lock, owners_lock>>
cacheVars  == <<cache_lock, cache_sem, free_list, clock_hand>>
localVars  == <<arg, block, res, end>>
refVars    == <<refs, wrote>>
flushVars  == <<fpc, i, flushes>>
vars == <<disk, sectorVars, cacheVars, pc, localVars, refVars, takes, flushVars>>

Sectors == 0 .. SECTOR_COUNT - 1
Actors  == Threads \cup {Flusher}
Refs    == Threads \X Sectors \X BOOLEAN

PCs == {"run", "take", "hit", "hitdown", "miss", "scan", "evict", "fill",
        "lock", "up", "unlock", "panic"}
FlushPCs == {"run", "loop", "write", "clean"}

(* The representation of every variable. *)
TypeOK ==
  /\ disk \in [Blocks -> Values]
  /\ index \in [Sectors -> Blocks \cup {NoBlock}]
  /\ data \in [Sectors -> Values]
  /\ dirty \in [Sectors -> BOOLEAN]
  /\ owners \in [Sectors -> Nat]
  /\ sector_lock \in [Sectors -> Threads \cup {NoThread}]
  /\ owners_lock \in [Sectors -> Actors \cup {NoThread}]
  /\ cache_lock \in Actors \cup {NoThread}
  /\ cache_sem \in Nat
  /\ free_list \in SUBSET Sectors
  /\ clock_hand \in Sectors
  /\ pc \in [Threads -> PCs]
  /\ arg \in [Threads -> Blocks \cup {NoBlock}]
  /\ block \in [Threads -> BOOLEAN]
  /\ res \in [Threads -> Sectors]
  /\ end \in Sectors
  /\ refs \in SUBSET Refs
  /\ wrote \in SUBSET Refs
  /\ takes \in [Threads -> 0 .. MaxTakes]
  /\ fpc \in FlushPCs
  /\ i \in 0 .. SECTOR_COUNT
  /\ flushes \in 0 .. MaxFlushes

-----------------------------------------------------------------------------
(* cache_init and sector_init; the device holds anything. *)
Init ==
  /\ disk \in [Blocks -> Values]
  /\ index = [s \in Sectors |-> NoBlock]
  /\ data = [s \in Sectors |-> Zero]
  /\ dirty = [s \in Sectors |-> FALSE]
  /\ owners = [s \in Sectors |-> 0]
  /\ sector_lock = [s \in Sectors |-> NoThread]
  /\ owners_lock = [s \in Sectors |-> NoThread]
  /\ cache_lock = NoThread
  /\ cache_sem = SECTOR_COUNT
  /\ free_list = Sectors
  /\ clock_hand = 0
  /\ pc = [t \in Threads |-> "run"]
  /\ arg = [t \in Threads |-> NoBlock]
  /\ block = [t \in Threads |-> FALSE]
  /\ res = [t \in Threads |-> 0]
  /\ end = 0
  /\ refs = {}
  /\ wrote = {}
  /\ takes = [t \in Threads |-> 0]
  /\ fpc = "run"
  /\ i = 0
  /\ flushes = 0

Goto(t, from, to) == pc[t] = from /\ pc' = [pc EXCEPT ![t] = to]

(* hash_find in index_sectors_map.  The table holds the sectors that have  *)
(* an index, except inside take_sector's own critical section.             *)
hash_find(b) == {s \in Sectors : index[s] = b}

(* The order in which a thread may nest its takes.  inode.c locks a file's *)
(* own sector before its index sectors and those before the free map's; it *)
(* re-takes a sector it has locked only with block = false.                *)
MayTake(t, b, bl) ==
  /\ Cardinality({r \in refs : r[1] = t}) < MaxHold
  /\ \A r \in refs : r[1] = t /\ index[r[2]] = b => r[3] /\ ~bl
  /\ bl => \A r \in refs : r[1] = t => index[r[2]] < b

-----------------------------------------------------------------------------
(* sema_down and sema_up on cache_sem.  The faulty forms below, here and    *)
(* elsewhere, are what the properties are tested against.                   *)
NoWaitDown == cache_sem' = cache_sem - 1
NoPermit == UNCHANGED cache_sem
sema_down == cache_sem > 0 /\ cache_sem' = cache_sem - 1
sema_up == cache_sem' = cache_sem + 1

(* lock_acquire and lock_release on a sector's owners_lock. *)
NoOwnersLock(a, s) == UNCHANGED owners_lock
AcquireOwners(a, s) ==
  owners_lock[s] = NoThread /\ owners_lock' = [owners_lock EXCEPT ![s] = a]
ReleaseOwners(s) == owners_lock' = [owners_lock EXCEPT ![s] = NoThread]

-----------------------------------------------------------------------------
(* take_sector *)

(* The call: ASSERT, then wait for cache_lock. *)
take_sector(t, b, bl) ==
  /\ Goto(t, "run", "take")
  /\ takes[t] < MaxTakes
  /\ MayTake(t, b, bl)
  /\ takes' = [takes EXCEPT ![t] = @ + 1]
  /\ arg' = [arg EXCEPT ![t] = b]
  /\ block' = [block EXCEPT ![t] = bl]
  /\ UNCHANGED <<disk, sectorVars, cacheVars, res, end, refVars, flushVars>>

(* cache_lock acquired and the table searched. *)
LookUp(t) ==
  /\ cache_lock = NoThread
  /\ cache_lock' = t
  /\ \/ \E s \in hash_find(arg[t]) :
          /\ Goto(t, "take", "hit")
          /\ res' = [res EXCEPT ![t] = s]
     \/ /\ hash_find(arg[t]) = {}
        /\ Goto(t, "take", "miss")
        /\ UNCHANGED res
  /\ UNCHANGED <<disk, sectorVars, cache_sem, free_list, clock_hand, arg, block,
                 end, refVars, takes, flushVars>>

(* The end of a hit: owners++, then both locks are released. *)
HitOwn(t) ==
  /\ owners' = [owners EXCEPT ![res[t]] = @ + 1]
  /\ cache_lock' = NoThread
  /\ refs' = refs \cup {<<t, res[t], block[t]>>}

(* A hit on a sector that other threads own needs no permit. *)
HitOwned(t) ==
  /\ owners_lock[res[t]] = NoThread
  /\ owners[res[t]] > 0
  /\ Goto(t, "hit", "lock")
  /\ HitOwn(t)
  /\ UNCHANGED <<disk, index, data, dirty, sector_lock, owners_lock, cache_sem,
                 free_list, clock_hand, localVars, wrote, takes, flushVars>>

(* A hit on an unowned sector takes a permit of cache_sem, and may wait for *)
(* it with cache_lock and the sector's owners_lock held.                    *)
HitUnowned(t) ==
  /\ owners[res[t]] = 0
  /\ Goto(t, "hit", "hitdown")
  /\ AcquireOwners(t, res[t])
  /\ UNCHANGED <<disk, index, data, dirty, owners, sector_lock, cacheVars,
                 localVars, refVars, takes, flushVars>>

HitDown(t) ==
  /\ Goto(t, "hitdown", "lock")
  /\ sema_down
  /\ HitOwn(t)
  /\ ReleaseOwners(res[t])
  /\ UNCHANGED <<disk, index, data, dirty, sector_lock, free_list, clock_hand,
                 localVars, wrote, takes, flushVars>>

(* A miss takes a permit first, with cache_lock held. *)
MissDown(t) ==
  /\ sema_down
  /\ end' = clock_hand
  /\ Goto(t, "miss", IF free_list = {} THEN "scan" ELSE "fill")
  /\ UNCHANGED <<disk, sectorVars, cache_lock, free_list, clock_hand, arg, block,
                 res, refVars, takes, flushVars>>

(* Sectors that evict_sector accepts: owners is read without owners_lock. *)
HasBlock(s) == index[s] # NoBlock
Evictable(s) == index[s] # NoBlock /\ owners[s] = 0

(* One turn of evict_sector's loop. *)
evict_sector(t) ==
  LET next == IF clock_hand + 1 = SECTOR_COUNT THEN 0 ELSE clock_hand + 1
  IN \/ /\ Evictable(clock_hand)
        /\ Goto(t, "scan", "evict")
        /\ UNCHANGED clock_hand
     \/ /\ ~Evictable(clock_hand)
        /\ clock_hand' = next
        /\ Goto(t, "scan", IF next = end THEN "panic" ELSE "scan")

Scan(t) ==
  /\ evict_sector(t)
  /\ UNCHANGED <<disk, sectorVars, cache_lock, cache_sem, free_list, localVars,
                 refVars, takes, flushVars>>

(* The device after the victim is written back, if it is dirty. *)
NotWritten(s) == disk
WrittenBack(s) == IF dirty[s] THEN [disk EXCEPT ![index[s]] = data[s]] ELSE disk

(* The victim is written back and put on the free list. *)
WriteBack(t) ==
  /\ Goto(t, "evict", "fill")
  /\ disk' = WrittenBack(clock_hand)
  /\ free_list' = free_list \cup {clock_hand}
  /\ index' = [index EXCEPT ![clock_hand] = NoBlock]
  /\ UNCHANGED <<data, dirty, owners, sector_lock, owners_lock, cache_lock,
                 cache_sem, clock_hand, localVars, refVars, takes, flushVars>>

(* A sector of the free list becomes the block's.  Its order is abstracted: *)
(* list_pop_back may return any of its members.                             *)
Fill(t) ==
  \E s \in free_list :
    /\ Goto(t, "fill", "lock")
    /\ free_list' = free_list \ {s}
    /\ res' = [res EXCEPT ![t] = s]
    /\ index' = [index EXCEPT ![s] = arg[t]]
    /\ dirty' = [dirty EXCEPT ![s] = FALSE]
    /\ owners' = [owners EXCEPT ![s] = 1]
    /\ data' = [data EXCEPT ![s] = disk[arg[t]]]
    /\ refs' = refs \cup {<<t, s, block[t]>>}
    /\ cache_lock' = NoThread
    /\ UNCHANGED <<disk, sector_lock, owners_lock, cache_sem, clock_hand, arg,
                   block, end, wrote, takes, flushVars>>

(* Last step of take_sector: the sector's own lock if the caller wants it. *)
LockSector(t) ==
  /\ Goto(t, "lock", "run")
  /\ \/ /\ block[t]
        /\ sector_lock[res[t]] = NoThread
        /\ sector_lock' = [sector_lock EXCEPT ![res[t]] = t]
     \/ /\ ~block[t]
        /\ UNCHANGED sector_lock
  /\ arg' = [arg EXCEPT ![t] = NoBlock]
  /\ block' = [block EXCEPT ![t] = FALSE]
  /\ res' = [res EXCEPT ![t] = 0]
  /\ UNCHANGED <<disk, index, data, dirty, owners, owners_lock, cacheVars, end,
                 refVars, takes, flushVars>>

-----------------------------------------------------------------------------
(* An owner modifies the sector's data.  Writers of file data do it without *)
(* the sector's lock (inode.c:546-585).  Bound: once per take.              *)
Modify(t, r, v) ==
  /\ pc[t] = "run"
  /\ r \in refs \ wrote /\ r[1] = t
  /\ v # data[r[2]]
  /\ data' = [data EXCEPT ![r[2]] = v]
  /\ wrote' = wrote \cup {r}
  /\ UNCHANGED <<disk, index, dirty, owners, sector_lock, owners_lock, cacheVars,
                 pc, localVars, refs, takes, flushVars>>

(* release_sector up to the test of owners: owners_lock acquired; dirty set  *)
(* if the caller says changed (it may say so without having written, as      *)
(* inode.c:527 does); owners--.  The last owner keeps owners_lock.           *)
release_sector(t, r) ==
  LET s == r[2]
  IN /\ r \in refs /\ r[1] = t
     /\ \E changed \in BOOLEAN :
          /\ r \in wrote => changed
          /\ dirty' = [dirty EXCEPT ![s] = @ \/ changed]
     /\ owners' = [owners EXCEPT ![s] = @ - 1]
     /\ refs' = refs \ {r}
     /\ wrote' = wrote \ {r}
     /\ res' = [res EXCEPT ![t] = s]
     /\ block' = [block EXCEPT ![t] = r[3]]
     /\ \/ /\ owners[s] = 1
           /\ Goto(t, "run", "up")
           /\ AcquireOwners(t, s)
        \/ /\ owners[s] # 1
           /\ Goto(t, "run", "unlock")
           /\ owners_lock[s] = NoThread
           /\ UNCHANGED owners_lock
     /\ UNCHANGED <<disk, index, data, sector_lock, cacheVars, arg, end, takes,
                    flushVars>>

(* The last owner gives its permit back. *)
ReleaseUp(t) ==
  /\ Goto(t, "up", "unlock")
  /\ sema_up
  /\ ReleaseOwners(res[t])
  /\ UNCHANGED <<disk, index, data, dirty, owners, sector_lock, cache_lock,
                 free_list, clock_hand, localVars, refVars, takes, flushVars>>

(* sector_lock is released last, when the sector may already be another    *)
(* block's.                                                                *)
Unlock(t) ==
  /\ Goto(t, "unlock", "run")
  /\ sector_lock' = IF block[t] THEN [sector_lock EXCEPT ![res[t]] = NoThread]
                                ELSE sector_lock
  /\ arg' = [arg EXCEPT ![t] = NoBlock]
  /\ block' = [block EXCEPT ![t] = FALSE]
  /\ res' = [res EXCEPT ![t] = 0]
  /\ UNCHANGED <<disk, index, data, dirty, owners, owners_lock, cacheVars, end,
                 refVars, takes, flushVars>>

-----------------------------------------------------------------------------
(* sector_cache_flush, called by write_behind when enough ticks passed and *)
(* by filesys_done with force.                                             *)
sector_cache_flush ==
  /\ fpc = "run" /\ flushes < MaxFlushes
  /\ cache_lock = NoThread
  /\ cache_lock' = Flusher
  /\ fpc' = "loop" /\ i' = 0 /\ flushes' = flushes + 1
  /\ UNCHANGED <<disk, sectorVars, cache_sem, free_list, clock_hand, pc,
                 localVars, refVars, takes>>

(* The loop's test reads dirty without owners_lock. *)
FlushTest ==
  /\ fpc = "loop" /\ i < SECTOR_COUNT
  /\ \/ index[i] # NoBlock /\ dirty[i] /\ fpc' = "write" /\ UNCHANGED i
     \/ ~ (index[i] # NoBlock /\ dirty[i]) /\ i' = i + 1 /\ UNCHANGED fpc
  /\ UNCHANGED <<disk, sectorVars, cacheVars, pc, localVars, refVars, takes,
                 flushes>>

(* owners_lock acquired and the block written; owners may keep modifying    *)
(* the data until dirty is cleared.                                         *)
FlushWrite ==
  /\ fpc = "write" /\ fpc' = "clean"
  /\ AcquireOwners(Flusher, i)
  /\ disk' = [disk EXCEPT ![index[i]] = data[i]]
  /\ UNCHANGED <<index, data, dirty, owners, sector_lock, cacheVars, pc,
                 localVars, refVars, takes, i, flushes>>

FlushClean ==
  /\ fpc = "clean" /\ fpc' = "loop"
  /\ dirty' = [dirty EXCEPT ![i] = FALSE]
  /\ ReleaseOwners(i)
  /\ i' = i + 1
  /\ UNCHANGED <<disk, index, data, owners, sector_lock, cacheVars, pc,
                 localVars, refVars, takes, flushes>>

FlushDone ==
  /\ fpc = "loop" /\ i = SECTOR_COUNT
  /\ cache_lock' = NoThread
  /\ fpc' = "run" /\ i' = 0
  /\ UNCHANGED <<disk, sectorVars, cache_sem, free_list, clock_hand, pc,
                 localVars, refVars, takes, flushes>>

-----------------------------------------------------------------------------
Take(t) ==
  \/ \E b \in Blocks, bl \in BOOLEAN : take_sector(t, b, bl)
  \/ LookUp(t) \/ HitOwned(t) \/ HitUnowned(t) \/ HitDown(t)
  \/ MissDown(t) \/ Scan(t) \/ WriteBack(t) \/ Fill(t) \/ LockSector(t)

Release(t) ==
  \/ \E r \in refs : release_sector(t, r)
  \/ ReleaseUp(t) \/ Unlock(t)

Thread(t) == Take(t) \/ Release(t) \/ \E r \in refs, v \in Values : Modify(t, r, v)

Flush == sector_cache_flush \/ FlushTest \/ FlushWrite \/ FlushClean \/ FlushDone

(* The bounded workload is over. *)
Finished ==
  /\ \A t \in Threads : pc[t] = "run" /\ takes[t] = MaxTakes
  /\ refs = {} /\ fpc = "run" /\ flushes = MaxFlushes
  /\ UNCHANGED vars

Next == (\E t \in Threads : Thread(t)) \/ Flush \/ Finished

Spec == Init /\ [][Next]_vars

(* The round-robin scheduler runs every ready thread again and again; the   *)
(* workload is bounded, so a lock cannot be snatched away for ever.         *)
Fairness == (\A t \in Threads : WF_vars(Thread(t))) /\ WF_vars(Flush)

FairSpec == Spec /\ Fairness

-----------------------------------------------------------------------------
(* Threads between owners-- and sema_up, and the taker that holds a permit *)
(* it has not turned into an owner yet.                                    *)
Giving == {t \in Threads : pc[t] = "up"}
Keeping == {t \in Threads : pc[t] \in {"scan", "evict", "fill", "panic"}}
Unowned == {s \in Sectors : owners[s] = 0}

(* evict_sector's PANIC("WELL... THIS SHOULD NOT HAPPEN...") is never      *)
(* reached: whoever got a permit of cache_sem finds an unowned sector in   *)
(* one turn of the clock although owners change under the scan.            *)
NoPanic == \A t \in Threads : pc[t] # "panic"

(* cache_sem counts the unowned sectors, up to the permits that a releaser *)
(* still has to give back and that a taker has not used yet.               *)
SemCounts ==
  cache_sem + Cardinality(Giving) + Cardinality(Keeping) = Cardinality(Unowned)

(* owners counts the takes not released, the sectors without an index are  *)
(* the free ones and nobody owns them, and a block is cached at most once. *)
OwnersCount ==
  /\ \A s \in Sectors : owners[s] = Cardinality({r \in refs : r[2] = s})
  /\ \A s \in Sectors : index[s] = NoBlock <=> s \in free_list
  /\ \A s \in free_list : owners[s] = 0
  /\ \A s, z \in Sectors : index[s] = index[z] /\ s # z => index[s] = NoBlock

(* What is not on the disk will get there: a sector that differs from its   *)
(* block is dirty, or one of its present owners has yet to release it with  *)
(* changed = true.  A flush racing such an owner may not lose the change.   *)
NoLostWrite ==
  \A s \in Sectors :
    index[s] # NoBlock /\ data[s] # disk[index[s]]
      => dirty[s] \/ \E r \in wrote : r[2] = s

(* ASSERT(sec->index == index) in release_sector: a sector keeps its block *)
(* as long as somebody owns it.                                            *)
OwnedKeepsBlock ==
  [][\A r \in refs \cap refs' : index'[r[2]] = index[r[2]]]_vars

(* Every call of take_sector and release_sector returns, and the flush     *)
(* gives cache_lock back: nobody waits for a permit for ever.              *)
CallsReturn ==
  /\ \A t \in Threads : pc[t] # "run" ~> pc[t] = "run"
  /\ fpc # "run" ~> fpc = "run"

-----------------------------------------------------------------------------
(* The cache implements BlockStore: a block's contents are its sector's    *)
(* data if it is cached and the disk's otherwise.                          *)
Cached(b) == hash_find(b)
Contents ==
  [b \in Blocks |-> IF Cached(b) = {} THEN disk[b]
                    ELSE data[CHOOSE s \in Sectors : index[s] = b]]
OwnedBlocks == {<<r[1], index[r[2]]>> : r \in refs}
Locking(r) == pc[r[1]] = "lock" /\ res[r[1]] = r[2] /\ block[r[1]]
LockedBlocks == {<<r[1], index[r[2]]>> : r \in {q \in refs : q[3] /\ ~Locking(q)}}

BS == INSTANCE BlockStore WITH store <- Contents, owned <- OwnedBlocks,
                               locked <- LockedBlocks

(* Taking, evicting, reloading and flushing are invisible: no write is lost *)
(* or undone and no two threads hold one block's lock.                      *)
ImplementsBlockStore == BS!SpecStore
=============================================================================
