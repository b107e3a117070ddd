------------------------ MODULE BufferCache_proofs ------------------------
(***************************************************************************)
(* Proofs about the buffer cache for any number of threads, blocks and     *)
(* sectors: IInv is inductive (one lemma per action), and the properties   *)
(* that TLC checks on small instances follow from it.                      *)
(***************************************************************************)
EXTENDS BufferCache, FiniteSetTheorems, TLAPS

-----------------------------------------------------------------------------
(* The inductive invariant. *)

InCache == {"hit", "hitdown", "miss", "scan", "evict", "fill", "panic"}

(* Who holds cache_lock and the owners_locks. *)
LockInv ==
  /\ \A t \in Threads : pc[t] \in InCache <=> cache_lock = t
  /\ fpc # "run" <=> cache_lock = Flusher
  /\ \A s \in Sectors, t \in Threads :
       owners_lock[s] = t <=> pc[t] \in {"hitdown", "up"} /\ res[t] = s
  /\ \A s \in Sectors : owners_lock[s] = Flusher <=> fpc = "clean" /\ i = s

(* The part of the clock's circle that the scan has not visited yet. *)
Ahead(s) == IF clock_hand < end THEN clock_hand <= s /\ s < end
                                ELSE clock_hand <= s \/ s < end

(* What a thread inside take_sector can rely on. *)
TakeInv ==
  \A t \in Threads :
    /\ pc[t] \in InCache \cup {"take"} => arg[t] \in Blocks
    /\ pc[t] \in {"hit", "hitdown"} => index[res[t]] = arg[t]
    /\ pc[t] = "hitdown" => owners[res[t]] = 0
    /\ pc[t] \in {"miss", "scan", "evict", "fill"} => hash_find(arg[t]) = {}
    /\ pc[t] \in {"scan", "evict"} => free_list = {}
    /\ pc[t] = "scan" => \E s \in Sectors : owners[s] = 0 /\ Ahead(s)
    /\ pc[t] = "evict" => index[clock_hand] # NoBlock /\ owners[clock_hand] = 0
    /\ pc[t] = "fill" => free_list # {}
    /\ pc[t] = "lock" => <<t, res[t], block[t]>> \in refs
    /\ pc[t] \in {"take", "hit", "hitdown"} =>
         \A r \in refs : r[1] = t /\ index[r[2]] = arg[t] => r[3] /\ ~block[t]

(* What the flush can rely on. *)
FlushInv ==
  /\ fpc \in {"write", "clean"} => i < SECTOR_COUNT /\ index[i] # NoBlock
  /\ fpc = "clean" /\ data[i] # disk[index[i]] => \E r \in wrote : r[2] = i

IInv ==
  /\ TypeOK /\ LockInv /\ TakeInv /\ FlushInv
  /\ wrote \subseteq refs
  /\ OwnersCount /\ SemCounts /\ NoLostWrite /\ NoPanic

-----------------------------------------------------------------------------
(* The sets that the counters count are finite. *)
LEMMA RefsFinite ==
  ASSUME TypeOK
  PROVE  /\ \A s \in Sectors : IsFiniteSet({r \in refs : r[2] = s})
         /\ IsFiniteSet(Unowned) /\ IsFiniteSet(Giving) /\ IsFiniteSet(Keeping)
<1>1. IsFiniteSet(Sectors)
  BY FS_Interval, CacheAssumption DEF Sectors
<1>2. IsFiniteSet(BOOLEAN)
  <2>1. BOOLEAN = {} \cup {TRUE} \cup {FALSE}
    OBVIOUS
  <2> QED BY <2>1, FS_EmptySet, FS_AddElement, ZenonT(30)
<1>3. IsFiniteSet(Refs)
  <2>1. IsFiniteSet(Threads \X (Sectors \X BOOLEAN))
    BY <1>1, <1>2, FS_Product, CacheAssumption
  <2>2. PICK f : f = [x \in Threads \X (Sectors \X BOOLEAN) |-> <<x[1], x[2][1], x[2][2]>>]
    OBVIOUS
  <2>3. f \in Surjection(Threads \X (Sectors \X BOOLEAN), Refs)
    <3>1. f \in [Threads \X (Sectors \X BOOLEAN) -> Refs]
      BY <2>2 DEF Refs
    <3>2. ASSUME NEW r \in Refs
          PROVE  \E x \in Threads \X (Sectors \X BOOLEAN) : f[x] = r
      <4>1. <<r[1], <<r[2], r[3]>>>> \in Threads \X (Sectors \X BOOLEAN)
        BY DEF Refs
      <4>2. f[<<r[1], <<r[2], r[3]>>>>] = r
        BY <4>1, <2>2 DEF Refs
      <4> QED BY <4>1, <4>2
    <3> QED BY <3>1, <3>2 DEF Surjection
  <2> QED BY <2>1, <2>3, FS_Surjection
<1>4. \A s \in Sectors : IsFiniteSet({r \in refs : r[2] = s})
  BY <1>3, FS_Subset DEF TypeOK
<1>5. IsFiniteSet(Unowned)
  BY <1>1, FS_Subset DEF Unowned
<1>6. IsFiniteSet(Giving) /\ IsFiniteSet(Keeping)
  BY FS_Subset, CacheAssumption DEF Giving, Keeping
<1> QED BY <1>4, <1>5, <1>6

(* A sector with an owner has a positive counter and a block. *)
LEMMA OwnedPositive ==
  ASSUME TypeOK, OwnersCount, NEW r \in refs
  PROVE  r[2] \in Sectors /\ owners[r[2]] \in Nat \ {0} /\ index[r[2]] # NoBlock
<1>0. r[2] \in Sectors
  BY DEF TypeOK, Refs
<1>1. IsFiniteSet({q \in refs : q[2] = r[2]}) /\ {q \in refs : q[2] = r[2]} # {}
  BY RefsFinite, <1>0
<1>2. Cardinality({q \in refs : q[2] = r[2]}) # 0
  BY <1>1, FS_EmptySet
<1> QED BY <1>0, <1>1, <1>2, FS_CardinalityType DEF OwnersCount, TypeOK

(* A sector whose counter is zero has no owner. *)
LEMMA UnownedFree ==
  ASSUME TypeOK, OwnersCount, NEW s \in Sectors, owners[s] = 0
  PROVE  \A r \in refs : r[2] # s
BY OwnedPositive

(* A new ownership and owners + 1 keep the counter right... *)
LEMMA CountAdd ==
  ASSUME TypeOK, OwnersCount, NEW q \in Refs, q \notin refs,
         refs' = refs \cup {q},
         owners' = [owners EXCEPT ![q[2]] = owners[q[2]] + 1]
  PROVE  \A s \in Sectors : owners'[s] = Cardinality({r \in refs' : r[2] = s})
<1> SUFFICES ASSUME NEW s \in Sectors
             PROVE  owners'[s] = Cardinality({r \in refs' : r[2] = s})
  OBVIOUS
<1> DEFINE Old == {r \in refs : r[2] = s}
<1>1. IsFiniteSet(Old) /\ owners[s] = Cardinality(Old)
  BY RefsFinite DEF OwnersCount
<1>2. CASE s = q[2]
  <2>1. {r \in refs' : r[2] = s} = Old \cup {q}
    BY <1>2
  <2>2. Cardinality(Old \cup {q}) = Cardinality(Old) + 1
    BY <1>1, FS_AddElement
  <2> HIDE DEF Old
  <2> QED BY <1>1, <1>2, <2>1, <2>2 DEF TypeOK
<1>3. CASE s # q[2]
  <2>1. {r \in refs' : r[2] = s} = Old
    BY <1>3
  <2> HIDE DEF Old
  <2> QED BY <1>1, <1>3, <2>1 DEF TypeOK
<1> QED BY <1>2, <1>3

(* ... and so do a given up ownership and owners - 1. *)
LEMMA CountRemove ==
  ASSUME TypeOK, OwnersCount, NEW q \in refs,
         refs' = refs \ {q},
         owners' = [owners EXCEPT ![q[2]] = owners[q[2]] - 1]
  PROVE  \A s \in Sectors : owners'[s] = Cardinality({r \in refs' : r[2] = s})
<1> SUFFICES ASSUME NEW s \in Sectors
             PROVE  owners'[s] = Cardinality({r \in refs' : r[2] = s})
  OBVIOUS
<1> DEFINE Old == {r \in refs : r[2] = s}
<1>1. IsFiniteSet(Old) /\ owners[s] = Cardinality(Old)
  BY RefsFinite DEF OwnersCount
<1>2. CASE s = q[2]
  <2>1. {r \in refs' : r[2] = s} = Old \ {q} /\ q \in Old
    BY <1>2
  <2>2. Cardinality(Old \ {q}) = Cardinality(Old) - 1
    BY <1>1, <2>1, FS_RemoveElement
  <2> HIDE DEF Old
  <2> QED BY <1>1, <1>2, <2>1, <2>2 DEF TypeOK
<1>3. CASE s # q[2]
  <2>1. {r \in refs' : r[2] = s} = Old
    BY <1>3
  <2> HIDE DEF Old
  <2> QED BY <1>1, <1>3, <2>1 DEF TypeOK
<1> QED BY <1>2, <1>3

(* The counted cardinalities are numbers. *)
LEMMA CardType ==
  ASSUME TypeOK
  PROVE  /\ Cardinality(Unowned) \in Nat
         /\ Cardinality(Giving) \in Nat
         /\ Cardinality(Keeping) \in Nat
BY RefsFinite, FS_CardinalityType

(* take_sector preserves the invariant. *)
LEMMA take_sector_Step ==
  ASSUME IInv, NEW t \in Threads, NEW b \in Blocks, NEW bl \in BOOLEAN, take_sector(t, b, bl)
  PROVE  IInv'
<1> USE DEF IInv, TypeOK, take_sector, MayTake, Goto, sema_down, sema_up,
     AcquireOwners, ReleaseOwners, Evictable, WrittenBack, sectorVars, cacheVars,
     localVars, refVars, flushVars
<1>1. TypeOK'
  <2>1. (pc \in [Threads -> PCs])'
    BY CacheAssumption DEF PCs
  <2>2. (takes \in [Threads -> 0 .. MaxTakes])'
    BY CacheAssumption
  <2>3. (arg \in [Threads -> Blocks \cup {NoBlock}])'
    BY CacheAssumption
  <2>4. (block \in [Threads -> BOOLEAN])'
    BY CacheAssumption
  <2> QED BY <2>1, <2>2, <2>3, <2>4
<1>2. LockInv'
  BY CacheAssumption DEF LockInv, InCache, Actors
<1>3. TakeInv'
  BY CacheAssumption DEF LockInv, TakeInv, InCache, hash_find, Ahead
<1>4. SemCounts'
  BY CacheAssumption DEF SemCounts, Giving, Keeping, Unowned
<1>5. FlushInv' /\ (wrote \subseteq refs)' /\ OwnersCount' /\ NoLostWrite' /\ NoPanic'
  BY CacheAssumption DEF LockInv, FlushInv, Refs, TakeInv, OwnersCount,
       NoLostWrite, NoPanic
<1> QED BY <1>1, <1>2, <1>3, <1>4, <1>5

(* LookUp preserves the invariant. *)
LEMMA LookUp_Step ==
  ASSUME IInv, NEW t \in Threads, LookUp(t)
  PROVE  IInv'
<1> USE DEF IInv, TypeOK, LookUp, Goto, sema_down, sema_up, AcquireOwners,
     ReleaseOwners, Evictable, WrittenBack, sectorVars, cacheVars, localVars,
     refVars, flushVars
<1>1. TypeOK'
  <2>1. (pc \in [Threads -> PCs])'
    BY CacheAssumption DEF PCs
  <2>2. (res \in [Threads -> Sectors])'
    BY CacheAssumption DEF hash_find
  <2>3. (cache_lock \in Actors \cup {NoThread})'
    BY CacheAssumption DEF Actors
  <2> QED BY <2>1, <2>2, <2>3
<1>2. LockInv'
  BY CacheAssumption DEF LockInv, InCache, Actors
<1>3. TakeInv'
  <2>1. \A u \in Threads : u # t => pc[u] \notin InCache
    BY CacheAssumption DEF LockInv
  <2>2. CASE hash_find(arg[t]) = {}
    BY <2>1, <2>2 DEF TakeInv, InCache, hash_find, Ahead
  <2>3. CASE hash_find(arg[t]) # {}
    <3>1. PICK s \in hash_find(arg[t]) : Goto(t, "take", "hit") /\ res' = [res EXCEPT ![t] = s]
      BY <2>3
    <3>2. s \in Sectors /\ index[s] = arg[t]
      BY <3>1 DEF hash_find
    <3> QED BY <2>1, <3>1, <3>2 DEF TakeInv, InCache, Ahead
  <2> QED BY <2>2, <2>3
<1>4. SemCounts'
  BY CacheAssumption DEF SemCounts, Giving, Keeping, Unowned
<1>5. FlushInv' /\ (wrote \subseteq refs)' /\ OwnersCount' /\ NoLostWrite' /\ NoPanic'
  BY CacheAssumption DEF LockInv, FlushInv, Refs, TakeInv, OwnersCount,
       NoLostWrite, NoPanic
<1> QED BY <1>1, <1>2, <1>3, <1>4, <1>5

(* HitOwned preserves the invariant. *)
LEMMA HitOwned_Step ==
  ASSUME IInv, NEW t \in Threads, HitOwned(t)
  PROVE  IInv'
<1> USE DEF IInv, TypeOK, HitOwned, HitOwn, Goto, sema_down, sema_up, AcquireOwners,
     ReleaseOwners, Evictable, WrittenBack, sectorVars, cacheVars, localVars,
     refVars, flushVars
<1>1. TypeOK'
  BY CacheAssumption DEF Sectors, Actors, Refs, PCs, FlushPCs
<1>2. LockInv'
  BY CacheAssumption DEF LockInv, InCache, Actors
<1>3. TakeInv'
  BY CacheAssumption DEF LockInv, TakeInv, InCache, hash_find, Ahead
<1>4. OwnersCount'
  <2> DEFINE q == <<t, res[t], block[t]>>
  <2>1. q \in Refs /\ q \notin refs /\ q[2] = res[t]
    BY DEF Refs, TakeInv
  <2>2. \A s \in Sectors : owners'[s] = Cardinality({r \in refs' : r[2] = s})
    <3> HIDE DEF q
    <3>1. refs' = refs \cup {q} /\ owners' = [owners EXCEPT ![q[2]] = owners[q[2]] + 1]
      BY <2>1 DEF q
    <3> QED BY <2>1, <3>1, CountAdd
  <2>3. res[t] \notin free_list
    BY CacheAssumption DEF OwnersCount, TakeInv, InCache
  <2> QED BY <2>2, <2>3 DEF OwnersCount
<1>5. SemCounts'
  <2>1. Unowned' = Unowned /\ Giving' = Giving /\ Keeping' = Keeping
    BY DEF Unowned, Giving, Keeping
  <2> QED BY <2>1 DEF SemCounts
<1>6. FlushInv' /\ (wrote \subseteq refs)' /\ NoLostWrite' /\ NoPanic'
  BY CacheAssumption DEF LockInv, FlushInv, Refs, TakeInv, NoLostWrite,
       OwnersCount, NoPanic
<1> QED BY <1>1, <1>2, <1>3, <1>4, <1>5, <1>6

(* HitUnowned preserves the invariant. *)
LEMMA HitUnowned_Step ==
  ASSUME IInv, NEW t \in Threads, HitUnowned(t)
  PROVE  IInv'
<1> USE DEF IInv, TypeOK, HitUnowned, Goto, sema_down, sema_up, AcquireOwners,
     ReleaseOwners, Evictable, WrittenBack, sectorVars, cacheVars, localVars,
     refVars, flushVars
<1>1. TypeOK'
  BY CacheAssumption DEF Sectors, Actors, Refs, PCs, FlushPCs
<1>2. LockInv'
  BY CacheAssumption DEF LockInv, InCache, Actors
<1>3. TakeInv'
  BY CacheAssumption DEF LockInv, TakeInv, InCache, hash_find, Ahead
<1>4. SemCounts'
  BY CacheAssumption DEF SemCounts, Giving, Keeping, Unowned
<1>5. FlushInv' /\ (wrote \subseteq refs)' /\ OwnersCount' /\ NoLostWrite' /\ NoPanic'
  BY CacheAssumption DEF LockInv, FlushInv, Refs, TakeInv, OwnersCount,
       NoLostWrite, NoPanic
<1> QED BY <1>1, <1>2, <1>3, <1>4, <1>5

(* HitDown preserves the invariant. *)
LEMMA HitDown_Step ==
  ASSUME IInv, NEW t \in Threads, HitDown(t)
  PROVE  IInv'
<1> USE DEF IInv, TypeOK, HitDown, HitOwn, Goto, sema_down, sema_up, AcquireOwners,
     ReleaseOwners, Evictable, WrittenBack, sectorVars, cacheVars, localVars,
     refVars, flushVars
<1>1. TypeOK'
  BY CacheAssumption, SMTT(20) DEF Sectors, Actors, Refs, PCs, FlushPCs
<1>2. LockInv'
  BY CacheAssumption DEF LockInv, InCache, Actors
<1>3. TakeInv'
  BY CacheAssumption DEF LockInv, TakeInv, InCache, hash_find, Ahead
<1>4. OwnersCount'
  <2> DEFINE q == <<t, res[t], block[t]>>
  <2>1. q \in Refs /\ q \notin refs /\ q[2] = res[t]
    BY DEF Refs, TakeInv
  <2>2. \A s \in Sectors : owners'[s] = Cardinality({r \in refs' : r[2] = s})
    <3> HIDE DEF q
    <3>1. refs' = refs \cup {q} /\ owners' = [owners EXCEPT ![q[2]] = owners[q[2]] + 1]
      BY <2>1 DEF q
    <3> QED BY <2>1, <3>1, CountAdd
  <2>3. res[t] \notin free_list
    <3>1. pc[t] \in {"hit", "hitdown"} /\ res[t] \in Sectors
      OBVIOUS
    <3>2. index[res[t]] = arg[t] /\ arg[t] \in Blocks
      BY <3>1 DEF TakeInv, InCache
    <3> QED BY <3>1, <3>2, CacheAssumption DEF OwnersCount
  <2> QED BY <2>2, <2>3 DEF OwnersCount
<1>5. SemCounts'
  <2>1. Giving' = Giving /\ Keeping' = Keeping
    BY DEF Giving, Keeping
  <2>2. Unowned' = Unowned \ {res[t]} /\ res[t] \in Unowned
    <3>1. pc[t] = "hitdown" /\ res[t] \in Sectors /\ owners' = [owners EXCEPT ![res[t]] = @ + 1]
      OBVIOUS
    <3>2. owners[res[t]] = 0
      BY <3>1 DEF TakeInv
    <3> HIDE DEF HitDown
    <3> QED BY <3>1, <3>2 DEF Unowned
  <2>3. Cardinality(Unowned') = Cardinality(Unowned) - 1
    <3>1. IsFiniteSet(Unowned)
      BY RefsFinite
    <3> HIDE DEF HitDown, IInv, TypeOK
    <3> QED BY <2>2, <3>1, FS_RemoveElement
  <2>4. cache_sem' = cache_sem - 1
    OBVIOUS
  <2> HIDE DEF HitDown
  <2> QED BY <2>1, <2>3, <2>4, CardType DEF SemCounts
<1>6. FlushInv' /\ (wrote \subseteq refs)' /\ NoLostWrite' /\ NoPanic'
  BY CacheAssumption DEF LockInv, FlushInv, Refs, TakeInv, NoLostWrite,
       OwnersCount, NoPanic
<1> QED BY <1>1, <1>2, <1>3, <1>4, <1>5, <1>6

(* MissDown preserves the invariant. *)
LEMMA MissDown_Step ==
  ASSUME IInv, NEW t \in Threads, MissDown(t)
  PROVE  IInv'
<1> USE DEF IInv, TypeOK, MissDown, Goto, sema_down, sema_up, AcquireOwners,
     ReleaseOwners, Evictable, WrittenBack, sectorVars, cacheVars, localVars,
     refVars, flushVars
<1>1. TypeOK'
  BY CacheAssumption DEF Sectors, Actors, Refs, PCs, FlushPCs
<1>2. LockInv'
  BY CacheAssumption DEF LockInv, InCache, Actors
<1>3. TakeInv'
  <2>1. \E s \in Sectors : owners[s] = 0
    <3>1. Cardinality(Unowned) # 0
      BY CardType DEF SemCounts
    <3>2. Unowned # {}
      BY <3>1, FS_EmptySet
    <3> QED BY <3>2 DEF Unowned
  <2>2. \A s \in Sectors : Ahead(s)'
    BY CacheAssumption DEF Ahead, Sectors
  <2>3. \A u \in Threads : u # t => pc[u] \notin InCache
    BY CacheAssumption DEF LockInv, InCache
  <2> QED BY <2>1, <2>2, <2>3 DEF TakeInv, InCache, hash_find
<1>4. SemCounts'
  <2>1. Giving' = Giving /\ Unowned' = Unowned
    BY DEF Giving, Unowned
  <2>2. Keeping' = Keeping \cup {t} /\ t \notin Keeping
    BY DEF Keeping
  <2>3. Cardinality(Keeping') = Cardinality(Keeping) + 1
    BY <2>2, RefsFinite, FS_AddElement
  <2>4. cache_sem' = cache_sem - 1
    OBVIOUS
  <2> HIDE DEF MissDown
  <2> QED BY <2>1, <2>3, <2>4, CardType DEF SemCounts
<1>5. FlushInv' /\ (wrote \subseteq refs)' /\ OwnersCount' /\ NoLostWrite' /\ NoPanic'
  BY CacheAssumption DEF LockInv, FlushInv, Refs, TakeInv, OwnersCount,
       NoLostWrite, NoPanic
<1> QED BY <1>1, <1>2, <1>3, <1>4, <1>5

(* Scan preserves the invariant. *)
LEMMA Scan_Step ==
  ASSUME IInv, NEW t \in Threads, Scan(t)
  PROVE  IInv'
<1> USE DEF IInv, TypeOK, Scan, evict_sector, Goto, sema_down, sema_up,
     AcquireOwners, ReleaseOwners, Evictable, WrittenBack, sectorVars, cacheVars,
     localVars, refVars, flushVars
<1>1. TypeOK'
  <2>1. (pc \in [Threads -> PCs])'
    BY CacheAssumption DEF PCs
  <2>2. (clock_hand \in Sectors)'
    BY CacheAssumption DEF Sectors
  <2> QED BY <2>1, <2>2
<1>2. LockInv'
  BY CacheAssumption DEF LockInv, InCache, Actors
<1>3. TakeInv'
  <2>1. \A u \in Threads : u # t => pc[u] \notin InCache
    BY CacheAssumption DEF LockInv, InCache
  <2>2. pc'[t] = "scan" => \E s \in Sectors : owners'[s] = 0 /\ Ahead(s)'
    <3>1. PICK s \in Sectors : owners[s] = 0 /\ Ahead(s) /\ index[s] # NoBlock
      BY DEF TakeInv, OwnersCount
    <3>2. ASSUME pc'[t] = "scan" PROVE s # clock_hand
      BY <3>1, <3>2
    <3>3. ASSUME pc'[t] = "scan" PROVE Ahead(s)'
      BY <3>1, <3>2, <3>3, CacheAssumption DEF Ahead, Sectors
    <3> QED BY <3>1, <3>3
  <2> QED BY <2>1, <2>2 DEF TakeInv, InCache, hash_find
<1>4. SemCounts'
  <2>1. Unowned' = Unowned /\ Giving' = Giving /\ Keeping' = Keeping
    BY DEF Unowned, Giving, Keeping
  <2> QED BY <2>1 DEF SemCounts
<1>5. NoPanic'
  <2>1. PICK s \in Sectors : owners[s] = 0 /\ Ahead(s) /\ index[s] # NoBlock
    BY DEF TakeInv, OwnersCount
  <2>2. ASSUME pc'[t] = "panic" PROVE FALSE
    <3>1. s # clock_hand
      BY <2>1, <2>2
    <3> QED BY <2>1, <2>2, <3>1, CacheAssumption DEF Ahead, Sectors
  <2> QED BY <2>2 DEF NoPanic
<1>6. FlushInv' /\ (wrote \subseteq refs)' /\ OwnersCount' /\ NoLostWrite'
  BY CacheAssumption DEF LockInv, FlushInv, Refs, TakeInv, OwnersCount, NoLostWrite
<1> QED BY <1>1, <1>2, <1>3, <1>4, <1>5, <1>6

(* WriteBack preserves the invariant. *)
LEMMA WriteBack_Step ==
  ASSUME IInv, NEW t \in Threads, WriteBack(t)
  PROVE  IInv'
<1> USE DEF IInv, TypeOK, WriteBack, Goto, sema_down, sema_up, AcquireOwners,
     ReleaseOwners, Evictable, WrittenBack, sectorVars, cacheVars, localVars,
     refVars, flushVars
<1>1. TypeOK'
  BY CacheAssumption DEF Sectors, Actors, Refs, PCs, FlushPCs
<1>2. LockInv'
  BY CacheAssumption DEF LockInv, InCache, Actors
<1>3. TakeInv'
  BY CacheAssumption DEF LockInv, TakeInv, InCache, hash_find, Ahead
<1>4. FlushInv'
  <2>1. fpc = "run"
    BY CacheAssumption DEF LockInv, InCache
  <2> QED BY <2>1 DEF FlushInv
<1>5. OwnersCount'
  <2>1. owners[clock_hand] = 0 /\ clock_hand \in Sectors
    BY DEF TakeInv
  <2> QED BY <2>1 DEF OwnersCount
<1>6. SemCounts'
  BY CacheAssumption DEF SemCounts, Giving, Keeping, Unowned
<1>7. (wrote \subseteq refs)' /\ NoLostWrite' /\ NoPanic'
  BY CacheAssumption DEF Refs, LockInv, TakeInv, FlushInv, NoLostWrite,
       OwnersCount, NoPanic
<1> QED BY <1>1, <1>2, <1>3, <1>4, <1>5, <1>6, <1>7

(* Fill preserves the invariant. *)
LEMMA Fill_Step ==
  ASSUME IInv, NEW t \in Threads, Fill(t)
  PROVE  IInv'
<1> USE DEF IInv, TypeOK, Fill, Goto, sema_down, sema_up, AcquireOwners,
     ReleaseOwners, Evictable, WrittenBack, sectorVars, cacheVars, localVars,
     refVars, flushVars
<1>1. TypeOK'
  <2>0. arg[t] \in Blocks /\ disk[arg[t]] \in Values
    BY DEF TakeInv, InCache
  <2>1. (pc \in [Threads -> PCs])'
    BY CacheAssumption DEF PCs
  <2>2. (free_list \in SUBSET Sectors)'
    BY CacheAssumption
  <2>3. (res \in [Threads -> Sectors])'
    BY CacheAssumption DEF Sectors
  <2>4. (index \in [Sectors -> Blocks \cup {NoBlock}])'
    BY CacheAssumption DEF TakeInv, InCache
  <2>5. (dirty \in [Sectors -> BOOLEAN])'
    BY CacheAssumption
  <2>6. (owners \in [Sectors -> Nat])'
    BY CacheAssumption
  <2>7. (data \in [Sectors -> Values])'
    BY <2>0
  <2>8. (refs \in SUBSET Refs)'
    BY CacheAssumption DEF Refs
  <2>9. (cache_lock \in Actors \cup {NoThread})'
    BY CacheAssumption DEF Actors
  <2> QED BY <2>1, <2>2, <2>3, <2>4, <2>5, <2>6, <2>7, <2>8, <2>9
<1>2. LockInv'
  BY CacheAssumption DEF LockInv, InCache, Actors
<1>3. TakeInv'
  <2>1. PICK s \in free_list : Fill(t)!(s)
    BY DEF Fill
  <2>2. \A r \in refs : r[2] # s
    BY UnownedFree DEF OwnersCount
  <2>3. \A u \in Threads : u # t => pc[u] \notin InCache
    BY <2>1, CacheAssumption DEF LockInv, InCache
  <2>4. \A u \in Threads : u # t => \A r \in refs' : r[1] = u => r \in refs /\ index'[r[2]] = index[r[2]]
    BY <2>1, <2>2 DEF Refs
  <2>5. ASSUME NEW u \in Threads, u # t
        PROVE  /\ pc'[u] = pc[u] /\ arg'[u] = arg[u] /\ block'[u] = block[u] /\ res'[u] = res[u]
               /\ pc[u] = "lock" => <<u, res[u], block[u]>> \in refs'
    BY <2>1, <2>5 DEF TakeInv
  <2>6. pc'[t] = "lock" /\ <<t, res'[t], block'[t]>> \in refs'
    BY <2>1
  <2> HIDE DEF Fill
  <2> SUFFICES ASSUME NEW u \in Threads PROVE TakeInv!(u)'
    BY DEF TakeInv
  <2>7. CASE u = t
    BY <2>6, <2>7 DEF InCache
  <2>8. CASE u # t
    <3>1. pc'[u] = pc[u] /\ pc[u] \notin InCache
      BY <2>3, <2>5, <2>8
    <3>2. pc[u] = "lock" => <<u, res'[u], block'[u]>> \in refs'
      BY <2>5, <2>8
    <3>3. ASSUME pc[u] = "take"
          PROVE  /\ arg'[u] \in Blocks
                 /\ \A r \in refs' : r[1] = u /\ index'[r[2]] = arg'[u] => r[3] /\ ~block'[u]
      <4>1. arg[u] \in Blocks /\ \A r \in refs : r[1] = u /\ index[r[2]] = arg[u] => r[3] /\ ~block[u]
        BY <3>3 DEF TakeInv, InCache
      <4>2. arg'[u] = arg[u] /\ (block'[u] <=> block[u])
        BY <2>5, <2>8
      <4>3. \A r \in refs' : r[1] = u => r \in refs /\ index'[r[2]] = index[r[2]]
        BY <2>4, <2>8
      <4> HIDE DEF IInv, TypeOK
      <4> QED BY <4>1, <4>2, <4>3
    <3> QED BY <3>1, <3>2, <3>3 DEF InCache
  <2> QED BY <2>7, <2>8
<1>4. FlushInv'
  <2>1. fpc = "run"
    BY CacheAssumption DEF LockInv, InCache
  <2> QED BY <2>1 DEF FlushInv
<1>5. OwnersCount'
  <2>1. PICK s \in free_list : Fill(t)!(s)
    BY DEF Fill
  <2> DEFINE q == <<t, s, block[t]>>
  <2>2. q \in Refs /\ q \notin refs /\ q[2] = s /\ owners[s] = 0
    BY <2>1, UnownedFree DEF Refs, OwnersCount
  <2>3. \A z \in Sectors : owners'[z] = Cardinality({r \in refs' : r[2] = z})
    <3>0. owners' = [owners EXCEPT ![s] = 1] /\ refs' = refs \cup {q}
      BY <2>1
    <3> HIDE DEF q
    <3>1. refs' = refs \cup {q} /\ owners' = [owners EXCEPT ![q[2]] = owners[q[2]] + 1]
      <4> HIDE DEF Fill, IInv, TypeOK
      <4> QED BY <3>0, <2>2
    <3> QED BY <2>2, <3>1, CountAdd
  <2>4. arg[t] \in Blocks /\ arg[t] # NoBlock /\ \A z \in Sectors : index[z] # arg[t]
    <3>1. arg[t] \in Blocks /\ hash_find(arg[t]) = {}
      BY <2>1 DEF TakeInv, InCache
    <3> QED BY <3>1, CacheAssumption DEF hash_find
  <2>5. \A z \in Sectors : index'[z] = NoBlock <=> z \in free_list'
    BY <2>1, <2>4 DEF OwnersCount
  <2>6. \A z \in free_list' : owners'[z] = 0
    BY <2>1 DEF OwnersCount
  <2>7. \A y, z \in Sectors : index'[y] = index'[z] /\ y # z => index'[y] = NoBlock
    BY <2>1, <2>4 DEF OwnersCount
  <2> QED BY <2>3, <2>5, <2>6, <2>7 DEF OwnersCount
<1>6. SemCounts'
  <2>1. PICK s \in free_list : Fill(t)!(s)
    BY DEF Fill
  <2>2. Giving' = Giving /\ cache_sem' = cache_sem
    BY <2>1 DEF Giving
  <2>3. Keeping' = Keeping \ {t} /\ t \in Keeping
    BY <2>1 DEF Keeping
  <2>4. Unowned' = Unowned \ {s} /\ s \in Unowned
    BY <2>1 DEF Unowned, OwnersCount
  <2>5. /\ Cardinality(Keeping') = Cardinality(Keeping) - 1
        /\ Cardinality(Unowned') = Cardinality(Unowned) - 1
    BY <2>3, <2>4, RefsFinite, FS_RemoveElement
  <2> HIDE DEF Fill
  <2> QED BY <2>2, <2>5, CardType DEF SemCounts
<1>7. (wrote \subseteq refs)' /\ NoLostWrite' /\ NoPanic'
  BY CacheAssumption DEF Refs, LockInv, TakeInv, FlushInv, NoLostWrite,
       OwnersCount, NoPanic
<1> QED BY <1>1, <1>2, <1>3, <1>4, <1>5, <1>6, <1>7

(* LockSector preserves the invariant. *)
LEMMA LockSector_Step ==
  ASSUME IInv, NEW t \in Threads, LockSector(t)
  PROVE  IInv'
<1> USE DEF IInv, TypeOK, LockSector, Goto, sema_down, sema_up, AcquireOwners,
     ReleaseOwners, Evictable, WrittenBack, sectorVars, cacheVars, localVars,
     refVars, flushVars
<1>1. TypeOK'
  <2>1. (pc \in [Threads -> PCs])'
    BY CacheAssumption DEF PCs
  <2>2. (arg \in [Threads -> Blocks \cup {NoBlock}])'
    BY CacheAssumption
  <2>3. (block \in [Threads -> BOOLEAN])'
    BY CacheAssumption
  <2>4. (res \in [Threads -> Sectors])'
    BY CacheAssumption DEF Sectors
  <2>5. (sector_lock \in [Sectors -> Threads \cup {NoThread}])'
    BY CacheAssumption
  <2> QED BY <2>1, <2>2, <2>3, <2>4, <2>5
<1>2. LockInv'
  BY CacheAssumption DEF LockInv, InCache, Actors
<1>3. TakeInv'
  BY CacheAssumption DEF LockInv, TakeInv, InCache, hash_find, Ahead
<1>4. SemCounts'
  BY CacheAssumption DEF SemCounts, Giving, Keeping, Unowned
<1>5. FlushInv' /\ (wrote \subseteq refs)' /\ OwnersCount' /\ NoLostWrite' /\ NoPanic'
  BY CacheAssumption DEF LockInv, FlushInv, Refs, TakeInv, OwnersCount,
       NoLostWrite, NoPanic
<1> QED BY <1>1, <1>2, <1>3, <1>4, <1>5

(* Modify preserves the invariant. *)
LEMMA Modify_Step ==
  ASSUME IInv, NEW t \in Threads, NEW r \in refs, NEW v \in Values, Modify(t, r, v)
  PROVE  IInv'
<1> USE DEF IInv, TypeOK, Modify, Goto, sema_down, sema_up, AcquireOwners,
     ReleaseOwners, Evictable, WrittenBack, sectorVars, cacheVars, localVars,
     refVars, flushVars
<1>1. TypeOK'
  BY CacheAssumption DEF Sectors, Actors, Refs, PCs, FlushPCs
<1>2. LockInv'
  BY CacheAssumption DEF LockInv, InCache, Actors
<1>3. TakeInv'
  BY CacheAssumption DEF LockInv, TakeInv, InCache, hash_find, Ahead
<1>4. FlushInv' /\ (wrote \subseteq refs)' /\ OwnersCount' /\ SemCounts' /\ NoLostWrite' /\ NoPanic'
  BY CacheAssumption DEF LockInv, FlushInv, Refs, TakeInv, OwnersCount, SemCounts,
       Giving, Keeping, Unowned, NoLostWrite, NoPanic
<1> QED BY <1>1, <1>2, <1>3, <1>4

(* release_sector preserves the invariant. *)
LEMMA release_sector_Step ==
  ASSUME IInv, NEW t \in Threads, NEW r \in refs, release_sector(t, r)
  PROVE  IInv'
<1> USE DEF IInv, TypeOK, release_sector, Goto, sema_down, sema_up, AcquireOwners,
     ReleaseOwners, Evictable, WrittenBack, sectorVars, cacheVars, localVars,
     refVars, flushVars
<1>1. TypeOK'
  <2>0. owners[r[2]] \in Nat \ {0} /\ r[2] \in Sectors
    BY OwnedPositive
  <2>1. (pc \in [Threads -> PCs])'
    BY CacheAssumption DEF PCs
  <2>2. (owners \in [Sectors -> Nat])'
    BY <2>0 DEF Sectors
  <2>3. (dirty \in [Sectors -> BOOLEAN])'
    BY CacheAssumption
  <2>4. (refs \in SUBSET Refs)'
    BY CacheAssumption DEF Refs
  <2>5. (wrote \in SUBSET Refs)'
    BY CacheAssumption DEF Refs
  <2>6. (res \in [Threads -> Sectors])'
    BY CacheAssumption DEF Refs, Sectors
  <2>7. (block \in [Threads -> BOOLEAN])'
    BY CacheAssumption DEF Refs
  <2>8. (owners_lock \in [Sectors -> Actors \cup {NoThread}])'
    BY CacheAssumption DEF Actors
  <2> QED BY <2>1, <2>2, <2>3, <2>4, <2>5, <2>6, <2>7, <2>8
<1>2. LockInv'
  BY CacheAssumption DEF LockInv, InCache, Actors
<1>3. TakeInv'
  <2>1. r[2] \in Sectors /\ owners_lock[r[2]] = NoThread /\ pc[t] = "run"
    BY OwnedPositive
  <2>2. \A u \in Threads : u # t => /\ pc'[u] = pc[u] /\ arg'[u] = arg[u] /\ block'[u] = block[u]
                                     /\ res'[u] = res[u]
    OBVIOUS
  <2>3. \A u \in Threads : pc[u] \in {"hitdown"} => res[u] # r[2]
    BY <2>1, CacheAssumption DEF LockInv
  <2>4. \A s \in Sectors : s # r[2] => owners'[s] = owners[s]
    OBVIOUS
  <2>5. \A s \in Sectors : owners[s] = 0 => s # r[2]
    BY OwnedPositive
  <2>6. pc'[t] \in {"up", "unlock"}
    OBVIOUS
  <2>7. \A u \in Threads : u # t => \A z \in Sectors : \A b \in BOOLEAN : <<u, z, b>> \in refs => <<u, z, b>> \in refs'
    OBVIOUS
  <2>8. UNCHANGED <<index, free_list, clock_hand, end>> /\ refs' \subseteq refs
    OBVIOUS
  <2> HIDE DEF release_sector
  <2> QED BY <2>1, <2>2, <2>3, <2>4, <2>5, <2>6, <2>7, <2>8 DEF TakeInv, InCache,
       Ahead, hash_find, PCs
<1>4. FlushInv'
  <2>1. r[2] \in Sectors /\ owners_lock[r[2]] = NoThread
    BY OwnedPositive
  <2>2. fpc = "clean" => i # r[2]
    BY <2>1, CacheAssumption DEF LockInv
  <2> QED BY <2>2 DEF FlushInv
<1>5. OwnersCount'
  <2>0. r[2] \in Sectors /\ owners[r[2]] \in Nat \ {0} /\ index[r[2]] # NoBlock
    BY OwnedPositive
  <2>1. \A s \in Sectors : owners'[s] = Cardinality({q \in refs' : q[2] = s})
    BY <2>0, CountRemove
  <2> QED BY <2>0, <2>1 DEF OwnersCount
<1>6. SemCounts'
  <2>0. r[2] \in Sectors /\ owners[r[2]] \in Nat \ {0}
    BY OwnedPositive
  <2>1. Keeping' = Keeping /\ cache_sem' = cache_sem
    BY DEF Keeping
  <2>2. CASE owners[r[2]] = 1
    <3>1. Giving' = Giving \cup {t} /\ t \notin Giving
      BY <2>2 DEF Giving
    <3>2. Unowned' = Unowned \cup {r[2]} /\ r[2] \notin Unowned
      BY <2>2, <2>0 DEF Unowned
    <3>3. /\ Cardinality(Giving') = Cardinality(Giving) + 1
          /\ Cardinality(Unowned') = Cardinality(Unowned) + 1
      BY <3>1, <3>2, RefsFinite, FS_AddElement
    <3> HIDE DEF release_sector
    <3> QED BY <2>1, <3>3, CardType DEF SemCounts
  <2>3. CASE owners[r[2]] # 1
    <3>1. Giving' = Giving
      BY <2>3 DEF Giving
    <3>2. Unowned' = Unowned
      BY <2>3, <2>0 DEF Unowned
    <3> QED BY <2>1, <3>1, <3>2 DEF SemCounts
  <2> QED BY <2>2, <2>3
<1>7. (wrote \subseteq refs)' /\ NoLostWrite' /\ NoPanic'
  BY CacheAssumption DEF Refs, LockInv, TakeInv, FlushInv, NoLostWrite,
       OwnersCount, NoPanic
<1> QED BY <1>1, <1>2, <1>3, <1>4, <1>5, <1>6, <1>7

(* ReleaseUp preserves the invariant. *)
LEMMA ReleaseUp_Step ==
  ASSUME IInv, NEW t \in Threads, ReleaseUp(t)
  PROVE  IInv'
<1> USE DEF IInv, TypeOK, ReleaseUp, Goto, sema_down, sema_up, AcquireOwners,
     ReleaseOwners, Evictable, WrittenBack, sectorVars, cacheVars, localVars,
     refVars, flushVars
<1>1. TypeOK'
  BY CacheAssumption DEF Sectors, Actors, Refs, PCs, FlushPCs
<1>2. LockInv'
  BY CacheAssumption DEF LockInv, InCache, Actors
<1>3. TakeInv'
  BY CacheAssumption DEF LockInv, TakeInv, InCache, hash_find, Ahead
<1>4. SemCounts'
  <2>1. Keeping' = Keeping /\ Unowned' = Unowned
    BY DEF Keeping, Unowned
  <2>2. Giving' = Giving \ {t} /\ t \in Giving
    BY DEF Giving
  <2>3. Cardinality(Giving') = Cardinality(Giving) - 1
    BY <2>2, RefsFinite, FS_RemoveElement
  <2>4. cache_sem' = cache_sem + 1
    OBVIOUS
  <2> HIDE DEF ReleaseUp
  <2> QED BY <2>1, <2>3, <2>4, CardType DEF SemCounts
<1>5. FlushInv' /\ (wrote \subseteq refs)' /\ OwnersCount' /\ NoLostWrite' /\ NoPanic'
  BY CacheAssumption DEF LockInv, FlushInv, Refs, TakeInv, OwnersCount,
       NoLostWrite, NoPanic
<1> QED BY <1>1, <1>2, <1>3, <1>4, <1>5

(* Unlock preserves the invariant. *)
LEMMA Unlock_Step ==
  ASSUME IInv, NEW t \in Threads, Unlock(t)
  PROVE  IInv'
<1> USE DEF IInv, TypeOK, Unlock, Goto, sema_down, sema_up, AcquireOwners,
     ReleaseOwners, Evictable, WrittenBack, sectorVars, cacheVars, localVars,
     refVars, flushVars
<1>1. TypeOK'
  <2>1. (pc \in [Threads -> PCs])'
    BY CacheAssumption DEF PCs
  <2>2. (arg \in [Threads -> Blocks \cup {NoBlock}])'
    BY CacheAssumption
  <2>3. (block \in [Threads -> BOOLEAN])'
    BY CacheAssumption
  <2>4. (res \in [Threads -> Sectors])'
    BY CacheAssumption DEF Sectors
  <2>5. (sector_lock \in [Sectors -> Threads \cup {NoThread}])'
    BY CacheAssumption
  <2> QED BY <2>1, <2>2, <2>3, <2>4, <2>5
<1>2. LockInv'
  BY CacheAssumption DEF LockInv, InCache, Actors
<1>3. TakeInv'
  BY CacheAssumption DEF LockInv, TakeInv, InCache, hash_find, Ahead
<1>4. SemCounts'
  BY CacheAssumption DEF SemCounts, Giving, Keeping, Unowned
<1>5. FlushInv' /\ (wrote \subseteq refs)' /\ OwnersCount' /\ NoLostWrite' /\ NoPanic'
  BY CacheAssumption DEF LockInv, FlushInv, Refs, TakeInv, OwnersCount,
       NoLostWrite, NoPanic
<1> QED BY <1>1, <1>2, <1>3, <1>4, <1>5

(* sector_cache_flush preserves the invariant. *)
LEMMA sector_cache_flush_Step ==
  ASSUME IInv, sector_cache_flush
  PROVE  IInv'
<1> USE DEF IInv, TypeOK, sector_cache_flush, Goto, sema_down, sema_up,
     AcquireOwners, ReleaseOwners, Evictable, WrittenBack, sectorVars, cacheVars,
     localVars, refVars, flushVars
<1>1. TypeOK'
  BY CacheAssumption DEF Sectors, Actors, Refs, PCs, FlushPCs
<1>2. LockInv'
  BY CacheAssumption DEF LockInv, InCache, Actors
<1>3. TakeInv'
  BY CacheAssumption DEF LockInv, TakeInv, InCache, hash_find, Ahead
<1>4. FlushInv' /\ (wrote \subseteq refs)' /\ OwnersCount' /\ SemCounts' /\ NoLostWrite' /\ NoPanic'
  BY CacheAssumption DEF LockInv, FlushInv, Refs, TakeInv, OwnersCount, SemCounts,
       Giving, Keeping, Unowned, NoLostWrite, NoPanic
<1> QED BY <1>1, <1>2, <1>3, <1>4

(* FlushTest preserves the invariant. *)
LEMMA FlushTest_Step ==
  ASSUME IInv, FlushTest
  PROVE  IInv'
<1> USE DEF IInv, TypeOK, FlushTest, Goto, sema_down, sema_up, AcquireOwners,
     ReleaseOwners, Evictable, WrittenBack, sectorVars, cacheVars, localVars,
     refVars, flushVars
<1>1. TypeOK'
  BY CacheAssumption, SMTT(20) DEF Sectors, Actors, Refs, PCs, FlushPCs
<1>2. LockInv'
  BY CacheAssumption DEF LockInv, InCache, Actors
<1>3. TakeInv'
  BY CacheAssumption DEF LockInv, TakeInv, InCache, hash_find, Ahead
<1>4. FlushInv' /\ (wrote \subseteq refs)' /\ OwnersCount' /\ SemCounts' /\ NoLostWrite' /\ NoPanic'
  BY CacheAssumption DEF LockInv, FlushInv, Refs, TakeInv, OwnersCount, SemCounts,
       Giving, Keeping, Unowned, NoLostWrite, NoPanic
<1> QED BY <1>1, <1>2, <1>3, <1>4

(* FlushWrite preserves the invariant. *)
LEMMA FlushWrite_Step ==
  ASSUME IInv, FlushWrite
  PROVE  IInv'
<1> USE DEF IInv, TypeOK, FlushWrite, Goto, sema_down, sema_up, AcquireOwners,
     ReleaseOwners, Evictable, WrittenBack, sectorVars, cacheVars, localVars,
     refVars, flushVars
<1>1. TypeOK'
  <2>1. (fpc \in FlushPCs)'
    BY CacheAssumption DEF FlushPCs
  <2>2. (owners_lock \in [Sectors -> Actors \cup {NoThread}])'
    BY CacheAssumption DEF Actors
  <2>3. (disk \in [Blocks -> Values])'
    BY CacheAssumption DEF FlushInv, Sectors
  <2> QED BY <2>1, <2>2, <2>3
<1>2. LockInv'
  BY CacheAssumption DEF LockInv, InCache, Actors
<1>3. TakeInv'
  BY CacheAssumption DEF LockInv, TakeInv, InCache, hash_find, Ahead
<1>4. FlushInv'
  BY CacheAssumption DEF FlushInv, Sectors
<1>5. NoLostWrite'
  <2>1. i \in Sectors /\ index[i] \in Blocks
    BY CacheAssumption DEF FlushInv, Sectors
  <2>2. \A s \in Sectors : s # i => index[s] # index[i]
    BY <2>1, CacheAssumption DEF OwnersCount
  <2> QED BY <2>1, <2>2 DEF NoLostWrite
<1>6. (wrote \subseteq refs)' /\ OwnersCount' /\ SemCounts' /\ NoPanic'
  BY CacheAssumption DEF Refs, LockInv, TakeInv, OwnersCount, SemCounts, Giving,
       Keeping, Unowned, NoPanic
<1> QED BY <1>1, <1>2, <1>3, <1>4, <1>5, <1>6

(* FlushClean preserves the invariant. *)
LEMMA FlushClean_Step ==
  ASSUME IInv, FlushClean
  PROVE  IInv'
<1> USE DEF IInv, TypeOK, FlushClean, Goto, sema_down, sema_up, AcquireOwners,
     ReleaseOwners, Evictable, WrittenBack, sectorVars, cacheVars, localVars,
     refVars, flushVars
<1>1. TypeOK'
  <2>1. (fpc \in FlushPCs)'
    BY CacheAssumption DEF FlushPCs
  <2>2. (owners_lock \in [Sectors -> Actors \cup {NoThread}])'
    BY CacheAssumption DEF Actors
  <2>3. (dirty \in [Sectors -> BOOLEAN])'
    BY CacheAssumption
  <2>4. (i \in 0 .. SECTOR_COUNT)'
    BY CacheAssumption DEF FlushInv, Sectors
  <2> QED BY <2>1, <2>2, <2>3, <2>4
<1>2. LockInv'
  BY CacheAssumption DEF LockInv, InCache, Actors
<1>3. TakeInv'
  BY CacheAssumption DEF LockInv, TakeInv, InCache, hash_find, Ahead
<1>4. FlushInv' /\ (wrote \subseteq refs)' /\ OwnersCount' /\ SemCounts' /\ NoLostWrite' /\ NoPanic'
  BY CacheAssumption DEF LockInv, FlushInv, Refs, TakeInv, OwnersCount, SemCounts,
       Giving, Keeping, Unowned, NoLostWrite, NoPanic
<1> QED BY <1>1, <1>2, <1>3, <1>4

(* FlushDone preserves the invariant. *)
LEMMA FlushDone_Step ==
  ASSUME IInv, FlushDone
  PROVE  IInv'
<1> USE DEF IInv, TypeOK, FlushDone, Goto, sema_down, sema_up, AcquireOwners,
     ReleaseOwners, Evictable, WrittenBack, sectorVars, cacheVars, localVars,
     refVars, flushVars
<1>1. TypeOK'
  BY CacheAssumption, SMTT(20) DEF Sectors, Actors, Refs, PCs, FlushPCs
<1>2. LockInv'
  BY CacheAssumption DEF LockInv, InCache, Actors
<1>3. TakeInv'
  BY CacheAssumption DEF LockInv, TakeInv, InCache, hash_find, Ahead
<1>4. FlushInv' /\ (wrote \subseteq refs)' /\ OwnersCount' /\ SemCounts' /\ NoLostWrite' /\ NoPanic'
  BY CacheAssumption DEF LockInv, FlushInv, Refs, TakeInv, OwnersCount, SemCounts,
       Giving, Keeping, Unowned, NoLostWrite, NoPanic
<1> QED BY <1>1, <1>2, <1>3, <1>4
(* The invariant holds at boot. *)
LEMMA InitIInv == ASSUME Init PROVE IInv
<1>0. 0 \in Sectors
  BY CacheAssumption DEF Sectors
<1>1. TypeOK
  BY <1>0, CacheAssumption DEF Init, TypeOK, Sectors, Actors, PCs, FlushPCs
<1>2. LockInv /\ TakeInv /\ FlushInv /\ wrote \subseteq refs /\ NoPanic /\ NoLostWrite
  BY CacheAssumption DEF Init, LockInv, TakeInv, FlushInv, NoPanic, NoLostWrite,
       InCache, Actors
<1>3. OwnersCount
  <2>1. \A s \in Sectors : {r \in refs : r[2] = s} = {}
    BY DEF Init
  <2>2. \A s \in Sectors : owners[s] = Cardinality({r \in refs : r[2] = s})
    BY <2>1, FS_EmptySet DEF Init
  <2> QED BY <2>2 DEF Init, OwnersCount
<1>4. SemCounts
  <2>1. Giving = {} /\ Keeping = {} /\ Unowned = Sectors
    BY DEF Init, Giving, Keeping, Unowned
  <2>2. Cardinality(Sectors) = SECTOR_COUNT
    BY FS_Interval, CacheAssumption DEF Sectors
  <2> QED BY <2>1, <2>2, FS_EmptySet, CacheAssumption DEF Init, SemCounts
<1> QED BY <1>1, <1>2, <1>3, <1>4 DEF IInv

(* Every step preserves it. *)
LEMMA NextIInv == IInv /\ [Next]_vars => IInv'
<1> SUFFICES ASSUME IInv, [Next]_vars PROVE IInv'
  OBVIOUS
<1>1. ASSUME NEW t \in Threads, Take(t) PROVE IInv'
  BY <1>1, take_sector_Step, LookUp_Step, HitOwned_Step, HitUnowned_Step,
       HitDown_Step,
     MissDown_Step, Scan_Step, WriteBack_Step, Fill_Step, LockSector_Step DEF Take
<1>2. ASSUME NEW t \in Threads, Release(t) PROVE IInv'
  BY <1>2, release_sector_Step, ReleaseUp_Step, Unlock_Step DEF Release
<1>3. ASSUME NEW t \in Threads, NEW r \in refs, NEW v \in Values, Modify(t, r, v)
      PROVE  IInv'
  BY <1>3, Modify_Step
<1>4. CASE Flush
  BY <1>4, sector_cache_flush_Step, FlushTest_Step, FlushWrite_Step, FlushClean_Step,
     FlushDone_Step DEF Flush
<1>5. CASE UNCHANGED vars
  BY <1>5 DEF vars, sectorVars, cacheVars, localVars, refVars, flushVars, IInv,
       TypeOK,
     LockInv, TakeInv, FlushInv, OwnersCount, SemCounts, NoLostWrite, NoPanic, Giving,
     Keeping, Unowned, hash_find, Ahead
<1> QED BY <1>1, <1>2, <1>3, <1>4, <1>5 DEF Next, Thread, Finished

(* The inductive invariant holds throughout. *)
THEOREM Invariance == Spec => []IInv
<1>1. Init => IInv
  BY InitIInv
<1>2. IInv /\ [Next]_vars => IInv'
  BY NextIInv
<1> QED BY <1>1, <1>2, PTL DEF Spec

(* Every variable keeps its representation; in particular neither cache_sem *)
(* nor a sector's owners ever drops below zero.                             *)
THEOREM TypeCorrect == Spec => []TypeOK
<1>1. IInv => TypeOK
  BY DEF IInv
<1> QED BY <1>1, Invariance, PTL

(* evict_sector's PANIC is unreachable. *)
THEOREM PanicUnreachable == Spec => []NoPanic
<1>1. IInv => NoPanic
  BY DEF IInv
<1> QED BY <1>1, Invariance, PTL

(* cache_sem and the owners counters agree with who really owns what. *)
THEOREM Accounting == Spec => [](SemCounts /\ OwnersCount)
<1>1. IInv => SemCounts /\ OwnersCount
  BY DEF IInv
<1> QED BY <1>1, Invariance, PTL

(* No modification is lost between a sector, its dirty flag and the disk. *)
THEOREM WritesKept == Spec => []NoLostWrite
<1>1. IInv => NoLostWrite
  BY DEF IInv
<1> QED BY <1>1, Invariance, PTL

(* ASSERT(sec->index == index) of release_sector cannot fail: a sector that *)
(* somebody owns is never given to another block.                           *)
THEOREM OwnedStay == Spec => OwnedKeepsBlock
<1>1. IInv /\ [Next]_vars => [\A r \in refs \cap refs' : index'[r[2]] = index[r[2]]]_vars
  <2> SUFFICES ASSUME IInv, [Next]_vars, NEW r \in refs \cap refs'
               PROVE  index'[r[2]] = index[r[2]]
    OBVIOUS
  <2>0. r[2] \in Sectors /\ owners[r[2]] # 0 /\ index[r[2]] # NoBlock
    BY OwnedPositive DEF IInv
  <2>1. ASSUME NEW t \in Threads, WriteBack(t)
        PROVE  index'[r[2]] = index[r[2]]
    BY <2>0, <2>1 DEF WriteBack, Goto, IInv, TypeOK, TakeInv
  <2>2. ASSUME NEW t \in Threads, Fill(t)
        PROVE  index'[r[2]] = index[r[2]]
    BY <2>0, <2>2 DEF Fill, IInv, TypeOK, OwnersCount
  <2>3. CASE index' = index
    BY <2>3
  <2>4. [Next]_vars => index' = index \/ \E t \in Threads : WriteBack(t) \/ Fill(t)
    BY DEF vars, sectorVars, Next, Thread, Take, Release, Flush, Finished,
         take_sector,
       LookUp, HitOwned, HitUnowned, HitDown, MissDown, Scan, LockSector, Modify,
       release_sector, ReleaseUp, Unlock, sector_cache_flush, FlushTest, FlushWrite,
       FlushClean, FlushDone
  <2> QED BY <2>1, <2>2, <2>3, <2>4
<1> QED BY <1>1, Invariance, PTL DEF Spec, OwnedKeepsBlock

-----------------------------------------------------------------------------
(* The refinement: the cache implements BlockStore. *)

(* A sector taken with its lock has it, from the end of take_sector to the  *)
(* end of release_sector; only one take of a thread has asked for the lock. *)
SectorLockInv ==
  /\ \A r \in refs : r[3] /\ ~Locking(r) => sector_lock[r[2]] = r[1]
  /\ \A t \in Threads : pc[t] \in {"up", "unlock"} /\ block[t] =>
       sector_lock[res[t]] = t /\ <<t, res[t], TRUE>> \notin refs

RInv == IInv /\ SectorLockInv

(* A block's contents are in the sector that caches it, or on the disk. *)
StoreView ==
  /\ Contents \in [Blocks -> Values]
  /\ \A b \in Blocks, s \in Sectors : index[s] = b => Contents[b] = data[s]
  /\ \A b \in Blocks : (\A s \in Sectors : index[s] # b) => Contents[b] = disk[b]

(* That view holds, since no block is cached twice. *)
LEMMA ContentsOf == TypeOK /\ OwnersCount => StoreView
<1> SUFFICES ASSUME TypeOK, OwnersCount PROVE StoreView
  OBVIOUS
<1>1. ASSUME NEW b \in Blocks, NEW s \in Sectors, index[s] = b
      PROVE  Contents[b] = data[s]
  <2>1. \A z \in Sectors : index[z] = b <=> z = s
    BY <1>1, CacheAssumption DEF TypeOK, OwnersCount
  <2>2. (CHOOSE z \in Sectors : index[z] = b) = s
    BY <2>1
  <2> QED BY <1>1, <2>2 DEF Contents, Cached, hash_find
<1>2. ASSUME NEW b \in Blocks, \A s \in Sectors : index[s] # b
      PROVE  Contents[b] = disk[b]
  BY <1>2 DEF Contents, Cached, hash_find
<1>3. \A b \in Blocks : Contents[b] \in Values
  BY <1>1, <1>2 DEF TypeOK
<1>4. Contents \in [Blocks -> Values]
  BY <1>3 DEF Contents
<1> QED BY <1>1, <1>2, <1>4 DEF StoreView

(* The same after a step. *)
LEMMA ContentsOfPrime == (TypeOK /\ OwnersCount => StoreView)'
BY ContentsOf, PTL

(* Every step keeps the sector locks with their takers. *)
LEMMA SectorLockStep == IInv /\ SectorLockInv /\ [Next]_vars => SectorLockInv'
<1> SUFFICES ASSUME IInv, SectorLockInv, [Next]_vars PROVE SectorLockInv'
  OBVIOUS
<1> USE DEF sectorVars, cacheVars, localVars, refVars, flushVars
<1>a. TypeOK /\ TakeInv
  BY DEF IInv
<1>b. \A r \in refs : /\ r[1] \in Threads /\ r[2] \in Sectors /\ r[3] \in BOOLEAN
                       /\ r = <<r[1], r[2], r[3]>>
  BY <1>a DEF TypeOK, Refs
<1>0. TypeOK /\ \A r \in refs : /\ r \in Refs /\ r[1] \in Threads /\ r[2] \in Sectors 
                                /\ r[3] \in BOOLEAN /\ r = <<r[1], r[2], r[3]>>
  BY <1>a, <1>b DEF TypeOK
<1>1. ASSUME NEW t \in Threads, NEW b \in Blocks, NEW bl \in BOOLEAN, take_sector(t, b, bl)
      PROVE  SectorLockInv'
  BY <1>0, <1>1 DEF take_sector, Goto, SectorLockInv, Locking, TypeOK, Refs
<1>2. ASSUME NEW t \in Threads, LookUp(t) PROVE SectorLockInv'
  BY <1>0, <1>2, ZenonT(30) DEF LookUp, Goto, SectorLockInv, Locking, TypeOK, Refs
<1>3. ASSUME NEW t \in Threads, HitOwned(t) \/ HitDown(t) PROVE SectorLockInv'
  <2>1. /\ pc[t] \in {"hit", "hitdown"} /\ pc' = [pc EXCEPT ![t] = "lock"]
        /\ UNCHANGED <<sector_lock, res, block>>
        /\ refs' = refs \cup {<<t, res[t], block[t]>>}
    BY <1>3 DEF HitOwned, HitDown, HitOwn, Goto
  <2>2. index[res[t]] = arg[t]
    BY <2>1 DEF IInv, TakeInv
  <2>3. \A r \in refs : r[1] = t /\ r[2] = res[t] => ~block[t]
    <3> SUFFICES ASSUME NEW r \in refs, r[1] = t, r[2] = res[t] PROVE ~block[t]
      OBVIOUS
    <3>1. \A q \in refs : q[1] = t /\ index[q[2]] = arg[t] => q[3] /\ ~block[t]
      BY <1>a, <2>1 DEF TakeInv
    <3> QED BY <2>2, <3>1
  <2>4. ASSUME NEW r \in refs', r[3], ~Locking(r)'
        PROVE  r \in refs /\ ~Locking(r)
    <3>1. r # <<t, res[t], block[t]>>
      BY <1>0, <2>1, <2>4 DEF Locking, TypeOK
    <3> QED BY <1>0, <2>1, <2>3, <2>4, <3>1 DEF Locking, TypeOK, Refs
  <2>5. \A u \in Threads : pc'[u] \in {"up", "unlock"} => u # t /\ pc[u] = pc'[u]
    BY <1>0, <2>1 DEF TypeOK
  <2> QED BY <1>0, <2>1, <2>4, <2>5 DEF SectorLockInv, Refs
<1>4. ASSUME NEW t \in Threads, HitUnowned(t) \/ MissDown(t) \/ Scan(t) \/ WriteBack(t)
      PROVE  SectorLockInv'
  <2>1. /\ pc[t] \notin {"lock", "up", "unlock"}
        /\ \E to \in PCs \ {"lock", "up", "unlock"} : pc' = [pc EXCEPT ![t] = to]
        /\ UNCHANGED <<sector_lock, res, block, refs>>
    BY <1>4 DEF HitUnowned, MissDown, Scan, evict_sector, WriteBack, Goto, PCs
  <2> QED BY <1>0, <2>1, ZenonT(30) DEF SectorLockInv, Locking, TypeOK, Refs
<1>5. ASSUME NEW t \in Threads, Fill(t) PROVE SectorLockInv'
  <2>1. PICK s \in free_list :
          /\ pc[t] = "fill" /\ pc' = [pc EXCEPT ![t] = "lock"]
          /\ res' = [res EXCEPT ![t] = s] /\ UNCHANGED <<sector_lock, block>>
          /\ refs' = refs \cup {<<t, s, block[t]>>}
    BY <1>5 DEF Fill, Goto
  <2>2. s \in Sectors /\ \A r \in refs : r[2] # s
    BY <1>0, UnownedFree DEF IInv, OwnersCount, TypeOK
  <2>3. ASSUME NEW r \in refs', r[3], ~Locking(r)'
        PROVE  r \in refs /\ ~Locking(r)
    <3>1. r # <<t, s, block[t]>>
      BY <1>0, <2>1, <2>3 DEF Locking, TypeOK
    <3> QED BY <1>0, <2>1, <2>3, <3>1 DEF Locking, TypeOK
  <2>4. \A u \in Threads : pc'[u] \in {"up", "unlock"} =>
          /\ u # t /\ pc[u] = pc'[u] /\ res'[u] = res[u]
          /\ <<u, res[u], TRUE>> \notin refs => <<u, res[u], TRUE>> \notin refs'
    BY <1>0, <2>1 DEF TypeOK
  <2> QED BY <1>0, <2>1, <2>3, <2>4, ZenonT(30) DEF SectorLockInv
<1>6. ASSUME NEW t \in Threads, LockSector(t) PROVE SectorLockInv'
  <2>1. /\ pc[t] = "lock" /\ pc' = [pc EXCEPT ![t] = "run"]
        /\ UNCHANGED refs
        /\ block' = [block EXCEPT ![t] = FALSE] /\ res' = [res EXCEPT ![t] = 0]
    BY <1>6 DEF LockSector, Goto
  <2>2. CASE block[t]
    <3>1. sector_lock[res[t]] = NoThread /\ sector_lock' = [sector_lock EXCEPT ![res[t]] = t]
      BY <1>6, <2>2 DEF LockSector
    <3>2. \A r \in refs : r[3] /\ ~Locking(r) => r[2] # res[t]
      BY <1>0, <3>1, CacheAssumption DEF SectorLockInv
    <3>3. \A u \in Threads : pc[u] \in {"up", "unlock"} /\ block[u] => res[u] # res[t]
      BY <3>1, CacheAssumption DEF SectorLockInv
    <3> QED BY <1>0, <2>1, <3>1, <3>2, <3>3, ZenonT(30) DEF SectorLockInv, Locking, TypeOK, Refs
  <2>3. CASE ~block[t]
    <3>1. UNCHANGED sector_lock
      BY <1>6, <2>3 DEF LockSector
    <3> QED BY <1>0, <2>1, <2>3, <3>1 DEF SectorLockInv, Locking, TypeOK, Refs
  <2> QED BY <2>2, <2>3
<1>7. ASSUME NEW t \in Threads, NEW r \in refs, release_sector(t, r) PROVE SectorLockInv'
  <2>1. /\ pc[t] = "run"
        /\ \E to \in {"up", "unlock"} : pc' = [pc EXCEPT ![t] = to]
        /\ UNCHANGED sector_lock /\ refs' = refs \ {r} /\ r[1] = t
        /\ block' = [block EXCEPT ![t] = r[3]] /\ res' = [res EXCEPT ![t] = r[2]]
    BY <1>7 DEF release_sector, Goto
  <2>2. r[3] => sector_lock[r[2]] = t /\ r = <<t, r[2], TRUE>>
    BY <1>0, <2>1 DEF SectorLockInv, Locking
  <2> QED BY <1>0, <2>1, <2>2, ZenonT(30) DEF SectorLockInv, Locking, TypeOK
<1>8. ASSUME NEW t \in Threads, ReleaseUp(t) PROVE SectorLockInv'
  BY <1>0, <1>8 DEF ReleaseUp, Goto, SectorLockInv, Locking, TypeOK, Refs
<1>9. ASSUME NEW t \in Threads, Unlock(t) PROVE SectorLockInv'
  <2>1. /\ pc[t] = "unlock" /\ pc' = [pc EXCEPT ![t] = "run"]
        /\ UNCHANGED refs
        /\ block' = [block EXCEPT ![t] = FALSE] /\ res' = [res EXCEPT ![t] = 0]
    BY <1>9 DEF Unlock, Goto
  <2>2. CASE block[t]
    <3>1. sector_lock' = [sector_lock EXCEPT ![res[t]] = NoThread]
      BY <1>9, <2>2 DEF Unlock
    <3>2. sector_lock[res[t]] = t /\ <<t, res[t], TRUE>> \notin refs
      BY <2>1, <2>2 DEF SectorLockInv
    <3>3. \A r \in refs : r[3] /\ ~Locking(r) => r[2] # res[t]
      <4> SUFFICES ASSUME NEW r \in refs, r[3], ~Locking(r), r[2] = res[t] PROVE FALSE
        OBVIOUS
      <4>1. r[1] = t
        BY <3>2 DEF SectorLockInv
      <4>2. r = <<t, res[t], TRUE>>
        BY <1>b, <4>1
      <4> QED BY <3>2, <4>2
    <3>4. \A u \in Threads : u # t /\ pc[u] \in {"up", "unlock"} /\ block[u] => res[u] # res[t]
      BY <3>2 DEF SectorLockInv
    <3> QED BY <1>0, <2>1, <3>1, <3>3, <3>4 DEF SectorLockInv, Locking, TypeOK, Refs
  <2>3. CASE ~block[t]
    <3>1. UNCHANGED sector_lock
      BY <1>9, <2>3 DEF Unlock
    <3> QED BY <1>0, <2>1, <2>3, <3>1 DEF SectorLockInv, Locking, TypeOK, Refs
  <2> QED BY <2>2, <2>3
<1>10. CASE UNCHANGED <<pc, sector_lock, res, block, refs>>
  BY <1>10 DEF SectorLockInv, Locking
<1>11. \/ UNCHANGED <<pc, sector_lock, res, block, refs>>
       \/ \E t \in Threads : Take(t) \/ Release(t)
  BY DEF vars, Next, Thread, Flush, Finished, Modify, sector_cache_flush, FlushTest,
     FlushWrite, FlushClean, FlushDone
<1> QED BY <1>1, <1>2, <1>3, <1>4, <1>5, <1>6, <1>7, <1>8, <1>9, <1>10, <1>11
        DEF Take, Release

(* The initial states are BlockStore's. *)
LEMMA SimInit == Init => BS!InitStore
<1> SUFFICES ASSUME Init PROVE BS!InitStore
  OBVIOUS
<1>1. Contents \in [Blocks -> Values]
  BY InitIInv, ContentsOf DEF StoreView, IInv
<1> QED BY <1>1 DEF Init, BS!InitStore, OwnedBlocks, LockedBlocks

(* What a step leaves alone of the cached blocks is left alone of the store. *)
LEMMA SameContents ==
  ASSUME IInv, IInv', UNCHANGED <<index, data>>,
         \A b \in Blocks : (\A s \in Sectors : index[s] # b) => disk'[b] = disk[b]
  PROVE  Contents' = Contents
<1>1. StoreView /\ StoreView'
  BY ContentsOf, ContentsOfPrime DEF IInv
<1>2. \A b \in Blocks : Contents'[b] = Contents[b]
  BY <1>1 DEF StoreView
<1> QED BY <1>1, <1>2 DEF StoreView

(* An owned sector's block. *)
LEMMA OwnedBlock ==
  ASSUME IInv, NEW r \in refs
  PROVE  /\ r[1] \in Threads /\ r[2] \in Sectors /\ r[3] \in BOOLEAN
         /\ r = <<r[1], r[2], r[3]>> /\ index[r[2]] \in Blocks
BY OwnedPositive DEF IInv, TypeOK, Refs

(* A hit of take_sector is the store's Own. *)
LEMMA SimHit ==
  ASSUME RInv, IInv', NEW t \in Threads, HitOwned(t) \/ HitDown(t)
  PROVE  BS!Own(t, index[res[t]]) /\ index[res[t]] \in Blocks
<1> USE DEF sectorVars, cacheVars, localVars, refVars, flushVars
<1>0. IInv /\ TypeOK /\ TakeInv
  BY DEF RInv, IInv
<1>1. /\ pc[t] \in {"hit", "hitdown"} /\ pc' = [pc EXCEPT ![t] = "lock"]
      /\ UNCHANGED <<disk, data, index, res, block>>
      /\ refs' = refs \cup {<<t, res[t], block[t]>>}
  BY DEF HitOwned, HitDown, HitOwn, Goto
<1>2. index[res[t]] = arg[t] /\ arg[t] \in Blocks
  BY <1>0, <1>1 DEF TakeInv, InCache
<1>3. Contents' = Contents
  BY <1>0, <1>1, SameContents
<1>4. OwnedBlocks' = OwnedBlocks \cup {<<t, index[res[t]]>>}
  <2>1. PICK q : q[1] = t /\ q[2] = res[t] /\ refs' = refs \cup {q} /\ index' = index
    BY <1>1
  <2> QED BY <2>1, Zenon DEF OwnedBlocks
<1>5. {q \in refs : q[3] /\ ~Locking(q)}' = {q \in refs : q[3] /\ ~Locking(q)}
  <2>1. \A r \in refs : r[1] = t /\ r[2] = res[t] => ~block[t]
    <3> SUFFICES ASSUME NEW r \in refs, r[1] = t, r[2] = res[t] PROVE ~block[t]
      OBVIOUS
    <3>1. \A q \in refs : q[1] = t /\ index[q[2]] = arg[t] => q[3] /\ ~block[t]
      BY <1>0, <1>1 DEF TakeInv
    <3> QED BY <1>2, <3>1
  <2>2. ASSUME NEW r \in refs PROVE Locking(r)' <=> Locking(r)
    BY <1>0, <1>1, <2>1, OwnedBlock DEF Locking, TypeOK
  <2>3. ~ (block[t] /\ ~Locking(<<t, res[t], block[t]>>)')
    BY <1>0, <1>1 DEF Locking, TypeOK
  <2>4. <<t, res[t], block[t]>> \in refs => ~block[t]
    BY <2>1
  <2> QED BY <1>1, <2>2, <2>3, <2>4
<1>6. LockedBlocks' = LockedBlocks
  BY <1>1, <1>5 DEF LockedBlocks
<1> QED BY <1>2, <1>3, <1>4, <1>6 DEF BS!Own

(* So is a miss, once its sector is filled from the disk. *)
LEMMA SimFill ==
  ASSUME RInv, IInv', NEW t \in Threads, Fill(t)
  PROVE  BS!Own(t, arg[t]) /\ arg[t] \in Blocks
<1> USE DEF sectorVars, cacheVars, localVars, refVars, flushVars
<1>0. IInv /\ TypeOK /\ TakeInv
  BY DEF RInv, IInv
<1>1. PICK s \in free_list :
        /\ pc[t] = "fill" /\ pc' = [pc EXCEPT ![t] = "lock"]
        /\ res' = [res EXCEPT ![t] = s] /\ UNCHANGED <<disk, block>>
        /\ index' = [index EXCEPT ![s] = arg[t]]
        /\ data' = [data EXCEPT ![s] = disk[arg[t]]]
        /\ refs' = refs \cup {<<t, s, block[t]>>}
  BY DEF Fill, Goto
<1>2. /\ arg[t] \in Blocks
      /\ \A z \in Sectors : index[z] # arg[t]
  BY <1>0, <1>1 DEF TakeInv, InCache, hash_find
<1>3. s \in Sectors /\ index[s] = NoBlock /\ \A r \in refs : r[2] # s
  BY <1>0, UnownedFree DEF IInv, OwnersCount, TypeOK
<1>4. Contents' = Contents
  <2>1. StoreView /\ StoreView'
    BY <1>0, ContentsOf, ContentsOfPrime DEF IInv
  <2>2. Contents'[arg[t]] = Contents[arg[t]]
    BY <1>0, <1>1, <1>2, <1>3, <2>1 DEF StoreView, TypeOK
  <2>3. ASSUME NEW b \in Blocks, b # arg[t], NEW z \in Sectors, index[z] = b
        PROVE  Contents'[b] = Contents[b]
    <3>1. z # s /\ index'[z] = b /\ data'[z] = data[z]
      BY <1>0, <1>1, <1>3, <2>3, CacheAssumption DEF TypeOK
    <3> QED BY <2>1, <2>3, <3>1 DEF StoreView
  <2>4. ASSUME NEW b \in Blocks, b # arg[t], \A z \in Sectors : index[z] # b
        PROVE  Contents'[b] = Contents[b]
    <3>1. \A z \in Sectors : index'[z] # b
      BY <1>0, <1>1, <2>4 DEF TypeOK
    <3> QED BY <1>1, <2>1, <2>4, <3>1 DEF StoreView
  <2>5. \A b \in Blocks : Contents'[b] = Contents[b]
    BY <2>2, <2>3, <2>4
  <2> QED BY <2>1, <2>5 DEF StoreView
<1>5. \A r \in refs : index'[r[2]] = index[r[2]]
  BY <1>0, <1>1, <1>3, OwnedBlock DEF TypeOK
<1>6. index'[s] = arg[t]
  BY <1>0, <1>1, <1>3 DEF TypeOK
<1>7. OwnedBlocks' = OwnedBlocks \cup {<<t, arg[t]>>}
  <2>1. PICK q : q[1] = t /\ q[2] = s /\ refs' = refs \cup {q}
    BY <1>1
  <2>2. OwnedBlocks' \subseteq OwnedBlocks \cup {<<t, arg[t]>>}
    BY <1>5, <1>6, <2>1, Zenon DEF OwnedBlocks
  <2>3. OwnedBlocks \cup {<<t, arg[t]>>} \subseteq OwnedBlocks'
    BY <1>5, <1>6, <2>1, Zenon DEF OwnedBlocks
  <2> QED BY <2>2, <2>3
<1>8. {q \in refs : q[3] /\ ~Locking(q)}' = {q \in refs : q[3] /\ ~Locking(q)}
  <2>1. ASSUME NEW r \in refs PROVE Locking(r)' <=> Locking(r)
    BY <1>0, <1>1, <1>3, OwnedBlock DEF Locking, TypeOK
  <2>2. ~ (block[t] /\ ~Locking(<<t, s, block[t]>>)')
    BY <1>0, <1>1 DEF Locking, TypeOK
  <2>3. <<t, s, block[t]>> \notin refs
    BY <1>3
  <2> QED BY <1>1, <2>1, <2>2, <2>3
<1>9. LockedBlocks' = LockedBlocks
  BY <1>5, <1>8 DEF LockedBlocks
<1> QED BY <1>2, <1>4, <1>7, <1>9 DEF BS!Own

(* The end of take_sector is the store's Lock if the lock was asked for. *)
LEMMA SimLock ==
  ASSUME RInv, IInv', NEW t \in Threads, LockSector(t)
  PROVE  \/ BS!Lock(t, index[res[t]]) /\ index[res[t]] \in Blocks
         \/ UNCHANGED BS!storeVars
<1> USE DEF sectorVars, cacheVars, localVars, refVars, flushVars
<1>0. IInv /\ TypeOK /\ TakeInv
  BY DEF RInv, IInv
<1>1. /\ pc[t] = "lock" /\ pc' = [pc EXCEPT ![t] = "run"]
      /\ UNCHANGED <<disk, data, index, refs>>
  BY DEF LockSector, Goto
<1>2. Contents' = Contents
  BY <1>0, <1>1, SameContents
<1>3. OwnedBlocks' = OwnedBlocks
  BY <1>1 DEF OwnedBlocks
<1>4. <<t, res[t], block[t]>> \in refs
  BY <1>0, <1>1 DEF TakeInv
<1>5. \A r \in refs : Locking(r)' <=> Locking(r) /\ r[1] # t
  <2> SUFFICES ASSUME NEW r \in refs PROVE Locking(r)' <=> Locking(r) /\ r[1] # t
    OBVIOUS
  <2>1. CASE r[1] = t
    BY <1>0, <1>1, <2>1 DEF Locking, TypeOK
  <2>2. CASE r[1] # t
    <3>1. r[1] \in Threads
      BY <1>0, OwnedBlock
    <3> QED BY <1>0, <1>1, <2>2, <3>1 DEF LockSector, Locking, TypeOK
  <2> QED BY <2>1, <2>2
<1>6. CASE block[t]
  <2>1. sector_lock[res[t]] = NoThread
    BY <1>6 DEF LockSector
  <2>2. PICK q \in refs : q[1] = t /\ q[2] = res[t] /\ q[3] /\ q = <<t, res[t], TRUE>>
    BY <1>0, <1>4, <1>6 DEF TypeOK
  <2>3. index[res[t]] \in Blocks
    BY <1>0, <2>2, OwnedBlock
  <2>4. <<t, index[res[t]]>> \in OwnedBlocks
    BY <2>2, Zenon DEF OwnedBlocks
  <2>5. ASSUME NEW u \in Threads, <<u, index[res[t]]>> \in LockedBlocks PROVE FALSE
    <3>1. PICK r \in refs : r[3] /\ ~Locking(r) /\ r[1] = u /\ index[r[2]] = index[res[t]]
      BY <2>5 DEF LockedBlocks
    <3>2. r[2] = res[t]
      BY <1>0, <2>3, <3>1, OwnedBlock, CacheAssumption DEF IInv, OwnersCount, TypeOK
    <3> QED BY <2>1, <3>1, <3>2, CacheAssumption DEF RInv, SectorLockInv
  <2>6. {r \in refs : r[3] /\ ~Locking(r)}' = {r \in refs : r[3] /\ ~Locking(r)} \cup {q}
    <3>1. ASSUME NEW r \in refs, r[3], r[1] = t, Locking(r) PROVE r = q
      BY <1>0, <2>2, <3>1, OwnedBlock, ZenonT(30) DEF Locking
    <3> QED BY <1>1, <1>5, <2>2, <3>1
  <2>7. LockedBlocks' = LockedBlocks \cup {<<t, index[res[t]]>>}
    <3>1. LockedBlocks' \subseteq LockedBlocks \cup {<<t, index[res[t]]>>}
      BY <1>1, <2>2, <2>6, Zenon DEF LockedBlocks
    <3>2. LockedBlocks \cup {<<t, index[res[t]]>>} \subseteq LockedBlocks'
      BY <1>1, <2>2, <2>6, Zenon DEF LockedBlocks
    <3> QED BY <3>1, <3>2
  <2> QED BY <1>2, <1>3, <2>3, <2>4, <2>5, <2>7 DEF BS!Lock
<1>7. CASE ~block[t]
  <2>1. \A r \in refs : r[1] = t => ~Locking(r)
    BY <1>7 DEF Locking
  <2>2. {r \in refs : r[3] /\ ~Locking(r)}' = {r \in refs : r[3] /\ ~Locking(r)}
    BY <1>1, <1>5, <2>1
  <2>3. LockedBlocks' = LockedBlocks
    BY <1>1, <2>2 DEF LockedBlocks
  <2> QED BY <1>2, <1>3, <2>3 DEF BS!storeVars
<1> QED BY <1>6, <1>7

(* An owner's modification is the store's. *)
LEMMA SimModify ==
  ASSUME RInv, IInv', NEW t \in Threads, NEW r \in refs, NEW v \in Values, Modify(t, r, v)
  PROVE  index[r[2]] \in Blocks /\ BS!ModifyBlock(t, index[r[2]], v)
<1> USE DEF sectorVars, cacheVars, localVars, refVars, flushVars
<1>0. IInv /\ TypeOK
  BY DEF RInv, IInv
<1>1. /\ r[1] = t /\ data' = [data EXCEPT ![r[2]] = v]
      /\ UNCHANGED <<disk, index, refs, pc, res, block>>
  BY DEF Modify
<1>2. r[2] \in Sectors /\ index[r[2]] \in Blocks
  BY <1>0, OwnedBlock
<1>3. StoreView /\ StoreView'
  BY <1>0, ContentsOf, ContentsOfPrime DEF IInv
<1>4. Contents'[index[r[2]]] = v
  BY <1>0, <1>1, <1>2, <1>3 DEF StoreView, TypeOK
<1>5. ASSUME NEW b \in Blocks, b # index[r[2]] PROVE Contents'[b] = Contents[b]
  <2>1. ASSUME NEW z \in Sectors, index[z] = b PROVE Contents'[b] = Contents[b]
    <3>1. z # r[2] /\ data'[z] = data[z] /\ index'[z] = b
      BY <1>0, <1>1, <1>5, <2>1 DEF TypeOK
    <3> QED BY <1>3, <2>1, <3>1 DEF StoreView
  <2>2. CASE \A z \in Sectors : index[z] # b
    BY <1>1, <1>3, <2>2 DEF StoreView
  <2> QED BY <2>1, <2>2
<1>6. Contents' = [Contents EXCEPT ![index[r[2]]] = v]
  BY <1>2, <1>3, <1>4, <1>5 DEF StoreView
<1>7. <<t, index[r[2]]>> \in OwnedBlocks
  BY <1>1, Zenon DEF OwnedBlocks
<1>8. OwnedBlocks' = OwnedBlocks /\ LockedBlocks' = LockedBlocks
  BY <1>1 DEF OwnedBlocks, LockedBlocks, Locking
<1> QED BY <1>2, <1>6, <1>7, <1>8 DEF BS!ModifyBlock

(* The blocks of a set of takes, less one of them. *)
BlocksOf(P) == {<<q[1], index[q[2]]>> : q \in P}

(* Without one take, its block goes or another take still has it. *)
LEMMA BlocksOfLess ==
  ASSUME NEW P, NEW r
  PROVE  BlocksOf(P \ {r}) \in {BlocksOf(P), BlocksOf(P) \ {<<r[1], index[r[2]]>>}}
<1>1. CASE r \in P /\ \E q \in P \ {r} : <<q[1], index[q[2]]>> = <<r[1], index[r[2]]>>
  <2>1. BlocksOf(P \ {r}) \subseteq BlocksOf(P)
    BY Zenon DEF BlocksOf
  <2>2. BlocksOf(P) \subseteq BlocksOf(P \ {r})
    BY <1>1, Zenon DEF BlocksOf
  <2> QED BY <2>1, <2>2
<1>2. CASE r \in P /\ ~ \E q \in P \ {r} : <<q[1], index[q[2]]>> = <<r[1], index[r[2]]>>
  <2>1. BlocksOf(P \ {r}) \subseteq BlocksOf(P) \ {<<r[1], index[r[2]]>>}
    BY <1>2, Zenon DEF BlocksOf
  <2>2. BlocksOf(P) \ {<<r[1], index[r[2]]>>} \subseteq BlocksOf(P \ {r})
    BY <1>2, Zenon DEF BlocksOf
  <2> QED BY <2>1, <2>2
<1>3. CASE r \notin P
  <2>1. P \ {r} = P
    BY <1>3
  <2> QED BY <2>1
<1> QED BY <1>1, <1>2, <1>3

(* release_sector up to owners-- is the store's Disown. *)
LEMMA SimRelease ==
  ASSUME RInv, IInv', NEW t \in Threads, NEW r \in refs, release_sector(t, r)
  PROVE  index[r[2]] \in Blocks /\ BS!Disown(t, index[r[2]])
<1> USE DEF sectorVars, cacheVars, localVars, refVars, flushVars
<1> DEFINE L == {q \in refs : q[3] /\ ~Locking(q)}
<1>0. IInv /\ TypeOK
  BY DEF RInv, IInv
<1>1. /\ pc[t] = "run" /\ r[1] = t /\ refs' = refs \ {r}
      /\ \E to \in {"up", "unlock"} : pc' = [pc EXCEPT ![t] = to]
      /\ UNCHANGED <<disk, index, data>>
  BY DEF release_sector, Goto
<1>2. index[r[2]] \in Blocks
  BY <1>0, OwnedBlock
<1>3. Contents' = Contents
  BY <1>0, <1>1, SameContents
<1>4. \A q \in refs : Locking(q)' <=> Locking(q)
  <2> SUFFICES ASSUME NEW q \in refs PROVE Locking(q)' <=> Locking(q)
    OBVIOUS
  <2>0. q[1] \in Threads
    BY <1>0, OwnedBlock
  <2>1. CASE q[1] = t
    BY <1>0, <1>1, <2>1 DEF Locking, TypeOK
  <2>2. CASE q[1] # t
    BY <1>0, <2>0, <2>2 DEF release_sector, Goto, Locking, TypeOK
  <2> QED BY <2>1, <2>2
<1>5. OwnedBlocks = BlocksOf(refs) /\ LockedBlocks = BlocksOf(L)
  BY DEF OwnedBlocks, LockedBlocks, BlocksOf
<1>6. OwnedBlocks' = BlocksOf(refs \ {r}) /\ LockedBlocks' = BlocksOf(L \ {r})
  <2>1. L' = L \ {r}
    BY <1>1, <1>4
  <2> QED BY <1>1, <2>1 DEF OwnedBlocks, LockedBlocks, BlocksOf
<1>7. /\ OwnedBlocks' \in {OwnedBlocks, OwnedBlocks \ {<<t, index[r[2]]>>}}
      /\ LockedBlocks' \in {LockedBlocks, LockedBlocks \ {<<t, index[r[2]]>>}}
  <2> HIDE DEF L
  <2> QED BY <1>1, <1>5, <1>6, BlocksOfLess
<1>8. LockedBlocks' \subseteq OwnedBlocks'
  BY <1>6, Zenon DEF BlocksOf
<1>9. <<t, index[r[2]]>> \in OwnedBlocks
  BY <1>1, Zenon DEF OwnedBlocks
<1> QED BY <1>2, <1>3, <1>7, <1>8, <1>9 DEF BS!Disown

(* A step that leaves the sectors' data and the takes alone, and the disk  *)
(* too but for cached blocks, cannot be seen in the store.                 *)
LEMMA SimQuiet ==
  ASSUME IInv, IInv', UNCHANGED <<index, data, refs>>,
         \A b \in Blocks : (\A s \in Sectors : index[s] # b) => disk'[b] = disk[b],
         \A r \in refs : Locking(r)' <=> Locking(r)
  PROVE  UNCHANGED BS!storeVars
<1>1. Contents' = Contents
  BY SameContents
<1>2. {r \in refs : r[3] /\ ~Locking(r)}' = {r \in refs : r[3] /\ ~Locking(r)}
  OBVIOUS
<1>3. OwnedBlocks' = OwnedBlocks /\ LockedBlocks' = LockedBlocks
  BY <1>2 DEF OwnedBlocks, LockedBlocks
<1> QED BY <1>1, <1>3 DEF BS!storeVars

(* The steps of the threads that only move them through cache.c. *)
LEMMA SimMove ==
  ASSUME IInv, IInv', NEW t \in Threads,
         \/ \E b \in Blocks, bl \in BOOLEAN : take_sector(t, b, bl)
         \/ LookUp(t) \/ HitUnowned(t) \/ MissDown(t) \/ Scan(t)
         \/ ReleaseUp(t) \/ Unlock(t)
  PROVE  UNCHANGED BS!storeVars
<1>1. /\ UNCHANGED <<disk, index, data, refs>>
      /\ pc[t] # "lock"
      /\ \E to \in PCs \ {"lock"} : pc' = [pc EXCEPT ![t] = to]
      /\ \A u \in Threads : u # t => res'[u] = res[u] /\ block'[u] = block[u]
  <2> USE DEF sectorVars, cacheVars, localVars, refVars, flushVars, Goto, PCs, IInv, TypeOK
  <2>1. CASE \E b \in Blocks, bl \in BOOLEAN : take_sector(t, b, bl)
    BY <2>1, ZenonT(30) DEF take_sector
  <2>2. CASE LookUp(t)
    BY <2>2 DEF LookUp
  <2>3. CASE HitUnowned(t) \/ MissDown(t)
    BY <2>3 DEF HitUnowned, MissDown
  <2>4. CASE Scan(t)
    BY <2>4 DEF Scan, evict_sector
  <2>5. CASE ReleaseUp(t) \/ Unlock(t)
    BY <2>5 DEF ReleaseUp, Unlock
  <2> QED BY <2>1, <2>2, <2>3, <2>4, <2>5
<1>2. \A r \in refs : Locking(r)' <=> Locking(r)
  <2> SUFFICES ASSUME NEW r \in refs PROVE Locking(r)' <=> Locking(r)
    OBVIOUS
  <2>1. r[1] \in Threads
    BY OwnedBlock
  <2> QED BY <1>1, <2>1 DEF Locking, IInv, TypeOK
<1> QED BY <1>1, <1>2, SimQuiet

(* A victim that nobody owns is clean or written back: its block keeps its *)
(* contents when it leaves the cache.                                      *)
LEMMA SimWriteBack ==
  ASSUME IInv, IInv', NEW t \in Threads, WriteBack(t)
  PROVE  UNCHANGED BS!storeVars
<1> DEFINE c == clock_hand
<1>1. /\ pc[t] = "evict" /\ pc' = [pc EXCEPT ![t] = "fill"]
      /\ disk' = WrittenBack(c) /\ index' = [index EXCEPT ![c] = NoBlock]
      /\ UNCHANGED <<data, res, block, refs>>
  BY DEF WriteBack, Goto, localVars, refVars
<1>2. c \in Sectors /\ index[c] \in Blocks /\ owners[c] = 0
  <2>1. index[c] # NoBlock /\ owners[c] = 0
    BY <1>1 DEF IInv, TakeInv
  <2> QED BY <2>1 DEF IInv, TypeOK
<1>3. \A r \in refs : r[2] # c
  BY <1>2, UnownedFree DEF IInv
<1>4. disk'[index[c]] = data[c]
  <2>1. CASE dirty[c]
    BY <1>1, <1>2, <2>1 DEF WrittenBack, IInv, TypeOK
  <2>2. CASE ~dirty[c]
    <3>1. \A r \in wrote : r[2] # c
      BY <1>3 DEF IInv
    <3>2. data[c] = disk[index[c]]
      BY <1>2, <2>2, <3>1, CacheAssumption DEF IInv, NoLostWrite
    <3> QED BY <1>1, <2>2, <3>2 DEF WrittenBack
  <2> QED BY <2>1, <2>2
<1>5. \A b \in Blocks : b # index[c] => disk'[b] = disk[b]
  BY <1>1, <1>2 DEF WrittenBack, IInv, TypeOK
<1>6. Contents' = Contents
  <2>1. StoreView /\ StoreView'
    BY ContentsOf, ContentsOfPrime DEF IInv
  <2>2. \A z \in Sectors : index'[z] # index[c]
    BY <1>1, <1>2, CacheAssumption DEF IInv, OwnersCount, TypeOK
  <2>3. Contents'[index[c]] = Contents[index[c]]
    BY <1>2, <1>4, <2>1, <2>2 DEF StoreView
  <2>4. ASSUME NEW b \in Blocks, b # index[c], NEW z \in Sectors, index[z] = b
        PROVE  Contents'[b] = Contents[b]
    <3>1. index'[z] = b
      BY <1>1, <2>4 DEF IInv, TypeOK
    <3> QED BY <1>1, <2>1, <2>4, <3>1 DEF StoreView
  <2>5. ASSUME NEW b \in Blocks, b # index[c], \A z \in Sectors : index[z] # b
        PROVE  Contents'[b] = Contents[b]
    <3>1. \A z \in Sectors : index'[z] # b
      BY <1>1, <2>5, CacheAssumption DEF IInv, TypeOK
    <3> QED BY <1>5, <2>1, <2>5, <3>1 DEF StoreView
  <2>6. \A b \in Blocks : Contents'[b] = Contents[b]
    BY <2>3, <2>4, <2>5
  <2> QED BY <2>1, <2>6 DEF StoreView
<1>7. \A r \in refs : index'[r[2]] = index[r[2]] /\ (Locking(r)' <=> Locking(r))
  <2> SUFFICES ASSUME NEW r \in refs
               PROVE  index'[r[2]] = index[r[2]] /\ (Locking(r)' <=> Locking(r))
    OBVIOUS
  <2>1. r[1] \in Threads /\ r[2] \in Sectors /\ r[2] # c
    BY <1>3, OwnedBlock
  <2> QED BY <1>1, <2>1 DEF Locking, IInv, TypeOK
<1>8. OwnedBlocks' = OwnedBlocks
  BY <1>1, <1>7 DEF OwnedBlocks
<1>9. LockedBlocks' = LockedBlocks
  <2>1. {r \in refs : r[3] /\ ~Locking(r)}' = {r \in refs : r[3] /\ ~Locking(r)}
    BY <1>1, <1>7
  <2> QED BY <1>7, <2>1 DEF LockedBlocks
<1> QED BY <1>6, <1>8, <1>9 DEF BS!storeVars

(* The flush writes blocks that are cached. *)
LEMMA SimFlush ==
  ASSUME IInv, IInv', Flush
  PROVE  UNCHANGED BS!storeVars
<1> USE DEF sectorVars, cacheVars, localVars, refVars, flushVars
<1>1. UNCHANGED <<index, data, refs, pc, res, block>>
  BY DEF Flush, sector_cache_flush, FlushTest, FlushWrite, FlushClean, FlushDone
<1>2. CASE FlushWrite
  <2>1. i \in Sectors /\ index[i] \in Blocks /\ disk' = [disk EXCEPT ![index[i]] = data[i]]
    BY <1>2, CacheAssumption DEF FlushWrite, IInv, FlushInv, TypeOK, Sectors
  <2>2. \A b \in Blocks : (\A s \in Sectors : index[s] # b) => disk'[b] = disk[b]
    BY <2>1 DEF IInv, TypeOK
  <2> QED BY <1>1, <2>2, SimQuiet DEF Locking
<1>3. CASE disk' = disk
  BY <1>1, <1>3, SimQuiet DEF Locking
<1> QED BY <1>2, <1>3 DEF Flush, sector_cache_flush, FlushTest, FlushClean, FlushDone

(* Every step of the cache is a step of the store or invisible. *)
LEMMA SimNext == RInv /\ IInv' /\ [Next]_vars => [BS!NextStore]_(BS!storeVars)
<1> SUFFICES ASSUME RInv, IInv', [Next]_vars PROVE [BS!NextStore]_(BS!storeVars)
  OBVIOUS
<1>0. IInv
  BY DEF RInv
<1>1. ASSUME NEW t \in Threads, Take(t) PROVE [BS!NextStore]_(BS!storeVars)
  <2>1. CASE HitOwned(t) \/ HitDown(t)
    BY <2>1, SimHit DEF BS!NextStore
  <2>2. CASE Fill(t)
    BY <2>2, SimFill DEF BS!NextStore
  <2>3. CASE LockSector(t)
    BY <2>3, SimLock DEF BS!NextStore
  <2>4. CASE WriteBack(t)
    BY <1>0, <2>4, SimWriteBack
  <2> QED BY <1>0, <1>1, <2>1, <2>2, <2>3, <2>4, SimMove DEF Take
<1>2. ASSUME NEW t \in Threads, Release(t) PROVE [BS!NextStore]_(BS!storeVars)
  <2>1. ASSUME NEW r \in refs, release_sector(t, r) PROVE [BS!NextStore]_(BS!storeVars)
    BY <2>1, SimRelease DEF BS!NextStore
  <2> QED BY <1>0, <1>2, <2>1, SimMove DEF Release
<1>3. ASSUME NEW t \in Threads, NEW r \in refs, NEW v \in Values, Modify(t, r, v)
      PROVE  [BS!NextStore]_(BS!storeVars)
  BY <1>3, SimModify DEF BS!NextStore
<1>4. CASE Flush
  BY <1>0, <1>4, SimFlush
<1>5. CASE UNCHANGED vars
  <2>1. UNCHANGED <<disk, index, data, refs, pc, res, block>>
    BY <1>5 DEF vars, sectorVars, localVars, refVars
  <2> QED BY <1>0, <2>1, SimQuiet DEF Locking
<1> QED BY <1>1, <1>2, <1>3, <1>4, <1>5 DEF Next, Thread, Finished

(* The cache implements BlockStore: whatever the interleaving of takes,     *)
(* evictions, write-backs, releases and flushes, a taker sees each block    *)
(* with the last modification made to it, and a locked one to itself.       *)
THEOREM Implements == Spec => ImplementsBlockStore
<1>1. Init => SectorLockInv
  BY DEF Init, SectorLockInv
<1>2. Spec => []RInv
  BY <1>1, SectorLockStep, Invariance, PTL DEF Spec, RInv
<1>3. RInv => IInv
  BY DEF RInv
<1> QED BY <1>2, <1>3, SimInit, SimNext, PTL DEF Spec, ImplementsBlockStore, BS!SpecStore
=============================================================================
