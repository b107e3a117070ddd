---------------------------- MODULE FileSys_proofs ----------------------------
(***************************************************************************)
(* Proofs about FileSys: the openers of inodes and the allocated sectors   *)
(* are accounted for, the directories form a tree, and a removed directory *)
(* is empty, for any number of processes, descriptors, names and sectors.  *)
(***************************************************************************)
EXTENDS FileSys, FiniteSetTheorems, SequenceTheorems, WellFoundedInduction, TLAPS

(* Where a process is in its call. *)
Making == {"add", "slot", "write slot"}
Removing == {"check", "check leaf", "erase", "open victim", "erase entry"}
Erasing == {"erase", "open victim", "erase entry"}
Finding == {"find", "open"}
Leading == {"walk", "enter"}
Reading == {"enter", "open", "check leaf", "open victim", "erase entry"}
Looking == {"walk", "find", "check", "allocate", "add", "slot"}
Outside == {"user", "dead"}

(* The holders of an inode. *)
Ref == 1 .. MAX_OPEN_FILES + 3
Holders(s) == {h \in Process \X Ref : Holds(h[1])[h[2]] = s}

-----------------------------------------------------------------------------
(* The invariant.  Its first parts hold whatever happens. *)

(* The locals of a process. *)
LocalsOK(r) ==
  /\ r.pc \in Outside => r.dir = None
  /\ r.pc \notin Outside => r.dir # None /\ r.names # <<>> /\ r.call \in Calls
  /\ r.pc \in Leading => Len(r.names) > 1
  /\ r.pc \in {"allocate"} \cup Making => r.call \in {"create", "mkdir"}
  /\ r.pc \in Removing => r.call = "remove"
  /\ r.pc \in Finding => r.call \in {"open", "chdir"}
  /\ r.new # None <=> r.pc \in Making
  /\ r.child = IF r.pc = "erase entry" THEN r.ent.sector ELSE None
  /\ r.pc \in Reading \cup {"erase"} => r.ent.in_use
  /\ r.pc \in Looking \cup Outside => r.ent = FreeSlot
  /\ r.ent = FreeSlot \/ (r.ent.in_use /\ r.ent.sector # None)
FdsOK(g) == \A f \in Fd : g[f].sector = None => g[f] = NoFile
LocalInv ==
  \A t \in Process :
    /\ LocalsOK(th[t]) /\ FdsOK(fds[t])
    /\ th[t].pc # "dead" => pwd[t] # None
    /\ InCall(t) /\ th[t].call = "open" => FreeFds(t) # {}

(* An entry in use names a sector, and every opener is counted, so what a *)
(* process holds is open.                                                 *)
EntryInv == \A d \in Sector : \A k \in DOMAIN entries[d] :
  entries[d][k].in_use => entries[d][k].sector # None
CountInv == \A s \in Sector : open_cnt[s] = lost[s] + Cardinality(Holders(s))
OpenHeld ==
  \A t \in Process : \A s \in Sector :
    pwd[t] = s \/ th[t].dir = s \/ th[t].child = s => open_cnt[s] > 0
Base == TypeOK /\ LocalInv /\ EntryInv /\ CountInv /\ OpenHeld /\ (Meet => unsafe)

(* The rest holds until the kernel stops or two calls have met. *)
Named(s) == \E d \in Dirs : \E k \in Files(d) : entries[d][k].sector = s

(* A directory has its dots. *)
DotsOK(d) ==
  /\ Len(entries[d]) >= 2
  /\ entries[d][1] = [name |-> ".", sector |-> d, in_use |-> TRUE]
  /\ entries[d][2].name = ".." /\ entries[d][2].in_use
  /\ \A k \in DOMAIN entries[d] : entries[d][k].in_use /\ entries[d][k].name \in Dots => k \in {1, 2}
RootInv ==
  /\ ROOT_DIR_SECTOR \in free_map /\ is_dir[ROOT_DIR_SECTOR]
  /\ entries[ROOT_DIR_SECTOR][2].sector = ROOT_DIR_SECTOR
DirInv == \A d \in Dirs : DotsOK(d) /\ UniqueNames(d)

(* A name leads to an inode that has no other. *)
NameInv ==
  \A d \in Dirs : \A k \in Files(d) : LET s == entries[d][k].sector IN
    /\ s \in free_map /\ s # ROOT_DIR_SECTOR /\ s \notin removed
    /\ \A t \in Process : th[t].new # s
    /\ is_dir[s] => entries[s][2].sector = d
    /\ \A c \in Dirs : \A j \in Files(c) : entries[c][j].sector = s => c = d /\ j = k

(* Why a sector is allocated, and when it is removed. *)
RemovedInv ==
  \A s \in removed : /\ open_cnt[s] > 0 /\ s \in free_map /\ s # ROOT_DIR_SECTOR
                     /\ is_dir[s] => Files(s) = {}
OpenInv ==
  \A s \in Sector : open_cnt[s] > 0 =>
    s \in free_map /\ (s \in removed \/ s = ROOT_DIR_SECTOR \/ Named(s))
UsedInv ==
  \A s \in free_map :
    s = ROOT_DIR_SECTOR \/ open_cnt[s] > 0 \/ Named(s) \/ \E t \in Process : th[t].new = s

(* An inode that is being created. *)
NewOK(t) ==
  LET s == th[t].new IN
  s # None =>
    /\ s \in free_map /\ s # ROOT_DIR_SECTOR /\ open_cnt[s] = 0
    /\ is_dir[s] => entries[s][2].sector = th[t].dir /\ Files(s) = {}
    /\ \A u \in Process : th[u].new = s => u = t
NewInv == \A t \in Process : NewOK(t)
TreeInv ==
  RootInv /\ DirInv /\ NameInv /\ RemovedInv /\ OpenInv /\ UsedInv /\ NewInv

(* What a process knows of the directory it is in. *)
Hit(e, r) == e.in_use /\ e.name = Head(r.names)
PlaceOK(e, r) ==
  /\ r.ofs <= Len(e) + 1
  /\ r.pc \in Reading \/ (r.pc = "write slot" /\ r.ent # FreeSlot) =>
       r.ofs <= Len(e) /\ e[r.ofs] = r.ent /\ Hit(r.ent, r)
  /\ r.pc = "erase" => Hit(r.ent, r) /\ \E k \in DOMAIN e : e[k] = r.ent
  /\ r.pc \in Removing => Head(r.names) \notin Dots
  /\ r.pc = "add" => \A j \in 1 .. r.ofs - 1 : ~Hit(e[j], r)
  /\ r.pc = "slot" \/ (r.pc = "write slot" /\ r.ent = FreeSlot) =>
       \A j \in DOMAIN e : ~Hit(e[j], r)
  /\ r.pc = "write slot" /\ r.ent = FreeSlot /\ r.ofs <= Len(e) => ~e[r.ofs].in_use
CallOK(t) ==
  InCall(t) =>
    /\ th[t].dir \in Dirs /\ th[t].dir \notin removed
    /\ PlaceOK(entries[th[t].dir], th[t])
    /\ th[t].pc \in Erasing /\ is_dir[th[t].ent.sector] => Files(th[t].ent.sector) = {}
CallInv == \A t \in Process : CallOK(t)
PwdInv == \A t \in Process : pwd[t] # None => is_dir[pwd[t]]

SafeInv == TreeInv /\ CallInv /\ PwdInv
IInv == Base /\ (Safe => SafeInv)

-----------------------------------------------------------------------------
(* Numbers, least elements and counting. *)

Bit(b) == IF b THEN 1 ELSE 0

(* The constants. *)
LEMMA Sizes ==
  /\ IsFiniteSet(Process) /\ NSectors \in Nat \ {0} /\ MAX_OPEN_FILES \in Nat
  /\ INITIAL_DIR_SIZE \in Nat /\ INITIAL_DIR_SIZE >= 2
  /\ Sector \subseteq Nat /\ None \notin Sector /\ ROOT_DIR_SECTOR \in Sector /\ ROOT_DIR_SECTOR # None
  /\ Fd \subseteq Nat /\ IsFiniteSet(Fd) /\ Ref \subseteq Nat /\ IsFiniteSet(Ref)
<1>1. /\ IsFiniteSet(Process) /\ NSectors \in Nat \ {0} /\ MAX_OPEN_FILES \in Nat
      /\ INITIAL_DIR_SIZE \in Nat /\ INITIAL_DIR_SIZE >= 2
  BY FileSysAssumption DEF FileSysAssumption
<1>2. IsFiniteSet(Fd) /\ IsFiniteSet(Ref)
  BY <1>1, FS_Interval DEF Fd, Ref
<1> QED BY <1>1, <1>2 DEF Sector, None, ROOT_DIR_SECTOR, Fd, Ref

LEMMA InRange == \A m \in Nat \ {0} : \A n \in Nat : m <= n <=> m \in 1..n
OBVIOUS

(* What Least() chooses. *)
LEMMA LeastOf ==
  ASSUME NEW S \in SUBSET Nat, S # {}
  PROVE  Least(S) \in S
<1>1. \E x \in S : \A y \in S : ~ (<<y, x>> \in OpToRel(<, Nat))
  BY WFMin, NatLessThanWellFounded
<1>2. PICK x \in S : \A y \in S : ~(y < x)
  <2>1. \A x, y \in S : y < x => <<y, x>> \in OpToRel(<, Nat)
    BY Zenon DEF OpToRel
  <2> QED BY <1>1, <2>1, Zenon
<1>3. \A y \in S : x <= y
  BY <1>2
<1> QED BY <1>3, Zenon DEF Least

(* A set from which one element comes or goes. *)
LEMMA CountStep ==
  ASSUME NEW S, NEW T, NEW x, IsFiniteSet(S), IsFiniteSet(T), S \ {x} = T \ {x}
  PROVE  /\ Cardinality(S) \in Nat /\ Cardinality(T) \in Nat
         /\ Cardinality(T) + Bit(x \in S) = Cardinality(S) + Bit(x \in T)
<1>1. IsFiniteSet(S \ {x}) /\ Cardinality(S \ {x}) = IF x \in S THEN Cardinality(S) - 1 ELSE Cardinality(S)
  BY FS_RemoveElement
<1>2. Cardinality(T \ {x}) = IF x \in T THEN Cardinality(T) - 1 ELSE Cardinality(T)
  BY FS_RemoveElement
<1>3. Cardinality(S) \in Nat /\ Cardinality(T) \in Nat
  BY FS_CardinalityType
<1>4. Cardinality(S \ {x}) = Cardinality(T \ {x})
  OBVIOUS
<1>5. PICK m \in Nat, n \in Nat, k \in Int : m = Cardinality(S) /\ n = Cardinality(T) /\ k = Cardinality(S \ {x})
  BY <1>1, <1>3
<1>6. /\ k = IF x \in S THEN m - 1 ELSE m
      /\ k = IF x \in T THEN n - 1 ELSE n
  BY <1>1, <1>2, <1>4, <1>5
<1>7. n + Bit(x \in S) = m + Bit(x \in T)
  BY <1>6 DEF Bit
<1> QED BY <1>5, <1>7

(* Disjoint sets. *)
LEMMA CountUnion ==
  ASSUME NEW S, NEW T, IsFiniteSet(S), IsFiniteSet(T), S \cap T = {}
  PROVE  /\ IsFiniteSet(S \cup T) /\ Cardinality(S) \in Nat /\ Cardinality(T) \in Nat
         /\ Cardinality(S \cup T) = Cardinality(S) + Cardinality(T)
<1>1. IsFiniteSet(S \cup T) /\ Cardinality(S \cup T) = Cardinality(S) + Cardinality(T) - Cardinality(S \cap T)
  BY FS_Union
<1>2. Cardinality(S \cap T) = 0
  BY FS_EmptySet
<1>3. Cardinality(S) \in Nat /\ Cardinality(T) \in Nat
  BY FS_CardinalityType
<1> QED BY <1>1, <1>2, <1>3

(* A set that is counted through another. *)
LEMMA CountImage ==
  ASSUME NEW S, NEW T, NEW f \in [S -> T], IsFiniteSet(S),
         \A x, y \in S : f[x] = f[y] => x = y, \A z \in T : \E x \in S : f[x] = z
  PROVE  IsFiniteSet(T) /\ Cardinality(T) = Cardinality(S)
<1>1. f \in Bijection(S, T)
  BY DEF Bijection, Injection, Surjection, IsInjective
<1>2. ExistsBijection(S, T)
  BY <1>1 DEF ExistsBijection
<1> QED BY <1>2, FS_Bijection

(* One or none. *)
LEMMA CountOne ==
  ASSUME NEW x, NEW S, S \subseteq {x}
  PROVE  IsFiniteSet(S) /\ Cardinality(S) = Bit(x \in S)
<1>1. CASE x \in S
  <2>1. S = {x}
    BY <1>1
  <2> QED BY <1>1, <2>1, FS_Singleton DEF Bit
<1>2. CASE x \notin S
  <2>1. S = {}
    BY <1>2
  <2> QED BY <1>2, <2>1, FS_EmptySet DEF Bit
<1> QED BY <1>1, <1>2

-----------------------------------------------------------------------------
(* The inodes a process holds. *)

(* Its descriptors on inode s. *)
FdCount(g, s) == Cardinality({f \in Fd : g[f].sector = s})
Refs(a, b, c, g) == <<a, b, c>> \o [f \in Fd |-> g[f].sector]

LEMMA RefsAre ==
  ASSUME NEW a, NEW b, NEW c, NEW g
  PROVE  /\ \A i \in Ref : i \in {1, 2, 3} \/ i - 3 \in Fd
         /\ {1, 2, 3} \subseteq Ref /\ \A f \in Fd : f + 3 \in Ref /\ f + 3 \notin {1, 2, 3}
         /\ Refs(a, b, c, g)[1] = a /\ Refs(a, b, c, g)[2] = b /\ Refs(a, b, c, g)[3] = c
         /\ \A f \in Fd : Refs(a, b, c, g)[f + 3] = g[f].sector
<1> DEFINE W == [f \in Fd |-> g[f].sector]
           X == {a, b, c} \cup {g[f].sector : f \in Fd}
<1>1. MAX_OPEN_FILES \in Nat
  BY Sizes
<1>2. W \in Seq(X) /\ Len(W) = MAX_OPEN_FILES
  <2>1. W \in [1..MAX_OPEN_FILES -> X]
    BY DEF Fd
  <2>2. W \in Seq(X)
    BY <1>1, <2>1
  <2>3. DOMAIN W = 1..Len(W) /\ Len(W) \in Nat
    BY <2>2
  <2> QED BY <1>1, <2>1, <2>2, <2>3
<1>3. <<a, b, c>> \in Seq(X) /\ Len(<<a, b, c>>) = 3
  OBVIOUS
<1> HIDE DEF W, X
<1>4. \A i \in 1..(3 + MAX_OPEN_FILES) :
        (<<a, b, c>> \o W)[i] = IF i <= 3 THEN <<a, b, c>>[i] ELSE W[i - 3]
  BY <1>2, <1>3, ConcatProperties
<1>5. /\ \A i \in Ref : i \in {1, 2, 3} \/ i - 3 \in Fd
      /\ {1, 2, 3} \subseteq Ref /\ \A f \in Fd : f + 3 \in Ref /\ f + 3 \notin {1, 2, 3}
  BY <1>1 DEF Ref, Fd
<1>6. Refs(a, b, c, g) = <<a, b, c>> \o W
  BY DEF Refs, W
<1>7. Refs(a, b, c, g)[1] = a /\ Refs(a, b, c, g)[2] = b /\ Refs(a, b, c, g)[3] = c
  BY <1>1, <1>4, <1>6
<1>8. ASSUME NEW f \in Fd PROVE Refs(a, b, c, g)[f + 3] = g[f].sector
  <2>1. f + 3 \in 1..(3 + MAX_OPEN_FILES) /\ ~(f + 3 <= 3) /\ (f + 3) - 3 = f
    BY <1>1 DEF Fd
  <2>2. Refs(a, b, c, g)[f + 3] = W[f]
    BY <1>4, <1>6, <2>1
  <2> QED BY <2>2 DEF W
<1> QED BY <1>5, <1>7, <1>8

LEMMA RefsCount ==
  ASSUME NEW a, NEW b, NEW c, NEW g, NEW s
  PROVE  /\ Cardinality({i \in Ref : Refs(a, b, c, g)[i] = s}) =
              Bit(a = s) + Bit(b = s) + Bit(c = s) + FdCount(g, s)
         /\ FdCount(g, s) \in Nat
<1>1. PICK H, A, B, C, F, D : /\ H = Refs(a, b, c, g)
                              /\ A = {i \in {1} : a = s} /\ B = {i \in {2} : b = s} /\ C = {i \in {3} : c = s}
                              /\ F = {f \in Fd : g[f].sector = s} /\ D = {f + 3 : f \in F}
  OBVIOUS
<1>2. /\ \A i \in Ref : i \in {1, 2, 3} \/ i - 3 \in Fd
      /\ {1, 2, 3} \subseteq Ref /\ \A f \in Fd : f + 3 \in Ref /\ f + 3 \notin {1, 2, 3}
      /\ H[1] = a /\ H[2] = b /\ H[3] = c /\ \A f \in Fd : H[f + 3] = g[f].sector
  BY <1>1, RefsAre
<1>3. /\ IsFiniteSet(A) /\ Cardinality(A) = Bit(a = s)
      /\ IsFiniteSet(B) /\ Cardinality(B) = Bit(b = s)
      /\ IsFiniteSet(C) /\ Cardinality(C) = Bit(c = s)
  <2>1. /\ A \subseteq {1} /\ (1 \in A <=> a = s)
        /\ B \subseteq {2} /\ (2 \in B <=> b = s)
        /\ C \subseteq {3} /\ (3 \in C <=> c = s)
    BY <1>1
  <2>2. /\ IsFiniteSet(A) /\ Cardinality(A) = Bit(1 \in A)
        /\ IsFiniteSet(B) /\ Cardinality(B) = Bit(2 \in B)
        /\ IsFiniteSet(C) /\ Cardinality(C) = Bit(3 \in C)
    BY <2>1, CountOne
  <2> QED BY <2>1, <2>2 DEF Bit
<1>4. IsFiniteSet(F) /\ Cardinality(F) \in Nat /\ F \subseteq Fd /\ Fd \subseteq Nat
  <2>1. F \in SUBSET Fd /\ IsFiniteSet(Fd) /\ Fd \subseteq Nat
    BY <1>1, Sizes
  <2> QED BY <2>1, FS_Subset, FS_CardinalityType
<1>5. IsFiniteSet(D) /\ Cardinality(D) = Cardinality(F)
  <2>1. PICK f : f = [x \in F |-> x + 3]
    OBVIOUS
  <2>2a. \A x \in F : x + 3 \in D /\ x \in Nat
    BY <1>1, <1>4
  <2>2b. f \in [F -> D] /\ \A x \in F : f[x] = x + 3
    BY <2>1, <2>2a
  <2>2. f \in [F -> D] /\ \A x, y \in F : f[x] = f[y] => x = y
    BY <2>2a, <2>2b
  <2>3. \A z \in D : \E x \in F : f[x] = z
    BY <1>1, <2>1
  <2> QED BY <1>4, <2>2, <2>3, CountImage
<1>6. IsFiniteSet(A \cup B) /\ Cardinality(A \cup B) = Bit(a = s) + Bit(b = s)
  <2>1. A \cap B = {}
    BY <1>1
  <2> QED BY <1>3, <2>1, CountUnion
<1>7. IsFiniteSet(C \cup D) /\ Cardinality(C \cup D) = Bit(c = s) + Cardinality(F)
  <2>1. C \cap D = {}
    BY <1>1, <1>2, <1>4
  <2>2. Cardinality(C \cup D) = Cardinality(C) + Cardinality(D) /\ IsFiniteSet(C \cup D)
    BY <1>3, <1>5, <2>1, CountUnion
  <2> QED BY <1>3, <1>5, <2>2
<1>8. Cardinality((A \cup B) \cup (C \cup D)) = Bit(a = s) + Bit(b = s) + Bit(c = s) + Cardinality(F)
  <2>1. (A \cup B) \cap (C \cup D) = {}
    BY <1>1, <1>2, <1>4
  <2>2. Cardinality((A \cup B) \cup (C \cup D)) = Cardinality(A \cup B) + Cardinality(C \cup D)
    BY <1>6, <1>7, <2>1, CountUnion
  <2>3. Bit(a = s) \in Nat /\ Bit(b = s) \in Nat /\ Bit(c = s) \in Nat
    BY DEF Bit
  <2> QED BY <1>4, <1>6, <1>7, <2>2, <2>3
<1>9. {i \in Ref : H[i] = s} = (A \cup B) \cup (C \cup D)
  <2>1. ASSUME NEW i \in Ref, H[i] = s PROVE i \in (A \cup B) \cup (C \cup D)
    <3>1. CASE i \in {1, 2, 3}
      BY <1>1, <1>2, <2>1, <3>1
    <3>2. CASE i - 3 \in Fd
      <4>1. PICK f \in Fd : f = i - 3
        BY <3>2
      <4>2. i = f + 3
        BY <4>1, Sizes
      <4>3. f \in F
        BY <1>1, <1>2, <2>1, <4>2
      <4> QED BY <1>1, <4>2, <4>3
    <3> QED BY <1>2, <3>1, <3>2
  <2>2. ASSUME NEW i \in (A \cup B) \cup (C \cup D) PROVE i \in Ref /\ H[i] = s
    <3>1. CASE i \in D
      <4>1. PICK f \in F : i = f + 3
        BY <1>1, <3>1
      <4> QED BY <1>1, <1>2, <4>1
    <3>2. CASE i \in A \cup B \cup C
      BY <1>1, <1>2, <3>2
    <3> QED BY <3>1, <3>2
  <2> QED BY <2>1, <2>2
<1> QED BY <1>1, <1>4, <1>8, <1>9 DEF FdCount

(* How often an inode is in what a call opens or closes. *)
LEMMA CountSeq ==
  ASSUME NEW s
  PROVE  /\ Count(<<>>, s) = 0
         /\ \A x : Count(<<x>>, s) = Bit(x = s)
         /\ \A x, y : Count(<<x, y>>, s) = Bit(x = s) + Bit(y = s)
<1>1. Count(<<>>, s) = 0
  <2>1. {k \in DOMAIN <<>> : <<>>[k] = s} = {}
    OBVIOUS
  <2> QED BY <2>1, FS_EmptySet DEF Count
<1>2. ASSUME NEW x PROVE Count(<<x>>, s) = Bit(x = s)
  <2>1. PICK A : A = {k \in DOMAIN <<x>> : <<x>>[k] = s}
    OBVIOUS
  <2>2. A \subseteq {1} /\ (1 \in A <=> x = s)
    BY <2>1
  <2>3. Cardinality(A) = Bit(1 \in A)
    BY <2>2, CountOne
  <2> QED BY <2>1, <2>2, <2>3 DEF Count, Bit
<1>3. ASSUME NEW x, NEW y PROVE Count(<<x, y>>, s) = Bit(x = s) + Bit(y = s)
  <2>1. PICK A, B : A = {k \in {1} : x = s} /\ B = {k \in {2} : y = s}
    OBVIOUS
  <2>2. {k \in DOMAIN <<x, y>> : <<x, y>>[k] = s} = A \cup B /\ A \cap B = {}
    BY <2>1
  <2>3. /\ IsFiniteSet(A) /\ Cardinality(A) = Bit(x = s)
        /\ IsFiniteSet(B) /\ Cardinality(B) = Bit(y = s)
    <3>1. A \subseteq {1} /\ (1 \in A <=> x = s) /\ B \subseteq {2} /\ (2 \in B <=> y = s)
      BY <2>1
    <3>2. /\ IsFiniteSet(A) /\ Cardinality(A) = Bit(1 \in A)
          /\ IsFiniteSet(B) /\ Cardinality(B) = Bit(2 \in B)
      BY <3>1, CountOne
    <3> QED BY <3>1, <3>2 DEF Bit
  <2>4. Cardinality(A \cup B) = Cardinality(A) + Cardinality(B)
    BY <2>2, <2>3, CountUnion
  <2> QED BY <2>2, <2>3, <2>4 DEF Count
<1> QED BY <1>1, <1>2, <1>3

LEMMA CountAll ==
  ASSUME NEW g, NEW p, NEW s
  PROVE  Count(Append([f \in Fd |-> g[f].sector], p), s) = FdCount(g, s) + Bit(p = s)
<1>1. PICK W, X, n : /\ W = [f \in Fd |-> g[f].sector] /\ X = {p} \cup {g[f].sector : f \in Fd}
                     /\ n = MAX_OPEN_FILES
  OBVIOUS
<1>2. W \in Seq(X) /\ Len(W) = n /\ n \in Nat /\ Fd = 1..n
  <2>1. W \in [1..n -> X] /\ n \in Nat /\ Fd = 1..n
    BY <1>1, Sizes DEF Fd
  <2>2. W \in Seq(X)
    BY <2>1
  <2>3. DOMAIN W = 1..Len(W) /\ Len(W) \in Nat
    BY <2>2
  <2> QED BY <2>1, <2>2, <2>3
<1>3. PICK q : q = Append(W, p)
  OBVIOUS
<1>4. /\ DOMAIN q = 1..(n + 1) /\ q[n + 1] = p /\ \A f \in Fd : q[f] = g[f].sector
  <2>1. p \in X
    BY <1>1
  <2>2. q \in Seq(X) /\ Len(q) = n + 1 /\ q[n + 1] = p /\ \A f \in 1..n : q[f] = W[f]
    BY <1>2, <1>3, <2>1, AppendProperties
  <2> QED BY <1>1, <1>2, <2>2
<1>5. PICK F, A : F = {f \in Fd : g[f].sector = s} /\ A = {k \in {n + 1} : p = s}
  OBVIOUS
<1>6. {k \in DOMAIN q : q[k] = s} = F \cup A /\ F \cap A = {}
  BY <1>2, <1>4, <1>5
<1>7. IsFiniteSet(A) /\ Cardinality(A) = Bit(p = s)
  <2>1. A \subseteq {n + 1} /\ (n + 1 \in A <=> p = s)
    BY <1>5
  <2>2. IsFiniteSet(A) /\ Cardinality(A) = Bit(n + 1 \in A)
    BY <2>1, CountOne
  <2> QED BY <2>1, <2>2 DEF Bit
<1>8. IsFiniteSet(F)
  <2>1. F \in SUBSET Fd /\ IsFiniteSet(Fd)
    BY <1>5, Sizes
  <2> QED BY <2>1, FS_Subset
<1>9. Cardinality(F \cup A) = Cardinality(F) + Bit(p = s)
  BY <1>6, <1>7, <1>8, CountUnion
<1> QED BY <1>1, <1>3, <1>5, <1>6, <1>9 DEF Count, FdCount

(* A descriptor that changes. *)
LEMMA FdStep ==
  ASSUME NEW g, NEW h, NEW f \in Fd, NEW s, \A e \in Fd : e # f => h[e] = g[e]
  PROVE  FdCount(h, s) + Bit(g[f].sector = s) = FdCount(g, s) + Bit(h[f].sector = s)
<1>1. PICK S, T : S = {e \in Fd : g[e].sector = s} /\ T = {e \in Fd : h[e].sector = s}
  OBVIOUS
<1>2. IsFiniteSet(S) /\ IsFiniteSet(T)
  <2>1. S \in SUBSET Fd /\ T \in SUBSET Fd /\ IsFiniteSet(Fd)
    BY <1>1, Sizes
  <2> QED BY <2>1, FS_Subset
<1>3. S \ {f} = T \ {f}
  BY <1>1
<1>4. Cardinality(T) + Bit(f \in S) = Cardinality(S) + Bit(f \in T)
  BY <1>2, <1>3, CountStep
<1>5. (f \in S <=> g[f].sector = s) /\ (f \in T <=> h[f].sector = s)
  BY <1>1
<1> QED BY <1>1, <1>4, <1>5 DEF FdCount, Bit

-----------------------------------------------------------------------------
(* Holders are counted process by process. *)

HeldBy(H, s) == {h \in Process \X Ref : H[h[1]][h[2]] = s}
AmongRefs(q, s) == {i \in Ref : q[i] = s}
Differ(H, K, t) == \A u \in Process : u # t => K[u] = H[u]
LEMMA HolderStep ==
  ASSUME NEW H, NEW K, NEW t \in Process, NEW s, Differ(H, K, t)
  PROVE  /\ Cardinality(HeldBy(H, s)) \in Nat /\ Cardinality(HeldBy(K, s)) \in Nat
         /\ Cardinality(AmongRefs(H[t], s)) \in Nat /\ Cardinality(AmongRefs(K[t], s)) \in Nat
         /\ Cardinality(HeldBy(H, s)) >= Cardinality(AmongRefs(H[t], s))
         /\ Cardinality(HeldBy(K, s)) + Cardinality(AmongRefs(H[t], s))
              = Cardinality(HeldBy(H, s)) + Cardinality(AmongRefs(K[t], s))
<1>a. PICK A, B, a, b :
        /\ A = HeldBy(H, s) /\ B = HeldBy(K, s) /\ a = AmongRefs(H[t], s) /\ b = AmongRefs(K[t], s)
  OBVIOUS
<1>0. /\ A = {h \in Process \X Ref : H[h[1]][h[2]] = s}
      /\ B = {h \in Process \X Ref : K[h[1]][h[2]] = s}
      /\ a = {i \in Ref : H[t][i] = s} /\ b = {i \in Ref : K[t][i] = s}
  BY <1>a DEF HeldBy, AmongRefs
<1>1. PICK N, Hs, Ks :
        /\ N = {h \in A : h[1] # t}
        /\ Hs = {h \in A : h[1] = t} /\ Ks = {h \in B : h[1] = t}
  OBVIOUS
<1>2. IsFiniteSet(A) /\ IsFiniteSet(B)
  <2>1. IsFiniteSet(Process \X Ref)
    BY Sizes, FS_Product
  <2>2. A \in SUBSET (Process \X Ref) /\ B \in SUBSET (Process \X Ref)
    BY <1>0, <1>1
  <2> QED BY <2>1, <2>2, FS_Subset
<1>3. IsFiniteSet(N) /\ IsFiniteSet(Hs) /\ IsFiniteSet(Ks) /\ IsFiniteSet(a) /\ IsFiniteSet(b)
  <2>1. N \in SUBSET A /\ Hs \in SUBSET A /\ Ks \in SUBSET B /\ a \in SUBSET Ref /\ b \in SUBSET Ref
    BY <1>0, <1>1
  <2> QED BY <1>2, <2>1, Sizes, FS_Subset
<1>4. Cardinality(Hs) = Cardinality(a)
  <2>1. PICK f : f = [i \in a |-> <<t, i>>]
    OBVIOUS
  <2>2. f \in [a -> Hs] /\ \A i \in a : f[i] = <<t, i>>
    BY <1>0, <1>1, <2>1
  <2>3. \A x, y \in a : f[x] = f[y] => x = y
    BY <2>2
  <2>4. \A z \in Hs : \E x \in a : f[x] = z
    <3>1. ASSUME NEW z \in Hs PROVE z[2] \in a /\ z = <<t, z[2]>>
      BY <1>0, <1>1
    <3> QED BY <2>2, <3>1
  <2> QED BY <1>3, <2>2, <2>3, <2>4, CountImage
<1>5. Cardinality(Ks) = Cardinality(b)
  <2>1. PICK f : f = [i \in b |-> <<t, i>>]
    OBVIOUS
  <2>2. f \in [b -> Ks] /\ \A i \in b : f[i] = <<t, i>>
    BY <1>0, <1>1, <2>1
  <2>3. \A x, y \in b : f[x] = f[y] => x = y
    BY <2>2
  <2>4. \A z \in Ks : \E x \in b : f[x] = z
    <3>1. ASSUME NEW z \in Ks PROVE z[2] \in b /\ z = <<t, z[2]>>
      BY <1>0, <1>1
    <3> QED BY <2>2, <3>1
  <2> QED BY <1>3, <2>2, <2>3, <2>4, CountImage
<1>6. /\ A = N \cup Hs /\ B = N \cup Ks
      /\ N \cap Hs = {} /\ N \cap Ks = {}
  BY <1>0, <1>1 DEF Differ
<1>7. /\ Cardinality(N) \in Nat /\ Cardinality(Hs) \in Nat /\ Cardinality(Ks) \in Nat
      /\ Cardinality(A) = Cardinality(N) + Cardinality(Hs)
      /\ Cardinality(B) = Cardinality(N) + Cardinality(Ks)
  BY <1>3, <1>6, CountUnion
<1> QED BY <1>a, <1>4, <1>5, <1>7

(* How often a process holds an inode. *)
HoldCount(t, s) == Bit(pwd[t] = s) + Bit(th[t].dir = s) + Bit(th[t].child = s) + FdCount(fds[t], s)

LEMMA HoldsCounted ==
  ASSUME NEW t \in Process, NEW s
  PROVE  /\ Cardinality(AmongRefs(Holds(t), s)) = HoldCount(t, s)
         /\ HoldCount(t, s) \in Nat
<1>1. Holds(t) = Refs(pwd[t], th[t].dir, th[t].child, fds[t])
  BY DEF Holds, Refs
<1>2. FdCount(fds[t], s) \in Nat /\ Cardinality(AmongRefs(Holds(t), s)) = HoldCount(t, s)
  BY <1>1, RefsCount DEF HoldCount, AmongRefs
<1> QED BY <1>2 DEF HoldCount, Bit

LEMMA HoldsCounted1 ==
  ASSUME NEW t \in Process, NEW s
  PROVE  /\ Cardinality(AmongRefs(Holds(t)', s)) = HoldCount(t, s)'
         /\ HoldCount(t, s)' \in Nat
<1>1. Holds(t)' = Refs(pwd'[t], th'[t].dir, th'[t].child, fds'[t])
  BY DEF Holds, Refs
<1>2. FdCount(fds'[t], s) \in Nat /\ Cardinality(AmongRefs(Holds(t)', s)) = HoldCount(t, s)'
  BY <1>1, RefsCount DEF HoldCount, AmongRefs
<1> QED BY <1>2 DEF HoldCount, Bit

(* What is held is open. *)
LEMMA HeldCounts ==
  ASSUME CountInv, NEW t \in Process, NEW s \in Sector, lost[s] \in Nat
  PROVE  open_cnt[s] \in Nat /\ open_cnt[s] >= HoldCount(t, s)
<1>1. PICK H : H = [u \in Process |-> Holds(u)]
  OBVIOUS
<1>2. H[t] = Holds(t) /\ Holders(s) = HeldBy(H, s)
  BY <1>1 DEF Holders, HeldBy
<1>3. PICK m, n \in Nat : m = Cardinality(HeldBy(H, s)) /\ n = Cardinality(AmongRefs(H[t], s)) /\ m >= n
  <2>1. Differ(H, H, t)
    BY DEF Differ
  <2> QED BY <2>1, HolderStep
<1>4. n = HoldCount(t, s)
  BY <1>2, <1>3, HoldsCounted
<1>5. open_cnt[s] = lost[s] + m
  BY <1>2, <1>3 DEF CountInv
<1> QED BY <1>3, <1>4, <1>5

(* A step of process t that opens and closes as many inodes as it comes to *)
(* hold, or lets go.                                                       *)
Others(t) ==
  \A u \in Process : u # t => th'[u] = th[u] /\ pwd'[u] = pwd[u] /\ fds'[u] = fds[u]
Balanced(t) ==
  \A s \in Sector :
    /\ open_cnt[s] \in Nat /\ lost[s] \in Nat /\ open_cnt'[s] \in Int /\ lost'[s] \in Nat
    /\ open_cnt'[s] + lost[s] + HoldCount(t, s) = open_cnt[s] + lost'[s] + HoldCount(t, s)'
LEMMA CountKept ==
  ASSUME CountInv, NEW t \in Process, Others(t), Balanced(t)
  PROVE  /\ CountInv'
         /\ \A s \in Sector : /\ open_cnt'[s] \in Nat
                              /\ \A u \in Process : open_cnt'[s] >= HoldCount(u, s)'
<1> SUFFICES ASSUME NEW s \in Sector
             PROVE  /\ open_cnt'[s] = lost'[s] + Cardinality(Holders(s)') /\ open_cnt'[s] \in Nat
                    /\ \A u \in Process : open_cnt'[s] >= HoldCount(u, s)'
  BY DEF CountInv
<1>1. PICK H, K : H = [u \in Process |-> Holds(u)] /\ K = [u \in Process |-> Holds(u)']
  OBVIOUS
<1>2. Differ(H, K, t)
  BY <1>1 DEF Others, Holds, Differ
<1>3. Holders(s) = HeldBy(H, s) /\ Holders(s)' = HeldBy(K, s)
  BY <1>1 DEF Holders, HeldBy
<1>4. H[t] = Holds(t) /\ K[t] = Holds(t)'
  BY <1>1
<1>5. PICK m, n, x, y \in Nat :
        /\ m = Cardinality(HeldBy(H, s)) /\ n = Cardinality(HeldBy(K, s))
        /\ x = Cardinality(AmongRefs(H[t], s)) /\ y = Cardinality(AmongRefs(K[t], s))
        /\ n + x = m + y
  <2>1. /\ Cardinality(HeldBy(H, s)) \in Nat /\ Cardinality(HeldBy(K, s)) \in Nat
        /\ Cardinality(AmongRefs(H[t], s)) \in Nat /\ Cardinality(AmongRefs(K[t], s)) \in Nat
        /\ Cardinality(HeldBy(K, s)) + Cardinality(AmongRefs(H[t], s))
             = Cardinality(HeldBy(H, s)) + Cardinality(AmongRefs(K[t], s))
    BY <1>2, HolderStep
  <2> QED BY <2>1
<1>6. x = HoldCount(t, s) /\ y = HoldCount(t, s)'
  BY <1>4, <1>5, HoldsCounted, HoldsCounted1
<1>7. PICK o, l, k \in Nat, p \in Int :
        /\ o = open_cnt[s] /\ l = lost[s] /\ p = open_cnt'[s] /\ k = lost'[s]
        /\ o = l + m /\ p + l + x = o + k + y
  <2>1. open_cnt[s] \in Nat /\ lost[s] \in Nat /\ open_cnt'[s] \in Int /\ lost'[s] \in Nat
    BY DEF Balanced
  <2>2. open_cnt[s] = lost[s] + m
    BY <1>3, <1>5 DEF CountInv
  <2>3. open_cnt'[s] + lost[s] + x = open_cnt[s] + lost'[s] + y
    BY <1>6 DEF Balanced
  <2> QED BY <2>1, <2>2, <2>3
<1>8. p = k + n
  BY <1>5, <1>7
<1>9. ASSUME NEW u \in Process PROVE n >= HoldCount(u, s)' /\ HoldCount(u, s)' \in Nat
  <2>1. Differ(K, K, u)
    BY DEF Differ
  <2>2. Cardinality(HeldBy(K, s)) >= Cardinality(AmongRefs(K[u], s))
    BY <2>1, HolderStep
  <2>3. K[u] = Holds(u)'
    BY <1>1
  <2>4. Cardinality(AmongRefs(K[u], s)) = HoldCount(u, s)' /\ HoldCount(u, s)' \in Nat
    BY <2>3, HoldsCounted1
  <2> QED BY <1>5, <2>2, <2>4
<1>10. \A u \in Process : p >= HoldCount(u, s)'
  BY <1>7, <1>8, <1>9
<1> QED BY <1>3, <1>5, <1>7, <1>8, <1>10

-----------------------------------------------------------------------------
(* One step of process t, whose locals become r. *)

ThreadRec == [pc : Points, call : Calls \cup {""}, names : Seq(Name \cup Dots),
              dir : Sector \cup {None}, ofs : Nat \ {0}, new : Sector \cup {None},
              ent : Slot, child : Sector \cup {None}, calls : Nat]
FileRec == [sector : Sector \cup {None}, pos : Nat]

(* What it does to the process ... *)
OwnOK(t, r) ==
  /\ r \in ThreadRec /\ LocalsOK(r) /\ th' = [th EXCEPT ![t] = r]
  /\ fds' \in [Process -> [Fd -> FileRec]] /\ pwd' \in [Process -> Sector \cup {None}]
  /\ \A u \in Process : u # t => pwd'[u] = pwd[u] /\ fds'[u] = fds[u]
  /\ FdsOK(fds'[t])
  /\ r.pc # "dead" => pwd'[t] # None
  /\ r.pc \notin Outside /\ r.call = "open" => \E f \in Fd : fds'[t][f] = NoFile

(* ... and to the inodes. *)
DiskOK(t) ==
  /\ free_map' \subseteq Sector /\ removed' \subseteq Sector
  /\ is_dir' \in [Sector -> BOOLEAN] /\ entries' \in [Sector -> Seq(Slot)]
  /\ EntryInv' /\ open_cnt' \in [Sector -> Int] /\ lost' \in [Sector -> Nat]
  /\ Balanced(t)

LEMMA TypesAre ==
  ASSUME TypeOK
  PROVE  /\ free_map \subseteq Sector /\ removed \subseteq Sector
         /\ is_dir \in [Sector -> BOOLEAN] /\ entries \in [Sector -> Seq(Slot)]
         /\ open_cnt \in [Sector -> Nat] /\ lost \in [Sector -> Nat]
         /\ fds \in [Process -> [Fd -> FileRec]] /\ pwd \in [Process -> Sector \cup {None}]
         /\ th \in [Process -> ThreadRec]
BY DEF TypeOK, ThreadRec, FileRec

LEMMA BaseStep ==
  ASSUME Base, NEW t \in Process, NEW r, OwnOK(t, r), DiskOK(t), Watch
  PROVE  Base' /\ th'[t] = r /\ Others(t)
<1>1. th \in [Process -> ThreadRec]
  BY TypesAre DEF Base
<1>2. /\ th' \in [Process -> ThreadRec] /\ th'[t] = r
      /\ \A u \in Process : u # t => th'[u] = th[u]
  BY <1>1 DEF OwnOK
<1>3. Others(t)
  BY <1>2 DEF Others, OwnOK
<1>4. CountInv' /\ \A s \in Sector : /\ open_cnt'[s] \in Nat
                                     /\ \A u \in Process : open_cnt'[s] >= HoldCount(u, s)'
  BY <1>3, CountKept DEF Base, DiskOK
<1>5. TypeOK'
  <2>1. open_cnt' \in [Sector -> Nat]
    BY <1>4 DEF DiskOK
  <2> QED BY <1>2, <2>1 DEF OwnOK, DiskOK, TypeOK, ThreadRec, FileRec
<1>6. LocalInv'
  <2> SUFFICES ASSUME NEW u \in Process
               PROVE  /\ LocalsOK(th'[u]) /\ FdsOK(fds'[u])
                      /\ th'[u].pc # "dead" => pwd'[u] # None
                      /\ InCall(u)' /\ th'[u].call = "open" => FreeFds(u)' # {}
    BY DEF LocalInv
  <2>1. CASE u = t
    <3>1. LocalsOK(th'[u]) /\ FdsOK(fds'[u]) /\ (th'[u].pc # "dead" => pwd'[u] # None)
      BY <1>2, <2>1 DEF OwnOK
    <3>2. InCall(u)' /\ th'[u].call = "open" => FreeFds(u)' # {}
      BY <1>2, <2>1 DEF OwnOK, InCall, FreeFds, Outside
    <3> QED BY <3>1, <3>2
  <2>2. CASE u # t
    <3>1. th'[u] = th[u] /\ pwd'[u] = pwd[u] /\ fds'[u] = fds[u]
      BY <1>3, <2>2 DEF Others
    <3>2. /\ LocalsOK(th[u]) /\ FdsOK(fds[u])
          /\ th[u].pc # "dead" => pwd[u] # None
          /\ InCall(u) /\ th[u].call = "open" => FreeFds(u) # {}
      BY DEF Base, LocalInv
    <3>3. (InCall(u)' <=> InCall(u)) /\ FreeFds(u)' = FreeFds(u)
      BY <3>1 DEF InCall, FreeFds
    <3> QED BY <3>1, <3>2, <3>3
  <2> QED BY <2>1, <2>2
<1>7. OpenHeld'
  <2> SUFFICES ASSUME NEW u \in Process, NEW s \in Sector,
                      pwd'[u] = s \/ th'[u].dir = s \/ th'[u].child = s
               PROVE  open_cnt'[s] > 0
    BY DEF OpenHeld
  <2>1. FdCount(fds'[u], s) \in Nat
    BY RefsCount
  <2>2. HoldCount(u, s)' = Bit(pwd'[u] = s) + Bit(th'[u].dir = s) + Bit(th'[u].child = s) + FdCount(fds'[u], s)
    BY DEF HoldCount
  <2>3. HoldCount(u, s)' \in Nat /\ HoldCount(u, s)' > 0
    BY <2>1, <2>2 DEF Bit
  <2> QED BY <1>4, <2>3
<1>8. Meet' => unsafe'
  BY DEF Watch
<1> QED BY <1>2, <1>3, <1>4, <1>5, <1>6, <1>7, <1>8 DEF Base, DiskOK

(* Openings and closings change the counters. *)
Countable(o, c) == \A s \in Sector : Count(o, s) \in Nat /\ Count(c, s) \in Nat
LEMMA InodesAre ==
  ASSUME TypeOK, NEW o, NEW c, NEW R \in SUBSET Sector, Inodes(o, c, R),
         Countable(o, c)
  PROVE  /\ open_cnt' \in [Sector -> Int]
         /\ \A s \in Sector : open_cnt'[s] = open_cnt[s] + Count(o, s) - Count(c, s)
         /\ removed' = {s \in removed \cup R : open_cnt'[s] # 0}
         /\ free_map' = free_map \ {s \in removed \cup R : open_cnt'[s] = 0}
         /\ free_map' \subseteq Sector /\ removed' \subseteq Sector
<1>1. open_cnt \in [Sector -> Nat] /\ free_map \subseteq Sector /\ removed \subseteq Sector
  BY TypesAre
<1>2. open_cnt' = [s \in Sector |-> open_cnt[s] + Count(o, s) - Count(c, s)]
  BY DEF Inodes
<1>3. /\ removed' = (removed \cup R) \ {s \in Sector : open_cnt'[s] = 0}
      /\ free_map' = free_map \ ({s \in Sector : open_cnt'[s] = 0} \cap (removed \cup R))
  BY <1>2 DEF Inodes
<1>4. \A s \in Sector : open_cnt'[s] = open_cnt[s] + Count(o, s) - Count(c, s)
  BY <1>2
<1>5. open_cnt' \in [Sector -> Int]
  BY <1>1, <1>2 DEF Countable
<1> QED BY <1>1, <1>3, <1>4, <1>5

(* A step that changes neither descriptors nor working directory. *)
Even(t, r) ==
  \A s \in Sector :
    open_cnt'[s] + lost[s] + Bit(th[t].dir = s) + Bit(th[t].child = s)
      = open_cnt[s] + lost'[s] + Bit(r.dir = s) + Bit(r.child = s)
LEMMA BalanceOf ==
  ASSUME TypeOK, NEW t \in Process, NEW r, th' = [th EXCEPT ![t] = r], pwd' = pwd, fds' = fds,
         open_cnt' \in [Sector -> Int], lost' \in [Sector -> Nat], Even(t, r)
  PROVE  Balanced(t)
<1> SUFFICES ASSUME NEW s \in Sector
             PROVE  /\ open_cnt[s] \in Nat /\ lost[s] \in Nat /\ open_cnt'[s] \in Int /\ lost'[s] \in Nat
                    /\ open_cnt'[s] + lost[s] + HoldCount(t, s) = open_cnt[s] + lost'[s] + HoldCount(t, s)'
  BY DEF Balanced
<1>1. open_cnt[s] \in Nat /\ lost[s] \in Nat /\ open_cnt'[s] \in Int /\ lost'[s] \in Nat
  BY TypesAre
<1>2. th'[t] = r
  BY TypesAre
<1>3. PICK a, b, c, d, e, f \in Nat :
        /\ a = Bit(pwd[t] = s) /\ b = Bit(th[t].dir = s) /\ c = Bit(th[t].child = s)
        /\ d = Bit(r.dir = s) /\ e = Bit(r.child = s) /\ f = FdCount(fds[t], s)
  <2>1. FdCount(fds[t], s) \in Nat
    BY RefsCount
  <2>2. /\ Bit(pwd[t] = s) \in Nat /\ Bit(th[t].dir = s) \in Nat /\ Bit(th[t].child = s) \in Nat
        /\ Bit(r.dir = s) \in Nat /\ Bit(r.child = s) \in Nat
    BY DEF Bit
  <2> QED BY <2>1, <2>2
<1>4. HoldCount(t, s) = a + b + c + f /\ HoldCount(t, s)' = a + d + e + f
  BY <1>2, <1>3 DEF HoldCount
<1>5. PICK o, l, k \in Nat, p \in Int :
        /\ o = open_cnt[s] /\ l = lost[s] /\ p = open_cnt'[s] /\ k = lost'[s]
        /\ p + l + b + c = o + k + d + e
  BY <1>1, <1>3 DEF Even
<1>6. p + l + (a + b + c + f) = o + k + (a + d + e + f)
  BY <1>3, <1>5
<1> QED BY <1>1, <1>4, <1>5, <1>6

-----------------------------------------------------------------------------
(* Steps that change no directory.  G are the sectors that are freed. *)

Quiet(G) ==
  /\ entries' = entries /\ is_dir' = is_dir /\ free_map' = free_map \ G
  /\ removed' \subseteq removed
  /\ \A s \in removed : s \in removed' \/ s \in G
  /\ \A s \in removed' : open_cnt'[s] > 0
  /\ \A s \in G : /\ open_cnt'[s] = 0 /\ s # ROOT_DIR_SECTOR /\ ~Named(s)
                  /\ is_dir[s] => Files(s) = {}
                  /\ \A u \in Process : th'[u].new # s
  /\ \A s \in Sector : open_cnt'[s] > 0 => open_cnt[s] > 0 \/ s = ROOT_DIR_SECTOR \/ Named(s)
  /\ \A u \in Process :
       /\ th'[u].new = th[u].new \/ (th'[u].new = None /\ th[u].new \in G)
       /\ th'[u].new # None => th'[u].dir = th[u].dir

LEMMA QuietTree ==
  ASSUME TypeOK, TypeOK', TreeInv, NEW G, Quiet(G)
  PROVE  TreeInv'
<1>1. /\ free_map \subseteq Sector /\ removed \subseteq Sector
      /\ open_cnt \in [Sector -> Nat] /\ open_cnt' \in [Sector -> Nat]
      /\ th \in [Process -> ThreadRec] /\ free_map' = free_map \ G
  BY DEF TypeOK, ThreadRec, Quiet
<1>2. \A d : Files(d)' = Files(d) /\ (is_dir'[d] <=> is_dir[d]) /\ entries'[d] = entries[d]
  BY DEF Quiet, Files
<1>3. /\ Dirs' \subseteq Dirs /\ \A d \in Dirs : d \notin G => d \in Dirs'
      /\ \A d \in Dirs : Files(d) # {} => d \in Dirs'
      /\ \A d \in Dirs' : d \in free_map'
  BY <1>1, <1>2 DEF Dirs, Quiet
<1>4. \A s : Named(s)' <=> Named(s)
  BY <1>2, <1>3 DEF Named
<1>5. RootInv'
  BY <1>1, <1>2 DEF TreeInv, RootInv, Quiet
<1>6. DirInv'
  <2> SUFFICES ASSUME NEW d \in Dirs' PROVE DotsOK(d)' /\ UniqueNames(d)'
    BY DEF DirInv
  <2>1. DotsOK(d) /\ UniqueNames(d)
    BY <1>3 DEF TreeInv, DirInv
  <2>2. entries'[d] = entries[d] /\ Files(d)' = Files(d)
    BY <1>2
  <2>3. DotsOK(d)'
    BY <2>1, <2>2 DEF DotsOK
  <2>4. UniqueNames(d)'
    BY <2>1, <2>2 DEF UniqueNames
  <2> QED BY <2>3, <2>4
<1>7. NameInv'
  <2> SUFFICES ASSUME NEW d \in Dirs', NEW k \in Files(d)'
               PROVE  LET s == entries'[d][k].sector IN
                      /\ s \in free_map' /\ s # ROOT_DIR_SECTOR /\ s \notin removed'
                      /\ \A t \in Process : th'[t].new # s
                      /\ is_dir'[s] => entries'[s][2].sector = d
                      /\ \A c \in Dirs' : \A j \in Files(c)' : entries'[c][j].sector = s => c = d /\ j = k
    BY DEF NameInv
  <2>1. d \in Dirs /\ k \in Files(d)
    BY <1>2, <1>3
  <2>2. PICK s : s = entries[d][k].sector
    OBVIOUS
  <2>3. /\ s \in free_map /\ s # ROOT_DIR_SECTOR /\ s \notin removed
        /\ \A t \in Process : th[t].new # s
        /\ is_dir[s] => entries[s][2].sector = d
        /\ \A c \in Dirs : \A j \in Files(c) : entries[c][j].sector = s => c = d /\ j = k
    BY <2>1, <2>2 DEF TreeInv, NameInv
  <2>4. Named(s)
    BY <2>1, <2>2 DEF Named
  <2>5. s \notin G /\ s \notin removed'
    BY <2>3, <2>4 DEF Quiet
  <2>6. \A t \in Process : th'[t].new # s
    <3>1. s # None
      BY <1>1, <2>3, Sizes
    <3> QED BY <2>3, <3>1 DEF Quiet
  <2> QED BY <1>1, <1>2, <1>3, <2>2, <2>3, <2>5, <2>6
<1>8. RemovedInv'
  <2> SUFFICES ASSUME NEW s \in removed'
               PROVE  /\ open_cnt'[s] > 0 /\ s \in free_map' /\ s # ROOT_DIR_SECTOR
                      /\ is_dir'[s] => Files(s)' = {}
    BY DEF RemovedInv
  <2>1. s \in removed /\ open_cnt'[s] > 0 /\ s \notin G
    BY <1>1 DEF Quiet
  <2>2. s \in free_map /\ s # ROOT_DIR_SECTOR /\ (is_dir[s] => Files(s) = {})
    BY <2>1 DEF TreeInv, RemovedInv
  <2> QED BY <1>1, <1>2, <2>1, <2>2
<1>9. OpenInv'
  <2> SUFFICES ASSUME NEW s \in Sector, open_cnt'[s] > 0
               PROVE  s \in free_map' /\ (s \in removed' \/ s = ROOT_DIR_SECTOR \/ Named(s)')
    BY DEF OpenInv
  <2>1. open_cnt[s] > 0 \/ s = ROOT_DIR_SECTOR \/ Named(s)
    BY DEF Quiet
  <2>2. s \notin G
    BY DEF Quiet
  <2>3. CASE open_cnt[s] > 0
    <3>1. s \in free_map /\ (s \in removed \/ s = ROOT_DIR_SECTOR \/ Named(s))
      BY <2>3 DEF TreeInv, OpenInv
    <3>2. s \in removed => s \in removed'
      BY <2>2 DEF Quiet
    <3> QED BY <1>1, <1>4, <2>2, <3>1, <3>2
  <2>4. CASE s = ROOT_DIR_SECTOR
    BY <1>5, <2>4 DEF RootInv
  <2>5. CASE Named(s)
    <3>1. s \in free_map
      BY <2>5 DEF Named, TreeInv, NameInv
    <3> QED BY <1>1, <1>4, <2>2, <2>5, <3>1
  <2> QED BY <2>1, <2>3, <2>4, <2>5
<1>10. UsedInv'
  <2> SUFFICES ASSUME NEW s \in free_map'
               PROVE  s = ROOT_DIR_SECTOR \/ open_cnt'[s] > 0 \/ Named(s)' \/ \E t \in Process : th'[t].new = s
    BY DEF UsedInv
  <2>1. s \in free_map /\ s \notin G /\ s \in Sector
    BY <1>1
  <2>2. s = ROOT_DIR_SECTOR \/ open_cnt[s] > 0 \/ Named(s) \/ \E t \in Process : th[t].new = s
    BY <2>1 DEF TreeInv, UsedInv
  <2>3. CASE open_cnt[s] > 0
    <3>1. s \in removed \/ s = ROOT_DIR_SECTOR \/ Named(s)
      BY <2>1, <2>3 DEF TreeInv, OpenInv
    <3>2. s \in removed => s \in removed' /\ open_cnt'[s] > 0
      BY <2>1 DEF Quiet
    <3> QED BY <1>4, <3>1, <3>2
  <2>4. CASE \E t \in Process : th[t].new = s
    BY <2>1, <2>4 DEF Quiet
  <2> QED BY <1>4, <2>2, <2>3, <2>4
<1>11. NewInv'
  <2> SUFFICES ASSUME NEW t \in Process, NEW s, s = th'[t].new, s # None
               PROVE  /\ s \in free_map' /\ s # ROOT_DIR_SECTOR /\ open_cnt'[s] = 0
                      /\ is_dir'[s] => entries'[s][2].sector = th'[t].dir /\ Files(s)' = {}
                      /\ \A u \in Process : th'[u].new = s => u = t
    BY DEF NewInv, NewOK
  <2>1. th[t].new = s /\ th'[t].dir = th[t].dir
    BY DEF Quiet
  <2>2. /\ s \in free_map /\ s # ROOT_DIR_SECTOR /\ open_cnt[s] = 0
        /\ is_dir[s] => entries[s][2].sector = th[t].dir /\ Files(s) = {}
        /\ \A u \in Process : th[u].new = s => u = t
    BY <2>1 DEF TreeInv, NewInv, NewOK
  <2>3. ~Named(s)
    BY <2>1 DEF Named, TreeInv, NameInv
  <2>4. s \in Sector
    BY <1>1, <2>2
  <2>5. open_cnt'[s] = 0
    <3>1. ~(open_cnt'[s] > 0)
      BY <2>2, <2>3, <2>4 DEF Quiet
    <3> QED BY <1>1, <2>4, <3>1
  <2>6. s \in free_map'
    BY <1>1, <2>2 DEF Quiet
  <2>7. \A u \in Process : th'[u].new = s => u = t
    BY <2>2 DEF Quiet
  <2> QED BY <1>2, <2>1, <2>2, <2>5, <2>6, <2>7
<1> QED BY <1>5, <1>6, <1>7, <1>8, <1>9, <1>10, <1>11 DEF TreeInv

-----------------------------------------------------------------------------
(* What a step of process t leaves to the other processes. *)

Changing(t) == InCall(t) /\ th[t].call \in Mutators
Local(t) ==
  /\ \A d \in free_map : open_cnt'[d] > 0 => d \in free_map'
  /\ \A d \in free_map : is_dir'[d] = is_dir[d]
  /\ \A d \in free_map : entries'[d] = entries[d] \/ (d = th[t].dir /\ Changing(t))
  /\ \A s \in removed' : s \in removed \/ (s = th[t].child /\ Changing(t))

(* No other call is where a process changes something. *)
LEMMA Apart ==
  ASSUME Base, Safe, NEW t \in Process, NEW u \in Process, u # t, Changing(t), InCall(u)
  PROVE  \A x \in {th[t].dir, th[t].ent.sector, th[t].child} \ {None} :
           x # th[u].dir /\ x # th[u].ent.sector /\ x # th[u].child
<1>1. ~Meet
  BY DEF Base, Safe
<1>2. At(t) \cap At(u) = {}
  BY <1>1 DEF Meet, Changing
<1> QED BY <1>2 DEF At

(* What is about to be removed has a name. *)
LEMMA VictimNamed ==
  ASSUME Base, SafeInv, NEW t \in Process, th[t].pc \in {"check leaf"} \cup Erasing
  PROVE  LET s == th[t].ent.sector IN
         /\ Named(s) /\ s \in free_map /\ s \notin removed /\ s # ROOT_DIR_SECTOR /\ s \in Sector
         /\ s # None /\ Head(th[t].names) \notin Dots
<1>1. th[t] \in ThreadRec /\ LocalsOK(th[t]) /\ free_map \subseteq Sector
  BY TypesAre DEF Base, LocalInv
<1>2. InCall(t) /\ th[t].pc \in Removing
  BY DEF InCall, Erasing, Removing
<1>3. th[t].dir \in Dirs /\ PlaceOK(entries[th[t].dir], th[t])
  BY <1>2 DEF SafeInv, CallInv, CallOK
<1>4. PICK d, r : d = th[t].dir /\ r = th[t]
  OBVIOUS
<1>5. Hit(r.ent, r) /\ Head(r.names) \notin Dots
  BY <1>2, <1>3, <1>4 DEF PlaceOK, Erasing, Reading
<1>6. \E k \in DOMAIN entries[d] : entries[d][k] = r.ent
  <2>1. CASE r.pc = "erase"
    BY <1>3, <1>4, <2>1 DEF PlaceOK
  <2>2. CASE r.pc \in Reading
    <3>1. r.ofs <= Len(entries[d]) /\ entries[d][r.ofs] = r.ent /\ r.ofs \in Nat \ {0}
      BY <1>1, <1>3, <1>4, <2>2 DEF PlaceOK, ThreadRec
    <3>2. entries[d] \in Seq(Slot)
      BY <1>1, <1>3, <1>4, TypesAre DEF Base, Dirs
    <3>3. DOMAIN entries[d] = 1..Len(entries[d]) /\ Len(entries[d]) \in Nat
      BY <3>2, LenProperties
    <3>4. r.ofs \in DOMAIN entries[d]
      <4>1. r.ofs \in 1..Len(entries[d])
        BY <3>1, <3>3, InRange
      <4> QED BY <3>3, <4>1
    <3> QED BY <3>1, <3>4
  <2> QED BY <1>4, <2>1, <2>2 DEF Erasing, Reading
<1>7. PICK k \in DOMAIN entries[d] : entries[d][k] = r.ent
  BY <1>6
<1>8. k \in Files(d) /\ d \in Dirs
  BY <1>3, <1>4, <1>5, <1>7 DEF Files, Hit
<1>9. Named(r.ent.sector)
  BY <1>7, <1>8 DEF Named
<1>10. r.ent.sector \in free_map /\ r.ent.sector # ROOT_DIR_SECTOR /\ r.ent.sector \notin removed
  <2>1. NameInv
    BY DEF SafeInv, TreeInv
  <2>2. /\ entries[d][k].sector \in free_map /\ entries[d][k].sector # ROOT_DIR_SECTOR
        /\ entries[d][k].sector \notin removed
    BY <1>8, <2>1 DEF NameInv
  <2> QED BY <1>7, <2>2
<1> QED BY <1>1, <1>4, <1>5, <1>9, <1>10, Sizes

LEMMA OthersKept ==
  ASSUME Base, Base', Safe, SafeInv, NEW t \in Process, Others(t), Local(t),
         NEW u \in Process, u # t
  PROVE  CallOK(u)'
<1> SUFFICES ASSUME InCall(u)
             PROVE  /\ th[u].dir \in Dirs' /\ th[u].dir \notin removed'
                    /\ PlaceOK(entries'[th[u].dir], th[u])
                    /\ th[u].pc \in Erasing /\ is_dir'[th[u].ent.sector] => Files(th[u].ent.sector)' = {}
  BY DEF CallOK, InCall, Others
<1>1. /\ th[u].dir \in Dirs /\ th[u].dir \notin removed
      /\ PlaceOK(entries[th[u].dir], th[u])
      /\ th[u].pc \in Erasing /\ is_dir[th[u].ent.sector] => Files(th[u].ent.sector) = {}
  BY DEF SafeInv, CallInv, CallOK
<1>2. PICK d : d = th[u].dir
  OBVIOUS
<1>3. d \in Sector /\ d # None /\ d \in free_map
  BY <1>1, <1>2, Sizes, TypesAre DEF Dirs, Base
<1>4. open_cnt'[d] > 0
  BY <1>2, <1>3 DEF Base, OpenHeld, Others
<1>5. d \in Dirs'
  BY <1>1, <1>2, <1>3, <1>4 DEF Local, Dirs
<1>6. d \notin removed'
  BY <1>1, <1>2, <1>3, Apart DEF Local
<1>7. entries'[d] = entries[d]
  BY <1>2, <1>3, Apart DEF Local
<1>8. ASSUME th[u].pc \in Erasing, is_dir'[th[u].ent.sector] PROVE Files(th[u].ent.sector)' = {}
  <2>1. PICK s : s = th[u].ent.sector
    OBVIOUS
  <2>2. s \in free_map /\ s # None
    BY <1>8, <2>1, VictimNamed
  <2>3. is_dir'[s] = is_dir[s] /\ entries'[s] = entries[s]
    BY <2>1, <2>2, Apart DEF Local
  <2>4. Files(s)' = Files(s)
    BY <2>3 DEF Files
  <2>5. th'[u] = th[u]
    BY DEF Others
  <2>6. Files(s) = {}
    BY <1>1, <1>8, <2>1, <2>3
  <2> QED BY <2>1, <2>4, <2>5, <2>6
<1> QED BY <1>1, <1>2, <1>5, <1>6, <1>7, <1>8

LEMMA SafeStep ==
  ASSUME Base, Base', Safe, SafeInv, NEW t \in Process, Others(t), Local(t),
         TreeInv', CallOK(t)',
         pwd'[t] = pwd[t] \/ pwd'[t] = None \/ is_dir'[pwd'[t]]
  PROVE  SafeInv'
<1>1. CallInv'
  BY OthersKept DEF CallInv
<1>2. PwdInv'
  <2> SUFFICES ASSUME NEW u \in Process, pwd'[u] # None PROVE is_dir'[pwd'[u]]
    BY DEF PwdInv
  <2>1. CASE pwd'[u] = pwd[u]
    <3>1. is_dir[pwd[u]] /\ pwd[u] \in Sector
      BY <2>1, TypesAre DEF SafeInv, PwdInv, Base
    <3>2. open_cnt[pwd[u]] > 0
      BY <3>1 DEF Base, OpenHeld
    <3>3. pwd[u] \in free_map
      BY <3>1, <3>2 DEF SafeInv, TreeInv, OpenInv
    <3> QED BY <2>1, <3>1, <3>3 DEF Local
  <2>2. CASE pwd'[u] # pwd[u]
    BY <2>2 DEF Others
  <2> QED BY <2>1, <2>2
<1> QED BY <1>1, <1>2 DEF SafeInv

(* A quiet step disturbs nobody. *)
LEMMA QuietStep ==
  ASSUME Base, Base', Safe, SafeInv, NEW t \in Process, Others(t), NEW G, Quiet(G), CallOK(t)',
         pwd'[t] = pwd[t] \/ pwd'[t] = None \/ is_dir'[pwd'[t]]
  PROVE  SafeInv'
<1>1. Local(t)
  BY DEF Quiet, Local
<1>2. TreeInv'
  BY QuietTree DEF Base, SafeInv
<1> QED BY <1>1, <1>2, SafeStep

(* Openings and closings are quiet. *)
Opened(o) == \A s \in Sector : Count(o, s) > 0 => open_cnt[s] > 0 \/ s = ROOT_DIR_SECTOR \/ Named(s)
NewKept == \A u \in Process : th'[u].new = th[u].new /\ (th[u].new # None => th'[u].dir = th[u].dir)
LEMMA InodesQuiet ==
  ASSUME Base, SafeInv, NEW o, NEW c, Inodes(o, c, {}), Opened(o), NewKept,
         Countable(o, c),
         Base', is_dir' = is_dir, entries' = entries
  PROVE  Quiet({s \in removed : open_cnt'[s] = 0})
<1>1. /\ \A s \in Sector : open_cnt'[s] = open_cnt[s] + Count(o, s) - Count(c, s)
      /\ removed' = {s \in removed : open_cnt'[s] # 0}
      /\ free_map' = free_map \ {s \in removed : open_cnt'[s] = 0}
  BY InodesAre DEF Base
<1>2. open_cnt \in [Sector -> Nat] /\ open_cnt' \in [Sector -> Nat] /\ removed \subseteq Sector
  BY DEF Base, TypeOK
<1>3. ASSUME NEW s \in removed
      PROVE  /\ s # ROOT_DIR_SECTOR /\ ~Named(s)
             /\ is_dir[s] => Files(s) = {}
             /\ \A u \in Process : th[u].new # s
  <2>1. s # ROOT_DIR_SECTOR /\ open_cnt[s] > 0 /\ (is_dir[s] => Files(s) = {}) /\ s \in Sector
    BY <1>2 DEF SafeInv, TreeInv, RemovedInv
  <2>2. ~Named(s)
    BY DEF SafeInv, TreeInv, NameInv, Named
  <2>3. \A u \in Process : th[u].new # s
    BY <2>1, Sizes DEF SafeInv, TreeInv, NewInv, NewOK
  <2> QED BY <2>1, <2>2, <2>3
<1>4. \A s \in Sector : open_cnt'[s] > 0 => open_cnt[s] > 0 \/ s = ROOT_DIR_SECTOR \/ Named(s)
  <2> SUFFICES ASSUME NEW s \in Sector, open_cnt'[s] > 0, ~(open_cnt[s] > 0), ~(Count(o, s) > 0)
               PROVE  FALSE
    BY DEF Opened
  <2>1. Count(o, s) = 0 /\ open_cnt[s] = 0 /\ Count(c, s) \in Nat
    BY <1>2 DEF Countable
  <2> QED BY <1>1, <2>1
<1>5. \A s \in removed' : s \in removed /\ open_cnt'[s] > 0
  BY <1>1, <1>2
<1>6. \A s \in removed : s \in removed' \/ s \in {x \in removed : open_cnt'[x] = 0}
  BY <1>1
<1> QED BY <1>1, <1>3, <1>4, <1>5, <1>6 DEF Quiet, NewKept

(* Where a name leads. *)
LEMMA Leads ==
  ASSUME Base, SafeInv, NEW d \in Dirs, d \notin removed, open_cnt[d] > 0,
         NEW k \in DOMAIN entries[d], entries[d][k].in_use
  PROVE  LET s == entries[d][k].sector IN
         /\ s \in free_map /\ s \notin removed
         /\ open_cnt[s] > 0 \/ s = ROOT_DIR_SECTOR \/ Named(s)
<1>1. d \in Sector /\ d \in free_map
  BY TypesAre DEF Base, Dirs
<1>2. DotsOK(d)
  BY DEF SafeInv, TreeInv, DirInv
<1>3. CASE entries[d][k].name \notin Dots
  <2>1. k \in Files(d)
    BY <1>3 DEF Files
  <2>2. entries[d][k].sector \in free_map /\ entries[d][k].sector \notin removed
    BY <2>1 DEF SafeInv, TreeInv, NameInv
  <2> QED BY <2>1, <2>2 DEF Named
<1>4. CASE k = 1
  BY <1>1, <1>2, <1>4 DEF DotsOK
<1>5. CASE k = 2
  <2>1. d = ROOT_DIR_SECTOR \/ Named(d)
    BY <1>1 DEF SafeInv, TreeInv, OpenInv
  <2>2. CASE d = ROOT_DIR_SECTOR
    BY <1>1, <1>5, <2>2 DEF SafeInv, TreeInv, RootInv
  <2>3. CASE Named(d)
    <3>0. PICK c \in Dirs : \E j \in Files(c) : entries[c][j].sector = d
      BY <2>3 DEF Named
    <3>1. PICK j \in Files(c) : entries[c][j].sector = d
      BY <3>0
    <3>2. entries[d][2].sector = c
      BY <3>1 DEF SafeInv, TreeInv, NameInv, Dirs
    <3>3. is_dir[c] /\ c \in free_map /\ Files(c) # {}
      BY <3>1 DEF Dirs
    <3>4. c \notin removed
      BY <3>3 DEF SafeInv, TreeInv, RemovedInv
    <3>5. c = ROOT_DIR_SECTOR \/ open_cnt[c] > 0 \/ Named(c) \/ \E t \in Process : th[t].new = c
      BY <3>3 DEF SafeInv, TreeInv, UsedInv
    <3>6. \A t \in Process : th[t].new # c
      <4>1. c # None
        BY <3>3, Sizes, TypesAre DEF Base
      <4> QED BY <3>3, <4>1 DEF SafeInv, TreeInv, NewInv, NewOK
    <3> QED BY <1>5, <3>2, <3>3, <3>4, <3>5, <3>6
  <2> QED BY <2>1, <2>2, <2>3
<1> QED BY <1>2, <1>3, <1>4, <1>5 DEF DotsOK

-----------------------------------------------------------------------------
(* The actions, one by one. *)

(* Nothing but the locals changes. *)
LEMMA NothingOK ==
  ASSUME Base, NEW t \in Process, NEW r, th' = [th EXCEPT ![t] = r],
         r.dir = th[t].dir, r.child = th[t].child, pwd' = pwd, fds' = fds,
         disk' = disk, open_cnt' = open_cnt, removed' = removed, lost' = lost
  PROVE  DiskOK(t)
<1>1. TypeOK /\ EntryInv
  BY DEF Base
<1>2. /\ free_map' = free_map /\ is_dir' = is_dir /\ entries' = entries
      /\ free_map \subseteq Sector /\ removed \subseteq Sector /\ is_dir \in [Sector -> BOOLEAN]
      /\ entries \in [Sector -> Seq(Slot)] /\ open_cnt \in [Sector -> Nat] /\ lost \in [Sector -> Nat]
  BY <1>1, TypesAre DEF disk
<1>3. open_cnt' \in [Sector -> Int] /\ lost' \in [Sector -> Nat]
  BY <1>2
<1>4. Balanced(t)
  <2>1. Even(t, r)
    BY <1>2 DEF Even
  <2> QED BY <1>1, <1>3, <2>1, BalanceOf
<1>5. EntryInv'
  BY <1>1, <1>2 DEF EntryInv
<1> QED BY <1>2, <1>3, <1>4, <1>5 DEF DiskOK

LEMMA NothingQuiet ==
  ASSUME Base, SafeInv, disk' = disk, open_cnt' = open_cnt, removed' = removed, NewKept
  PROVE  Quiet({})
<1>1. free_map' = free_map /\ is_dir' = is_dir /\ entries' = entries
  BY DEF disk
<1>2. \A s \in removed' : open_cnt'[s] > 0
  BY DEF SafeInv, TreeInv, RemovedInv
<1>3. free_map' = free_map \ {}
  BY <1>1
<1> QED BY <1>1, <1>2, <1>3 DEF Quiet, NewKept

(* What is known of a call when it takes a step. *)
LEMMA CallIs ==
  ASSUME Base, NEW t \in Process
  PROVE  /\ th \in [Process -> ThreadRec] /\ th[t] \in ThreadRec /\ LocalsOK(th[t])
         /\ th[t].ofs \in Nat \ {0} /\ th[t].names \in Seq(Name \cup Dots)
         /\ th[t].pc \in Points /\ th[t].ent \in Slot /\ th[t].calls \in Nat
         /\ th[t].dir \in Sector \cup {None} /\ th[t].child \in Sector \cup {None}
         /\ pwd[t] \in Sector \cup {None} /\ fds[t] \in [Fd -> FileRec]
         /\ fds \in [Process -> [Fd -> FileRec]] /\ pwd \in [Process -> Sector \cup {None}]
         /\ InCall(t) => th[t].dir \in Sector /\ th[t].dir # None
<1>1. th \in [Process -> ThreadRec] /\ th[t] \in ThreadRec
  BY TypesAre DEF Base
<1>2. LocalsOK(th[t])
  BY DEF Base, LocalInv
<1>3. /\ pwd[t] \in Sector \cup {None} /\ fds[t] \in [Fd -> FileRec]
      /\ fds \in [Process -> [Fd -> FileRec]] /\ pwd \in [Process -> Sector \cup {None}]
  BY TypesAre DEF Base
<1>4. InCall(t) => th[t].dir # None
  BY <1>2 DEF LocalsOK, InCall, Outside
<1> QED BY <1>1, <1>2, <1>3, <1>4 DEF ThreadRec

(* Only the locals of a call change. *)
LEMMA LocalStep ==
  ASSUME IInv, NEW t \in Process, NEW r, r \in ThreadRec, LocalsOK(r), th' = [th EXCEPT ![t] = r],
         r.dir = th[t].dir, r.child = th[t].child, r.call = th[t].call,
         (r.pc \in Outside) <=> (th[t].pc \in Outside), r.pc # "dead", th[t].pc # "dead",
         UNCHANGED <<disk, open_cnt, removed, fds, pwd, panic, lost>>, Watch,
         r.new = th[t].new,
         Safe /\ SafeInv /\ Safe' /\ r.pc \notin Outside =>
           /\ PlaceOK(entries[th[t].dir], r)
           /\ r.pc \in Erasing /\ is_dir[r.ent.sector] => Files(r.ent.sector) = {}
  PROVE  IInv'
<1>1. Base
  BY DEF IInv
<1>2. OwnOK(t, r)
  <2>1. fds' \in [Process -> [Fd -> FileRec]] /\ pwd' \in [Process -> Sector \cup {None}]
    BY <1>1, CallIs
  <2>2. pwd[t] # None /\ FdsOK(fds[t])
    BY <1>1 DEF Base, LocalInv
  <2>3. r.pc \notin Outside /\ r.call = "open" => \E f \in Fd : fds[t][f] = NoFile
    BY <1>1 DEF Base, LocalInv, InCall, FreeFds, Outside
  <2> QED BY <2>1, <2>2, <2>3 DEF OwnOK
<1>3. DiskOK(t)
  BY <1>1, NothingOK
<1>4. Base' /\ th'[t] = r /\ Others(t)
  BY <1>1, <1>2, <1>3, BaseStep
<1>5. ASSUME Safe' PROVE SafeInv'
  <2>1. Safe /\ SafeInv
    BY <1>5 DEF Safe, Watch, IInv
  <2>2. NewKept
    BY <1>4 DEF NewKept, Others
  <2>3. Quiet({})
    BY <1>1, <2>1, <2>2, NothingQuiet
  <2>4. CallOK(t)'
    <3> SUFFICES ASSUME r.pc \notin Outside
                 PROVE  /\ r.dir \in Dirs' /\ r.dir \notin removed'
                        /\ PlaceOK(entries'[r.dir], r)
                        /\ r.pc \in Erasing /\ is_dir'[r.ent.sector] => Files(th[t].ent.sector)' = {}
      BY <1>4 DEF CallOK, InCall, Outside
    <3>1. CallOK(t) /\ InCall(t)
      BY <2>1 DEF SafeInv, CallInv, InCall, Outside
    <3>2. th[t].dir \in Dirs /\ th[t].dir \notin removed
      BY <3>1 DEF CallOK
    <3>3. free_map' = free_map /\ is_dir' = is_dir /\ entries' = entries
      BY DEF disk
    <3>4. Dirs' = Dirs /\ \A s : Files(s)' = Files(s)
      BY <3>3 DEF Dirs, Files
    <3>5. Files(th[t].ent.sector)' = Files(r.ent.sector)
      BY <1>4, <3>3 DEF Files
    <3> QED BY <1>5, <2>1, <3>2, <3>3, <3>4, <3>5
  <2> QED BY <1>1, <1>4, <2>1, <2>3, <2>4, QuietStep
<1> QED BY <1>4, <1>5 DEF IInv

(* A record of locals of which some fields change. *)
Found(r, e, p) == [r EXCEPT !.ent = e, !.pc = p]
Moved(r, p, k) == [r EXCEPT !.pc = p, !.ofs = k]
LEMMA FoundFields ==
  ASSUME NEW r \in ThreadRec, NEW e \in Slot, NEW p \in Points
  PROVE  /\ Found(r, e, p) \in ThreadRec /\ Found(r, e, p).ent = e /\ Found(r, e, p).pc = p
         /\ Found(r, e, p).dir = r.dir /\ Found(r, e, p).child = r.child
         /\ Found(r, e, p).call = r.call /\ Found(r, e, p).names = r.names
         /\ Found(r, e, p).new = r.new /\ Found(r, e, p).ofs = r.ofs
BY DEF Found, ThreadRec

LEMMA MovedFields ==
  ASSUME NEW r \in ThreadRec, NEW p \in Points, NEW k \in Nat \ {0}
  PROVE  /\ Moved(r, p, k) \in ThreadRec /\ Moved(r, p, k).ofs = k /\ Moved(r, p, k).pc = p
         /\ Moved(r, p, k).dir = r.dir /\ Moved(r, p, k).child = r.child
         /\ Moved(r, p, k).call = r.call /\ Moved(r, p, k).names = r.names
         /\ Moved(r, p, k).new = r.new /\ Moved(r, p, k).ent = r.ent
BY DEF Moved, ThreadRec

(* The directory a call is in. *)
LEMMA DirIs ==
  ASSUME Base, NEW t \in Process, InCall(t)
  PROVE  LET e == entries[th[t].dir] IN
         /\ e \in Seq(Slot) /\ Len(e) \in Nat /\ DOMAIN e = 1..Len(e)
         /\ ~AtEnd(t) => th[t].ofs \in DOMAIN e /\ Current(t) \in Slot
         /\ \A k \in DOMAIN e : e[k].in_use => e[k].sector \in Sector /\ e[k].sector # None
<1>1. PICK d, e : d = th[t].dir /\ e = entries[d]
  OBVIOUS
<1>2. d \in Sector /\ th[t].ofs \in Nat \ {0}
  BY <1>1, CallIs
<1>3. e \in Seq(Slot)
  BY <1>1, <1>2, TypesAre DEF Base
<1>4. Len(e) \in Nat /\ DOMAIN e = 1..Len(e) /\ \A k \in DOMAIN e : e[k] \in Slot
  BY <1>3, LenProperties, ElementOfSeq
<1>5. ASSUME ~AtEnd(t) PROVE th[t].ofs \in DOMAIN e /\ Current(t) \in Slot
  <2>1. ~(th[t].ofs > Len(e))
    BY <1>1, <1>5 DEF AtEnd
  <2>2. th[t].ofs <= Len(e)
    BY <1>2, <1>4, <2>1
  <2>3. th[t].ofs \in DOMAIN e
    BY <1>2, <1>4, <2>2, InRange
  <2> QED BY <1>1, <1>4, <2>3 DEF Current
<1>6. \A k \in DOMAIN e : e[k].in_use => e[k].sector \in Sector /\ e[k].sector # None
  <2>1. \A k \in DOMAIN e : e[k].sector \in Sector \cup {None}
    BY <1>4 DEF Slot
  <2>2. \A k \in DOMAIN e : e[k].in_use => e[k].sector # None
    BY <1>1, <1>2 DEF Base, EntryInv
  <2> QED BY <2>1, <2>2
<1> QED BY <1>1, <1>3, <1>4, <1>5, <1>6

LEMMA LookupFound ==
  ASSUME IInv, NEW t \in Process, lookup(t), Match(t)
  PROVE  IInv'
<1>1. /\ Base /\ panic = "no" /\ th[t].pc \in Searching /\ ~AtEnd(t) /\ Watch
      /\ UNCHANGED <<disk, open_cnt, removed, fds, pwd, panic, lost>>
      /\ th' = [th EXCEPT ![t].ent = Current(t),
                ![t].pc = CASE @ = "walk" -> "enter"
                            [] @ = "find" -> "open"
                            [] @ = "check" -> "check leaf"
                            [] @ = "add" -> "write slot"
                            [] @ = "erase" -> "open victim"]
  BY DEF lookup, IInv
<1>2. InCall(t)
  BY <1>1 DEF InCall, Searching
<1>3. PICK o, e, d : o = th[t] /\ e = Current(t) /\ d = entries[th[t].dir]
  OBVIOUS
<1>4. /\ o \in ThreadRec /\ LocalsOK(o) /\ o.ofs \in Nat \ {0} /\ th \in [Process -> ThreadRec]
      /\ d \in Seq(Slot) /\ Len(d) \in Nat /\ DOMAIN d = 1..Len(d)
      /\ o.ofs \in DOMAIN d /\ e \in Slot /\ e = d[o.ofs]
      /\ e.in_use /\ e.sector # None /\ e.name = Head(o.names)
  <2>1. o \in ThreadRec /\ LocalsOK(o) /\ o.ofs \in Nat \ {0} /\ th \in [Process -> ThreadRec]
    BY <1>1, <1>3, CallIs
  <2>2. /\ d \in Seq(Slot) /\ Len(d) \in Nat /\ DOMAIN d = 1..Len(d)
        /\ o.ofs \in DOMAIN d /\ e \in Slot
        /\ \A k \in DOMAIN d : d[k].in_use => d[k].sector # None
    BY <1>1, <1>2, <1>3, DirIs
  <2>3. e = d[o.ofs] /\ e.in_use /\ e.name = Head(o.names)
    BY <1>3 DEF Match, Current
  <2> QED BY <2>1, <2>2, <2>3
<1>5. PICK p \in Points :
        /\ th' = [th EXCEPT ![t] = Found(o, e, p)]
        /\ \/ o.pc = "walk" /\ p = "enter"
           \/ o.pc = "find" /\ p = "open"
           \/ o.pc = "check" /\ p = "check leaf"
           \/ o.pc = "add" /\ p = "write slot"
           \/ o.pc = "erase" /\ p = "open victim"
  <2>1. {"enter", "open", "check leaf", "write slot", "open victim"} \subseteq Points
    BY DEF Points
  <2>2. CASE o.pc = "walk"
    <3>1. th' = [th EXCEPT ![t] = Found(o, e, "enter")]
      BY <1>1, <1>3, <1>4, <2>2 DEF Found, ThreadRec
    <3> QED BY <2>1, <2>2, <3>1
  <2>3. CASE o.pc = "find"
    <3>1. th' = [th EXCEPT ![t] = Found(o, e, "open")]
      BY <1>1, <1>3, <1>4, <2>3 DEF Found, ThreadRec
    <3> QED BY <2>1, <2>3, <3>1
  <2>4. CASE o.pc = "check"
    <3>1. th' = [th EXCEPT ![t] = Found(o, e, "check leaf")]
      BY <1>1, <1>3, <1>4, <2>4 DEF Found, ThreadRec
    <3> QED BY <2>1, <2>4, <3>1
  <2>5. CASE o.pc = "add"
    <3>1. th' = [th EXCEPT ![t] = Found(o, e, "write slot")]
      BY <1>1, <1>3, <1>4, <2>5 DEF Found, ThreadRec
    <3> QED BY <2>1, <2>5, <3>1
  <2>6. CASE o.pc = "erase"
    <3>1. th' = [th EXCEPT ![t] = Found(o, e, "open victim")]
      BY <1>1, <1>3, <1>4, <2>6 DEF Found, ThreadRec
    <3> QED BY <2>1, <2>6, <3>1
  <2> QED BY <1>1, <1>3, <2>2, <2>3, <2>4, <2>5, <2>6 DEF Searching
<1>6. PICK r : r = Found(o, e, p)
  OBVIOUS
<1>7. /\ r \in ThreadRec /\ r.ent = e /\ r.pc = p /\ r.dir = o.dir /\ r.child = o.child
      /\ r.call = o.call /\ r.names = o.names /\ r.new = o.new /\ r.ofs = o.ofs
  BY <1>4, <1>6, FoundFields
<1>8. LocalsOK(r)
  BY <1>4, <1>5, <1>7 DEF LocalsOK, Outside, Leading, Making, Removing, Finding, Reading, Looking
<1>9. ASSUME Safe, SafeInv
      PROVE  /\ PlaceOK(d, r)
             /\ r.pc \in Erasing /\ is_dir[r.ent.sector] => Files(r.ent.sector) = {}
  <2>1. /\ PlaceOK(d, o) /\ th[t].dir \in Dirs
        /\ o.pc \in Erasing /\ is_dir[o.ent.sector] => Files(o.ent.sector) = {}
    BY <1>2, <1>3, <1>9 DEF SafeInv, CallInv, CallOK
  <2>2. o.ofs <= Len(d) /\ e # FreeSlot
    <3>1. o.ofs <= Len(d)
      BY <1>4, InRange
    <3>2. ~FreeSlot.in_use
      BY DEF FreeSlot
    <3> QED BY <1>4, <3>1, <3>2
  <2>3. Hit(e, r)
    BY <1>4, <1>7 DEF Hit
  <2>4. PlaceOK(d, r)
    <3>1. r.ofs <= Len(d) + 1
      BY <1>4, <1>7, <2>2
    <3>2. r.pc \in Removing => Head(r.names) \notin Dots
      BY <1>5, <1>7, <2>1 DEF PlaceOK, Removing
    <3> QED BY <1>4, <1>5, <1>7, <2>2, <2>3, <3>1, <3>2 DEF PlaceOK
  <2>5. ASSUME r.pc \in Erasing PROVE e = o.ent /\ o.pc \in Erasing
    <3>1. o.pc = "erase"
      BY <1>5, <1>7, <2>5 DEF Erasing
    <3>2. PICK k \in DOMAIN d : d[k] = o.ent /\ o.ent.in_use /\ o.ent.name = Head(o.names)
      BY <2>1, <3>1 DEF PlaceOK, Hit
    <3>3. Head(o.names) \notin Dots
      BY <2>1, <3>1 DEF PlaceOK, Removing
    <3>4. k \in Files(th[t].dir) /\ o.ofs \in Files(th[t].dir)
      BY <1>3, <1>4, <3>2, <3>3 DEF Files
    <3>5. UniqueNames(th[t].dir)
      BY <1>9, <2>1 DEF SafeInv, TreeInv, DirInv
    <3>6. k = o.ofs
      BY <1>3, <1>4, <3>2, <3>4, <3>5 DEF UniqueNames
    <3> QED BY <1>4, <3>1, <3>2, <3>6 DEF Erasing
  <2> QED BY <1>7, <2>1, <2>4, <2>5
<1>10. ((r.pc \in Outside) <=> (o.pc \in Outside)) /\ r.pc # "dead" /\ o.pc # "dead"
  BY <1>5, <1>7 DEF Outside
<1> QED BY <1>1, <1>3, <1>5, <1>6, <1>7, <1>8, <1>9, <1>10, LocalStep

LEMMA LookupNext ==
  ASSUME IInv, NEW t \in Process, lookup(t), ~Match(t)
  PROVE  IInv'
<1>1. /\ Base /\ panic = "no" /\ th[t].pc \in Searching /\ ~AtEnd(t) /\ Watch
      /\ UNCHANGED <<disk, open_cnt, removed, fds, pwd, panic, lost>>
      /\ th' = [th EXCEPT ![t].ofs = @ + 1]
  BY DEF lookup, IInv
<1>2. InCall(t)
  BY <1>1 DEF InCall, Searching
<1>3. PICK o, d, r : o = th[t] /\ d = entries[th[t].dir] /\ r = Moved(o, o.pc, o.ofs + 1)
  OBVIOUS
<1>4. /\ o \in ThreadRec /\ LocalsOK(o) /\ o.ofs \in Nat \ {0} /\ th \in [Process -> ThreadRec]
      /\ o.pc \in Points
  BY <1>1, <1>3, CallIs
<1>5. /\ d \in Seq(Slot) /\ Len(d) \in Nat /\ DOMAIN d = 1..Len(d) /\ o.ofs \in DOMAIN d
      /\ ~Hit(d[o.ofs], o)
  BY <1>1, <1>2, <1>3, DirIs DEF Match, Current, Hit
<1>6. th' = [th EXCEPT ![t] = r]
  BY <1>1, <1>3, <1>4 DEF Moved, ThreadRec
<1>7. /\ r \in ThreadRec /\ r.ofs = o.ofs + 1 /\ r.pc = o.pc /\ r.dir = o.dir /\ r.child = o.child
      /\ r.call = o.call /\ r.names = o.names /\ r.new = o.new /\ r.ent = o.ent
  <2>1. o.ofs + 1 \in Nat \ {0}
    BY <1>4
  <2> QED BY <1>3, <1>4, <2>1, MovedFields
<1>8. LocalsOK(r)
  BY <1>4, <1>7 DEF LocalsOK
<1>9. ASSUME Safe, SafeInv
      PROVE  /\ PlaceOK(d, r)
             /\ r.pc \in Erasing /\ is_dir[r.ent.sector] => Files(r.ent.sector) = {}
  <2>1. /\ PlaceOK(d, o)
        /\ o.pc \in Erasing /\ is_dir[o.ent.sector] => Files(o.ent.sector) = {}
    BY <1>2, <1>3, <1>9 DEF SafeInv, CallInv, CallOK
  <2>2. r.ofs <= Len(d) + 1
    <3>1. o.ofs <= Len(d)
      BY <1>4, <1>5, InRange
    <3> QED BY <1>4, <1>5, <1>7, <3>1
  <2>3. \A x : Hit(x, r) <=> Hit(x, o)
    BY <1>7 DEF Hit
  <2>4. r.pc = "add" => \A j \in 1 .. r.ofs - 1 : ~Hit(d[j], r)
    <3>1. ASSUME r.pc = "add", NEW j \in 1 .. r.ofs - 1 PROVE ~Hit(d[j], o)
      <4>1. j \in 1 .. o.ofs - 1 \/ j = o.ofs
        BY <1>4, <1>7, <3>1
      <4> QED BY <1>5, <1>7, <2>1, <3>1, <4>1 DEF PlaceOK
    <3> QED BY <2>3, <3>1
  <2>5. r.pc \in Searching
    BY <1>1, <1>3, <1>7
  <2>6. PlaceOK(d, r)
    BY <1>7, <2>1, <2>2, <2>3, <2>4, <2>5 DEF PlaceOK, Searching, Reading
  <2> QED BY <1>7, <2>1, <2>6
<1>10. ((r.pc \in Outside) <=> (o.pc \in Outside)) /\ r.pc # "dead" /\ o.pc # "dead"
  BY <1>1, <1>3, <1>7 DEF Outside, Searching
<1> QED BY <1>1, <1>3, <1>6, <1>7, <1>8, <1>9, <1>10, LocalStep

LEMMA FindSlotKeeps ==
  ASSUME IInv, NEW t \in Process, FindSlot(t)
  PROVE  IInv'
<1>1. /\ Base /\ panic = "no" /\ th[t].pc = "slot" /\ Watch
      /\ UNCHANGED <<disk, open_cnt, removed, fds, pwd, panic, lost>>
      /\ th' = IF AtEnd(t) \/ ~Current(t).in_use THEN [th EXCEPT ![t].pc = "write slot"]
               ELSE [th EXCEPT ![t].ofs = @ + 1]
  BY DEF FindSlot, IInv, Running
<1>2. InCall(t)
  BY <1>1 DEF InCall
<1>3. PICK o, d, p, k, r :
        /\ o = th[t] /\ d = entries[th[t].dir] /\ r = Moved(o, p, k)
        /\ \/ (AtEnd(t) \/ ~Current(t).in_use) /\ p = "write slot" /\ k = o.ofs
           \/ ~AtEnd(t) /\ p = "slot" /\ k = o.ofs + 1
        /\ p = "write slot" => AtEnd(t) \/ ~Current(t).in_use
        /\ th' = IF p = "write slot" THEN [th EXCEPT ![t].pc = "write slot"]
                 ELSE [th EXCEPT ![t].ofs = @ + 1]
  <2>1. CASE AtEnd(t) \/ ~Current(t).in_use
    BY <1>1, <2>1
  <2>2. CASE ~(AtEnd(t) \/ ~Current(t).in_use)
    <3>1. "slot" # "write slot"
      OBVIOUS
    <3> QED BY <1>1, <2>2, <3>1
  <2> QED BY <2>1, <2>2
<1>4. /\ o \in ThreadRec /\ LocalsOK(o) /\ o.ofs \in Nat \ {0} /\ th \in [Process -> ThreadRec]
      /\ o.pc = "slot" /\ p \in Points /\ k \in Nat \ {0}
  <2>1. /\ o \in ThreadRec /\ LocalsOK(o) /\ o.ofs \in Nat \ {0} /\ th \in [Process -> ThreadRec]
        /\ o.pc = "slot"
    BY <1>1, <1>3, CallIs
  <2>2. o.ofs + 1 \in Nat \ {0}
    BY <2>1
  <2>3. p \in Points
    BY <1>3 DEF Points
  <2> QED BY <1>3, <2>1, <2>2, <2>3
<1>5. /\ d \in Seq(Slot) /\ Len(d) \in Nat /\ DOMAIN d = 1..Len(d)
      /\ ~AtEnd(t) => o.ofs \in DOMAIN d
  BY <1>1, <1>2, <1>3, DirIs
<1>6. th' = [th EXCEPT ![t] = r]
  <2>1. CASE p = "write slot"
    BY <1>3, <1>4, <2>1 DEF Moved, ThreadRec
  <2>2. CASE p = "slot"
    BY <1>3, <1>4, <2>2 DEF Moved, ThreadRec
  <2> QED BY <1>3, <2>1, <2>2
<1>7. /\ r \in ThreadRec /\ r.ofs = k /\ r.pc = p /\ r.dir = o.dir /\ r.child = o.child
      /\ r.call = o.call /\ r.names = o.names /\ r.new = o.new /\ r.ent = o.ent
  <2>1. r = Moved(o, p, k)
    BY <1>3
  <2> QED BY <1>4, <2>1, MovedFields
<1>8. o.ent = FreeSlot
  BY <1>4 DEF LocalsOK, Looking
<1>9. LocalsOK(r)
  BY <1>3, <1>4, <1>7, <1>8 DEF LocalsOK, Outside, Leading, Making, Removing, Finding, Reading, Looking
<1>10. ASSUME Safe, SafeInv
      PROVE  /\ PlaceOK(d, r)
             /\ r.pc \in Erasing /\ is_dir[r.ent.sector] => Files(r.ent.sector) = {}
  <2>1. PlaceOK(d, o)
    BY <1>2, <1>3, <1>10 DEF SafeInv, CallInv, CallOK
  <2>2. \A x : Hit(x, r) <=> Hit(x, o)
    BY <1>7 DEF Hit
  <2>3. \A j \in DOMAIN d : ~Hit(d[j], r)
    BY <1>4, <2>1, <2>2 DEF PlaceOK
  <2>4. k <= Len(d) + 1
    <3>1. CASE p = "write slot"
      BY <1>3, <2>1, <3>1 DEF PlaceOK
    <3>2. CASE p = "slot"
      <4>1. o.ofs <= Len(d)
        BY <1>3, <1>4, <1>5, <3>2, InRange
      <4> QED BY <1>3, <1>4, <1>5, <3>2, <4>1
    <3> QED BY <1>3, <3>1, <3>2
  <2>5. p = "write slot" /\ k <= Len(d) => ~d[k].in_use
    <3>1. ASSUME p = "write slot", k <= Len(d) PROVE ~d[k].in_use
      <4>1. k = o.ofs /\ (AtEnd(t) \/ ~Current(t).in_use)
        BY <1>3, <3>1
      <4>2. ~AtEnd(t)
        <5>1. k \in Nat /\ Len(d) \in Nat /\ k <= Len(d)
          BY <1>4, <1>5, <3>1
        <5>2. ~(k > Len(d))
          BY <5>1
        <5> QED BY <1>3, <4>1, <5>2 DEF AtEnd
      <4> QED BY <1>3, <4>1, <4>2 DEF Current
    <3> QED BY <3>1
  <2>6. r.pc \in {"slot", "write slot"} /\ r.ent = FreeSlot
    BY <1>3, <1>7, <1>8
  <2> QED BY <1>7, <2>3, <2>4, <2>5, <2>6 DEF PlaceOK, Erasing, Reading, Removing
<1>11. ((r.pc \in Outside) <=> (o.pc \in Outside)) /\ r.pc # "dead" /\ o.pc # "dead"
  BY <1>3, <1>4, <1>7 DEF Outside
<1> QED BY <1>1, <1>3, <1>6, <1>7, <1>9, <1>10, <1>11, LocalStep

(* A step that stops the kernel. *)
LEMMA StopKeeps ==
  ASSUME IInv, NEW t \in Process, NEW why, why # "no", Stop(why), Watch
  PROVE  IInv'
<1>1. Base /\ panic' = why /\ UNCHANGED <<disk, open_cnt, removed, fds, pwd, th, lost>>
  BY DEF IInv, Stop
<1>2. PICK r : r = th[t]
  OBVIOUS
<1>3. /\ th \in [Process -> ThreadRec] /\ r \in ThreadRec /\ LocalsOK(r)
      /\ fds \in [Process -> [Fd -> FileRec]] /\ pwd \in [Process -> Sector \cup {None}]
  BY <1>1, <1>2, CallIs
<1>4. th' = [th EXCEPT ![t] = r]
  BY <1>1, <1>2, <1>3
<1>5. /\ r.pc # "dead" => pwd[t] # None
      /\ FdsOK(fds[t])
      /\ r.pc \notin Outside /\ r.call = "open" => \E f \in Fd : fds[t][f] = NoFile
  BY <1>1, <1>2 DEF Base, LocalInv, InCall, FreeFds, Outside
<1>6. OwnOK(t, r)
  BY <1>1, <1>3, <1>4, <1>5 DEF OwnOK
<1>7. DiskOK(t)
  BY <1>1, <1>2, <1>4, NothingOK
<1>8. Base'
  BY <1>1, <1>6, <1>7, BaseStep
<1> QED BY <1>1, <1>8 DEF IInv, Safe

(* Where a call is after a step that changes no directory. *)
Arrives(r) ==
  r.pc \notin Outside =>
    /\ r.dir \in Dirs /\ r.dir \notin removed
    /\ PlaceOK(entries[r.dir], r)
    /\ r.pc \in Erasing /\ is_dir[r.ent.sector] => Files(r.ent.sector) = {}
LEMMA QuietAct ==
  ASSUME IInv, NEW t \in Process, NEW r, OwnOK(t, r), DiskOK(t), Watch, panic = "no",
         pwd'[t] = pwd[t] \/ pwd'[t] = None \/ is_dir[pwd'[t]],
         NEW G, Base' /\ Others(t) /\ th'[t] = r /\ Safe /\ SafeInv => Quiet(G),
         Safe /\ Safe' /\ SafeInv => Arrives(r)
  PROVE  IInv'
<1>1. Base
  BY DEF IInv
<1>2. Base' /\ th'[t] = r /\ Others(t)
  BY <1>1, BaseStep
<1>3. ASSUME Safe' PROVE SafeInv'
  <2>1. Safe /\ SafeInv
    BY <1>3 DEF Safe, Watch, IInv
  <2>2. Quiet(G) /\ Arrives(r)
    BY <1>2, <1>3, <2>1
  <2>3. CallOK(t)'
    <3> SUFFICES ASSUME r.pc \notin Outside
                 PROVE  /\ r.dir \in Dirs' /\ r.dir \notin removed'
                        /\ PlaceOK(entries'[r.dir], r)
                        /\ r.pc \in Erasing /\ is_dir'[r.ent.sector] => Files(th[t].ent.sector)' = {}
      BY <1>2 DEF CallOK, InCall, Outside
    <3>1. /\ r.dir \in Dirs /\ r.dir \notin removed
          /\ PlaceOK(entries[r.dir], r)
          /\ r.pc \in Erasing /\ is_dir[r.ent.sector] => Files(r.ent.sector) = {}
      BY <2>2 DEF Arrives
    <3>2. entries' = entries /\ is_dir' = is_dir /\ free_map' = free_map \ G /\ removed' \subseteq removed
      BY <2>2 DEF Quiet
    <3>3. r.dir \in Sector
      BY <1>1, <3>1, TypesAre DEF Base, Dirs
    <3>4. open_cnt'[r.dir] > 0
      BY <1>2, <3>3 DEF Base, OpenHeld
    <3>5. r.dir \notin G
      BY <2>2, <3>4 DEF Quiet
    <3>6. r.dir \in Dirs'
      BY <3>1, <3>2, <3>5 DEF Dirs
    <3>7. Files(th[t].ent.sector)' = Files(r.ent.sector)
      BY <1>2, <3>2 DEF Files
    <3> QED BY <3>1, <3>2, <3>6, <3>7
  <2>4. is_dir' = is_dir
    BY <2>2 DEF Quiet
  <2> QED BY <1>1, <1>2, <2>1, <2>2, <2>3, <2>4, QuietStep
<1> QED BY <1>2, <1>3 DEF IInv

(* A step that opens and closes inodes. *)
LEMMA InodeStep ==
  ASSUME IInv, NEW t \in Process, NEW r, OwnOK(t, r), Watch, panic = "no",
         NEW o, NEW c, Inodes(o, c, {}),
         Countable(o, c),
         is_dir' = is_dir, entries' = entries, lost' \in [Sector -> Nat],
         Balanced(t), th[t].new = None, r.new = None,
         pwd'[t] = pwd[t] \/ pwd'[t] = None \/ is_dir[pwd'[t]],
         Safe /\ SafeInv => Opened(o),
         Safe /\ Safe' /\ SafeInv => Arrives(r)
  PROVE  IInv'
<1>1. Base /\ TypeOK
  BY DEF IInv, Base
<1>2. open_cnt' \in [Sector -> Int] /\ free_map' \subseteq Sector /\ removed' \subseteq Sector
  BY <1>1, InodesAre
<1>3. DiskOK(t)
  <2>1. is_dir' \in [Sector -> BOOLEAN] /\ entries' \in [Sector -> Seq(Slot)]
    BY <1>1, TypesAre
  <2>2. EntryInv'
    BY <1>1 DEF Base, EntryInv
  <2> QED BY <1>2, <2>1, <2>2 DEF DiskOK
<1>4. ASSUME Base', Others(t), th'[t] = r, Safe, SafeInv PROVE Quiet({s \in removed : open_cnt'[s] = 0})
  <2>1. NewKept
    BY <1>4 DEF NewKept, Others
  <2> QED BY <1>1, <1>4, <2>1, InodesQuiet
<1> QED BY <1>3, <1>4, QuietAct

(* The locals after a call. *)
LEMMA RestIs ==
  ASSUME NEW n \in Nat
  PROVE  /\ Rest(n) \in ThreadRec /\ LocalsOK(Rest(n)) /\ Rest(n).pc = "user"
         /\ Rest(n).dir = None /\ Rest(n).child = None /\ Rest(n).new = None
         /\ Rest(n).pc \in Outside
<1>1. FreeSlot \in Slot
  BY DEF FreeSlot, Slot
<1>2. <<>> \in Seq(Name \cup Dots)
  OBVIOUS
<1>3. Rest(n) \in ThreadRec
  BY <1>1, <1>2 DEF Rest, ThreadRec, Points
<1>4. LocalsOK(Rest(n))
  BY DEF Rest, LocalsOK, Outside, Leading, Making, Removing, Finding, Reading, Looking
<1> QED BY <1>3, <1>4 DEF Rest, Outside

(* A call that returns, having opened o and closed c: what it held and what *)
(* it opened is closed, or lost.                                            *)
Repaid(t, o, c) ==
  \A s \in Sector : Count(o, s) + lost[s] + Bit(th[t].dir = s) + Bit(th[t].child = s)
                      = Count(c, s) + lost'[s]
LEMMA ReturnStep ==
  ASSUME IInv, NEW t \in Process, InCall(t), Watch, panic = "no", Return(t), th[t].new = None,
         NEW o, NEW c, Inodes(o, c, {}),
         Countable(o, c),
         UNCHANGED <<is_dir, entries, fds, pwd, panic>>, lost' \in [Sector -> Nat],
         Repaid(t, o, c),
         Safe /\ SafeInv => Opened(o)
  PROVE  IInv'
<1>1. Base /\ TypeOK
  BY DEF IInv, Base
<1>2. PICK n \in Nat : n = th[t].calls
  BY <1>1, CallIs
<1>3. PICK r : r = Rest(n)
  OBVIOUS
<1>4. /\ r \in ThreadRec /\ LocalsOK(r) /\ r.pc = "user" /\ r.pc \in Outside
      /\ r.dir = None /\ r.child = None /\ r.new = None
  BY <1>3, RestIs
<1>5. th' = [th EXCEPT ![t] = r]
  BY <1>2, <1>3 DEF Return
<1>6. OwnOK(t, r)
  <2>1. fds' \in [Process -> [Fd -> FileRec]] /\ pwd' \in [Process -> Sector \cup {None}]
    BY <1>1, CallIs
  <2>2. pwd'[t] # None /\ FdsOK(fds'[t])
    BY <1>1 DEF Base, LocalInv, InCall
  <2> QED BY <1>4, <1>5, <2>1, <2>2 DEF OwnOK
<1>7. Balanced(t)
  <2>1. /\ open_cnt' \in [Sector -> Int]
        /\ \A s \in Sector : open_cnt'[s] = open_cnt[s] + Count(o, s) - Count(c, s)
    BY <1>1, InodesAre
  <2>2. ASSUME NEW s \in Sector
        PROVE  open_cnt'[s] + lost[s] + Bit(th[t].dir = s) + Bit(th[t].child = s)
                 = open_cnt[s] + lost'[s] + Bit(r.dir = s) + Bit(r.child = s)
    <3>1. Bit(r.dir = s) = 0 /\ Bit(r.child = s) = 0
      BY <1>4, Sizes DEF Bit
    <3>2. PICK a, b, m, l, k, x, y \in Nat :
            /\ a = Bit(th[t].dir = s) /\ b = Bit(th[t].child = s) /\ m = open_cnt[s]
            /\ l = lost[s] /\ k = lost'[s] /\ x = Count(o, s) /\ y = Count(c, s)
      <4>1. Bit(th[t].dir = s) \in Nat /\ Bit(th[t].child = s) \in Nat
        BY DEF Bit
      <4>2. open_cnt[s] \in Nat /\ lost[s] \in Nat /\ lost'[s] \in Nat
        BY <1>1, TypesAre
      <4> QED BY <4>1, <4>2 DEF Countable
    <3>3. x + l + a + b = y + k /\ open_cnt'[s] = m + x - y
      BY <2>1, <3>2 DEF Repaid
    <3>4. (m + x - y) + l + a + b = m + k + 0 + 0
      BY <3>3
    <3> QED BY <3>1, <3>2, <3>3, <3>4
  <2>3. pwd' = pwd /\ fds' = fds
    OBVIOUS
  <2>4. Even(t, r)
    BY <2>2 DEF Even
  <2> QED BY <1>1, <1>5, <2>1, <2>3, <2>4, BalanceOf
<1>8. Arrives(r)
  BY <1>4 DEF Arrives
<1> QED BY <1>4, <1>6, <1>7, <1>8, InodeStep

(* The call fails and closes its directory. *)
LEMMA CloseReturn ==
  ASSUME IInv, NEW t \in Process, InCall(t), Watch, panic = "no", Return(t),
         th[t].new = None, th[t].child = None, Close(<<th[t].dir>>),
         UNCHANGED <<is_dir, entries, fds, pwd, panic, lost>>
  PROVE  IInv'
<1>1. Base /\ Inodes(<<>>, <<th[t].dir>>, {}) /\ lost' = lost
  BY DEF Close, IInv
<1>3. lost' \in [Sector -> Nat]
  BY <1>1, TypesAre DEF Base
<1>4. \A s \in Sector : /\ Count(<<>>, s) = 0 /\ Count(<<th[t].dir>>, s) = Bit(th[t].dir = s)
                        /\ Bit(th[t].dir = s) \in Nat /\ Bit(th[t].child = s) = 0
  <2>1. ASSUME NEW s \in Sector PROVE Bit(th[t].dir = s) \in Nat /\ Bit(th[t].child = s) = 0
    BY Sizes DEF Bit
  <2> QED BY <2>1, CountSeq
<1>5. Countable(<<>>, <<th[t].dir>>)
  BY <1>4 DEF Countable
<1>6. Repaid(t, <<>>, <<th[t].dir>>)
  <2> SUFFICES ASSUME NEW s \in Sector
               PROVE  0 + lost[s] + Bit(th[t].dir = s) + 0 = Bit(th[t].dir = s) + lost'[s]
    BY <1>4 DEF Repaid
  <2>1. PICK l, a \in Nat : l = lost[s] /\ l = lost'[s] /\ a = Bit(th[t].dir = s)
    BY <1>1, <1>3, <1>4
  <2>2. 0 + l + a + 0 = a + l
    OBVIOUS
  <2> QED BY <2>1, <2>2
<1>7. Opened(<<>>)
  BY <1>4 DEF Opened
<1>8. UNCHANGED <<is_dir, entries, fds, pwd, panic>>
  OBVIOUS
<1> QED BY <1>1, <1>3, <1>5, <1>6, <1>7, <1>8, ReturnStep

(* The call opens inode x, closes its directory and forgets x. *)
LEMMA LoseReturn ==
  ASSUME IInv, NEW t \in Process, InCall(t), Watch, panic = "no", Return(t),
         th[t].new = None, th[t].child = None, NEW x \in Sector, Inodes(<<x>>, <<th[t].dir>>, {}),
         UNCHANGED <<is_dir, entries, fds, pwd, panic>>, lost' = [lost EXCEPT ![x] = @ + 1],
         Safe /\ SafeInv => open_cnt[x] > 0 \/ x = ROOT_DIR_SECTOR \/ Named(x)
  PROVE  IInv'
<1>1. Base /\ lost \in [Sector -> Nat]
  BY TypesAre DEF IInv, Base
<1>2. /\ lost' \in [Sector -> Nat]
      /\ \A s \in Sector : lost'[s] = lost[s] + Bit(x = s) /\ lost[s] \in Nat
  BY <1>1 DEF Bit
<1>3. \A s \in Sector : /\ Count(<<x>>, s) = Bit(x = s) /\ Count(<<th[t].dir>>, s) = Bit(th[t].dir = s)
                        /\ Bit(th[t].dir = s) \in Nat /\ Bit(th[t].child = s) = 0 /\ Bit(x = s) \in Nat
  <2>1. ASSUME NEW s \in Sector
        PROVE  Bit(th[t].dir = s) \in Nat /\ Bit(th[t].child = s) = 0 /\ Bit(x = s) \in Nat
    BY Sizes DEF Bit
  <2> QED BY <2>1, CountSeq
<1>4. Countable(<<x>>, <<th[t].dir>>)
  BY <1>3 DEF Countable
<1>5. Repaid(t, <<x>>, <<th[t].dir>>)
  <2> SUFFICES ASSUME NEW s \in Sector
               PROVE  Bit(x = s) + lost[s] + Bit(th[t].dir = s) + 0 = Bit(th[t].dir = s) + lost'[s]
    BY <1>3 DEF Repaid
  <2>1. PICK l, a, b \in Nat : l = lost[s] /\ lost'[s] = l + b /\ a = Bit(th[t].dir = s) /\ b = Bit(x = s)
    BY <1>2, <1>3
  <2>2. b + l + a + 0 = a + (l + b)
    OBVIOUS
  <2> QED BY <2>1, <2>2
<1>6. Safe /\ SafeInv => Opened(<<x>>)
  <2>1. ASSUME NEW s \in Sector, Count(<<x>>, s) > 0 PROVE x = s
    BY <1>3, <2>1 DEF Bit
  <2> QED BY <2>1 DEF Opened
<1> QED BY <1>1, <1>2, <1>4, <1>5, <1>6, ReturnStep

LEMMA NotFoundKeeps ==
  ASSUME IInv, NEW t \in Process, NotFound(t)
  PROVE  IInv'
<1>1. Base /\ panic = "no" /\ th[t].pc \in Searching /\ AtEnd(t) /\ Watch
  BY DEF NotFound, IInv
<1>2. InCall(t)
  BY <1>1 DEF InCall, Searching
<1>3. PICK o, d : o = th[t] /\ d = entries[th[t].dir]
  OBVIOUS
<1>4. /\ o \in ThreadRec /\ LocalsOK(o) /\ o.ofs \in Nat \ {0} /\ th \in [Process -> ThreadRec]
      /\ o.dir \in Sector
  BY <1>1, <1>2, <1>3, CallIs
<1>5. CASE /\ th[t].pc \in {"walk", "find"}
           /\ Close(<<th[t].dir>>) /\ Return(t)
           /\ UNCHANGED <<is_dir, entries, fds, pwd, panic, lost>>
  <2>1. th[t].new = None /\ th[t].child = None
    BY <1>3, <1>4, <1>5 DEF LocalsOK, Making
  <2> QED BY <1>1, <1>2, <1>5, <2>1, CloseReturn
<1>6. CASE /\ th[t].pc = "add"
           /\ th' = [th EXCEPT ![t].pc = "slot", ![t].ofs = 1]
           /\ UNCHANGED <<disk, open_cnt, removed, fds, pwd, panic, lost>>
  <2>1. PICK r : r = Moved(o, "slot", 1)
    OBVIOUS
  <2>2. th' = [th EXCEPT ![t] = r]
    BY <1>3, <1>4, <1>6, <2>1 DEF Moved, ThreadRec
  <2>3. /\ r \in ThreadRec /\ r.ofs = 1 /\ r.pc = "slot" /\ r.dir = o.dir /\ r.child = o.child
        /\ r.call = o.call /\ r.names = o.names /\ r.new = o.new /\ r.ent = o.ent
    <3>1. "slot" \in Points /\ 1 \in Nat \ {0}
      BY DEF Points
    <3> QED BY <1>4, <2>1, <3>1, MovedFields
  <2>4. o.pc = "add"
    BY <1>3, <1>6
  <2>5. LocalsOK(r)
    BY <1>4, <2>3, <2>4 DEF LocalsOK, Outside, Leading, Making, Removing, Finding, Reading, Looking
  <2>6. ASSUME Safe, SafeInv
        PROVE  /\ PlaceOK(d, r)
               /\ r.pc \in Erasing /\ is_dir[r.ent.sector] => Files(r.ent.sector) = {}
    <3>1. PlaceOK(d, o)
      BY <1>2, <1>3, <2>6 DEF SafeInv, CallInv, CallOK
    <3>2. Len(d) \in Nat /\ DOMAIN d = 1..Len(d)
      BY <1>1, <1>2, <1>3, DirIs
    <3>3. ASSUME NEW j \in DOMAIN d PROVE ~Hit(d[j], r)
      <4>1. o.ofs > Len(d)
        BY <1>1, <1>3 DEF AtEnd
      <4>2. j \in 1 .. o.ofs - 1
        BY <1>4, <3>2, <4>1
      <4>3. ~Hit(d[j], o)
        BY <2>4, <3>1, <4>2 DEF PlaceOK
      <4> QED BY <2>3, <4>3 DEF Hit
    <3>4. 1 <= Len(d) + 1
      BY <3>2
    <3> QED BY <2>3, <3>3, <3>4 DEF PlaceOK, Erasing, Reading, Removing
  <2>7. ((r.pc \in Outside) <=> (o.pc \in Outside)) /\ r.pc # "dead" /\ o.pc # "dead"
    BY <2>3, <2>4 DEF Outside
  <2> QED BY <1>1, <1>3, <1>6, <2>2, <2>3, <2>5, <2>6, <2>7, LocalStep
<1>7. CASE Stop("null inode")
  BY <1>1, <1>7, StopKeeps
<1>8. CASE Stop("lock not held")
  BY <1>1, <1>8, StopKeeps
<1> QED BY <1>5, <1>6, <1>7, <1>8 DEF NotFound

(* What a call does next, at the first entry of a directory. *)
LEMMA StageIs ==
  ASSUME NEW call \in Calls, NEW names
  PROVE  /\ Stage(call, names) \in Points
         /\ \/ Stage(call, names) = "walk" /\ Len(names) > 1
            \/ Stage(call, names) = "allocate" /\ call \in {"create", "mkdir"}
            \/ Stage(call, names) = "check" /\ call = "remove"
            \/ Stage(call, names) = "find" /\ call \in {"open", "chdir"}
<1>1. CASE Len(names) > 1
  BY <1>1 DEF Stage, Points
<1>2. CASE ~(Len(names) > 1)
  BY <1>2 DEF Stage, Points, Calls, Mutators
<1> QED BY <1>1, <1>2

Starts(r) ==
  /\ r \in ThreadRec /\ r.call \in Calls /\ r.names # <<>> /\ r.pc = Stage(r.call, r.names)
  /\ r.dir \in Sector /\ r.ofs = 1 /\ r.ent = FreeSlot /\ r.new = None /\ r.child = None
LEMMA StartsIs ==
  ASSUME NEW r, Starts(r)
  PROVE  /\ LocalsOK(r) /\ r.pc \notin Outside /\ r.pc \notin Erasing
         /\ \A e : Len(e) \in Nat /\ (r.pc = "check" => Head(r.names) \notin Dots) => PlaceOK(e, r)
<1>1. \/ r.pc = "walk" /\ Len(r.names) > 1
      \/ r.pc = "allocate" /\ r.call \in {"create", "mkdir"}
      \/ r.pc = "check" /\ r.call = "remove"
      \/ r.pc = "find" /\ r.call \in {"open", "chdir"}
  BY StageIs DEF Starts
<1>2. r.dir # None
  BY Sizes DEF Starts
<1>3. LocalsOK(r)
  BY <1>1, <1>2 DEF Starts, LocalsOK, Outside, Leading, Making, Removing, Finding, Reading, Looking
<1>4. ASSUME NEW e, Len(e) \in Nat, r.pc = "check" => Head(r.names) \notin Dots PROVE PlaceOK(e, r)
  <2>1. r.ofs <= Len(e) + 1
    BY <1>4 DEF Starts
  <2> QED BY <1>1, <1>4, <2>1 DEF PlaceOK, Reading, Removing
<1> QED BY <1>1, <1>3, <1>4 DEF Outside, Erasing

Closes(t, c) == \A s \in Sector : Count(c, s) = Bit(th[t].dir = s)
Reachable(x) ==
  /\ x \in Dirs /\ x \notin removed
  /\ open_cnt[x] > 0 \/ x = ROOT_DIR_SECTOR \/ Named(x)
LEMMA StartStep ==
  ASSUME IInv, NEW t \in Process, NEW r, Starts(r), th' = [th EXCEPT ![t] = r],
         th[t].new = None, th[t].child = None, th[t].pc # "dead", panic = "no", Watch,
         r.call = "open" => FreeFds(t) # {},
         NEW c, Closes(t, c), Inodes(<<r.dir>>, c, {}),
         UNCHANGED <<is_dir, entries, fds, pwd, panic, lost>>,
         Safe /\ SafeInv => Reachable(r.dir)
  PROVE  IInv'
<1>1. Base /\ TypeOK
  BY DEF IInv, Base
<1>2. r \in ThreadRec /\ LocalsOK(r) /\ r.pc \notin Outside /\ r.dir \in Sector /\ r.new = None /\ r.child = None
  BY StartsIs DEF Starts
<1>3. OwnOK(t, r)
  <2>1. fds' \in [Process -> [Fd -> FileRec]] /\ pwd' \in [Process -> Sector \cup {None}]
    BY <1>1, CallIs
  <2>2. pwd'[t] # None /\ FdsOK(fds'[t])
    BY <1>1 DEF Base, LocalInv
  <2>3. r.call = "open" => \E f \in Fd : fds'[t][f] = NoFile
    BY DEF FreeFds
  <2> QED BY <1>2, <2>1, <2>2, <2>3 DEF OwnOK
<1>4. \A s \in Sector : /\ Count(<<r.dir>>, s) = Bit(r.dir = s) /\ Bit(r.dir = s) \in Nat
                        /\ Bit(th[t].dir = s) \in Nat
                        /\ Bit(th[t].child = s) = 0 /\ Bit(r.child = s) = 0
  <2>1. ASSUME NEW s \in Sector
        PROVE  /\ Bit(r.dir = s) \in Nat /\ Bit(th[t].dir = s) \in Nat
               /\ Bit(th[t].child = s) = 0 /\ Bit(r.child = s) = 0
    BY <1>2, Sizes DEF Bit
  <2> QED BY <2>1, CountSeq
<1>5. Countable(<<r.dir>>, c)
  BY <1>4 DEF Countable, Closes
<1>6. Balanced(t)
  <2>1. /\ open_cnt' \in [Sector -> Int]
        /\ \A s \in Sector : open_cnt'[s] = open_cnt[s] + Count(<<r.dir>>, s) - Count(c, s)
    BY <1>1, <1>5, InodesAre
  <2>2. Even(t, r)
    <3> SUFFICES ASSUME NEW s \in Sector
                 PROVE  open_cnt'[s] + lost[s] + Bit(th[t].dir = s) + 0
                          = open_cnt[s] + lost'[s] + Bit(r.dir = s) + 0
      BY <1>4 DEF Even
    <3>1. open_cnt[s] \in Nat /\ lost[s] \in Nat
      BY <1>1, TypesAre
    <3>2. PICK m, l, a, b \in Nat :
            /\ m = open_cnt[s] /\ l = lost[s] /\ a = Bit(th[t].dir = s) /\ b = Bit(r.dir = s)
            /\ open_cnt'[s] = m + b - a /\ lost'[s] = l
      BY <1>4, <2>1, <3>1 DEF Closes
    <3>3. (m + b - a) + l + a + 0 = m + l + b + 0
      OBVIOUS
    <3> QED BY <3>2, <3>3
  <2>3. lost' \in [Sector -> Nat]
    BY <1>1, TypesAre
  <2>4. pwd' = pwd /\ fds' = fds
    OBVIOUS
  <2> QED BY <1>1, <2>1, <2>2, <2>3, <2>4, BalanceOf
<1>7. Safe /\ SafeInv => Opened(<<r.dir>>)
  <2>1. ASSUME NEW s \in Sector, Count(<<r.dir>>, s) > 0 PROVE r.dir = s
    BY <1>4, <2>1 DEF Bit
  <2> QED BY <2>1 DEF Opened, Reachable
<1>8. ASSUME Safe, Safe', SafeInv PROVE Arrives(r)
  <2>1. Len(entries[r.dir]) \in Nat
    BY <1>1, <1>2, TypesAre
  <2>2. r.pc = "check" => Head(r.names) \notin Dots
    <3>1. ~Meet'
      BY <1>8 DEF Safe, Watch
    <3>2. th'[t] = r
      BY <1>1, TypesAre
    <3> QED BY <3>1, <3>2 DEF Meet
  <2>3. PlaceOK(entries[r.dir], r) /\ r.pc \notin Erasing
    BY <2>1, <2>2, StartsIs
  <2> QED BY <1>8, <2>3 DEF Arrives, Reachable
<1>9. lost' \in [Sector -> Nat] /\ is_dir' = is_dir /\ entries' = entries /\ pwd' = pwd
  BY <1>1, TypesAre
<1> QED BY <1>2, <1>3, <1>5, <1>6, <1>7, <1>8, <1>9, InodeStep

LEMMA BeginKeeps ==
  ASSUME IInv, NEW t \in Process, NEW call \in Calls, NEW path \in Paths, Begin(t, call, path)
  PROVE  IInv'
<1>1. PICK start : start = IF path.absolute THEN ROOT_DIR_SECTOR ELSE pwd[t]
  OBVIOUS
<1>2. /\ Base /\ panic = "no" /\ th[t].pc = "user" /\ Watch
      /\ call = "open" => FreeFds(t) # {}
      /\ UNCHANGED <<is_dir, entries, fds, pwd, panic, lost>>
      /\ \/ /\ MayEnter(start)
            /\ th' = [th EXCEPT ![t] = [Rest(@.calls + 1) EXCEPT
                        !.pc = Stage(call, path.names), !.call = call,
                        !.names = path.names, !.dir = start]]
            /\ Inodes(<<start>>, <<>>, {})
         \/ /\ ~MayEnter(start)
            /\ th' = [th EXCEPT ![t].calls = @ + 1]
            /\ UNCHANGED <<open_cnt, removed, free_map>>
  BY <1>1 DEF Begin, IInv, MayCall, Running
<1>3. PICK o, n : o = th[t] /\ n = th[t].calls + 1
  OBVIOUS
<1>4. /\ o \in ThreadRec /\ LocalsOK(o) /\ th \in [Process -> ThreadRec] /\ o.calls \in Nat /\ n \in Nat
      /\ o.pc = "user" /\ o.dir = None /\ o.child = None /\ o.new = None /\ o.ent = FreeSlot
  <2>1. o \in ThreadRec /\ LocalsOK(o) /\ th \in [Process -> ThreadRec] /\ o.calls \in Nat /\ o.pc = "user"
    BY <1>2, <1>3, CallIs
  <2>2. n \in Nat
    BY <1>3, <2>1
  <2>3. o.dir = None /\ o.child = None /\ o.new = None /\ o.ent = FreeSlot
    BY <2>1 DEF LocalsOK, Outside, Making
  <2> QED BY <2>1, <2>2, <2>3
<1>5. start \in Sector
  <2>1. pwd[t] # None /\ pwd[t] \in Sector \cup {None}
    BY <1>2, CallIs DEF Base, LocalInv
  <2> QED BY <1>1, <2>1, Sizes
<1>6. CASE /\ MayEnter(start)
           /\ th' = [th EXCEPT ![t] = [Rest(@.calls + 1) EXCEPT
                       !.pc = Stage(call, path.names), !.call = call,
                       !.names = path.names, !.dir = start]]
           /\ Inodes(<<start>>, <<>>, {})
  <2>1. PICK r : r = [Rest(n) EXCEPT !.pc = Stage(call, path.names), !.call = call,
                                     !.names = path.names, !.dir = start]
    OBVIOUS
  <2>2. th' = [th EXCEPT ![t] = r]
    BY <1>3, <1>6, <2>1
  <2>3. path.names \in Seq(Name \cup Dots) /\ path.names # <<>>
    BY FileSysAssumption DEF FileSysAssumption
  <2>4. Stage(call, path.names) \in Points
    BY StageIs
  <2>5. /\ r.pc = Stage(call, path.names) /\ r.call = call /\ r.names = path.names /\ r.dir = start
        /\ r.ofs = 1 /\ r.new = None /\ r.ent = FreeSlot /\ r.child = None /\ r.calls = n
    BY <2>1 DEF Rest
  <2>6. Starts(r)
    <3>1. r \in ThreadRec
      <4>1. Rest(n) \in ThreadRec
        BY <1>4, RestIs
      <4> QED BY <1>5, <2>1, <2>3, <2>4, <4>1 DEF ThreadRec
    <3> QED BY <1>5, <2>3, <2>5, <3>1 DEF Starts
  <2>7. Closes(t, <<>>)
    BY <1>3, <1>4, CountSeq, Sizes DEF Bit, Closes
  <2>8. ASSUME Safe, SafeInv PROVE Reachable(start)
    <3>1. start \notin removed
      BY <1>6 DEF MayEnter
    <3>2. CASE start = ROOT_DIR_SECTOR
      BY <2>8, <3>1, <3>2 DEF SafeInv, TreeInv, RootInv, Dirs, Reachable
    <3>3. CASE start = pwd[t]
      <4>1. open_cnt[start] > 0
        BY <1>2, <1>5, <3>3 DEF Base, OpenHeld
      <4>2. start \in free_map
        BY <1>5, <2>8, <4>1 DEF SafeInv, TreeInv, OpenInv
      <4>3. is_dir[start]
        BY <1>5, <2>8, <3>3, Sizes DEF SafeInv, PwdInv
      <4> QED BY <3>1, <4>1, <4>2, <4>3 DEF Dirs, Reachable
    <3> QED BY <1>1, <3>2, <3>3
  <2>9. /\ Inodes(<<r.dir>>, <<>>, {}) /\ (r.call = "open" => FreeFds(t) # {})
        /\ th[t].new = None /\ th[t].child = None /\ th[t].pc # "dead"
    BY <1>2, <1>3, <1>4, <1>6, <2>5
  <2> QED BY <1>2, <2>2, <2>5, <2>6, <2>7, <2>8, <2>9, StartStep
<1>7. CASE /\ th' = [th EXCEPT ![t].calls = @ + 1]
           /\ UNCHANGED <<open_cnt, removed, free_map>>
  <2>1. PICK r : r = [o EXCEPT !.calls = n]
    OBVIOUS
  <2>2. th' = [th EXCEPT ![t] = r]
    BY <1>3, <1>4, <1>7, <2>1 DEF ThreadRec
  <2>3. /\ r \in ThreadRec /\ r.pc = o.pc /\ r.call = o.call /\ r.names = o.names /\ r.dir = o.dir
        /\ r.ofs = o.ofs /\ r.new = o.new /\ r.ent = o.ent /\ r.child = o.child
    BY <1>4, <2>1 DEF ThreadRec
  <2>4. LocalsOK(r)
    BY <1>4, <2>3 DEF LocalsOK
  <2>5. UNCHANGED <<disk, open_cnt, removed, fds, pwd, panic, lost>>
    BY <1>2, <1>7 DEF disk
  <2>6. ((r.pc \in Outside) <=> (th[t].pc \in Outside)) /\ r.pc # "dead" /\ th[t].pc # "dead" /\ r.pc \in Outside
    BY <1>2, <1>3, <2>3 DEF Outside
  <2> QED BY <1>2, <1>3, <2>2, <2>3, <2>4, <2>5, <2>6, LocalStep
<1> QED BY <1>2, <1>6, <1>7

(* The entry a call has read. *)
LEMMA EntryIs ==
  ASSUME Base, NEW t \in Process, th[t].pc \in Reading
  PROVE  /\ InCall(t) /\ th[t].ent.sector \in Sector /\ th[t].dir \in Sector /\ th[t].new = None
         /\ Safe /\ SafeInv =>
              LET s == th[t].ent.sector IN
              /\ s \in free_map /\ s \notin removed
              /\ open_cnt[s] > 0 \/ s = ROOT_DIR_SECTOR \/ Named(s)
<1>1. InCall(t)
  BY DEF InCall, Reading
<1>2. PICK o, d : o = th[t] /\ d = th[t].dir
  OBVIOUS
<1>3. /\ LocalsOK(o) /\ o.ent \in Slot /\ d \in Sector /\ o.ofs \in Nat \ {0}
  BY <1>1, <1>2, CallIs
<1>4. o.ent.in_use /\ ~FreeSlot.in_use /\ o.new = None
  BY <1>2, <1>3 DEF LocalsOK, FreeSlot, Reading, Making
<1>5. o.ent.sector \in Sector
  <2>1. o.ent.sector # None
    BY <1>3, <1>4 DEF LocalsOK
  <2> QED BY <1>3, <2>1 DEF Slot
<1>6. ASSUME Safe, SafeInv
      PROVE  LET s == o.ent.sector IN
             /\ s \in free_map /\ s \notin removed
             /\ open_cnt[s] > 0 \/ s = ROOT_DIR_SECTOR \/ Named(s)
  <2>1. d \in Dirs /\ d \notin removed /\ PlaceOK(entries[d], o)
    BY <1>1, <1>2, <1>6 DEF SafeInv, CallInv, CallOK
  <2>2. o.ofs <= Len(entries[d]) /\ entries[d][o.ofs] = o.ent
    BY <1>2, <2>1 DEF PlaceOK
  <2>3. Len(entries[d]) \in Nat /\ DOMAIN entries[d] = 1..Len(entries[d])
    BY <1>1, <1>2, DirIs
  <2>4. o.ofs \in DOMAIN entries[d]
    BY <1>3, <2>2, <2>3, InRange
  <2>5. open_cnt[d] > 0
    BY <1>2, <1>3 DEF Base, OpenHeld
  <2>6. PICK k \in DOMAIN entries[d] : k = o.ofs
    BY <2>4
  <2>7. entries[d][k].in_use /\ entries[d][k].sector = o.ent.sector
    BY <1>4, <2>2, <2>6
  <2>8. LET s == entries[d][k].sector IN
        /\ s \in free_map /\ s \notin removed
        /\ open_cnt[s] > 0 \/ s = ROOT_DIR_SECTOR \/ Named(s)
    BY <1>6, <2>1, <2>5, <2>7, Leads
  <2> QED BY <2>7, <2>8
<1> QED BY <1>1, <1>2, <1>3, <1>4, <1>5, <1>6

Entered(o, p, s, q) == [o EXCEPT !.pc = p, !.dir = s, !.ofs = 1, !.names = q, !.ent = FreeSlot]
LEMMA EnteredFields ==
  ASSUME NEW o \in ThreadRec, NEW p \in Points, NEW s \in Sector, NEW q \in Seq(Name \cup Dots)
  PROVE  /\ Entered(o, p, s, q) \in ThreadRec
         /\ Entered(o, p, s, q).pc = p /\ Entered(o, p, s, q).call = o.call
         /\ Entered(o, p, s, q).names = q /\ Entered(o, p, s, q).dir = s
         /\ Entered(o, p, s, q).ofs = 1 /\ Entered(o, p, s, q).new = o.new
         /\ Entered(o, p, s, q).ent = FreeSlot /\ Entered(o, p, s, q).child = o.child
<1>1. FreeSlot \in Slot
  BY DEF FreeSlot, Slot
<1>2. PICK e \in Slot : e = FreeSlot
  BY <1>1
<1>3. PICK r : r = [o EXCEPT !.pc = p, !.dir = s, !.ofs = 1, !.names = q, !.ent = e]
  OBVIOUS
<1>4. r \in ThreadRec
  <2>1. r = [pc |-> p, call |-> o.call, names |-> q, dir |-> s, ofs |-> 1, new |-> o.new,
             ent |-> e, child |-> o.child, calls |-> o.calls]
    BY <1>3 DEF ThreadRec
  <2>2. /\ o.call \in Calls \cup {""} /\ o.new \in Sector \cup {None}
        /\ o.child \in Sector \cup {None} /\ o.calls \in Nat
    BY DEF ThreadRec
  <2>3. 1 \in Nat \ {0} /\ s \in Sector \cup {None}
    OBVIOUS
  <2> QED BY <2>1, <2>2, <2>3 DEF ThreadRec
<1>5. /\ r.pc = p /\ r.call = o.call /\ r.names = q /\ r.dir = s
      /\ r.ofs = 1 /\ r.new = o.new /\ r.ent = e /\ r.child = o.child
  BY <1>3 DEF ThreadRec
<1> QED BY <1>2, <1>3, <1>4, <1>5 DEF Entered

LEMMA EnterKeeps ==
  ASSUME IInv, NEW t \in Process, Enter(t)
  PROVE  IInv'
<1>1. PICK s, o, d : s = th[t].ent.sector /\ o = th[t] /\ d = th[t].dir
  OBVIOUS
<1>2. /\ Base /\ panic = "no" /\ o.pc = "enter" /\ Watch
      /\ UNCHANGED <<is_dir, entries, fds, pwd, panic>>
      /\ \/ /\ is_dir[s] /\ s \notin removed
            /\ Inodes(<<s>>, <<d>>, {})
            /\ th' = [th EXCEPT ![t].pc = Stage(th[t].call, Tail(th[t].names)),
                                ![t].dir = s, ![t].ofs = 1, ![t].names = Tail(@),
                                ![t].ent = FreeSlot]
            /\ UNCHANGED lost
         \/ /\ Close(<<d>>)
            /\ Return(t)
            /\ UNCHANGED lost
         \/ /\ Inodes(<<s>>, <<d>>, {})
            /\ Return(t)
            /\ lost' = [lost EXCEPT ![s] = @ + 1]
  BY <1>1 DEF Enter, IInv, Running
<1>3. /\ InCall(t) /\ s \in Sector /\ d \in Sector /\ o.new = None
      /\ Safe /\ SafeInv => /\ s \in free_map /\ s \notin removed
                            /\ open_cnt[s] > 0 \/ s = ROOT_DIR_SECTOR \/ Named(s)
  BY <1>1, <1>2, EntryIs DEF Reading
<1>4. /\ o \in ThreadRec /\ LocalsOK(o) /\ th \in [Process -> ThreadRec] /\ o.names \in Seq(Name \cup Dots)
  BY <1>1, <1>2, CallIs
<1>5. o.child = None /\ Len(o.names) > 1 /\ o.call \in Calls
  BY <1>2, <1>4 DEF LocalsOK, Leading, Outside
<1>6. CASE /\ is_dir[s] /\ s \notin removed
           /\ Inodes(<<s>>, <<d>>, {})
           /\ th' = [th EXCEPT ![t].pc = Stage(th[t].call, Tail(th[t].names)),
                               ![t].dir = s, ![t].ofs = 1, ![t].names = Tail(@),
                               ![t].ent = FreeSlot]
           /\ UNCHANGED lost
  <2>1. PICK q, p : q = Tail(o.names) /\ p = Stage(o.call, q)
    OBVIOUS
  <2>2. q \in Seq(Name \cup Dots) /\ q # <<>> /\ p \in Points
    <3>1. Len(o.names) # 0 /\ o.names # <<>>
      BY <1>4, <1>5
    <3>2. q \in Seq(Name \cup Dots) /\ Len(q) = Len(o.names) - 1
      BY <1>4, <2>1, <3>1
    <3>3. Len(q) # 0
      BY <1>4, <1>5, <3>2
    <3> QED BY <1>5, <2>1, <3>2, <3>3, StageIs
  <2>3. PICK r : r = Entered(o, p, s, q)
    OBVIOUS
  <2>4. th' = [th EXCEPT ![t] = r]
    BY <1>1, <1>4, <1>6, <2>1, <2>3 DEF ThreadRec, Entered
  <2>6. /\ r \in ThreadRec /\ r.pc = p /\ r.call = o.call /\ r.names = q /\ r.dir = s
        /\ r.ofs = 1 /\ r.new = o.new /\ r.ent = FreeSlot /\ r.child = o.child
    BY <1>3, <1>4, <2>2, <2>3, EnteredFields
  <2>7. Starts(r)
    BY <1>3, <1>5, <2>1, <2>2, <2>6 DEF Starts
  <2>8. Closes(t, <<d>>)
    BY <1>1, CountSeq DEF Closes
  <2>9. Safe /\ SafeInv => Reachable(s)
    BY <1>3, <1>6 DEF Reachable, Dirs
  <2>10. /\ th[t].new = None /\ th[t].child = None /\ th[t].pc # "dead"
         /\ r.call = "open" => FreeFds(t) # {}
    BY <1>1, <1>2, <1>3, <1>5, <2>6 DEF Base, LocalInv
  <2>11. UNCHANGED <<is_dir, entries, fds, pwd, panic, lost>> /\ Inodes(<<r.dir>>, <<d>>, {})
    BY <1>2, <1>6, <2>6
  <2> QED BY <1>2, <2>4, <2>6, <2>7, <2>8, <2>9, <2>10, <2>11, StartStep
<1>7. CASE Close(<<d>>) /\ Return(t) /\ UNCHANGED lost
  <2>1. Close(<<th[t].dir>>) /\ UNCHANGED <<is_dir, entries, fds, pwd, panic, lost>>
    BY <1>1, <1>2, <1>7
  <2> QED BY <1>1, <1>2, <1>3, <1>5, <1>7, <2>1, CloseReturn
<1>8. CASE Inodes(<<s>>, <<d>>, {}) /\ Return(t) /\ lost' = [lost EXCEPT ![s] = @ + 1]
  <2>1. Inodes(<<s>>, <<th[t].dir>>, {}) /\ UNCHANGED <<is_dir, entries, fds, pwd, panic>>
    BY <1>1, <1>2, <1>8
  <2> QED BY <1>1, <1>2, <1>3, <1>5, <1>8, <2>1, LoseReturn
<1> QED BY <1>2, <1>6, <1>7, <1>8

(* What is opened is held, and what is closed is not held any more. *)
Squared(t, o, c) ==
  \A s \in Sector : Count(o, s) + HoldCount(t, s) = Count(c, s) + HoldCount(t, s)'
LEMMA SquaredBalance ==
  ASSUME TypeOK, NEW t \in Process, NEW o, NEW c, Inodes(o, c, {}), Countable(o, c),
         lost' = lost, Squared(t, o, c)
  PROVE  Balanced(t)
<1> SUFFICES ASSUME NEW s \in Sector
             PROVE  /\ open_cnt[s] \in Nat /\ lost[s] \in Nat /\ open_cnt'[s] \in Int /\ lost'[s] \in Nat
                    /\ open_cnt'[s] + lost[s] + HoldCount(t, s) = open_cnt[s] + lost'[s] + HoldCount(t, s)'
  BY DEF Balanced
<1>1. open_cnt[s] \in Nat /\ lost[s] \in Nat /\ lost'[s] = lost[s]
  BY TypesAre
<1>2. open_cnt'[s] = open_cnt[s] + Count(o, s) - Count(c, s)
  BY InodesAre
<1>3. Count(o, s) \in Nat /\ Count(c, s) \in Nat
  BY DEF Countable
<1>4. HoldCount(t, s) \in Nat /\ HoldCount(t, s)' \in Nat
  BY HoldsCounted, HoldsCounted1
<1>5. PICK m, l, x, y, h, k \in Nat :
        /\ m = open_cnt[s] /\ l = lost[s] /\ x = Count(o, s) /\ y = Count(c, s)
        /\ h = HoldCount(t, s) /\ k = HoldCount(t, s)'
  BY <1>1, <1>3, <1>4
<1>6. x + h = y + k
  BY <1>5 DEF Squared
<1>7. (m + x - y) + l + h = m + l + k /\ m + x - y \in Int
  BY <1>6
<1> QED BY <1>1, <1>2, <1>5, <1>7

(* The call returns with a descriptor or a working directory that it opened. *)
LEMMA KeepReturn ==
  ASSUME IInv, NEW t \in Process, InCall(t), Watch, panic = "no", Return(t), th[t].new = None,
         NEW o, NEW c, Inodes(o, c, {}), Countable(o, c), Squared(t, o, c),
         UNCHANGED <<is_dir, entries, panic, lost>>,
         fds' \in [Process -> [Fd -> FileRec]], pwd' \in [Process -> Sector \cup {None}],
         \A u \in Process : u # t => pwd'[u] = pwd[u] /\ fds'[u] = fds[u],
         FdsOK(fds'[t]), pwd'[t] # None, pwd'[t] = pwd[t] \/ is_dir[pwd'[t]],
         Safe /\ SafeInv => Opened(o)
  PROVE  IInv'
<1>1. Base /\ TypeOK
  BY DEF IInv, Base
<1>2. PICK n \in Nat : n = th[t].calls
  BY <1>1, CallIs
<1>3. PICK r : r = Rest(n)
  OBVIOUS
<1>4. /\ r \in ThreadRec /\ LocalsOK(r) /\ r.pc = "user" /\ r.pc \in Outside
      /\ r.dir = None /\ r.child = None /\ r.new = None
  BY <1>3, RestIs
<1>5. th' = [th EXCEPT ![t] = r]
  BY <1>2, <1>3 DEF Return
<1>6. OwnOK(t, r)
  BY <1>4, <1>5 DEF OwnOK
<1>7. Balanced(t)
  BY <1>1, SquaredBalance
<1>8. Arrives(r)
  BY <1>4 DEF Arrives
<1>9. lost' \in [Sector -> Nat] /\ is_dir' = is_dir /\ entries' = entries
  BY <1>1, TypesAre
<1> QED BY <1>4, <1>6, <1>7, <1>8, <1>9, InodeStep

LEMMA LeastFd ==
  ASSUME NEW t, FreeFds(t) # {}
  PROVE  Least(FreeFds(t)) \in Fd /\ fds[t][Least(FreeFds(t))] = NoFile
<1>1. FreeFds(t) \in SUBSET Nat
  BY Sizes DEF FreeFds
<1>2. Least(FreeFds(t)) \in FreeFds(t)
  BY <1>1, LeastOf
<1> QED BY <1>2 DEF FreeFds

LEMMA OpenLeafKeeps ==
  ASSUME IInv, NEW t \in Process, OpenLeaf(t)
  PROVE  IInv'
<1>1. PICK x, o, d : x = th[t].ent.sector /\ o = th[t] /\ d = th[t].dir
  OBVIOUS
<1>2. /\ Base /\ TypeOK /\ panic = "no" /\ o.pc = "open" /\ Watch /\ Return(t)
      /\ UNCHANGED <<is_dir, entries, panic>>
      /\ \/ /\ Close(<<d>>)
            /\ UNCHANGED <<fds, pwd, lost>>
         \/ /\ x \notin removed /\ th[t].call = "open"
            /\ Inodes(<<x>>, <<d>>, {})
            /\ fds' = [fds EXCEPT ![t][Least(FreeFds(t))] = [sector |-> x, pos |-> 1]]
            /\ UNCHANGED <<pwd, lost>>
         \/ /\ x \notin removed /\ th[t].call = "chdir" /\ is_dir[x]
            /\ Inodes(<<x>>, <<d, pwd[t]>>, {})
            /\ pwd' = [pwd EXCEPT ![t] = x]
            /\ UNCHANGED <<fds, lost>>
         \/ /\ Inodes(<<x>>, <<d>>, {})
            /\ lost' = [lost EXCEPT ![x] = @ + 1]
            /\ UNCHANGED <<fds, pwd>>
  BY <1>1 DEF OpenLeaf, IInv, Base, Running
<1>3. /\ InCall(t) /\ x \in Sector /\ d \in Sector /\ o.new = None
      /\ Safe /\ SafeInv => open_cnt[x] > 0 \/ x = ROOT_DIR_SECTOR \/ Named(x)
  BY <1>1, <1>2, EntryIs DEF Reading
<1>4. /\ LocalsOK(o) /\ th \in [Process -> ThreadRec] /\ fds[t] \in [Fd -> FileRec]
      /\ fds \in [Process -> [Fd -> FileRec]] /\ pwd \in [Process -> Sector \cup {None}]
  BY <1>1, <1>2, CallIs
<1>5. /\ o.child = None /\ th[t].new = None /\ th[t].child = None /\ pwd[t] # None
      /\ FdsOK(fds[t])
  BY <1>1, <1>2, <1>3, <1>4 DEF LocalsOK, Base, LocalInv
<1>6. \A s \in Sector : /\ Count(<<x>>, s) = Bit(x = s) /\ Bit(x = s) \in Nat
                        /\ Count(<<d>>, s) = Bit(d = s) /\ Bit(d = s) \in Nat
                        /\ Count(<<d, pwd[t]>>, s) = Bit(d = s) + Bit(pwd[t] = s)
                        /\ Bit(pwd[t] = s) \in Nat /\ Bit(None = s) = 0 /\ FdCount(fds[t], s) \in Nat
  <2>1. ASSUME NEW s \in Sector
        PROVE  Bit(x = s) \in Nat /\ Bit(d = s) \in Nat /\ Bit(pwd[t] = s) \in Nat /\ Bit(None = s) = 0
    BY Sizes DEF Bit
  <2>2. ASSUME NEW s \in Sector
        PROVE  /\ Count(<<x>>, s) = Bit(x = s) /\ Count(<<d>>, s) = Bit(d = s)
               /\ Count(<<d, pwd[t]>>, s) = Bit(d = s) + Bit(pwd[t] = s)
    BY CountSeq
  <2>3. ASSUME NEW s \in Sector PROVE FdCount(fds[t], s) \in Nat
    BY RefsCount
  <2> QED BY <2>1, <2>2, <2>3
<1>7. th'[t].dir = None /\ th'[t].child = None
  <2>1. th[t].calls \in Nat /\ th'[t] = Rest(th[t].calls)
    BY <1>2, <1>4, CallIs DEF Return
  <2> QED BY <2>1, RestIs
<1>8. Safe /\ SafeInv => Opened(<<x>>)
  <2>1. ASSUME NEW s \in Sector, Count(<<x>>, s) > 0 PROVE x = s
    BY <1>6, <2>1 DEF Bit
  <2> QED BY <1>3, <2>1 DEF Opened
<1>9. CASE Close(<<d>>) /\ UNCHANGED <<fds, pwd, lost>>
  <2>1. Close(<<th[t].dir>>) /\ UNCHANGED <<is_dir, entries, fds, pwd, panic, lost>>
    BY <1>1, <1>2, <1>9
  <2> QED BY <1>2, <1>3, <1>5, <2>1, CloseReturn
<1>10. CASE /\ th[t].call = "open"
            /\ Inodes(<<x>>, <<d>>, {})
            /\ fds' = [fds EXCEPT ![t][Least(FreeFds(t))] = [sector |-> x, pos |-> 1]]
            /\ UNCHANGED <<pwd, lost>>
  <2>1. PICK f : f = Least(FreeFds(t))
    OBVIOUS
  <2>2. f \in Fd /\ fds[t][f] = NoFile
    <3>1. FreeFds(t) # {}
      BY <1>2, <1>3, <1>10 DEF Base, LocalInv
    <3> QED BY <2>1, <3>1, LeastFd
  <2>3. [sector |-> x, pos |-> 1] \in FileRec
    BY <1>3 DEF FileRec
  <2>4. PICK g : g = [fds[t] EXCEPT ![f] = [sector |-> x, pos |-> 1]]
    OBVIOUS
  <2>5. /\ g \in [Fd -> FileRec] /\ g[f].sector = x /\ \A e \in Fd : e # f => g[e] = fds[t][e]
    BY <1>4, <2>2, <2>3, <2>4
  <2>6. fds' = [fds EXCEPT ![t] = g]
    BY <1>4, <1>10, <2>1, <2>4
  <2>7. /\ fds' \in [Process -> [Fd -> FileRec]] /\ fds'[t] = g
        /\ \A u \in Process : u # t => fds'[u] = fds[u]
        /\ FdsOK(fds'[t])
    <3>1. FdsOK(g)
      BY <1>3, <1>5, <2>5, Sizes DEF FdsOK
    <3> QED BY <1>4, <2>5, <2>6, <3>1
  <2>8. Squared(t, <<x>>, <<d>>)
    <3> SUFFICES ASSUME NEW s \in Sector
                 PROVE  Bit(x = s) + HoldCount(t, s) = Bit(d = s) + HoldCount(t, s)'
      BY <1>6 DEF Squared
    <3>1. FdCount(g, s) + Bit(fds[t][f].sector = s) = FdCount(fds[t], s) + Bit(g[f].sector = s)
      BY <2>2, <2>5, FdStep
    <3>2. Bit(fds[t][f].sector = s) = 0 /\ Bit(g[f].sector = s) = Bit(x = s) /\ FdCount(g, s) \in Nat
      <4>1. fds[t][f].sector = None
        BY <2>2 DEF NoFile
      <4> QED BY <1>6, <2>5, <4>1, RefsCount
    <3>3. PICK a, b, c, m, n \in Nat :
            /\ a = Bit(x = s) /\ b = Bit(d = s) /\ c = Bit(pwd[t] = s)
            /\ m = FdCount(fds[t], s) /\ n = FdCount(g, s)
      BY <1>6, <3>2
    <3>4. HoldCount(t, s) = c + b + 0 + m /\ HoldCount(t, s)' = c + 0 + 0 + n
      <4>1. HoldCount(t, s) = Bit(pwd[t] = s) + Bit(d = s) + Bit(None = s) + FdCount(fds[t], s)
        BY <1>1, <1>5 DEF HoldCount
      <4>2. HoldCount(t, s)' = Bit(pwd[t] = s) + Bit(None = s) + Bit(None = s) + FdCount(g, s)
        BY <1>7, <1>10, <2>7 DEF HoldCount
      <4> QED BY <1>6, <3>3, <4>1, <4>2
    <3>5. n + 0 = m + a
      BY <3>1, <3>2, <3>3
    <3>6. a + (c + b + 0 + m) = b + (c + 0 + 0 + n)
      BY <3>5
    <3> QED BY <3>3, <3>4, <3>6
  <2>9. Countable(<<x>>, <<d>>)
    BY <1>6 DEF Countable
  <2>10. /\ UNCHANGED <<is_dir, entries, panic, lost>> /\ pwd' = pwd
         /\ \A u \in Process : u # t => pwd'[u] = pwd[u] /\ fds'[u] = fds[u]
    BY <1>2, <1>10, <2>7
  <2> QED BY <1>2, <1>3, <1>4, <1>5, <1>8, <1>10, <2>7, <2>8, <2>9, <2>10, KeepReturn
<1>11. CASE /\ is_dir[x]
            /\ Inodes(<<x>>, <<d, pwd[t]>>, {})
            /\ pwd' = [pwd EXCEPT ![t] = x]
            /\ UNCHANGED <<fds, lost>>
  <2>1. /\ pwd' \in [Process -> Sector \cup {None}] /\ pwd'[t] = x
        /\ \A u \in Process : u # t => pwd'[u] = pwd[u]
    BY <1>3, <1>4, <1>11
  <2>2. Squared(t, <<x>>, <<d, pwd[t]>>)
    <3> SUFFICES ASSUME NEW s \in Sector
                 PROVE  Bit(x = s) + HoldCount(t, s) = (Bit(d = s) + Bit(pwd[t] = s)) + HoldCount(t, s)'
      BY <1>6 DEF Squared
    <3>1. PICK a, b, c, m \in Nat :
            /\ a = Bit(x = s) /\ b = Bit(d = s) /\ c = Bit(pwd[t] = s) /\ m = FdCount(fds[t], s)
      BY <1>6
    <3>2. HoldCount(t, s) = c + b + 0 + m /\ HoldCount(t, s)' = a + 0 + 0 + m
      BY <1>1, <1>5, <1>6, <1>7, <1>11, <2>1, <3>1 DEF HoldCount
    <3>3. a + (c + b + 0 + m) = (b + c) + (a + 0 + 0 + m)
      OBVIOUS
    <3> QED BY <3>1, <3>2, <3>3
  <2>3. Countable(<<x>>, <<d, pwd[t]>>)
    <3> SUFFICES ASSUME NEW s \in Sector
                 PROVE  Count(<<x>>, s) \in Nat /\ Count(<<d, pwd[t]>>, s) \in Nat
      BY DEF Countable
    <3> QED BY <1>6
  <2>4. /\ UNCHANGED <<is_dir, entries, panic, lost>> /\ fds' = fds /\ pwd'[t] # None /\ FdsOK(fds'[t])
        /\ \A u \in Process : u # t => pwd'[u] = pwd[u] /\ fds'[u] = fds[u]
    BY <1>2, <1>3, <1>5, <1>11, <2>1, Sizes
  <2> QED BY <1>2, <1>3, <1>4, <1>5, <1>8, <1>11, <2>1, <2>2, <2>3, <2>4, KeepReturn
<1>12. CASE /\ Inodes(<<x>>, <<d>>, {})
            /\ lost' = [lost EXCEPT ![x] = @ + 1]
            /\ UNCHANGED <<fds, pwd>>
  <2>1. Inodes(<<x>>, <<th[t].dir>>, {}) /\ UNCHANGED <<is_dir, entries, fds, pwd, panic>>
    BY <1>1, <1>2, <1>12
  <2> QED BY <1>2, <1>3, <1>5, <1>12, <2>1, LoseReturn
<1> QED BY <1>2, <1>9, <1>10, <1>11, <1>12

(* A process outside a call that closes. *)
LEMMA CloseStep ==
  ASSUME IInv, NEW t \in Process, th[t].pc = "user", Watch, panic = "no",
         NEW r, r \in ThreadRec, LocalsOK(r), r.pc \in Outside, th' = [th EXCEPT ![t] = r],
         NEW c, Inodes(<<>>, c, {}), Countable(<<>>, c), Squared(t, <<>>, c),
         UNCHANGED <<is_dir, entries, panic, lost>>,
         fds' \in [Process -> [Fd -> FileRec]], pwd' \in [Process -> Sector \cup {None}],
         \A u \in Process : u # t => pwd'[u] = pwd[u] /\ fds'[u] = fds[u],
         FdsOK(fds'[t]), pwd'[t] = pwd[t] \/ pwd'[t] = None, r.pc # "dead" => pwd'[t] # None
  PROVE  IInv'
<1>1. Base /\ TypeOK
  BY DEF IInv, Base
<1>2. LocalsOK(th[t])
  BY <1>1, CallIs
<1>3. th[t].new = None /\ r.new = None
  BY <1>2 DEF LocalsOK, Outside, Making
<1>4. OwnOK(t, r)
  BY DEF OwnOK
<1>5. Balanced(t)
  BY <1>1, SquaredBalance
<1>6. Arrives(r)
  BY DEF Arrives
<1>7. lost' \in [Sector -> Nat] /\ is_dir' = is_dir /\ entries' = entries
  BY <1>1, TypesAre
<1>8. Opened(<<>>)
  BY CountSeq DEF Opened
<1> QED BY <1>3, <1>4, <1>5, <1>6, <1>7, <1>8, InodeStep

LEMMA NoFileIs == NoFile \in FileRec /\ NoFile.sector = None
BY DEF NoFile, FileRec

LEMMA closeKeeps ==
  ASSUME IInv, NEW t \in Process, NEW f \in Fd, close(t, f)
  PROVE  IInv'
<1>1. PICK x, r : x = fds[t][f].sector /\ r = th[t]
  OBVIOUS
<1>2. /\ Base /\ panic = "no" /\ th[t].pc = "user" /\ Watch
      /\ Inodes(<<>>, <<x>>, {})
      /\ fds' = [fds EXCEPT ![t][f] = NoFile]
      /\ UNCHANGED <<is_dir, entries, pwd, th, panic, lost>>
  BY <1>1 DEF close, IInv, Running, Close
<1>3. /\ r \in ThreadRec /\ LocalsOK(r) /\ th \in [Process -> ThreadRec] /\ fds[t] \in [Fd -> FileRec]
      /\ fds \in [Process -> [Fd -> FileRec]] /\ pwd \in [Process -> Sector \cup {None}]
  BY <1>1, <1>2, CallIs
<1>4. th' = [th EXCEPT ![t] = r] /\ r.pc = "user" /\ r.pc \in Outside
  BY <1>1, <1>2, <1>3 DEF Outside
<1>5. PICK g : g = [fds[t] EXCEPT ![f] = NoFile]
  OBVIOUS
<1>6. g \in [Fd -> FileRec] /\ g[f] = NoFile /\ \A e \in Fd : e # f => g[e] = fds[t][e]
  BY <1>3, <1>5, NoFileIs
<1>7. fds' = [fds EXCEPT ![t] = g]
  BY <1>2, <1>3, <1>5
<1>8. FdsOK(fds[t]) /\ pwd[t] # None
  BY <1>2 DEF Base, LocalInv
<1>9. FdsOK(g)
  BY <1>6, <1>8 DEF FdsOK
<1>10. /\ fds' \in [Process -> [Fd -> FileRec]] /\ fds'[t] = g /\ FdsOK(fds'[t])
       /\ \A u \in Process : u # t => fds'[u] = fds[u]
  BY <1>3, <1>6, <1>7, <1>9
<1>11. \A s \in Sector : Count(<<>>, s) = 0 /\ Count(<<x>>, s) = Bit(x = s) /\ Bit(x = s) \in Nat
  <2>1. ASSUME NEW s \in Sector PROVE Bit(x = s) \in Nat
    BY DEF Bit
  <2> QED BY <2>1, CountSeq
<1>12. Countable(<<>>, <<x>>)
  BY <1>11 DEF Countable
<1>13. Squared(t, <<>>, <<x>>)
  <2> SUFFICES ASSUME NEW s \in Sector PROVE 0 + HoldCount(t, s) = Bit(x = s) + HoldCount(t, s)'
    BY <1>11 DEF Squared
  <2>1. FdCount(g, s) + Bit(fds[t][f].sector = s) = FdCount(fds[t], s) + Bit(g[f].sector = s)
    BY <1>6, FdStep
  <2>2. Bit(g[f].sector = s) = 0
    BY <1>6, NoFileIs, Sizes DEF Bit
  <2>3. FdCount(g, s) \in Nat /\ FdCount(fds[t], s) \in Nat
    BY RefsCount
  <2>4. PICK a, m, n, k \in Nat :
          /\ a = Bit(x = s) /\ m = FdCount(fds[t], s) /\ n = FdCount(g, s)
          /\ k = Bit(pwd[t] = s) + Bit(th[t].dir = s) + Bit(th[t].child = s)
    <3>1. Bit(pwd[t] = s) + Bit(th[t].dir = s) + Bit(th[t].child = s) \in Nat
      BY DEF Bit
    <3> QED BY <1>11, <2>3, <3>1
  <2>5. HoldCount(t, s) = k + m /\ HoldCount(t, s)' = k + n
    BY <1>2, <1>10, <2>4 DEF HoldCount
  <2>6. n + a = m + 0
    BY <1>1, <2>1, <2>2, <2>4
  <2>7. 0 + (k + m) = a + (k + n)
    BY <2>6
  <2> QED BY <2>4, <2>5, <2>7
<1>14. /\ UNCHANGED <<is_dir, entries, panic, lost>> /\ pwd' = pwd
       /\ \A u \in Process : u # t => pwd'[u] = pwd[u] /\ fds'[u] = fds[u]
  BY <1>2, <1>10
<1> QED BY <1>2, <1>3, <1>4, <1>8, <1>10, <1>12, <1>13, <1>14, CloseStep

LEMMA ExitKeeps ==
  ASSUME IInv, NEW t \in Process, Exit(t)
  PROVE  IInv'
<1>1. PICK c, r, g : /\ c = Append([f \in Fd |-> fds[t][f].sector], pwd[t])
                     /\ r = Moved(th[t], "dead", th[t].ofs) /\ g = [f \in Fd |-> NoFile]
  OBVIOUS
<1>2. /\ Base /\ panic = "no" /\ th[t].pc = "user" /\ Watch
      /\ Inodes(<<>>, c, {})
      /\ fds' = [fds EXCEPT ![t] = g] /\ pwd' = [pwd EXCEPT ![t] = None]
      /\ th' = [th EXCEPT ![t].pc = "dead"]
      /\ UNCHANGED <<is_dir, entries, panic, lost>>
  BY <1>1 DEF Exit, IInv, Running, Close
<1>3. /\ th[t] \in ThreadRec /\ LocalsOK(th[t]) /\ th \in [Process -> ThreadRec]
      /\ fds \in [Process -> [Fd -> FileRec]] /\ pwd \in [Process -> Sector \cup {None}]
      /\ th[t].ofs \in Nat \ {0} /\ "dead" \in Points
  BY <1>2, CallIs DEF Points
<1>4. th' = [th EXCEPT ![t] = r]
  BY <1>1, <1>2, <1>3 DEF Moved, ThreadRec
<1>5. /\ r \in ThreadRec /\ r.pc = "dead" /\ r.dir = th[t].dir /\ r.child = th[t].child
      /\ r.call = th[t].call /\ r.names = th[t].names /\ r.new = th[t].new /\ r.ent = th[t].ent
  BY <1>1, <1>3, MovedFields
<1>6. LocalsOK(r) /\ r.pc \in Outside
  BY <1>2, <1>3, <1>5 DEF LocalsOK, Outside, Leading, Making, Removing, Finding, Reading, Looking
<1>7. g \in [Fd -> FileRec] /\ FdsOK(g) /\ \A f \in Fd : g[f].sector = None
  BY <1>1, NoFileIs DEF FdsOK
<1>8. /\ fds' \in [Process -> [Fd -> FileRec]] /\ fds'[t] = g /\ FdsOK(fds'[t])
      /\ pwd' \in [Process -> Sector \cup {None}] /\ pwd'[t] = None
      /\ \A u \in Process : u # t => pwd'[u] = pwd[u] /\ fds'[u] = fds[u]
  BY <1>2, <1>3, <1>7
<1>9. \A s \in Sector : /\ Count(<<>>, s) = 0 /\ Count(c, s) = FdCount(fds[t], s) + Bit(pwd[t] = s)
                        /\ FdCount(fds[t], s) \in Nat /\ Bit(pwd[t] = s) \in Nat
  <2> SUFFICES ASSUME NEW s \in Sector
               PROVE  /\ Count(<<>>, s) = 0 /\ Count(c, s) = FdCount(fds[t], s) + Bit(pwd[t] = s)
                      /\ FdCount(fds[t], s) \in Nat /\ Bit(pwd[t] = s) \in Nat
    OBVIOUS
  <2>1. Count(<<>>, s) = 0
    BY CountSeq
  <2>2. Count(c, s) = FdCount(fds[t], s) + Bit(pwd[t] = s)
    BY <1>1, CountAll
  <2>3. FdCount(fds[t], s) \in Nat
    BY RefsCount
  <2>4. Bit(pwd[t] = s) \in Nat
    BY DEF Bit
  <2> QED BY <2>1, <2>2, <2>3, <2>4
<1>10. Countable(<<>>, c)
  <2> SUFFICES ASSUME NEW s \in Sector PROVE Count(<<>>, s) \in Nat /\ Count(c, s) \in Nat
    BY DEF Countable
  <2> QED BY <1>9
<1>11. Squared(t, <<>>, c)
  <2> SUFFICES ASSUME NEW s \in Sector
               PROVE  0 + HoldCount(t, s) = (FdCount(fds[t], s) + Bit(pwd[t] = s)) + HoldCount(t, s)'
    BY <1>9 DEF Squared
  <2>1. FdCount(g, s) = 0
    <3>1. {f \in Fd : g[f].sector = s} = {}
      BY <1>7, Sizes
    <3> QED BY <3>1, FS_EmptySet DEF FdCount
  <2>2. th[t].dir = None /\ th[t].child = None
    BY <1>2, <1>3 DEF LocalsOK, Outside
  <2>3. Bit(None = s) = 0
    BY Sizes DEF Bit
  <2>4. PICK m, a \in Nat : m = FdCount(fds[t], s) /\ a = Bit(pwd[t] = s)
    BY <1>9
  <2>5. HoldCount(t, s) = a + 0 + 0 + m
    BY <2>2, <2>3, <2>4 DEF HoldCount
  <2>6. th'[t].dir = None /\ th'[t].child = None
    BY <1>3, <1>4, <1>5, <2>2
  <2>7. HoldCount(t, s)' = 0 + 0 + 0 + 0
    BY <1>8, <2>1, <2>3, <2>6 DEF HoldCount
  <2>8. 0 + (a + 0 + 0 + m) = (m + a) + (0 + 0 + 0 + 0)
    OBVIOUS
  <2> QED BY <2>4, <2>5, <2>7, <2>8
<1> QED BY <1>2, <1>4, <1>5, <1>6, <1>8, <1>10, <1>11, CloseStep

LEMMA readdirKeeps ==
  ASSUME IInv, NEW t \in Process, NEW f \in Fd, readdir(t, f)
  PROVE  IInv'
<1>1. PICK x, o, p, left, k :
        /\ x = fds[t][f].sector /\ o = th[t] /\ p = fds[t][f].pos
        /\ left = {j \in DOMAIN entries[x] :
                     j >= p /\ entries[x][j].in_use /\ entries[x][j].name \notin Dots}
        /\ k = IF left = {} THEN Len(entries[x]) + 1 ELSE Least(left) + 1
  OBVIOUS
<1>2. /\ Base /\ panic = "no" /\ th[t].pc = "user" /\ Watch /\ fds[t][f] # NoFile
      /\ fds' = [fds EXCEPT ![t][f].pos = k]
      /\ th' = [th EXCEPT ![t].calls = @ + 1]
      /\ UNCHANGED <<disk, open_cnt, removed, pwd, panic, lost>>
  BY <1>1 DEF readdir, IInv, MayCall, Running
<1>3. /\ o \in ThreadRec /\ LocalsOK(o) /\ th \in [Process -> ThreadRec] /\ fds[t] \in [Fd -> FileRec]
      /\ fds \in [Process -> [Fd -> FileRec]] /\ pwd \in [Process -> Sector \cup {None}]
      /\ o.calls \in Nat
  BY <1>1, <1>2, CallIs
<1>4. FdsOK(fds[t]) /\ pwd[t] # None
  BY <1>2 DEF Base, LocalInv
<1>5. x \in Sector /\ x # None /\ fds[t][f] \in FileRec
  <2>1. x # None
    BY <1>1, <1>2, <1>4 DEF FdsOK
  <2>2. x \in Sector \cup {None}
    BY <1>1, <1>3 DEF FileRec
  <2> QED BY <1>3, <2>1, <2>2
<1>6. k \in Nat
  <2>1. entries[x] \in Seq(Slot)
    BY <1>2, <1>5, TypesAre DEF Base
  <2>2. Len(entries[x]) \in Nat /\ DOMAIN entries[x] = 1..Len(entries[x])
    BY <2>1, LenProperties
  <2>3. left \in SUBSET Nat
    <3>1. left \subseteq DOMAIN entries[x]
      BY <1>1
    <3> QED BY <2>2, <3>1
  <2>4. left # {} => Least(left) \in Nat
    BY <2>3, LeastOf
  <2>5. PICK m \in Nat : m = Len(entries[x])
    BY <2>2
  <2>6. CASE left = {}
    <3>1. k = m + 1
      BY <1>1, <2>5, <2>6
    <3> QED BY <3>1
  <2>7. CASE left # {}
    <3>1. PICK n \in Nat : n = Least(left)
      BY <2>4, <2>7
    <3>2. k = n + 1
      BY <1>1, <2>7, <3>1
    <3> QED BY <3>2
  <2> QED BY <2>6, <2>7
<1>7. PICK r, i : i = o.calls + 1 /\ r = [o EXCEPT !.calls = i]
  OBVIOUS
<1>7a. i \in Nat
  BY <1>3, <1>7
<1>8. th' = [th EXCEPT ![t] = r]
  BY <1>1, <1>2, <1>3, <1>7 DEF ThreadRec
<1>9. /\ r \in ThreadRec /\ r.pc = o.pc /\ r.call = o.call /\ r.names = o.names /\ r.dir = o.dir
      /\ r.ofs = o.ofs /\ r.new = o.new /\ r.ent = o.ent /\ r.child = o.child
  <2>1. r = [o EXCEPT !.calls = i]
    BY <1>7
  <2> QED BY <1>3, <1>7a, <2>1 DEF ThreadRec
<1>10. LocalsOK(r) /\ r.pc = "user" /\ r.pc \in Outside /\ r.pc # "dead"
  <2>1. LocalsOK(r)
    BY <1>3, <1>9 DEF LocalsOK
  <2> QED BY <1>1, <1>2, <1>9, <2>1 DEF Outside
<1>11. PICK e, g : e = [fds[t][f] EXCEPT !.pos = k] /\ g = [fds[t] EXCEPT ![f] = e]
  OBVIOUS
<1>12. e \in FileRec /\ e.sector = x
  BY <1>1, <1>5, <1>6, <1>11 DEF FileRec
<1>13. g \in [Fd -> FileRec] /\ g[f].sector = x /\ \A h \in Fd : h # f => g[h] = fds[t][h]
  BY <1>3, <1>11, <1>12
<1>14. fds' = [fds EXCEPT ![t] = g]
  BY <1>2, <1>3, <1>11
<1>15. FdsOK(g)
  BY <1>4, <1>5, <1>13 DEF FdsOK
<1>16. /\ fds' \in [Process -> [Fd -> FileRec]] /\ fds'[t] = g /\ FdsOK(fds'[t])
       /\ \A u \in Process : u # t => fds'[u] = fds[u]
  BY <1>3, <1>13, <1>14, <1>15
<1>17. /\ free_map' = free_map /\ is_dir' = is_dir /\ entries' = entries /\ open_cnt' = open_cnt
       /\ removed' = removed /\ lost' = lost /\ pwd' = pwd
  BY <1>2 DEF disk
<1>18. Balanced(t)
  <2> SUFFICES ASSUME NEW s \in Sector
               PROVE  /\ open_cnt[s] \in Nat /\ lost[s] \in Nat /\ open_cnt'[s] \in Int /\ lost'[s] \in Nat
                      /\ open_cnt'[s] + lost[s] + HoldCount(t, s) = open_cnt[s] + lost'[s] + HoldCount(t, s)'
    BY DEF Balanced
  <2>1. FdCount(g, s) + Bit(fds[t][f].sector = s) = FdCount(fds[t], s) + Bit(g[f].sector = s)
    BY <1>13, FdStep
  <2>2. FdCount(g, s) \in Nat /\ FdCount(fds[t], s) \in Nat
    BY RefsCount
  <2>3. PICK m, n, a \in Nat : m = FdCount(g, s) /\ n = FdCount(fds[t], s) /\ a = Bit(x = s) /\ m + a = n + a
    <3>1. Bit(x = s) \in Nat
      BY DEF Bit
    <3> QED BY <1>1, <1>13, <2>1, <2>2, <3>1
  <2>4. m = n
    BY <2>3
  <2>5. th'[t] = r /\ r.dir = th[t].dir /\ r.child = th[t].child
    BY <1>1, <1>3, <1>8, <1>9
  <2>6. HoldCount(t, s)' = HoldCount(t, s)
    BY <1>16, <1>17, <2>3, <2>4, <2>5 DEF HoldCount
  <2>7. open_cnt[s] \in Nat /\ lost[s] \in Nat
    BY <1>2, TypesAre DEF Base
  <2> QED BY <1>17, <2>6, <2>7
<1>19. DiskOK(t)
  <2>1. EntryInv'
    BY <1>2, <1>17 DEF Base, EntryInv
  <2>2. open_cnt \in [Sector -> Nat] /\ lost \in [Sector -> Nat] /\ free_map \subseteq Sector
        /\ removed \subseteq Sector /\ is_dir \in [Sector -> BOOLEAN] /\ entries \in [Sector -> Seq(Slot)]
    BY <1>2, TypesAre DEF Base
  <2>3. open_cnt \in [Sector -> Int]
    BY <2>2
  <2> QED BY <1>17, <1>18, <2>1, <2>2, <2>3 DEF DiskOK
<1>20. OwnOK(t, r)
  BY <1>3, <1>4, <1>8, <1>9, <1>10, <1>16, <1>17 DEF OwnOK
<1>21. ASSUME Base', Others(t), th'[t] = r, Safe, SafeInv PROVE Quiet({})
  <2>1. NewKept
    BY <1>1, <1>9, <1>21 DEF NewKept, Others
  <2> QED BY <1>2, <1>21, <2>1, NothingQuiet
<1>22. Arrives(r)
  BY <1>10 DEF Arrives
<1> QED BY <1>2, <1>17, <1>19, <1>20, <1>21, <1>22, QuietAct

(* Inode x is opened, and nothing else happens to the inodes. *)
Taken(t, r, x) ==
  \A s \in Sector : Bit(x = s) + lost[s] + Bit(th[t].child = s) = lost'[s] + Bit(r.child = s)
LEMMA OpenStep ==
  ASSUME IInv, NEW t \in Process, NEW r, r \in ThreadRec, LocalsOK(r), th' = [th EXCEPT ![t] = r],
         InCall(t), r.call = th[t].call, r.pc # "dead", r.new = th[t].new, r.dir = th[t].dir,
         panic = "no", Watch,
         NEW x \in Sector, open_cnt' = [open_cnt EXCEPT ![x] = @ + 1],
         UNCHANGED <<disk, removed, fds, pwd, panic>>, lost' \in [Sector -> Nat],
         Taken(t, r, x),
         Safe /\ SafeInv => Named(x),
         Safe /\ Safe' /\ SafeInv => Arrives(r)
  PROVE  IInv'
<1>1. Base /\ TypeOK
  BY DEF IInv, Base
<1>2. /\ free_map' = free_map /\ is_dir' = is_dir /\ entries' = entries
      /\ removed' = removed /\ fds' = fds /\ pwd' = pwd
  BY DEF disk
<1>3. open_cnt \in [Sector -> Nat] /\ lost \in [Sector -> Nat] /\ free_map \subseteq Sector
      /\ removed \subseteq Sector /\ is_dir \in [Sector -> BOOLEAN] /\ entries \in [Sector -> Seq(Slot)]
  BY <1>1, TypesAre
<1>4. open_cnt' \in [Sector -> Int] /\ \A s \in Sector : open_cnt'[s] = open_cnt[s] + Bit(x = s)
  BY <1>3 DEF Bit
<1>5. Even(t, r)
  <2> SUFFICES ASSUME NEW s \in Sector
               PROVE  open_cnt'[s] + lost[s] + Bit(th[t].dir = s) + Bit(th[t].child = s)
                        = open_cnt[s] + lost'[s] + Bit(r.dir = s) + Bit(r.child = s)
    BY DEF Even
  <2>1. /\ Bit(x = s) \in Nat /\ Bit(th[t].dir = s) \in Nat /\ Bit(th[t].child = s) \in Nat
        /\ Bit(r.child = s) \in Nat
    BY DEF Bit
  <2>2. PICK a, b, c, d, l, k, m \in Nat :
          /\ a = Bit(x = s) /\ b = Bit(th[t].dir = s) /\ c = Bit(th[t].child = s) /\ d = Bit(r.child = s)
          /\ l = lost[s] /\ k = lost'[s] /\ m = open_cnt[s]
    BY <1>3, <2>1
  <2>3. a + l + c = k + d
    BY <2>2 DEF Taken
  <2>4. (m + a) + l + b + c = m + k + b + d
    BY <2>3
  <2> QED BY <1>4, <2>2, <2>4
<1>6. Balanced(t)
  BY <1>1, <1>2, <1>4, <1>5, BalanceOf
<1>7. DiskOK(t)
  <2>1. EntryInv'
    BY <1>1, <1>2 DEF Base, EntryInv
  <2> QED BY <1>2, <1>3, <1>4, <1>6, <2>1 DEF DiskOK
<1>8. OwnOK(t, r)
  <2>1. fds \in [Process -> [Fd -> FileRec]] /\ pwd \in [Process -> Sector \cup {None}]
    BY <1>1, CallIs
  <2>2. FdsOK(fds[t]) /\ pwd[t] # None /\ (r.call = "open" => FreeFds(t) # {})
    BY <1>1 DEF Base, LocalInv, InCall
  <2>3. r.call = "open" => \E f \in Fd : fds[t][f] = NoFile
    BY <2>2 DEF FreeFds
  <2> QED BY <1>2, <2>1, <2>2, <2>3 DEF OwnOK
<1>9. ASSUME Base', Others(t), th'[t] = r, Safe, SafeInv PROVE Quiet({})
  <2>1. Named(x)
    BY <1>9
  <2>2. \A s \in removed' : open_cnt'[s] > 0
    <3> SUFFICES ASSUME NEW s \in removed PROVE open_cnt'[s] > 0
      BY <1>2
    <3>1. open_cnt[s] > 0 /\ s \in Sector
      BY <1>3, <1>9 DEF SafeInv, TreeInv, RemovedInv
    <3> QED BY <1>3, <1>4, <3>1 DEF Bit
  <2>3. \A s \in Sector : open_cnt'[s] > 0 => open_cnt[s] > 0 \/ s = ROOT_DIR_SECTOR \/ Named(s)
    <3> SUFFICES ASSUME NEW s \in Sector, open_cnt'[s] > 0 PROVE open_cnt[s] > 0 \/ Named(s)
      OBVIOUS
    <3>1. CASE x = s
      BY <2>1, <3>1
    <3>2. CASE x # s
      BY <1>3, <3>2
    <3> QED BY <3>1, <3>2
  <2>4. \A u \in Process : th'[u].new = th[u].new /\ th'[u].dir = th[u].dir
    BY <1>9 DEF Others
  <2> QED BY <1>2, <2>2, <2>3, <2>4 DEF Quiet
<1> QED BY <1>2, <1>7, <1>8, <1>9, QuietAct

Taking(r, p, s) == [r EXCEPT !.pc = p, !.child = s]
LEMMA TakingFields ==
  ASSUME NEW r \in ThreadRec, NEW p \in Points, NEW s \in Sector \cup {None}
  PROVE  /\ Taking(r, p, s) \in ThreadRec /\ Taking(r, p, s).pc = p /\ Taking(r, p, s).child = s
         /\ Taking(r, p, s).dir = r.dir /\ Taking(r, p, s).ent = r.ent
         /\ Taking(r, p, s).call = r.call /\ Taking(r, p, s).names = r.names
         /\ Taking(r, p, s).new = r.new /\ Taking(r, p, s).ofs = r.ofs
BY DEF Taking, ThreadRec

LEMMA OpenVictimKeeps ==
  ASSUME IInv, NEW t \in Process, OpenVictim(t)
  PROVE  IInv'
<1>1. PICK o, s, r : o = th[t] /\ s = o.ent.sector /\ r = [o EXCEPT !.pc = "erase entry", !.child = s]
  OBVIOUS
<1>2. /\ Base /\ panic = "no" /\ o.pc = "open victim" /\ Watch
      /\ open_cnt' = [open_cnt EXCEPT ![s] = @ + 1]
      /\ th' = [th EXCEPT ![t].pc = "erase entry", ![t].child = s]
      /\ UNCHANGED <<disk, removed, fds, pwd, panic, lost>>
  BY <1>1 DEF OpenVictim, IInv, Running
<1>3. o \in ThreadRec /\ LocalsOK(o) /\ th \in [Process -> ThreadRec]
  BY <1>1, <1>2, CallIs
<1>4. InCall(t) /\ s \in Sector /\ o.new = None /\ o.child = None
  <2>1. InCall(t) /\ s \in Sector /\ o.new = None
    BY <1>1, <1>2, EntryIs DEF Reading
  <2> QED BY <1>2, <1>3, <2>1 DEF LocalsOK
<1>5. th' = [th EXCEPT ![t] = r]
  BY <1>1, <1>2, <1>3 DEF ThreadRec
<1>6. /\ r \in ThreadRec /\ r.pc = "erase entry" /\ r.call = o.call /\ r.names = o.names /\ r.dir = o.dir
      /\ r.ofs = o.ofs /\ r.new = o.new /\ r.ent = o.ent /\ r.child = s
  <2>1. "erase entry" \in Points /\ s \in Sector \cup {None}
    BY <1>4 DEF Points
  <2>2. r = Taking(o, "erase entry", s)
    BY <1>1 DEF Taking
  <2> QED BY <1>3, <2>1, <2>2, TakingFields
<1>7. LocalsOK(r)
  <2>1. LocalsOK(o) /\ o.pc = "open victim" /\ s = o.ent.sector
    BY <1>1, <1>2, <1>3
  <2> QED BY <1>6, <2>1
          DEF LocalsOK, Outside, Leading, Making, Removing, Finding, Reading, Looking
<1>8. lost \in [Sector -> Nat]
  BY <1>2, TypesAre DEF Base
<1>9. Taken(t, r, s)
  <2> SUFFICES ASSUME NEW x \in Sector
               PROVE  Bit(s = x) + lost[x] + Bit(None = x) = lost[x] + Bit(s = x)
    <3>1. lost' = lost /\ th[t].child = None /\ r.child = s
      BY <1>1, <1>2, <1>4, <1>6
    <3> QED BY <3>1 DEF Taken
  <2>1. Bit(None = x) = 0
    BY Sizes DEF Bit
  <2>2. PICK a, l \in Nat : a = Bit(s = x) /\ l = lost[x]
    BY <1>8 DEF Bit
  <2>3. a + l + 0 = l + a
    OBVIOUS
  <2> QED BY <2>1, <2>2, <2>3
<1>10. ASSUME Safe, SafeInv PROVE Named(s)
  BY <1>1, <1>2, <1>10, VictimNamed DEF Erasing
<1>11. ASSUME Safe, SafeInv PROVE Arrives(r)
  <2>1. /\ o.dir \in Dirs /\ o.dir \notin removed /\ PlaceOK(entries[o.dir], o)
        /\ is_dir[s] => Files(s) = {}
    BY <1>1, <1>2, <1>4, <1>11 DEF SafeInv, CallInv, CallOK, Erasing
  <2>2. PlaceOK(entries[o.dir], r)
    BY <1>2, <1>6, <2>1 DEF PlaceOK, Hit, Reading, Removing
  <2> QED BY <1>1, <1>6, <2>1, <2>2 DEF Arrives
<1>12. r.call = th[t].call /\ r.new = th[t].new /\ r.dir = th[t].dir /\ r.pc # "dead"
  BY <1>1, <1>6
<1>13. UNCHANGED <<disk, removed, fds, pwd, panic>> /\ lost' \in [Sector -> Nat]
  BY <1>2, <1>8
<1> QED BY <1>2, <1>4, <1>5, <1>6, <1>7, <1>9, <1>10, <1>11, <1>12, <1>13, OpenStep

(* A directory with no more than its dots. *)
LEMMA OnlyDots ==
  ASSUME TypeOK, NEW s \in Sector, DotsOK(s), dir_num_entries(s) <= 0
  PROVE  Files(s) = {}
<1> SUFFICES ASSUME NEW k \in Files(s) PROVE FALSE
  OBVIOUS
<1>1. entries[s] \in Seq(Slot)
  BY TypesAre
<1>2. Len(entries[s]) \in Nat /\ DOMAIN entries[s] = 1..Len(entries[s])
  BY <1>1, LenProperties
<1>3. PICK A : A = {j \in DOMAIN entries[s] : entries[s][j].in_use}
  OBVIOUS
<1>4. IsFiniteSet(A) /\ Cardinality(A) \in Nat
  <2>1. IsFiniteSet(1..Len(entries[s]))
    BY <1>2, FS_Interval
  <2>2. A \in SUBSET (1..Len(entries[s]))
    BY <1>2, <1>3
  <2> QED BY <2>1, <2>2, FS_Subset, FS_CardinalityType
<1>5. 1 \in A /\ 2 \in A
  BY <1>2, <1>3 DEF DotsOK
<1>6. k \in A /\ k # 1 /\ k # 2
  BY <1>3 DEF Files, DotsOK, Dots
<1>7. IsFiniteSet({1, 2, k}) /\ Cardinality({1, 2, k}) = 3
  <2>1. IsFiniteSet({1} \cup {2}) /\ Cardinality({1} \cup {2}) = 2
    <3>1. IsFiniteSet({1}) /\ Cardinality({1}) = 1
      BY FS_Singleton
    <3>2. 2 \notin {1}
      OBVIOUS
    <3> QED BY <3>1, <3>2, FS_AddElement
  <2>2. k \notin {1} \cup {2}
    BY <1>6
  <2>3. IsFiniteSet(({1} \cup {2}) \cup {k}) /\ Cardinality(({1} \cup {2}) \cup {k}) = 3
    BY <2>1, <2>2, FS_AddElement
  <2>4. ({1} \cup {2}) \cup {k} = {1, 2, k}
    OBVIOUS
  <2> QED BY <2>3, <2>4
<1>8. Cardinality({1, 2, k}) <= Cardinality(A)
  <2>1. {1, 2, k} \in SUBSET A
    BY <1>5, <1>6
  <2> QED BY <1>4, <2>1, FS_Subset
<1>9. dir_num_entries(s) = Cardinality(A) - 2
  BY <1>3 DEF dir_num_entries
<1> QED BY <1>4, <1>7, <1>8, <1>9

LEMMA CheckLeafKeeps ==
  ASSUME IInv, NEW t \in Process, CheckLeaf(t)
  PROVE  IInv'
<1>1. PICK o, s, r : o = th[t] /\ s = o.ent.sector /\ r = Moved(o, "erase", 1)
  OBVIOUS
<1>2. Base /\ panic = "no" /\ o.pc = "check leaf" /\ Watch
  BY <1>1 DEF CheckLeaf, IInv, Running
<1>3. o \in ThreadRec /\ LocalsOK(o) /\ th \in [Process -> ThreadRec]
  BY <1>1, <1>2, CallIs
<1>4. InCall(t) /\ s \in Sector /\ o.new = None /\ o.child = None
  <2>1. InCall(t) /\ s \in Sector /\ o.new = None
    BY <1>1, <1>2, EntryIs DEF Reading
  <2> QED BY <1>2, <1>3, <2>1 DEF LocalsOK
<1>5. /\ r \in ThreadRec /\ r.pc = "erase" /\ r.call = o.call /\ r.names = o.names /\ r.dir = o.dir
      /\ r.ofs = 1 /\ r.new = o.new /\ r.ent = o.ent /\ r.child = o.child
  <2>1. "erase" \in Points /\ 1 \in Nat \ {0}
    BY DEF Points
  <2> QED BY <1>1, <1>3, <2>1, MovedFields
<1>6. LocalsOK(r)
  BY <1>1, <1>2, <1>3, <1>5 DEF LocalsOK, Outside, Leading, Making, Removing, Finding, Reading, Looking
<1>7. ASSUME Safe, SafeInv
      PROVE  /\ o.dir \in Dirs /\ o.dir \notin removed /\ PlaceOK(entries[o.dir], r)
             /\ Named(s) /\ s \in free_map
  <2>1. o.dir \in Dirs /\ o.dir \notin removed /\ PlaceOK(entries[o.dir], o)
    BY <1>1, <1>4, <1>7 DEF SafeInv, CallInv, CallOK
  <2>2. Named(s) /\ s \in free_map
    BY <1>1, <1>2, <1>7, VictimNamed
  <2>3. Len(entries[o.dir]) \in Nat /\ DOMAIN entries[o.dir] = 1..Len(entries[o.dir])
    BY <1>1, <1>2, <1>4, DirIs
  <2>4. o.ofs \in Nat \ {0}
    BY <1>1, <1>2, CallIs
  <2>5. /\ o.ofs <= Len(entries[o.dir]) /\ entries[o.dir][o.ofs] = o.ent /\ Hit(o.ent, o)
        /\ Head(o.names) \notin Dots
    BY <1>2, <2>1 DEF PlaceOK, Reading, Removing
  <2>6. o.ofs \in DOMAIN entries[o.dir]
    BY <2>3, <2>4, <2>5, InRange
  <2>7. Hit(r.ent, r) /\ \E k \in DOMAIN entries[o.dir] : entries[o.dir][k] = r.ent
    BY <1>5, <2>5, <2>6 DEF Hit
  <2>8. PlaceOK(entries[o.dir], r)
    BY <1>5, <2>3, <2>5, <2>7 DEF PlaceOK, Reading, Removing
  <2> QED BY <2>1, <2>2, <2>8
<1>8. CASE is_dir[s] /\ s \in removed /\ Stop("null directory")
  BY <1>2, <1>8, StopKeeps
<1>9. CASE /\ is_dir[s] /\ s \notin removed /\ Close(<<o.dir>>) /\ Return(t)
           /\ UNCHANGED <<is_dir, entries, fds, pwd, panic, lost>>
  BY <1>1, <1>2, <1>4, <1>9, CloseReturn
<1>10. CASE /\ is_dir[s] /\ s \notin removed /\ dir_num_entries(s) <= 0
            /\ th' = [th EXCEPT ![t].pc = "erase", ![t].ofs = 1]
            /\ UNCHANGED <<disk, open_cnt, removed, fds, pwd, panic, lost>>
  <2>1. th' = [th EXCEPT ![t] = r]
    BY <1>1, <1>3, <1>10 DEF Moved, ThreadRec
  <2>2. ASSUME Safe, SafeInv PROVE PlaceOK(entries[o.dir], r) /\ Files(r.ent.sector) = {}
    <3>1. PlaceOK(entries[o.dir], r) /\ s \in free_map
      BY <1>7, <2>2
    <3>2. DotsOK(s)
      BY <1>10, <2>2, <3>1 DEF SafeInv, TreeInv, DirInv, Dirs
    <3>3. Files(s) = {}
      BY <1>2, <1>4, <1>10, <3>2, OnlyDots DEF Base
    <3> QED BY <1>1, <1>5, <3>1, <3>3
  <2>3. /\ r.dir = th[t].dir /\ r.child = th[t].child /\ r.call = th[t].call /\ r.new = th[t].new
        /\ (r.pc \in Outside) <=> (th[t].pc \in Outside)
        /\ r.pc # "dead" /\ th[t].pc # "dead"
    BY <1>1, <1>2, <1>5 DEF Outside
  <2>4. Safe /\ SafeInv /\ Safe' /\ r.pc \notin Outside =>
           /\ PlaceOK(entries[th[t].dir], r)
           /\ r.pc \in Erasing /\ is_dir[r.ent.sector] => Files(r.ent.sector) = {}
    BY <1>1, <2>2
  <2>5. UNCHANGED <<disk, open_cnt, removed, fds, pwd, panic, lost>>
    BY <1>10
  <2> QED BY <1>2, <1>5, <1>6, <2>1, <2>3, <2>4, <2>5, LocalStep
<1>11. CASE /\ ~is_dir[s]
            /\ open_cnt' = [open_cnt EXCEPT ![s] = @ + 1]
            /\ lost' = [lost EXCEPT ![s] = @ + 1]
            /\ th' = [th EXCEPT ![t].pc = "erase", ![t].ofs = 1]
            /\ UNCHANGED <<disk, removed, fds, pwd, panic>>
  <2>1. th' = [th EXCEPT ![t] = r]
    BY <1>1, <1>3, <1>11 DEF Moved, ThreadRec
  <2>2. lost \in [Sector -> Nat]
    BY <1>2, TypesAre DEF Base
  <2>3. lost' \in [Sector -> Nat] /\ \A x \in Sector : lost'[x] = lost[x] + Bit(s = x)
    BY <1>4, <1>11, <2>2 DEF Bit
  <2>4. Taken(t, r, s)
    <3> SUFFICES ASSUME NEW x \in Sector
                 PROVE  Bit(s = x) + lost[x] + Bit(None = x) = lost'[x] + Bit(None = x)
      BY <1>1, <1>4, <1>5 DEF Taken
    <3>1. Bit(None = x) = 0
      BY Sizes DEF Bit
    <3>2. PICK a, l \in Nat : a = Bit(s = x) /\ l = lost[x]
      BY <2>2 DEF Bit
    <3>3. a + l + 0 = (l + a) + 0
      OBVIOUS
    <3> QED BY <2>3, <3>1, <3>2, <3>3
  <2>5. ASSUME Safe, SafeInv PROVE Named(s) /\ Arrives(r)
    BY <1>1, <1>5, <1>7, <1>11, <2>5 DEF Arrives
  <2>6. r.call = th[t].call /\ r.new = th[t].new /\ r.dir = th[t].dir /\ r.pc # "dead"
    BY <1>1, <1>5
  <2>7. UNCHANGED <<disk, removed, fds, pwd, panic>> /\ open_cnt' = [open_cnt EXCEPT ![s] = @ + 1]
    BY <1>11
  <2> QED BY <1>2, <1>4, <1>5, <1>6, <2>1, <2>3, <2>4, <2>5, <2>6, <2>7, OpenStep
<1> QED BY <1>1, <1>8, <1>9, <1>10, <1>11 DEF CheckLeaf

(* A directory as dir_create leaves it. *)
LEMMA NewDirIs ==
  ASSUME NEW s \in Sector, NEW p \in Sector
  PROVE  /\ NewDir(s, p) \in Seq(Slot) /\ Len(NewDir(s, p)) >= 2
         /\ DOMAIN NewDir(s, p) = 1..Len(NewDir(s, p)) /\ Len(NewDir(s, p)) \in Nat
         /\ NewDir(s, p)[1] = [name |-> ".", sector |-> s, in_use |-> TRUE]
         /\ NewDir(s, p)[2] = [name |-> "..", sector |-> p, in_use |-> TRUE]
         /\ \A k \in DOMAIN NewDir(s, p) : k \in {1, 2} \/ NewDir(s, p)[k] = FreeSlot
<1>1. PICK q : q = NewDir(s, p)
  OBVIOUS
<1>2. INITIAL_DIR_SIZE \in Nat /\ INITIAL_DIR_SIZE >= 2
  BY Sizes
<1>3. PICK a, b : /\ a = [name |-> ".", sector |-> s, in_use |-> TRUE]
                  /\ b = [name |-> "..", sector |-> p, in_use |-> TRUE]
  OBVIOUS
<1>4. a \in Slot /\ b \in Slot /\ FreeSlot \in Slot
  BY <1>3 DEF Slot, Dots, FreeSlot
<1>5. q = [k \in 1..INITIAL_DIR_SIZE |-> CASE k = 1 -> a [] k = 2 -> b [] OTHER -> FreeSlot]
  BY <1>1, <1>3 DEF NewDir
<1>6. \A k \in 1..INITIAL_DIR_SIZE : q[k] = IF k = 1 THEN a ELSE IF k = 2 THEN b ELSE FreeSlot
  BY <1>5
<1>7. q \in [1..INITIAL_DIR_SIZE -> Slot]
  BY <1>4, <1>5, <1>6
<1>8. q \in Seq(Slot)
  BY <1>2, <1>7
<1>9. DOMAIN q = 1..Len(q) /\ Len(q) \in Nat
  BY <1>8, LenProperties
<1>10. Len(q) = INITIAL_DIR_SIZE
  BY <1>2, <1>7, <1>9
<1>11. 1 \in 1..INITIAL_DIR_SIZE /\ 2 \in 1..INITIAL_DIR_SIZE
  BY <1>2
<1>12. q[1] = a /\ q[2] = b
  BY <1>6, <1>11
<1>13. \A k \in DOMAIN q : k \in {1, 2} \/ q[k] = FreeSlot
  BY <1>6, <1>9, <1>10
<1>14. Len(q) >= 2
  BY <1>2, <1>10
<1> QED BY <1>1, <1>3, <1>8, <1>9, <1>12, <1>13, <1>14

(* A sector that is free. *)
LEMMA FreeSector ==
  ASSUME Base, SafeInv, NEW s \in Sector \ free_map
  PROVE  /\ open_cnt[s] = 0 /\ s \notin removed /\ s # ROOT_DIR_SECTOR /\ ~Named(s)
         /\ \A u \in Process : th[u].new # s /\ (InCall(u) => th[u].dir # s)
<1>1. s # ROOT_DIR_SECTOR
  BY DEF SafeInv, TreeInv, RootInv
<1>2. open_cnt[s] = 0
  <2>1. open_cnt[s] \in Nat
    BY TypesAre DEF Base
  <2>2. ~(open_cnt[s] > 0)
    BY DEF SafeInv, TreeInv, OpenInv
  <2> QED BY <2>1, <2>2
<1>3. s \notin removed
  BY DEF SafeInv, TreeInv, RemovedInv
<1>4. ~Named(s)
  BY DEF SafeInv, TreeInv, NameInv, Named
<1>5. ASSUME NEW u \in Process PROVE th[u].new # s
  <2>1. NewOK(u) /\ s # None
    BY Sizes DEF SafeInv, TreeInv, NewInv
  <2> QED BY <2>1 DEF NewOK
<1>6. ASSUME NEW u \in Process, InCall(u) PROVE th[u].dir # s
  BY <1>6 DEF SafeInv, CallInv, CallOK, Dirs
<1> QED BY <1>1, <1>2, <1>3, <1>4, <1>5, <1>6

(* Sector s comes into use, for an inode that process t creates in directory d. *)
Fresh(t, s, d) ==
  /\ s \in Sector \ free_map /\ free_map' = free_map \cup {s}
  /\ \A x \in free_map : is_dir'[x] = is_dir[x] /\ entries'[x] = entries[x]
  /\ open_cnt' = open_cnt /\ removed' = removed
  /\ Files(s)' = {}
  /\ is_dir'[s] => DotsOK(s)' /\ entries'[s][2].sector = d
  /\ th[t].new = None /\ th'[t].new = s /\ th'[t].dir = d
  /\ \A u \in Process : u # t => th'[u] = th[u]
LEMMA FreshTree ==
  ASSUME Base, Base', SafeInv, NEW t \in Process, NEW s, NEW d, Fresh(t, s, d)
  PROVE  TreeInv'
<1>1. /\ s \in Sector /\ s \notin free_map /\ open_cnt[s] = 0 /\ s \notin removed
      /\ s # ROOT_DIR_SECTOR /\ ~Named(s) /\ s # None
      /\ \A u \in Process : th[u].new # s
  BY FreeSector, Sizes DEF Fresh
<1>2. /\ free_map' = free_map \cup {s} /\ open_cnt' = open_cnt /\ removed' = removed
      /\ \A x \in free_map : is_dir'[x] = is_dir[x] /\ entries'[x] = entries[x]
      /\ Files(s)' = {} /\ (is_dir'[s] => DotsOK(s)' /\ entries'[s][2].sector = d)
      /\ th[t].new = None /\ th'[t].new = s /\ th'[t].dir = d
      /\ \A u \in Process : u # t => th'[u] = th[u]
  BY DEF Fresh
<1>3. \A x \in free_map : Files(x)' = Files(x)
  BY <1>2 DEF Files
<1>4. \A x \in Dirs' : (x \in Dirs /\ x # s) \/ (x = s /\ is_dir'[s])
  BY <1>1, <1>2 DEF Dirs
<1>4a. \A x \in Dirs : x \in Dirs' /\ x \in free_map /\ x # s
  BY <1>1, <1>2 DEF Dirs
<1>5. \A x \in Dirs' : \A k \in Files(x)' :
        x \in Dirs /\ x # s /\ k \in Files(x) /\ entries'[x] = entries[x]
  BY <1>2, <1>3, <1>4, <1>4a
<1>6. \A x : Named(x)' <=> Named(x)
  <2>1. ASSUME NEW x, Named(x)' PROVE Named(x)
    <3>1. PICK c \in Dirs' : \E k \in Files(c)' : entries'[c][k].sector = x
      BY <2>1 DEF Named
    <3>2. PICK k \in Files(c)' : entries'[c][k].sector = x
      BY <3>1
    <3>3. c \in Dirs /\ k \in Files(c) /\ entries'[c] = entries[c]
      BY <1>5
    <3> QED BY <3>2, <3>3 DEF Named
  <2>2. ASSUME NEW x, Named(x) PROVE Named(x)'
    <3>1. PICK c \in Dirs : \E k \in Files(c) : entries[c][k].sector = x
      BY <2>2 DEF Named
    <3>2. c \in Dirs' /\ Files(c)' = Files(c) /\ entries'[c] = entries[c]
      BY <1>2, <1>3, <1>4a
    <3> QED BY <3>1, <3>2 DEF Named
  <2> QED BY <2>1, <2>2
<1>7. RootInv'
  <2>1. RootInv
    BY DEF SafeInv, TreeInv
  <2> QED BY <1>2, <2>1 DEF RootInv
<1>8. DirInv'
  <2> SUFFICES ASSUME NEW x \in Dirs' PROVE DotsOK(x)' /\ UniqueNames(x)'
    BY DEF DirInv
  <2>1. CASE x = s /\ is_dir'[s]
    BY <1>2, <2>1 DEF UniqueNames
  <2>2. CASE x \in Dirs /\ x # s
    <3>1. DotsOK(x) /\ UniqueNames(x)
      BY <2>2 DEF SafeInv, TreeInv, DirInv
    <3>2. entries'[x] = entries[x] /\ Files(x)' = Files(x)
      BY <1>2, <1>3, <1>4a, <2>2
    <3> QED BY <3>1, <3>2 DEF DotsOK, UniqueNames
  <2> QED BY <1>4, <2>1, <2>2
<1>9. NameInv'
  <2> SUFFICES ASSUME NEW c \in Dirs', NEW k \in Files(c)', NEW x, x = entries'[c][k].sector
               PROVE  /\ x \in free_map' /\ x # ROOT_DIR_SECTOR /\ x \notin removed'
                      /\ \A u \in Process : th'[u].new # x
                      /\ is_dir'[x] => entries'[x][2].sector = c
                      /\ \A e \in Dirs' : \A j \in Files(e)' : entries'[e][j].sector = x => e = c /\ j = k
    BY DEF NameInv
  <2>1. c \in Dirs /\ k \in Files(c) /\ entries'[c] = entries[c] /\ x = entries[c][k].sector
    BY <1>5
  <2>2. /\ x \in free_map /\ x # ROOT_DIR_SECTOR /\ x \notin removed
        /\ \A u \in Process : th[u].new # x
        /\ is_dir[x] => entries[x][2].sector = c
        /\ \A e \in Dirs : \A j \in Files(e) : entries[e][j].sector = x => e = c /\ j = k
    BY <2>1 DEF SafeInv, TreeInv, NameInv
  <2>3. \A u \in Process : th'[u].new # x
    BY <1>1, <1>2, <2>2
  <2>4. \A e \in Dirs' : \A j \in Files(e)' : entries'[e][j].sector = x => e = c /\ j = k
    BY <1>5, <2>2
  <2>5. is_dir'[x] = is_dir[x] /\ entries'[x] = entries[x] /\ x \in free_map'
    BY <1>2, <2>2
  <2> QED BY <1>2, <2>2, <2>3, <2>4, <2>5
<1>10. RemovedInv'
  <2> SUFFICES ASSUME NEW x \in removed
               PROVE  /\ open_cnt'[x] > 0 /\ x \in free_map' /\ x # ROOT_DIR_SECTOR
                      /\ is_dir'[x] => Files(x)' = {}
    BY <1>2 DEF RemovedInv
  <2>1. open_cnt[x] > 0 /\ x \in free_map /\ x # ROOT_DIR_SECTOR /\ (is_dir[x] => Files(x) = {})
    BY DEF SafeInv, TreeInv, RemovedInv
  <2>2. is_dir'[x] = is_dir[x] /\ Files(x)' = Files(x) /\ x \in free_map'
    BY <1>2, <1>3, <2>1
  <2> QED BY <1>2, <2>1, <2>2
<1>11. OpenInv'
  <2> SUFFICES ASSUME NEW x \in Sector, open_cnt'[x] > 0
               PROVE  x \in free_map' /\ (x \in removed' \/ x = ROOT_DIR_SECTOR \/ Named(x)')
    BY DEF OpenInv
  <2>1. x \in free_map /\ (x \in removed \/ x = ROOT_DIR_SECTOR \/ Named(x))
    BY <1>2 DEF SafeInv, TreeInv, OpenInv
  <2> QED BY <1>2, <1>6, <2>1
<1>12. UsedInv'
  <2> SUFFICES ASSUME NEW x \in free_map'
               PROVE  x = ROOT_DIR_SECTOR \/ open_cnt'[x] > 0 \/ Named(x)' \/ \E u \in Process : th'[u].new = x
    BY DEF UsedInv
  <2>1. CASE x = s
    BY <1>2, <2>1
  <2>2. CASE x # s
    <3>1. x \in free_map /\ x # None
      BY <1>2, <2>2, TypesAre, Sizes DEF Base
    <3>2. x = ROOT_DIR_SECTOR \/ open_cnt[x] > 0 \/ Named(x) \/ \E u \in Process : th[u].new = x
      BY <3>1 DEF SafeInv, TreeInv, UsedInv
    <3>3. \A u \in Process : th[u].new = x => th'[u].new = x
      BY <1>2, <3>1
    <3> QED BY <1>2, <1>6, <3>2, <3>3
  <2> QED BY <2>1, <2>2
<1>13. NewInv'
  <2> SUFFICES ASSUME NEW u \in Process PROVE NewOK(u)'
    BY DEF NewInv
  <2>1. CASE u = t
    <3>1. th'[u].new = s /\ th'[u].dir = d /\ s \in free_map' /\ open_cnt'[s] = 0
      BY <1>1, <1>2, <2>1
    <3>2. \A w \in Process : th'[w].new = s => w = t
      BY <1>1, <1>2
    <3> QED BY <1>1, <1>2, <2>1, <3>1, <3>2 DEF NewOK
  <2>2. CASE u # t /\ th[u].new # None
    <3>1. PICK x : x = th[u].new
      OBVIOUS
    <3>2. /\ x \in free_map /\ x # ROOT_DIR_SECTOR /\ open_cnt[x] = 0
          /\ is_dir[x] => entries[x][2].sector = th[u].dir /\ Files(x) = {}
          /\ \A w \in Process : th[w].new = x => w = u
      BY <2>2, <3>1 DEF SafeInv, TreeInv, NewInv, NewOK
    <3>3. th'[u] = th[u] /\ th'[u].new = x /\ x # s
      BY <1>1, <1>2, <2>2, <3>1
    <3>4. is_dir'[x] = is_dir[x] /\ entries'[x] = entries[x] /\ Files(x)' = Files(x) /\ x \in free_map'
      BY <1>2, <1>3, <3>2
    <3>5. \A w \in Process : th'[w].new = x => w = u
      BY <1>2, <3>2, <3>3
    <3> QED BY <1>2, <3>2, <3>3, <3>4, <3>5 DEF NewOK
  <2>3. CASE u # t /\ th[u].new = None
    BY <1>2, <2>3 DEF NewOK
  <2> QED BY <2>1, <2>2, <2>3
<1> QED BY <1>7, <1>8, <1>9, <1>10, <1>11, <1>12, <1>13 DEF TreeInv

LEMMA AllocateKeeps ==
  ASSUME IInv, NEW t \in Process, Allocate(t)
  PROVE  IInv'
<1>1. PICK o, s, d, dir, r, new :
        /\ o = th[t] /\ s = FirstFree /\ d = o.dir /\ dir = (o.call = "mkdir")
        /\ r = [o EXCEPT !.pc = "add", !.new = s, !.ofs = 1]
        /\ new = IF dir THEN NewDir(s, d) ELSE <<>>
  OBVIOUS
<1>2. Base /\ panic = "no" /\ o.pc = "allocate" /\ Watch
  BY <1>1 DEF Allocate, IInv, Running
<1>3. /\ o \in ThreadRec /\ LocalsOK(o) /\ th \in [Process -> ThreadRec]
      /\ fds \in [Process -> [Fd -> FileRec]] /\ pwd \in [Process -> Sector \cup {None}]
  BY <1>1, <1>2, CallIs
<1>4. InCall(t) /\ d \in Sector /\ o.new = None /\ o.child = None /\ o.ent = FreeSlot
      /\ o.call \in {"create", "mkdir"}
  <2>1. InCall(t)
    BY <1>1, <1>2 DEF InCall
  <2>2. d \in Sector
    BY <1>1, <1>2, <2>1, CallIs
  <2> QED BY <1>2, <1>3, <2>1, <2>2 DEF LocalsOK, Making, Looking
<1>5. CASE free_map = Sector /\ Stop("no sector for the inode")
  BY <1>2, <1>5, StopKeeps
<1>6. CASE /\ free_map # Sector
           /\ free_map' = free_map \cup {s}
           /\ is_dir' = [is_dir EXCEPT ![s] = dir]
           /\ entries' = [entries EXCEPT ![s] = new]
           /\ th' = [th EXCEPT ![t].pc = "add", ![t].new = s, ![t].ofs = 1]
           /\ UNCHANGED <<open_cnt, removed, fds, pwd, panic, lost>>
  <2>1. /\ free_map \subseteq Sector /\ removed \subseteq Sector /\ is_dir \in [Sector -> BOOLEAN]
        /\ entries \in [Sector -> Seq(Slot)] /\ open_cnt \in [Sector -> Nat] /\ lost \in [Sector -> Nat]
    BY <1>2, TypesAre DEF Base
  <2>2. s \in Sector /\ s \notin free_map /\ s # None
    <3>1. PICK S : S = Sector \ free_map
      OBVIOUS
    <3>2. S \in SUBSET Nat /\ S # {}
      BY <1>6, <2>1, <3>1, Sizes
    <3>3. Least(S) \in S
      BY <3>2, LeastOf
    <3> QED BY <1>1, <3>1, <3>3, Sizes DEF FirstFree
  <2>3. /\ open_cnt' = open_cnt /\ removed' = removed /\ fds' = fds /\ pwd' = pwd
        /\ panic' = panic /\ lost' = lost
    BY <1>6
  <2>4. th' = [th EXCEPT ![t] = r]
    BY <1>1, <1>3, <1>6 DEF ThreadRec
  <2>5. /\ r \in ThreadRec /\ r.pc = "add" /\ r.call = o.call /\ r.names = o.names /\ r.dir = d
        /\ r.ofs = 1 /\ r.new = s /\ r.ent = FreeSlot /\ r.child = None
    <3>1. "add" \in Points /\ s \in Sector \cup {None} /\ 1 \in Nat \ {0}
      BY <2>2 DEF Points
    <3> QED BY <1>1, <1>3, <1>4, <3>1 DEF ThreadRec
  <2>6. LocalsOK(r)
    BY <1>1, <1>2, <1>3, <1>4, <2>2, <2>5
       DEF LocalsOK, Outside, Leading, Making, Removing, Finding, Reading, Looking
  <2>7. OwnOK(t, r)
    <3>1. FdsOK(fds[t]) /\ pwd[t] # None
      BY <1>1, <1>2 DEF Base, LocalInv
    <3>2. r.call # "open"
      BY <1>4, <2>5
    <3> QED BY <1>3, <2>3, <2>4, <2>5, <2>6, <3>1, <3>2 DEF OwnOK
  <2>8a. dir \in BOOLEAN
    BY <1>1, Zenon
  <2>8. /\ new \in Seq(Slot)
        /\ \A k \in DOMAIN new : new[k].in_use => new[k].sector # None
        /\ \A k \in DOMAIN new : new[k].in_use => new[k].name \in Dots
    <3>1. CASE dir
      <4>1. new = NewDir(s, d)
        BY <1>1, <3>1
      <4>2. /\ new \in Seq(Slot)
            /\ new[1] = [name |-> ".", sector |-> s, in_use |-> TRUE]
            /\ new[2] = [name |-> "..", sector |-> d, in_use |-> TRUE]
            /\ \A k \in DOMAIN new : k \in {1, 2} \/ new[k] = FreeSlot
        BY <1>4, <2>2, <4>1, NewDirIs
      <4>3. d # None
        BY <1>4, Sizes
      <4>4. ~FreeSlot.in_use /\ "." \in Dots /\ ".." \in Dots
        BY DEF FreeSlot, Dots
      <4>5. /\ new[1].sector = s /\ new[2].sector = d /\ new[1].name = "." /\ new[2].name = ".."
        BY <4>2
      <4>6. \A k \in DOMAIN new : new[k].in_use => k = 1 \/ k = 2
        BY <4>2, <4>4
      <4> QED BY <2>2, <4>2, <4>3, <4>4, <4>5, <4>6
    <3>2. CASE ~dir
      <4>1. new = <<>>
        BY <1>1, <3>2
      <4>2. DOMAIN new = {} /\ new \in Seq(Slot)
        BY <4>1
      <4> QED BY <4>2
    <3> QED BY <3>1, <3>2
  <2>9. /\ is_dir' \in [Sector -> BOOLEAN] /\ entries' \in [Sector -> Seq(Slot)]
        /\ entries'[s] = new /\ is_dir'[s] = dir
        /\ \A x \in Sector : x # s => entries'[x] = entries[x] /\ is_dir'[x] = is_dir[x]
    BY <1>6, <2>1, <2>2, <2>8, <2>8a
  <2>10. DiskOK(t)
    <3>1. EntryInv'
      <4> SUFFICES ASSUME NEW x \in Sector, NEW k \in DOMAIN entries'[x], entries'[x][k].in_use
                   PROVE  entries'[x][k].sector # None
        BY DEF EntryInv
      <4>1. CASE x = s
        BY <2>8, <2>9, <4>1
      <4>2. CASE x # s
        BY <1>2, <2>9, <4>2 DEF Base, EntryInv
      <4> QED BY <4>1, <4>2
    <3>2. open_cnt' \in [Sector -> Int]
      BY <2>1, <2>3
    <3>3. Even(t, r)
      BY <1>1, <1>4, <2>3, <2>5 DEF Even
    <3>4. Balanced(t)
      BY <1>2, <2>1, <2>3, <2>4, <3>2, <3>3, BalanceOf DEF Base
    <3>5. free_map' \subseteq Sector
      BY <1>6, <2>1, <2>2
    <3> QED BY <2>1, <2>3, <2>9, <3>1, <3>2, <3>4, <3>5 DEF DiskOK
  <2>11. Base' /\ th'[t] = r /\ Others(t)
    BY <1>2, <2>7, <2>10, BaseStep
  <2>12. ASSUME Safe' PROVE SafeInv'
    <3>1. Safe
      BY <1>2, <2>12 DEF Safe, Watch
    <3>2. SafeInv
      BY <3>1 DEF IInv
    <3>3. Files(s)' = {}
      BY <2>8, <2>9 DEF Files
    <3>4. ASSUME dir PROVE DotsOK(s)' /\ entries'[s][2].sector = d
      <4>1. entries'[s] = NewDir(s, d)
        BY <1>1, <2>9, <3>4
      <4>2. /\ Len(NewDir(s, d)) >= 2
            /\ NewDir(s, d)[1] = [name |-> ".", sector |-> s, in_use |-> TRUE]
            /\ NewDir(s, d)[2] = [name |-> "..", sector |-> d, in_use |-> TRUE]
            /\ \A k \in DOMAIN NewDir(s, d) : k \in {1, 2} \/ NewDir(s, d)[k] = FreeSlot
        BY <1>4, <2>2, NewDirIs
      <4>3. ~FreeSlot.in_use
        BY DEF FreeSlot
      <4>4. \A k \in DOMAIN NewDir(s, d) : NewDir(s, d)[k].in_use => k \in {1, 2}
        BY <4>2, <4>3
      <4>5. /\ NewDir(s, d)[2].name = ".." /\ NewDir(s, d)[2].in_use /\ NewDir(s, d)[2].sector = d
        BY <4>2
      <4> QED BY <4>1, <4>2, <4>4, <4>5 DEF DotsOK
    <3>5. \A x \in free_map : is_dir'[x] = is_dir[x] /\ entries'[x] = entries[x]
      BY <2>1, <2>2, <2>9
    <3>6. Fresh(t, s, d)
      <4>1. th[t].new = None /\ th'[t].new = s /\ th'[t].dir = d
        BY <1>1, <1>4, <2>5, <2>11
      <4>2. \A u \in Process : u # t => th'[u] = th[u]
        BY <2>11 DEF Others
      <4> QED BY <1>6, <2>2, <2>3, <2>9, <3>3, <3>4, <3>5, <4>1, <4>2 DEF Fresh
    <3>7. TreeInv'
      BY <1>2, <2>11, <3>2, <3>6, FreshTree
    <3>8. Local(t)
      BY <1>6, <2>3, <3>5 DEF Local
    <3>9. d \in Dirs /\ d \notin removed /\ d \in free_map
      BY <1>1, <1>4, <3>2 DEF SafeInv, CallInv, CallOK, Dirs
    <3>10. CallOK(t)'
      <4>1. d \in Dirs' /\ d \notin removed'
        BY <1>6, <2>3, <3>5, <3>9 DEF Dirs
      <4>2. Len(entries'[d]) \in Nat
        BY <1>4, <2>9, LenProperties
      <4>3. PlaceOK(entries'[d], r)
        BY <2>5, <4>2 DEF PlaceOK, Reading, Removing
      <4> QED BY <2>5, <2>11, <4>1, <4>3 DEF CallOK, Erasing
    <3> QED BY <1>2, <2>3, <2>11, <3>1, <3>2, <3>7, <3>8, <3>10, SafeStep
  <2> QED BY <2>11, <2>12 DEF IInv
<1> QED BY <1>1, <1>5, <1>6 DEF Allocate

(* An entry that is written at a place of a directory, or at its end. *)
Written(e, i, x) == IF i > Len(e) THEN Append(e, x) ELSE [e EXCEPT ![i] = x]
Place(e, i) == IF i > Len(e) THEN Len(e) + 1 ELSE i
Holding(e, i, x, k, f) ==
  /\ f \in Seq(Slot) /\ Len(f) \in Nat /\ DOMAIN f = DOMAIN e \cup {k} /\ Len(f) >= Len(e)
  /\ f[k] = x /\ k \in DOMAIN f
  /\ \A j \in DOMAIN e : j # k => f[j] = e[j]
  /\ k \in DOMAIN e => k = i /\ i <= Len(e)
LEMMA WrittenIs ==
  ASSUME NEW e \in Seq(Slot), NEW i \in Nat \ {0}, NEW x \in Slot
  PROVE  Holding(e, i, x, Place(e, i), Written(e, i, x))
<1>1. PICK n \in Nat : n = Len(e) /\ DOMAIN e = 1..n
  BY LenProperties
<1>2. CASE i > Len(e)
  <2>1. Written(e, i, x) = Append(e, x) /\ Place(e, i) = n + 1
    BY <1>1, <1>2 DEF Written, Place
  <2>2. /\ Append(e, x) \in Seq(Slot) /\ Len(Append(e, x)) = n + 1
        /\ DOMAIN Append(e, x) = 1..(n + 1)
        /\ Append(e, x)[n + 1] = x /\ \A j \in 1..n : Append(e, x)[j] = e[j]
    <3>1. Append(e, x) \in Seq(Slot) /\ Len(Append(e, x)) = n + 1
      BY <1>1
    <3>2. DOMAIN Append(e, x) = 1..(n + 1)
      BY <3>1, LenProperties
    <3> QED BY <1>1, <3>1, <3>2
  <2>3. 1..(n + 1) = 1..n \cup {n + 1} /\ n + 1 \notin 1..n /\ n + 1 \in Nat /\ n + 1 >= n
    OBVIOUS
  <2> QED BY <1>1, <2>1, <2>2, <2>3 DEF Holding
<1>3. CASE ~(i > Len(e))
  <2>1. Written(e, i, x) = [e EXCEPT ![i] = x] /\ Place(e, i) = i
    BY <1>3 DEF Written, Place
  <2>2. i \in 1..n /\ i <= n
    <3>1. i <= n
      BY <1>1, <1>3
    <3> QED BY <3>1, InRange
  <2>3. e \in [1..n -> Slot]
    BY <1>1
  <2>4. [e EXCEPT ![i] = x] \in [1..n -> Slot]
    BY <2>3
  <2>5. [e EXCEPT ![i] = x] \in Seq(Slot) /\ DOMAIN [e EXCEPT ![i] = x] = 1..n
    BY <2>4
  <2>6. Len([e EXCEPT ![i] = x]) = n
    <3>1. /\ DOMAIN [e EXCEPT ![i] = x] = 1..Len([e EXCEPT ![i] = x])
          /\ Len([e EXCEPT ![i] = x]) \in Nat
      BY <2>5, LenProperties
    <3> QED BY <2>5, <3>1
  <2>7. [e EXCEPT ![i] = x][i] = x /\ \A j \in 1..n : j # i => [e EXCEPT ![i] = x][j] = e[j]
    BY <2>2, <2>3
  <2>8. 1..n = 1..n \cup {i} /\ n >= n
    BY <2>2
  <2> QED BY <1>1, <2>1, <2>2, <2>5, <2>6, <2>7, <2>8 DEF Holding
<1> QED BY <1>2, <1>3

(* The inode that process t created gets its name, at place k of directory d. *)
Linked(t, d, k) ==
  /\ d \in Dirs /\ d \notin removed /\ th[t].dir = d /\ open_cnt[d] > 0 /\ th[t].new # None
  /\ k \in DOMAIN entries[d] => ~entries[d][k].in_use
  /\ DOMAIN entries'[d] = DOMAIN entries[d] \cup {k} /\ Len(entries'[d]) >= Len(entries[d])
  /\ entries'[d][k].in_use /\ entries'[d][k].sector = th[t].new /\ entries'[d][k].name \notin Dots
  /\ \A j \in DOMAIN entries[d] : j # k => entries'[d][j] = entries[d][j]
  /\ \A j \in DOMAIN entries[d] : ~(entries[d][j].in_use /\ entries[d][j].name = entries'[d][k].name)
  /\ \A x \in Sector : x # d => entries'[x] = entries[x] /\ open_cnt'[x] = open_cnt[x]
  /\ is_dir' = is_dir /\ free_map' = free_map /\ removed' = removed
  /\ th'[t].new = None /\ \A u \in Process : u # t => th'[u] = th[u]
LEMMA LinkedTree ==
  ASSUME Base, Base', SafeInv, NEW t \in Process, NEW d, NEW k, Linked(t, d, k)
  PROVE  TreeInv'
<1>1. PICK n : n = th[t].new
  OBVIOUS
<1>2. /\ d \in Dirs /\ d \notin removed /\ th[t].dir = d /\ open_cnt[d] > 0 /\ n # None
      /\ is_dir' = is_dir /\ free_map' = free_map /\ removed' = removed
      /\ \A x \in Sector : x # d => entries'[x] = entries[x] /\ open_cnt'[x] = open_cnt[x]
      /\ th'[t].new = None /\ \A u \in Process : u # t => th'[u] = th[u]
  BY <1>1 DEF Linked
<1>3. /\ k \in DOMAIN entries[d] => ~entries[d][k].in_use
      /\ DOMAIN entries'[d] = DOMAIN entries[d] \cup {k} /\ Len(entries'[d]) >= Len(entries[d])
      /\ entries'[d][k].in_use /\ entries'[d][k].sector = n /\ entries'[d][k].name \notin Dots
      /\ \A j \in DOMAIN entries[d] : j # k => entries'[d][j] = entries[d][j]
      /\ \A j \in DOMAIN entries[d] : ~(entries[d][j].in_use /\ entries[d][j].name = entries'[d][k].name)
  BY <1>1 DEF Linked
<1>4. /\ n \in free_map /\ n # ROOT_DIR_SECTOR /\ open_cnt[n] = 0
      /\ is_dir[n] => entries[n][2].sector = d
      /\ \A u \in Process : th[u].new = n => u = t
  <2>1. NewOK(t)
    BY DEF SafeInv, TreeInv, NewInv
  <2> QED BY <1>1, <1>2, <2>1 DEF NewOK
<1>5. free_map \subseteq Sector /\ removed \subseteq Sector /\ n \in Sector /\ d \in Sector
  <2>1. free_map \subseteq Sector /\ removed \subseteq Sector
    BY TypesAre DEF Base
  <2> QED BY <1>2, <1>4, <2>1 DEF Dirs
<1>6. n # d /\ n \notin removed
  <2>1. n # d
    BY <1>2, <1>4
  <2>2. n \notin removed
    BY <1>4 DEF SafeInv, TreeInv, RemovedInv
  <2> QED BY <2>1, <2>2
<1>7. Dirs' = Dirs
  BY <1>2 DEF Dirs
<1>8. k \notin Files(d) /\ Files(d)' = Files(d) \cup {k} /\ \A j \in Files(d) : entries'[d][j] = entries[d][j] /\ j # k
  BY <1>3 DEF Files
<1>9. \A x \in Sector : x # d => Files(x)' = Files(x)
  BY <1>2 DEF Files
<1>10. \A x \in Dirs : x \in Sector /\ x \in free_map /\ is_dir[x] /\ DotsOK(x) /\ UniqueNames(x)
  BY <1>5 DEF SafeInv, TreeInv, DirInv, Dirs
<1>11. DotsOK(d)' /\ entries'[d][2] = entries[d][2]
  <2>1. entries[d] \in Seq(Slot)
    BY <1>5, TypesAre DEF Base
  <2>2. Len(entries[d]) \in Nat /\ DOMAIN entries[d] = 1..Len(entries[d])
    BY <2>1, LenProperties
  <2>2a. entries'[d] \in Seq(Slot)
    BY <1>5, TypesAre DEF Base, TypeOK
  <2>2b. Len(entries'[d]) \in Nat
    BY <2>2a, LenProperties
  <2>3. DotsOK(d)
    BY <1>2, <1>10
  <2>4. 1 \in DOMAIN entries[d] /\ 2 \in DOMAIN entries[d] /\ Len(entries'[d]) >= 2
    BY <1>3, <2>2, <2>2b, <2>3 DEF DotsOK
  <2>5. entries'[d][1] = entries[d][1] /\ entries'[d][2] = entries[d][2]
    <3>1. entries[d][1].in_use /\ entries[d][2].in_use
      BY <2>3 DEF DotsOK
    <3>2. 1 # k /\ 2 # k
      BY <1>3, <2>4, <3>1
    <3> QED BY <1>3, <2>4, <3>2
  <2>6. \A j \in DOMAIN entries'[d] :
          entries'[d][j].in_use /\ entries'[d][j].name \in Dots => j \in {1, 2}
    <3> SUFFICES ASSUME NEW j \in DOMAIN entries'[d], entries'[d][j].in_use, entries'[d][j].name \in Dots
                 PROVE  j \in {1, 2}
      OBVIOUS
    <3>1. j # k
      BY <1>3
    <3>2. j \in DOMAIN entries[d] /\ entries'[d][j] = entries[d][j]
      BY <1>3, <3>1
    <3> QED BY <2>3, <3>2 DEF DotsOK
  <2> QED BY <2>3, <2>4, <2>5, <2>6 DEF DotsOK
<1>12. \A x \in Dirs : entries'[x][2] = entries[x][2]
  BY <1>2, <1>10, <1>11
<1>13. Named(n)' /\ \A x : Named(x) => Named(x)'
  <2>1. Named(n)'
    BY <1>2, <1>3, <1>7, <1>8 DEF Named
  <2>2. ASSUME NEW x, Named(x) PROVE Named(x)'
    <3>1. PICK c \in Dirs : \E j \in Files(c) : entries[c][j].sector = x
      BY <2>2 DEF Named
    <3>2. PICK j \in Files(c) : entries[c][j].sector = x
      BY <3>1
    <3>3. j \in Files(c)' /\ entries'[c][j] = entries[c][j]
      BY <1>2, <1>8, <1>9, <1>10
    <3> QED BY <1>7, <3>2, <3>3 DEF Named
  <2> QED BY <2>1, <2>2
<1>14. RootInv'
  <2>1. RootInv
    BY DEF SafeInv, TreeInv
  <2> QED BY <1>2, <1>12, <2>1 DEF RootInv, Dirs
<1>15. DirInv'
  <2> SUFFICES ASSUME NEW x \in Dirs PROVE DotsOK(x)' /\ UniqueNames(x)'
    BY <1>7 DEF DirInv
  <2>1. CASE x = d
    <3>1. \A j \in Files(d) : entries[d][j].name # entries'[d][k].name
      BY <1>3 DEF Files
    <3>2. UniqueNames(d)
      BY <1>2, <1>10
    <3>3. UniqueNames(d)'
      BY <1>8, <3>1, <3>2 DEF UniqueNames
    <3> QED BY <1>11, <2>1, <3>3
  <2>2. CASE x # d
    <3>1. entries'[x] = entries[x] /\ Files(x)' = Files(x)
      BY <1>2, <1>9, <1>10, <2>2
    <3> QED BY <1>10, <3>1 DEF DotsOK, UniqueNames
  <2> QED BY <2>1, <2>2
<1>16. \A c \in Dirs : \A j \in Files(c)' :
         \/ c = d /\ j = k /\ entries'[c][j].sector = n
         \/ j \in Files(c) /\ entries'[c][j] = entries[c][j]
  BY <1>2, <1>3, <1>8, <1>9, <1>10
<1>17. \A c \in Dirs : \A j \in Files(c) : LET x == entries[c][j].sector IN
         /\ x \in free_map /\ x # ROOT_DIR_SECTOR /\ x \notin removed
         /\ \A u \in Process : th[u].new # x
         /\ is_dir[x] => entries[x][2].sector = c
         /\ \A e \in Dirs : \A i \in Files(e) : entries[e][i].sector = x => e = c /\ i = j
  BY DEF SafeInv, TreeInv, NameInv
<1>18. NameInv'
  <2> SUFFICES ASSUME NEW c \in Dirs, NEW j \in Files(c)', NEW x, x = entries'[c][j].sector
               PROVE  /\ x \in free_map /\ x # ROOT_DIR_SECTOR /\ x \notin removed
                      /\ \A u \in Process : th'[u].new # x
                      /\ is_dir[x] => entries'[x][2].sector = c
                      /\ \A e \in Dirs : \A i \in Files(e)' : entries'[e][i].sector = x => e = c /\ i = j
    BY <1>2, <1>7 DEF NameInv
  <2>1. CASE c = d /\ j = k /\ x = n
    <3>1. \A u \in Process : th'[u].new # x
      BY <1>2, <1>4, <2>1
    <3>2. is_dir[x] => entries'[x][2].sector = c
      BY <1>2, <1>4, <1>5, <1>6, <2>1
    <3>3. \A e \in Dirs : \A i \in Files(e)' : entries'[e][i].sector = x => e = c /\ i = j
      BY <1>1, <1>16, <1>17, <2>1
    <3> QED BY <1>4, <1>6, <2>1, <3>1, <3>2, <3>3
  <2>2. CASE j \in Files(c) /\ entries'[c][j] = entries[c][j]
    <3>1. /\ x \in free_map /\ x # ROOT_DIR_SECTOR /\ x \notin removed
          /\ \A u \in Process : th[u].new # x
          /\ is_dir[x] => entries[x][2].sector = c
          /\ \A e \in Dirs : \A i \in Files(e) : entries[e][i].sector = x => e = c /\ i = j
      BY <1>17, <2>2
    <3>2. \A u \in Process : th'[u].new # x
      BY <1>2, <1>5, <3>1, Sizes
    <3>3. is_dir[x] => entries'[x][2].sector = c
      BY <1>12, <3>1 DEF Dirs
    <3>4. x # n
      BY <1>1, <3>1
    <3>5. \A e \in Dirs : \A i \in Files(e)' : entries'[e][i].sector = x => e = c /\ i = j
      BY <1>16, <3>1, <3>4
    <3> QED BY <3>1, <3>2, <3>3, <3>5
  <2> QED BY <1>16, <2>1, <2>2
<1>19. RemovedInv'
  <2> SUFFICES ASSUME NEW x \in removed
               PROVE  /\ open_cnt'[x] > 0 /\ x \in free_map /\ x # ROOT_DIR_SECTOR
                      /\ is_dir[x] => Files(x)' = {}
    BY <1>2 DEF RemovedInv
  <2>1. open_cnt[x] > 0 /\ x \in free_map /\ x # ROOT_DIR_SECTOR /\ (is_dir[x] => Files(x) = {})
    BY DEF SafeInv, TreeInv, RemovedInv
  <2>2. x # d /\ x \in Sector
    BY <1>2, <1>5
  <2> QED BY <1>2, <1>9, <2>1, <2>2
<1>20. OpenInv'
  <2> SUFFICES ASSUME NEW x \in Sector, open_cnt'[x] > 0
               PROVE  x \in free_map /\ (x \in removed \/ x = ROOT_DIR_SECTOR \/ Named(x)')
    BY <1>2 DEF OpenInv
  <2>1. open_cnt[x] > 0
    BY <1>2
  <2>2. x \in free_map /\ (x \in removed \/ x = ROOT_DIR_SECTOR \/ Named(x))
    BY <2>1 DEF SafeInv, TreeInv, OpenInv
  <2> QED BY <1>13, <2>2
<1>21. UsedInv'
  <2> SUFFICES ASSUME NEW x \in free_map
               PROVE  x = ROOT_DIR_SECTOR \/ open_cnt'[x] > 0 \/ Named(x)' \/ \E u \in Process : th'[u].new = x
    BY <1>2 DEF UsedInv
  <2>1. x = ROOT_DIR_SECTOR \/ open_cnt[x] > 0 \/ Named(x) \/ \E u \in Process : th[u].new = x
    BY DEF SafeInv, TreeInv, UsedInv
  <2>2. CASE open_cnt[x] > 0
    <3>1. x \in removed \/ x = ROOT_DIR_SECTOR \/ Named(x)
      BY <1>5, <2>2 DEF SafeInv, TreeInv, OpenInv
    <3>2. x \in removed => open_cnt'[x] > 0
      BY <1>2, <1>5, <2>2
    <3> QED BY <1>13, <3>1, <3>2
  <2>3. ASSUME NEW u \in Process, th[u].new = x PROVE Named(x)' \/ th'[u].new = x
    BY <1>1, <1>2, <1>13, <2>3
  <2> QED BY <1>13, <2>1, <2>2, <2>3
<1>22. NewInv'
  <2> SUFFICES ASSUME NEW u \in Process, u # t, th[u].new # None PROVE NewOK(u)'
    BY <1>2 DEF NewInv, NewOK
  <2>1. PICK x : x = th[u].new
    OBVIOUS
  <2>2. /\ x \in free_map /\ x # ROOT_DIR_SECTOR /\ open_cnt[x] = 0
        /\ is_dir[x] => entries[x][2].sector = th[u].dir /\ Files(x) = {}
        /\ \A w \in Process : th[w].new = x => w = u
    BY <2>1 DEF SafeInv, TreeInv, NewInv, NewOK
  <2>3. th'[u] = th[u] /\ th'[u].new = x /\ x # None
    BY <1>2, <2>1
  <2>4. x # d /\ x \in Sector
    BY <1>2, <1>5, <2>2
  <2>5. entries'[x] = entries[x] /\ Files(x)' = Files(x) /\ open_cnt'[x] = 0
    BY <1>2, <1>9, <2>2, <2>4
  <2>6. \A w \in Process : th'[w].new = x => w = u
    BY <1>2, <2>2, <2>3
  <2> QED BY <1>2, <2>1, <2>2, <2>3, <2>5, <2>6 DEF NewOK
<1> QED BY <1>14, <1>15, <1>18, <1>19, <1>20, <1>21, <1>22 DEF TreeInv

(* What WriteSlot has in common with the ways it ends. *)
LEMMA WriterIs ==
  ASSUME Base, NEW t \in Process, th[t].pc = "write slot", panic = "no", Return(t), pwd' = pwd, fds' = fds
  PROVE  /\ InCall(t) /\ th[t].dir \in Sector /\ open_cnt[th[t].dir] > 0
         /\ th[t].new \in Sector /\ th[t].new # None /\ th[t].child = None
         /\ th[t].call \in Mutators /\ Head(th[t].names) \in Name \cup Dots
         /\ th[t].ofs \in Nat \ {0}
         /\ Rest(th[t].calls).dir = None /\ Rest(th[t].calls).child = None /\ Rest(th[t].calls).new = None
         /\ Rest(th[t].calls).pc \in Outside
         /\ th' = [th EXCEPT ![t] = Rest(th[t].calls)]
         /\ OwnOK(t, Rest(th[t].calls))
<1>1. /\ th \in [Process -> ThreadRec] /\ th[t] \in ThreadRec /\ LocalsOK(th[t]) /\ th[t].calls \in Nat
      /\ th[t].names \in Seq(Name \cup Dots) /\ th[t].ofs \in Nat \ {0}
      /\ fds \in [Process -> [Fd -> FileRec]] /\ pwd \in [Process -> Sector \cup {None}]
  BY CallIs
<1>2. InCall(t)
  BY DEF InCall
<1>3. th[t].dir \in Sector
  BY <1>2, CallIs
<1>4. open_cnt[th[t].dir] > 0
  BY <1>3 DEF Base, OpenHeld
<1>5. th[t].new # None /\ th[t].child = None /\ th[t].call \in {"create", "mkdir"} /\ th[t].names # <<>>
  BY <1>1 DEF LocalsOK, Making, Outside
<1>6. th[t].new \in Sector
  BY <1>1, <1>5 DEF ThreadRec
<1>7. Head(th[t].names) \in Name \cup Dots
  BY <1>1, <1>5, HeadTailProperties
<1>8. PICK r : r = Rest(th[t].calls)
  OBVIOUS
<1>9. /\ r \in ThreadRec /\ LocalsOK(r) /\ r.pc = "user" /\ r.dir = None /\ r.child = None /\ r.new = None
      /\ r.pc \in Outside
  BY <1>1, <1>8, RestIs
<1>10. th' = [th EXCEPT ![t] = r]
  BY <1>1, <1>8 DEF Return
<1>11. OwnOK(t, r)
  <2>1. FdsOK(fds[t]) /\ pwd[t] # None
    BY DEF Base, LocalInv
  <2> QED BY <1>1, <1>9, <1>10, <2>1 DEF OwnOK
<1> QED BY <1>1, <1>2, <1>3, <1>4, <1>5, <1>6, <1>7, <1>8, <1>9, <1>10, <1>11 DEF Mutators

(* The name exists, or there is no room. *)
GivesBack(t, d) ==
  /\ th[t].pc = "write slot" /\ panic = "no" /\ Watch /\ Return(t) /\ d = th[t].dir
  /\ open_cnt' = [open_cnt EXCEPT ![d] = @ - 1]
  /\ removed' = IF open_cnt[d] = 1 THEN removed \ {d} ELSE removed
  /\ free_map' = free_map \ ({th[t].new} \cup
                    (IF open_cnt[d] = 1 /\ d \in removed THEN {d} ELSE {}))
  /\ UNCHANGED <<is_dir, entries, fds, pwd, panic, lost>>
LEMMA GiveBackKeeps ==
  ASSUME IInv, NEW t \in Process, NEW d, GivesBack(t, d)
  PROVE  IInv'
<1>1. Base
  BY DEF IInv
<1>2. /\ is_dir' = is_dir /\ entries' = entries /\ fds' = fds /\ pwd' = pwd /\ lost' = lost
      /\ th[t].pc = "write slot" /\ panic = "no" /\ Watch /\ Return(t) /\ d = th[t].dir
  BY DEF GivesBack
<1>2a. /\ open_cnt' = [open_cnt EXCEPT ![d] = @ - 1]
       /\ free_map' = free_map \ ({th[t].new} \cup
                         (IF open_cnt[d] = 1 /\ d \in removed THEN {d} ELSE {}))
       /\ removed' = IF open_cnt[d] = 1 THEN removed \ {d} ELSE removed
  BY DEF GivesBack
<1>3. PICK n, r : n = th[t].new /\ r = Rest(th[t].calls)
  OBVIOUS
<1>4. /\ InCall(t) /\ d \in Sector /\ open_cnt[d] > 0 /\ n \in Sector /\ n # None /\ th[t].child = None
      /\ r.dir = None /\ r.child = None /\ r.new = None /\ r.pc \in Outside
      /\ th' = [th EXCEPT ![t] = r] /\ OwnOK(t, r)
  BY <1>1, <1>2, <1>3, WriterIs
<1>5. /\ free_map \subseteq Sector /\ removed \subseteq Sector /\ is_dir \in [Sector -> BOOLEAN]
      /\ entries \in [Sector -> Seq(Slot)] /\ open_cnt \in [Sector -> Nat] /\ lost \in [Sector -> Nat]
  BY <1>1, TypesAre DEF Base
<1>6. /\ open_cnt' \in [Sector -> Int] /\ open_cnt'[d] = open_cnt[d] - 1
      /\ \A x \in Sector : x # d => open_cnt'[x] = open_cnt[x]
  BY <1>2a, <1>4, <1>5
<1>7. Even(t, r)
  <2> SUFFICES ASSUME NEW x \in Sector
               PROVE  open_cnt'[x] + lost[x] + Bit(d = x) + Bit(None = x)
                        = open_cnt[x] + lost[x] + Bit(None = x) + Bit(None = x)
    <3>1. lost' = lost /\ th[t].dir = d /\ th[t].child = None /\ r.dir = None /\ r.child = None
      BY <1>2, <1>4
    <3> QED BY <3>1 DEF Even
  <2>1. Bit(None = x) = 0
    BY Sizes DEF Bit
  <2>2. PICK m, l \in Nat : m = open_cnt[x] /\ l = lost[x]
    BY <1>5
  <2>3. CASE x = d
    <3>1. Bit(d = x) = 1 /\ open_cnt'[x] = m - 1
      BY <1>6, <2>2, <2>3 DEF Bit
    <3>2. (m - 1) + l + 1 + 0 = m + l + 0 + 0
      OBVIOUS
    <3> QED BY <2>1, <2>2, <3>1, <3>2
  <2>4. CASE x # d
    <3>1. Bit(d = x) = 0 /\ open_cnt'[x] = m
      BY <1>6, <2>2, <2>4 DEF Bit
    <3> QED BY <2>1, <2>2, <3>1
  <2> QED BY <2>3, <2>4
<1>8. DiskOK(t)
  <2>1. EntryInv'
    BY <1>1, <1>2 DEF Base, EntryInv
  <2>2. Balanced(t)
    BY <1>1, <1>2, <1>4, <1>5, <1>6, <1>7, BalanceOf DEF Base
  <2>3. free_map' \subseteq Sector /\ removed' \subseteq Sector
    BY <1>2a, <1>5
  <2> QED BY <1>2, <1>5, <1>6, <2>1, <2>2, <2>3 DEF DiskOK
<1>9. ASSUME Base', Others(t), th'[t] = r, Safe, SafeInv PROVE Quiet({n})
  <2>1. d \notin removed
    BY <1>2, <1>4, <1>9 DEF SafeInv, CallInv, CallOK
  <2>2. removed' = removed /\ free_map' = free_map \ {n}
    BY <1>2a, <1>3, <2>1
  <2>3. /\ n # ROOT_DIR_SECTOR /\ open_cnt[n] = 0 /\ (is_dir[n] => Files(n) = {})
        /\ \A u \in Process : th[u].new = n => u = t
    <3>1. NewOK(t)
      BY <1>9 DEF SafeInv, TreeInv, NewInv
    <3> QED BY <1>3, <1>4, <3>1 DEF NewOK
  <2>4. open_cnt'[n] = 0
    BY <1>4, <1>6, <2>3
  <2>5. ~Named(n)
    BY <1>3, <1>9 DEF SafeInv, TreeInv, NameInv, Named
  <2>6. \A s \in removed : open_cnt'[s] > 0
    <3> SUFFICES ASSUME NEW s \in removed PROVE open_cnt'[s] > 0
      OBVIOUS
    <3>1. open_cnt[s] > 0 /\ s \in Sector /\ s # d
      BY <1>5, <1>9, <2>1 DEF SafeInv, TreeInv, RemovedInv
    <3> QED BY <1>6, <3>1
  <2>7. \A s \in Sector : open_cnt'[s] > 0 => open_cnt[s] > 0
    BY <1>4, <1>6
  <2>8. \A u \in Process : th'[u].new # n
    BY <1>4, <1>9, <2>3 DEF Others
  <2>9. \A u \in Process :
          /\ th'[u].new = th[u].new \/ (th'[u].new = None /\ th[u].new \in {n})
          /\ th'[u].new # None => th'[u].dir = th[u].dir
    BY <1>3, <1>4, <1>9 DEF Others
  <2> QED BY <1>2, <2>2, <2>3, <2>4, <2>5, <2>6, <2>7, <2>8, <2>9 DEF Quiet
<1>10. Arrives(r)
  BY <1>4 DEF Arrives
<1> QED BY <1>2, <1>4, <1>8, <1>9, <1>10, QuietAct

(* The new inode gets its name. *)
Links(t, d, x) ==
  /\ th[t].pc = "write slot" /\ panic = "no" /\ Watch /\ Return(t) /\ d = th[t].dir
  /\ th[t].ent = FreeSlot
  /\ x = [name |-> Head(th[t].names), sector |-> th[t].new, in_use |-> TRUE]
  /\ entries' = [entries EXCEPT ![d] = Written(entries[d], th[t].ofs, x)]
  /\ Inodes(<<>>, <<d>>, {})
  /\ UNCHANGED <<is_dir, fds, pwd, panic, lost>>
LEMMA LinkKeeps ==
  ASSUME IInv, NEW t \in Process, NEW d, NEW x, Links(t, d, x)
  PROVE  IInv'
<1>1. Base
  BY DEF IInv
<1>2. /\ is_dir' = is_dir /\ fds' = fds /\ pwd' = pwd /\ lost' = lost /\ panic' = panic
      /\ th[t].pc = "write slot" /\ panic = "no" /\ Watch /\ Return(t) /\ d = th[t].dir
      /\ th[t].ent = FreeSlot /\ Inodes(<<>>, <<d>>, {})
  BY DEF Links
<1>2a. /\ x = [name |-> Head(th[t].names), sector |-> th[t].new, in_use |-> TRUE]
       /\ entries' = [entries EXCEPT ![d] = Written(entries[d], th[t].ofs, x)]
  BY DEF Links
<1>3. PICK n, r, i : n = th[t].new /\ r = Rest(th[t].calls) /\ i = th[t].ofs
  OBVIOUS
<1>4. /\ InCall(t) /\ d \in Sector /\ open_cnt[d] > 0 /\ n \in Sector /\ n # None /\ th[t].child = None
      /\ th[t].call \in Mutators /\ Head(th[t].names) \in Name \cup Dots /\ i \in Nat \ {0}
      /\ r.dir = None /\ r.child = None /\ r.new = None /\ r.pc \in Outside
      /\ th' = [th EXCEPT ![t] = r] /\ OwnOK(t, r)
  BY <1>1, <1>2, <1>3, WriterIs
<1>5. /\ free_map \subseteq Sector /\ removed \subseteq Sector /\ is_dir \in [Sector -> BOOLEAN]
      /\ entries \in [Sector -> Seq(Slot)] /\ open_cnt \in [Sector -> Nat] /\ lost \in [Sector -> Nat]
  BY <1>1, TypesAre DEF Base
<1>6. x \in Slot /\ x.in_use /\ x.sector = n /\ x.name = Head(th[t].names)
  BY <1>2a, <1>3, <1>4 DEF Slot
<1>7. PICK e, k, f : e = entries[d] /\ k = Place(e, i) /\ f = Written(e, i, x)
  OBVIOUS
<1>8. e \in Seq(Slot)
  BY <1>4, <1>5, <1>7
<1>9. /\ f \in Seq(Slot) /\ Len(f) \in Nat /\ DOMAIN f = DOMAIN e \cup {k} /\ Len(f) >= Len(e)
      /\ f[k] = x /\ k \in DOMAIN f
      /\ \A j \in DOMAIN e : j # k => f[j] = e[j]
      /\ k \in DOMAIN e => k = i /\ i <= Len(e)
  <2>1. i \in Nat \ {0} /\ x \in Slot
    BY <1>4, <1>6
  <2>2. Holding(e, i, x, k, f)
    BY <1>7, <1>8, <2>1, WrittenIs
  <2> QED BY <2>2 DEF Holding
<1>10. /\ entries' \in [Sector -> Seq(Slot)] /\ entries'[d] = f
       /\ \A y \in Sector : y # d => entries'[y] = entries[y]
  <2>1. entries' = [entries EXCEPT ![d] = f]
    BY <1>2a, <1>3, <1>7
  <2> QED BY <1>4, <1>5, <1>9, <2>1
<1>11. /\ Countable(<<>>, <<d>>)
       /\ \A y \in Sector : Count(<<>>, y) = 0 /\ Count(<<d>>, y) = Bit(d = y) /\ Bit(d = y) \in Nat
  <2>1. ASSUME NEW y \in Sector PROVE Count(<<>>, y) = 0 /\ Count(<<d>>, y) = Bit(d = y)
    BY CountSeq
  <2>2. ASSUME NEW y \in Sector PROVE Bit(d = y) \in Nat
    BY DEF Bit
  <2>3. Countable(<<>>, <<d>>)
    <3> SUFFICES ASSUME NEW y \in Sector PROVE Count(<<>>, y) \in Nat /\ Count(<<d>>, y) \in Nat
      BY DEF Countable
    <3> QED BY <2>1, <2>2
  <2> QED BY <2>1, <2>2, <2>3
<1>12. /\ open_cnt' \in [Sector -> Int]
       /\ \A y \in Sector : open_cnt'[y] = open_cnt[y] + Count(<<>>, y) - Count(<<d>>, y)
       /\ removed' = {y \in removed \cup {} : open_cnt'[y] # 0}
       /\ free_map' = free_map \ {y \in removed \cup {} : open_cnt'[y] = 0}
       /\ free_map' \subseteq Sector /\ removed' \subseteq Sector
  <2>1. {} \in SUBSET Sector
    OBVIOUS
  <2> QED BY <1>1, <1>2, <1>11, <2>1, InodesAre DEF Base
<1>13. \A y \in Sector : open_cnt'[y] = open_cnt[y] + 0 - Bit(d = y)
  BY <1>11, <1>12
<1>14. Even(t, r)
  <2> SUFFICES ASSUME NEW y \in Sector
               PROVE  open_cnt'[y] + lost[y] + Bit(d = y) + Bit(None = y)
                        = open_cnt[y] + lost[y] + Bit(None = y) + Bit(None = y)
    <3>1. lost' = lost /\ th[t].dir = d /\ th[t].child = None /\ r.dir = None /\ r.child = None
      BY <1>2, <1>4
    <3> QED BY <3>1 DEF Even
  <2>1. Bit(None = y) = 0
    BY Sizes DEF Bit
  <2>2. PICK m, l, a \in Nat : m = open_cnt[y] /\ l = lost[y] /\ a = Bit(d = y)
    BY <1>5, <1>11
  <2>3. (m + 0 - a) + l + a + 0 = m + l + 0 + 0
    OBVIOUS
  <2> QED BY <1>13, <2>1, <2>2, <2>3
<1>15. DiskOK(t)
  <2>1. EntryInv'
    <3> SUFFICES ASSUME NEW y \in Sector, NEW j \in DOMAIN entries'[y], entries'[y][j].in_use
                 PROVE  entries'[y][j].sector # None
      BY DEF EntryInv
    <3>1. CASE y # d
      BY <1>1, <1>10, <3>1 DEF Base, EntryInv
    <3>2. CASE y = d /\ j = k
      BY <1>4, <1>6, <1>9, <1>10, <3>2
    <3>3. CASE y = d /\ j # k
      <4>1. j \in DOMAIN e /\ entries'[y][j] = entries[d][j] /\ j \in DOMAIN entries[d]
        BY <1>7, <1>9, <1>10, <3>3
      <4> QED BY <1>1, <1>4, <4>1 DEF Base, EntryInv
    <3> QED BY <3>1, <3>2, <3>3
  <2>2. Balanced(t)
    BY <1>1, <1>2, <1>4, <1>5, <1>12, <1>14, BalanceOf DEF Base
  <2> QED BY <1>2, <1>5, <1>10, <1>12, <2>1, <2>2 DEF DiskOK
<1>16. Base' /\ th'[t] = r /\ Others(t)
  BY <1>1, <1>2, <1>4, <1>15, BaseStep
<1>17. ASSUME Safe' PROVE SafeInv'
  <2>1. Safe
    BY <1>2, <1>17 DEF Safe, Watch
  <2>2. SafeInv
    BY <2>1 DEF IInv
  <2>3. d \in Dirs /\ d \notin removed /\ PlaceOK(e, th[t])
    BY <1>2, <1>4, <1>7, <2>2 DEF SafeInv, CallInv, CallOK
  <2>4. /\ \A j \in DOMAIN e : ~Hit(e[j], th[t])
        /\ k \in DOMAIN e => ~e[k].in_use
    BY <1>2, <1>3, <1>9, <2>3 DEF PlaceOK
  <2>5. x.name \notin Dots
    <3>1. DotsOK(d)
      BY <2>2, <2>3 DEF SafeInv, TreeInv, DirInv
    <3>2. Len(e) \in Nat /\ DOMAIN e = 1..Len(e)
      BY <1>8, LenProperties
    <3>3. 1 \in DOMAIN e /\ 2 \in DOMAIN e
      BY <1>7, <3>1, <3>2 DEF DotsOK
    <3>4. e[1].in_use /\ e[1].name = "." /\ e[2].in_use /\ e[2].name = ".."
      BY <1>7, <3>1 DEF DotsOK
    <3> QED BY <1>6, <2>4, <3>3, <3>4 DEF Hit, Dots
  <2>6. \A y \in Sector : y # d => open_cnt'[y] = open_cnt[y]
    <3> SUFFICES ASSUME NEW y \in Sector, y # d PROVE open_cnt'[y] = open_cnt[y]
      OBVIOUS
    <3>1. Bit(d = y) = 0 /\ open_cnt[y] \in Nat
      BY <1>5 DEF Bit
    <3> QED BY <1>13, <3>1
  <2>7. \A y \in removed : open_cnt'[y] # 0
    <3> SUFFICES ASSUME NEW y \in removed PROVE open_cnt'[y] # 0
      OBVIOUS
    <3>1. open_cnt[y] > 0
      BY <2>2 DEF SafeInv, TreeInv, RemovedInv
    <3>2. y # d /\ y \in Sector
      BY <1>5, <2>3
    <3> QED BY <2>6, <3>1, <3>2
  <2>8. removed' = removed /\ free_map' = free_map
    BY <1>12, <2>7
  <2>9. Linked(t, d, k)
    <3>1. \A j \in DOMAIN entries[d] : ~(entries[d][j].in_use /\ entries[d][j].name = entries'[d][k].name)
      BY <1>6, <1>7, <1>9, <1>10, <2>4 DEF Hit
    <3>2. /\ k \in DOMAIN entries[d] => ~entries[d][k].in_use
          /\ DOMAIN entries'[d] = DOMAIN entries[d] \cup {k} /\ Len(entries'[d]) >= Len(entries[d])
          /\ entries'[d][k].in_use /\ entries'[d][k].sector = th[t].new /\ entries'[d][k].name \notin Dots
          /\ \A j \in DOMAIN entries[d] : j # k => entries'[d][j] = entries[d][j]
      BY <1>3, <1>6, <1>7, <1>9, <1>10, <2>4, <2>5
    <3>3. \A y \in Sector : y # d => entries'[y] = entries[y] /\ open_cnt'[y] = open_cnt[y]
      BY <1>10, <2>6
    <3>4. th'[t].new = None /\ \A u \in Process : u # t => th'[u] = th[u]
      BY <1>4, <1>16 DEF Others
    <3> QED BY <1>2, <1>3, <1>4, <2>3, <2>8, <3>1, <3>2, <3>3, <3>4 DEF Linked
  <2>10. TreeInv'
    BY <1>1, <1>16, <2>2, <2>9, LinkedTree
  <2>11. Local(t)
    <3>1. Changing(t)
      BY <1>4 DEF Changing
    <3> QED BY <1>2, <1>5, <1>10, <2>8, <3>1 DEF Local
  <2>12. CallOK(t)'
    BY <1>4, <1>16 DEF CallOK, InCall, Outside
  <2> QED BY <1>1, <1>2, <1>16, <2>1, <2>2, <2>10, <2>11, <2>12, SafeStep
<1> QED BY <1>16, <1>17 DEF IInv

LEMMA WriteSlotKeeps ==
  ASSUME IInv, NEW t \in Process, WriteSlot(t)
  PROVE  IInv'
<1>1. PICK d, x : d = th[t].dir /\ x = [name |-> Head(th[t].names), sector |-> th[t].new, in_use |-> TRUE]
  OBVIOUS
<1>2. /\ th[t].pc = "write slot" /\ panic = "no" /\ Watch /\ Return(t)
      /\ UNCHANGED <<is_dir, fds, pwd, panic, lost>>
  BY DEF WriteSlot, Running
<1>3. CASE /\ open_cnt' = [open_cnt EXCEPT ![d] = @ - 1]
           /\ removed' = IF open_cnt[d] = 1 THEN removed \ {d} ELSE removed
           /\ free_map' = free_map \ (GivenBack(t) \cup
                             (IF open_cnt[d] = 1 /\ d \in removed THEN {d} ELSE {}))
           /\ UNCHANGED entries
  <2>1. UNCHANGED <<is_dir, entries, fds, pwd, panic, lost>>
    BY <1>2, <1>3
  <2>2. free_map' = free_map \ ({th[t].new} \cup
                      (IF open_cnt[d] = 1 /\ d \in removed THEN {d} ELSE {}))
    BY <1>3 DEF GivenBack
  <2>3. GivesBack(t, d)
    BY <1>1, <1>2, <1>3, <2>1, <2>2 DEF GivesBack
  <2> QED BY <2>3, GiveBackKeeps
<1>4. CASE /\ th[t].ent = FreeSlot
           /\ entries' = [entries EXCEPT ![d] =
                IF th[t].ofs > Len(@) THEN Append(@, x) ELSE [@ EXCEPT ![th[t].ofs] = x]]
           /\ Close(<<d>>)
  <2>1. entries' = [entries EXCEPT ![d] = Written(entries[d], th[t].ofs, x)]
    BY <1>4 DEF Written
  <2>2. Inodes(<<>>, <<d>>, {})
    BY <1>4 DEF Close
  <2>3. Links(t, d, x)
    BY <1>1, <1>2, <1>4, <2>1, <2>2 DEF Links
  <2> QED BY <2>3, LinkKeeps
<1> QED BY <1>1, <1>3, <1>4 DEF WriteSlot

(* The name of inode s at place i of directory d goes, and s is removed. *)
Unlinked(t, d, i, s) ==
  /\ d \in Dirs /\ d \notin removed /\ s \in Sector /\ s # d /\ open_cnt[d] > 0
  /\ i \in Files(d) /\ entries[d][i].sector = s /\ (is_dir[s] => Files(s) = {})
  /\ DOMAIN entries'[d] = DOMAIN entries[d] /\ Len(entries'[d]) = Len(entries[d])
  /\ ~entries'[d][i].in_use /\ \A j \in DOMAIN entries[d] : j # i => entries'[d][j] = entries[d][j]
  /\ \A x \in Sector : x # d => entries'[x] = entries[x]
  /\ \A x \in Sector : x # d /\ x # s => open_cnt'[x] = open_cnt[x]
  /\ \A x \in Sector : open_cnt'[x] \in Nat /\ (open_cnt'[x] > 0 => open_cnt[x] > 0)
  /\ removed' = removed \cup {x \in {s} : open_cnt'[x] > 0}
  /\ free_map' = free_map \ {x \in {s} : open_cnt'[x] = 0}
  /\ is_dir' = is_dir /\ th[t].new = None /\ th'[t].new = None
  /\ \A u \in Process : u # t => th'[u] = th[u]
LEMMA UnlinkedTree ==
  ASSUME Base, Base', SafeInv, NEW t \in Process, NEW d, NEW i, NEW s, Unlinked(t, d, i, s)
  PROVE  TreeInv'
<1>1. /\ d \in Dirs /\ d \notin removed /\ s \in Sector /\ s # d /\ open_cnt[d] > 0
      /\ i \in Files(d) /\ entries[d][i].sector = s /\ (is_dir[s] => Files(s) = {})
      /\ DOMAIN entries'[d] = DOMAIN entries[d] /\ Len(entries'[d]) = Len(entries[d])
      /\ ~entries'[d][i].in_use /\ \A j \in DOMAIN entries[d] : j # i => entries'[d][j] = entries[d][j]
  BY DEF Unlinked
<1>2. /\ \A x \in Sector : x # d => entries'[x] = entries[x]
      /\ \A x \in Sector : x # d /\ x # s => open_cnt'[x] = open_cnt[x]
      /\ \A x \in Sector : open_cnt'[x] \in Nat /\ (open_cnt'[x] > 0 => open_cnt[x] > 0)
      /\ removed' = removed \cup {x \in {s} : open_cnt'[x] > 0}
      /\ free_map' = free_map \ {x \in {s} : open_cnt'[x] = 0}
      /\ is_dir' = is_dir /\ th[t].new = None /\ th'[t].new = None
      /\ \A u \in Process : u # t => th'[u] = th[u]
  BY DEF Unlinked
<1>3. \A c \in Dirs : \A j \in Files(c) : LET x == entries[c][j].sector IN
        /\ x \in free_map /\ x # ROOT_DIR_SECTOR /\ x \notin removed
        /\ \A u \in Process : th[u].new # x
        /\ is_dir[x] => entries[x][2].sector = c
        /\ \A e \in Dirs : \A k \in Files(e) : entries[e][k].sector = x => e = c /\ k = j
  BY DEF SafeInv, TreeInv, NameInv
<1>4. /\ s \in free_map /\ s # ROOT_DIR_SECTOR /\ s \notin removed
      /\ \A u \in Process : th[u].new # s
      /\ \A e \in Dirs : \A k \in Files(e) : entries[e][k].sector = s => e = d /\ k = i
  BY <1>1, <1>3
<1>5. free_map \subseteq Sector /\ removed \subseteq Sector /\ d \in Sector
  <2>1. free_map \subseteq Sector /\ removed \subseteq Sector
    BY TypesAre DEF Base
  <2> QED BY <1>1, <2>1 DEF Dirs
<1>6. /\ free_map' \subseteq free_map /\ \A x \in free_map : x # s => x \in free_map'
      /\ s \in free_map' <=> open_cnt'[s] > 0
      /\ s \in removed' <=> open_cnt'[s] > 0
      /\ \A x : x # s => (x \in removed' <=> x \in removed)
  BY <1>1, <1>2, <1>4
<1>7. Dirs' \subseteq Dirs /\ \A x \in Dirs : x # s => x \in Dirs'
  BY <1>2, <1>6 DEF Dirs
<1>8. /\ Files(d)' = Files(d) \ {i}
      /\ \A j \in Files(d)' : entries'[d][j] = entries[d][j]
      /\ \A j \in Files(d) : j # i => entries'[d][j] = entries[d][j]
  BY <1>1 DEF Files
<1>9. \A x \in Sector : x # d => Files(x)' = Files(x)
  BY <1>2 DEF Files
<1>10. \A x \in Dirs : x \in Sector /\ x \in free_map /\ is_dir[x] /\ DotsOK(x) /\ UniqueNames(x)
  BY <1>5 DEF SafeInv, TreeInv, DirInv, Dirs
<1>11. DotsOK(d)' /\ entries'[d][2] = entries[d][2]
  <2>1. entries[d] \in Seq(Slot)
    BY <1>5, TypesAre DEF Base
  <2>2. Len(entries[d]) \in Nat /\ DOMAIN entries[d] = 1..Len(entries[d])
    BY <2>1, LenProperties
  <2>3. DotsOK(d)
    BY <1>1, <1>10
  <2>4. 1 \in DOMAIN entries[d] /\ 2 \in DOMAIN entries[d]
    BY <2>2, <2>3 DEF DotsOK
  <2>5. entries'[d][1] = entries[d][1] /\ entries'[d][2] = entries[d][2]
    <3>1. entries[d][1].name \in Dots /\ entries[d][2].name \in Dots
      BY <2>3 DEF DotsOK, Dots
    <3>2. 1 # i /\ 2 # i
      BY <1>1, <3>1 DEF Files
    <3> QED BY <1>1, <2>4, <3>2
  <2>6. \A j \in DOMAIN entries'[d] :
          entries'[d][j].in_use /\ entries'[d][j].name \in Dots => j \in {1, 2}
    <3> SUFFICES ASSUME NEW j \in DOMAIN entries'[d], entries'[d][j].in_use, entries'[d][j].name \in Dots
                 PROVE  j \in {1, 2}
      OBVIOUS
    <3>1. j # i
      BY <1>1
    <3>2. j \in DOMAIN entries[d] /\ entries'[d][j] = entries[d][j]
      BY <1>1, <3>1
    <3> QED BY <2>3, <3>2 DEF DotsOK
  <2> QED BY <1>1, <2>3, <2>4, <2>5, <2>6 DEF DotsOK
<1>12. \A x \in Dirs : entries'[x][2] = entries[x][2]
  BY <1>2, <1>10, <1>11
<1>13. \A c \in Dirs' : \A j \in Files(c)' :
         c \in Dirs /\ j \in Files(c) /\ entries'[c][j] = entries[c][j] /\ entries[c][j].sector # s
  <2> SUFFICES ASSUME NEW c \in Dirs', NEW j \in Files(c)'
               PROVE  c \in Dirs /\ j \in Files(c) /\ entries'[c][j] = entries[c][j] /\ entries[c][j].sector # s
    OBVIOUS
  <2>1. c \in Dirs
    BY <1>7
  <2>2. CASE c = d
    BY <1>4, <1>8, <2>1, <2>2
  <2>3. CASE c # d
    BY <1>2, <1>4, <1>9, <1>10, <2>1, <2>3
  <2> QED BY <2>2, <2>3
<1>14. ASSUME NEW x, x # s, Named(x) PROVE Named(x)'
  <2>1. PICK c \in Dirs : \E j \in Files(c) : entries[c][j].sector = x
    BY <1>14 DEF Named
  <2>2. PICK j \in Files(c) : entries[c][j].sector = x
    BY <2>1
  <2>3. c # s
    BY <1>1, <1>10
  <2>4. j \in Files(c)' /\ entries'[c][j] = entries[c][j]
    <3>1. CASE c = d
      BY <1>1, <1>8, <1>14, <2>2, <3>1
    <3>2. CASE c # d
      BY <1>2, <1>9, <1>10, <3>2
    <3> QED BY <3>1, <3>2
  <2> QED BY <1>7, <2>2, <2>3, <2>4 DEF Named
<1>15. RootInv'
  <2>1. RootInv
    BY DEF SafeInv, TreeInv
  <2> QED BY <1>2, <1>4, <1>6, <1>12, <2>1 DEF RootInv, Dirs
<1>16. DirInv'
  <2> SUFFICES ASSUME NEW x \in Dirs' PROVE DotsOK(x)' /\ UniqueNames(x)'
    BY DEF DirInv
  <2>0. x \in Dirs /\ x \in Sector /\ DotsOK(x) /\ UniqueNames(x)
    BY <1>7, <1>10
  <2>1. CASE x = d
    <3>1. UniqueNames(d)'
      BY <1>8, <2>0, <2>1 DEF UniqueNames
    <3> QED BY <1>11, <2>1, <3>1
  <2>2. CASE x # d
    <3>1. entries'[x] = entries[x] /\ Files(x)' = Files(x)
      BY <1>2, <1>9, <2>0, <2>2
    <3> QED BY <2>0, <3>1 DEF DotsOK, UniqueNames
  <2> QED BY <2>1, <2>2
<1>17. NameInv'
  <2> SUFFICES ASSUME NEW c \in Dirs', NEW j \in Files(c)', NEW x, x = entries'[c][j].sector
               PROVE  /\ x \in free_map' /\ x # ROOT_DIR_SECTOR /\ x \notin removed'
                      /\ \A u \in Process : th'[u].new # x
                      /\ is_dir'[x] => entries'[x][2].sector = c
                      /\ \A e \in Dirs' : \A k \in Files(e)' : entries'[e][k].sector = x => e = c /\ k = j
    BY DEF NameInv
  <2>1. c \in Dirs /\ j \in Files(c) /\ x = entries[c][j].sector /\ x # s
    BY <1>13
  <2>2. /\ x \in free_map /\ x # ROOT_DIR_SECTOR /\ x \notin removed
        /\ \A u \in Process : th[u].new # x
        /\ is_dir[x] => entries[x][2].sector = c
        /\ \A e \in Dirs : \A k \in Files(e) : entries[e][k].sector = x => e = c /\ k = j
    BY <1>3, <2>1
  <2>3. \A u \in Process : th'[u].new # x
    BY <1>2, <2>2
  <2>4. is_dir'[x] => entries'[x][2].sector = c
    BY <1>2, <1>12, <2>2 DEF Dirs
  <2>5. \A e \in Dirs' : \A k \in Files(e)' : entries'[e][k].sector = x => e = c /\ k = j
    BY <1>13, <2>2
  <2> QED BY <1>6, <2>1, <2>2, <2>3, <2>4, <2>5
<1>18. RemovedInv'
  <2> SUFFICES ASSUME NEW x \in removed'
               PROVE  /\ open_cnt'[x] > 0 /\ x \in free_map' /\ x # ROOT_DIR_SECTOR
                      /\ is_dir'[x] => Files(x)' = {}
    BY DEF RemovedInv
  <2>1. CASE x = s
    BY <1>1, <1>2, <1>4, <1>6, <1>9, <2>1
  <2>2. CASE x # s
    <3>1. x \in removed /\ x # d /\ x \in Sector
      BY <1>1, <1>5, <1>6, <2>2
    <3>2. open_cnt[x] > 0 /\ x \in free_map /\ x # ROOT_DIR_SECTOR /\ (is_dir[x] => Files(x) = {})
      BY <3>1 DEF SafeInv, TreeInv, RemovedInv
    <3> QED BY <1>2, <1>6, <1>9, <2>2, <3>1, <3>2
  <2> QED BY <2>1, <2>2
<1>19. OpenInv'
  <2> SUFFICES ASSUME NEW x \in Sector, open_cnt'[x] > 0
               PROVE  x \in free_map' /\ (x \in removed' \/ x = ROOT_DIR_SECTOR \/ Named(x)')
    BY DEF OpenInv
  <2>1. CASE x = s
    BY <1>6, <2>1
  <2>2. CASE x # s
    <3>1. open_cnt[x] > 0
      BY <1>2
    <3>2. x \in free_map /\ (x \in removed \/ x = ROOT_DIR_SECTOR \/ Named(x))
      BY <3>1 DEF SafeInv, TreeInv, OpenInv
    <3> QED BY <1>6, <1>14, <2>2, <3>2
  <2> QED BY <2>1, <2>2
<1>20. UsedInv'
  <2> SUFFICES ASSUME NEW x \in free_map'
               PROVE  x = ROOT_DIR_SECTOR \/ open_cnt'[x] > 0 \/ Named(x)' \/ \E u \in Process : th'[u].new = x
    BY DEF UsedInv
  <2>1. CASE x = s
    BY <1>6, <2>1
  <2>2. CASE x # s
    <3>1. x \in free_map /\ x \in Sector /\ x # None
      BY <1>5, <1>6, Sizes
    <3>2. x = ROOT_DIR_SECTOR \/ open_cnt[x] > 0 \/ Named(x) \/ \E u \in Process : th[u].new = x
      BY <3>1 DEF SafeInv, TreeInv, UsedInv
    <3>3. CASE open_cnt[x] > 0
      <4>1. x \in removed \/ x = ROOT_DIR_SECTOR \/ Named(x)
        BY <3>1, <3>3 DEF SafeInv, TreeInv, OpenInv
      <4>2. x \in removed => open_cnt'[x] > 0
        BY <1>1, <1>2, <2>2, <3>1, <3>3
      <4> QED BY <1>14, <2>2, <4>1, <4>2
    <3>4. ASSUME NEW u \in Process, th[u].new = x PROVE th'[u].new = x
      BY <1>2, <3>1, <3>4
    <3> QED BY <1>14, <2>2, <3>2, <3>3, <3>4
  <2> QED BY <2>1, <2>2
<1>21. NewInv'
  <2> SUFFICES ASSUME NEW u \in Process, u # t, th[u].new # None PROVE NewOK(u)'
    BY <1>2 DEF NewInv, NewOK
  <2>1. PICK x : x = th[u].new
    OBVIOUS
  <2>2. /\ x \in free_map /\ x # ROOT_DIR_SECTOR /\ open_cnt[x] = 0
        /\ is_dir[x] => entries[x][2].sector = th[u].dir /\ Files(x) = {}
        /\ \A w \in Process : th[w].new = x => w = u
    BY <2>1 DEF SafeInv, TreeInv, NewInv, NewOK
  <2>3. th'[u] = th[u] /\ th'[u].new = x /\ x # None /\ x # s
    BY <1>2, <1>4, <2>1
  <2>4. x # d /\ x \in Sector /\ x \in free_map'
    BY <1>1, <1>5, <1>6, <2>2, <2>3
  <2>5. entries'[x] = entries[x] /\ Files(x)' = Files(x) /\ open_cnt'[x] = 0
    BY <1>2, <1>9, <2>2, <2>3, <2>4
  <2>6. \A w \in Process : th'[w].new = x => w = u
    BY <1>2, <2>2, <2>3
  <2> QED BY <1>2, <2>1, <2>2, <2>3, <2>4, <2>5, <2>6 DEF NewOK
<1> QED BY <1>15, <1>16, <1>17, <1>18, <1>19, <1>20, <1>21 DEF TreeInv

LEMMA OverwrittenIs ==
  ASSUME NEW e \in Seq(Slot), NEW i, NEW y \in Slot
  PROVE  /\ [e EXCEPT ![i] = y] \in Seq(Slot) /\ DOMAIN [e EXCEPT ![i] = y] = DOMAIN e
         /\ Len([e EXCEPT ![i] = y]) = Len(e)
         /\ i \in DOMAIN e => [e EXCEPT ![i] = y][i] = y
         /\ \A j \in DOMAIN e : j # i => [e EXCEPT ![i] = y][j] = e[j]
<1>1. PICK n \in Nat : n = Len(e) /\ DOMAIN e = 1..n
  BY LenProperties
<1>2. e \in [1..n -> Slot]
  BY <1>1
<1>3. PICK f : f = [e EXCEPT ![i] = y]
  OBVIOUS
<1>4. f \in [1..n -> Slot] /\ (i \in 1..n => f[i] = y) /\ \A j \in 1..n : j # i => f[j] = e[j]
  BY <1>2, <1>3
<1>5. f \in Seq(Slot) /\ DOMAIN f = 1..n
  BY <1>4
<1>6. DOMAIN f = 1..Len(f) /\ Len(f) \in Nat
  BY <1>5, LenProperties
<1>7. Len(f) = n
  BY <1>5, <1>6
<1> QED BY <1>1, <1>3, <1>4, <1>5, <1>7

LEMMA EraseEntryKeeps ==
  ASSUME IInv, NEW t \in Process, EraseEntry(t)
  PROVE  IInv'
<1>1. PICK o, s, d, i, y, r :
        /\ o = th[t] /\ s = o.child /\ d = o.dir /\ i = o.ofs
        /\ y = [o.ent EXCEPT !.in_use = FALSE] /\ r = Rest(o.calls)
  OBVIOUS
<1>2. /\ Base /\ panic = "no" /\ o.pc = "erase entry" /\ Watch
      /\ entries' = [entries EXCEPT ![d][i] = y]
      /\ Inodes(<<>>, <<s, d>>, {s})
      /\ th' = [th EXCEPT ![t] = Rest(@.calls)]
      /\ UNCHANGED <<is_dir, fds, pwd, panic, lost>>
  BY <1>1 DEF EraseEntry, IInv, Running, Return
<1>3. is_dir' = is_dir /\ fds' = fds /\ pwd' = pwd /\ lost' = lost /\ panic' = panic
  BY <1>2
<1>4. /\ o \in ThreadRec /\ LocalsOK(o) /\ th \in [Process -> ThreadRec] /\ o.calls \in Nat
      /\ o.ent \in Slot /\ i \in Nat \ {0}
      /\ fds \in [Process -> [Fd -> FileRec]] /\ pwd \in [Process -> Sector \cup {None}]
  BY <1>1, <1>2, CallIs
<1>5. InCall(t) /\ s = o.ent.sector /\ s \in Sector /\ d \in Sector /\ o.new = None
  <2>1. InCall(t) /\ o.ent.sector \in Sector /\ d \in Sector /\ o.new = None
    BY <1>1, <1>2, EntryIs DEF Reading
  <2>2. s = o.ent.sector
    BY <1>1, <1>2, <1>4 DEF LocalsOK
  <2> QED BY <2>1, <2>2
<1>6. o.call = "remove" /\ o.call \in Mutators /\ open_cnt[d] > 0
  <2>1. o.call = "remove"
    BY <1>2, <1>4 DEF LocalsOK, Removing
  <2>2. open_cnt[d] > 0
    BY <1>1, <1>2, <1>5 DEF Base, OpenHeld
  <2> QED BY <2>1, <2>2 DEF Mutators
<1>7. /\ r \in ThreadRec /\ LocalsOK(r) /\ r.pc = "user" /\ r.dir = None /\ r.child = None /\ r.new = None
      /\ r.pc \in Outside
  BY <1>1, <1>4, RestIs
<1>8. th' = [th EXCEPT ![t] = r]
  BY <1>1, <1>2, <1>4
<1>9. OwnOK(t, r)
  <2>1. FdsOK(fds[t]) /\ pwd[t] # None
    BY <1>1, <1>2 DEF Base, LocalInv
  <2> QED BY <1>3, <1>4, <1>7, <1>8, <2>1 DEF OwnOK
<1>10. /\ free_map \subseteq Sector /\ removed \subseteq Sector /\ is_dir \in [Sector -> BOOLEAN]
       /\ entries \in [Sector -> Seq(Slot)] /\ open_cnt \in [Sector -> Nat] /\ lost \in [Sector -> Nat]
  BY <1>2, TypesAre DEF Base
<1>11. y \in Slot /\ ~y.in_use
  <2>1. FALSE \in BOOLEAN
    OBVIOUS
  <2> QED BY <1>1, <1>4, <2>1 DEF Slot
<1>12. PICK e, f : e = entries[d] /\ f = [e EXCEPT ![i] = y]
  OBVIOUS
<1>13. /\ e \in Seq(Slot) /\ f \in Seq(Slot) /\ DOMAIN f = DOMAIN e /\ Len(f) = Len(e)
       /\ i \in DOMAIN e => f[i] = y
       /\ \A j \in DOMAIN e : j # i => f[j] = e[j]
  <2>1. e \in Seq(Slot)
    BY <1>5, <1>10, <1>12
  <2> QED BY <1>11, <1>12, <2>1, OverwrittenIs
<1>14. /\ entries' \in [Sector -> Seq(Slot)] /\ entries'[d] = f
       /\ \A x \in Sector : x # d => entries'[x] = entries[x]
  <2>1. entries' = [entries EXCEPT ![d] = f]
    BY <1>2, <1>5, <1>10, <1>12
  <2> QED BY <1>5, <1>10, <1>13, <2>1
<1>15. /\ Countable(<<>>, <<s, d>>)
       /\ \A x \in Sector : /\ Count(<<>>, x) = 0 /\ Count(<<s, d>>, x) = Bit(s = x) + Bit(d = x)
                            /\ Bit(s = x) \in Nat /\ Bit(d = x) \in Nat
  <2>1. ASSUME NEW x \in Sector PROVE Count(<<>>, x) = 0 /\ Count(<<s, d>>, x) = Bit(s = x) + Bit(d = x)
    BY CountSeq
  <2>2. ASSUME NEW x \in Sector PROVE Bit(s = x) \in Nat /\ Bit(d = x) \in Nat
    BY DEF Bit
  <2>3. Countable(<<>>, <<s, d>>)
    <3> SUFFICES ASSUME NEW x \in Sector PROVE Count(<<>>, x) \in Nat /\ Count(<<s, d>>, x) \in Nat
      BY DEF Countable
    <3> QED BY <2>1, <2>2
  <2> QED BY <2>1, <2>2, <2>3
<1>16. /\ open_cnt' \in [Sector -> Int]
       /\ \A x \in Sector : open_cnt'[x] = open_cnt[x] + Count(<<>>, x) - Count(<<s, d>>, x)
       /\ removed' = {x \in removed \cup {s} : open_cnt'[x] # 0}
       /\ free_map' = free_map \ {x \in removed \cup {s} : open_cnt'[x] = 0}
       /\ free_map' \subseteq Sector /\ removed' \subseteq Sector
  <2>1. {s} \in SUBSET Sector
    BY <1>5
  <2> QED BY <1>2, <1>15, <2>1, InodesAre DEF Base
<1>17. \A x \in Sector : open_cnt'[x] = open_cnt[x] + 0 - (Bit(s = x) + Bit(d = x))
  <2> SUFFICES ASSUME NEW x \in Sector PROVE open_cnt'[x] = open_cnt[x] + 0 - (Bit(s = x) + Bit(d = x))
    OBVIOUS
  <2>1. Count(<<>>, x) = 0 /\ Count(<<s, d>>, x) = Bit(s = x) + Bit(d = x)
    BY <1>15
  <2>2. open_cnt'[x] = open_cnt[x] + Count(<<>>, x) - Count(<<s, d>>, x)
    BY <1>16
  <2> QED BY <2>1, <2>2
<1>18. Even(t, r)
  <2> SUFFICES ASSUME NEW x \in Sector
               PROVE  open_cnt'[x] + lost[x] + Bit(d = x) + Bit(s = x)
                        = open_cnt[x] + lost[x] + Bit(None = x) + Bit(None = x)
    <3>1. lost' = lost /\ th[t].dir = d /\ th[t].child = s /\ r.dir = None /\ r.child = None
      BY <1>1, <1>3, <1>7
    <3> QED BY <3>1 DEF Even
  <2>1. Bit(None = x) = 0
    BY Sizes DEF Bit
  <2>2. PICK m, l, a, b \in Nat : m = open_cnt[x] /\ l = lost[x] /\ a = Bit(s = x) /\ b = Bit(d = x)
    BY <1>10, <1>15
  <2>3. (m + 0 - (a + b)) + l + b + a = m + l + 0 + 0
    OBVIOUS
  <2> QED BY <1>17, <2>1, <2>2, <2>3
<1>19. DiskOK(t)
  <2>1. EntryInv'
    <3> SUFFICES ASSUME NEW x \in Sector, NEW j \in DOMAIN entries'[x], entries'[x][j].in_use
                 PROVE  entries'[x][j].sector # None
      BY DEF EntryInv
    <3>1. CASE x # d
      BY <1>2, <1>14, <3>1 DEF Base, EntryInv
    <3>2. CASE x = d
      <4>1. j \in DOMAIN e /\ j # i
        BY <1>11, <1>13, <1>14, <3>2
      <4>2. entries'[x][j] = entries[d][j] /\ j \in DOMAIN entries[d]
        BY <1>12, <1>13, <1>14, <3>2, <4>1
      <4> QED BY <1>2, <1>5, <4>2 DEF Base, EntryInv
    <3> QED BY <3>1, <3>2
  <2>2. Balanced(t)
    BY <1>2, <1>3, <1>8, <1>10, <1>16, <1>18, BalanceOf DEF Base
  <2> QED BY <1>3, <1>10, <1>14, <1>16, <2>1, <2>2 DEF DiskOK
<1>20. Base' /\ th'[t] = r /\ Others(t)
  BY <1>2, <1>9, <1>19, BaseStep
<1>21. ASSUME Safe' PROVE SafeInv'
  <2>1. Safe
    BY <1>2, <1>21 DEF Safe, Watch
  <2>2. SafeInv
    BY <2>1 DEF IInv
  <2>3. /\ d \in Dirs /\ d \notin removed /\ PlaceOK(e, o)
        /\ is_dir[s] => Files(s) = {}
    BY <1>1, <1>2, <1>5, <1>12, <2>2 DEF SafeInv, CallInv, CallOK, Erasing
  <2>4. s \notin removed /\ s \in free_map
    BY <1>1, <1>2, <1>5, <2>2, VictimNamed DEF Erasing
  <2>5. i \in DOMAIN e /\ e[i] = o.ent /\ i \in Files(d)
    <3>1. i <= Len(e) /\ e[i] = o.ent /\ Hit(o.ent, o) /\ Head(o.names) \notin Dots
      BY <1>1, <1>2, <2>3 DEF PlaceOK, Reading, Removing
    <3>2. Len(e) \in Nat /\ DOMAIN e = 1..Len(e)
      BY <1>13, LenProperties
    <3>3. i \in DOMAIN e
      BY <1>4, <3>1, <3>2, InRange
    <3> QED BY <1>12, <3>1, <3>3 DEF Hit, Files
  <2>6. s # d
    BY <2>3, <2>5 DEF Dirs
  <2>7. \A x \in Sector : open_cnt'[x] \in Nat
    <3>1. TypeOK'
      BY <1>20 DEF Base
    <3> QED BY <3>1 DEF TypeOK
  <2>8. /\ \A x \in Sector : x # d /\ x # s => open_cnt'[x] = open_cnt[x]
        /\ \A x \in Sector : open_cnt'[x] > 0 => open_cnt[x] > 0
    <3> SUFFICES ASSUME NEW x \in Sector
                 PROVE  /\ x # d /\ x # s => open_cnt'[x] = open_cnt[x]
                        /\ open_cnt'[x] > 0 => open_cnt[x] > 0
      OBVIOUS
    <3>1. PICK m, a, b \in Nat : m = open_cnt[x] /\ a = Bit(s = x) /\ b = Bit(d = x)
      BY <1>10, <1>15
    <3>2. open_cnt'[x] = m + 0 - (a + b)
      BY <1>17, <3>1
    <3>3. x # d /\ x # s => a = 0 /\ b = 0
      BY <3>1 DEF Bit
    <3>4. a = 0 /\ b = 0 => m + 0 - (a + b) = m
      OBVIOUS
    <3>5. m + 0 - (a + b) > 0 => m > 0
      OBVIOUS
    <3> QED BY <3>1, <3>2, <3>3, <3>4, <3>5
  <2>9. \A x \in removed : open_cnt'[x] # 0
    <3> SUFFICES ASSUME NEW x \in removed PROVE open_cnt'[x] # 0
      OBVIOUS
    <3>1. open_cnt[x] > 0
      BY <2>2 DEF SafeInv, TreeInv, RemovedInv
    <3>2. x # d /\ x # s /\ x \in Sector
      BY <1>10, <2>3, <2>4
    <3> QED BY <2>8, <3>1, <3>2
  <2>10. open_cnt'[s] > 0 <=> open_cnt'[s] # 0
    BY <1>5, <2>7
  <2>11. /\ removed' = removed \cup {x \in {s} : open_cnt'[x] > 0}
         /\ free_map' = free_map \ {x \in {s} : open_cnt'[x] = 0}
    BY <1>16, <2>9, <2>10
  <2>12. Unlinked(t, d, i, s)
    <3>1. /\ i \in Files(d) /\ entries[d][i].sector = s
          /\ DOMAIN entries'[d] = DOMAIN entries[d] /\ Len(entries'[d]) = Len(entries[d])
          /\ ~entries'[d][i].in_use
          /\ \A j \in DOMAIN entries[d] : j # i => entries'[d][j] = entries[d][j]
      BY <1>5, <1>11, <1>12, <1>13, <1>14, <2>5
    <3>2. th[t].new = None /\ th'[t].new = None /\ \A u \in Process : u # t => th'[u] = th[u]
      BY <1>1, <1>5, <1>7, <1>20 DEF Others
    <3> QED BY <1>3, <1>5, <1>6, <1>14, <2>3, <2>6, <2>7, <2>8, <2>11, <3>1, <3>2 DEF Unlinked
  <2>13. TreeInv'
    BY <1>2, <1>20, <2>2, <2>12, UnlinkedTree
  <2>14. Local(t)
    <3>1. Changing(t)
      BY <1>1, <1>5, <1>6 DEF Changing
    <3>2. \A x \in free_map : open_cnt'[x] > 0 => x \in free_map'
      BY <2>11
    <3>3. \A x \in free_map : entries'[x] = entries[x] \/ x = th[t].dir
      BY <1>1, <1>10, <1>14
    <3>4. \A x \in removed' : x \in removed \/ x = th[t].child
      BY <1>1, <2>11
    <3> QED BY <1>3, <3>1, <3>2, <3>3, <3>4 DEF Local
  <2>15. CallOK(t)'
    BY <1>7, <1>20 DEF CallOK, InCall
  <2> QED BY <1>2, <1>3, <1>20, <2>1, <2>2, <2>13, <2>14, <2>15, SafeStep
<1> QED BY <1>20, <1>21 DEF IInv

-----------------------------------------------------------------------------
(* The first state, and every step. *)

(* At first the processes hold the root directory. *)
LEMMA InitHolders ==
  ASSUME Init, NEW s \in Sector
  PROVE  Cardinality(Holders(s)) = IF s = ROOT_DIR_SECTOR THEN Cardinality(Process) ELSE 0
<1>1. ASSUME NEW t \in Process, NEW i \in Ref PROVE Holds(t)[i] = IF i = 1 THEN ROOT_DIR_SECTOR ELSE None
  <2>1. /\ pwd[t] = ROOT_DIR_SECTOR /\ th[t].dir = None /\ th[t].child = None
        /\ \A f \in Fd : fds[t][f].sector = None
    BY DEF Init, Rest, NoFile
  <2>2. Holds(t) = Refs(pwd[t], th[t].dir, th[t].child, fds[t])
    BY DEF Holds, Refs
  <2>3. PICK q : q = Holds(t)
    OBVIOUS
  <2>4. /\ i \in {1, 2, 3} \/ i - 3 \in Fd
        /\ q[1] = ROOT_DIR_SECTOR /\ q[2] = None /\ q[3] = None
        /\ \A f \in Fd : q[f + 3] = fds[t][f].sector /\ f + 3 \notin {1, 2, 3}
    BY <2>1, <2>2, <2>3, RefsAre
  <2>5. CASE i \in {1, 2, 3}
    BY <2>3, <2>4, <2>5
  <2>6. CASE i - 3 \in Fd
    <3>1. PICK f \in Fd : f = i - 3
      BY <2>6
    <3>2. i = f + 3
      BY <3>1, Sizes
    <3>3. q[i] = None /\ i # 1
      BY <2>1, <2>4, <3>2
    <3> QED BY <2>3, <3>3
  <2> QED BY <2>4, <2>5, <2>6
<1>2. CASE s # ROOT_DIR_SECTOR
  <2>1. Holders(s) = {}
    BY <1>1, <1>2, Sizes DEF Holders
  <2> QED BY <1>2, <2>1, FS_EmptySet
<1>3. CASE s = ROOT_DIR_SECTOR
  <2>1. 1 \in Ref
    BY Sizes DEF Ref
  <2>2. ASSUME NEW h \in Holders(s) PROVE h[1] \in Process /\ h = <<h[1], 1>>
    <3>1. h \in Process \X Ref /\ Holds(h[1])[h[2]] = s
      BY DEF Holders
    <3>2. PICK t \in Process, i \in Ref : h = <<t, i>>
      BY <3>1
    <3>3. h[1] = t /\ h[2] = i
      BY <3>2
    <3>4. Holds(t)[i] = s
      BY <3>1, <3>3
    <3>5. i = 1
      BY <1>1, <1>3, <3>4, Sizes
    <3> QED BY <3>2, <3>3, <3>5
  <2>3. \A t \in Process : <<t, 1>> \in Holders(s)
    BY <1>1, <1>3, <2>1 DEF Holders
  <2>4. PICK f : f = [t \in Process |-> <<t, 1>>]
    OBVIOUS
  <2>5. f \in [Process -> Holders(s)]
    BY <2>3, <2>4
  <2>6. \A t, u \in Process : f[t] = f[u] => t = u
    BY <2>4
  <2>7. \A h \in Holders(s) : \E t \in Process : f[t] = h
    BY <2>2, <2>4
  <2>8. IsFiniteSet(Process)
    BY Sizes
  <2>9. Cardinality(Holders(s)) = Cardinality(Process)
    BY <2>5, <2>6, <2>7, <2>8, CountImage
  <2> QED BY <1>3, <2>9
<1> QED BY <1>2, <1>3

LEMMA InitKeeps == Init => IInv
<1> SUFFICES ASSUME Init PROVE IInv
  OBVIOUS
<1>1. PICK R, new : R = ROOT_DIR_SECTOR /\ new = NewDir(R, R)
  OBVIOUS
<1>2. R \in Sector /\ R # None /\ R = ROOT_DIR_SECTOR
  BY <1>1, Sizes
<1>3. /\ new \in Seq(Slot) /\ Len(new) >= 2 /\ Len(new) \in Nat
      /\ DOMAIN new = 1..Len(new)
      /\ new[1] = [name |-> ".", sector |-> R, in_use |-> TRUE]
      /\ new[2] = [name |-> "..", sector |-> R, in_use |-> TRUE]
      /\ \A k \in DOMAIN new : k \in {1, 2} \/ new[k] = FreeSlot
  BY <1>1, <1>2, NewDirIs
<1>4. \A k \in DOMAIN new : new[k].in_use => k \in {1, 2} /\ new[k].sector # None /\ new[k].name \in Dots
  <2>1. ~FreeSlot.in_use /\ "." \in Dots /\ ".." \in Dots
    BY DEF FreeSlot, Dots
  <2>2. \A k \in DOMAIN new : new[k].in_use => k \in {1, 2}
    BY <1>3, <2>1
  <2>3. new[1].sector = R /\ new[2].sector = R /\ new[1].name = "." /\ new[2].name = ".."
    BY <1>3
  <2> QED BY <1>2, <2>1, <2>2, <2>3
<1>5. /\ free_map = {R} /\ is_dir = [s \in Sector |-> s = R]
      /\ entries = [s \in Sector |-> IF s = R THEN new ELSE <<>>]
      /\ open_cnt = [s \in Sector |-> IF s = R THEN Cardinality(Process) ELSE 0]
      /\ removed = {} /\ fds = [t \in Process |-> [f \in Fd |-> NoFile]]
      /\ pwd = [t \in Process |-> R] /\ th = [t \in Process |-> Rest(0)]
      /\ panic = "no" /\ lost = [s \in Sector |-> 0] /\ unsafe = FALSE
  BY <1>1 DEF Init
<1>6. Cardinality(Process) \in Nat /\ \A t \in Process : Cardinality(Process) > 0
  <2>1. IsFiniteSet(Process) /\ Cardinality(Process) \in Nat
    BY Sizes, FS_CardinalityType
  <2>2. ASSUME NEW t \in Process PROVE Cardinality(Process) # 0
    BY <2>1, FS_EmptySet
  <2> QED BY <2>1, <2>2
<1>7. /\ \A s \in Sector : entries[s] = (IF s = R THEN new ELSE <<>>) /\ is_dir[s] \in BOOLEAN
      /\ \A s \in Sector : is_dir[s] <=> s = R
      /\ \A s \in Sector : lost[s] = 0 /\ open_cnt[s] = IF s = R THEN Cardinality(Process) ELSE 0
  BY <1>5
<1>8. \A t \in Process :
        /\ th[t] = Rest(0) /\ Rest(0) \in ThreadRec /\ LocalsOK(th[t]) /\ th[t].pc = "user"
        /\ th[t].dir = None /\ th[t].child = None /\ th[t].new = None /\ pwd[t] = R
        /\ fds[t] \in [Fd -> FileRec] /\ FdsOK(fds[t]) /\ ~InCall(t)
  <2>1. 0 \in Nat
    OBVIOUS
  <2>2. /\ Rest(0) \in ThreadRec /\ LocalsOK(Rest(0)) /\ Rest(0).pc = "user"
        /\ Rest(0).dir = None /\ Rest(0).child = None /\ Rest(0).new = None
    BY <2>1, RestIs
  <2>3. ASSUME NEW t \in Process PROVE fds[t] \in [Fd -> FileRec] /\ FdsOK(fds[t])
    BY <1>5, NoFileIs DEF FdsOK
  <2> QED BY <1>5, <2>2, <2>3 DEF InCall
<1>9. TypeOK
  <2>1. entries \in [Sector -> Seq(Slot)]
    <3>1. <<>> \in Seq(Slot)
      OBVIOUS
    <3> QED BY <1>3, <1>5, <3>1
  <2>2. open_cnt \in [Sector -> Nat] /\ lost \in [Sector -> Nat]
    BY <1>5, <1>6
  <2>3. th \in [Process -> ThreadRec] /\ fds \in [Process -> [Fd -> FileRec]]
    BY <1>5, <1>8
  <2>4. is_dir \in [Sector -> BOOLEAN] /\ pwd \in [Process -> Sector \cup {None}]
        /\ free_map \subseteq Sector /\ removed \subseteq Sector
    BY <1>2, <1>5
  <2> QED BY <2>1, <2>2, <2>3, <2>4 DEF TypeOK, ThreadRec, FileRec
<1>10. LocalInv
  BY <1>2, <1>8 DEF LocalInv
<1>11. EntryInv
  <2> SUFFICES ASSUME NEW d \in Sector, NEW k \in DOMAIN entries[d], entries[d][k].in_use
               PROVE  entries[d][k].sector # None
    BY DEF EntryInv
  <2>1. d = R
    <3>1. DOMAIN <<>> = {}
      OBVIOUS
    <3> QED BY <1>7, <3>1
  <2> QED BY <1>4, <1>7, <2>1
<1>12. CountInv
  <2> SUFFICES ASSUME NEW s \in Sector PROVE open_cnt[s] = 0 + Cardinality(Holders(s))
    BY <1>7 DEF CountInv
  <2>1. Cardinality(Holders(s)) = open_cnt[s] /\ open_cnt[s] \in Nat
    BY <1>2, <1>6, <1>7, InitHolders
  <2> QED BY <2>1
<1>13. OpenHeld
  BY <1>6, <1>7, <1>8, Sizes DEF OpenHeld
<1>14. ~Meet
  BY <1>8 DEF Meet
<1>15. Dirs = {R}
  BY <1>2, <1>5, <1>7 DEF Dirs
<1>16. Files(R) = {}
  BY <1>2, <1>4, <1>7 DEF Files
<1>17. \A x : ~Named(x)
  BY <1>15, <1>16 DEF Named
<1>18. RootInv
  BY <1>2, <1>3, <1>5, <1>7 DEF RootInv
<1>19. DirInv
  <2>1. DotsOK(R)
    BY <1>2, <1>3, <1>4, <1>7 DEF DotsOK
  <2> QED BY <1>15, <1>16, <2>1 DEF DirInv, UniqueNames
<1>20. NameInv /\ RemovedInv
  BY <1>5, <1>15, <1>16 DEF NameInv, RemovedInv
<1>21. OpenInv
  BY <1>2, <1>5, <1>7 DEF OpenInv
<1>22. UsedInv
  BY <1>2, <1>5 DEF UsedInv
<1>23. NewInv
  BY <1>8 DEF NewInv, NewOK
<1>24. CallInv
  BY <1>8 DEF CallInv, CallOK
<1>25. PwdInv
  BY <1>2, <1>7, <1>8 DEF PwdInv
<1> QED BY <1>9, <1>10, <1>11, <1>12, <1>13, <1>14, <1>18, <1>19, <1>20, <1>21, <1>22, <1>23, <1>24, <1>25
        DEF IInv, Base, SafeInv, TreeInv

LEMMA NextKeeps ==
  ASSUME IInv, [Next]_vars
  PROVE  IInv'
<1>1. CASE UNCHANGED vars
  <2>1. /\ free_map' = free_map /\ is_dir' = is_dir /\ entries' = entries /\ open_cnt' = open_cnt
        /\ removed' = removed /\ fds' = fds /\ pwd' = pwd /\ th' = th /\ panic' = panic
        /\ lost' = lost /\ unsafe' = unsafe
    BY <1>1 DEF vars, disk
  <2>2. /\ Dirs' = Dirs /\ \A d : Files(d)' = Files(d)
    BY <2>1 DEF Dirs, Files
  <2>3. \A t \in Process : (InCall(t)' <=> InCall(t)) /\ At(t)' = At(t) /\ FreeFds(t)' = FreeFds(t)
    BY <2>1 DEF InCall, At, FreeFds
  <2>4. TypeOK' <=> TypeOK
    BY <2>1 DEF TypeOK
  <2>5. /\ LocalInv' <=> LocalInv
        /\ EntryInv' <=> EntryInv
        /\ OpenHeld' <=> OpenHeld
        /\ Meet' <=> Meet
    <3>1. LocalInv' <=> LocalInv
      BY <2>1, <2>3 DEF LocalInv
    <3>2. (EntryInv' <=> EntryInv) /\ (OpenHeld' <=> OpenHeld)
      BY <2>1 DEF EntryInv, OpenHeld
    <3>3. Meet' <=> Meet
      BY <2>1, <2>3 DEF Meet
    <3> QED BY <3>1, <3>2, <3>3
  <2>6. CountInv' <=> CountInv
    <3>1. \A s : Holders(s)' = Holders(s)
      BY <2>1 DEF Holders, Holds
    <3> QED BY <2>1, <3>1 DEF CountInv
  <2>7. \A s : Named(s)' <=> Named(s)
    BY <2>1, <2>2 DEF Named
  <2>8. \A d : (DotsOK(d)' <=> DotsOK(d)) /\ (UniqueNames(d)' <=> UniqueNames(d))
    BY <2>1, <2>2 DEF DotsOK, UniqueNames
  <2>9. TreeInv' <=> TreeInv
    <3>1. (RootInv' <=> RootInv) /\ (DirInv' <=> DirInv)
      BY <2>1, <2>2, <2>8 DEF RootInv, DirInv
    <3>2. NameInv' <=> NameInv
      BY <2>1, <2>2 DEF NameInv
    <3>3. (RemovedInv' <=> RemovedInv) /\ (OpenInv' <=> OpenInv) /\ (UsedInv' <=> UsedInv)
      BY <2>1, <2>2, <2>7 DEF RemovedInv, OpenInv, UsedInv
    <3>4. NewInv' <=> NewInv
      BY <2>1, <2>2 DEF NewInv, NewOK
    <3> QED BY <3>1, <3>2, <3>3, <3>4 DEF TreeInv
  <2>10. (CallInv' <=> CallInv) /\ (PwdInv' <=> PwdInv)
    <3>1. \A t \in Process : Files(th[t].ent.sector)' = Files(th[t].ent.sector)
      BY <2>1 DEF Files
    <3>2. CallInv' <=> CallInv
      BY <2>1, <2>2, <2>3, <3>1 DEF CallInv, CallOK
    <3> QED BY <2>1, <3>2 DEF PwdInv
  <2> QED BY <2>1, <2>4, <2>5, <2>6, <2>9, <2>10 DEF IInv, Base, SafeInv, Safe
<1>2. ASSUME NEW t \in Process, KernelStep(t) PROVE IInv'
  BY <1>2, LookupFound, LookupNext, NotFoundKeeps, EnterKeeps, OpenLeafKeeps, AllocateKeeps, FindSlotKeeps,
     WriteSlotKeeps, CheckLeafKeeps, OpenVictimKeeps, EraseEntryKeeps DEF KernelStep
<1>3. ASSUME NEW t \in Process, UserStep(t) PROVE IInv'
  <2>1. ASSUME NEW call \in Calls, NEW path \in Paths, Begin(t, call, path) PROVE IInv'
    BY <2>1, BeginKeeps
  <2>2. ASSUME NEW f \in Fd, close(t, f) \/ readdir(t, f) PROVE IInv'
    BY <2>2, closeKeeps, readdirKeeps
  <2>3. ASSUME Exit(t) PROVE IInv'
    BY <2>3, ExitKeeps
  <2> QED BY <1>3, <2>1, <2>2, <2>3 DEF UserStep
<1> QED BY <1>1, <1>2, <1>3 DEF Next, Finished

(* The invariant holds in every state. *)
LEMMA IInvAlways == Spec => []IInv
<1>1. Init => IInv
  BY InitKeeps
<1>2. IInv /\ [Next]_vars => IInv'
  BY NextKeeps
<1> QED BY <1>1, <1>2, PTL DEF Spec

-----------------------------------------------------------------------------
(* The theorems. *)

(* The counters and the free map are always right, until the kernel stops or *)
(* two calls have met (inode_open, inode_close, filesys_create,              *)
(* filesys_remove, dir_add and dir_remove together): the counter of an inode *)
(* is the number of its openers and of those that forgot to close it, and    *)
(* the allocated inodes are those that have a name, are open or are being    *)
(* created.                                                                  *)
THEOREM InodesAccountedAlways == Spec => []InodesAccounted
<1>1. IInv => InodesAccounted
  <2> SUFFICES ASSUME IInv, Safe
               PROVE  /\ \A s \in Sector : open_cnt[s] = lost[s] + Cardinality(Holders(s))
                      /\ free_map = {ROOT_DIR_SECTOR} \cup {s \in Sector : open_cnt[s] > 0}
                           \cup (UNION {{entries[d][k].sector : k \in Files(d)} : d \in Dirs})
                           \cup ({th[t].new : t \in Process} \ {None})
    BY DEF InodesAccounted, Holders, Ref
  <2>1. Base /\ SafeInv
    BY DEF IInv
  <2>2. \A s \in Sector : open_cnt[s] = lost[s] + Cardinality(Holders(s))
    BY <2>1 DEF Base, CountInv
  <2>4. \A s : s \in UNION {{entries[d][k].sector : k \in Files(d)} : d \in Dirs} <=> Named(s)
    BY DEF Named
  <2>5. free_map \subseteq Sector
    BY <2>1, TypesAre DEF Base
  <2>6. ASSUME NEW s \in free_map
        PROVE  \/ s = ROOT_DIR_SECTOR \/ (s \in Sector /\ open_cnt[s] > 0) \/ Named(s)
               \/ s \in {th[t].new : t \in Process} \ {None}
    <3>1. s = ROOT_DIR_SECTOR \/ open_cnt[s] > 0 \/ Named(s) \/ \E t \in Process : th[t].new = s
      BY <2>1 DEF SafeInv, TreeInv, UsedInv
    <3>2. s \in Sector /\ s # None
      BY <2>5, Sizes
    <3> QED BY <3>1, <3>2
  <2>7. ROOT_DIR_SECTOR \in free_map
    BY <2>1 DEF SafeInv, TreeInv, RootInv
  <2>8. ASSUME NEW s \in Sector, open_cnt[s] > 0 PROVE s \in free_map
    BY <2>1, <2>8 DEF SafeInv, TreeInv, OpenInv
  <2>9. ASSUME NEW s, Named(s) PROVE s \in free_map
    BY <2>1, <2>9 DEF SafeInv, TreeInv, NameInv, Named
  <2>10. ASSUME NEW t \in Process, th[t].new # None PROVE th[t].new \in free_map
    BY <2>1, <2>10 DEF SafeInv, TreeInv, NewInv, NewOK
  <2>11. free_map = {ROOT_DIR_SECTOR} \cup {s \in Sector : open_cnt[s] > 0}
                      \cup (UNION {{entries[d][k].sector : k \in Files(d)} : d \in Dirs})
                      \cup ({th[t].new : t \in Process} \ {None})
    BY <2>4, <2>6, <2>7, <2>8, <2>9, <2>10
  <2> QED BY <2>2, <2>11
<1> QED BY <1>1, IInvAlways, PTL

(* The directories always form a tree, until the kernel stops or two calls  *)
(* have met (lookup, dir_add, dir_remove and dir_create): a name is used    *)
(* once in its directory, an inode has one name, and the dots of a          *)
(* directory lead to itself and its parent.  All variables have their types *)
(* whatever happens.                                                        *)
THEOREM TreeSoundAlways == Spec => []TreeSound
<1>1. IInv => TreeSound
  <2> SUFFICES ASSUME IInv PROVE TreeSound
    OBVIOUS
  <2>1. TypeOK
    BY DEF IInv, Base
  <2>2. ASSUME Safe, NEW d \in Dirs
        PROVE  /\ UniqueNames(d)
               /\ \A c \in Dirs : \A j \in Files(c), k \in Files(d) :
                     entries[c][j].sector = entries[d][k].sector => c = d /\ j = k
               /\ \A k \in Files(d) :
                     LET c == entries[d][k].sector IN
                     is_dir[c] => entries[c][1].sector = c /\ entries[c][2].sector = d
    <3>1. SafeInv
      BY <2>2 DEF IInv
    <3>2. UniqueNames(d)
      BY <3>1 DEF SafeInv, TreeInv, DirInv
    <3>3. ASSUME NEW k \in Files(d), NEW x, x = entries[d][k].sector
          PROVE  /\ \A c \in Dirs : \A j \in Files(c) : entries[c][j].sector = x => c = d /\ j = k
                 /\ is_dir[x] => entries[x][1].sector = x /\ entries[x][2].sector = d
      <4>1. /\ x \in free_map /\ (is_dir[x] => entries[x][2].sector = d)
            /\ \A c \in Dirs : \A j \in Files(c) : entries[c][j].sector = x => c = d /\ j = k
        BY <3>1, <3>3 DEF SafeInv, TreeInv, NameInv
      <4>2. is_dir[x] => DotsOK(x)
        BY <3>1, <4>1 DEF SafeInv, TreeInv, DirInv, Dirs
      <4> QED BY <4>1, <4>2 DEF DotsOK
    <3> QED BY <3>2, <3>3
  <2> QED BY <2>1, <2>2 DEF TreeSound
<1> QED BY <1>1, IInvAlways, PTL

(* A directory that is removed (filesys_remove, dir_remove) is empty and     *)
(* stays so, until the kernel stops or two calls have met: the processes     *)
(* that still have it open or as working directory put nothing into it.      *)
THEOREM RemovedEmptyAlways == Spec => []RemovedEmpty
<1>1. IInv => RemovedEmpty
  BY DEF IInv, SafeInv, TreeInv, RemovedInv, RemovedEmpty
<1> QED BY <1>1, IInvAlways, PTL
=============================================================================
