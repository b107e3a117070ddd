---------------------------- MODULE Inode_proofs ----------------------------
(***************************************************************************)
(* Proofs about Inode: the counters of open inodes are those of their      *)
(* openers, every allocated sector has one place in one file, lengths on   *)
(* disk and in memory agree and never shrink, and readers find what was    *)
(* written, for any number of threads, levels and sectors.                 *)
(***************************************************************************)
EXTENDS Inode, FiniteSetTheorems, WellFoundedInduction, TLAPS

Level == 0 .. REDIRECTION_LEVEL
NIndex == ON_INODE_DIR_SIZE * Power[REDIRECTION_LEVEL - 1]
MaxLength == NIndex * BLOCK_SECTOR_SIZE
Pointers == [Sector -> [Entry -> Sector \cup {None}]]

(* get_inode_sector() through any pointers. *)
WayIn(p, m, i) ==
  LET w[l \in 0 .. REDIRECTION_LEVEL] ==
        IF l = 0 THEN m
        ELSE IF w[l - 1] = None THEN None
        ELSE p[w[l - 1]][get_redirection_ids(i)[l]]
  IN  w
SectorAt(p, m, i) == WayIn(p, m, i)[REDIRECTION_LEVEL]

(* What file m holds at position q, if there is a sector for it. *)
BackedIn(p, m, q) == SectorAt(p, m, q \div BLOCK_SECTOR_SIZE) # None
Holds(p, b, m, q) == b[SectorAt(p, m, q \div BLOCK_SECTOR_SIZE)][q % BLOCK_SECTOR_SIZE]

-----------------------------------------------------------------------------
(* The invariant, until two threads are at work on opening one inode.  Its *)
(* first parts hold when the kernel has stopped too.                       *)

(* The locals of the call a thread is in. *)
ThreadInv ==
  \A t \in Thread :
    /\ th[t].offset <= th[t].end /\ th[t].end <= MaxLength
    /\ th[t].creating => th[t].pc = "grow" /\ th[t].ino = None
    /\ th[t].grown => th[t].pc = "copy"
    /\ th[t].deny_write => th[t].ino # None /\ th[t].pc \in {"idle", "write", "grow", "copy"}
    /\ th[t].pc \in {"open", "publish"} => th[t].ino = None /\ th[t].main # None
    /\ th[t].pc = "settle" => th[t].ino # None /\ th[t].main # None
    /\ th[t].pc \in {"reopen", "close", "cleanup", "write", "copy"} => th[t].ino # None
    /\ th[t].pc = "grow" => th[t].creating \/ th[t].ino # None
    /\ th[t].pc \in {"write", "grow", "copy"} => th[t].main # None
    /\ th[t].pc = "grow" => th[t].cur # None
    /\ th[t].pc \notin {"write", "grow", "copy"} => th[t].offset = 0 /\ th[t].end = 0

(* An opener counts for its struct, which it keeps in memory. *)
Counts ==
  \A i \in Struct : Settled(i) =>
    /\ inode[i].open_cnt = Cardinality(Openers(i))
    /\ inode[i].deny_write_cnt = Cardinality({t \in Openers(i) : th[t].deny_write})

(* A struct in memory is some thread's, and in the list until its last close. *)
StructUsed == \A i \in Struct : ~Freed(i) => \E t \in Thread : th[t].ino = i
StructListed ==
  \A i \in Struct : /\ i \in open_inodes => ~Freed(i)
                    /\ ~Freed(i) /\ i \notin open_inodes => inode[i].removed
StructRefs ==
  \A t \in Thread : th[t].ino # None =>
    /\ th[t].pc \in {"idle", "write", "grow", "copy"} => th[t].ino \in open_inodes
    /\ th[t].pc = "cleanup" => th[t].ino \notin open_inodes
StructInv == StructUsed /\ StructListed /\ StructRefs

(* A struct whose counters are yet to be set is in the list, and only found. *)
SettleInv ==
  \A t \in Thread : th[t].pc = "settle" =>
    /\ th[t].ino \in open_inodes /\ inode[th[t].ino].sector = th[t].main
    /\ \A u \in Thread : u # t /\ th[u].ino = th[t].ino => th[u].pc = "reopen"

(* The rest holds until the kernel stops. *)
LinkInv ==
  /\ \A i, j \in Struct : ~Freed(i) /\ inode[i].sector = inode[j].sector => i = j
  /\ \A i \in Struct : ~Freed(i) /\ Settled(i) => (inode[i].removed <=> inode[i].sector \notin linked)
  /\ \A t \in Thread : th[t].creating =>
       /\ th[t].main \notin linked
       /\ \A i \in Struct : inode[i].sector # th[t].main
       /\ \A u \in Thread : th[u].creating /\ th[u].main = th[t].main => u = t

(* Who has locked an inode: a thread that makes it grow. *)
Grower(t) == th[t].pc = "grow" \/ th[t].grown
LockInv ==
  /\ \A t \in Thread :
       /\ Grower(t) => lock[th[t].main] = t
       /\ th[t].pc \in {"write", "grow", "copy"} /\ ~th[t].creating =>
            th[t].main = inode[th[t].ino].sector
  /\ \A s \in Sector : lock[s] # None => Grower(lock[s]) /\ th[lock[s]].main = s

(* Every sector has one place in one tree. *)
TreeIn(p, used) ==
  \A m, n \in used : \A i, j \in Index : \A k, l \in Level :
    WayIn(p, m, i)[k] = WayIn(p, n, j)[l] /\ WayIn(p, m, i)[k] # None =>
      m = n /\ k = l /\ Place(i, k) = Place(j, l)
ReachIn(p, used) == {WayIn(p, m, i)[l] : m \in used, i \in Index, l \in Level} \ {None}
TreeInv ==
  /\ TreeIn(ptr, InUse)
  /\ free_map = ReachIn(ptr, InUse) \cup leaked /\ ReachIn(ptr, InUse) \cap leaked = {}

(* How far growth has got. *)
GrowOK(t) ==
  th[t].pc = "grow" =>
    /\ th[t].level = 1 => th[t].cur = th[t].main
    /\ th[t].level > 1 => /\ th[t].idx < bytes_to_sectors(th[t].end)
                          /\ th[t].cur = WayIn(ptr, th[t].main, th[t].idx)[th[t].level - 1]
    /\ \A j \in Index : j < th[t].idx => SectorAt(ptr, th[t].main, j) # None
GrowInv == \A t \in Thread : GrowOK(t)

(* Lengths, and how they bound what a writer does. *)
LengthOK(t) ==
  ~th[t].creating =>
    /\ th[t].pc = "write" => th[t].start <= bytes_to_sectors(length[th[t].main])
    /\ Grower(t) => length[th[t].main] < th[t].end
    /\ th[t].pc = "copy" /\ ~th[t].grown => th[t].end <= length[th[t].main]
    /\ th[t].grown => \A j \in Index :
         j < bytes_to_sectors(th[t].end) => SectorAt(ptr, th[t].main, j) # None
LengthInv ==
  /\ \A i \in Struct : ~Freed(i) => inode[i].length = length[inode[i].sector]
  /\ \A t \in Thread : LengthOK(t)

(* What files hold.  Beyond the end there are zeros, but for what is being *)
(* written; the file that grows is to hold what expect says.               *)
FileInv(m) ==
  \A q \in Pos :
    /\ q < length[m] => BackedIn(ptr, m, q) /\ Holds(ptr, bytes, m, q) = expect[m][q]
    /\ q >= length[m] /\ BackedIn(ptr, m, q) /\ (\A t \in Thread : th[t].grown => th[t].main # m)
         => Holds(ptr, bytes, m, q) = Zero
WriterInv(t) ==
  \A q \in Pos :
    /\ th[t].creating => /\ BackedIn(ptr, th[t].main, q) => Holds(ptr, bytes, th[t].main, q) = Zero
                         /\ expect[th[t].main][q] = Zero
    /\ th[t].pc = "grow" /\ ~th[t].creating /\ q >= length[th[t].main] =>
         expect[th[t].main][q] = IF q >= th[t].offset /\ q < th[t].end THEN t ELSE Zero
    /\ th[t].grown /\ q >= length[th[t].main] =>
         /\ q >= th[t].end => expect[th[t].main][q] = Zero
         /\ (q < th[t].offset \/ q >= th[t].end) /\ BackedIn(ptr, th[t].main, q) =>
              Holds(ptr, bytes, th[t].main, q) = expect[th[t].main][q]
DataInv ==
  /\ expect \in [Sector -> [Pos -> Thread \cup {Zero}]]
  /\ \A m \in Sector : m \in linked \/ (\E i \in Struct : inode[i].sector = m) => FileInv(m)
  /\ \A t \in Thread : WriterInv(t)

(* An inode that is being opened stays linked, and nobody has a struct for *)
(* it: its length is still the one that was read.                          *)
SearchInv ==
  \A t \in Thread :
    /\ th[t].pc \in {"open", "publish"} =>
         th[t].main \in linked /\ \A i \in Struct : inode[i].sector # th[t].main
    /\ th[t].pc = "publish" => th[t].start = length[th[t].main]
    /\ th[t].pc = "settle" => th[t].main \in linked

SoundInv == LinkInv /\ LockInv /\ TreeInv /\ GrowInv /\ LengthInv /\ DataInv
Base == TypeOK /\ ThreadInv /\ Counts /\ StructInv
IInv == Base /\ (Sound => SoundInv)
Opening == SettleInv /\ (Sound => SearchInv)
Inv == shared = {} => IInv /\ Opening

-----------------------------------------------------------------------------
(* Induction over data: a least counterexample stands for the induction    *)
(* hypothesis.                                                             *)
LEMMA LeastExists ==
  ASSUME NEW S \in SUBSET Nat, S # {}
  PROVE  \E n \in S : \A m \in S : n <= m
<1>1. \E x \in S : \A y \in S : ~ (<<y, x>> \in OpToRel(<, Nat))
  BY WFMin, NatLessThanWellFounded
<1>2. PICK x \in S : \A y \in S : ~(y < x)
  <2>1. \A x, y \in S : y < x => <<y, x>> \in OpToRel(<, Nat)
    BY Zenon DEF OpToRel
  <2> QED BY <1>1, <2>1, Zenon
<1> QED BY <1>2

(* What Least() chooses. *)
LEMMA LeastOf ==
  ASSUME NEW S \in SUBSET Nat, S # {}
  PROVE  Least(S) \in S
BY LeastExists, Zenon DEF Least

(* A set of levels that has 0 and, with every level, the next. *)
LEMMA AllLevels ==
  ASSUME NEW n \in Nat, NEW S, 0 \in S, \A l \in 1..n : l - 1 \in S => l \in S
  PROVE  \A l \in 0..n : l \in S
<1> DEFINE Bad == {l \in 0..n : l \notin S}
<1> SUFFICES ASSUME Bad # {} PROVE FALSE
  OBVIOUS
<1>1. Bad \in SUBSET Nat
  OBVIOUS
<1>2. PICK l \in Bad : \A k \in Bad : l <= k
  BY <1>1, LeastExists
<1>3. l \in 1..n /\ l - 1 \in 0..n /\ ~(l <= l - 1)
  BY <1>2
<1> QED BY <1>2, <1>3

(* The iterates of a step function that knows its level. *)
Iterates(f, X, S, x, B) ==
  f \in [0..B -> X] /\ f[0] = x /\ \A n \in 1..B : f[n] = S[n][f[n - 1]]

(* A step function can be iterated. *)
LEMMA Iterated ==
  ASSUME NEW X, NEW N \in Nat, NEW S \in [1..N -> [X -> X]], NEW x \in X
  PROVE  \E f : Iterates(f, X, S, x, N)
<1> DEFINE Has == {m \in 0..N : \E f : Iterates(f, X, S, x, m)}
<1>1. 0 \in Has
  <2>1. PICK f : f = [n \in 0..0 |-> x]
    OBVIOUS
  <2>2. f \in [0..0 -> X] /\ f[0] = x /\ 1..0 = {}
    BY <2>1
  <2> QED BY <2>2 DEF Iterates
<1>2. ASSUME NEW m \in 1..N, m - 1 \in Has PROVE m \in Has
  <2>1. PICK f : Iterates(f, X, S, x, m - 1)
    BY <1>2
  <2>2. f \in [0..(m - 1) -> X] /\ f[0] = x /\ \A n \in 1..(m - 1) : f[n] = S[n][f[n - 1]]
    BY <2>1 DEF Iterates
  <2>3. PICK g : g = [n \in 0..m |-> IF n = m THEN S[m][f[m - 1]] ELSE f[n]]
    OBVIOUS
  <2>4. /\ \A n \in 0..(m - 1) : n \in 0..m /\ g[n] = f[n]
        /\ m \in 0..m /\ m - 1 \in 0..(m - 1) /\ g[m] = S[m][f[m - 1]]
    BY <2>3
  <2>5. g \in [0..m -> X]
    <3>1. f[m - 1] \in X
      BY <2>2, <2>4
    <3>2. S[m][f[m - 1]] \in X
      BY <3>1
    <3>3. \A n \in 0..m : n = m \/ n \in 0..(m - 1)
      OBVIOUS
    <3>4. \A n \in 0..m : (IF n = m THEN S[m][f[m - 1]] ELSE f[n]) \in X
      BY <2>2, <3>2, <3>3
    <3> QED BY <2>3, <3>4
  <2>6. g[0] = x
    BY <2>2, <2>4
  <2>7. ASSUME NEW n \in 1..m PROVE g[n] = S[n][g[n - 1]]
    <3>1. CASE n = m
      BY <2>4, <3>1
    <3>2. CASE n # m
      <4>1. n \in 1..(m - 1) /\ n - 1 \in 0..(m - 1) /\ n \in 0..(m - 1)
        BY <3>2
      <4> QED BY <2>2, <2>4, <4>1
    <3> QED BY <3>1, <3>2
  <2>8. Iterates(g, X, S, x, m)
    BY <2>5, <2>6, <2>7 DEF Iterates
  <2> QED BY <2>8
<1>3. N \in Has
  <2>1. \A l \in 0..N : l \in Has
    <3> HIDE DEF Has
    <3> QED BY <1>1, <1>2, AllLevels
  <2> QED BY <2>1
<1> QED BY <1>3

-----------------------------------------------------------------------------
(* The index. *)

(* The constants that appear in sizes. *)
LEMMA Sizes ==
  /\ REDIRECTION_LEVEL \in Nat /\ REDIRECTION_LEVEL > 1
  /\ FANOUT \in Nat \ {0} /\ ON_INODE_DIR_SIZE \in Nat \ {0} /\ BLOCK_SECTOR_SIZE \in Nat \ {0}
  /\ NSectors \in Nat /\ None \notin Sector /\ Sector \subseteq Nat /\ Struct \subseteq Nat
  /\ None \notin Struct
BY InodeAssumption DEF InodeAssumption, Sector, Struct, None

(* The sectors below an entry of each level. *)
LEMMA PowerOK ==
  /\ Power \in [Level -> Nat \ {0}] /\ Power[0] = 1
  /\ \A l \in 1..REDIRECTION_LEVEL : Power[l] = FANOUT * Power[l - 1]
<1> DEFINE R == REDIRECTION_LEVEL
           X == Nat \ {0}
           S == [n \in 1..R |-> [x \in X |-> FANOUT * x]]
           Body(f) == [l \in 0..R |-> IF l = 0 THEN 1 ELSE FANOUT * f[l - 1]]
<1>1. R \in Nat /\ 1 \in X /\ S \in [1..R -> [X -> X]]
  BY Sizes
<1>2. PICK f : Iterates(f, X, S, 1, R)
  <2> HIDE DEF S, X, R
  <2> QED BY <1>1, Iterated
<1>3. f \in [0..R -> X] /\ f[0] = 1 /\ \A l \in 1..R : f[l] = FANOUT * f[l - 1]
  <2>1. f \in [0..R -> X] /\ f[0] = 1 /\ \A l \in 1..R : f[l] = S[l][f[l - 1]]
    BY <1>2 DEF Iterates
  <2>2. \A l \in 1..R : l - 1 \in 0..R
    BY <1>1
  <2>3. \A l \in 1..R : f[l - 1] \in X
    BY <2>1, <2>2
  <2>4. \A l \in 1..R : S[l][f[l - 1]] = FANOUT * f[l - 1]
    BY <2>3
  <2> QED BY <2>1, <2>4
<1>4. f = Body(f)
  <2>1. \A l \in 0..R : l = 0 \/ l \in 1..R
    BY <1>1
  <2>2. \A l \in 0..R : f[l] = IF l = 0 THEN 1 ELSE FANOUT * f[l - 1]
    BY <1>3, <2>1
  <2> HIDE DEF R
  <2> QED BY <1>3, <2>2
<1>5. Power = Body(Power)
  <2>1. Power = CHOOSE g : g = Body(g)
    BY Zenon DEF Power
  <2> HIDE DEF Body
  <2> QED BY <1>4, <2>1
<1>6. Power[0] = 1 /\ \A l \in 1..R : Power[l] = FANOUT * Power[l - 1]
  <2>1. 0 \in 0..R /\ \A l \in 1..R : l \in 0..R /\ l # 0
    BY <1>1
  <2> QED BY <1>5, <2>1
<1>7. \A l \in 0..R : l \in {k \in 0..R : Power[k] \in X}
  <2> DEFINE T == {k \in 0..R : Power[k] \in X}
  <2>1. 0 \in T
    BY <1>1, <1>6
  <2>2. ASSUME NEW l \in 1..R, l - 1 \in T PROVE l \in T
    <3>1. l \in 0..R /\ Power[l - 1] \in X
      BY <1>1, <2>2
    <3>2. FANOUT * Power[l - 1] \in X
      BY <3>1, Sizes
    <3> QED BY <1>6, <3>1, <3>2
  <2>3. \A l \in 0..R : l \in T
    <3> HIDE DEF T
    <3> QED BY <1>1, <2>1, <2>2, AllLevels
  <2> QED BY <2>3
<1>8. Power \in [0..R -> X]
  <2>1. DOMAIN Power = 0..R
    BY <1>5
  <2>2. Power = [l \in 0..R |-> Power[l]]
    BY <1>5, <2>1
  <2> QED BY <1>7, <2>2
<1> QED BY <1>6, <1>8 DEF Level

(* How many sectors and bytes a file can have. *)
LEMMA IndexOK ==
  /\ NIndex \in Nat \ {0} /\ Index = 0..(NIndex - 1) /\ MaxLength \in Nat \ {0}
  /\ Cardinality(Pos) = MaxLength /\ Pos = 0..(MaxLength - 1)
<1>1. REDIRECTION_LEVEL - 1 \in Level
  BY Sizes DEF Level
<1>2. NIndex \in Nat \ {0} /\ MaxLength \in Nat \ {0}
  <2>1. Power[REDIRECTION_LEVEL - 1] \in Nat \ {0}
    BY <1>1, PowerOK
  <2>2. NIndex \in Nat \ {0}
    BY <2>1, Sizes DEF NIndex
  <2> QED BY <2>2, Sizes DEF MaxLength
<1>3. Index = 0..(NIndex - 1)
  BY DEF Index, NIndex
<1>4. \A n \in Nat \ {0} : Cardinality(0..(n - 1)) = n
  <2> SUFFICES ASSUME NEW n \in Nat \ {0} PROVE Cardinality(0..(n - 1)) = n
    OBVIOUS
  <2>1. Cardinality(0..(n - 1)) = IF 0 > n - 1 THEN 0 ELSE (n - 1) - 0 + 1
    BY FS_Interval
  <2> QED BY <2>1
<1>5. Cardinality(Index) = NIndex
  BY <1>2, <1>3, <1>4
<1>6. Pos = 0..(MaxLength - 1)
  BY <1>5 DEF Pos, MaxLength
<1> QED BY <1>2, <1>3, <1>4, <1>6

(* The sector and the byte of a position, and how many sectors a length needs. *)
LEMMA PosOK ==
  /\ \A q \in Pos : /\ q \in Nat /\ q \div BLOCK_SECTOR_SIZE \in Index
                    /\ q % BLOCK_SECTOR_SIZE \in Byte
  /\ \A n \in Nat : bytes_to_sectors(n) \in Nat
  /\ \A n \in 0..MaxLength : \A j \in Nat : j < bytes_to_sectors(n) => j \in Index
  /\ \A q, n \in Nat : q < n => q \div BLOCK_SECTOR_SIZE < bytes_to_sectors(n)
  /\ \A m, n \in Nat : m <= n => bytes_to_sectors(m) <= bytes_to_sectors(n)
<1> DEFINE B == BLOCK_SECTOR_SIZE
<1>1. B \in Nat \ {0} /\ NIndex \in Nat \ {0} /\ MaxLength = NIndex * B
  BY Sizes, IndexOK DEF MaxLength
<1> HIDE DEF B
<1>2. ASSUME NEW q \in 0..(MaxLength - 1)
      PROVE  q \in Nat /\ q \div B \in 0..(NIndex - 1) /\ q % B \in 0..(B - 1)
  <2>1. q \in Nat /\ q < NIndex * B
    BY <1>1, <1>2
  <2>2. q % B \in 0..(B - 1) /\ q \div B \in Nat
    BY <1>1, <2>1
  <2>3. q \div B < NIndex
    BY <1>1, <2>1
  <2> QED BY <1>1, <2>1, <2>2, <2>3
<1>3. \A n \in Nat : (n + B - 1) \div B \in Nat
  BY <1>1
<1>4. ASSUME NEW n \in 0..MaxLength, NEW j \in Nat, j < (n + B - 1) \div B
      PROVE  j \in 0..(NIndex - 1)
  <2>1. n \in Nat /\ n <= NIndex * B
    BY <1>1, <1>4
  <2>2. (n + B - 1) \div B <= NIndex
    BY <1>1, <2>1
  <2> QED BY <1>1, <1>3, <1>4, <2>1, <2>2
<1>5. \A q, n \in Nat : q < n => q \div B < (n + B - 1) \div B
  BY <1>1
<1>6. \A m, n \in Nat : m <= n => (m + B - 1) \div B <= (n + B - 1) \div B
  BY <1>1
<1> QED BY <1>2, <1>3, <1>4, <1>5, <1>6, IndexOK DEF B, bytes_to_sectors, Byte

(* The entries that lead to a sector, and its place in each level. *)
LEMMA PlaceOK ==
  ASSUME NEW i \in Index
  PROVE  /\ \A l \in 1..REDIRECTION_LEVEL : get_redirection_ids(i)[l] \in Entry
         /\ Place(i, REDIRECTION_LEVEL) = i
<1> DEFINE R == REDIRECTION_LEVEL
           E == IF FANOUT > ON_INODE_DIR_SIZE THEN FANOUT ELSE ON_INODE_DIR_SIZE
<1>1. i \in Nat /\ i < NIndex
  BY IndexOK
<1>2. ASSUME NEW l \in 1..R PROVE get_redirection_ids(i)[l] \in Entry
  <2>1. R - l \in Level /\ R - 1 \in Level
    BY Sizes DEF Level
  <2>2. PICK p \in Nat \ {0} : p = Power[R - l]
    BY <2>1, PowerOK
  <2>3. get_redirection_ids(i)[l] = IF l = 1 THEN i \div p ELSE (i \div p) % FANOUT
    BY <2>2 DEF get_redirection_ids
  <2>4. CASE l = 1
    <3>1. i < ON_INODE_DIR_SIZE * p
      BY <1>1, <2>2, <2>4 DEF NIndex
    <3>2. i \div p \in Nat /\ i \div p < ON_INODE_DIR_SIZE
      BY <1>1, <2>2, <3>1, Sizes
    <3> QED BY <2>3, <2>4, <3>2, Sizes DEF Entry
  <2>5. CASE l # 1
    <3>1. i \div p \in Nat
      BY <1>1, <2>2
    <3>2. (i \div p) % FANOUT \in 0..(FANOUT - 1)
      BY <3>1, Sizes
    <3> QED BY <2>3, <2>5, <3>2, Sizes DEF Entry
  <2> QED BY <2>4, <2>5
<1>3. Place(i, R) = i
  <2>1. R # 0 /\ R - R = 0
    BY Sizes
  <2>2. Place(i, R) = i \div 1
    BY <2>1, PowerOK DEF Place
  <2> QED BY <1>1, <2>2
<1> QED BY <1>2, <1>3

(* A place is the place above it and an entry. *)
LEMMA PlaceStep ==
  ASSUME NEW i \in Index, NEW j \in Index, NEW l \in 1..REDIRECTION_LEVEL
  PROVE  Place(i, l) = Place(j, l) <=>
           /\ Place(i, l - 1) = Place(j, l - 1)
           /\ get_redirection_ids(i)[l] = get_redirection_ids(j)[l]
<1> DEFINE R == REDIRECTION_LEVEL
<1>1. i \in Nat /\ j \in Nat /\ R \in Nat /\ R - l \in Level /\ l \in Nat
  BY IndexOK, Sizes DEF Level
<1>2. PICK p \in Nat \ {0} : p = Power[R - l]
  BY <1>1, PowerOK
<1>3. Place(i, l) = i \div p /\ Place(j, l) = j \div p
  BY <1>1, <1>2 DEF Place
<1>4. CASE l = 1
  BY <1>2, <1>3, <1>4 DEF Place, get_redirection_ids
<1>5. CASE l # 1
  <2>1. R - (l - 1) \in 1..R /\ (R - (l - 1)) - 1 = R - l /\ l - 1 # 0
    BY <1>1, <1>5
  <2>2. Power[R - (l - 1)] = FANOUT * p
    BY <1>2, <2>1, PowerOK
  <2>3. Place(i, l - 1) = i \div (FANOUT * p) /\ Place(j, l - 1) = j \div (FANOUT * p)
    BY <2>1, <2>2 DEF Place
  <2>4. /\ get_redirection_ids(i)[l] = (i \div p) % FANOUT
        /\ get_redirection_ids(j)[l] = (j \div p) % FANOUT
    BY <1>2, <1>5 DEF get_redirection_ids
  <2>5. /\ i \div (FANOUT * p) = (i \div p) \div FANOUT
        /\ j \div (FANOUT * p) = (j \div p) \div FANOUT
    BY <1>1, Sizes
  <2>6. PICK a \in Nat, b \in Nat : a = i \div p /\ b = j \div p
    BY <1>1
  <2>7. a = b <=> a \div FANOUT = b \div FANOUT /\ a % FANOUT = b % FANOUT
    <3>1. a = FANOUT * (a \div FANOUT) + (a % FANOUT) /\ b = FANOUT * (b \div FANOUT) + (b % FANOUT)
      BY Sizes
    <3> QED BY <3>1
  <2> QED BY <1>3, <2>3, <2>4, <2>5, <2>6, <2>7
<1> QED BY <1>4, <1>5

(* The way to a sector goes down one entry per level. *)
LEMMA WayOK ==
  ASSUME NEW p \in Pointers, NEW m \in Sector \cup {None}, NEW i \in Index
  PROVE  /\ WayIn(p, m, i) \in [Level -> Sector \cup {None}]
         /\ WayIn(p, m, i)[0] = m
         /\ \A l \in 1..REDIRECTION_LEVEL :
              WayIn(p, m, i)[l] = IF WayIn(p, m, i)[l - 1] = None THEN None
                                  ELSE p[WayIn(p, m, i)[l - 1]][get_redirection_ids(i)[l]]
<1> DEFINE R == REDIRECTION_LEVEL
           X == Sector \cup {None}
           e == get_redirection_ids(i)
           S == [n \in 1..R |-> [x \in X |-> IF x = None THEN None ELSE p[x][e[n]]]]
           Body(f) == [l \in 0..R |-> IF l = 0 THEN m
                                      ELSE IF f[l - 1] = None THEN None ELSE p[f[l - 1]][e[l]]]
<1>1. R \in Nat /\ None \notin Sector
  BY Sizes
<1>2. S \in [1..R -> [X -> X]]
  <2>1. \A n \in 1..R : e[n] \in Entry
    BY PlaceOK
  <2> HIDE DEF e
  <2>2. \A n \in 1..R : \A x \in X : (IF x = None THEN None ELSE p[x][e[n]]) \in X
    BY <2>1 DEF Pointers
  <2> QED BY <2>2
<1>3. PICK f : Iterates(f, X, S, m, R)
  <2> HIDE DEF S, X, R
  <2>1. m \in X
    BY DEF X
  <2> QED BY <1>1, <1>2, <2>1, Iterated
<1>4. /\ f \in [0..R -> X] /\ f[0] = m
      /\ \A l \in 1..R : f[l] = IF f[l - 1] = None THEN None ELSE p[f[l - 1]][e[l]]
  <2> HIDE DEF e
  <2>1. f \in [0..R -> X] /\ f[0] = m /\ \A l \in 1..R : f[l] = S[l][f[l - 1]]
    BY <1>3 DEF Iterates
  <2>2. \A l \in 1..R : l - 1 \in 0..R
    BY <1>1
  <2>3. \A l \in 1..R : f[l - 1] \in X
    BY <2>1, <2>2
  <2>4. \A l \in 1..R : S[l][f[l - 1]] = IF f[l - 1] = None THEN None ELSE p[f[l - 1]][e[l]]
    BY <2>3
  <2> QED BY <2>1, <2>4
<1>5. f = Body(f)
  <2>1. \A l \in 0..R : l = 0 \/ l \in 1..R
    BY <1>1
  <2> HIDE DEF R, e
  <2>2. \A l \in 0..R : f[l] = IF l = 0 THEN m
                               ELSE IF f[l - 1] = None THEN None ELSE p[f[l - 1]][e[l]]
    BY <1>4, <2>1
  <2> QED BY <1>4, <2>2
<1>6. PICK w : w = WayIn(p, m, i)
  OBVIOUS
<1>7. w = Body(w)
  <2>1. w = CHOOSE g : g = Body(g)
    BY <1>6, Zenon DEF WayIn
  <2> HIDE DEF Body
  <2> QED BY <1>5, <2>1
<1>8. /\ w[0] = m
      /\ \A l \in 1..R : w[l] = IF w[l - 1] = None THEN None ELSE p[w[l - 1]][e[l]]
  <2>1. 0 \in 0..R /\ \A l \in 1..R : l \in 0..R /\ l # 0
    BY <1>1
  <2> HIDE DEF e
  <2> QED BY <1>7, <2>1
<1>9. \A l \in 0..R : w[l] \in X
  <2> DEFINE T == {k \in 0..R : w[k] \in X}
  <2>1. 0 \in T
    BY <1>1, <1>8
  <2>2. ASSUME NEW l \in 1..R, l - 1 \in T PROVE l \in T
    <3>1. l \in 0..R /\ w[l - 1] \in X /\ e[l] \in Entry
      BY <1>1, <2>2, PlaceOK
    <3> HIDE DEF e
    <3>2. (IF w[l - 1] = None THEN None ELSE p[w[l - 1]][e[l]]) \in X
      BY <3>1 DEF Pointers
    <3> QED BY <1>8, <3>1, <3>2
  <2>3. \A l \in 0..R : l \in T
    <3> HIDE DEF T
    <3> QED BY <1>1, <2>1, <2>2, AllLevels
  <2> QED BY <2>3
<1>10. w \in [0..R -> X]
  <2>1. DOMAIN w = 0..R
    BY <1>7
  <2>2. w = [l \in 0..R |-> w[l]]
    BY <1>7, <2>1
  <2> QED BY <1>9, <2>2
<1> QED BY <1>6, <1>8, <1>10 DEF Level

(* In Inode the pointers are those on the disk. *)
LEMMA WayIs ==
  ASSUME NEW m, NEW i
  PROVE  Way(m, i) = WayIn(ptr, m, i) /\ Way(m, i)' = WayIn(ptr', m, i)
<1>1. Way(m, i) = WayIn(ptr, m, i)
  BY Zenon DEF Way, WayIn
<1>2. Way(m, i)' = WayIn(ptr', m, i)
  BY Zenon DEF Way, WayIn
<1> QED BY <1>1, <1>2

(* Equal places have equal ways. *)
LEMMA SameWay ==
  ASSUME NEW p \in Pointers, NEW m \in Sector \cup {None}, NEW i \in Index, NEW j \in Index,
         NEW l \in Level, Place(i, l) = Place(j, l)
  PROVE  WayIn(p, m, i)[l] = WayIn(p, m, j)[l]
<1> DEFINE R == REDIRECTION_LEVEL
           v == WayIn(p, m, i)
           w == WayIn(p, m, j)
           T == {k \in Level : Place(i, k) = Place(j, k) => v[k] = w[k]}
<1>1. /\ v[0] = m /\ w[0] = m
      /\ \A k \in 1..R : /\ v[k] = IF v[k - 1] = None THEN None
                                   ELSE p[v[k - 1]][get_redirection_ids(i)[k]]
                         /\ w[k] = IF w[k - 1] = None THEN None
                                   ELSE p[w[k - 1]][get_redirection_ids(j)[k]]
  BY WayOK
<1> HIDE DEF v, w
<1>2. 0 \in T
  BY <1>1, Sizes DEF Level
<1>3. ASSUME NEW k \in 1..R, k - 1 \in T PROVE k \in T
  BY <1>1, <1>3, PlaceStep, Sizes DEF Level
<1>4. \A k \in 0..R : k \in T
  <2> HIDE DEF T
  <2> QED BY <1>2, <1>3, AllLevels, Sizes
<1>5. v[l] = w[l]
  BY <1>4 DEF Level
<1> QED BY <1>5 DEF v, w

(* Pointers off the way do not matter. *)
LEMMA WayLocal ==
  ASSUME NEW p \in Pointers, NEW q \in Pointers, NEW m \in Sector \cup {None}, NEW i \in Index,
         \A l \in Level : WayIn(p, m, i)[l] # None =>
           q[WayIn(p, m, i)[l]] = p[WayIn(p, m, i)[l]]
  PROVE  WayIn(q, m, i) = WayIn(p, m, i)
<1> DEFINE R == REDIRECTION_LEVEL
           v == WayIn(p, m, i)
           w == WayIn(q, m, i)
           T == {k \in Level : v[k] = w[k]}
<1>1. /\ v[0] = m /\ w[0] = m
      /\ v \in [Level -> Sector \cup {None}] /\ w \in [Level -> Sector \cup {None}]
      /\ \A k \in 1..R : /\ v[k] = IF v[k - 1] = None THEN None
                                   ELSE p[v[k - 1]][get_redirection_ids(i)[k]]
                         /\ w[k] = IF w[k - 1] = None THEN None
                                   ELSE q[w[k - 1]][get_redirection_ids(i)[k]]
      /\ \A l \in Level : v[l] # None => q[v[l]] = p[v[l]]
  BY WayOK
<1> HIDE DEF v, w
<1>2. 0 \in T
  BY <1>1, Sizes DEF Level
<1>3. ASSUME NEW k \in 1..R, k - 1 \in T PROVE k \in T
  <2>1. k - 1 \in Level /\ k \in Level /\ v[k - 1] = w[k - 1]
    BY <1>3, Sizes DEF Level
  <2> QED BY <1>1, <2>1
<1>4. \A k \in 0..R : k \in T
  <2> HIDE DEF T
  <2> QED BY <1>2, <1>3, AllLevels, Sizes
<1>5. v = w
  <2>1. \A k \in Level : v[k] = w[k]
    BY <1>4 DEF Level
  <2> HIDE DEF T
  <2> QED BY <1>1, <2>1
<1> QED BY <1>5 DEF v, w

-----------------------------------------------------------------------------
(* How the trees change. *)

(* A new sector at the place of index i in level l of m. *)
AddsNode(p, q, used, m, i, l, c) ==
  \A n \in used, j \in Index, k \in Level :
    WayIn(q, n, j)[k] = IF n = m /\ k = l /\ Place(j, l) = Place(i, l) THEN c
                        ELSE WayIn(p, n, j)[k]

(* Entry e of x leads to c, whose own entries are free. *)
Enters(p, q, x, e, c) ==
  /\ q[c] = Empty /\ q[x][e] = c
  /\ \A f \in Entry : f # e => q[x][f] = p[x][f]
  /\ \A y \in Sector : y # x /\ y # c => q[y] = p[y]

(* The entries of m are free. *)
Empties(p, q, m) == q[m] = Empty /\ \A y \in Sector : y # m => q[y] = p[y]

(* allocate_inode_sector(), one level: an entry that was free gets a new   *)
(* sector, whose own entries are free.                                     *)
LEMMA NodeAdded ==
  ASSUME NEW p \in Pointers, NEW q \in Pointers, NEW used \in SUBSET Sector, TreeIn(p, used),
         NEW m \in used, NEW i \in Index, NEW l \in 1..REDIRECTION_LEVEL,
         NEW c \in Sector, c \notin ReachIn(p, used), NEW x \in Sector,
         x = WayIn(p, m, i)[l - 1], p[x][get_redirection_ids(i)[l]] = None,
         Enters(p, q, x, get_redirection_ids(i)[l], c)
  PROVE  /\ AddsNode(p, q, used, m, i, l, c)
         /\ \A j \in Index : Place(j, l) = Place(i, l) => WayIn(p, m, j)[l] = None
<1> DEFINE R == REDIRECTION_LEVEL
           e == get_redirection_ids(i)[l]
<1>0. R \in Nat /\ l \in Nat /\ l - 1 \in Level /\ l \in Level /\ None \notin Sector
  BY Sizes DEF Level
<1>1. x # c
  <2>1. x \in ReachIn(p, used)
    BY <1>0 DEF ReachIn
  <2> QED BY <2>1
<1>2. e \in Entry
  BY PlaceOK
<1>3. /\ q[c] = Empty /\ q[x][e] = c
      /\ \A f \in Entry : f # e => q[x][f] = p[x][f]
      /\ \A y \in Sector : y # x /\ y # c => q[y] = p[y]
  BY DEF Enters
<1>4. ASSUME NEW j \in Index, Place(j, l) = Place(i, l)
      PROVE  WayIn(p, m, j)[l] = None /\ WayIn(p, m, j)[l - 1] = x
  <2>1. Place(j, l - 1) = Place(i, l - 1) /\ get_redirection_ids(j)[l] = e
    BY <1>4, PlaceStep
  <2>2. WayIn(p, m, j)[l - 1] = x
    BY <1>0, <2>1, SameWay
  <2>3. WayIn(p, m, j)[l] = p[x][e]
    BY <1>0, <2>1, <2>2, WayOK
  <2> QED BY <2>2, <2>3
<1>5. ASSUME NEW n \in used, NEW j \in Index, NEW k \in Level
      PROVE  WayIn(q, n, j)[k] = IF n = m /\ k = l /\ Place(j, l) = Place(i, l) THEN c
                                 ELSE WayIn(p, n, j)[k]
  <2> DEFINE v == WayIn(p, n, j)
             w == WayIn(q, n, j)
             Here == n = m /\ Place(j, l) = Place(i, l)
             T == {a \in Level : w[a] = IF Here /\ a = l THEN c ELSE v[a]}
  <2>1. /\ v[0] = n /\ w[0] = n
        /\ v \in [Level -> Sector \cup {None}] /\ w \in [Level -> Sector \cup {None}]
        /\ \A a \in 1..R : /\ get_redirection_ids(j)[a] \in Entry
                           /\ v[a] = IF v[a - 1] = None THEN None
                                     ELSE p[v[a - 1]][get_redirection_ids(j)[a]]
                           /\ w[a] = IF w[a - 1] = None THEN None
                                     ELSE q[w[a - 1]][get_redirection_ids(j)[a]]
    <3>1. n \in Sector \cup {None}
      OBVIOUS
    <3>2. \A a \in 1..R : get_redirection_ids(j)[a] \in Entry
      BY PlaceOK
    <3>3. /\ v[0] = n /\ v \in [Level -> Sector \cup {None}]
          /\ \A a \in 1..R : v[a] = IF v[a - 1] = None THEN None
                                     ELSE p[v[a - 1]][get_redirection_ids(j)[a]]
      BY <3>1, WayOK
    <3>4. /\ w[0] = n /\ w \in [Level -> Sector \cup {None}]
          /\ \A a \in 1..R : w[a] = IF w[a - 1] = None THEN None
                                     ELSE q[w[a - 1]][get_redirection_ids(j)[a]]
      BY <3>1, WayOK
    <3> HIDE DEF v, w
    <3> QED BY <3>2, <3>3, <3>4
  <2>2. Here => v[l] = None /\ v[l - 1] = x
    BY <1>4
  <2>3. \A a \in Level : v[a] # c
    BY <1>0 DEF ReachIn
  <2>4. ASSUME NEW a \in 1..R, v[a - 1] = x
        PROVE  a = l /\ n = m /\ (get_redirection_ids(j)[a] = e <=> Here)
    <3>1. a - 1 \in Level /\ a \in Nat
      BY <1>0 DEF Level
    <3>2. n = m /\ a - 1 = l - 1 /\ Place(j, a - 1) = Place(i, l - 1)
      BY <1>0, <2>4, <3>1 DEF TreeIn
    <3>3. a = l
      BY <1>0, <3>1, <3>2
    <3> QED BY <3>2, <3>3, PlaceStep
  <2> HIDE DEF v, w
  <2>5. 0 \in T
    <3>1. 0 \in Level /\ 0 # l
      BY <1>0 DEF Level
    <3> QED BY <2>1, <3>1
  <2>6. ASSUME NEW a \in 1..R, a - 1 \in T PROVE a \in T
    <3>1. a \in Level /\ a - 1 \in Level /\ a \in Nat
      BY <1>0 DEF Level
    <3>2. PICK f \in Entry : /\ f = get_redirection_ids(j)[a]
                             /\ v[a] = IF v[a - 1] = None THEN None ELSE p[v[a - 1]][f]
                             /\ w[a] = IF w[a - 1] = None THEN None ELSE q[w[a - 1]][f]
      BY <2>1
    <3>3. CASE Here /\ a - 1 = l
      <4>1. w[a - 1] = c /\ v[a - 1] = None
        BY <2>2, <2>6, <3>3
      <4>2. w[a] = None /\ v[a] = None
        BY <1>0, <1>3, <3>2, <4>1 DEF Empty
      <4>3. a # l
        BY <1>0, <3>1, <3>3
      <4> QED BY <3>1, <4>2, <4>3
    <3>4. CASE ~(Here /\ a - 1 = l)
      <4>1. w[a - 1] = v[a - 1]
        BY <2>6, <3>4
      <4>2. CASE v[a - 1] = None
        <5>1. ~(Here /\ a = l)
          BY <1>0, <2>2, <4>2
        <5> QED BY <3>1, <3>2, <4>1, <4>2, <5>1
      <4>3. CASE v[a - 1] = x
        <5>1. a = l /\ (f = e <=> Here)
          BY <2>4, <3>2, <4>3
        <5>2. w[a] = q[x][f] /\ v[a] = p[x][f]
          BY <1>0, <3>2, <4>1, <4>3
        <5> QED BY <1>3, <3>1, <5>1, <5>2
      <4>4. CASE v[a - 1] # x /\ v[a - 1] # None
        <5>1. v[a - 1] \in Sector /\ v[a - 1] # c
          BY <2>1, <2>3, <3>1, <4>4
        <5>2. w[a] = v[a]
          BY <1>3, <3>2, <4>1, <4>4, <5>1
        <5>3. ~(Here /\ a = l)
          BY <2>2, <4>4
        <5> QED BY <3>1, <5>2, <5>3
      <4> QED BY <4>2, <4>3, <4>4
    <3> QED BY <3>3, <3>4
  <2>7. \A a \in 0..R : a \in T
    <3> HIDE DEF T
    <3> QED BY <1>0, <2>5, <2>6, AllLevels
  <2>8. w[k] = IF Here /\ k = l THEN c ELSE v[k]
    BY <2>7 DEF Level
  <2> QED BY <2>8 DEF v, w
<1> QED BY <1>4, <1>5 DEF AddsNode

(* The trees are as sound with the new sector, which is all they gain. *)
LEMMA TreeGrown ==
  ASSUME NEW p \in Pointers, NEW q \in Pointers, NEW used \in SUBSET Sector, TreeIn(p, used),
         NEW m \in used, NEW i \in Index, NEW l \in 1..REDIRECTION_LEVEL,
         NEW c \in Sector, c \notin ReachIn(p, used), AddsNode(p, q, used, m, i, l, c),
         \A j \in Index : Place(j, l) = Place(i, l) => WayIn(p, m, j)[l] = None
  PROVE  TreeIn(q, used) /\ ReachIn(q, used) = ReachIn(p, used) \cup {c}
<1>0. l \in Level /\ None \notin Sector
  BY Sizes DEF Level
<1>1. \A n \in used, j \in Index, k \in Level : WayIn(p, n, j)[k] # c
  BY <1>0 DEF ReachIn
<1>2. ASSUME NEW n1 \in used, NEW n2 \in used, NEW j1 \in Index, NEW j2 \in Index,
             NEW k1 \in Level, NEW k2 \in Level,
             WayIn(q, n1, j1)[k1] = WayIn(q, n2, j2)[k2], WayIn(q, n1, j1)[k1] # None
      PROVE  n1 = n2 /\ k1 = k2 /\ Place(j1, k1) = Place(j2, k2)
  <2> DEFINE Here1 == n1 = m /\ k1 = l /\ Place(j1, l) = Place(i, l)
             Here2 == n2 = m /\ k2 = l /\ Place(j2, l) = Place(i, l)
  <2>1. /\ WayIn(q, n1, j1)[k1] = IF Here1 THEN c ELSE WayIn(p, n1, j1)[k1]
        /\ WayIn(q, n2, j2)[k2] = IF Here2 THEN c ELSE WayIn(p, n2, j2)[k2]
    BY DEF AddsNode
  <2>2. Here1 <=> Here2
    BY <1>1, <1>2, <2>1
  <2>3. CASE Here1
    BY <2>2, <2>3
  <2>4. CASE ~Here1
    <3>1. WayIn(p, n1, j1)[k1] = WayIn(p, n2, j2)[k2] /\ WayIn(p, n1, j1)[k1] # None
      BY <1>2, <2>1, <2>2, <2>4
    <3> QED BY <3>1 DEF TreeIn
  <2> QED BY <2>3, <2>4
<1>3. TreeIn(q, used)
  BY <1>2 DEF TreeIn
<1>4. ASSUME NEW y \in ReachIn(q, used) PROVE y \in ReachIn(p, used) \cup {c}
  <2>1. PICK n \in used, j \in Index, k \in Level : y = WayIn(q, n, j)[k]
    BY DEF ReachIn
  <2>2. y = c \/ y = WayIn(p, n, j)[k]
    BY <2>1 DEF AddsNode
  <2> QED BY <2>2 DEF ReachIn
<1>5. ASSUME NEW y \in ReachIn(p, used) PROVE y \in ReachIn(q, used)
  <2>1. PICK n \in used, j \in Index, k \in Level : y = WayIn(p, n, j)[k] /\ y # None
    BY DEF ReachIn
  <2>2. ~(n = m /\ k = l /\ Place(j, l) = Place(i, l))
    BY <2>1
  <2>3. WayIn(q, n, j)[k] = y
    BY <2>1, <2>2 DEF AddsNode
  <2> QED BY <2>1, <2>3 DEF ReachIn
<1>6. c \in ReachIn(q, used)
  <2>1. WayIn(q, m, i)[l] = c
    BY <1>0 DEF AddsNode
  <2> QED BY <1>0, <2>1 DEF ReachIn
<1> QED BY <1>3, <1>4, <1>5, <1>6

(* Trees whose pointers stay the same. *)
LEMMA TreeKept ==
  ASSUME NEW p \in Pointers, NEW q \in Pointers, NEW used \in SUBSET Sector,
         \A y \in ReachIn(p, used) : q[y] = p[y]
  PROVE  /\ \A n \in used, j \in Index : WayIn(q, n, j) = WayIn(p, n, j)
         /\ TreeIn(p, used) => TreeIn(q, used)
         /\ ReachIn(q, used) = ReachIn(p, used)
<1>1. ASSUME NEW n \in used, NEW j \in Index PROVE WayIn(q, n, j) = WayIn(p, n, j)
  <2>1. \A l \in Level : WayIn(p, n, j)[l] # None => q[WayIn(p, n, j)[l]] = p[WayIn(p, n, j)[l]]
    BY DEF ReachIn
  <2>2. n \in Sector \cup {None}
    OBVIOUS
  <2> QED BY <2>1, <2>2, WayLocal
<1>2. TreeIn(p, used) => TreeIn(q, used)
  BY <1>1 DEF TreeIn
<1>3. ReachIn(q, used) = ReachIn(p, used)
  <2>1. ASSUME NEW y \in ReachIn(q, used) PROVE y \in ReachIn(p, used)
    BY <1>1 DEF ReachIn
  <2>2. ASSUME NEW y \in ReachIn(p, used) PROVE y \in ReachIn(q, used)
    BY <1>1 DEF ReachIn
  <2> QED BY <2>1, <2>2
<1> QED BY <1>1, <1>2, <1>3

(* inode_create(): a new inode is a tree of its own. *)
LEMMA TreeCreated ==
  ASSUME NEW p \in Pointers, NEW q \in Pointers, NEW used \in SUBSET Sector, TreeIn(p, used),
         NEW m \in Sector, m \notin ReachIn(p, used), Empties(p, q, m)
  PROVE  /\ TreeIn(q, used \cup {m}) /\ ReachIn(q, used \cup {m}) = ReachIn(p, used) \cup {m}
         /\ \A n \in used, j \in Index : WayIn(q, n, j) = WayIn(p, n, j)
         /\ \A j \in Index, l \in Level : WayIn(q, m, j)[l] = IF l = 0 THEN m ELSE None
<1>0. /\ None \notin Sector /\ 0 \in Level /\ REDIRECTION_LEVEL \in Nat
      /\ \A l \in Level : l = 0 \/ l \in 1..REDIRECTION_LEVEL
  BY Sizes DEF Level
<1>1. q[m] = Empty /\ \A y \in Sector : y # m => q[y] = p[y]
  BY DEF Empties
<1>2. ReachIn(p, used) \subseteq Sector
  <2> SUFFICES ASSUME NEW n \in used, NEW j \in Index, NEW l \in Level, WayIn(p, n, j)[l] # None
               PROVE  WayIn(p, n, j)[l] \in Sector
    BY DEF ReachIn
  <2>1. n \in Sector \cup {None}
    OBVIOUS
  <2>2. WayIn(p, n, j) \in [Level -> Sector \cup {None}]
    BY <2>1, WayOK
  <2> QED BY <2>2
<1>3. \A y \in ReachIn(p, used) : q[y] = p[y]
  BY <1>1, <1>2
<1>4. /\ \A n \in used, j \in Index : WayIn(q, n, j) = WayIn(p, n, j)
      /\ TreeIn(q, used) /\ ReachIn(q, used) = ReachIn(p, used)
  BY <1>3, TreeKept
<1>5. ASSUME NEW j \in Index, NEW l \in Level PROVE WayIn(q, m, j)[l] = IF l = 0 THEN m ELSE None
  <2> DEFINE w == WayIn(q, m, j)
             T == {a \in Level : w[a] = IF a = 0 THEN m ELSE None}
  <2>1. /\ w[0] = m /\ \A a \in 1..REDIRECTION_LEVEL :
             /\ get_redirection_ids(j)[a] \in Entry
             /\ w[a] = IF w[a - 1] = None THEN None ELSE q[w[a - 1]][get_redirection_ids(j)[a]]
    <3>1. m \in Sector \cup {None}
      OBVIOUS
    <3> QED BY <3>1, WayOK, PlaceOK
  <2> HIDE DEF w
  <2>2. 0 \in T
    BY <1>0, <2>1
  <2>3. ASSUME NEW a \in 1..REDIRECTION_LEVEL, a - 1 \in T PROVE a \in T
    <3>1. PICK f \in Entry : w[a] = IF w[a - 1] = None THEN None ELSE q[w[a - 1]][f]
      BY <2>1
    <3>2. a \in Level /\ a # 0
      BY <1>0 DEF Level
    <3>3. w[a - 1] = m \/ w[a - 1] = None
      BY <2>3
    <3> QED BY <1>0, <1>1, <3>1, <3>2, <3>3 DEF Empty
  <2>4. \A a \in 0..REDIRECTION_LEVEL : a \in T
    <3> HIDE DEF T
    <3> QED BY <1>0, <2>2, <2>3, AllLevels
  <2>5. w[l] = IF l = 0 THEN m ELSE None
    BY <2>4 DEF Level
  <2> QED BY <2>5 DEF w
<1>6. ReachIn(q, used \cup {m}) = ReachIn(p, used) \cup {m}
  <2>1. ReachIn(q, used \cup {m}) = ReachIn(q, used) \cup ({WayIn(q, m, j)[l] : j \in Index, l \in Level} \ {None})
    BY DEF ReachIn
  <2>2. ASSUME NEW y \in {WayIn(q, m, j)[l] : j \in Index, l \in Level} PROVE y = m \/ y = None
    BY <1>5
  <2>3. m \in {WayIn(q, m, j)[l] : j \in Index, l \in Level}
    <3>1. 0 \in Index
      BY IndexOK
    <3> QED BY <1>0, <1>5, <3>1
  <2> QED BY <1>0, <1>4, <2>1, <2>2, <2>3
<1>7. TreeIn(q, used \cup {m})
  <2> SUFFICES ASSUME NEW n1 \in used \cup {m}, NEW n2 \in used \cup {m},
                      NEW j1 \in Index, NEW j2 \in Index, NEW k1 \in Level, NEW k2 \in Level,
                      WayIn(q, n1, j1)[k1] = WayIn(q, n2, j2)[k2], WayIn(q, n1, j1)[k1] # None
               PROVE  n1 = n2 /\ k1 = k2 /\ Place(j1, k1) = Place(j2, k2)
    BY DEF TreeIn
  <2>1. \A n \in used, j \in Index, k \in Level : WayIn(q, n, j)[k] # m
    BY <1>0, <1>4 DEF ReachIn
  <2>2. m \notin used
    BY <1>0, <2>1, <1>5, IndexOK
  <2>3. CASE n1 = m
    <3>1. k1 = 0 /\ WayIn(q, n1, j1)[k1] = m
      BY <1>5, <2>3
    <3>2. n2 = m
      BY <2>1, <3>1
    <3>3. k2 = 0
      BY <1>5, <3>1, <3>2
    <3> QED BY <2>3, <3>1, <3>2, <3>3 DEF Place
  <2>4. CASE n1 # m
    <3>1. n2 # m
      <4>1. n2 = m => WayIn(q, n2, j2)[k2] = m
        BY <1>5
      <4> QED BY <2>1, <2>4, <4>1
    <3> QED BY <1>4, <2>4, <3>1 DEF TreeIn
  <2> QED BY <2>3, <2>4
<1> QED BY <1>4, <1>5, <1>6, <1>7

(* inode_dir_cleanup(): an inode goes with all its sectors and no others. *)
LEMMA TreeRemoved ==
  ASSUME NEW p \in Pointers, NEW q \in Pointers, NEW used \in SUBSET Sector, TreeIn(p, used),
         NEW m \in used, Empties(p, q, m)
  PROVE  /\ TreeIn(q, used \ {m})
         /\ ReachIn(q, used \ {m}) = ReachIn(p, used) \ ReachIn(p, {m})
         /\ \A n \in used : n # m => \A j \in Index : WayIn(q, n, j) = WayIn(p, n, j)
<1>0. None \notin Sector /\ 0 \in Level /\ 0 \in Index
  BY Sizes, IndexOK DEF Level
<1>1. m \in Sector \cup {None} /\ m \in Sector
  OBVIOUS
<1>2. WayIn(p, m, 0)[0] = m
  BY <1>0, <1>1, WayOK
<1>3. ASSUME NEW n \in used \ {m}, NEW j \in Index, NEW l \in Level
      PROVE  WayIn(p, n, j)[l] # m
  BY <1>0, <1>1, <1>2 DEF TreeIn
<1>4. \A y \in ReachIn(p, used \ {m}) : q[y] = p[y]
  <2> SUFFICES ASSUME NEW n \in used \ {m}, NEW j \in Index, NEW l \in Level,
                      WayIn(p, n, j)[l] # None
               PROVE  q[WayIn(p, n, j)[l]] = p[WayIn(p, n, j)[l]]
    BY DEF ReachIn
  <2>1. n \in Sector \cup {None}
    OBVIOUS
  <2>2. WayIn(p, n, j) \in [Level -> Sector \cup {None}]
    BY <2>1, WayOK
  <2>3. WayIn(p, n, j)[l] \in Sector
    BY <2>2
  <2> QED BY <1>3, <2>3 DEF Empties
<1>5. TreeIn(p, used \ {m})
  BY DEF TreeIn
<1>6. used \ {m} \in SUBSET Sector
  OBVIOUS
<1>7. /\ \A n \in used \ {m}, j \in Index : WayIn(q, n, j) = WayIn(p, n, j)
      /\ TreeIn(q, used \ {m}) /\ ReachIn(q, used \ {m}) = ReachIn(p, used \ {m})
  BY <1>4, <1>5, <1>6, TreeKept
<1>8. ReachIn(p, used \ {m}) = ReachIn(p, used) \ ReachIn(p, {m})
  <2>1. ASSUME NEW y \in ReachIn(p, used \ {m}) PROVE y \in ReachIn(p, used) /\ y \notin ReachIn(p, {m})
    <3>1. PICK n \in used \ {m}, j \in Index, l \in Level : y = WayIn(p, n, j)[l] /\ y # None
      BY DEF ReachIn
    <3>2. y \in ReachIn(p, used)
      BY <3>1 DEF ReachIn
    <3>3. \A i \in Index, k \in Level : WayIn(p, m, i)[k] # y
      BY <3>1 DEF TreeIn
    <3> QED BY <3>2, <3>3 DEF ReachIn
  <2>2. ASSUME NEW y \in ReachIn(p, used), y \notin ReachIn(p, {m}) PROVE y \in ReachIn(p, used \ {m})
    <3>1. PICK n \in used, j \in Index, l \in Level : y = WayIn(p, n, j)[l] /\ y # None
      BY DEF ReachIn
    <3>2. n # m
      BY <2>2, <3>1 DEF ReachIn
    <3> QED BY <3>1, <3>2 DEF ReachIn
  <2> QED BY <2>1, <2>2
<1> QED BY <1>7, <1>8

(* The sectors and the nodes of an inode, as Inode names them. *)
LEMMA ReachIs ==
  ASSUME NEW m
  PROVE  /\ Reach(m) = ReachIn(ptr, {m})
         /\ \A x \in Node(m) : \E l \in Level, i \in Index :
              x = <<l, Place(i, l), WayIn(ptr, m, i)[l]>>
<1>1. Node(m) = {<<l, Place(i, l), WayIn(ptr, m, i)[l]>> : l \in Level, i \in Index}
  BY WayIs DEF Node, Level
<1>2. ASSUME NEW y \in Reach(m) PROVE y \in ReachIn(ptr, {m})
  <2>1. PICK x \in Node(m) : y = x[3] /\ y # None
    BY DEF Reach
  <2>2. PICK l \in Level, i \in Index : x = <<l, Place(i, l), WayIn(ptr, m, i)[l]>>
    BY <1>1
  <2>3. y = WayIn(ptr, m, i)[l]
    BY <2>1, <2>2
  <2> QED BY <2>1, <2>3 DEF ReachIn
<1>3. ASSUME NEW y \in ReachIn(ptr, {m}) PROVE y \in Reach(m)
  <2>1. PICK i \in Index, l \in Level : y = WayIn(ptr, m, i)[l] /\ y # None
    BY DEF ReachIn
  <2>2. <<l, Place(i, l), WayIn(ptr, m, i)[l]>> \in Node(m)
    BY <1>1
  <2>3. y = <<l, Place(i, l), WayIn(ptr, m, i)[l]>>[3]
    BY <2>1
  <2> QED BY <2>1, <2>2, <2>3 DEF Reach
<1> QED BY <1>1, <1>2, <1>3

-----------------------------------------------------------------------------
(* The parts of the invariant that always hold. *)

ThreadRec ==
  [pc : Points, ino : Struct \cup {None}, main : Sector \cup {None},
   idx : Nat, start : Nat, level : 1 .. REDIRECTION_LEVEL,
   cur : Sector \cup {None}, fresh : BOOLEAN, creating : BOOLEAN,
   offset : Nat, end : Nat, grown : BOOLEAN, deny_write : BOOLEAN, calls : 0 .. MaxCalls]
InodeRec ==
  [sector : Sector \cup {None}, open_cnt : Nat, removed : BOOLEAN, deny_write_cnt : Nat,
   length : Nat]

(* What ThreadInv says of one thread. *)
LocalsOK(r) ==
  /\ r.offset <= r.end /\ r.end <= MaxLength
  /\ r.creating => r.pc = "grow" /\ r.ino = None
  /\ r.grown => r.pc = "copy"
  /\ r.deny_write => r.ino # None /\ r.pc \in {"idle", "write", "grow", "copy"}
  /\ r.pc \in {"open", "publish"} => r.ino = None /\ r.main # None
  /\ r.pc = "settle" => r.ino # None /\ r.main # None
  /\ r.pc \in {"reopen", "close", "cleanup", "write", "copy"} => r.ino # None
  /\ r.pc = "grow" => r.creating \/ r.ino # None
  /\ r.pc \in {"write", "grow", "copy"} => r.main # None
  /\ r.pc = "grow" => r.cur # None
  /\ r.pc \notin {"write", "grow", "copy"} => r.offset = 0 /\ r.end = 0

(* A step of t leaves the other threads where they are. *)
Moves(t) ==
  /\ th' \in [Thread -> ThreadRec] /\ \A u \in Thread : u # t => th'[u] = th[u]
  /\ LocalsOK(th'[t])

LEMMA ThreadStep ==
  ASSUME ThreadInv, NEW t \in Thread, Moves(t)
  PROVE  ThreadInv' /\ th' \in [Thread -> ThreadRec] /\ \A u \in Thread : u # t => th'[u] = th[u]
BY DEF ThreadInv, Moves, LocalsOK

(* Counting openers. *)
Opens(r, i) == r.ino = i /\ r.pc \notin {"settle", "reopen", "cleanup"}
Bit(b) == IF b THEN 1 ELSE 0

(* A set of threads from which t comes or goes. *)
LEMMA CountStep ==
  ASSUME NEW S \in SUBSET Thread, NEW T \in SUBSET Thread, NEW t \in Thread, S \ {t} = T \ {t}
  PROVE  /\ Cardinality(S) \in Nat /\ Cardinality(T) \in Nat
         /\ Cardinality(T) + Bit(t \in S) = Cardinality(S) + Bit(t \in T)
<1>1. IsFiniteSet(S) /\ IsFiniteSet(T) /\ IsFiniteSet(S \ {t})
  BY InodeAssumption, FS_Subset DEF InodeAssumption
<1>2. Cardinality(S) \in Nat /\ Cardinality(T) \in Nat /\ Cardinality(S \ {t}) \in Nat
  BY <1>1, FS_CardinalityType
<1>3. Cardinality(S \ {t}) = IF t \in S THEN Cardinality(S) - 1 ELSE Cardinality(S)
  BY <1>1, FS_RemoveElement
<1>4. Cardinality(T \ {t}) = IF t \in T THEN Cardinality(T) - 1 ELSE Cardinality(T)
  BY <1>1, FS_RemoveElement
<1> QED BY <1>2, <1>3, <1>4 DEF Bit

(* A struct is no more and no less settled by a thread that does not do it. *)
LEMMA SameSettled ==
  ASSUME NEW t \in Thread, \A u \in Thread : u # t => th'[u] = th[u],
         th[t].pc # "settle", th'[t].pc # "settle"
  PROVE  \A i \in Struct : Settled(i)' <=> Settled(i)
BY DEF Settled

(* The counters follow the one thread that moves. *)
LEMMA CountsStep ==
  ASSUME Counts, NEW t \in Thread, \A u \in Thread : u # t => th'[u] = th[u],
         th[t].pc # "settle", th'[t].pc # "settle",
         inode' \in [Struct -> InodeRec], inode \in [Struct -> InodeRec],
         \A i \in Struct :
           /\ inode'[i].open_cnt + Bit(Opens(th[t], i)) = inode[i].open_cnt + Bit(Opens(th'[t], i))
           /\ inode'[i].deny_write_cnt + Bit(Opens(th[t], i) /\ th[t].deny_write) =
                inode[i].deny_write_cnt + Bit(Opens(th'[t], i) /\ th'[t].deny_write)
  PROVE  Counts'
<1> SUFFICES ASSUME NEW i \in Struct, Settled(i)
             PROVE  /\ inode'[i].open_cnt = Cardinality(Openers(i)')
                    /\ inode'[i].deny_write_cnt = Cardinality({u \in Openers(i)' : th'[u].deny_write})
  BY SameSettled DEF Counts
<1>1. /\ Openers(i) = {u \in Thread : Opens(th[u], i)}
      /\ Openers(i)' = {u \in Thread : Opens(th'[u], i)}
  BY DEF Openers, Opens
<1>2. PICK a \in Nat, b \in Nat, c \in Nat, d \in Nat :
        /\ a = inode[i].open_cnt /\ b = inode'[i].open_cnt
        /\ c = inode[i].deny_write_cnt /\ d = inode'[i].deny_write_cnt
  <2>1. inode[i] \in InodeRec /\ inode'[i] \in InodeRec
    OBVIOUS
  <2> QED BY <2>1 DEF InodeRec
<1>3. a = Cardinality(Openers(i)) /\ c = Cardinality({u \in Openers(i) : th[u].deny_write})
  BY <1>2 DEF Counts
<1>4. PICK S \in SUBSET Thread, T \in SUBSET Thread : S = Openers(i) /\ T = Openers(i)'
  BY <1>1
<1>5. S \ {t} = T \ {t} /\ (t \in S <=> Opens(th[t], i)) /\ (t \in T <=> Opens(th'[t], i))
  BY <1>1, <1>4
<1>6. Cardinality(T) \in Nat /\ Cardinality(T) + Bit(t \in S) = a + Bit(t \in T)
  BY <1>3, <1>4, <1>5, CountStep
<1>7. PICK U \in SUBSET Thread, V \in SUBSET Thread :
        U = {u \in S : th[u].deny_write} /\ V = {u \in T : th'[u].deny_write}
  BY <1>4
<1>8. /\ U \ {t} = V \ {t} /\ (t \in U <=> Opens(th[t], i) /\ th[t].deny_write)
      /\ (t \in V <=> Opens(th'[t], i) /\ th'[t].deny_write)
  BY <1>5, <1>7
<1>9. Cardinality(V) \in Nat /\ Cardinality(V) + Bit(t \in U) = c + Bit(t \in V)
  BY <1>3, <1>4, <1>7, <1>8, CountStep
<1>10. b + Bit(t \in S) = a + Bit(t \in T) /\ d + Bit(t \in U) = c + Bit(t \in V)
  BY <1>2, <1>5, <1>8 DEF Bit
<1>11. b = Cardinality(T) /\ d = Cardinality(V)
  BY <1>6, <1>9, <1>10 DEF Bit
<1> QED BY <1>2, <1>4, <1>7, <1>11

(* The structs keep their counters and their sectors, and stay removed. *)
KeepsStructs ==
  /\ open_inodes' = open_inodes /\ inode' \in [Struct -> InodeRec]
  /\ \A i \in Struct : /\ inode'[i].open_cnt = inode[i].open_cnt
                       /\ inode'[i].deny_write_cnt = inode[i].deny_write_cnt
                       /\ inode'[i].sector = inode[i].sector
                       /\ inode[i].removed => inode'[i].removed

(* A thread goes on with the file it has: the openers stay the same. *)
LEMMA MoveBase ==
  ASSUME Base, NEW t \in Thread, Moves(t), KeepsStructs,
         th'[t].ino = th[t].ino /\ th'[t].deny_write = th[t].deny_write,
         th[t].ino # None =>
           /\ th[t].pc \in {"idle", "write", "grow", "copy"}
           /\ th'[t].pc \in {"idle", "write", "grow", "copy"}
  PROVE  ThreadInv' /\ Counts' /\ StructInv' /\ \A i \in Struct : Settled(i)' <=> Settled(i)
<1>1. ThreadInv' /\ th' \in [Thread -> ThreadRec] /\ \A u \in Thread : u # t => th'[u] = th[u]
  BY ThreadStep DEF Base
<1>2. inode \in [Struct -> InodeRec]
  BY DEF Base, TypeOK, InodeRec
<1>5. th[t].pc # "settle" /\ th'[t].pc # "settle"
  <2>1. LocalsOK(th[t]) /\ LocalsOK(th'[t])
    BY DEF Base, ThreadInv, Moves, LocalsOK
  <2> QED BY <2>1 DEF LocalsOK
<1>6. \A i \in Struct : Settled(i)' <=> Settled(i)
  BY <1>1, <1>5, SameSettled
<1>3. Counts'
  <2>1. \A i \in Struct : Opens(th[t], i) <=> Opens(th'[t], i)
    BY Sizes DEF Opens
  <2>0. th[t].pc # "settle" /\ th'[t].pc # "settle"
    BY <1>5
  <2>2. \A i \in Struct : /\ Bit(Opens(th'[t], i)) = Bit(Opens(th[t], i))
                          /\ Bit(Opens(th'[t], i) /\ th'[t].deny_write) = Bit(Opens(th[t], i) /\ th[t].deny_write)
    BY <2>1 DEF Bit
  <2> QED BY <1>1, <1>2, <2>0, <2>2, CountsStep DEF Base, KeepsStructs
<1>4. StructInv'
  <2>1. \A u \in Thread : th'[u].ino = th[u].ino
    BY <1>1
  <2>2. \A i \in Struct : Freed(i)' <=> Freed(i)
    BY DEF Freed, KeepsStructs
  <2>3. StructUsed' /\ StructListed'
    BY <2>1, <2>2 DEF Base, StructInv, StructUsed, StructListed, KeepsStructs
  <2>4. StructRefs'
    BY <1>1 DEF Base, StructInv, StructRefs, KeepsStructs
  <2> QED BY <2>3, <2>4 DEF StructInv
<1> QED BY <1>1, <1>3, <1>4, <1>6

(* Memory that is left alone. *)
LEMMA MemoryKept ==
  ASSUME Base, UNCHANGED memory
  PROVE  KeepsStructs /\ inode' = inode
BY DEF memory, Base, TypeOK, InodeRec, KeepsStructs

(* The kernel stops. *)
LEMMA StopBase ==
  ASSUME Base, NEW why, Stop(why)
  PROVE  Base' /\ panic' = why
<1>1. UNCHANGED <<disk, lock, memory, linked, th, history>> /\ panic' = why
  BY DEF Stop
<1>2. UNCHANGED <<free_map, ptr, length, bytes, unsaved, garbage, lock, inode, open_inodes, linked, th,
                  expect, shared, leaked>>
  BY <1>1 DEF disk, memory, history
<1>3. TypeOK' /\ ThreadInv' /\ StructInv'
  BY <1>2 DEF Base, TypeOK, ThreadInv, StructInv, StructUsed, StructListed, StructRefs, Freed
<1>4. Counts'
  BY <1>2 DEF Base, Counts, Openers, Settled
<1> QED BY <1>1, <1>3, <1>4 DEF Base

(* inode_open(). *)
LEMMA OpenBase ==
  ASSUME Base, NEW t \in Thread, NEW s \in Sector, inode_open(t, s)
  PROVE  Base'
<1>1. /\ th[t].pc = "idle" /\ th[t].ino = None /\ th[t].calls < MaxCalls
      /\ UNCHANGED <<free_map, ptr, length, bytes, unsaved, garbage, lock, inode, open_inodes, linked, shared, leaked>>
  BY DEF inode_open, MayCall, Running, disk, memory, history
<1>2. th \in [Thread -> ThreadRec] /\ LocalsOK(th[t]) /\ inode \in [Struct -> InodeRec]
  BY DEF Base, TypeOK, ThreadRec, InodeRec, ThreadInv, LocalsOK
<1>3. PICK r \in ThreadRec :
        /\ th' = [th EXCEPT ![t] = r] /\ LocalsOK(r) /\ r.deny_write = th[t].deny_write
        /\ r.pc \in {"reopen", "open"} /\ (r.pc = "open" => r.ino = None)
  <2>1. CASE \E i \in open_inodes :
               th' = [th EXCEPT ![t].pc = "reopen", ![t].ino = i, ![t].calls = @ + 1]
    <3>1. PICK i \in open_inodes :
               th' = [th EXCEPT ![t].pc = "reopen", ![t].ino = i, ![t].calls = @ + 1]
      BY <2>1
    <3>2. i \in Struct
      BY DEF Base, TypeOK
    <3> DEFINE r == [th[t] EXCEPT !.pc = "reopen", !.ino = i, !.calls = @ + 1]
    <3>3. r \in ThreadRec /\ th' = [th EXCEPT ![t] = r]
      BY <1>1, <1>2, <3>1, <3>2, InodeAssumption DEF ThreadRec, Points, InodeAssumption
    <3>4. LocalsOK(r) /\ r.deny_write = th[t].deny_write /\ r.pc = "reopen"
      BY <1>1, <1>2, <3>2, Sizes DEF LocalsOK, ThreadRec
    <3> QED BY <3>3, <3>4
  <2>2. CASE th' = [th EXCEPT ![t].pc = "open", ![t].main = s, ![t].calls = @ + 1]
    <3> DEFINE r == [th[t] EXCEPT !.pc = "open", !.main = s, !.calls = @ + 1]
    <3>3. r \in ThreadRec /\ th' = [th EXCEPT ![t] = r]
      BY <1>1, <1>2, <2>2, InodeAssumption DEF ThreadRec, Points, InodeAssumption
    <3>4. LocalsOK(r) /\ r.deny_write = th[t].deny_write /\ r.pc = "open" /\ r.ino = None
      BY <1>1, <1>2, Sizes DEF LocalsOK, ThreadRec
    <3> QED BY <3>3, <3>4
  <2> QED BY <2>1, <2>2 DEF inode_open
<1>4. Moves(t) /\ th'[t] = r
  BY <1>2, <1>3 DEF Moves
<1>5. ThreadInv' /\ th' \in [Thread -> ThreadRec] /\ \A u \in Thread : u # t => th'[u] = th[u]
  BY <1>4, ThreadStep DEF Base
<1>6. TypeOK'
  BY <1>1, <1>5 DEF Base, TypeOK, ThreadRec
<1>7. Counts'
  <2>1. \A i \in Struct : ~Opens(th[t], i) /\ ~Opens(th'[t], i)
    BY <1>1, <1>3, <1>4, Sizes DEF Opens
  <2>2. th[t].pc # "settle" /\ th'[t].pc # "settle"
    BY <1>1, <1>3, <1>4
  <2> QED BY <1>1, <1>2, <1>5, <2>1, <2>2, CountsStep DEF Base, Bit
<1>8. StructInv'
  <2>1. \A i \in Struct : Freed(i)' <=> Freed(i)
    BY <1>1 DEF Freed
  <2>2. \A u \in Thread : th[u].ino # None => u # t /\ th'[u] = th[u]
    BY <1>1, <1>5
  <2>3. StructUsed' /\ StructListed'
    BY <1>1, <2>1, <2>2, Sizes DEF Base, StructInv, StructUsed, StructListed
  <2>4. StructRefs'
    BY <1>1, <1>3, <1>4, <1>5 DEF Base, StructInv, StructRefs
  <2> QED BY <2>3, <2>4 DEF StructInv
<1> QED BY <1>5, <1>6, <1>7, <1>8 DEF Base

(* What Base says of one thread. *)
LEMMA BaseFacts ==
  ASSUME Base, NEW t \in Thread
  PROVE  /\ th \in [Thread -> ThreadRec] /\ th[t] \in ThreadRec /\ LocalsOK(th[t])
         /\ inode \in [Struct -> InodeRec] /\ open_inodes \subseteq Struct
         /\ MaxCalls \in Nat
BY InodeAssumption DEF Base, TypeOK, ThreadRec, InodeRec, ThreadInv, LocalsOK, InodeAssumption

(* inode_reopen(). *)
LEMMA ReopenBase ==
  ASSUME Base, NEW t \in Thread, inode_reopen(t), shared' = {}
  PROVE  Base'
<1> DEFINE i == th[t].ino
<1>1. CASE Freed(i) /\ Stop("freed inode")
  BY <1>1, StopBase
<1>2. CASE /\ ~Freed(i) /\ inode' = [inode EXCEPT ![i].open_cnt = Counted(i)]
           /\ AfterOpen(t, i, inode[i].removed)
           /\ UNCHANGED <<disk, lock, open_inodes, linked, panic, expect, leaked>>
  <2>1. /\ th[t].pc = "reopen" /\ i \in Struct /\ th \in [Thread -> ThreadRec] /\ th[t] \in ThreadRec
        /\ LocalsOK(th[t]) /\ inode \in [Struct -> InodeRec]
        /\ UNCHANGED <<free_map, ptr, length, bytes, unsaved, garbage, lock, open_inodes, linked, leaked>>
    BY <1>2, BaseFacts DEF inode_reopen, Running, LocalsOK, ThreadRec, disk
  <2> DEFINE r == [th[t] EXCEPT !.pc = IF inode[i].removed THEN "close" ELSE "idle", !.ino = i,
                                !.main = None]
  <2>2. r \in ThreadRec /\ th' = [th EXCEPT ![t] = r]
    BY <1>2, <2>1 DEF ThreadRec, AfterOpen, Points
  <2>3. /\ r.pc = IF inode[i].removed THEN "close" ELSE "idle" 
        /\ r.ino = i /\ r.deny_write = th[t].deny_write /\ LocalsOK(r)
    BY <2>1, Sizes DEF LocalsOK, ThreadRec
  <2>4. th'[t] = r /\ Moves(t)
    BY <2>1, <2>2, <2>3 DEF Moves
  <2> HIDE DEF r
  <2>5. ThreadInv' /\ th' \in [Thread -> ThreadRec] /\ \A u \in Thread : u # t => th'[u] = th[u]
    BY <2>4, ThreadStep DEF Base
  <2>6. /\ inode' \in [Struct -> InodeRec] /\ inode'[i].open_cnt = inode[i].open_cnt + 1
        /\ \A j \in Struct : j # i => inode'[j].open_cnt = inode[j].open_cnt
        /\ \A j \in Struct : /\ inode'[j].deny_write_cnt = inode[j].deny_write_cnt
                             /\ inode'[j].sector = inode[j].sector
                             /\ inode'[j].removed = inode[j].removed
    BY <1>2, <2>1 DEF InodeRec, Counted
  <2>7. TypeOK'
    BY <2>1, <2>5, <2>6 DEF Base, TypeOK, ThreadRec, InodeRec
  <2>8. Counts'
    <3>1. /\ \A j \in Struct : ~Opens(th[t], j)
          /\ \A j \in Struct : Opens(th'[t], j) <=> j = i
      BY <2>1, <2>3, <2>4 DEF Opens
    <3>2. ~th[t].deny_write /\ ~th'[t].deny_write
      BY <2>1, <2>3, <2>4 DEF LocalsOK
    <3>4. th[t].pc # "settle" /\ th'[t].pc # "settle"
      BY <2>1, <2>3, <2>4
    <3>3. \A j \in Struct :
            /\ inode'[j].open_cnt + Bit(Opens(th[t], j)) = inode[j].open_cnt + Bit(Opens(th'[t], j))
            /\ inode'[j].deny_write_cnt + Bit(Opens(th[t], j) /\ th[t].deny_write) =
                 inode[j].deny_write_cnt + Bit(Opens(th'[t], j) /\ th'[t].deny_write)
      BY <2>1, <2>6, <3>1, <3>2 DEF Bit, InodeRec
    <3> QED BY <2>1, <2>5, <2>6, <3>3, <3>4, CountsStep DEF Base
  <2>9. StructInv'
    <3>1. \A j \in Struct : Freed(j)' <=> Freed(j)
      BY <2>6 DEF Freed
    <3>2. \A u \in Thread : th'[u].ino = th[u].ino
      BY <2>3, <2>4, <2>5
    <3>3. StructUsed' /\ StructListed'
      BY <2>1, <2>6, <3>1, <3>2 DEF Base, StructInv, StructUsed, StructListed
    <3>4. StructRefs'
      BY <1>2, <2>1, <2>3, <2>4, <2>5 DEF Base, StructInv, StructRefs, StructListed
    <3> QED BY <3>3, <3>4 DEF StructInv
  <2> QED BY <2>5, <2>7, <2>8, <2>9 DEF Base
<1> QED BY <1>1, <1>2 DEF inode_reopen

(* There is a struct for whoever has none yet. *)
LEMMA FreeStruct ==
  ASSUME Base, NEW t \in Thread, th[t].ino = None
  PROVE  Unused # {}
<1> SUFFICES ASSUME {i \in Struct : Freed(i) /\ \A u \in Thread : th[u].ino # i} = {}
             PROVE  FALSE
  BY DEF Unused
<1>1. \A i \in Struct : \E u \in Thread \ {t} : th[u].ino = i
  BY Sizes DEF Base, StructInv, StructUsed
<1>2. PICK f : f = [i \in Struct |-> CHOOSE u \in Thread \ {t} : th[u].ino = i]
  OBVIOUS
<1>3. f \in [Struct -> Thread \ {t}] /\ \A i \in Struct : th[f[i]].ino = i
  BY <1>1, <1>2
<1>4. /\ IsFiniteSet(Thread) /\ Cardinality(Thread) \in Nat /\ IsFiniteSet(Thread \ {t})
      /\ Cardinality(Thread \ {t}) = Cardinality(Thread) - 1
  BY InodeAssumption, FS_CardinalityType, FS_RemoveElement DEF InodeAssumption
<1>5. Cardinality(Thread) > 0
  BY <1>4, FS_EmptySet
<1>6. IsFiniteSet(Struct) /\ Cardinality(Struct) = Cardinality(Thread)
  <2>1. PICK n \in Nat : n = Cardinality(Thread) /\ n > 0
    BY <1>4, <1>5
  <2>2. IsFiniteSet(1..n) /\ Cardinality(1..n) = IF 1 > n THEN 0 ELSE n - 1 + 1
    BY FS_Interval
  <2>3. Cardinality(1..n) = n
    BY <2>1, <2>2
  <2> QED BY <2>1, <2>2, <2>3 DEF Struct
<1>7. PICK i \in Struct, j \in Struct : i # j /\ f[i] = f[j]
  BY <1>3, <1>4, <1>6, FS_PigeonHole
<1> QED BY <1>3, <1>7

(* An opener is counted. *)
LEMMA OpenerCounts ==
  ASSUME Base, SettleInv, NEW t \in Thread, NEW i \in Struct, Opens(th[t], i)
  PROVE  /\ Settled(i)
         /\ inode[i].open_cnt \in Nat \ {0} /\ inode[i].deny_write_cnt \in Nat
         /\ th[t].deny_write => inode[i].deny_write_cnt # 0
         /\ inode[i].open_cnt = 1 => \A u \in Thread : Opens(th[u], i) => u = t
<1>1. Openers(i) = {u \in Thread : Opens(th[u], i)}
  BY DEF Openers, Opens
<1>2. PICK S \in SUBSET Thread, U \in SUBSET Thread :
        S = Openers(i) /\ U = {u \in Openers(i) : th[u].deny_write}
  BY <1>1
<1>3. IsFiniteSet(S) /\ IsFiniteSet(U) /\ Cardinality(S) \in Nat /\ Cardinality(U) \in Nat
  BY InodeAssumption, FS_Subset, FS_CardinalityType DEF InodeAssumption
<1>0. Settled(i)
  BY DEF Settled, SettleInv, Opens
<1>4. inode[i].open_cnt = Cardinality(S) /\ inode[i].deny_write_cnt = Cardinality(U)
  BY <1>0, <1>2 DEF Base, Counts
<1>5. t \in S /\ (th[t].deny_write => t \in U)
  BY <1>1, <1>2
<1>6. Cardinality(S) # 0 /\ (th[t].deny_write => Cardinality(U) # 0)
  BY <1>3, <1>5, FS_EmptySet
<1>7. Cardinality(S) = 1 => S = {t}
  BY <1>3, <1>5, FS_Singleton
<1> QED BY <1>0, <1>1, <1>2, <1>3, <1>4, <1>6, <1>7

(* The rest of inode_open(): the length is read, *)
LEMMA ReadBase ==
  ASSUME Base, NEW t \in Thread, ReadInode(t)
  PROVE  Base'
<1> DEFINE s == th[t].main
<1>1. CASE s \notin linked /\ Stop("unlinked inode")
  BY <1>1, StopBase
<1>2. CASE /\ s \in linked
           /\ th' = [th EXCEPT ![t].pc = "publish", ![t].start = length[s]]
           /\ UNCHANGED <<disk, lock, memory, linked, panic, history>>
  <2>1. /\ th[t].pc = "open" /\ s \in Sector /\ th[t].ino = None
        /\ th \in [Thread -> ThreadRec] /\ th[t] \in ThreadRec
        /\ LocalsOK(th[t]) /\ inode \in [Struct -> InodeRec] /\ length[s] \in Nat
        /\ UNCHANGED <<free_map, ptr, length, bytes, unsaved, garbage, lock, inode, open_inodes,
                       linked, shared, leaked>>
    <3>1. /\ th[t].pc = "open" /\ th \in [Thread -> ThreadRec] /\ th[t] \in ThreadRec
          /\ LocalsOK(th[t]) /\ inode \in [Struct -> InodeRec]
          /\ UNCHANGED <<free_map, ptr, length, bytes, unsaved, garbage, lock, inode, open_inodes,
                         linked, shared, leaked>>
      BY <1>2, BaseFacts DEF ReadInode, Running, disk, memory, history
    <3>2. s \in Sector /\ th[t].ino = None
      BY <3>1 DEF LocalsOK, ThreadRec
    <3>3. length[s] \in Nat
      BY <3>2, IndexOK DEF Base, TypeOK
    <3> QED BY <3>1, <3>2, <3>3
  <2>2. PICK r : r = [th[t] EXCEPT !.pc = "publish", !.start = length[s]]
    OBVIOUS
  <2>3. /\ r \in ThreadRec /\ r.pc = "publish" /\ r.ino = None /\ r.deny_write = th[t].deny_write
        /\ r.main = th[t].main /\ r.offset = th[t].offset /\ r.end = th[t].end
        /\ r.creating = th[t].creating /\ r.grown = th[t].grown
    BY <2>1, <2>2 DEF ThreadRec, Points
  <2>4. LocalsOK(r)
    BY <2>1, <2>3 DEF LocalsOK
  <2>5. th' = [th EXCEPT ![t] = r]
    BY <1>2, <2>1, <2>2
  <2>6. th'[t] = r /\ Moves(t)
    BY <2>1, <2>3, <2>4, <2>5 DEF Moves
  <2>7. KeepsStructs
    BY <2>1 DEF KeepsStructs
  <2>8. ThreadInv' /\ Counts' /\ StructInv' /\ th' \in [Thread -> ThreadRec]
    <3>1. th'[t].ino = th[t].ino /\ th'[t].deny_write = th[t].deny_write
      BY <2>1, <2>3, <2>6
    <3>2. th[t].ino = None
      BY <2>1
    <3>3. th[t].pc # "settle" /\ th'[t].pc # "settle"
      BY <2>1, <2>3, <2>6
    <3> QED BY <2>6, <2>7, <3>1, <3>2, <3>3, MoveBase DEF Moves
  <2>9. TypeOK'
    BY <2>1, <2>8 DEF Base, TypeOK, ThreadRec
  <2> QED BY <2>8, <2>9 DEF Base
<1> QED BY <1>1, <1>2 DEF ReadInode

(* There is an unused struct for whoever publishes one. *)
LEMMA UnusedStruct ==
  ASSUME Base, NEW t \in Thread, th[t].ino = None
  PROVE  /\ Least(Unused) \in Struct /\ Freed(Least(Unused))
         /\ \A u \in Thread : th[u].ino # Least(Unused)
<1>1. Unused # {}
  BY FreeStruct
<1>2. Unused \in SUBSET Nat
  BY Sizes DEF Unused
<1>3. Least(Unused) \in Unused
  BY <1>1, <1>2, LeastOf
<1> QED BY <1>3 DEF Unused

(* What free() fills memory with is a number. *)
LEMMA FilledOK == \A junk \in {0, Filled} : junk \in Nat
<1>1. Cardinality(Thread) \in Nat
  BY InodeAssumption, FS_CardinalityType DEF InodeAssumption
<1>2. \A n \in Nat : n + 2 \in Nat
  OBVIOUS
<1>3. Cardinality(Thread) + 2 \in Nat
  BY <1>1, <1>2, Zenon
<1> QED BY <1>3 DEF Filled

(* the struct is put in the list, *)
Published(t, i, junk) ==
  [sector |-> th[t].main, open_cnt |-> junk, removed |-> junk # 0, deny_write_cnt |-> junk,
   length |-> th[t].start]
LEMMA PublishFacts ==
  ASSUME Base, NEW t \in Thread, Publish(t), th[t].main \in linked, ~Stop("unlinked inode")
  PROVE  \E i \in Struct, junk \in Nat :
           /\ th[t].pc = "publish" /\ th[t].ino = None /\ th[t].main \in Sector
           /\ Freed(i) /\ \A u \in Thread : th[u].ino # i
           /\ Published(t, i, junk) \in InodeRec
           /\ inode' = [inode EXCEPT ![i] = Published(t, i, junk)]
           /\ open_inodes' = open_inodes \cup {i}
           /\ th' = [th EXCEPT ![t].pc = "settle", ![t].ino = i, ![t].start = 0]
           /\ shared' = (IF Contended(t, th[t].main) THEN shared \cup {th[t].main} ELSE shared)
           /\ UNCHANGED <<free_map, ptr, length, bytes, unsaved, garbage, lock, linked, panic, expect,
                          leaked>>
<1>1. PICK junk \in {0, Filled} :
        /\ th[t].pc = "publish"
        /\ inode' = [inode EXCEPT ![Least(Unused)] = Published(t, Least(Unused), junk)]
        /\ open_inodes' = open_inodes \cup {Least(Unused)}
        /\ th' = [th EXCEPT ![t].pc = "settle", ![t].ino = Least(Unused), ![t].start = 0]
        /\ shared' = (IF Contended(t, th[t].main) THEN shared \cup {th[t].main} ELSE shared)
        /\ UNCHANGED <<disk, lock, linked, panic, expect, leaked>>
  BY DEF Publish, Running, Published
<1>2. th[t] \in ThreadRec /\ LocalsOK(th[t])
  BY BaseFacts
<1>3. th[t].ino = None /\ th[t].main \in Sector /\ th[t].start \in Nat
  BY <1>1, <1>2 DEF LocalsOK, ThreadRec
<1>4. PICK i : i = Least(Unused) /\ i \in Struct /\ Freed(i) /\ \A u \in Thread : th[u].ino # i
  BY <1>3, UnusedStruct
<1>5. junk \in Nat
  BY FilledOK
<1>6. Published(t, i, junk) \in InodeRec
  BY <1>3, <1>5 DEF InodeRec, Published
<1>7. UNCHANGED <<free_map, ptr, length, bytes, unsaved, garbage, lock, linked, panic, expect, leaked>>
  BY <1>1 DEF disk
<1> QED BY <1>1, <1>3, <1>4, <1>5, <1>6, <1>7, Zenon

LEMMA PublishBase ==
  ASSUME Base, NEW t \in Thread, Publish(t)
  PROVE  Base'
<1>1. CASE Stop("unlinked inode")
  BY <1>1, StopBase
<1>2. CASE ~Stop("unlinked inode")
  <2>0. th[t].main \in linked
    BY <1>2 DEF Publish
  <2>1. PICK i \in Struct, junk \in Nat :
           /\ th[t].pc = "publish" /\ th[t].ino = None /\ th[t].main \in Sector
           /\ Freed(i) /\ \A u \in Thread : th[u].ino # i
           /\ Published(t, i, junk) \in InodeRec
           /\ inode' = [inode EXCEPT ![i] = Published(t, i, junk)]
           /\ open_inodes' = open_inodes \cup {i}
           /\ th' = [th EXCEPT ![t].pc = "settle", ![t].ino = i, ![t].start = 0]
           /\ shared' = (IF Contended(t, th[t].main) THEN shared \cup {th[t].main} ELSE shared)
           /\ UNCHANGED <<free_map, ptr, length, bytes, unsaved, garbage, lock, linked, panic, expect,
                          leaked>>
    BY <1>2, <2>0, PublishFacts
  <2>2. /\ th \in [Thread -> ThreadRec] /\ th[t] \in ThreadRec /\ LocalsOK(th[t])
        /\ inode \in [Struct -> InodeRec] /\ open_inodes \subseteq Struct
    BY BaseFacts
  <2>3. PICK r : r = [th[t] EXCEPT !.pc = "settle", !.ino = i, !.start = 0]
    OBVIOUS
  <2>4. /\ r \in ThreadRec /\ r.pc = "settle" /\ r.ino = i /\ r.deny_write = th[t].deny_write
        /\ r.main = th[t].main /\ r.offset = th[t].offset /\ r.end = th[t].end
        /\ r.creating = th[t].creating /\ r.grown = th[t].grown
    BY <2>1, <2>2, <2>3 DEF ThreadRec, Points
  <2>5. LocalsOK(r)
    BY <2>1, <2>2, <2>4, Sizes DEF LocalsOK
  <2>6. th' = [th EXCEPT ![t] = r]
    BY <2>1, <2>2, <2>3
  <2>7. th'[t] = r /\ Moves(t)
    BY <2>2, <2>4, <2>5, <2>6 DEF Moves
  <2>8. ThreadInv' /\ th' \in [Thread -> ThreadRec] /\ \A u \in Thread : u # t => th'[u] = th[u]
    BY <2>7, ThreadStep DEF Base
  <2>9. /\ inode' \in [Struct -> InodeRec] /\ inode'[i] = Published(t, i, junk)
        /\ \A j \in Struct : j # i => inode'[j] = inode[j]
    BY <2>1, <2>2
  <2>10. TypeOK'
    <3>1. open_inodes' \subseteq Struct /\ shared' \subseteq Sector
      BY <2>1, <2>2 DEF Base, TypeOK
    <3> QED BY <2>1, <2>8, <2>9, <3>1 DEF Base, TypeOK, ThreadRec, InodeRec
  <2>11. Counts'
    <3>1. ASSUME NEW j \in Struct, Settled(j)'
          PROVE  /\ inode'[j].open_cnt = Cardinality(Openers(j)')
                 /\ inode'[j].deny_write_cnt = Cardinality({u \in Openers(j)' : th'[u].deny_write})
      <4>1. j # i
        BY <2>4, <2>7, <3>1 DEF Settled
      <4>2. Settled(j)
        BY <2>1, <2>8, <3>1 DEF Settled
      <4>3. Openers(j)' = Openers(j)
        BY <2>1, <2>4, <2>7, <2>8, <4>1, Sizes DEF Openers
      <4>4. t \notin Openers(j)
        BY <2>1, Sizes DEF Openers
      <4>5. {u \in Openers(j)' : th'[u].deny_write} = {u \in Openers(j) : th[u].deny_write}
        BY <2>8, <4>3, <4>4 DEF Openers
      <4> QED BY <2>9, <4>1, <4>2, <4>3, <4>5 DEF Base, Counts
    <3> QED BY <3>1 DEF Counts
  <2>12. StructInv'
    <3>0. inode'[i].sector = th[t].main /\ th[t].main # None
      <4>1. Published(t, i, junk).sector = th[t].main
        BY DEF Published
      <4> QED BY <2>1, <2>9, <4>1, Sizes
    <3>1. inode'[i].sector # None /\ \A j \in Struct : j # i => (Freed(j)' <=> Freed(j))
      BY <2>9, <3>0 DEF Freed
    <3>2. \A u \in Thread : th[u].ino # None => u # t /\ th'[u] = th[u]
      BY <2>1, <2>8
    <3>3. StructUsed'
      <4> SUFFICES ASSUME NEW j \in Struct, ~Freed(j)'
                   PROVE  \E u \in Thread : th'[u].ino = j
        BY DEF StructUsed
      <4>1. CASE j = i
        BY <2>4, <2>7, <4>1
      <4>2. CASE j # i
        <5>1. ~Freed(j)
          BY <3>1, <4>2
        <5>2. PICK u \in Thread : th[u].ino = j
          BY <5>1 DEF Base, StructInv, StructUsed
        <5> QED BY <3>2, <5>2, Sizes
      <4> QED BY <4>1, <4>2
    <3>4. StructListed'
      BY <2>1, <2>9, <3>1 DEF Base, StructInv, StructListed, Freed
    <3>5. StructRefs'
      BY <2>1, <2>4, <2>7, <2>8 DEF Base, StructInv, StructRefs
    <3> QED BY <3>3, <3>4, <3>5 DEF StructInv
  <2> QED BY <2>8, <2>10, <2>11, <2>12 DEF Base
<1> QED BY <1>1, <1>2

(* and its counters are set. *)
LEMMA SettleBase ==
  ASSUME Base, SettleInv, NEW t \in Thread, Settle(t)
  PROVE  Base'
<1> DEFINE i == th[t].ino
<1>1. CASE Freed(i) /\ Stop("freed inode")
  BY <1>1, StopBase
<1>2. CASE /\ ~Freed(i) /\ AfterOpen(t, i, FALSE)
           /\ inode' = [inode EXCEPT ![i] =
                [sector |-> inode[i].sector, open_cnt |-> 1, removed |-> FALSE,
                 deny_write_cnt |-> 0, length |-> inode[i].length]]
           /\ UNCHANGED <<disk, lock, open_inodes, linked, panic, history>>
  <2>1. /\ th[t].pc = "settle" /\ i \in Struct /\ i \in open_inodes
        /\ th \in [Thread -> ThreadRec] /\ th[t] \in ThreadRec
        /\ LocalsOK(th[t]) /\ inode \in [Struct -> InodeRec]
        /\ UNCHANGED <<free_map, ptr, length, bytes, unsaved, garbage, lock, open_inodes,
                       linked, shared, leaked>>
    BY <1>2, BaseFacts DEF Settle, Running, LocalsOK, ThreadRec, disk, history, SettleInv
  <2>2. PICK r : r = [th[t] EXCEPT !.pc = "idle", !.ino = i, !.main = None]
    OBVIOUS
  <2>3. /\ r \in ThreadRec /\ r.pc = "idle" /\ r.ino = i /\ r.deny_write = th[t].deny_write
        /\ r.main = None /\ r.offset = th[t].offset /\ r.end = th[t].end
        /\ r.creating = th[t].creating /\ r.grown = th[t].grown
    BY <2>1, <2>2 DEF ThreadRec, Points
  <2>4. LocalsOK(r) /\ ~th[t].deny_write
    BY <2>1, <2>3 DEF LocalsOK
  <2>5. th' = [th EXCEPT ![t] = r]
    BY <1>2, <2>1, <2>2 DEF AfterOpen
  <2>6. th'[t] = r /\ Moves(t)
    BY <2>1, <2>3, <2>4, <2>5 DEF Moves
  <2>7. ThreadInv' /\ th' \in [Thread -> ThreadRec] /\ \A u \in Thread : u # t => th'[u] = th[u]
    BY <2>6, ThreadStep DEF Base
  <2>8. PICK x : x = [sector |-> inode[i].sector, open_cnt |-> 1, removed |-> FALSE,
                      deny_write_cnt |-> 0, length |-> inode[i].length]
    OBVIOUS
  <2>9. x \in InodeRec /\ x.sector = inode[i].sector /\ x.open_cnt = 1 /\ x.deny_write_cnt = 0
    BY <2>1, <2>8 DEF InodeRec
  <2>10. inode' \in [Struct -> InodeRec] /\ inode'[i] = x /\ \A j \in Struct : j # i => inode'[j] = inode[j]
    BY <1>2, <2>1, <2>8, <2>9
  <2>11. TypeOK'
    BY <2>1, <2>7, <2>10 DEF Base, TypeOK, ThreadRec, InodeRec
  <2>12. Counts'
    <3>1. ASSUME NEW j \in Struct, Settled(j)'
          PROVE  /\ inode'[j].open_cnt = Cardinality(Openers(j)')
                 /\ inode'[j].deny_write_cnt = Cardinality({u \in Openers(j)' : th'[u].deny_write})
      <4>1. CASE j = i
        <5>1. \A u \in Thread : u # t /\ th[u].ino = i => th[u].pc = "reopen"
          BY <2>1 DEF SettleInv
        <5>2. Openers(j)' = {t}
          BY <2>3, <2>6, <2>7, <4>1, <5>1 DEF Openers
        <5>3. {u \in Openers(j)' : th'[u].deny_write} = {}
          BY <2>3, <2>4, <2>6, <5>2
        <5> QED BY <2>9, <2>10, <4>1, <5>2, <5>3, FS_Singleton, FS_EmptySet
      <4>2. CASE j # i
        <5>1. Settled(j)
          BY <2>7, <3>1, <4>2 DEF Settled
        <5>2. Openers(j)' = Openers(j)
          BY <2>3, <2>6, <2>7, <4>2 DEF Openers
        <5>3. t \notin Openers(j)
          BY <4>2 DEF Openers
        <5>4. {u \in Openers(j)' : th'[u].deny_write} = {u \in Openers(j) : th[u].deny_write}
          BY <2>7, <5>2, <5>3 DEF Openers
        <5> QED BY <2>10, <4>2, <5>1, <5>2, <5>4 DEF Base, Counts
      <4> QED BY <4>1, <4>2
    <3> QED BY <3>1 DEF Counts
  <2>13. StructInv'
    <3>1. \A j \in Struct : Freed(j)' <=> Freed(j)
      BY <2>9, <2>10 DEF Freed
    <3>2. \A u \in Thread : th'[u].ino = th[u].ino
      BY <2>3, <2>6, <2>7
    <3>3. StructUsed'
      BY <3>1, <3>2 DEF Base, StructInv, StructUsed
    <3>4. StructListed'
      BY <2>1, <2>10, <3>1 DEF Base, StructInv, StructListed
    <3>5. StructRefs'
      BY <2>1, <2>3, <2>6, <2>7 DEF Base, StructInv, StructRefs
    <3> QED BY <3>3, <3>4, <3>5 DEF StructInv
  <2> QED BY <2>7, <2>11, <2>12, <2>13 DEF Base
<1> QED BY <1>1, <1>2 DEF Settle

-----------------------------------------------------------------------------
(* The parts of the invariant that hold until the kernel stops, and steps   *)
(* that hardly touch them.                                                  *)

Working(r) == r.pc \in {"write", "grow", "copy"}
Used(m) ==
  \/ m \in linked
  \/ \E i \in Struct : inode[i].sector = m
  \/ \E t \in Thread : th[t].creating /\ th[t].main = m

(* InUse, by its members. *)
LEMMA InUseIs ==
  ASSUME Base, Base'
  PROVE  /\ InUse \subseteq Sector /\ \A m \in Sector : m \in InUse <=> Used(m)
         /\ InUse' \subseteq Sector /\ \A m \in Sector : m \in InUse' <=> Used(m)'
<1>1. TypeOK /\ TypeOK' /\ None \notin Sector
  BY Sizes DEF Base
<1>2. InUse \subseteq Sector
  BY <1>1 DEF InUse, TypeOK
<1>3. \A m \in Sector : m \in InUse <=> Used(m)
  BY <1>1 DEF InUse, Used
<1>4. InUse' \subseteq Sector
  BY <1>1 DEF InUse, TypeOK
<1>5. \A m \in Sector : m \in InUse' <=> Used(m)'
  BY <1>1 DEF InUse, Used
<1> QED BY <1>2, <1>3, <1>4, <1>5

(* A thread that creates or grows a file is in a call. *)
LEMMA WorkingOnes ==
  ASSUME Base, NEW u \in Thread
  PROVE  /\ th[u].creating \/ th[u].grown \/ Grower(u) => Working(th[u])
         /\ Working(th[u]) => th[u].main \in Sector /\ (~th[u].creating => th[u].ino \in open_inodes)
         /\ th[u].ino \in open_inodes => th[u].ino \in Struct /\ inode[th[u].ino].sector \in Sector
<1>1. th[u] \in ThreadRec /\ LocalsOK(th[u]) /\ open_inodes \subseteq Struct
      /\ inode \in [Struct -> InodeRec]
  BY BaseFacts
<1>2. th[u].creating \/ th[u].grown \/ Grower(u) => Working(th[u])
  BY <1>1 DEF LocalsOK, Working, Grower
<1>3. Working(th[u]) => th[u].main \in Sector
  BY <1>1 DEF Working, LocalsOK, ThreadRec
<1>4. Working(th[u]) /\ ~th[u].creating => th[u].ino # None
  BY <1>1 DEF Working, LocalsOK
<1>5. Working(th[u]) /\ ~th[u].creating => th[u].ino \in open_inodes
  BY <1>1, <1>4 DEF Working, Base, StructInv, StructRefs, ThreadRec
<1>6. th[u].ino \in open_inodes => inode[th[u].ino].sector \in Sector
  <2> SUFFICES ASSUME th[u].ino \in open_inodes PROVE inode[th[u].ino].sector \in Sector
    OBVIOUS
  <2>1. PICK i \in Struct : i = th[u].ino
    BY <1>1
  <2>2. inode[i].sector # None /\ inode[i] \in InodeRec
    BY <1>1, <2>1 DEF Base, StructInv, StructListed, Freed
  <2> QED BY <2>1, <2>2 DEF InodeRec
<1> QED BY <1>1, <1>2, <1>3, <1>5, <1>6

(* The threads that work are the same, with the same files. *)
SameWorkers ==
  /\ \A u \in Thread : Working(th[u]) \/ Working(th'[u]) => th'[u] = th[u]
  /\ \A u \in Thread : th[u].creating \/ th[u].grown => Working(th[u])
  /\ \A u \in Thread : th'[u].creating \/ th'[u].grown => Working(th'[u])

(* A thread that is in no call moves. *)
LEMMA QuietWorkers ==
  ASSUME Base, Base', NEW t \in Thread, \A u \in Thread : u # t => th'[u] = th[u],
         ~Working(th[t]), ~Working(th'[t])
  PROVE  SameWorkers
<1>1. \A u \in Thread : th[u].creating \/ th[u].grown => Working(th[u])
  BY WorkingOnes
<1>2. \A u \in Thread : th'[u].creating \/ th'[u].grown => Working(th'[u])
  BY DEF Base, ThreadInv, Working
<1> QED BY <1>1, <1>2 DEF SameWorkers

(* What this means for those who are in a call. *)
LEMMA WorkersSame ==
  ASSUME Base, Base', SameWorkers
  PROVE  \A u \in Thread : /\ th[u].creating <=> th'[u].creating
                           /\ th[u].grown <=> th'[u].grown
                           /\ th[u].creating \/ th[u].grown => th'[u] = th[u]
                           /\ \A x \in {"write", "grow", "copy"} :
                                 (th[u].pc = x <=> th'[u].pc = x) /\ (th[u].pc = x => th'[u] = th[u])
                           /\ (Grower(u)' <=> Grower(u))
                           /\ Grower(u) => th'[u] = th[u]
<1> SUFFICES ASSUME NEW u \in Thread
             PROVE  /\ th[u].creating <=> th'[u].creating
                    /\ th[u].grown <=> th'[u].grown
                    /\ th[u].creating \/ th[u].grown => th'[u] = th[u]
                    /\ \A x \in {"write", "grow", "copy"} :
                          (th[u].pc = x <=> th'[u].pc = x) /\ (th[u].pc = x => th'[u] = th[u])
  BY DEF Grower
<1>1. th[u] \in ThreadRec /\ th'[u] \in ThreadRec
  BY DEF Base, TypeOK, ThreadRec
<1>2. CASE th'[u] = th[u]
  BY <1>2
<1>3. CASE ~Working(th[u]) /\ ~Working(th'[u])
  <2>1. ~th[u].creating /\ ~th[u].grown /\ ~th'[u].creating /\ ~th'[u].grown
    BY <1>3 DEF SameWorkers
  <2>2. /\ th[u].creating = FALSE /\ th'[u].creating = FALSE
        /\ th[u].grown = FALSE /\ th'[u].grown = FALSE
    BY <1>1, <2>1 DEF ThreadRec
  <2> QED BY <1>3, <2>2 DEF Working
<1> QED BY <1>2, <1>3 DEF SameWorkers

(* Structs and links may change, as long as the same files are in use and  *)
(* those who work with a file keep its struct: the files stay as they are. *)
LEMMA RelinkSound ==
  ASSUME Base, Base', SoundInv, SameWorkers, InUse' = InUse,
         UNCHANGED <<free_map, ptr, length, bytes, lock, expect, leaked>>,
         LinkInv',
         \A i \in Struct : ~Freed(i)' => inode'[i].length = length[inode'[i].sector],
         \A u \in Thread : Working(th[u]) /\ ~th[u].creating =>
           inode'[th[u].ino].sector = inode[th[u].ino].sector
  PROVE  SoundInv'
<1>1. /\ free_map' = free_map /\ ptr' = ptr /\ length' = length /\ bytes' = bytes
      /\ lock' = lock /\ expect' = expect /\ leaked' = leaked
  OBVIOUS
<1>3. \A u \in Thread : /\ th[u].creating <=> th'[u].creating
                        /\ th[u].grown <=> th'[u].grown
                        /\ th[u].creating \/ th[u].grown => th'[u] = th[u]
                        /\ \A x \in {"write", "grow", "copy"} :
                              (th[u].pc = x <=> th'[u].pc = x) /\ (th[u].pc = x => th'[u] = th[u])
                        /\ (Grower(u)' <=> Grower(u))
                        /\ Grower(u) => th'[u] = th[u]
  BY WorkersSame
<1>6. LockInv'
  <2>1. ASSUME NEW u \in Thread, th'[u].pc \in {"write", "grow", "copy"}, ~th'[u].creating
        PROVE  th'[u].main = inode'[th'[u].ino].sector
    <3>1. th'[u] = th[u] /\ Working(th[u]) /\ ~th[u].creating
      BY <1>3, <2>1 DEF Working
    <3>3. th[u].main = inode[th[u].ino].sector
      BY <3>1 DEF SoundInv, LockInv, Working
    <3> QED BY <3>1, <3>3
  <2>2. ASSUME NEW u \in Thread, Grower(u)' PROVE lock'[th'[u].main] = u
    BY <1>1, <1>3, <2>2 DEF SoundInv, LockInv
  <2>3. ASSUME NEW s \in Sector, lock'[s] # None PROVE Grower(lock[s])' /\ th'[lock[s]].main = s
    <3>1. lock[s] \in Thread /\ Grower(lock[s]) /\ th[lock[s]].main = s
      BY <1>1, <2>3 DEF SoundInv, LockInv, Base, TypeOK
    <3>2. PICK u \in Thread : u = lock[s] /\ lock'[s] = u /\ Grower(u) /\ th[u].main = s
      BY <1>1, <3>1
    <3>3. Grower(u)' /\ th'[u].main = s
      BY <1>3, <3>2
    <3> QED BY <1>1, <3>2, <3>3 DEF Grower
  <2>4. \A s \in Sector : lock'[s] # None => Grower(lock[s])' /\ th'[lock'[s]].main = s
    BY <1>1, <2>3
  <2> QED BY <2>1, <2>2, <2>4 DEF LockInv
<1>7. TreeInv'
  BY <1>1 DEF SoundInv, TreeInv
<1>8. GrowInv'
  BY <1>1, <1>3 DEF SoundInv, GrowInv, GrowOK
<1>9. LengthInv'
  BY <1>1, <1>3 DEF SoundInv, LengthInv, LengthOK
<1>10. DataInv'
  <2>1. \A m \in Sector : FileInv(m) => FileInv(m)'
    BY <1>1, <1>3 DEF FileInv
  <2>2. \A u \in Thread : WriterInv(u) => WriterInv(u)'
    <3> SUFFICES ASSUME NEW u \in Thread, WriterInv(u) PROVE WriterInv(u)'
      OBVIOUS
    <3>1. CASE th'[u] = th[u]
      BY <1>1, <3>1 DEF WriterInv
    <3>2. CASE th'[u] # th[u]
      <4>1. ~th'[u].creating /\ th'[u].pc # "grow" /\ ~th'[u].grown
        BY <1>3, <3>2
      <4> QED BY <4>1 DEF WriterInv
    <3> QED BY <3>1, <3>2
  <2>3. ASSUME NEW m \in Sector, m \in linked' \/ \E i \in Struct : inode'[i].sector = m
        PROVE  m \in linked \/ \E i \in Struct : inode[i].sector = m
    <3>1. m \in InUse
      BY <2>3, InUseIs DEF Used
    <3>2. Used(m)
      BY <3>1, InUseIs
    <3>3. ~ \E u \in Thread : th[u].creating /\ th[u].main = m
      <4> SUFFICES ASSUME NEW u \in Thread, th[u].creating, th[u].main = m PROVE FALSE
        OBVIOUS
      <4>1. th'[u].creating /\ th'[u].main = m
        BY <1>3
      <4> QED BY <2>3, <4>1 DEF LinkInv
    <3> QED BY <3>2, <3>3 DEF Used
  <2> QED BY <1>1, <2>1, <2>2, <2>3 DEF SoundInv, DataInv
<1> QED BY <1>6, <1>7, <1>8, <1>9, <1>10 DEF SoundInv

(* The data of the files are left alone. *)
KeepsFiles ==
  /\ UNCHANGED <<free_map, ptr, length, bytes, lock, expect, linked, leaked>>
  /\ \A i \in Struct : /\ inode'[i].sector = inode[i].sector
                       /\ inode'[i].removed = inode[i].removed
                       /\ inode'[i].length = inode[i].length
                       /\ (Settled(i)' => Settled(i))

(* No file is touched. *)
LEMMA QuietSound ==
  ASSUME Base, Base', SoundInv, SameWorkers, KeepsFiles
  PROVE  SoundInv'
<1>1. UNCHANGED <<free_map, ptr, length, bytes, lock, expect, leaked>> /\ linked' = linked
  BY DEF KeepsFiles
<1>2. \A i \in Struct : /\ inode'[i].sector = inode[i].sector
                        /\ inode'[i].removed = inode[i].removed
                        /\ inode'[i].length = inode[i].length
                        /\ (Settled(i)' => Settled(i))
                        /\ (Freed(i)' <=> Freed(i))
  BY DEF KeepsFiles, Freed
<1>3. \A u \in Thread : /\ th[u].creating <=> th'[u].creating
                        /\ th[u].creating => th'[u] = th[u]
  BY WorkersSame
<1>4. InUse' = InUse
  <2>1. \A m \in Sector : Used(m)' <=> Used(m)
    BY <1>1, <1>2, <1>3 DEF Used
  <2> QED BY <2>1, InUseIs
<1>5. LinkInv'
  BY <1>1, <1>2, <1>3 DEF SoundInv, LinkInv
<1>6. \A i \in Struct : ~Freed(i)' => inode'[i].length = length[inode'[i].sector]
  BY <1>2 DEF SoundInv, LengthInv
<1>7. \A u \in Thread : Working(th[u]) /\ ~th[u].creating =>
        inode'[th[u].ino].sector = inode[th[u].ino].sector
  BY <1>2, WorkingOnes
<1> QED BY <1>1, <1>4, <1>5, <1>6, <1>7, RelinkSound

(* Only the thread that has put a struct in the list settles it. *)
LEMMA StaysUnsettled ==
  ASSUME NEW t \in Thread, \A u \in Thread : u # t => th'[u] = th[u], th[t].pc # "settle"
  PROVE  \A i \in Struct : Settled(i)' => Settled(i)
BY DEF Settled

(* inode_open(), inode_reopen(). *)
LEMMA OpenSound ==
  ASSUME Base, Base', SoundInv, NEW t \in Thread, NEW s \in Sector, inode_open(t, s)
  PROVE  SoundInv'
<1>1. th \in [Thread -> ThreadRec] /\ th[t] \in ThreadRec
  BY BaseFacts
<1>2. th[t].pc = "idle" /\ th'[t].pc \in {"reopen", "open"} /\ \A u \in Thread : u # t => th'[u] = th[u]
  <2>1. \/ \E i \in open_inodes :
              th' = [th EXCEPT ![t].pc = "reopen", ![t].ino = i, ![t].calls = @ + 1]
        \/ th' = [th EXCEPT ![t].pc = "open", ![t].main = s, ![t].calls = @ + 1]
    BY DEF inode_open
  <2>2. th'[t].pc \in {"reopen", "open"}
    <3>1. CASE \E i \in open_inodes :
                 th' = [th EXCEPT ![t].pc = "reopen", ![t].ino = i, ![t].calls = @ + 1]
      <4>1. PICK i \in open_inodes :
              th' = [th EXCEPT ![t].pc = "reopen", ![t].ino = i, ![t].calls = @ + 1]
        BY <3>1
      <4>2. th'[t].pc = "reopen"
        BY <1>1, <4>1 DEF ThreadRec
      <4> QED BY <4>2
    <3>2. CASE th' = [th EXCEPT ![t].pc = "open", ![t].main = s, ![t].calls = @ + 1]
      BY <1>1, <3>2 DEF ThreadRec
    <3> QED BY <2>1, <3>1, <3>2
  <2>3. \A u \in Thread : u # t => th'[u] = th[u]
    BY <1>1, <2>1
  <2> QED BY <2>2, <2>3 DEF inode_open, MayCall, Running
<1>3. SameWorkers
  BY <1>2, QuietWorkers DEF Working
<1>4. KeepsFiles
  BY <1>2, StaysUnsettled DEF inode_open, KeepsFiles, disk, memory, history
<1> QED BY <1>3, <1>4, QuietSound

LEMMA ReopenSound ==
  ASSUME Base, Base', SoundInv, NEW t \in Thread, inode_reopen(t), panic' = "no"
  PROVE  SoundInv'
<1>1. th \in [Thread -> ThreadRec] /\ th[t] \in ThreadRec /\ inode \in [Struct -> InodeRec]
  BY BaseFacts
<1> DEFINE i == th[t].ino
<1>2. /\ ~Freed(i) /\ inode' = [inode EXCEPT ![i].open_cnt = Counted(i)]
      /\ AfterOpen(t, i, inode[i].removed) /\ th[t].pc = "reopen"
      /\ UNCHANGED <<disk, lock, open_inodes, linked, panic, expect, leaked>>
  BY DEF inode_reopen, Stop, Running
<1>3. th'[t].pc \in {"close", "idle"} /\ \A u \in Thread : u # t => th'[u] = th[u]
  BY <1>1, <1>2 DEF AfterOpen, ThreadRec
<1>4. SameWorkers
  BY <1>2, <1>3, QuietWorkers DEF Working
<1>5. KeepsFiles
  <2>1. \A j \in Struct : /\ inode'[j].sector = inode[j].sector
                          /\ inode'[j].removed = inode[j].removed
                          /\ inode'[j].length = inode[j].length
    BY <1>1, <1>2 DEF InodeRec
  <2> QED BY <1>2, <1>3, <2>1, StaysUnsettled DEF KeepsFiles, disk
<1> QED BY <1>4, <1>5, QuietSound

(* The rest of inode_open(): the struct is the only one of its inode. *)
LEMMA ReadSound ==
  ASSUME Base, Base', SoundInv, NEW t \in Thread, ReadInode(t), panic' = "no"
  PROVE  SoundInv'
<1>1. th \in [Thread -> ThreadRec] /\ th[t] \in ThreadRec
  BY BaseFacts
<1>2. /\ th' = [th EXCEPT ![t].pc = "publish", ![t].start = length[th[t].main]]
      /\ th[t].pc = "open" /\ UNCHANGED <<disk, lock, memory, linked, panic, history>>
  BY DEF ReadInode, Stop, Running
<1>3. th'[t].pc = "publish" /\ \A u \in Thread : u # t => th'[u] = th[u]
  BY <1>1, <1>2 DEF ThreadRec
<1>4. SameWorkers
  BY <1>2, <1>3, QuietWorkers DEF Working
<1>5. KeepsFiles
  BY <1>2, <1>3, StaysUnsettled DEF KeepsFiles, disk, memory, history
<1> QED BY <1>4, <1>5, QuietSound

LEMMA PublishSound ==
  ASSUME Base, Base', SoundInv, SearchInv, NEW t \in Thread, Publish(t), panic' = "no"
  PROVE  SoundInv'
<1>1. PICK s : s = th[t].main
  OBVIOUS
<1>2. th[t].pc = "publish" /\ s \in linked /\ ~Stop("unlinked inode")
  BY <1>1 DEF Publish, Stop, Running
<1>3. PICK new \in Struct, junk \in Nat :
        /\ th[t].ino = None /\ th[t].main \in Sector
        /\ Freed(new) /\ \A u \in Thread : th[u].ino # new
        /\ Published(t, new, junk) \in InodeRec
        /\ inode' = [inode EXCEPT ![new] = Published(t, new, junk)]
        /\ open_inodes' = open_inodes \cup {new}
        /\ th' = [th EXCEPT ![t].pc = "settle", ![t].ino = new, ![t].start = 0]
        /\ UNCHANGED <<free_map, ptr, length, bytes, unsaved, garbage, lock, linked, panic, expect,
                       leaked>>
  BY <1>1, <1>2, PublishFacts
<1>4. th \in [Thread -> ThreadRec] /\ th[t] \in ThreadRec /\ inode \in [Struct -> InodeRec]
  BY BaseFacts
<1>5. th[t].start = length[s] /\ \A j \in Struct : inode[j].sector # s
  BY <1>1, <1>2 DEF SearchInv
<1>6. Published(t, new, junk).sector = s /\ Published(t, new, junk).length = length[s]
  BY <1>1, <1>5 DEF Published
<1>7. /\ inode'[new].sector = s /\ inode'[new].length = length[s]
      /\ \A j \in Struct : j # new => inode'[j] = inode[j]
  BY <1>3, <1>4, <1>6
<1>8. UNCHANGED <<free_map, ptr, length, bytes, lock, expect, leaked>> /\ linked' = linked
  BY <1>3
<1>9. th'[t].pc = "settle" /\ th'[t].ino = new /\ \A u \in Thread : u # t => th'[u] = th[u]
  BY <1>3, <1>4 DEF ThreadRec
<1>10. \A j \in Struct : Settled(j)' => Settled(j) /\ j # new
  BY <1>2, <1>9 DEF Settled
<1>12. SameWorkers
  BY <1>2, <1>9, QuietWorkers DEF Working
<1>13. \A u \in Thread : /\ th[u].creating <=> th'[u].creating
                         /\ th[u].creating => th'[u] = th[u]
  BY <1>12, WorkersSame
<1>14. InUse' = InUse
  <2>1. s \in Sector /\ None \notin Sector
    BY <1>1, <1>3, Sizes
  <2>2. \A m \in Sector : Used(m)' <=> Used(m)
    <3> SUFFICES ASSUME NEW m \in Sector PROVE Used(m)' <=> Used(m)
      OBVIOUS
    <3>1. (\E u \in Thread : th'[u].creating /\ th'[u].main = m) <=>
            \E u \in Thread : th[u].creating /\ th[u].main = m
      BY <1>13
    <3>2. m \in linked \/ (\E j \in Struct : inode[j].sector = m) <=>
            m \in linked' \/ \E j \in Struct : inode'[j].sector = m
      <4>1. m \in linked' <=> m \in linked
        BY <1>8
      <4>2. ASSUME NEW j \in Struct, inode[j].sector = m PROVE inode'[j].sector = m
        BY <1>3, <1>7, <2>1, <4>2 DEF Freed
      <4>3. ASSUME NEW j \in Struct, inode'[j].sector = m
            PROVE  m \in linked \/ \E k \in Struct : inode[k].sector = m
        <5>1. CASE j = new
          BY <1>2, <1>7, <4>3, <5>1
        <5>2. CASE j # new
          BY <1>7, <4>3, <5>2
        <5> QED BY <5>1, <5>2
      <4> QED BY <4>1, <4>2, <4>3
    <3> QED BY <3>1, <3>2 DEF Used
  <2> QED BY <2>2, InUseIs
<1>15. LinkInv'
  <2>1. ASSUME NEW i \in Struct, NEW j \in Struct, ~Freed(i)', inode'[i].sector = inode'[j].sector
        PROVE  i = j
    <3>1. CASE i = new \/ j = new
      BY <1>5, <1>7, <2>1, <3>1
    <3>2. CASE i # new /\ j # new
      BY <1>7, <2>1, <3>2 DEF SoundInv, LinkInv, Freed
    <3> QED BY <3>1, <3>2
  <2>2. \A i \in Struct : ~Freed(i)' /\ Settled(i)' => (inode'[i].removed <=> inode'[i].sector \notin linked')
    BY <1>7, <1>8, <1>10 DEF SoundInv, LinkInv, Freed
  <2>3. ASSUME NEW u \in Thread, th'[u].creating
        PROVE  /\ th'[u].main \notin linked'
               /\ \A i \in Struct : inode'[i].sector # th'[u].main
               /\ \A v \in Thread : th'[v].creating /\ th'[v].main = th'[u].main => u = v
    <3>1. th'[u] = th[u] /\ th[u].creating
      BY <1>13, <2>3
    <3>2. /\ th[u].main \notin linked /\ \A i \in Struct : inode[i].sector # th[u].main
          /\ \A v \in Thread : th[v].creating /\ th[v].main = th[u].main => u = v
      BY <3>1 DEF SoundInv, LinkInv
    <3>3. \A i \in Struct : inode'[i].sector # th[u].main
      BY <1>2, <1>7, <3>2
    <3> QED BY <1>8, <1>13, <3>1, <3>2, <3>3
  <2> QED BY <2>1, <2>2, <2>3 DEF LinkInv
<1>16. \A i \in Struct : ~Freed(i)' => inode'[i].length = length[inode'[i].sector]
  BY <1>7 DEF SoundInv, LengthInv, Freed
<1>17. \A u \in Thread : Working(th[u]) /\ ~th[u].creating =>
         inode'[th[u].ino].sector = inode[th[u].ino].sector
  BY <1>3, <1>7, WorkingOnes
<1> QED BY <1>8, <1>12, <1>14, <1>15, <1>16, <1>17, RelinkSound

LEMMA SettleSound ==
  ASSUME Base, Base', SoundInv, SettleInv, SearchInv, NEW t \in Thread, Settle(t), panic' = "no"
  PROVE  SoundInv'
<1>1. PICK i : i = th[t].ino
  OBVIOUS
<1>2. PICK x : x = [sector |-> inode[i].sector, open_cnt |-> 1, removed |-> FALSE,
                    deny_write_cnt |-> 0, length |-> inode[i].length]
  OBVIOUS
<1>3. /\ th[t].pc = "settle" /\ inode' = [inode EXCEPT ![i] = x] /\ AfterOpen(t, i, FALSE)
      /\ UNCHANGED <<disk, lock, open_inodes, linked, panic, history>>
  BY <1>1, <1>2 DEF Settle, Stop, Running
<1>4. /\ th \in [Thread -> ThreadRec] /\ th[t] \in ThreadRec /\ inode \in [Struct -> InodeRec]
      /\ open_inodes \subseteq Struct
  BY BaseFacts
<1>5. /\ i \in Struct /\ inode[i].sector \in linked
      /\ \A u \in Thread : u # t /\ th[u].pc = "settle" => th[u].ino # i
  BY <1>1, <1>3, <1>4 DEF SettleInv, SearchInv
<1>6. /\ inode'[i].sector = inode[i].sector /\ inode'[i].removed = FALSE
      /\ inode'[i].length = inode[i].length /\ \A j \in Struct : j # i => inode'[j] = inode[j]
  BY <1>2, <1>3, <1>4, <1>5
<1>8. UNCHANGED <<free_map, ptr, length, bytes, lock, expect, leaked>> /\ linked' = linked
  BY <1>3 DEF disk, history
<1>9. th'[t].pc = "idle" /\ \A u \in Thread : u # t => th'[u] = th[u]
  BY <1>3, <1>4 DEF AfterOpen, ThreadRec
<1>10. \A j \in Struct : j # i /\ Settled(j)' => Settled(j)
  BY <1>1, <1>9 DEF Settled
<1>12. SameWorkers
  BY <1>3, <1>9, QuietWorkers DEF Working
<1>13. \A u \in Thread : /\ th[u].creating <=> th'[u].creating
                         /\ th[u].creating => th'[u] = th[u]
  BY <1>12, WorkersSame
<1>7. \A j \in Struct : inode'[j].sector = inode[j].sector /\ inode'[j].length = inode[j].length
  BY <1>6
<1>14. InUse' = InUse
  <2>2. \A m \in Sector : Used(m)' <=> Used(m)
    BY <1>7, <1>8, <1>13 DEF Used
  <2> QED BY <2>2, InUseIs
<1>15. LinkInv'
  <2>1. \A j, k \in Struct : ~Freed(j)' /\ inode'[j].sector = inode'[k].sector => j = k
    BY <1>7 DEF SoundInv, LinkInv, Freed
  <2>2. ASSUME NEW j \in Struct, ~Freed(j)', Settled(j)'
        PROVE  inode'[j].removed <=> inode'[j].sector \notin linked'
    <3>1. CASE j = i
      BY <1>5, <1>6, <1>8, <3>1
    <3>2. CASE j # i
      BY <1>6, <1>8, <1>10, <2>2, <3>2 DEF SoundInv, LinkInv, Freed
    <3> QED BY <3>1, <3>2
  <2>3. \A u \in Thread : th'[u].creating =>
          /\ th'[u].main \notin linked'
          /\ \A j \in Struct : inode'[j].sector # th'[u].main
          /\ \A v \in Thread : th'[v].creating /\ th'[v].main = th'[u].main => u = v
    BY <1>7, <1>8, <1>13 DEF SoundInv, LinkInv
  <2> QED BY <2>1, <2>2, <2>3 DEF LinkInv
<1>16. \A j \in Struct : ~Freed(j)' => inode'[j].length = length[inode'[j].sector]
  BY <1>7 DEF SoundInv, LengthInv, Freed
<1>17. \A u \in Thread : Working(th[u]) /\ ~th[u].creating =>
         inode'[th[u].ino].sector = inode[th[u].ino].sector
  BY <1>7, WorkingOnes
<1> QED BY <1>8, <1>12, <1>14, <1>15, <1>16, <1>17, RelinkSound

(* inode_remove(). *)
LEMMA RemoveStep ==
  ASSUME IInv, NEW t \in Thread, inode_remove(t)
  PROVE  IInv' /\ (Sound' => Sound)
<1>0. Base
  BY DEF IInv
<1>1. PICK i : i = th[t].ino
  OBVIOUS
<1>2. /\ th[t].pc = "idle" /\ th[t].calls < MaxCalls /\ i # None /\ inode[i].sector \in linked
      /\ linked' = linked \ {inode[i].sector}
      /\ inode' = [inode EXCEPT ![i].removed = TRUE]
      /\ th' = [th EXCEPT ![t].calls = @ + 1]
      /\ UNCHANGED <<free_map, ptr, length, bytes, unsaved, garbage, lock, open_inodes, panic, expect, shared, leaked>>
  BY <1>1 DEF inode_remove, MayCall, Running, disk, history
<1>3. /\ th \in [Thread -> ThreadRec] /\ th[t] \in ThreadRec /\ LocalsOK(th[t]) /\ i \in Struct
      /\ inode \in [Struct -> InodeRec] /\ MaxCalls \in Nat
  BY <1>0, <1>1, <1>2, BaseFacts DEF ThreadRec
<1> DEFINE r == [th[t] EXCEPT !.calls = @ + 1]
<1>4. r \in ThreadRec /\ th' = [th EXCEPT ![t] = r]
  BY <1>2, <1>3 DEF ThreadRec
<1>5. LocalsOK(r) /\ r.pc = "idle" /\ r.ino = i /\ r.deny_write = th[t].deny_write
  BY <1>1, <1>2, <1>3 DEF LocalsOK, ThreadRec
<1>6. th'[t] = r /\ Moves(t)
  BY <1>3, <1>4, <1>5 DEF Moves
<1> HIDE DEF r
<1>7. /\ inode' \in [Struct -> InodeRec] /\ inode'[i].removed = TRUE
      /\ \A j \in Struct : j # i => inode'[j].removed = inode[j].removed
      /\ \A j \in Struct : /\ inode'[j].open_cnt = inode[j].open_cnt
                           /\ inode'[j].deny_write_cnt = inode[j].deny_write_cnt
                           /\ inode'[j].sector = inode[j].sector
                           /\ inode'[j].length = inode[j].length
  BY <1>2, <1>3 DEF InodeRec
<1>8. ThreadInv' /\ Counts' /\ StructInv' /\ \A j \in Struct : Settled(j)' <=> Settled(j)
  <2>1. KeepsStructs
    BY <1>2, <1>7 DEF KeepsStructs
  <2> QED BY <1>0, <1>1, <1>2, <1>5, <1>6, <2>1, MoveBase
<1>9. th' \in [Thread -> ThreadRec] /\ \A u \in Thread : u # t => th'[u] = th[u]
  BY <1>6 DEF Moves
<1>10. TypeOK'
  <2>1. linked' \subseteq Sector
    BY <1>0, <1>2 DEF Base, TypeOK
  <2> QED BY <1>0, <1>2, <1>7, <1>9, <2>1 DEF Base, TypeOK, ThreadRec, InodeRec
<1>11. Base'
  BY <1>8, <1>10 DEF Base
<1>12. ASSUME SoundInv PROVE SoundInv'
  <2>1. SameWorkers
    BY <1>0, <1>2, <1>5, <1>6, <1>9, <1>11, QuietWorkers DEF Working
  <2>2. \A u \in Thread : /\ th[u].creating <=> th'[u].creating
                          /\ th[u].creating => th'[u] = th[u]
    BY <1>0, <1>11, <2>1, WorkersSame
  <2>3. InUse' = InUse
    <3>1. \A m \in Sector : Used(m)' <=> Used(m)
      BY <1>2, <1>3, <1>7, <2>2 DEF Used
    <3> QED BY <1>0, <1>11, <3>1, InUseIs
  <2>4. \A j \in Struct : Freed(j)' <=> Freed(j)
    BY <1>7 DEF Freed
  <2>5. LinkInv'
    <3>1. \A j, k \in Struct : ~Freed(j)' /\ inode'[j].sector = inode'[k].sector => j = k
      BY <1>7, <1>12, <2>4 DEF SoundInv, LinkInv
    <3>2. ASSUME NEW j \in Struct, ~Freed(j), Settled(j)
          PROVE  inode'[j].removed <=> inode'[j].sector \notin linked'
      <4>1. CASE j = i
        BY <1>2, <1>7, <4>1
      <4>2. CASE j # i
        <5>1. inode[j].sector # inode[i].sector
          BY <1>3, <1>12, <3>2, <4>2 DEF SoundInv, LinkInv
        <5>2. inode[j].removed <=> inode[j].sector \notin linked
          BY <1>12, <3>2 DEF SoundInv, LinkInv
        <5> QED BY <1>2, <1>7, <4>2, <5>1, <5>2
      <4> QED BY <4>1, <4>2
    <3>3. \A u \in Thread : th'[u].creating =>
            /\ th'[u].main \notin linked'
            /\ \A j \in Struct : inode'[j].sector # th'[u].main
            /\ \A v \in Thread : th'[v].creating /\ th'[v].main = th'[u].main => u = v
      BY <1>2, <1>7, <1>12, <2>2 DEF SoundInv, LinkInv
    <3> QED BY <1>8, <2>4, <3>1, <3>2, <3>3 DEF LinkInv
  <2>6. \A j \in Struct : ~Freed(j)' => inode'[j].length = length[inode'[j].sector]
    BY <1>7, <1>12, <2>4 DEF SoundInv, LengthInv
  <2>7. \A u \in Thread : Working(th[u]) /\ ~th[u].creating =>
          inode'[th[u].ino].sector = inode[th[u].ino].sector
    BY <1>0, <1>7, WorkingOnes
  <2> QED BY <1>0, <1>2, <1>11, <1>12, <2>1, <2>3, <2>5, <2>6, <2>7, RelinkSound
<1>13. Sound' => Sound
  BY <1>2 DEF Sound
<1> QED BY <1>11, <1>12, <1>13 DEF IInv

(* file_deny_write(). *)
LEMMA DenyStep ==
  ASSUME IInv, NEW t \in Thread, file_deny_write(t), panic' = "no"
  PROVE  IInv' /\ (Sound' => Sound)
<1>0. Base
  BY DEF IInv
<1>1. PICK i : i = th[t].ino
  OBVIOUS
<1>2. /\ th[t].pc = "idle" /\ th[t].calls < MaxCalls /\ i # None /\ ~th[t].deny_write
      /\ inode' = [inode EXCEPT ![i].deny_write_cnt = @ + 1]
      /\ th' = [th EXCEPT ![t].deny_write = TRUE, ![t].calls = @ + 1]
      /\ UNCHANGED <<free_map, ptr, length, bytes, unsaved, garbage, lock, open_inodes, linked, panic,
                     expect, shared, leaked>>
  BY <1>1 DEF file_deny_write, MayCall, Running, Stop, disk, history
<1>3. /\ th \in [Thread -> ThreadRec] /\ th[t] \in ThreadRec /\ LocalsOK(th[t]) /\ i \in Struct
      /\ inode \in [Struct -> InodeRec] /\ MaxCalls \in Nat
  BY <1>0, <1>1, <1>2, BaseFacts DEF ThreadRec
<1> DEFINE r == [th[t] EXCEPT !.deny_write = TRUE, !.calls = @ + 1]
<1>4. r \in ThreadRec /\ th' = [th EXCEPT ![t] = r]
  BY <1>2, <1>3 DEF ThreadRec
<1>5. LocalsOK(r) /\ r.pc = "idle" /\ r.ino = i /\ r.deny_write
  BY <1>1, <1>2, <1>3 DEF LocalsOK, ThreadRec
<1>6. th'[t] = r /\ Moves(t)
  BY <1>3, <1>4, <1>5 DEF Moves
<1> HIDE DEF r
<1>7. /\ inode' \in [Struct -> InodeRec] /\ inode'[i].deny_write_cnt = inode[i].deny_write_cnt + 1
      /\ \A j \in Struct : j # i => inode'[j].deny_write_cnt = inode[j].deny_write_cnt
      /\ \A j \in Struct : /\ inode'[j].open_cnt = inode[j].open_cnt
                           /\ inode'[j].removed = inode[j].removed
                           /\ inode'[j].sector = inode[j].sector
                           /\ inode'[j].length = inode[j].length
  BY <1>2, <1>3 DEF InodeRec
<1>8. ThreadInv' /\ th' \in [Thread -> ThreadRec] /\ \A u \in Thread : u # t => th'[u] = th[u]
  BY <1>0, <1>6, ThreadStep DEF Base
<1>9. TypeOK'
  BY <1>0, <1>2, <1>7, <1>8 DEF Base, TypeOK, ThreadRec, InodeRec
<1>10. Counts'
  <2>1. \A j \in Struct : (Opens(th[t], j) <=> j = i) /\ (Opens(th'[t], j) <=> j = i)
    BY <1>1, <1>2, <1>5, <1>6 DEF Opens
  <2>2. \A j \in Struct :
          /\ inode'[j].open_cnt + Bit(Opens(th[t], j)) = inode[j].open_cnt + Bit(Opens(th'[t], j))
          /\ inode'[j].deny_write_cnt + Bit(Opens(th[t], j) /\ th[t].deny_write) =
               inode[j].deny_write_cnt + Bit(Opens(th'[t], j) /\ th'[t].deny_write)
    BY <1>2, <1>3, <1>5, <1>6, <1>7, <2>1 DEF Bit, InodeRec
  <2>3. th[t].pc # "settle" /\ th'[t].pc # "settle"
    BY <1>2, <1>5, <1>6
  <2> QED BY <1>0, <1>3, <1>7, <1>8, <2>2, <2>3, CountsStep DEF Base
<1>11. StructInv'
  <2>1. \A j \in Struct : Freed(j)' <=> Freed(j)
    BY <1>7 DEF Freed
  <2>2. \A u \in Thread : th'[u].ino = th[u].ino /\ th'[u].pc = th[u].pc
    BY <1>1, <1>2, <1>5, <1>6, <1>8
  <2>3. open_inodes' = open_inodes
    BY <1>2
  <2>4. StructUsed' /\ StructListed'
    BY <1>0, <1>7, <2>1, <2>2, <2>3 DEF Base, StructInv, StructUsed, StructListed
  <2>5. StructRefs'
    BY <1>0, <2>2, <2>3 DEF Base, StructInv, StructRefs
  <2> QED BY <2>4, <2>5 DEF StructInv
<1>12. Base'
  BY <1>8, <1>9, <1>10, <1>11 DEF Base
<1>13. ASSUME SoundInv PROVE SoundInv'
  <2>1. SameWorkers
    BY <1>0, <1>2, <1>5, <1>6, <1>8, <1>12, QuietWorkers DEF Working
  <2>2. KeepsFiles
    <3>1. \A j \in Struct : Settled(j)' => Settled(j)
      BY <1>2, <1>8, StaysUnsettled
    <3> QED BY <1>2, <1>7, <3>1 DEF KeepsFiles
  <2> QED BY <1>0, <1>12, <1>13, <2>1, <2>2, QuietSound
<1>14. Sound' => Sound
  BY <1>2 DEF Sound
<1> QED BY <1>12, <1>13, <1>14 DEF IInv

(* file_close(): the last close takes the struct off the list, and frees   *)
(* it unless the inode is removed.                                         *)
LEMMA CloseStep ==
  ASSUME IInv, SettleInv, NEW t \in Thread, file_close(t), panic' = "no"
  PROVE  IInv' /\ (Sound' => Sound)
<1>0. Base
  BY DEF IInv
<1>1. PICK i : i = th[t].ino
  OBVIOUS
<1> DEFINE last == inode[i].open_cnt = 1
           gone == last /\ ~inode[i].removed
           stays == last /\ inode[i].removed
           r == [th[t] EXCEPT !.pc = IF stays THEN "cleanup" ELSE "idle",
                              !.ino = IF stays THEN i ELSE None, !.deny_write = FALSE]
<1>2. /\ th[t].pc \in {"idle", "close"} /\ (th[t].pc = "idle" => i # None) /\ ~Freed(i)
      /\ inode' = [inode EXCEPT ![i].deny_write_cnt = @ - Denials(t), ![i].open_cnt = @ - 1,
                                ![i].sector = IF gone THEN None ELSE @]
      /\ open_inodes' = (IF last THEN open_inodes \ {i} ELSE open_inodes)
      /\ th' = [th EXCEPT ![t].pc = IF stays THEN "cleanup" ELSE "idle",
                          ![t].ino = IF stays THEN i ELSE None, ![t].deny_write = FALSE]
      /\ UNCHANGED <<free_map, ptr, length, bytes, unsaved, garbage, lock, linked, panic, expect, shared, leaked>>
  BY <1>1 DEF file_close, Stop, Running, disk, history
<1>3. /\ th \in [Thread -> ThreadRec] /\ th[t] \in ThreadRec /\ LocalsOK(th[t]) /\ i \in Struct
      /\ inode \in [Struct -> InodeRec] /\ open_inodes \subseteq Struct
  BY <1>0, <1>1, <1>2, BaseFacts DEF ThreadRec, LocalsOK
<1>4. /\ inode[i].open_cnt \in Nat \ {0} /\ inode[i].deny_write_cnt \in Nat
      /\ th[t].deny_write => inode[i].deny_write_cnt # 0
      /\ last => \A u \in Thread : Opens(th[u], i) => u = t
      /\ Settled(i)
  BY <1>0, <1>1, <1>2, <1>3, OpenerCounts DEF Opens
<1> HIDE DEF last
<1>5. r \in ThreadRec /\ th' = [th EXCEPT ![t] = r]
  BY <1>2, <1>3 DEF ThreadRec, Points
<1>6. /\ LocalsOK(r) /\ r.pc = (IF stays THEN "cleanup" ELSE "idle") /\ ~r.deny_write
      /\ r.ino = (IF stays THEN i ELSE None)
  BY <1>2, <1>3, Sizes DEF LocalsOK, ThreadRec
<1>7. th'[t] = r /\ Moves(t)
  BY <1>3, <1>5, <1>6 DEF Moves
<1> HIDE DEF r
<1>8. ThreadInv' /\ th' \in [Thread -> ThreadRec] /\ \A u \in Thread : u # t => th'[u] = th[u]
  BY <1>0, <1>7, ThreadStep DEF Base
<1>9. PICK rec : rec = [inode[i] EXCEPT !.deny_write_cnt = @ - Denials(t), !.open_cnt = @ - 1,
                                       !.sector = IF gone THEN None ELSE @]
  OBVIOUS
<1>10. /\ rec \in InodeRec /\ rec.open_cnt = inode[i].open_cnt - 1
       /\ rec.deny_write_cnt = inode[i].deny_write_cnt - Denials(t)
       /\ rec.removed = inode[i].removed /\ rec.length = inode[i].length
       /\ rec.sector = IF gone THEN None ELSE inode[i].sector
  <2>1. inode[i] \in InodeRec
    BY <1>3
  <2>2. inode[i].deny_write_cnt - Denials(t) \in Nat /\ inode[i].open_cnt - 1 \in Nat
    BY <1>4 DEF Denials
  <2>3. (IF gone THEN None ELSE inode[i].sector) \in Sector \cup {None}
    BY <2>1 DEF InodeRec
  <2> HIDE DEF gone
  <2> QED BY <1>9, <2>1, <2>2, <2>3 DEF InodeRec
<1>11. /\ inode' \in [Struct -> InodeRec] /\ inode'[i] = rec
       /\ \A j \in Struct : j # i => inode'[j] = inode[j]
  <2>1. inode' = [inode EXCEPT ![i] = rec]
    BY <1>2, <1>3, <1>9
  <2> QED BY <1>3, <1>10, <2>1
<1>12. TypeOK'
  <2>1. open_inodes' \subseteq Struct
    BY <1>2, <1>3
  <2> QED BY <1>0, <1>2, <1>8, <1>11, <2>1 DEF Base, TypeOK, ThreadRec, InodeRec
<1>13. Counts'
  <2>1. \A j \in Struct : (Opens(th[t], j) <=> j = i) /\ ~Opens(th'[t], j)
    BY <1>1, <1>2, <1>6, <1>7, Sizes DEF Opens
  <2>2. ASSUME NEW j \in Struct
        PROVE /\ inode'[j].open_cnt + Bit(Opens(th[t], j)) = inode[j].open_cnt + Bit(Opens(th'[t], j))
              /\ inode'[j].deny_write_cnt + Bit(Opens(th[t], j) /\ th[t].deny_write) =
                   inode[j].deny_write_cnt + Bit(Opens(th'[t], j) /\ th'[t].deny_write)
    <3>1. CASE j = i
      BY <1>4, <1>10, <1>11, <2>1, <3>1 DEF Bit, Denials
    <3>2. CASE j # i
      BY <1>3, <1>11, <2>1, <3>2 DEF Bit, InodeRec
    <3> QED BY <3>1, <3>2
  <2>3. th[t].pc # "settle" /\ th'[t].pc # "settle"
    BY <1>2, <1>6, <1>7
  <2> QED BY <1>0, <1>3, <1>8, <1>11, <2>2, <2>3, CountsStep DEF Base
<1>14. StructInv'
  <2>1. \A j \in Struct : j # i => (Freed(j)' <=> Freed(j))
    BY <1>11 DEF Freed
  <2>2. inode'[i].sector = None <=> gone
    BY <1>2, <1>10, <1>11 DEF Freed
  <2>3. StructUsed'
    <3> SUFFICES ASSUME NEW j \in Struct, inode'[j].sector # None PROVE \E u \in Thread : th'[u].ino = j
      BY DEF StructUsed, Freed
    <3>1. CASE j # i
      <4>1. PICK u \in Thread : th[u].ino = j
        BY <1>0, <2>1, <3>1 DEF Base, StructInv, StructUsed, Freed
      <4> QED BY <1>1, <1>8, <3>1, <4>1
    <3>2. CASE j = i /\ last
      BY <1>6, <1>7, <2>2, <3>2
    <3>3. CASE j = i /\ ~last
      <4>1. inode'[i].open_cnt # 0
        BY <1>4, <1>10, <1>11, <3>3 DEF last
      <4>4. Settled(i)'
        BY <1>2, <1>4, <1>6, <1>7, <1>8 DEF Settled
      <4>2. Cardinality(Openers(j)') # 0
        BY <1>3, <1>13, <3>3, <4>1, <4>4 DEF Counts
      <4>3. Openers(j)' # {}
        BY <4>2, FS_EmptySet
      <4> QED BY <4>3 DEF Openers
    <3> QED BY <3>1, <3>2, <3>3
  <2>4. StructListed'
    <3> SUFFICES ASSUME NEW j \in Struct
                 PROVE  /\ j \in open_inodes' => inode'[j].sector # None
                        /\ inode'[j].sector # None /\ j \notin open_inodes' => inode'[j].removed
      BY DEF StructListed, Freed
    <3>1. CASE j # i
      BY <1>0, <1>2, <1>11, <3>1 DEF Base, StructInv, StructListed, Freed
    <3>2. CASE j = i
      <4>1. i \notin open_inodes => inode[i].removed
        BY <1>0, <1>2, <1>3 DEF Base, StructInv, StructListed
      <4> QED BY <1>2, <1>10, <1>11, <2>2, <3>2, <4>1
    <3> QED BY <3>1, <3>2
  <2>5. StructRefs'
    <3> SUFFICES ASSUME NEW u \in Thread, th'[u].ino # None
                 PROVE  /\ th'[u].pc \in {"idle", "write", "grow", "copy"} => th'[u].ino \in open_inodes'
                        /\ th'[u].pc = "cleanup" => th'[u].ino \notin open_inodes'
      BY DEF StructRefs
    <3>1. CASE u = t
      BY <1>2, <1>6, <1>7, <3>1
    <3>2. CASE u # t
      <4>1. th'[u] = th[u]
        BY <1>8, <3>2
      <4>2. /\ th[u].pc \in {"idle", "write", "grow", "copy"} => th[u].ino \in open_inodes
            /\ th[u].pc = "cleanup" => th[u].ino \notin open_inodes
        BY <1>0, <4>1 DEF Base, StructInv, StructRefs
      <4>3. last => ~Opens(th[u], i)
        BY <1>4, <3>2
      <4> QED BY <1>2, <4>1, <4>2, <4>3 DEF Opens
    <3> QED BY <3>1, <3>2
  <2> QED BY <2>3, <2>4, <2>5 DEF StructInv
<1>15. Base'
  BY <1>8, <1>12, <1>13, <1>14 DEF Base
<1>16. ASSUME SoundInv PROVE SoundInv'
  <2>1. SameWorkers
    BY <1>0, <1>2, <1>6, <1>7, <1>8, <1>15, QuietWorkers DEF Working
  <2>2. \A u \in Thread : /\ th[u].creating <=> th'[u].creating
                          /\ th[u].creating => th'[u] = th[u]
    BY <1>0, <1>15, <2>1, WorkersSame
  <2>3. gone => inode[i].sector \in linked
    BY <1>2, <1>3, <1>4, <1>16 DEF SoundInv, LinkInv
  <2>4. InUse' = InUse
    <3>1. None \notin Sector /\ linked' = linked
      BY <1>2, Sizes
    <3>2. \A m \in Sector : (\E j \in Struct : inode'[j].sector = m) => \E j \in Struct : inode[j].sector = m
      BY <1>10, <1>11, <3>1
    <3>3. \A m \in Sector : (\E j \in Struct : inode[j].sector = m) =>
             (m \in linked \/ \E j \in Struct : inode'[j].sector = m)
      BY <1>10, <1>11, <2>3
    <3>4. \A m \in Sector : Used(m)' <=> Used(m)
      BY <2>2, <3>1, <3>2, <3>3 DEF Used
    <3> QED BY <1>0, <1>15, <3>4, InUseIs
  <2>5. \A j \in Struct : /\ inode'[j].sector # None => inode'[j].sector = inode[j].sector
                          /\ inode'[j].removed = inode[j].removed /\ inode'[j].length = inode[j].length
    BY <1>10, <1>11
  <2>6. LinkInv'
    <3>0. linked' = linked
      BY <1>2
    <3>1. \A j, k \in Struct : ~Freed(j)' /\ inode'[j].sector = inode'[k].sector => j = k
      BY <1>16, <2>5 DEF SoundInv, LinkInv, Freed
    <3>4. \A j \in Struct : Settled(j)' => Settled(j)
      BY <1>2, <1>8, StaysUnsettled
    <3>2. \A j \in Struct : ~Freed(j)' /\ Settled(j)' => (inode'[j].removed <=> inode'[j].sector \notin linked')
      BY <1>16, <2>5, <3>0, <3>4 DEF SoundInv, LinkInv, Freed
    <3>3. ASSUME NEW u \in Thread, th'[u].creating
          PROVE  /\ th'[u].main \notin linked'
                 /\ \A j \in Struct : inode'[j].sector # th'[u].main
                 /\ \A v \in Thread : th'[v].creating /\ th'[v].main = th'[u].main => u = v
      <4>1. th'[u] = th[u] /\ th[u].creating
        BY <2>2, <3>3
      <4>2. th[u].main # None
        BY <1>0, <4>1, WorkingOnes, Sizes
      <4> QED BY <1>16, <2>2, <2>5, <3>0, <4>1, <4>2 DEF SoundInv, LinkInv
    <3> QED BY <3>1, <3>2, <3>3 DEF LinkInv
  <2>7. \A j \in Struct : ~Freed(j)' => inode'[j].length = length[inode'[j].sector]
    BY <1>16, <2>5 DEF SoundInv, LengthInv, Freed
  <2>8. ASSUME NEW u \in Thread, Working(th[u]), ~th[u].creating
        PROVE  inode'[th[u].ino].sector = inode[th[u].ino].sector
    <3>1. th[u].ino \in Struct
      BY <1>0, <2>8, WorkingOnes
    <3>2. th[u].ino = i => ~gone
      <4>1. u # t
        BY <1>2, <2>8 DEF Working
      <4>2. th[u].ino = i => Opens(th[u], i)
        BY <2>8 DEF Working, Opens
      <4> QED BY <1>4, <4>1, <4>2
    <3> QED BY <1>10, <1>11, <3>1, <3>2
  <2> QED BY <1>0, <1>2, <1>15, <1>16, <2>1, <2>4, <2>6, <2>7, <2>8, RelinkSound
<1>17. Sound' => Sound
  BY <1>2 DEF Sound
<1> QED BY <1>15, <1>16, <1>17 DEF IInv

-----------------------------------------------------------------------------
(* Steps of those who work with a file. *)

(* Everybody else finds the file as it was. *)
SameFile(m) ==
  /\ \A j \in Index : WayIn(ptr', m, j) = WayIn(ptr, m, j)
  /\ length'[m] = length[m] /\ expect'[m] = expect[m]
  /\ \A q \in Pos : BackedIn(ptr, m, q) => Holds(ptr', bytes', m, q) = Holds(ptr, bytes, m, q)

(* The same sectors are there. *)
LEMMA SameSectors ==
  ASSUME NEW m, SameFile(m)
  PROVE  /\ \A j \in Index : SectorAt(ptr', m, j) = SectorAt(ptr, m, j)
         /\ \A q \in Pos : BackedIn(ptr', m, q) <=> BackedIn(ptr, m, q)
<1>1. \A j \in Index : SectorAt(ptr', m, j) = SectorAt(ptr, m, j)
  BY DEF SameFile, SectorAt
<1> QED BY <1>1, PosOK DEF BackedIn

LEMMA WriterKept ==
  ASSUME Base, NEW u \in Thread, th'[u] = th[u], Working(th[u]) => SameFile(th[u].main)
  PROVE  (GrowOK(u) => GrowOK(u)') /\ (LengthOK(u) => LengthOK(u)') /\ (WriterInv(u) => WriterInv(u)')
<1>1. CASE ~Working(th[u])
  <2>1. ~th[u].creating /\ ~th[u].grown /\ th[u].pc \notin {"write", "grow", "copy"} /\ ~Grower(u)
    BY <1>1, WorkingOnes DEF Working, Grower
  <2>2. ~th'[u].creating /\ ~th'[u].grown /\ th'[u].pc \notin {"write", "grow", "copy"} /\ ~Grower(u)'
    BY <2>1 DEF Grower
  <2> QED BY <2>2 DEF GrowOK, LengthOK, WriterInv
<1>2. CASE Working(th[u])
  <2>1. PICK r \in ThreadRec : r = th[u] /\ th'[u] = r
    BY BaseFacts
  <2>2. SameFile(r.main)
    BY <1>2, <2>1
  <2>3. /\ \A j \in Index : SectorAt(ptr', r.main, j) = SectorAt(ptr, r.main, j)
        /\ \A q \in Pos : BackedIn(ptr', r.main, q) <=> BackedIn(ptr, r.main, q)
    BY <2>2, SameSectors
  <2>4. r.end \in 0..MaxLength /\ r.idx \in Nat
    BY <2>1, BaseFacts, IndexOK DEF LocalsOK, ThreadRec
  <2>5. r.idx < bytes_to_sectors(r.end) => r.idx \in Index
    BY <2>4, PosOK
  <2>6. GrowOK(u) => GrowOK(u)'
    BY <2>1, <2>2, <2>3, <2>5 DEF GrowOK, SameFile
  <2>7. LengthOK(u) => LengthOK(u)'
    BY <2>1, <2>2, <2>3 DEF LengthOK, SameFile, Grower
  <2>8. WriterInv(u) => WriterInv(u)'
    BY <2>1, <2>2, <2>3 DEF WriterInv, SameFile
  <2> QED BY <2>6, <2>7, <2>8
<1> QED BY <1>1, <1>2

LEMMA FileKept ==
  ASSUME NEW m, SameFile(m),
         \A t \in Thread : th[t].grown /\ th[t].main = m => th'[t].grown /\ th'[t].main = m
  PROVE  FileInv(m) => FileInv(m)'
<1>1. \A q \in Pos : BackedIn(ptr', m, q) <=> BackedIn(ptr, m, q)
  BY SameSectors
<1> QED BY <1>1 DEF FileInv, SameFile

(* A thread works on its own file. *)
LEMMA Owners ==
  ASSUME Base, SoundInv, NEW t \in Thread, Working(th[t])
  PROVE  /\ th[t].main \in InUse /\ th[t].main \in Sector
         /\ th[t].creating => \A i \in Struct : inode[i].sector # th[t].main
         /\ ~th[t].creating => \E i \in Struct : i = th[t].ino /\ i \in open_inodes /\ inode[i].sector = th[t].main
         /\ \A u \in Thread : u # t /\ Working(th[u]) /\ th[u].main = th[t].main =>
              /\ ~th[t].creating /\ ~th[u].creating /\ th[u].ino = th[t].ino
              /\ ~(Grower(t) /\ Grower(u))
<1>1. ASSUME NEW u \in Thread, Working(th[u])
      PROVE  /\ th[u].main \in Sector
             /\ ~th[u].creating => th[u].ino \in open_inodes /\ th[u].ino \in Struct
                                   /\ inode[th[u].ino].sector = th[u].main
  <2>1. th[u].main \in Sector /\ (~th[u].creating => th[u].ino \in open_inodes /\ th[u].ino \in Struct)
    BY <1>1, WorkingOnes
  <2> QED BY <1>1, <2>1 DEF SoundInv, LockInv, Working
<1>2. th[t].main \in InUse
  <2>1. th[t].main \in Sector /\ None \notin Sector
    BY <1>1, Sizes
  <2>2. CASE th[t].creating
    BY <2>1, <2>2 DEF InUse
  <2>3. CASE ~th[t].creating
    BY <1>1, <2>1, <2>3 DEF InUse
  <2> QED BY <2>2, <2>3
<1>3. th[t].creating => \A i \in Struct : inode[i].sector # th[t].main
  BY DEF SoundInv, LinkInv
<1>4. ASSUME NEW u \in Thread, u # t, Working(th[u]), th[u].main = th[t].main
      PROVE  /\ ~th[t].creating /\ ~th[u].creating /\ th[u].ino = th[t].ino
             /\ ~(Grower(t) /\ Grower(u))
  <2>1. ~(th[t].creating /\ th[u].creating)
    BY <1>4 DEF SoundInv, LinkInv
  <2>2. ~th[t].creating
    BY <1>1, <1>3, <1>4, <2>1
  <2>3. ~th[u].creating
    BY <1>1, <1>4, <2>1 DEF SoundInv, LinkInv
  <2>4. th[u].ino = th[t].ino
    <3>1. /\ th[u].ino \in Struct /\ th[t].ino \in Struct
          /\ inode[th[u].ino].sector = th[u].main /\ inode[th[t].ino].sector = th[t].main
          /\ th[t].main # None
      BY <1>1, <1>4, <2>2, <2>3, Sizes
    <3> QED BY <1>4, <3>1 DEF SoundInv, LinkInv, Freed
  <2>5. ~(Grower(t) /\ Grower(u))
    BY <1>4 DEF SoundInv, LockInv
  <2> QED BY <2>2, <2>3, <2>4, <2>5
<1> QED BY <1>1, <1>2, <1>3, <1>4

(* The inode's sector lock is taken, given back or neither. *)
LockMove(t) ==
  \/ /\ lock' = lock /\ (Grower(t)' <=> Grower(t))
     /\ Grower(t) => th'[t].main = th[t].main
  \/ \E m \in Sector : /\ lock[m] = None /\ lock' = [lock EXCEPT ![m] = t]
                       /\ ~Grower(t) /\ Grower(t)' /\ th'[t].main = m
  \/ Grower(t) /\ ~Grower(t)' /\ lock' = [lock EXCEPT ![th[t].main] = None]

LEMMA LockStep ==
  ASSUME Base, SoundInv, NEW t \in Thread, \A u \in Thread : u # t => th'[u] = th[u], LockMove(t),
         \A u \in Thread : u # t /\ Working(th[u]) /\ ~th[u].creating =>
           inode'[th[u].ino].sector = inode[th[u].ino].sector,
         Working(th'[t]) /\ ~th'[t].creating => th'[t].main = inode'[th'[t].ino].sector
  PROVE  LockInv'
<1>1. /\ \A u \in Thread : Grower(u) => lock[th[u].main] = u /\ th[u].main \in Sector
      /\ \A s \in Sector : lock[s] # None => /\ lock[s] \in Thread /\ Grower(lock[s])
                                             /\ th[lock[s]].main = s
      /\ lock \in [Sector -> Thread \cup {None}] /\ None \notin Thread
  <2>1. \A u \in Thread : Grower(u) => th[u].main \in Sector
    BY WorkingOnes
  <2> QED BY <2>1, InodeAssumption DEF SoundInv, LockInv, Base, TypeOK, InodeAssumption
<1>2. \A u \in Thread : u # t => (Grower(u)' <=> Grower(u))
  BY DEF Grower
<1>3. ASSUME NEW u \in Thread, th'[u].pc \in {"write", "grow", "copy"}, ~th'[u].creating
      PROVE  th'[u].main = inode'[th'[u].ino].sector
  <2>1. CASE u = t
    BY <1>3, <2>1 DEF Working
  <2>2. CASE u # t
    <3>1. th'[u] = th[u] /\ Working(th[u]) /\ ~th[u].creating
      BY <1>3, <2>2 DEF Working
    <3>2. th[u].main = inode[th[u].ino].sector
      BY <3>1 DEF SoundInv, LockInv, Working
    <3> QED BY <2>2, <3>1, <3>2
  <2> QED BY <2>1, <2>2
<1>4. /\ \A u \in Thread : Grower(u)' => lock'[th'[u].main] = u
      /\ \A s \in Sector : lock'[s] # None =>
           \E u \in Thread : u = lock'[s] /\ Grower(u)' /\ th'[u].main = s
  <2>1. CASE /\ lock' = lock /\ (Grower(t)' <=> Grower(t))
             /\ Grower(t) => th'[t].main = th[t].main
    <3>1. \A u \in Thread : (Grower(u)' <=> Grower(u)) /\ (Grower(u) => th'[u].main = th[u].main)
      BY <1>2, <2>1
    <3> QED BY <1>1, <2>1, <3>1
  <2>2. CASE \E m \in Sector : /\ lock[m] = None /\ lock' = [lock EXCEPT ![m] = t]
                               /\ ~Grower(t) /\ Grower(t)' /\ th'[t].main = m
    <3>1. PICK m \in Sector : /\ lock[m] = None /\ lock' = [lock EXCEPT ![m] = t]
                              /\ ~Grower(t) /\ Grower(t)' /\ th'[t].main = m
      BY <2>2
    <3>2. lock'[m] = t /\ \A s \in Sector : s # m => lock'[s] = lock[s]
      BY <1>1, <3>1
    <3>3. \A u \in Thread : u # t /\ Grower(u) => th[u].main # m
      BY <1>1, <3>1
    <3>4. ASSUME NEW u \in Thread, Grower(u)' PROVE lock'[th'[u].main] = u
      BY <1>1, <1>2, <3>1, <3>2, <3>3, <3>4
    <3>5. ASSUME NEW s \in Sector, lock'[s] # None
          PROVE  \E u \in Thread : u = lock'[s] /\ Grower(u)' /\ th'[u].main = s
      <4>1. CASE s = m
        BY <3>1, <3>2, <4>1
      <4>2. CASE s # m
        <5>1. PICK u \in Thread : u = lock'[s] /\ u = lock[s] /\ Grower(u) /\ th[u].main = s
          BY <1>1, <3>2, <3>5, <4>2
        <5>2. u # t
          BY <3>1, <5>1
        <5> QED BY <1>2, <5>1, <5>2
      <4> QED BY <4>1, <4>2
    <3> QED BY <3>4, <3>5
  <2>3. CASE Grower(t) /\ ~Grower(t)' /\ lock' = [lock EXCEPT ![th[t].main] = None]
    <3>1. PICK m \in Sector : m = th[t].main /\ lock[m] = t
      BY <1>1, <2>3
    <3>2. lock'[m] = None /\ \A s \in Sector : s # m => lock'[s] = lock[s]
      BY <1>1, <2>3, <3>1
    <3>3. ASSUME NEW u \in Thread, Grower(u)' PROVE lock'[th'[u].main] = u
      BY <1>1, <1>2, <2>3, <3>1, <3>2, <3>3
    <3>4. ASSUME NEW s \in Sector, lock'[s] # None
          PROVE  \E u \in Thread : u = lock'[s] /\ Grower(u)' /\ th'[u].main = s
      <4>1. s # m
        BY <3>2, <3>4
      <4>2. PICK u \in Thread : u = lock'[s] /\ u = lock[s] /\ Grower(u) /\ th[u].main = s
        BY <1>1, <3>2, <3>4, <4>1
      <4>3. u # t
        BY <3>1, <4>1, <4>2
      <4> QED BY <1>2, <4>2, <4>3
    <3> QED BY <3>3, <3>4
  <2> QED BY <2>1, <2>2, <2>3 DEF LockMove
<1>5. \A s \in Sector : lock'[s] # None => Grower(lock[s])' /\ th'[lock'[s]].main = s
  BY <1>4 DEF Grower
<1> QED BY <1>3, <1>4, <1>5 DEF LockInv

(* The same files are in use and linked. *)
LEMMA LinkKept ==
  ASSUME Base, Base', SoundInv, NEW t \in Thread, \A u \in Thread : u # t => th'[u] = th[u],
         linked' = linked, th[t].pc # "settle", th'[t].creating <=> th[t].creating, th[t].creating => th'[t].main = th[t].main,
         \A i \in Struct : inode'[i].sector = inode[i].sector /\ inode'[i].removed = inode[i].removed
  PROVE  LinkInv' /\ InUse' = InUse
<1>1. \A u \in Thread : /\ th'[u].creating <=> th[u].creating
                        /\ th[u].creating => th'[u].main = th[u].main
  OBVIOUS
<1>2. \A m \in Sector : Used(m)' <=> Used(m)
  BY <1>1 DEF Used
<1>3. InUse' = InUse
  BY <1>2, InUseIs
<1>4. LinkInv'
  <2>1. \A i \in Struct : Settled(i)' => Settled(i)
    BY StaysUnsettled
  <2> QED BY <1>1, <2>1 DEF SoundInv, LinkInv, Freed
<1> QED BY <1>3, <1>4

(* Nothing is asked of a thread that is in no call. *)
LEMMA NoWriter ==
  ASSUME Base', NEW u \in Thread, ~Working(th'[u])
  PROVE  GrowOK(u)' /\ LengthOK(u)' /\ WriterInv(u)'
<1>1. ~th'[u].creating /\ ~th'[u].grown /\ th'[u].pc \notin {"write", "grow", "copy"}
  BY DEF Base, ThreadInv, Working
<1>2. ~Grower(u)'
  BY <1>1 DEF Grower
<1> QED BY <1>1, <1>2 DEF GrowOK, LengthOK, WriterInv

(* inode_dir_cleanup(): the file goes, and nobody works with it. *)
LEMMA CleanupStep ==
  ASSUME IInv, SettleInv, NEW t \in Thread, inode_dir_cleanup(t), panic' = "no"
  PROVE  IInv' /\ (Sound' => Sound)
<1>0. Base
  BY DEF IInv
<1>1. PICK i : i = th[t].ino
  OBVIOUS
<1>1a. PICK m : m = inode[i].sector
  OBVIOUS
<1>2. /\ th[t].pc = "cleanup" /\ m # None /\ Reach(m) \subseteq free_map
      /\ free_map' = free_map \ Reach(m)
      /\ unsaved' = unsaved \ Reach(m)
      /\ ptr' = [ptr EXCEPT ![m] = Empty]
      /\ inode' = [inode EXCEPT ![i].sector = None]
      /\ th' = [th EXCEPT ![t].pc = "idle", ![t].ino = None]
      /\ UNCHANGED <<length, bytes, garbage, lock, open_inodes, linked, panic, expect, shared, leaked>>
  BY <1>1, <1>1a DEF inode_dir_cleanup, Stop, Running, Freed, Released, history
<1>3. /\ th \in [Thread -> ThreadRec] /\ th[t] \in ThreadRec /\ LocalsOK(th[t]) /\ i \in Struct
      /\ inode \in [Struct -> InodeRec] /\ open_inodes \subseteq Struct
  BY <1>0, <1>1, <1>2, BaseFacts DEF ThreadRec, LocalsOK
<1>4. m \in Sector /\ ptr \in Pointers
  <2>1. inode[i] \in InodeRec
    BY <1>3
  <2> QED BY <1>0, <1>1a, <1>2, <2>1 DEF InodeRec, Base, TypeOK, Pointers
<1> DEFINE r == [th[t] EXCEPT !.pc = "idle", !.ino = None]
<1>5. r \in ThreadRec /\ th' = [th EXCEPT ![t] = r]
  BY <1>2, <1>3 DEF ThreadRec, Points
<1>6. LocalsOK(r) /\ r.pc = "idle" /\ ~r.deny_write /\ r.ino = None /\ ~th[t].deny_write
  BY <1>2, <1>3, Sizes DEF LocalsOK, ThreadRec
<1>7. th'[t] = r /\ Moves(t)
  BY <1>3, <1>5, <1>6 DEF Moves
<1> HIDE DEF r
<1>8. ThreadInv' /\ th' \in [Thread -> ThreadRec] /\ \A u \in Thread : u # t => th'[u] = th[u]
  BY <1>0, <1>7, ThreadStep DEF Base
<1>9. /\ inode' \in [Struct -> InodeRec] /\ inode'[i].sector = None
      /\ \A j \in Struct : /\ inode'[j].open_cnt = inode[j].open_cnt
                           /\ inode'[j].deny_write_cnt = inode[j].deny_write_cnt
                           /\ inode'[j].removed = inode[j].removed
                           /\ inode'[j].length = inode[j].length
                           /\ j # i => inode'[j].sector = inode[j].sector
  BY <1>2, <1>3 DEF InodeRec
<1>10. /\ ptr' \in Pointers /\ Empties(ptr, ptr', m)
       /\ free_map' \subseteq Sector /\ unsaved' \subseteq Sector
  <2>1. Empty \in [Entry -> Sector \cup {None}]
    BY DEF Empty
  <2>2. ptr' \in Pointers /\ Empties(ptr, ptr', m)
    BY <1>2, <1>4, <2>1 DEF Pointers, Empties
  <2> QED BY <1>0, <1>2, <2>2 DEF Base, TypeOK
<1>11. TypeOK'
  BY <1>0, <1>2, <1>8, <1>9, <1>10 DEF Base, TypeOK, ThreadRec, InodeRec, Pointers
<1>12. Counts'
  <2>1. \A j \in Struct : ~Opens(th[t], j) /\ ~Opens(th'[t], j)
    BY <1>2, <1>6, <1>7, Sizes DEF Opens
  <2>2. th[t].pc # "settle" /\ th'[t].pc # "settle"
    BY <1>2, <1>6, <1>7
  <2> QED BY <1>0, <1>3, <1>8, <1>9, <2>1, <2>2, CountsStep DEF Base, Bit
<1>13. open_inodes' = open_inodes /\ i \notin open_inodes /\ i # None
  BY <1>0, <1>1, <1>2, <1>3, Sizes DEF Base, StructInv, StructRefs
<1>14. StructInv'
  <2>1. \A j \in Struct : Freed(j)' <=> (Freed(j) \/ j = i)
    BY <1>9 DEF Freed
  <2>2. StructUsed'
    BY <1>0, <1>1, <1>8, <2>1 DEF Base, StructInv, StructUsed
  <2>3. StructListed'
    BY <1>0, <1>9, <1>13, <2>1 DEF Base, StructInv, StructListed
  <2>4. StructRefs'
    BY <1>0, <1>6, <1>7, <1>8, <1>13 DEF Base, StructInv, StructRefs
  <2> QED BY <2>2, <2>3, <2>4 DEF StructInv
<1>15. Base'
  BY <1>8, <1>11, <1>12, <1>14 DEF Base
<1>16. ASSUME SoundInv PROVE SoundInv'
  <2>0. /\ linked' = linked /\ length' = length /\ bytes' = bytes /\ lock' = lock /\ expect' = expect
        /\ leaked' = leaked
    BY <1>2
  <2>1. ~Working(th[t]) /\ ~Working(th'[t]) /\ SameWorkers
    BY <1>0, <1>2, <1>6, <1>7, <1>8, <1>15, QuietWorkers DEF Working
  <2>2. \A u \in Thread : /\ th[u].creating <=> th'[u].creating
                          /\ th[u].creating \/ th[u].grown => th'[u] = th[u]
                          /\ Grower(u)' <=> Grower(u)
    BY <1>0, <1>15, <2>1, WorkersSame
  <2>3. m \notin linked /\ \A j \in Struct : j # i => inode[j].sector # m
    <3>1. ~Freed(i) /\ inode[i].removed
      BY <1>0, <1>1a, <1>2, <1>3, <1>13 DEF Freed, Base, StructInv, StructListed
    <3>2. Settled(i)
      BY <1>1, <1>2 DEF SettleInv, Settled
    <3> QED BY <1>1a, <1>3, <1>16, <3>1, <3>2 DEF SoundInv, LinkInv
  <2>4. \A u \in Thread : Working(th[u]) => th[u].main # m /\ th[u].main \in InUse \ {m}
    <3> SUFFICES ASSUME NEW u \in Thread, Working(th[u]) PROVE th[u].main # m /\ th[u].main \in InUse
      OBVIOUS
    <3>1. th[u].main \in InUse
      BY <1>0, <1>16, Owners
    <3>2. CASE th[u].creating
      BY <1>0, <1>1a, <1>3, <1>16, <3>1, <3>2, Owners
    <3>3. CASE ~th[u].creating
      BY <1>0, <1>13, <1>16, <2>3, <3>1, <3>3, Owners
    <3> QED BY <3>2, <3>3
  <2>5. InUse \in SUBSET Sector /\ m \in InUse /\ InUse' = InUse \ {m}
    <3>1. Used(m) /\ ~Used(m)'
      <4>1. Used(m)
        BY <1>1a, <1>3 DEF Used
      <4>2. \A j \in Struct : inode'[j].sector # m
        BY <1>2, <1>9, <2>3
      <4>3. \A u \in Thread : th'[u].creating => th'[u].main # m
        BY <1>0, <2>2, <2>4, WorkingOnes
      <4> QED BY <2>0, <2>3, <4>1, <4>2, <4>3 DEF Used
    <3>2. \A n \in Sector : n # m => (Used(n)' <=> Used(n))
      <4>1. \A n \in Sector : n # m =>
              ((\E j \in Struct : inode'[j].sector = n) <=> (\E j \in Struct : inode[j].sector = n))
        BY <1>1a, <1>9, Sizes
      <4>2. \A n \in Sector : (\E u \in Thread : th'[u].creating /\ th'[u].main = n) <=>
                              (\E u \in Thread : th[u].creating /\ th[u].main = n)
        BY <2>2
      <4> QED BY <2>0, <4>1, <4>2 DEF Used
    <3> QED BY <1>0, <1>4, <1>15, <3>1, <3>2, InUseIs
  <2>6. /\ TreeIn(ptr', InUse \ {m})
        /\ ReachIn(ptr', InUse \ {m}) = ReachIn(ptr, InUse) \ ReachIn(ptr, {m})
        /\ \A n \in InUse \ {m}, j \in Index : WayIn(ptr', n, j) = WayIn(ptr, n, j)
    <3>1. PICK used \in SUBSET Sector : used = InUse /\ m \in used /\ TreeIn(ptr, used)
      BY <1>16, <2>5 DEF SoundInv, TreeInv
    <3>2. PICK p \in Pointers, q \in Pointers : p = ptr /\ q = ptr' /\ Empties(p, q, m)
      BY <1>4, <1>10
    <3>3. TreeIn(p, used)
      BY <3>1, <3>2
    <3>4. /\ TreeIn(q, used \ {m})
          /\ ReachIn(q, used \ {m}) = ReachIn(p, used) \ ReachIn(p, {m})
          /\ \A n \in used : n # m => \A j \in Index : WayIn(q, n, j) = WayIn(p, n, j)
      <4>1. TreeIn(q, used \ {m})
        BY <3>1, <3>2, <3>3, TreeRemoved
      <4>2. ReachIn(q, used \ {m}) = ReachIn(p, used) \ ReachIn(p, {m})
        BY <3>1, <3>2, <3>3, TreeRemoved
      <4>3. ASSUME NEW n \in used, n # m, NEW j \in Index PROVE WayIn(q, n, j) = WayIn(p, n, j)
        <5>1. m \in used /\ TreeIn(p, used) /\ Empties(p, q, m)
          BY <3>1, <3>2, <3>3
        <5> QED BY <4>1, <4>2, <4>3, <5>1, TreeRemoved
      <4> QED BY <4>1, <4>2, <4>3
    <3> QED BY <3>1, <3>2, <3>4
  <2>7. TreeInv'
    <3>1. Reach(m) = ReachIn(ptr, {m})
      BY ReachIs
    <3>2. ReachIn(ptr, {m}) \subseteq ReachIn(ptr, InUse)
      BY <2>5 DEF ReachIn
    <3> QED BY <1>2, <1>16, <2>0, <2>5, <2>6, <3>1, <3>2 DEF SoundInv, TreeInv
  <2>8. \A n \in InUse \ {m} : SameFile(n)
    <3> SUFFICES ASSUME NEW n \in InUse \ {m} PROVE SameFile(n)
      OBVIOUS
    <3>1. \A j \in Index : WayIn(ptr', n, j) = WayIn(ptr, n, j)
      BY <2>6
    <3> QED BY <2>0, <3>1, PosOK DEF SameFile, Holds, SectorAt
  <2>9. LinkInv'
    <3>1. \A j, k \in Struct : ~Freed(j)' /\ inode'[j].sector = inode'[k].sector => j = k
      BY <1>9, <1>16 DEF SoundInv, LinkInv, Freed
    <3>4. \A j \in Struct : Settled(j)' => Settled(j)
      BY <1>2, <1>8, StaysUnsettled
    <3>2. \A j \in Struct : ~Freed(j)' /\ Settled(j)' => (inode'[j].removed <=> inode'[j].sector \notin linked')
      BY <1>9, <1>16, <2>0, <3>4 DEF SoundInv, LinkInv, Freed
    <3>3. ASSUME NEW u \in Thread, th'[u].creating
          PROVE  /\ th'[u].main \notin linked'
                 /\ \A j \in Struct : inode'[j].sector # th'[u].main
                 /\ \A v \in Thread : th'[v].creating /\ th'[v].main = th'[u].main => u = v
      <4>1. th'[u] = th[u] /\ th[u].creating
        BY <2>2, <3>3
      <4>2. th[u].main # None
        BY <1>0, <4>1, WorkingOnes, Sizes
      <4> QED BY <1>9, <1>16, <2>0, <2>2, <4>1, <4>2 DEF SoundInv, LinkInv
    <3> QED BY <3>1, <3>2, <3>3 DEF LinkInv
  <2>10. LockInv'
    <3>1. \A u \in Thread : u # t /\ Working(th[u]) /\ ~th[u].creating =>
             inode'[th[u].ino].sector = inode[th[u].ino].sector
      BY <1>0, <1>9, <1>13, WorkingOnes
    <3>2. LockMove(t)
      <4>1. ~Grower(t)
        BY <1>0, <2>1, WorkingOnes
      <4> QED BY <2>0, <2>2, <4>1 DEF LockMove
    <3> QED BY <1>0, <1>8, <1>16, <2>1, <3>1, <3>2, LockStep
  <2>11. \A u \in Thread : (GrowOK(u) => GrowOK(u)') /\ (LengthOK(u) => LengthOK(u)') /\ (WriterInv(u) => WriterInv(u)')
    <3> SUFFICES ASSUME NEW u \in Thread
                 PROVE  (GrowOK(u) => GrowOK(u)') /\ (LengthOK(u) => LengthOK(u)') /\ (WriterInv(u) => WriterInv(u)')
      OBVIOUS
    <3>1. CASE u # t
      BY <1>0, <1>8, <2>4, <2>8, <3>1, WriterKept
    <3>2. CASE u = t
      BY <1>0, <1>15, <2>1, <3>2, NoWriter
    <3> QED BY <3>1, <3>2
  <2>12. GrowInv' /\ LengthInv'
    <3>1. GrowInv'
      BY <1>16, <2>11 DEF SoundInv, GrowInv
    <3>2. \A j \in Struct : ~Freed(j)' => inode'[j].length = length'[inode'[j].sector]
      BY <1>9, <1>16, <2>0 DEF SoundInv, LengthInv, Freed
    <3>3. LengthInv'
      BY <1>16, <2>11, <3>2 DEF SoundInv, LengthInv
    <3> QED BY <3>1, <3>3
  <2>13. DataInv'
    <3>1. ASSUME NEW n \in Sector, n \in linked' \/ \E j \in Struct : inode'[j].sector = n
          PROVE  FileInv(n)'
      <4>1. n # m /\ (n \in linked \/ \E j \in Struct : inode[j].sector = n)
        BY <1>2, <1>9, <2>0, <2>3, <3>1, Sizes
      <4>2. n \in InUse \ {m}
        BY <1>0, <1>15, <4>1, InUseIs DEF Used
      <4>3. FileInv(n)
        BY <1>16, <4>1 DEF SoundInv, DataInv
      <4> QED BY <2>2, <2>8, <4>2, <4>3, FileKept
    <3> QED BY <1>16, <2>0, <2>11, <3>1 DEF SoundInv, DataInv
  <2> QED BY <2>7, <2>9, <2>10, <2>12, <2>13 DEF SoundInv
<1>17. Sound' => Sound
  BY <1>2 DEF Sound
<1> QED BY <1>15, <1>16, <1>17 DEF IInv

(* Inodes in use are allocated. *)
LEMMA InUseAllocated ==
  ASSUME Base, SoundInv
  PROVE  InUse \subseteq free_map /\ InUse \in SUBSET Sector /\ ptr \in Pointers
<1>1. ptr \in Pointers /\ TypeOK
  BY DEF Base, TypeOK, Pointers
<1>2. InUse \in SUBSET Sector
  BY <1>1 DEF InUse, TypeOK
<1>3. ASSUME NEW m \in InUse PROVE m \in ReachIn(ptr, InUse)
  <2>1. m \in Sector \cup {None} /\ m # None /\ 0 \in Index /\ 0 \in Level
    BY <1>2, Sizes, IndexOK DEF Level
  <2>2. WayIn(ptr, m, 0)[0] = m
    BY <1>1, <2>1, WayOK
  <2> QED BY <2>1, <2>2 DEF ReachIn
<1> QED BY <1>1, <1>2, <1>3 DEF SoundInv, TreeInv

(* filesys_create(): a sector that was free becomes an empty file. *)
LEMMA CreateStep ==
  ASSUME IInv, NEW t \in Thread, NEW n \in {0, 1}, filesys_create(t, n), panic' = "no"
  PROVE  IInv' /\ (Sound' => Sound)
<1>0. Base
  BY DEF IInv
<1>1. PICK m : m = Least(Sector \ free_map)
  OBVIOUS
<1>2. /\ th[t].pc = "idle" /\ th[t].calls < MaxCalls /\ th[t].ino = None /\ free_map # Sector
      /\ free_map' = free_map \cup {m}
      /\ ptr' = [ptr EXCEPT ![m] = Empty]
      /\ lock' = [lock EXCEPT ![m] = t]
      /\ expect' = [expect EXCEPT ![m] = [p \in Pos |-> Zero]]
      /\ th' = [Allocate(t, m, 0) EXCEPT
                  ![t].pc = "grow", ![t].main = m, ![t].creating = TRUE,
                  ![t].start = 0, ![t].end = n, ![t].calls = @ + 1]
      /\ UNCHANGED <<length, bytes, unsaved, garbage, memory, linked, panic, shared, leaked>>
  BY <1>1 DEF filesys_create, Stop, Running, MayCall
<1>3. /\ th \in [Thread -> ThreadRec] /\ th[t] \in ThreadRec /\ LocalsOK(th[t])
      /\ inode \in [Struct -> InodeRec] /\ MaxCalls \in Nat
  BY <1>0, BaseFacts
<1>4. m \in Sector \ free_map
  <2>1. Sector \ free_map # {} /\ Sector \ free_map \in SUBSET Nat
    BY <1>0, <1>2, Sizes DEF Base, TypeOK
  <2> QED BY <1>1, <2>1, LeastOf
<1> DEFINE r == [th[t] EXCEPT !.idx = 0, !.level = 1, !.cur = m, !.fresh = FALSE, !.pc = "grow",
                              !.main = m, !.creating = TRUE, !.start = 0, !.end = n, !.calls = @ + 1]
<1>5. r \in ThreadRec
  <2>1. /\ th[t].calls + 1 \in 0..MaxCalls /\ 1 \in 1..REDIRECTION_LEVEL /\ n \in Nat
        /\ m \in Sector \cup {None} /\ "grow" \in Points
    BY <1>2, <1>3, <1>4, Sizes DEF ThreadRec, Points
  <2> QED BY <1>3, <2>1 DEF ThreadRec
<1>5a. th' = [th EXCEPT ![t] = r]
  BY <1>2, <1>3 DEF Allocate, ThreadRec
<1>6. /\ r.pc = "grow" /\ r.main = m /\ r.creating /\ r.level = 1 /\ r.cur = m /\ r.idx = 0 /\ r.end = n
      /\ ~r.grown /\ r.ino = None /\ r.deny_write = th[t].deny_write
  BY <1>2, <1>3 DEF LocalsOK, ThreadRec
<1>6a. LocalsOK(r)
  <2>1. r.offset = 0 /\ n <= MaxLength /\ m # None /\ ~r.deny_write
    <3>1. th[t].offset = 0 /\ ~th[t].deny_write
      BY <1>2, <1>3 DEF LocalsOK
    <3>2. r.offset = th[t].offset
      BY <1>3 DEF ThreadRec
    <3>3. n <= MaxLength /\ m # None
      BY <1>4, IndexOK, Sizes
    <3> HIDE DEF r
    <3> QED BY <1>6, <3>1, <3>2, <3>3
  <2> HIDE DEF r
  <2> QED BY <1>6, <2>1 DEF LocalsOK
<1>7. th'[t] = r /\ Moves(t)
  BY <1>3, <1>5, <1>5a, <1>6a DEF Moves
<1> HIDE DEF r
<1>8. th' \in [Thread -> ThreadRec] /\ \A u \in Thread : u # t => th'[u] = th[u]
  BY <1>7 DEF Moves
<1>9. KeepsStructs /\ inode' = inode /\ linked' = linked
  BY <1>0, <1>2, MemoryKept
<1>10. ThreadInv' /\ Counts' /\ StructInv' /\ \A i \in Struct : Settled(i)' <=> Settled(i)
  BY <1>0, <1>2, <1>6, <1>7, <1>9, MoveBase
<1>11. /\ ptr \in Pointers /\ ptr' \in Pointers /\ Empties(ptr, ptr', m)
       /\ free_map' \subseteq Sector /\ lock' \in [Sector -> Thread \cup {None}]
  <2>1. Empty \in [Entry -> Sector \cup {None}]
    BY DEF Empty
  <2>2. ptr \in Pointers
    BY <1>0 DEF Base, TypeOK, Pointers
  <2>3. ptr' \in Pointers /\ Empties(ptr, ptr', m)
    BY <1>2, <1>4, <2>1, <2>2 DEF Pointers, Empties
  <2> QED BY <1>0, <1>2, <1>4, <2>2, <2>3 DEF Base, TypeOK
<1>12. Base'
  <2>1. TypeOK'
    BY <1>0, <1>2, <1>8, <1>9, <1>11 DEF Base, TypeOK, ThreadRec, memory, Pointers
  <2> QED BY <1>10, <2>1 DEF Base
<1>13. ASSUME SoundInv PROVE SoundInv'
  <2>1. PICK used \in SUBSET Sector : used = InUse /\ used \subseteq free_map /\ TreeIn(ptr, used)
                                      /\ free_map = ReachIn(ptr, used) \cup leaked
                                      /\ ReachIn(ptr, used) \cap leaked = {} /\ leaked' = leaked
    BY <1>0, <1>2, <1>13, InUseAllocated DEF SoundInv, TreeInv
  <2>2. m \notin used /\ ~Used(m)
    BY <1>0, <1>4, <1>12, <2>1, InUseIs
  <2>3. InUse' = used \cup {m}
    <3>1. \A k \in Sector : Used(k)' <=> (Used(k) \/ k = m)
      <4>1. \A u \in Thread : u # t => th'[u] = th[u]
        BY <1>8
      <4>2. ~th[t].creating /\ th'[t].creating /\ th'[t].main = m
        BY <1>2, <1>3, <1>6, <1>7 DEF LocalsOK
      <4> QED BY <1>9, <4>1, <4>2 DEF Used
    <3> QED BY <1>0, <1>4, <1>12, <2>1, <3>1, InUseIs
  <2>4. /\ TreeIn(ptr', used \cup {m}) /\ ReachIn(ptr', used \cup {m}) = ReachIn(ptr, used) \cup {m}
        /\ \A k \in used, j \in Index : WayIn(ptr', k, j) = WayIn(ptr, k, j)
        /\ \A j \in Index, l \in Level : WayIn(ptr', m, j)[l] = IF l = 0 THEN m ELSE None
    <3>1. PICK p \in Pointers, q \in Pointers : p = ptr /\ q = ptr' /\ Empties(p, q, m)
      BY <1>11
    <3>2. TreeIn(p, used) /\ m \notin ReachIn(p, used) /\ m \in Sector
      BY <1>4, <2>1, <3>1
    <3>3. TreeIn(q, used \cup {m}) /\ ReachIn(q, used \cup {m}) = ReachIn(p, used) \cup {m}
      BY <3>1, <3>2, TreeCreated
    <3>4. \A k \in used, j \in Index : WayIn(q, k, j) = WayIn(p, k, j)
      BY <3>1, <3>2, <3>3, TreeCreated
    <3>5. \A j \in Index, l \in Level : WayIn(q, m, j)[l] = IF l = 0 THEN m ELSE None
      BY <3>1, <3>2, <3>3, TreeCreated
    <3> QED BY <3>1, <3>3, <3>4, <3>5
  <2>5. TreeInv'
    <3>1. TreeIn(ptr', InUse')
      BY <2>3, <2>4
    <3>2. ReachIn(ptr', InUse') = ReachIn(ptr, used) \cup {m}
      BY <2>3, <2>4
    <3>3. m \notin leaked
      BY <1>4, <2>1
    <3>4. ReachIn(ptr', InUse') \cap leaked' = {}
      BY <2>1, <3>2, <3>3
    <3>5. free_map' = ReachIn(ptr', InUse') \cup leaked'
      BY <1>2, <2>1, <3>2
    <3> QED BY <3>1, <3>4, <3>5 DEF TreeInv
  <2>6. expect \in [Sector -> [Pos -> Thread \cup {Zero}]]
    BY <1>13 DEF SoundInv, DataInv
  <2>7. ASSUME NEW k \in used PROVE SameFile(k)
    <3>1. \A j \in Index : WayIn(ptr', k, j) = WayIn(ptr, k, j)
      BY <2>4
    <3>2. length' = length /\ bytes' = bytes
      BY <1>2
    <3>3. expect'[k] = expect[k]
      BY <1>2, <2>2, <2>6
    <3> QED BY <3>1, <3>2, <3>3, PosOK DEF SameFile, Holds, SectorAt
  <2>8. \A u \in Thread : /\ th'[u].creating <=> (th[u].creating \/ u = t)
                          /\ th'[u].grown <=> th[u].grown
                          /\ th[u].creating \/ th[u].grown => u # t /\ th'[u] = th[u]
    BY <1>2, <1>3, <1>6, <1>7, <1>8 DEF LocalsOK
  <2>9. LinkInv'
    <3>1. \A i, j \in Struct : ~Freed(i)' /\ inode'[i].sector = inode'[j].sector => i = j
      BY <1>9, <1>13 DEF SoundInv, LinkInv, Freed
    <3>2. \A i \in Struct : ~Freed(i)' /\ Settled(i)' => (inode'[i].removed <=> inode'[i].sector \notin linked')
      BY <1>9, <1>10, <1>13 DEF SoundInv, LinkInv, Freed
    <3>3. ASSUME NEW u \in Thread, th'[u].creating
          PROVE  /\ th'[u].main \notin linked'
                 /\ \A i \in Struct : inode'[i].sector # th'[u].main
                 /\ \A v \in Thread : th'[v].creating /\ th'[v].main = th'[u].main => v = u
      <4>1. CASE u = t
        BY <1>6, <1>7, <1>8, <1>9, <2>2, <4>1 DEF Used
      <4>2. CASE u # t
        <5>1. th[u].creating /\ th'[u] = th[u]
          BY <2>8, <3>3, <4>2
        <5>2. th[u].main # m
          BY <2>2, <5>1 DEF Used
        <5> QED BY <1>6, <1>7, <1>8, <1>9, <1>13, <5>1, <5>2 DEF SoundInv, LinkInv
      <4> QED BY <4>1, <4>2
    <3> QED BY <3>1, <3>2, <3>3 DEF LinkInv
  <2>10. LockInv'
    <3>1. lock[m] = None
      <4> SUFFICES ASSUME lock[m] # None PROVE FALSE
        OBVIOUS
      <4>1. PICK u \in Thread : u = lock[m] /\ Grower(u) /\ th[u].main = m
        BY <1>0, <1>4, <1>13 DEF SoundInv, LockInv, Base, TypeOK
      <4>2. m \in used
        BY <1>0, <1>13, <2>1, <4>1, Owners, WorkingOnes
      <4> QED BY <2>2, <4>2
    <3>2. ~Grower(t) /\ Grower(t)' /\ th'[t].main = m
      BY <1>2, <1>3, <1>6, <1>7 DEF Grower, LocalsOK
    <3>3. LockMove(t)
      BY <1>2, <1>4, <3>1, <3>2 DEF LockMove
    <3> QED BY <1>0, <1>6, <1>7, <1>8, <1>9, <1>13, <3>3, LockStep
  <2>11. \A u \in Thread : Working(th[u]) => SameFile(th[u].main)
    BY <1>0, <1>13, <2>1, <2>7, Owners
  <2>12. ASSUME NEW u \in Thread PROVE GrowOK(u)' /\ LengthOK(u)' /\ WriterInv(u)'
    <3>1. CASE u # t
      <4>1. GrowOK(u) /\ LengthOK(u) /\ WriterInv(u)
        BY <1>13 DEF SoundInv, GrowInv, LengthInv, DataInv
      <4> QED BY <1>0, <1>8, <2>11, <3>1, <4>1, WriterKept
    <3>2. CASE u = t
      <4>1. GrowOK(t)'
        <5>1. ~(1 > 1) /\ \A j \in Index : ~(j < 0)
          BY IndexOK
        <5> QED BY <1>6, <1>7, <5>1 DEF GrowOK
      <4>2. LengthOK(t)'
        BY <1>6, <1>7 DEF LengthOK
      <4>3. WriterInv(t)'
        <5>1. \A q \in Pos : ~BackedIn(ptr', m, q) /\ expect'[m][q] = Zero
          <6>1. REDIRECTION_LEVEL \in Level /\ REDIRECTION_LEVEL # 0
            BY Sizes DEF Level
          <6> QED BY <1>2, <1>4, <2>4, <2>6, <6>1, PosOK DEF BackedIn, SectorAt
        <5> QED BY <1>6, <1>7, <5>1 DEF WriterInv
      <4> QED BY <3>2, <4>1, <4>2, <4>3
    <3> QED BY <3>1, <3>2
  <2>13. GrowInv' /\ LengthInv'
    <3>1. GrowInv'
      BY <2>12 DEF GrowInv
    <3>2. length' = length
      BY <1>2
    <3>3. LengthInv'
      BY <1>9, <1>13, <2>12, <3>2 DEF SoundInv, LengthInv, Freed
    <3> QED BY <3>1, <3>3
  <2>14. DataInv'
    <3>1. expect' \in [Sector -> [Pos -> Thread \cup {Zero}]]
      BY <1>2, <2>6
    <3>2. ASSUME NEW k \in Sector, k \in linked' \/ \E i \in Struct : inode'[i].sector = k
          PROVE  FileInv(k)'
      <4>1. FileInv(k) /\ k \in used
        BY <1>0, <1>9, <1>12, <1>13, <2>1, <3>2, InUseIs DEF SoundInv, DataInv, Used
      <4> QED BY <2>7, <2>8, <4>1, FileKept
    <3> QED BY <2>12, <3>1, <3>2 DEF DataInv
  <2> QED BY <2>5, <2>9, <2>10, <2>13, <2>14 DEF SoundInv
<1>14. Sound' => Sound
  BY <1>2 DEF Sound
<1> QED BY <1>12, <1>13, <1>14 DEF IInv

(* inode_write_at(), up to its wait. *)
LEMMA WriteStep ==
  ASSUME IInv, NEW t \in Thread, NEW q \in Requests, inode_write_at(t, q), panic' = "no"
  PROVE  IInv' /\ (Sound' => Sound)
<1>0. Base
  BY DEF IInv
<1>1. PICK i : i = th[t].ino
  OBVIOUS
<1>2. /\ th[t].pc = "idle" /\ th[t].calls < MaxCalls /\ i # None
      /\ th' = (IF inode[i].deny_write_cnt # 0 THEN [th EXCEPT ![t].calls = @ + 1]
                ELSE [th EXCEPT ![t].pc = "write", ![t].main = inode[i].sector,
                                ![t].offset = q[1], ![t].end = q[1] + q[2],
                                ![t].start = bytes_to_sectors(inode[i].length),
                                ![t].calls = @ + 1])
      /\ UNCHANGED <<free_map, ptr, length, bytes, unsaved, garbage, lock, memory, linked, panic, expect,
                     shared, leaked>>
  BY <1>1 DEF inode_write_at, Running, MayCall, Stop, disk, history
<1>3. /\ th \in [Thread -> ThreadRec] /\ th[t] \in ThreadRec /\ LocalsOK(th[t]) /\ i \in Struct
      /\ inode \in [Struct -> InodeRec] /\ MaxCalls \in Nat
  BY <1>0, <1>1, <1>2, BaseFacts DEF ThreadRec
<1>4. i \in open_inodes /\ ~Freed(i) /\ inode[i].sector \in Sector
  <2>1. i \in open_inodes
    BY <1>0, <1>1, <1>2 DEF Base, StructInv, StructRefs
  <2>2. inode[i].sector \in Sector
    BY <1>0, <1>1, <2>1, WorkingOnes
  <2> QED BY <2>1, <2>2, Sizes DEF Freed
<1>5. PICK o \in Nat, e \in Nat, a \in Nat, c \in 0..MaxCalls, s \in Sector :
        /\ o = q[1] /\ e = q[1] + q[2] /\ a = bytes_to_sectors(inode[i].length)
        /\ c = th[t].calls + 1 /\ s = inode[i].sector /\ o <= e /\ e <= MaxLength
  <2>1. q[1] \in Nat /\ q[2] \in Nat \ {0} /\ q[1] + q[2] - 1 \in Pos
    BY InodeAssumption DEF InodeAssumption
  <2>2. q[1] + q[2] \in Nat /\ q[1] <= q[1] + q[2] /\ q[1] + q[2] <= MaxLength
    BY <2>1, IndexOK
  <2>3. inode[i] \in InodeRec
    BY <1>3
  <2>4. bytes_to_sectors(inode[i].length) \in Nat
    BY <2>3, PosOK DEF InodeRec
  <2>5. th[t].calls + 1 \in 0..MaxCalls
    BY <1>2, <1>3 DEF ThreadRec
  <2> QED BY <1>4, <2>1, <2>2, <2>4, <2>5
<1>6. PICK r \in ThreadRec :
        /\ th' = [th EXCEPT ![t] = r] /\ LocalsOK(r) /\ r.ino = i /\ r.deny_write = th[t].deny_write
        /\ ~r.creating /\ ~r.grown
        /\ \/ r.pc = "idle"
           \/ r.pc = "write" /\ r.main = s /\ r.start = a
  <2>1. CASE inode[i].deny_write_cnt # 0
    <3> DEFINE r == [th[t] EXCEPT !.calls = c]
    <3>1. r \in ThreadRec
      BY <1>3 DEF ThreadRec
    <3>2. th' = [th EXCEPT ![t] = r]
      BY <1>2, <1>3, <1>5, <2>1 DEF ThreadRec
    <3>3. LocalsOK(r) /\ r.ino = i /\ r.deny_write = th[t].deny_write /\ r.pc = "idle"
      BY <1>1, <1>2, <1>3 DEF LocalsOK, ThreadRec
    <3>4. ~r.creating /\ ~r.grown
      BY <1>2, <1>3 DEF LocalsOK, ThreadRec
    <3> QED BY <3>1, <3>2, <3>3, <3>4
  <2>2. CASE ~(inode[i].deny_write_cnt # 0)
    <3> DEFINE r == [th[t] EXCEPT !.pc = "write", !.main = s, !.offset = o, !.end = e, !.start = a,
                                  !.calls = c]
    <3>1. r \in ThreadRec
      BY <1>3 DEF ThreadRec, Points
    <3>2. th' = [th EXCEPT ![t] = r]
      BY <1>2, <1>3, <1>5, <2>2 DEF ThreadRec
    <3>3. /\ r.ino = i /\ r.deny_write = th[t].deny_write /\ r.pc = "write" /\ r.main = s /\ r.start = a
          /\ r.offset = o /\ r.end = e /\ ~r.creating /\ ~r.grown
      BY <1>1, <1>2, <1>3 DEF LocalsOK, ThreadRec
    <3>4. s # None
      BY Sizes
    <3>5. LocalsOK(r)
      <4> HIDE DEF r
      <4> QED BY <1>2, <1>5, <3>3, <3>4 DEF LocalsOK
    <3> QED BY <3>1, <3>2, <3>3, <3>5
  <2> QED BY <2>1, <2>2
<1>7. th'[t] = r /\ Moves(t)
  BY <1>3, <1>6 DEF Moves
<1>8. th' \in [Thread -> ThreadRec] /\ \A u \in Thread : u # t => th'[u] = th[u]
  BY <1>7 DEF Moves
<1>9. KeepsStructs /\ inode' = inode /\ linked' = linked
  BY <1>0, <1>2, MemoryKept
<1>10. ThreadInv' /\ Counts' /\ StructInv'
  <2>1. r.pc \in {"idle", "write", "grow", "copy"} /\ th'[t].pc = r.pc /\ th'[t].ino = i
        /\ th'[t].deny_write = th[t].deny_write
    BY <1>6, <1>7
  <2> QED BY <1>0, <1>1, <1>2, <1>7, <1>9, <2>1, MoveBase
<1>11. Base'
  <2>1. TypeOK'
    BY <1>0, <1>2, <1>8, <1>9 DEF Base, TypeOK, ThreadRec, memory
  <2> QED BY <1>10, <2>1 DEF Base
<1>12. ASSUME SoundInv PROVE SoundInv'
  <2>0. /\ free_map' = free_map /\ ptr' = ptr /\ length' = length /\ bytes' = bytes
        /\ lock' = lock /\ expect' = expect /\ leaked' = leaked
    BY <1>2
  <2>1. ~th[t].creating /\ ~th[t].grown /\ ~Grower(t) /\ ~Grower(t)'
    BY <1>2, <1>3, <1>6, <1>7 DEF Grower, LocalsOK
  <2>2. ~th'[t].creating /\ ~th'[t].grown
    BY <1>6, <1>7
  <2>3. LinkInv' /\ InUse' = InUse
    BY <1>0, <1>2, <1>8, <1>9, <1>11, <1>12, <2>1, <2>2, LinkKept
  <2>4. LockInv'
    <3>1. LockMove(t)
      BY <2>0, <2>1 DEF LockMove
    <3>2. Working(th'[t]) => th'[t].main = inode'[th'[t].ino].sector
      BY <1>5, <1>6, <1>7, <1>9 DEF Working
    <3> QED BY <1>0, <1>8, <1>9, <1>12, <3>1, <3>2, LockStep
  <2>5. TreeInv'
    BY <1>12, <2>0, <2>3 DEF SoundInv, TreeInv
  <2>6. \A m : SameFile(m)
    BY <2>0 DEF SameFile
  <2>7. ASSUME NEW u \in Thread PROVE GrowOK(u)' /\ LengthOK(u)' /\ WriterInv(u)'
    <3>1. CASE u # t
      <4>1. GrowOK(u) /\ LengthOK(u) /\ WriterInv(u)
        BY <1>12 DEF SoundInv, GrowInv, LengthInv, DataInv
      <4> QED BY <1>0, <1>8, <2>6, <3>1, <4>1, WriterKept
    <3>2. CASE u = t
      <4>1. th'[t].pc # "grow" /\ th'[t].pc # "copy"
        BY <1>6, <1>7
      <4>2. GrowOK(t)' /\ WriterInv(t)'
        BY <2>2, <4>1 DEF GrowOK, WriterInv
      <4>3. th'[t].pc = "write" => th'[t].start <= bytes_to_sectors(length[th'[t].main])
        <5>1. inode[i].length = length[inode[i].sector]
          BY <1>3, <1>4, <1>12 DEF SoundInv, LengthInv
        <5>2. a <= a
          OBVIOUS
        <5> QED BY <1>5, <1>6, <1>7, <5>1, <5>2
      <4>4. LengthOK(t)'
        BY <2>0, <2>1, <2>2, <4>1, <4>3 DEF LengthOK
      <4> QED BY <3>2, <4>2, <4>4
    <3> QED BY <3>1, <3>2
  <2>8. GrowInv' /\ LengthInv'
    BY <1>9, <1>12, <2>0, <2>7 DEF SoundInv, GrowInv, LengthInv, Freed
  <2>9. DataInv'
    <3>1. \A u \in Thread : th[u].grown => th'[u] = th[u]
      BY <1>8, <2>1
    <3>2. \A m : FileInv(m) => FileInv(m)'
      BY <2>6, <3>1, FileKept
    <3> QED BY <1>9, <1>12, <2>0, <2>7, <3>2 DEF SoundInv, DataInv
  <2> QED BY <2>3, <2>4, <2>5, <2>8, <2>9 DEF SoundInv
<1>13. Sound' => Sound
  BY <1>2 DEF Sound
<1> QED BY <1>11, <1>12, <1>13 DEF IInv

(* A sector that a length needs holds a position before it. *)
LEMMA PosOfSector ==
  ASSUME NEW n \in 0..MaxLength, NEW j \in Nat, j < bytes_to_sectors(n)
  PROVE  \E q \in Pos : q < n /\ q \div BLOCK_SECTOR_SIZE = j
<1> DEFINE B == BLOCK_SECTOR_SIZE
<1>1. B \in Nat \ {0} /\ j < (n + B - 1) \div B /\ n \in Nat
  BY Sizes, IndexOK DEF bytes_to_sectors
<1> HIDE DEF B
<1>2. j * B \in Nat /\ j * B < n /\ (j * B) \div B = j
  BY <1>1
<1>3. j * B \in Pos
  BY <1>1, <1>2, IndexOK
<1> QED BY <1>2, <1>3 DEF B

(* inode_write_at() with the inode: the file is to grow, or it need not. *)
LEMMA LockedStep ==
  ASSUME IInv, NEW t \in Thread, Locked(t), panic' = "no"
  PROVE  IInv' /\ (Sound' => Sound)
<1>0. Base
  BY DEF IInv
<1>1. PICK m, i : m = th[t].main /\ i = th[t].ino
  OBVIOUS
<1>2. /\ th \in [Thread -> ThreadRec] /\ th[t] \in ThreadRec /\ LocalsOK(th[t])
      /\ th[t].pc = "write" /\ ~th[t].creating /\ ~th[t].grown
  BY <1>0, BaseFacts DEF Locked, Running, LocalsOK
<1>3. Working(th[t]) /\ m \in Sector /\ i \in Struct /\ i \in open_inodes
  BY <1>0, <1>1, <1>2, WorkingOnes DEF Working
<1>4. lock[m] = None /\ inode[i].length \in Nat
  <2>1. inode[i] \in InodeRec
    BY <1>0, <1>3, BaseFacts
  <2> QED BY <1>1, <2>1 DEF Locked, InodeRec
<1>5. UNCHANGED <<free_map, ptr, length, bytes, unsaved, garbage, memory, linked, panic, shared, leaked>>
  BY DEF Locked, Stop, disk, history
<1>6. PICK r \in ThreadRec :
        /\ th' = [th EXCEPT ![t] = r] /\ LocalsOK(r) /\ r.ino = i /\ r.deny_write = th[t].deny_write
        /\ ~r.creating /\ ~r.grown /\ r.main = m /\ r.offset = th[t].offset /\ r.end = th[t].end
        /\ \/ /\ r.pc = "grow" /\ r.level = 1 /\ r.cur = m /\ r.idx = th[t].start
              /\ inode[i].length < th[t].end
              /\ lock' = [lock EXCEPT ![m] = t]
              /\ expect' = [expect EXCEPT ![m] =
                   [p \in Pos |-> IF p < inode[i].length THEN @[p]
                                  ELSE IF p >= th[t].offset /\ p < th[t].end THEN t ELSE Zero]]
           \/ /\ r.pc = "copy" /\ ~(inode[i].length < th[t].end) /\ lock' = lock /\ expect' = expect
  <2>1. CASE Grows(t)
    <3>1. /\ lock' = [lock EXCEPT ![m] = t]
          /\ th' = [Allocate(t, m, th[t].start) EXCEPT ![t].pc = "grow"]
          /\ expect' = [expect EXCEPT ![m] =
                [p \in Pos |-> IF p < inode[i].length THEN @[p]
                               ELSE IF p >= th[t].offset /\ p < th[t].end THEN t ELSE Zero]]
          /\ inode[i].length < th[t].end
      BY <1>1, <2>1 DEF Locked, Stop, Grows
    <3> DEFINE r == [th[t] EXCEPT !.idx = th[t].start, !.level = 1, !.cur = m, !.fresh = FALSE,
                                  !.pc = "grow"]
    <3>2. r \in ThreadRec
      <4>1. /\ th[t].start \in Nat /\ 1 \in 1..REDIRECTION_LEVEL /\ m \in Sector \cup {None}
            /\ "grow" \in Points
        BY <1>2, <1>3, Sizes DEF ThreadRec, Points
      <4> QED BY <1>2, <4>1 DEF ThreadRec
    <3>3. th' = [th EXCEPT ![t] = r]
      BY <1>2, <3>1 DEF Allocate, ThreadRec
    <3>4. /\ r.ino = i /\ r.deny_write = th[t].deny_write /\ r.pc = "grow" /\ r.level = 1 /\ r.cur = m
          /\ r.idx = th[t].start /\ ~r.creating /\ ~r.grown /\ r.main = m
          /\ r.offset = th[t].offset /\ r.end = th[t].end
      BY <1>1, <1>2 DEF ThreadRec
    <3>5. LocalsOK(r)
      <4> HIDE DEF r
      <4>1. m # None /\ i # None
        BY <1>3, Sizes
      <4> QED BY <1>2, <3>4, <4>1 DEF LocalsOK
    <3> QED BY <3>1, <3>2, <3>3, <3>4, <3>5
  <2>2. CASE ~Grows(t)
    <3>1. th' = [th EXCEPT ![t].pc = "copy"] /\ lock' = lock /\ expect' = expect
          /\ ~(inode[i].length < th[t].end)
      BY <1>1, <2>2 DEF Locked, Stop, Goto, history, Grows
    <3> DEFINE r == [th[t] EXCEPT !.pc = "copy"]
    <3>2. r \in ThreadRec /\ th' = [th EXCEPT ![t] = r]
      BY <1>2, <3>1 DEF ThreadRec, Points
    <3>3. /\ r.ino = i /\ r.deny_write = th[t].deny_write /\ r.pc = "copy" /\ r.main = m
          /\ ~r.creating /\ ~r.grown /\ r.offset = th[t].offset /\ r.end = th[t].end
      BY <1>1, <1>2 DEF ThreadRec
    <3>4. LocalsOK(r)
      <4> HIDE DEF r
      <4>1. m # None /\ i # None
        BY <1>3, Sizes
      <4> QED BY <1>2, <3>3, <4>1 DEF LocalsOK
    <3> QED BY <3>1, <3>2, <3>3, <3>4
  <2> QED BY <2>1, <2>2
<1>7. th'[t] = r /\ Moves(t)
  BY <1>2, <1>6 DEF Moves
<1>8. th' \in [Thread -> ThreadRec] /\ \A u \in Thread : u # t => th'[u] = th[u]
  BY <1>7 DEF Moves
<1>9. KeepsStructs /\ inode' = inode /\ linked' = linked
  BY <1>0, <1>5, MemoryKept
<1>10. ThreadInv' /\ Counts' /\ StructInv'
  <2>1. r.pc \in {"idle", "write", "grow", "copy"} /\ th'[t].pc = r.pc /\ th'[t].ino = th[t].ino
        /\ th'[t].deny_write = th[t].deny_write
    BY <1>1, <1>6, <1>7
  <2> QED BY <1>0, <1>2, <1>7, <1>9, <2>1, MoveBase
<1>11. Base'
  <2>1. lock' \in [Sector -> Thread \cup {None}]
    BY <1>0, <1>3, <1>6 DEF Base, TypeOK
  <2>2. TypeOK'
    BY <1>0, <1>5, <1>8, <1>9, <2>1 DEF Base, TypeOK, ThreadRec, memory
  <2> QED BY <1>10, <2>2 DEF Base
<1>12. ASSUME SoundInv PROVE SoundInv'
  <2>0. free_map' = free_map /\ ptr' = ptr /\ length' = length /\ bytes' = bytes /\ leaked' = leaked
    BY <1>5
  <2>1. LinkInv' /\ InUse' = InUse
    <3>1. ~th'[t].creating
      BY <1>6, <1>7
    <3> QED BY <1>0, <1>2, <1>8, <1>9, <1>11, <1>12, <3>1, LinkKept
  <2>2. inode[i].sector = m /\ inode[i].length = length[m]
    <3>1. inode[i].sector = m
      BY <1>1, <1>2, <1>12 DEF SoundInv, LockInv
    <3>2. ~Freed(i)
      BY <1>3, <3>1, Sizes DEF Freed
    <3> QED BY <1>3, <1>12, <3>1, <3>2 DEF SoundInv, LengthInv
  <2>3. LockInv'
    <3>1. ~Grower(t) /\ (Grower(t)' <=> r.pc = "grow")
      BY <1>2, <1>6, <1>7 DEF Grower
    <3>2. LockMove(t)
      BY <1>3, <1>4, <1>6, <1>7, <3>1 DEF LockMove
    <3>3. th'[t].main = inode'[th'[t].ino].sector
      BY <1>6, <1>7, <1>9, <2>2
    <3> QED BY <1>0, <1>8, <1>9, <1>12, <3>2, <3>3, LockStep
  <2>4. TreeInv'
    BY <1>12, <2>0, <2>1 DEF SoundInv, TreeInv
  <2>5. expect \in [Sector -> [Pos -> Thread \cup {Zero}]]
    BY <1>12 DEF SoundInv, DataInv
  <2>6. /\ expect' \in [Sector -> [Pos -> Thread \cup {Zero}]]
        /\ \A n \in Sector : n # m => expect'[n] = expect[n]
        /\ \A p \in Pos : p < length[m] => expect'[m][p] = expect[m][p]
        /\ r.pc = "grow" => \A p \in Pos : p >= length[m] =>
             expect'[m][p] = IF p >= th[t].offset /\ p < th[t].end THEN t ELSE Zero
        /\ r.pc = "copy" => expect' = expect
    <3>1. CASE r.pc = "copy"
      BY <1>6, <2>5, <3>1
    <3>2. CASE r.pc = "grow"
      <4> DEFINE f == [p \in Pos |-> IF p < inode[i].length THEN expect[m][p]
                                     ELSE IF p >= th[t].offset /\ p < th[t].end THEN t ELSE Zero]
      <4>1. expect' = [expect EXCEPT ![m] = f]
        BY <1>6, <3>2
      <4>2. f \in [Pos -> Thread \cup {Zero}]
        BY <1>3, <2>5
      <4>3. \A p \in Pos : /\ p < length[m] => f[p] = expect[m][p]
                           /\ p >= length[m] =>
                                f[p] = IF p >= th[t].offset /\ p < th[t].end THEN t ELSE Zero
        BY <1>4, <2>2, PosOK
      <4> HIDE DEF f
      <4> QED BY <1>3, <2>5, <3>2, <4>1, <4>2, <4>3
    <3> QED BY <1>6, <3>1, <3>2
  <2>7. \A n \in Sector : n # m => SameFile(n)
    BY <2>0, <2>6 DEF SameFile
  <2>8. ASSUME NEW u \in Thread PROVE GrowOK(u)' /\ LengthOK(u)' /\ WriterInv(u)'
    <3>0. GrowOK(u) /\ LengthOK(u) /\ WriterInv(u)
      BY <1>12 DEF SoundInv, GrowInv, LengthInv, DataInv
    <3>1. CASE u # t /\ ~(Working(th[u]) /\ th[u].main = m)
      <4>1. Working(th[u]) => SameFile(th[u].main)
        BY <1>0, <2>7, <3>1, WorkingOnes
      <4> QED BY <1>0, <1>8, <3>0, <3>1, <4>1, WriterKept
    <3>2. CASE u # t /\ Working(th[u]) /\ th[u].main = m
      <4>1. ~th[u].creating /\ ~Grower(u)
        <5>1. None \notin Thread
          BY InodeAssumption DEF InodeAssumption
        <5>2. Grower(u) => lock[m] = u
          BY <1>12, <3>2 DEF SoundInv, LockInv
        <5>3. th[u].creating => Grower(u)
          BY <1>0, BaseFacts DEF LocalsOK, Grower
        <5> QED BY <1>4, <5>1, <5>2, <5>3
      <4>2. th'[u] = th[u] /\ th[u].pc # "grow" /\ ~th[u].grown /\ ~Grower(u)'
        BY <1>8, <3>2, <4>1 DEF Grower
      <4>3. GrowOK(u)' /\ WriterInv(u)'
        BY <4>1, <4>2 DEF GrowOK, WriterInv
      <4>4. LengthOK(u)'
        BY <2>0, <3>0, <4>2 DEF LengthOK
      <4> QED BY <4>3, <4>4
    <3>3. CASE u = t
      <4>1. GrowOK(t)'
        <5> SUFFICES ASSUME r.pc = "grow"
                     PROVE  \A j \in Index : j < th[t].start => SectorAt(ptr, m, j) # None
          BY <1>6, <1>7, <2>0 DEF GrowOK
        <5> SUFFICES ASSUME NEW j \in Index, j < th[t].start PROVE SectorAt(ptr, m, j) # None
          OBVIOUS
        <5>1. PICK n \in 0..MaxLength : n = length[m]
          BY <1>0, <1>3, IndexOK DEF Base, TypeOK
        <5>2. j \in Nat /\ th[t].start \in Nat /\ bytes_to_sectors(n) \in Nat
          <6>1. j \in Nat /\ n \in Nat
            BY IndexOK
          <6>2. bytes_to_sectors(n) \in Nat
            BY <6>1, PosOK
          <6> QED BY <1>2, <6>1, <6>2 DEF ThreadRec
        <5>3. th[t].start <= bytes_to_sectors(n)
          BY <1>1, <1>2, <3>0, <3>3, <5>1 DEF LengthOK
        <5>4. j < bytes_to_sectors(n)
          BY <5>2, <5>3
        <5>5. PICK q \in Pos : q < n /\ q \div BLOCK_SECTOR_SIZE = j
          BY <5>2, <5>4, PosOfSector
        <5>6. FileInv(m)
          BY <1>3, <1>12, <2>2 DEF SoundInv, DataInv
        <5> QED BY <5>1, <5>5, <5>6 DEF FileInv, BackedIn
      <4>2. LengthOK(t)'
        <5>1. length[m] \in Nat /\ th[t].end \in Nat
          BY <1>2, <1>4, <2>2 DEF ThreadRec
        <5>2. /\ r.pc = "grow" => length[m] < r.end
              /\ r.pc = "copy" => r.end <= length[m]
          BY <1>6, <2>2, <5>1
        <5> QED BY <1>6, <1>7, <2>0, <5>2 DEF LengthOK, Grower
      <4>3. WriterInv(t)'
        BY <1>6, <1>7, <2>0, <2>6 DEF WriterInv
      <4> QED BY <3>3, <4>1, <4>2, <4>3
    <3> QED BY <3>1, <3>2, <3>3
  <2>9. GrowInv' /\ LengthInv'
    BY <1>9, <1>12, <2>0, <2>8 DEF SoundInv, GrowInv, LengthInv, Freed
  <2>10. DataInv'
    <3>1. \A u \in Thread : th[u].grown => th'[u] = th[u]
      BY <1>2, <1>8
    <3>2. \A n \in Sector : n # m => (FileInv(n) => FileInv(n)')
      BY <2>7, <3>1, FileKept
    <3>3. FileInv(m) => FileInv(m)'
      BY <2>0, <2>6, <3>1 DEF FileInv
    <3> QED BY <1>9, <1>12, <2>6, <2>8, <3>2, <3>3 DEF SoundInv, DataInv
  <2> QED BY <2>1, <2>3, <2>4, <2>9, <2>10 DEF SoundInv
<1>13. Sound' => Sound
  BY <1>5 DEF Sound
<1> QED BY <1>11, <1>12, <1>13 DEF IInv

(* The sector of a position before a length is one that it needs. *)
LEMMA SectorBefore ==
  ASSUME NEW q \in Pos, NEW n \in 0..MaxLength, q < n
  PROVE  \E j \in Index : /\ j = q \div BLOCK_SECTOR_SIZE /\ j \in Nat
                          /\ j < bytes_to_sectors(n) /\ bytes_to_sectors(n) \in Nat
<1>1. q \in Nat /\ n \in Nat /\ q \div BLOCK_SECTOR_SIZE \in Index
  <2>1. q \in Nat /\ q \div BLOCK_SECTOR_SIZE \in Index
    BY PosOK
  <2>2. n \in Nat
    BY IndexOK
  <2> QED BY <2>1, <2>2
<1>2. q \div BLOCK_SECTOR_SIZE < bytes_to_sectors(n) /\ bytes_to_sectors(n) \in Nat
  BY <1>1, PosOK
<1>3. Index \subseteq Nat
  BY IndexOK
<1> QED BY <1>1, <1>2, <1>3

(* A call returns. *)
LEMMA ReturnMoves ==
  ASSUME Base, NEW t \in Thread, Working(th[t]), Return(t)
  PROVE  /\ Moves(t) /\ ~Working(th'[t]) /\ ~th'[t].creating /\ ~th'[t].grown /\ ~Grower(t)'
         /\ th'[t].pc = "idle" /\ th'[t].ino = th[t].ino /\ th'[t].deny_write = th[t].deny_write
<1>1. th \in [Thread -> ThreadRec] /\ th[t] \in ThreadRec /\ LocalsOK(th[t])
  BY BaseFacts
<1>2. PICK a \in Struct \cup {None}, d \in BOOLEAN, c \in 0..MaxCalls :
        a = th[t].ino /\ d = th[t].deny_write /\ c = th[t].calls
  BY <1>1 DEF ThreadRec
<1> DEFINE r == Rest(a, d, c)
<1>3. th' = [th EXCEPT ![t] = r]
  BY <1>1, <1>2 DEF Return
<1>4. r \in ThreadRec
  <2>1. 1 \in 1..REDIRECTION_LEVEL
    BY Sizes
  <2> QED BY <2>1 DEF Rest, ThreadRec, Points
<1>5. /\ r.pc = "idle" /\ r.ino = a /\ r.deny_write = d /\ r.creating = FALSE /\ r.grown = FALSE
      /\ r.offset = 0 /\ r.end = 0
  BY DEF Rest
<1> HIDE DEF r
<1>6. LocalsOK(r)
  <2>1. 0 <= MaxLength
    BY IndexOK
  <2>2. d => a # None
    BY <1>1, <1>2 DEF LocalsOK
  <2> QED BY <1>5, <2>1, <2>2 DEF LocalsOK
<1>7. th'[t] = r /\ Moves(t)
  BY <1>1, <1>3, <1>4, <1>6 DEF Moves
<1> QED BY <1>2, <1>5, <1>7 DEF Working, Grower

(* allocate_inode_sectors() has them all: inode_create() ends and the file *)
(* is linked or not, or the write goes on.                                 *)
LEMMA CreatedStep ==
  ASSUME IInv, NEW t \in Thread, GrowthDone(t), th[t].creating, Linked(t, th[t].main)
  PROVE  IInv' /\ (Sound' => Sound)
<1>0. Base
  BY DEF IInv
<1>1. PICK m : m = th[t].main
  OBVIOUS
<1>2. /\ th \in [Thread -> ThreadRec] /\ th[t] \in ThreadRec /\ LocalsOK(th[t])
      /\ th[t].pc = "grow" /\ ~th[t].grown /\ th[t].ino = None
  BY <1>0, BaseFacts DEF GrowthDone, Running, LocalsOK
<1>3. Working(th[t]) /\ m \in Sector /\ Grower(t)
  BY <1>0, <1>1, <1>2, WorkingOnes DEF Working, Grower
<1>4. /\ length' = [length EXCEPT ![m] = th[t].end] /\ linked' = linked \cup {m}
      /\ lock' = [lock EXCEPT ![m] = None] /\ Return(t)
      /\ UNCHANGED <<free_map, ptr, bytes, unsaved, garbage, memory, panic, expect, shared, leaked>>
      /\ th[t].idx >= bytes_to_sectors(th[t].end)
  BY <1>1 DEF GrowthDone, Allocated, Linked
<1>5. PICK e \in 0..MaxLength, x \in Nat : e = th[t].end /\ x = th[t].idx
  BY <1>2, IndexOK DEF LocalsOK, ThreadRec
<1>6. /\ Moves(t) /\ ~Working(th'[t]) /\ ~th'[t].creating /\ ~th'[t].grown /\ ~Grower(t)'
      /\ th'[t].pc = "idle" /\ th'[t].ino = th[t].ino /\ th'[t].deny_write = th[t].deny_write
  BY <1>0, <1>3, <1>4, ReturnMoves
<1>7. th' \in [Thread -> ThreadRec] /\ \A u \in Thread : u # t => th'[u] = th[u]
  BY <1>6 DEF Moves
<1>8. KeepsStructs /\ inode' = inode
  BY <1>0, <1>4, MemoryKept
<1>9. ThreadInv' /\ Counts' /\ StructInv' /\ \A i \in Struct : Settled(i)' <=> Settled(i)
  BY <1>0, <1>2, <1>6, <1>8, MoveBase
<1>10. length' \in [Sector -> 0..MaxLength] /\ length'[m] = e /\ \A n \in Sector : n # m => length'[n] = length[n]
  <2>1. length \in [Sector -> 0..MaxLength]
    BY <1>0, IndexOK DEF Base, TypeOK
  <2> QED BY <1>3, <1>4, <1>5, <2>1
<1>11. Base'
  <2>1. lock' \in [Sector -> Thread \cup {None}] /\ linked' \subseteq Sector
    BY <1>0, <1>3, <1>4 DEF Base, TypeOK
  <2>2. TypeOK'
    BY <1>0, <1>4, <1>7, <1>8, <1>10, <2>1, IndexOK DEF Base, TypeOK, ThreadRec, memory
  <2> QED BY <1>9, <2>2 DEF Base
<1>12. ASSUME SoundInv PROVE SoundInv'
  <2>0. free_map' = free_map /\ ptr' = ptr /\ bytes' = bytes /\ expect' = expect /\ leaked' = leaked
    BY <1>4
  <2>1. /\ \A i \in Struct : inode[i].sector # m
        /\ \A u \in Thread : u # t /\ Working(th[u]) => th[u].main # m
        /\ m \notin linked
    <3>1. m \notin linked
      BY <1>1, <1>12 DEF SoundInv, LinkInv
    <3> QED BY <1>0, <1>1, <1>3, <1>12, <3>1, Owners
  <2>2. \A u \in Thread : /\ th'[u].creating <=> (th[u].creating /\ u # t)
                          /\ th'[u].grown <=> th[u].grown
                          /\ u # t => th'[u] = th[u]
    BY <1>2, <1>6, <1>7
  <2>3. InUse' = InUse
    <3>1. \A n \in Sector : Used(n)' <=> Used(n)
      BY <1>1, <1>4, <1>8, <2>2 DEF Used
    <3> QED BY <1>0, <1>11, <3>1, InUseIs
  <2>4. LinkInv'
    <3>1. \A i, j \in Struct : ~Freed(i)' /\ inode'[i].sector = inode'[j].sector => i = j
      BY <1>8, <1>12 DEF SoundInv, LinkInv, Freed
    <3>2. \A i \in Struct : ~Freed(i)' /\ Settled(i)' => (inode'[i].removed <=> inode'[i].sector \notin linked')
      BY <1>4, <1>8, <1>9, <1>12, <2>1 DEF SoundInv, LinkInv, Freed
    <3>3. ASSUME NEW u \in Thread, th'[u].creating
          PROVE  /\ th'[u].main \notin linked'
                 /\ \A i \in Struct : inode'[i].sector # th'[u].main
                 /\ \A v \in Thread : th'[v].creating /\ th'[v].main = th'[u].main => v = u
      <4>1. u # t /\ th'[u] = th[u] /\ th[u].creating /\ th[u].main # m
        BY <1>0, <2>1, <2>2, <3>3, WorkingOnes
      <4> QED BY <1>4, <1>8, <1>12, <2>2, <4>1 DEF SoundInv, LinkInv
    <3> QED BY <3>1, <3>2, <3>3 DEF LinkInv
  <2>5. LockInv'
    <3>1. LockMove(t)
      BY <1>1, <1>3, <1>4, <1>6 DEF LockMove
    <3> QED BY <1>0, <1>6, <1>7, <1>8, <1>12, <3>1, LockStep
  <2>6. TreeInv'
    BY <1>12, <2>0, <2>3 DEF SoundInv, TreeInv
  <2>7. \A n \in Sector : n # m => SameFile(n)
    BY <1>10, <2>0 DEF SameFile
  <2>8. ASSUME NEW u \in Thread PROVE GrowOK(u)' /\ LengthOK(u)' /\ WriterInv(u)'
    <3>0. GrowOK(u) /\ LengthOK(u) /\ WriterInv(u)
      BY <1>12 DEF SoundInv, GrowInv, LengthInv, DataInv
    <3>1. CASE u # t
      <4>1. Working(th[u]) => SameFile(th[u].main)
        BY <1>0, <2>1, <2>7, <3>1, WorkingOnes
      <4> QED BY <1>0, <1>7, <3>0, <3>1, <4>1, WriterKept
    <3>2. CASE u = t
      BY <1>6, <1>11, <3>2, NoWriter
    <3> QED BY <3>1, <3>2
  <2>9. GrowInv' /\ LengthInv'
    <3>1. GrowInv'
      BY <2>8 DEF GrowInv
    <3>2. ASSUME NEW i \in Struct, inode[i].sector # None
          PROVE  inode'[i].length = length'[inode'[i].sector]
      <4>1. inode[i].sector \in Sector /\ inode[i].sector # m
        <5>1. inode[i] \in InodeRec
          BY <1>0, <1>2, BaseFacts
        <5> QED BY <2>1, <3>2, <5>1 DEF InodeRec
      <4>2. inode[i].length = length[inode[i].sector]
        BY <1>12, <3>2 DEF SoundInv, LengthInv, Freed
      <4> QED BY <1>8, <1>10, <4>1, <4>2
    <3>3. LengthInv'
      BY <1>8, <2>8, <3>2 DEF LengthInv, Freed
    <3> QED BY <3>1, <3>3
  <2>10. FileInv(m)'
    <3>1. ASSUME NEW q \in Pos
          PROVE  /\ q < e => BackedIn(ptr, m, q)
                 /\ BackedIn(ptr, m, q) => Holds(ptr, bytes, m, q) = Zero
                 /\ expect[m][q] = Zero
      <4>1. WriterInv(t) /\ GrowOK(t)
        BY <1>12 DEF SoundInv, DataInv, GrowInv
      <4>2. (BackedIn(ptr, m, q) => Holds(ptr, bytes, m, q) = Zero) /\ expect[m][q] = Zero
        BY <1>1, <4>1 DEF WriterInv
      <4>3. ASSUME q < e PROVE BackedIn(ptr, m, q)
        <5>1. PICK j \in Index : /\ j = q \div BLOCK_SECTOR_SIZE /\ j \in Nat
                                /\ j < bytes_to_sectors(e) /\ bytes_to_sectors(e) \in Nat
          BY <4>3, SectorBefore
        <5>4. j < x
          BY <1>4, <1>5, <5>1
        <5>5. SectorAt(ptr, m, j) # None
          BY <1>1, <1>2, <1>5, <4>1, <5>4 DEF GrowOK
        <5> QED BY <5>1, <5>5 DEF BackedIn
      <4> QED BY <4>2, <4>3
    <3> QED BY <1>10, <2>0, <3>1 DEF FileInv
  <2>11. DataInv'
    <3>1. ASSUME NEW n \in Sector, n \in linked' \/ \E i \in Struct : inode'[i].sector = n
          PROVE  FileInv(n)'
      <4>1. CASE n = m
        BY <2>10, <4>1
      <4>2. CASE n # m
        <5>1. FileInv(n)
          BY <1>4, <1>8, <1>12, <3>1, <4>2 DEF SoundInv, DataInv
        <5>2. \A u \in Thread : th[u].grown => th'[u] = th[u]
          BY <1>2, <1>7
        <5> QED BY <2>7, <4>2, <5>1, <5>2, FileKept
      <4> QED BY <4>1, <4>2
    <3> QED BY <1>12, <2>0, <2>8, <3>1 DEF SoundInv, DataInv
  <2> QED BY <2>4, <2>5, <2>6, <2>9, <2>11 DEF SoundInv
<1>13. Sound' => Sound
  BY <1>4 DEF Sound
<1> QED BY <1>11, <1>12, <1>13 DEF IInv

LEMMA NotLinkedStep ==
  ASSUME IInv, NEW t \in Thread, GrowthDone(t), th[t].creating, NotLinked(t, th[t].main)
  PROVE  IInv' /\ (Sound' => Sound)
<1>0. Base
  BY DEF IInv
<1>1. PICK m : m = th[t].main
  OBVIOUS
<1>2. /\ th \in [Thread -> ThreadRec] /\ th[t] \in ThreadRec /\ LocalsOK(th[t])
      /\ th[t].pc = "grow" /\ ~th[t].grown /\ th[t].ino = None
  BY <1>0, BaseFacts DEF GrowthDone, Running, LocalsOK
<1>3. Working(th[t]) /\ m \in Sector /\ Grower(t)
  BY <1>0, <1>1, <1>2, WorkingOnes DEF Working, Grower
<1>4. /\ length' = [length EXCEPT ![m] = th[t].end] /\ linked' = linked
      /\ free_map' = free_map \ {m} /\ leaked' = leaked \cup (Reach(m) \ {m})
      /\ lock' = [lock EXCEPT ![m] = None] /\ Return(t)
      /\ UNCHANGED <<ptr, bytes, unsaved, garbage, memory, panic, expect, shared>>
      /\ th[t].idx >= bytes_to_sectors(th[t].end)
  BY <1>1 DEF GrowthDone, Allocated, NotLinked
<1>5. PICK e \in 0..MaxLength, x \in Nat : e = th[t].end /\ x = th[t].idx
  BY <1>2, IndexOK DEF LocalsOK, ThreadRec
<1>6. /\ Moves(t) /\ ~Working(th'[t]) /\ ~th'[t].creating /\ ~th'[t].grown /\ ~Grower(t)'
      /\ th'[t].pc = "idle" /\ th'[t].ino = th[t].ino /\ th'[t].deny_write = th[t].deny_write
  BY <1>0, <1>3, <1>4, ReturnMoves
<1>7. th' \in [Thread -> ThreadRec] /\ \A u \in Thread : u # t => th'[u] = th[u]
  BY <1>6 DEF Moves
<1>8. KeepsStructs /\ inode' = inode
  BY <1>0, <1>4, MemoryKept
<1>9. ThreadInv' /\ Counts' /\ StructInv' /\ \A i \in Struct : Settled(i)' <=> Settled(i)
  BY <1>0, <1>2, <1>6, <1>8, MoveBase
<1>10. length' \in [Sector -> 0..MaxLength] /\ length'[m] = e /\ \A n \in Sector : n # m => length'[n] = length[n]
  <2>1. length \in [Sector -> 0..MaxLength]
    BY <1>0, IndexOK DEF Base, TypeOK
  <2> QED BY <1>3, <1>4, <1>5, <2>1
<1>11. Base'
  <2>1. lock' \in [Sector -> Thread \cup {None}]
    BY <1>0, <1>3, <1>4 DEF Base, TypeOK
  <2>3. Reach(m) \subseteq Sector
    <3>1. ptr \in Pointers
      BY <1>0 DEF Base, TypeOK, Pointers
    <3>2. \A i \in Index, l \in Level : WayIn(ptr, m, i)[l] \in Sector \cup {None}
      BY <1>3, <3>1, WayOK
    <3>3. Reach(m) = ReachIn(ptr, {m})
      BY ReachIs
    <3> QED BY <3>2, <3>3 DEF ReachIn
  <2>4. leaked' \subseteq Sector /\ free_map' \subseteq Sector
    BY <1>0, <1>4, <2>3 DEF Base, TypeOK
  <2>2. TypeOK'
    BY <1>0, <1>4, <1>7, <1>8, <1>10, <2>1, <2>4, IndexOK DEF Base, TypeOK, ThreadRec, memory
  <2> QED BY <1>9, <2>2 DEF Base
<1>12. ASSUME SoundInv PROVE SoundInv'
  <2>0. ptr' = ptr /\ bytes' = bytes /\ expect' = expect
    BY <1>4
  <2>1. /\ \A i \in Struct : inode[i].sector # m
        /\ \A u \in Thread : u # t /\ Working(th[u]) => th[u].main # m
        /\ m \notin linked
    <3>1. m \notin linked
      BY <1>1, <1>12 DEF SoundInv, LinkInv
    <3> QED BY <1>0, <1>1, <1>3, <1>12, <3>1, Owners
  <2>2. \A u \in Thread : /\ th'[u].creating <=> (th[u].creating /\ u # t)
                          /\ th'[u].grown <=> th[u].grown
                          /\ u # t => th'[u] = th[u]
    BY <1>2, <1>6, <1>7
  <2>3. InUse' = InUse \ {m} /\ m \in InUse
    <3>1. Used(m) /\ ~Used(m)'
      <4>1. Used(m)
        BY <1>1 DEF Used
      <4>2. \A u \in Thread : th'[u].creating => th'[u].main # m
        BY <1>0, <2>1, <2>2, WorkingOnes
      <4> QED BY <1>4, <1>8, <2>1, <4>1, <4>2 DEF Used
    <3>2. \A n \in Sector : n # m => (Used(n)' <=> Used(n))
      BY <1>1, <1>4, <1>8, <2>2 DEF Used
    <3> QED BY <1>0, <1>3, <1>11, <3>1, <3>2, InUseIs
  <2>4. LinkInv'
    <3>1. \A i, j \in Struct : ~Freed(i)' /\ inode'[i].sector = inode'[j].sector => i = j
      BY <1>8, <1>12 DEF SoundInv, LinkInv, Freed
    <3>2. \A i \in Struct : ~Freed(i)' /\ Settled(i)' => (inode'[i].removed <=> inode'[i].sector \notin linked')
      BY <1>4, <1>8, <1>9, <1>12, <2>1 DEF SoundInv, LinkInv, Freed
    <3>3. ASSUME NEW u \in Thread, th'[u].creating
          PROVE  /\ th'[u].main \notin linked'
                 /\ \A i \in Struct : inode'[i].sector # th'[u].main
                 /\ \A v \in Thread : th'[v].creating /\ th'[v].main = th'[u].main => v = u
      <4>1. u # t /\ th'[u] = th[u] /\ th[u].creating /\ th[u].main # m
        BY <1>0, <2>1, <2>2, <3>3, WorkingOnes
      <4> QED BY <1>4, <1>8, <1>12, <2>2, <4>1 DEF SoundInv, LinkInv
    <3> QED BY <3>1, <3>2, <3>3 DEF LinkInv
  <2>5. LockInv'
    <3>1. LockMove(t)
      BY <1>1, <1>3, <1>4, <1>6 DEF LockMove
    <3> QED BY <1>0, <1>6, <1>7, <1>8, <1>12, <3>1, LockStep
  <2>6. TreeInv'
    <3>1. TreeIn(ptr, InUse)
      BY <1>12 DEF SoundInv, TreeInv
    <3>2. TreeIn(ptr', InUse')
      BY <2>0, <2>3, <3>1 DEF TreeIn
    <3>3. ReachIn(ptr, InUse \ {m}) \cap ReachIn(ptr, {m}) = {}
      BY <2>3, <3>1 DEF TreeIn, ReachIn
    <3>4. ReachIn(ptr, InUse) = ReachIn(ptr, InUse \ {m}) \cup ReachIn(ptr, {m})
      BY <2>3 DEF ReachIn
    <3>5. m \in ReachIn(ptr, {m})
      <4>1. ptr \in Pointers /\ m \in Sector \cup {None} /\ m # None /\ 0 \in Index /\ 0 \in Level
        BY <1>0, <1>3, Sizes, IndexOK DEF Level, Base, TypeOK, Pointers
      <4>2. WayIn(ptr, m, 0)[0] = m
        BY <4>1, WayOK
      <4> QED BY <4>1, <4>2 DEF ReachIn
    <3>6. Reach(m) = ReachIn(ptr, {m})
      BY ReachIs
    <3>7. free_map = ReachIn(ptr, InUse) \cup leaked /\ ReachIn(ptr, InUse) \cap leaked = {}
      BY <1>12 DEF SoundInv, TreeInv
    <3>8. ReachIn(ptr', InUse') = ReachIn(ptr, InUse \ {m})
      BY <2>0, <2>3
    <3>9. free_map' = ReachIn(ptr', InUse') \cup leaked'
      BY <1>4, <3>3, <3>4, <3>5, <3>6, <3>7, <3>8
    <3>10. ReachIn(ptr', InUse') \cap leaked' = {}
      BY <1>4, <3>3, <3>4, <3>6, <3>7, <3>8
    <3> QED BY <3>2, <3>9, <3>10 DEF TreeInv
  <2>7. \A n \in Sector : n # m => SameFile(n)
    BY <1>10, <2>0 DEF SameFile
  <2>8. ASSUME NEW u \in Thread PROVE GrowOK(u)' /\ LengthOK(u)' /\ WriterInv(u)'
    <3>0. GrowOK(u) /\ LengthOK(u) /\ WriterInv(u)
      BY <1>12 DEF SoundInv, GrowInv, LengthInv, DataInv
    <3>1. CASE u # t
      <4>1. Working(th[u]) => SameFile(th[u].main)
        BY <1>0, <2>1, <2>7, <3>1, WorkingOnes
      <4> QED BY <1>0, <1>7, <3>0, <3>1, <4>1, WriterKept
    <3>2. CASE u = t
      BY <1>6, <1>11, <3>2, NoWriter
    <3> QED BY <3>1, <3>2
  <2>9. GrowInv' /\ LengthInv'
    <3>1. GrowInv'
      BY <2>8 DEF GrowInv
    <3>2. ASSUME NEW i \in Struct, inode[i].sector # None
          PROVE  inode'[i].length = length'[inode'[i].sector]
      <4>1. inode[i].sector \in Sector /\ inode[i].sector # m
        <5>1. inode[i] \in InodeRec
          BY <1>0, <1>2, BaseFacts
        <5> QED BY <2>1, <3>2, <5>1 DEF InodeRec
      <4>2. inode[i].length = length[inode[i].sector]
        BY <1>12, <3>2 DEF SoundInv, LengthInv, Freed
      <4> QED BY <1>8, <1>10, <4>1, <4>2
    <3>3. LengthInv'
      BY <1>8, <2>8, <3>2 DEF LengthInv, Freed
    <3> QED BY <3>1, <3>3
  <2>11. DataInv'
    <3>1. ASSUME NEW n \in Sector, n \in linked' \/ \E i \in Struct : inode'[i].sector = n
          PROVE  FileInv(n)'
      <4>1. n # m
        BY <1>4, <1>8, <2>1, <3>1
      <4>2. FileInv(n)
        BY <1>4, <1>8, <1>12, <3>1 DEF SoundInv, DataInv
      <4>3. \A u \in Thread : th[u].grown => th'[u] = th[u]
        BY <1>2, <1>7
      <4> QED BY <2>7, <4>1, <4>2, <4>3, FileKept
    <3> QED BY <1>12, <2>0, <2>8, <3>1 DEF SoundInv, DataInv
  <2> QED BY <2>4, <2>5, <2>6, <2>9, <2>11 DEF SoundInv
<1>13. Sound' => Sound
  BY <1>4 DEF Sound
<1> QED BY <1>11, <1>12, <1>13 DEF IInv

LEMMA GrownStep ==
  ASSUME IInv, NEW t \in Thread, GrowthDone(t), ~th[t].creating
  PROVE  IInv' /\ (Sound' => Sound)
<1>0. Base
  BY DEF IInv
<1>1. PICK m, i : m = th[t].main /\ i = th[t].ino
  OBVIOUS
<1>2. /\ th \in [Thread -> ThreadRec] /\ th[t] \in ThreadRec /\ LocalsOK(th[t])
      /\ th[t].pc = "grow" /\ ~th[t].grown
  BY <1>0, BaseFacts DEF GrowthDone, Running, LocalsOK
<1>3. Working(th[t]) /\ m \in Sector /\ Grower(t) /\ i \in Struct
  BY <1>0, <1>1, <1>2, WorkingOnes DEF Working, Grower
<1>4. /\ th' = [th EXCEPT ![t].pc = "copy", ![t].grown = TRUE]
      /\ UNCHANGED <<free_map, ptr, length, bytes, unsaved, garbage, lock, linked, memory, panic, expect,
                     shared, leaked>>
      /\ th[t].idx >= bytes_to_sectors(th[t].end)
  BY DEF GrowthDone, Allocated, history
<1>5. PICK e \in 0..MaxLength, x \in Nat : e = th[t].end /\ x = th[t].idx
  BY <1>2, IndexOK DEF LocalsOK, ThreadRec
<1> DEFINE r == [th[t] EXCEPT !.pc = "copy", !.grown = TRUE]
<1>6. r \in ThreadRec /\ th' = [th EXCEPT ![t] = r]
  BY <1>2, <1>4 DEF ThreadRec, Points
<1>6a. /\ r.pc = "copy" /\ r.grown /\ r.main = m /\ r.ino = i /\ r.deny_write = th[t].deny_write
       /\ ~r.creating /\ r.offset = th[t].offset /\ r.end = th[t].end
  BY <1>1, <1>2 DEF ThreadRec
<1> HIDE DEF r
<1>6b. LocalsOK(r)
  <2>1. m # None /\ i # None
    BY <1>3, Sizes
  <2> QED BY <1>2, <1>6a, <2>1 DEF LocalsOK
<1>6c. th'[t] = r /\ Moves(t)
  BY <1>2, <1>6, <1>6b DEF Moves
<1>7. th' \in [Thread -> ThreadRec] /\ \A u \in Thread : u # t => th'[u] = th[u]
  BY <1>6c DEF Moves
<1>8. KeepsStructs /\ inode' = inode /\ linked' = linked
  BY <1>0, <1>4, MemoryKept
<1>9. ThreadInv' /\ Counts' /\ StructInv'
  BY <1>0, <1>1, <1>2, <1>6a, <1>6c, <1>8, MoveBase
<1>10. Base'
  <2>1. TypeOK'
    BY <1>0, <1>4, <1>7, <1>8 DEF Base, TypeOK, ThreadRec, memory
  <2> QED BY <1>9, <2>1 DEF Base
<1>11. ASSUME SoundInv PROVE SoundInv'
  <2>0. /\ free_map' = free_map /\ ptr' = ptr /\ length' = length /\ bytes' = bytes
        /\ lock' = lock /\ expect' = expect /\ leaked' = leaked
    BY <1>4
  <2>1. LinkInv' /\ InUse' = InUse
    <3>1. ~th'[t].creating
      BY <1>6a, <1>6c
    <3> QED BY <1>0, <1>2, <1>7, <1>8, <1>10, <1>11, <3>1, LinkKept
  <2>2. inode[i].sector = m
    BY <1>1, <1>2, <1>11 DEF SoundInv, LockInv
  <2>3. LockInv'
    <3>1. Grower(t)' /\ th'[t].main = th[t].main
      BY <1>1, <1>6a, <1>6c DEF Grower
    <3>2. LockMove(t)
      BY <1>3, <2>0, <3>1 DEF LockMove
    <3>3. th'[t].main = inode'[th'[t].ino].sector
      BY <1>6a, <1>6c, <1>8, <2>2
    <3> QED BY <1>0, <1>7, <1>8, <1>11, <3>2, <3>3, LockStep
  <2>4. TreeInv'
    BY <1>11, <2>0, <2>1 DEF SoundInv, TreeInv
  <2>5. \A n : SameFile(n)
    BY <2>0 DEF SameFile
  <2>6. GrowOK(t) /\ LengthOK(t) /\ WriterInv(t) /\ FileInv(m)
    BY <1>3, <1>11, <2>2 DEF SoundInv, GrowInv, LengthInv, DataInv
  <2>7. \A u \in Thread : th[u].grown => th[u].main # m
    <3> SUFFICES ASSUME NEW u \in Thread, th[u].grown, th[u].main = m PROVE FALSE
      OBVIOUS
    <3>1. u # t /\ Grower(u) /\ Working(th[u])
      BY <1>0, <1>2, WorkingOnes DEF Grower
    <3> QED BY <1>0, <1>1, <1>3, <1>11, <3>1, Owners
  <2>8. LengthOK(t)'
    <3>1. length[m] < r.end
      BY <1>1, <1>3, <1>6a, <2>6 DEF LengthOK
    <3>2. \A j \in Index : j < bytes_to_sectors(r.end) => SectorAt(ptr, m, j) # None
      <4> SUFFICES ASSUME NEW j \in Index, j < bytes_to_sectors(e) PROVE SectorAt(ptr, m, j) # None
        BY <1>5, <1>6a
      <4>1. j \in Nat /\ e \in Nat
        BY IndexOK
      <4>2. bytes_to_sectors(e) \in Nat
        BY <4>1, PosOK
      <4>3. j < x
        BY <1>4, <1>5, <4>1, <4>2
      <4> QED BY <1>1, <1>2, <1>5, <2>6, <4>3 DEF GrowOK
    <3> QED BY <1>6a, <1>6c, <2>0, <3>1, <3>2 DEF LengthOK, Grower
  <2>9. WriterInv(t)'
    <3> SUFFICES ASSUME NEW q \in Pos, q >= length[m]
                 PROVE  /\ q >= r.end => expect[m][q] = Zero
                        /\ (q < r.offset \/ q >= r.end) /\ BackedIn(ptr, m, q) =>
                             Holds(ptr, bytes, m, q) = expect[m][q]
      BY <1>6a, <1>6c, <2>0 DEF WriterInv
    <3>1. expect[m][q] = IF q >= r.offset /\ q < r.end THEN t ELSE Zero
      BY <1>1, <1>2, <1>6a, <2>6 DEF WriterInv
    <3>2. BackedIn(ptr, m, q) => Holds(ptr, bytes, m, q) = Zero
      BY <2>6, <2>7 DEF FileInv
    <3>3. q \in Nat /\ r.offset \in Nat /\ r.end \in Nat
      BY <1>6, PosOK DEF ThreadRec
    <3> QED BY <3>1, <3>2, <3>3
  <2>10. ASSUME NEW u \in Thread PROVE GrowOK(u)' /\ LengthOK(u)' /\ WriterInv(u)'
    <3>1. CASE u # t
      <4>1. GrowOK(u) /\ LengthOK(u) /\ WriterInv(u)
        BY <1>11 DEF SoundInv, GrowInv, LengthInv, DataInv
      <4> QED BY <1>0, <1>7, <2>5, <3>1, <4>1, WriterKept
    <3>2. CASE u = t
      <4>1. GrowOK(t)'
        BY <1>6a, <1>6c DEF GrowOK
      <4> QED BY <2>8, <2>9, <3>2, <4>1
    <3> QED BY <3>1, <3>2
  <2>11. GrowInv' /\ LengthInv'
    BY <1>8, <1>11, <2>0, <2>10 DEF SoundInv, GrowInv, LengthInv, Freed
  <2>12. DataInv'
    <3>1. \A u \in Thread : th[u].grown => th'[u] = th[u]
      BY <1>2, <1>7
    <3>2. \A n : FileInv(n) => FileInv(n)'
      BY <2>5, <3>1, FileKept
    <3> QED BY <1>8, <1>11, <2>0, <2>10, <3>2 DEF SoundInv, DataInv
  <2> QED BY <2>1, <2>3, <2>4, <2>11, <2>12 DEF SoundInv
<1>12. Sound' => Sound
  BY <1>4 DEF Sound
<1> QED BY <1>10, <1>11, <1>12 DEF IInv

(* The end of the write: the new length is saved, and those who wait for   *)
(* the inode are the only others with it.                                  *)
LEMMA WrittenStep ==
  ASSUME IInv, NEW t \in Thread, Written(t), th[t].grown, panic' = "no"
  PROVE  IInv' /\ (Sound' => Sound)
<1>0. Base
  BY DEF IInv
<1>1. PICK m, i : m = th[t].main /\ i = th[t].ino
  OBVIOUS
<1>2. /\ th \in [Thread -> ThreadRec] /\ th[t] \in ThreadRec /\ LocalsOK(th[t])
      /\ th[t].pc = "copy" /\ ~th[t].creating
  BY <1>0, BaseFacts DEF Written, Running, LocalsOK
<1>3. Working(th[t]) /\ m \in Sector /\ Grower(t) /\ i \in Struct
  BY <1>0, <1>1, <1>2, WorkingOnes DEF Working, Grower
<1>4. /\ length' = [length EXCEPT ![m] = th[t].end] /\ inode' = [inode EXCEPT ![i].length = th[t].end]
      /\ lock' = [lock EXCEPT ![m] = None] /\ Return(t) /\ th[t].offset = th[t].end
      /\ UNCHANGED <<free_map, ptr, bytes, unsaved, garbage, open_inodes, linked, panic, expect, shared, leaked>>
  BY <1>1 DEF Written, Stop, SavedLength, history
<1>5. PICK e \in 0..MaxLength : e = th[t].end /\ e \in Nat
  BY <1>2, IndexOK DEF LocalsOK, ThreadRec
<1>6. /\ Moves(t) /\ ~Working(th'[t]) /\ ~th'[t].creating /\ ~th'[t].grown /\ ~Grower(t)'
      /\ th'[t].pc = "idle" /\ th'[t].ino = th[t].ino /\ th'[t].deny_write = th[t].deny_write
  BY <1>0, <1>3, <1>4, ReturnMoves
<1>7. th' \in [Thread -> ThreadRec] /\ \A u \in Thread : u # t => th'[u] = th[u]
  BY <1>6 DEF Moves
<1>8. /\ inode' \in [Struct -> InodeRec] /\ inode'[i].length = e
      /\ \A j \in Struct : /\ inode'[j].open_cnt = inode[j].open_cnt
                           /\ inode'[j].deny_write_cnt = inode[j].deny_write_cnt
                           /\ inode'[j].sector = inode[j].sector
                           /\ inode'[j].removed = inode[j].removed
                           /\ j # i => inode'[j].length = inode[j].length
  <2>1. inode \in [Struct -> InodeRec]
    BY <1>0, BaseFacts
  <2> QED BY <1>3, <1>4, <1>5, <2>1 DEF InodeRec
<1>9. ThreadInv' /\ Counts' /\ StructInv'
  <2>1. KeepsStructs
    BY <1>4, <1>8 DEF KeepsStructs
  <2> QED BY <1>0, <1>2, <1>6, <2>1, MoveBase
<1>10. /\ length' \in [Sector -> 0..MaxLength] /\ length \in [Sector -> 0..MaxLength]
       /\ length'[m] = e /\ \A n \in Sector : n # m => length'[n] = length[n]
  <2>1. length \in [Sector -> 0..MaxLength]
    BY <1>0, IndexOK DEF Base, TypeOK
  <2> QED BY <1>3, <1>4, <1>5, <2>1
<1>11. Base'
  <2>1. lock' \in [Sector -> Thread \cup {None}]
    BY <1>0, <1>3, <1>4 DEF Base, TypeOK
  <2>2. TypeOK'
    BY <1>0, <1>4, <1>7, <1>8, <1>10, <2>1, IndexOK DEF Base, TypeOK, ThreadRec, InodeRec
  <2> QED BY <1>9, <2>2 DEF Base
<1>12. ASSUME SoundInv PROVE SoundInv'
  <2>0. free_map' = free_map /\ ptr' = ptr /\ bytes' = bytes /\ expect' = expect /\ linked' = linked
        /\ leaked' = leaked
    BY <1>4
  <2>1. LinkInv' /\ InUse' = InUse
    BY <1>0, <1>2, <1>6, <1>7, <1>8, <1>11, <1>12, <2>0, LinkKept
  <2>2. inode[i].sector = m /\ \A j \in Struct : j # i => inode[j].sector # m
    <3>1. inode[i].sector = m /\ m # None
      BY <1>1, <1>2, <1>3, <1>12, Sizes DEF SoundInv, LockInv
    <3> QED BY <1>3, <1>12, <3>1 DEF SoundInv, LinkInv, Freed
  <2>3. LockInv'
    <3>1. LockMove(t)
      BY <1>1, <1>3, <1>4, <1>6 DEF LockMove
    <3>2. \A u \in Thread : u # t /\ Working(th[u]) /\ ~th[u].creating =>
             inode'[th[u].ino].sector = inode[th[u].ino].sector
      BY <1>0, <1>8, WorkingOnes
    <3> QED BY <1>0, <1>6, <1>7, <1>12, <3>1, <3>2, LockStep
  <2>4. TreeInv'
    BY <1>12, <2>0, <2>1 DEF SoundInv, TreeInv
  <2>5. \A n \in Sector : n # m => SameFile(n)
    BY <1>10, <2>0 DEF SameFile
  <2>6. GrowOK(t) /\ LengthOK(t) /\ WriterInv(t) /\ FileInv(m)
    BY <1>3, <1>12, <2>2 DEF SoundInv, GrowInv, LengthInv, DataInv
  <2>7. PICK old \in Nat : old = length[m] /\ old < e
    <3>1. length[m] \in Nat
      BY <1>3, <1>10, IndexOK
    <3> QED BY <1>1, <1>2, <1>3, <1>5, <2>6, <3>1 DEF LengthOK
  <2>8. ASSUME NEW u \in Thread PROVE GrowOK(u)' /\ LengthOK(u)' /\ WriterInv(u)'
    <3>0. GrowOK(u) /\ LengthOK(u) /\ WriterInv(u)
      BY <1>12 DEF SoundInv, GrowInv, LengthInv, DataInv
    <3>1. CASE u = t
      BY <1>6, <1>11, <3>1, NoWriter
    <3>2. CASE u # t /\ ~(Working(th[u]) /\ th[u].main = m)
      <4>1. Working(th[u]) => SameFile(th[u].main)
        BY <1>0, <2>5, <3>2, WorkingOnes
      <4> QED BY <1>0, <1>7, <3>0, <3>2, <4>1, WriterKept
    <3>3. CASE u # t /\ Working(th[u]) /\ th[u].main = m
      <4>1. ~th[u].creating /\ ~Grower(u)
        BY <1>0, <1>1, <1>3, <1>12, <3>3, Owners
      <4>2. th'[u] = th[u] /\ th[u].pc # "grow" /\ ~th[u].grown /\ ~Grower(u)'
        BY <1>7, <3>3, <4>1 DEF Grower
      <4>3. GrowOK(u)' /\ WriterInv(u)'
        BY <4>1, <4>2 DEF GrowOK, WriterInv
      <4>4. PICK a \in Nat, b \in Nat, c \in Nat, d \in Nat :
              /\ a = th[u].start /\ b = th[u].end /\ c = bytes_to_sectors(old) /\ d = bytes_to_sectors(e)
              /\ c <= d
        <5>1. th[u] \in ThreadRec
          BY <1>2
        <5>2. old \in Nat /\ e \in Nat /\ old <= e
          BY <1>5, <2>7
        <5>3. /\ bytes_to_sectors(old) \in Nat /\ bytes_to_sectors(e) \in Nat
              /\ bytes_to_sectors(old) <= bytes_to_sectors(e)
          BY <5>2, PosOK
        <5> QED BY <5>1, <5>3 DEF ThreadRec
      <4>5. /\ th[u].pc = "write" => a <= d
            /\ th[u].pc = "copy" => b <= e
        BY <1>5, <2>7, <3>0, <3>3, <4>1, <4>2, <4>4 DEF LengthOK
      <4>6. LengthOK(u)'
        BY <1>10, <3>3, <4>1, <4>2, <4>4, <4>5 DEF LengthOK
      <4> QED BY <4>3, <4>6
    <3> QED BY <3>1, <3>2, <3>3
  <2>9. GrowInv' /\ LengthInv'
    <3>1. GrowInv'
      BY <2>8 DEF GrowInv
    <3>2. ASSUME NEW j \in Struct, inode[j].sector # None
          PROVE  inode'[j].length = length'[inode'[j].sector]
      <4>1. CASE j = i
        BY <1>8, <1>10, <2>2, <4>1
      <4>2. CASE j # i
        <5>1. inode[j].sector \in Sector /\ inode[j].sector # m
          <6>1. inode[j] \in InodeRec
            BY <1>0, BaseFacts
          <6> QED BY <2>2, <3>2, <4>2, <6>1 DEF InodeRec
        <5>2. inode[j].length = length[inode[j].sector]
          BY <1>12, <3>2 DEF SoundInv, LengthInv, Freed
        <5> QED BY <1>8, <1>10, <4>2, <5>1, <5>2
      <4> QED BY <4>1, <4>2
    <3>3. LengthInv'
      BY <1>8, <2>8, <3>2 DEF LengthInv, Freed
    <3> QED BY <3>1, <3>3
  <2>10. FileInv(m)'
    <3>1. ASSUME NEW q \in Pos
          PROVE  /\ q < e => BackedIn(ptr, m, q) /\ Holds(ptr, bytes, m, q) = expect[m][q]
                 /\ q >= e /\ BackedIn(ptr, m, q) => Holds(ptr, bytes, m, q) = Zero
      <4>1. q \in Nat
        BY PosOK
      <4>2. q < old => BackedIn(ptr, m, q) /\ Holds(ptr, bytes, m, q) = expect[m][q]
        BY <2>6, <2>7 DEF FileInv
      <4>3. q >= old =>
              /\ q >= e => expect[m][q] = Zero
              /\ (q < e \/ q >= e) /\ BackedIn(ptr, m, q) =>
                   Holds(ptr, bytes, m, q) = expect[m][q]
        BY <1>1, <1>4, <1>5, <2>6, <2>7 DEF WriterInv
      <4>4. ASSUME q < e PROVE BackedIn(ptr, m, q)
        <5>1. PICK j \in Index : /\ j = q \div BLOCK_SECTOR_SIZE /\ j \in Nat
                                 /\ j < bytes_to_sectors(e) /\ bytes_to_sectors(e) \in Nat
          BY <4>4, SectorBefore
        <5>2. SectorAt(ptr, m, j) # None
          BY <1>1, <1>2, <1>5, <2>6, <5>1 DEF LengthOK
        <5> QED BY <5>1, <5>2 DEF BackedIn
      <4> QED BY <2>7, <4>1, <4>2, <4>3, <4>4
    <3> QED BY <1>10, <2>0, <3>1 DEF FileInv
  <2>11. DataInv'
    <3>1. ASSUME NEW n \in Sector, n \in linked' \/ \E j \in Struct : inode'[j].sector = n
          PROVE  FileInv(n)'
      <4>1. CASE n = m
        BY <2>10, <4>1
      <4>2. CASE n # m
        <5>1. FileInv(n)
          BY <1>8, <1>12, <2>0, <3>1 DEF SoundInv, DataInv
        <5>2. \A u \in Thread : th[u].grown /\ th[u].main = n => th'[u] = th[u]
          BY <1>1, <1>7, <4>2
        <5> QED BY <2>5, <4>2, <5>1, <5>2, FileKept
      <4> QED BY <4>1, <4>2
    <3> QED BY <1>12, <2>0, <2>8, <3>1 DEF SoundInv, DataInv
  <2> QED BY <2>1, <2>3, <2>4, <2>9, <2>11 DEF SoundInv
<1>13. Sound' => Sound
  BY <1>4 DEF Sound
<1> QED BY <1>11, <1>12, <1>13 DEF IInv

(* A write that does not make the file grow, or cannot, returns. *)
LEMMA ReturnStep ==
  ASSUME IInv, NEW t \in Thread, Working(th[t]), ~th[t].creating, ~th[t].grown, Return(t),
         UNCHANGED <<free_map, ptr, length, bytes, garbage, memory, linked, panic, history>>,
         unsaved' \subseteq Sector,
         \/ lock' = lock /\ ~Grower(t)
         \/ lock' = [lock EXCEPT ![th[t].main] = None] /\ Grower(t)
  PROVE  IInv' /\ (Sound' => Sound)
<1>0. Base
  BY DEF IInv
<1>1. /\ Moves(t) /\ ~Working(th'[t]) /\ ~th'[t].creating /\ ~th'[t].grown /\ ~Grower(t)'
      /\ th'[t].pc = "idle" /\ th'[t].ino = th[t].ino /\ th'[t].deny_write = th[t].deny_write
  BY <1>0, ReturnMoves
<1>2. th' \in [Thread -> ThreadRec] /\ \A u \in Thread : u # t => th'[u] = th[u]
  BY <1>1 DEF Moves
<1>3. KeepsStructs /\ inode' = inode /\ linked' = linked
  BY <1>0, MemoryKept
<1>4. ThreadInv' /\ Counts' /\ StructInv'
  <2>1. th[t].pc \in {"idle", "write", "grow", "copy"}
    BY DEF Working
  <2> QED BY <1>0, <1>1, <1>3, <2>1, MoveBase
<1>5. Base'
  <2>1. th[t].main \in Sector
    BY <1>0, WorkingOnes
  <2>2. lock' \in [Sector -> Thread \cup {None}]
    BY <1>0, <2>1 DEF Base, TypeOK
  <2>3. TypeOK'
    BY <1>0, <1>2, <1>3, <2>2 DEF Base, TypeOK, ThreadRec, memory, history
  <2> QED BY <1>4, <2>3 DEF Base
<1>6. ASSUME SoundInv PROVE SoundInv'
  <2>0. free_map' = free_map /\ ptr' = ptr /\ length' = length /\ bytes' = bytes /\ expect' = expect
        /\ leaked' = leaked
    BY DEF history
  <2>1. LinkInv' /\ InUse' = InUse
    BY <1>0, <1>1, <1>2, <1>3, <1>5, <1>6, LinkKept DEF Working
  <2>2. LockInv'
    <3>1. LockMove(t)
      BY <1>1 DEF LockMove
    <3> QED BY <1>0, <1>1, <1>2, <1>3, <1>6, <3>1, LockStep
  <2>3. TreeInv'
    BY <1>6, <2>0, <2>1 DEF SoundInv, TreeInv
  <2>4. \A n : SameFile(n)
    BY <2>0 DEF SameFile
  <2>5. ASSUME NEW u \in Thread PROVE GrowOK(u)' /\ LengthOK(u)' /\ WriterInv(u)'
    <3>1. CASE u # t
      <4>1. GrowOK(u) /\ LengthOK(u) /\ WriterInv(u)
        BY <1>6 DEF SoundInv, GrowInv, LengthInv, DataInv
      <4> QED BY <1>0, <1>2, <2>4, <3>1, <4>1, WriterKept
    <3>2. CASE u = t
      BY <1>1, <1>5, <3>2, NoWriter
    <3> QED BY <3>1, <3>2
  <2>6. GrowInv' /\ LengthInv'
    BY <1>3, <1>6, <2>0, <2>5 DEF SoundInv, GrowInv, LengthInv, Freed
  <2>7. DataInv'
    <3>1. \A u \in Thread : th[u].grown => th'[u] = th[u]
      BY <1>2
    <3>2. \A n : FileInv(n) => FileInv(n)'
      BY <2>4, <3>1, FileKept
    <3> QED BY <1>3, <1>6, <2>0, <2>5, <3>2 DEF SoundInv, DataInv
  <2> QED BY <2>1, <2>2, <2>3, <2>6, <2>7 DEF SoundInv
<1>7. Sound' => Sound
  BY DEF Sound, history
<1> QED BY <1>5, <1>6, <1>7 DEF IInv

(* One sector of a copy: its bytes are those of the positions it covers. *)
LEMMA ChunkOK ==
  ASSUME NEW o \in Nat, NEW e \in Nat, o < e, NEW n, n = ChunkEnd(o, e)
  PROVE  /\ n \in Nat /\ o < n /\ n <= e
         /\ \A q \in Nat : /\ o <= q /\ q < n => q \div BLOCK_SECTOR_SIZE = o \div BLOCK_SECTOR_SIZE
                           /\ q \div BLOCK_SECTOR_SIZE = o \div BLOCK_SECTOR_SIZE =>
                                (q % BLOCK_SECTOR_SIZE \in Chunk(o % BLOCK_SECTOR_SIZE, n - o) <=>
                                   o <= q /\ q < n)
<1> DEFINE B == BLOCK_SECTOR_SIZE
<1>1. B \in Nat \ {0}
  BY Sizes
<1> HIDE DEF B
<1>2. PICK d \in Nat, f \in Nat : /\ d = o \div B /\ f = o % B /\ f < B /\ o = d * B + f
  BY <1>1
<1>3. n = IF o + B - f < e THEN o + B - f ELSE e
  BY <1>2 DEF ChunkEnd, B
<1>4. n \in Nat /\ o < n /\ n <= e /\ n <= o + B - f
  BY <1>1, <1>2, <1>3
<1>5. ASSUME NEW q \in Nat
      PROVE  /\ o <= q /\ q < n => q \div B = d
             /\ q \div B = d => (q % B \in f..(f + (n - o) - 1) <=> o <= q /\ q < n)
  <2>1. PICK c \in Nat, g \in Nat : c = q \div B /\ g = q % B /\ g < B /\ q = c * B + g
    BY <1>1
  <2>2. c = d => (g \in f..(f + (n - o) - 1) <=> o <= q /\ q < n)
    BY <1>1, <1>2, <1>4, <2>1
  <2>3. ASSUME o <= q, q < n PROVE c = d
    <3>1. d * B <= c * B + g /\ c * B + g < d * B + B
      BY <1>1, <1>2, <1>4, <2>1, <2>3
    <3>2. ~(c < d)
      <4> SUFFICES ASSUME c + 1 <= d PROVE FALSE
        BY <2>1, <1>2
      <4>1. c * B + B <= d * B
        BY <1>1
      <4> QED BY <1>1, <2>1, <3>1, <4>1
    <3>3. ~(d < c)
      <4> SUFFICES ASSUME d + 1 <= c PROVE FALSE
        BY <2>1, <1>2
      <4>1. d * B + B <= c * B
        BY <1>1
      <4> QED BY <1>1, <2>1, <3>1, <4>1
    <3> QED BY <3>2, <3>3
  <2> QED BY <2>1, <2>2, <2>3
<1> QED BY <1>2, <1>4, <1>5 DEF B, Chunk

(* One sector of the copy reaches the positions it is meant for, and no    *)
(* other file.                                                             *)
LEMMA CopyStep ==
  ASSUME IInv, NEW t \in Thread, Copy(t), panic' = "no"
  PROVE  IInv' /\ (Sound' => Sound)
<1>0. Base
  BY DEF IInv
<1>1. PICK m, i : m = th[t].main /\ i = th[t].ino
  OBVIOUS
<1>2. /\ th \in [Thread -> ThreadRec] /\ th[t] \in ThreadRec /\ LocalsOK(th[t])
      /\ th[t].pc = "copy" /\ ~th[t].creating
  BY <1>0, BaseFacts DEF Copy, Running, LocalsOK
<1>3. Working(th[t]) /\ m \in Sector /\ i \in Struct /\ i \in open_inodes
  BY <1>0, <1>1, <1>2, WorkingOnes DEF Working
<1>4. PICK o \in Nat, e \in Nat : o = th[t].offset /\ e = th[t].end /\ e <= MaxLength
  BY <1>2 DEF LocalsOK, ThreadRec
<1>5. PICK s, next : s = get_inode_sector(m, o \div BLOCK_SECTOR_SIZE) /\ next = ChunkEnd(o, e)
  OBVIOUS
<1>6. /\ o < e /\ s # None
      /\ bytes' = [bytes EXCEPT ![s] =
            [b \in Byte |-> IF b \in Chunk(o % BLOCK_SECTOR_SIZE, next - o) THEN t ELSE @[b]]]
      /\ expect' = [expect EXCEPT ![m] =
            [p \in Pos |-> IF p >= o /\ p < next THEN t ELSE @[p]]]
      /\ th' = [th EXCEPT ![t].offset = next]
      /\ UNCHANGED <<free_map, ptr, length, unsaved, garbage, lock, memory, linked, panic, shared, leaked>>
  <2>1. "null handle" # "no"
    OBVIOUS
  <2> QED BY <1>1, <1>4, <1>5, <2>1 DEF Copy, Stop
<1>7. next \in Nat /\ o < next /\ next <= e
  BY <1>5, <1>6, ChunkOK
<1> DEFINE r == [th[t] EXCEPT !.offset = next]
<1>8. r \in ThreadRec /\ th' = [th EXCEPT ![t] = r]
  BY <1>2, <1>6, <1>7 DEF ThreadRec
<1>9. /\ r.pc = "copy" /\ r.grown = th[t].grown /\ r.main = m /\ r.ino = i
      /\ r.deny_write = th[t].deny_write /\ ~r.creating /\ r.offset = next /\ r.end = e
  BY <1>1, <1>2, <1>4 DEF ThreadRec
<1> HIDE DEF r
<1>10. LocalsOK(r)
  <2>1. m # None /\ i # None
    BY <1>3, Sizes
  <2> QED BY <1>2, <1>4, <1>7, <1>9, <2>1 DEF LocalsOK
<1>11. th'[t] = r /\ Moves(t)
  BY <1>2, <1>8, <1>10 DEF Moves
<1>12. th' \in [Thread -> ThreadRec] /\ \A u \in Thread : u # t => th'[u] = th[u]
  BY <1>11 DEF Moves
<1>13. KeepsStructs /\ inode' = inode /\ linked' = linked
  BY <1>0, <1>6, MemoryKept
<1>14. ThreadInv' /\ Counts' /\ StructInv'
  BY <1>0, <1>1, <1>2, <1>9, <1>11, <1>13, MoveBase
<1>15. o \in Pos /\ o \div BLOCK_SECTOR_SIZE \in Index
  <2>1. o \in Pos
    BY <1>4, <1>6, IndexOK
  <2> QED BY <2>1, PosOK
<1>16. ptr \in Pointers /\ s \in Sector /\ s = SectorAt(ptr, m, o \div BLOCK_SECTOR_SIZE)
  <2>1. ptr \in Pointers
    BY <1>0 DEF Base, TypeOK, Pointers
  <2>2. s = SectorAt(ptr, m, o \div BLOCK_SECTOR_SIZE)
    BY <1>5, WayIs DEF get_inode_sector, SectorAt
  <2>3. REDIRECTION_LEVEL \in Level
    BY Sizes DEF Level
  <2>4. s \in Sector \cup {None}
    BY <1>3, <1>15, <2>1, <2>2, <2>3, WayOK DEF SectorAt
  <2> QED BY <1>6, <2>1, <2>2, <2>4
<1>17. /\ bytes \in [Sector -> [Byte -> Thread \cup {Zero}]]
       /\ bytes' \in [Sector -> [Byte -> Thread \cup {Zero}]]
       /\ \A x \in Sector, b \in Byte :
            bytes'[x][b] = IF x = s /\ b \in Chunk(o % BLOCK_SECTOR_SIZE, next - o) THEN t
                           ELSE bytes[x][b]
  <2> DEFINE f == [b \in Byte |-> IF b \in Chunk(o % BLOCK_SECTOR_SIZE, next - o) THEN t
                                  ELSE bytes[s][b]]
  <2>1. bytes \in [Sector -> [Byte -> Thread \cup {Zero}]]
    BY <1>0 DEF Base, TypeOK
  <2>2. bytes' = [bytes EXCEPT ![s] = f]
    BY <1>6
  <2>3. f \in [Byte -> Thread \cup {Zero}]
    BY <1>16, <2>1
  <2>4. \A b \in Byte : f[b] = IF b \in Chunk(o % BLOCK_SECTOR_SIZE, next - o) THEN t
                               ELSE bytes[s][b]
    OBVIOUS
  <2> HIDE DEF f
  <2> QED BY <1>16, <2>1, <2>2, <2>3, <2>4
<1>18. Base'
  <2>1. TypeOK'
    BY <1>0, <1>6, <1>12, <1>13, <1>17 DEF Base, TypeOK, ThreadRec, memory
  <2> QED BY <1>14, <2>1 DEF Base
<1>19. ASSUME SoundInv PROVE SoundInv'
  <2>0. free_map' = free_map /\ ptr' = ptr /\ length' = length /\ lock' = lock /\ leaked' = leaked
    BY <1>6
  <2>1. LinkInv' /\ InUse' = InUse
    <3>1. ~th'[t].creating
      BY <1>9, <1>11
    <3> QED BY <1>0, <1>2, <1>12, <1>13, <1>18, <1>19, <3>1, LinkKept
  <2>2. inode[i].sector = m
    BY <1>1, <1>2, <1>19 DEF SoundInv, LockInv
  <2>3. LockInv'
    <3>1. (Grower(t)' <=> Grower(t)) /\ th'[t].main = th[t].main
      BY <1>1, <1>2, <1>9, <1>11 DEF Grower
    <3>2. LockMove(t)
      BY <2>0, <3>1 DEF LockMove
    <3>3. th'[t].main = inode'[th'[t].ino].sector
      BY <1>9, <1>11, <1>13, <2>2
    <3> QED BY <1>0, <1>12, <1>13, <1>19, <3>2, <3>3, LockStep
  <2>4. TreeInv'
    BY <1>19, <2>0, <2>1 DEF SoundInv, TreeInv
  <2>5. /\ expect' \in [Sector -> [Pos -> Thread \cup {Zero}]]
        /\ \A n \in Sector : n # m => expect'[n] = expect[n]
        /\ \A q \in Pos : expect'[m][q] = IF o <= q /\ q < next THEN t ELSE expect[m][q]
    <3> DEFINE f == [p \in Pos |-> IF p >= o /\ p < next THEN t ELSE expect[m][p]]
    <3>1. expect \in [Sector -> [Pos -> Thread \cup {Zero}]]
      BY <1>19 DEF SoundInv, DataInv
    <3>2. expect' = [expect EXCEPT ![m] = f]
      BY <1>6
    <3>3. f \in [Pos -> Thread \cup {Zero}]
      BY <1>3, <3>1
    <3>4. \A q \in Pos : f[q] = IF o <= q /\ q < next THEN t ELSE expect[m][q]
      BY <1>7, PosOK
    <3> HIDE DEF f
    <3> QED BY <1>3, <3>1, <3>2, <3>3, <3>4
  <2>6. InUse \in SUBSET Sector /\ m \in InUse
    BY <1>0, <1>1, <1>3, <1>19, InUseAllocated, Owners
  <2>7. ASSUME NEW n \in InUse, NEW q \in Pos, BackedIn(ptr, n, q)
        PROVE  Holds(ptr, bytes', n, q) = IF n = m /\ o <= q /\ q < next THEN t
                                          ELSE Holds(ptr, bytes, n, q)
    <3>1. PICK j \in Index, b \in Byte : j = q \div BLOCK_SECTOR_SIZE /\ b = q % BLOCK_SECTOR_SIZE
      BY PosOK
    <3>2. PICK k \in Index : k = o \div BLOCK_SECTOR_SIZE
      BY <1>15
    <3>3. PICK x : x = SectorAt(ptr, n, j)
      OBVIOUS
    <3>4. x \in Sector /\ REDIRECTION_LEVEL \in Level
      <4>1. REDIRECTION_LEVEL \in Level
        BY Sizes DEF Level
      <4>2. x \in Sector \cup {None}
        <5>1. n \in Sector \cup {None}
          BY <2>6
        <5>2. WayIn(ptr, n, j) \in [Level -> Sector \cup {None}]
          BY <1>16, <5>1, WayOK
        <5> QED BY <3>3, <4>1, <5>2 DEF SectorAt
      <4> QED BY <2>7, <3>1, <3>3, <4>1, <4>2 DEF BackedIn
    <3>5. Holds(ptr, bytes', n, q) = bytes'[x][b] /\ Holds(ptr, bytes, n, q) = bytes[x][b]
      BY <3>1, <3>3 DEF Holds
    <3>6. /\ o <= q /\ q < next => j = k
          /\ j = k => (b \in Chunk(o % BLOCK_SECTOR_SIZE, next - o) <=> o <= q /\ q < next)
      <4>1. q \in Nat
        BY PosOK
      <4> QED BY <1>5, <1>6, <3>1, <3>2, <4>1, ChunkOK
    <3>7. x = s => n = m /\ j = k
      <4>1. TreeIn(ptr, InUse)
        BY <1>19 DEF SoundInv, TreeInv
      <4>2. Place(j, REDIRECTION_LEVEL) = j /\ Place(k, REDIRECTION_LEVEL) = k
        BY PlaceOK
      <4>3. s = WayIn(ptr, m, k)[REDIRECTION_LEVEL] /\ x = WayIn(ptr, n, j)[REDIRECTION_LEVEL]
        BY <1>16, <3>2, <3>3 DEF SectorAt
      <4>4. WayIn(ptr, m, k)[REDIRECTION_LEVEL] = WayIn(ptr, n, j)[REDIRECTION_LEVEL]
              /\ WayIn(ptr, m, k)[REDIRECTION_LEVEL] # None =>
                m = n /\ Place(k, REDIRECTION_LEVEL) = Place(j, REDIRECTION_LEVEL)
        <5>1. \A a, f \in InUse : \A c, d \in Index : \A l \in Level :
                WayIn(ptr, a, c)[l] = WayIn(ptr, f, d)[l] /\ WayIn(ptr, a, c)[l] # None =>
                  a = f /\ Place(c, l) = Place(d, l)
          BY <4>1 DEF TreeIn
        <5> QED BY <2>6, <2>7, <3>1, <3>2, <3>4, <5>1
      <4> QED BY <1>6, <4>2, <4>3, <4>4
    <3>8. n = m /\ j = k => x = s
      BY <1>16, <3>2, <3>3
    <3> QED BY <1>17, <3>4, <3>5, <3>6, <3>7, <3>8
  <2>8. \A n \in InUse : n # m => SameFile(n)
    BY <2>0, <2>5, <2>6, <2>7 DEF SameFile
  <2>9. PICK k \in Nat : k = length[m]
    BY <1>0, <1>3, IndexOK DEF Base, TypeOK
  <2>10. ~Grower(t) => e <= k
    <3>1. LengthOK(t)
      BY <1>19 DEF SoundInv, LengthInv
    <3> QED BY <1>1, <1>2, <1>4, <2>9, <3>1 DEF LengthOK, Grower
  <2>11. \A q \in Pos : q \in Nat /\ (~Grower(t) /\ q >= k => ~(o <= q /\ q < next))
    BY <1>4, <1>7, <2>9, <2>10, PosOK
  <2>12. ASSUME NEW u \in Thread PROVE GrowOK(u)' /\ LengthOK(u)' /\ WriterInv(u)'
    <3>0. GrowOK(u) /\ LengthOK(u) /\ WriterInv(u)
      BY <1>19 DEF SoundInv, GrowInv, LengthInv, DataInv
    <3>1. CASE u # t /\ ~(Working(th[u]) /\ th[u].main = m)
      <4>1. Working(th[u]) => SameFile(th[u].main)
        BY <1>0, <1>19, <2>8, <3>1, Owners
      <4> QED BY <1>0, <1>12, <3>0, <3>1, <4>1, WriterKept
    <3>2. CASE u # t /\ Working(th[u]) /\ th[u].main = m
      <4>1. ~th[u].creating /\ ~(Grower(t) /\ Grower(u))
        BY <1>0, <1>1, <1>3, <1>19, <3>2, Owners
      <4>2. th'[u] = th[u]
        BY <1>12, <3>2
      <4>3. GrowOK(u)' /\ LengthOK(u)'
        BY <2>0, <3>0, <4>2 DEF GrowOK, LengthOK, Grower
      <4>4. CASE ~Grower(u)
        BY <4>1, <4>2, <4>3, <4>4 DEF WriterInv, Grower
      <4>5. CASE Grower(u)
        <5>1. \A q \in Pos : q >= k =>
                /\ expect'[m][q] = expect[m][q]
                /\ BackedIn(ptr, m, q) => Holds(ptr, bytes', m, q) = Holds(ptr, bytes, m, q)
          BY <2>5, <2>6, <2>7, <2>11, <4>1, <4>5
        <5>2. WriterInv(u)'
          BY <2>0, <2>9, <3>0, <3>2, <4>1, <4>2, <5>1 DEF WriterInv
        <5> QED BY <4>3, <5>2
      <4> QED BY <4>4, <4>5
    <3>3. CASE u = t
      <4>1. GrowOK(t)' /\ LengthOK(t)'
        BY <1>1, <1>2, <1>4, <1>9, <1>11, <2>0, <3>0, <3>3 DEF GrowOK, LengthOK, Grower
      <4>2. WriterInv(t)'
        <5> SUFFICES ASSUME NEW q \in Pos, th[t].grown, q >= k
                     PROVE  /\ q >= e => expect'[m][q] = Zero
                            /\ (q < next \/ q >= e) /\ BackedIn(ptr, m, q) =>
                                 Holds(ptr, bytes', m, q) = expect'[m][q]
          BY <1>9, <1>11, <2>0, <2>9 DEF WriterInv
        <5>1. /\ q >= e => expect[m][q] = Zero
              /\ (q < o \/ q >= e) /\ BackedIn(ptr, m, q) => Holds(ptr, bytes, m, q) = expect[m][q]
          BY <1>1, <1>4, <2>9, <3>0, <3>3 DEF WriterInv
        <5>2. q \in Nat
          BY PosOK
        <5> QED BY <1>7, <2>5, <2>6, <2>7, <5>1, <5>2
      <4> QED BY <3>3, <4>1, <4>2
    <3> QED BY <3>1, <3>2, <3>3
  <2>13. GrowInv' /\ LengthInv'
    BY <1>13, <1>19, <2>0, <2>12 DEF SoundInv, GrowInv, LengthInv, Freed
  <2>14. DataInv'
    <3>1. \A u \in Thread : (th[u].grown <=> th'[u].grown) /\ (th[u].grown => th'[u].main = th[u].main)
      BY <1>1, <1>9, <1>11, <1>12
    <3>2. \A n \in InUse : n # m => (FileInv(n) => FileInv(n)')
      BY <2>8, <3>1, FileKept
    <3>3. FileInv(m) => FileInv(m)'
      <4> SUFFICES ASSUME FileInv(m), NEW q \in Pos
                   PROVE  /\ q < k => BackedIn(ptr, m, q) /\ Holds(ptr, bytes', m, q) = expect'[m][q]
                          /\ q >= k /\ BackedIn(ptr, m, q)
                               /\ (\A u \in Thread : th[u].grown => th[u].main # m)
                               => Holds(ptr, bytes', m, q) = Zero
        BY <2>0, <2>9, <3>1 DEF FileInv
      <4>1. /\ q < k => BackedIn(ptr, m, q) /\ Holds(ptr, bytes, m, q) = expect[m][q]
            /\ q >= k /\ BackedIn(ptr, m, q) /\ (\A u \in Thread : th[u].grown => th[u].main # m)
                 => Holds(ptr, bytes, m, q) = Zero
        BY <2>9 DEF FileInv
      <4>2. (\A u \in Thread : th[u].grown => th[u].main # m) => ~Grower(t)
        BY <1>1, <1>2 DEF Grower
      <4> QED BY <2>5, <2>6, <2>7, <2>11, <4>1, <4>2
    <3>4. \A n \in Sector : n \in linked \/ (\E j \in Struct : inode[j].sector = n) => n \in InUse
      BY <1>0, <1>18, InUseIs DEF Used
    <3> QED BY <1>13, <1>19, <2>5, <2>12, <3>2, <3>3, <3>4 DEF SoundInv, DataInv
  <2> QED BY <2>1, <2>3, <2>4, <2>13, <2>14 DEF SoundInv
<1>20. Sound' => Sound
  BY <1>6 DEF Sound
<1> QED BY <1>18, <1>19, <1>20 DEF IInv

(* A file gets a sector with zeros at most, and keeps those it has. *)
GrowsFile(m) ==
  /\ \A j \in Index : SectorAt(ptr, m, j) # None => SectorAt(ptr', m, j) = SectorAt(ptr, m, j)
  /\ \A q \in Pos :
       /\ BackedIn(ptr, m, q) => BackedIn(ptr', m, q) /\ Holds(ptr', bytes', m, q) = Holds(ptr, bytes, m, q)
       /\ ~BackedIn(ptr, m, q) /\ BackedIn(ptr', m, q) => Holds(ptr', bytes', m, q) = Zero

(* A step of growth disturbs nobody: the file it is about is locked. *)
LEMMA GrowthSound ==
  ASSUME Base, Base', SoundInv, NEW t \in Thread, th[t].pc = "grow",
         \A u \in Thread : u # t => th'[u] = th[u],
         /\ th'[t].pc = th[t].pc /\ th'[t].main = th[t].main /\ th'[t].ino = th[t].ino
         /\ th'[t].creating = th[t].creating /\ th'[t].grown = th[t].grown
         /\ th'[t].offset = th[t].offset /\ th'[t].end = th[t].end,
         UNCHANGED <<length, lock, linked, expect, inode, leaked>>,
         GrowsFile(th[t].main), \A n \in InUse : n # th[t].main => SameFile(n),
         TreeIn(ptr', InUse), GrowOK(t)',
         free_map' = ReachIn(ptr', InUse) \cup leaked, ReachIn(ptr', InUse) \cap leaked = {}
  PROVE  SoundInv'
<1>0. PICK m : m = th[t].main
  OBVIOUS
<1>1. /\ Working(th[t]) /\ Grower(t) /\ ~th[t].grown /\ m \in Sector /\ m \in InUse
      /\ (Grower(t)' <=> Grower(t))
  <2>1. Working(th[t]) /\ Grower(t) /\ Grower(t)'
    BY DEF Working, Grower
  <2>2. ~th[t].grown
    BY BaseFacts DEF LocalsOK
  <2> QED BY <1>0, <2>1, <2>2, Owners
<1>2. LinkInv' /\ InUse' = InUse
  BY LinkKept
<1>3. LockInv'
  <2>1. LockMove(t)
    BY <1>1 DEF LockMove
  <2>2. ~th[t].creating => th[t].main = inode[th[t].ino].sector
    BY DEF SoundInv, LockInv
  <2> QED BY <2>1, <2>2, LockStep
<1>4. TreeInv'
  BY <1>2 DEF TreeInv
<1>5. ASSUME NEW u \in Thread PROVE GrowOK(u)' /\ LengthOK(u)' /\ WriterInv(u)'
  <2>0. GrowOK(u) /\ LengthOK(u) /\ WriterInv(u)
    BY DEF SoundInv, GrowInv, LengthInv, DataInv
  <2>1. CASE u # t /\ ~(Working(th[u]) /\ th[u].main = m)
    <3>1. Working(th[u]) => SameFile(th[u].main)
      BY <1>0, <2>1, Owners
    <3> QED BY <2>0, <2>1, <3>1, WriterKept
  <2>2. CASE u # t /\ Working(th[u]) /\ th[u].main = m
    <3>1. ~th[u].creating /\ ~Grower(u)
      BY <1>0, <1>1, <2>2, Owners
    <3>2. th'[u] = th[u] /\ th[u].pc # "grow" /\ ~th[u].grown /\ ~Grower(u)'
      BY <2>2, <3>1 DEF Grower
    <3>3. GrowOK(u)' /\ WriterInv(u)'
      BY <3>1, <3>2 DEF GrowOK, WriterInv
    <3>4. LengthOK(u)'
      BY <2>0, <3>2 DEF LengthOK
    <3> QED BY <3>3, <3>4
  <2>3. CASE u = t
    <3>1. LengthOK(t)'
      BY <1>1, <2>0, <2>3 DEF LengthOK
    <3>2. WriterInv(t)'
      BY <1>1, <2>0, <2>3 DEF WriterInv, GrowsFile
    <3> QED BY <2>3, <3>1, <3>2
  <2> QED BY <2>1, <2>2, <2>3
<1>6. GrowInv' /\ LengthInv'
  BY <1>5 DEF SoundInv, GrowInv, LengthInv, Freed
<1>7. DataInv'
  <2>1. \A u \in Thread : (th[u].grown <=> th'[u].grown) /\ (th[u].grown => th'[u].main = th[u].main)
    OBVIOUS
  <2>2. \A n \in InUse : n # m => (FileInv(n) => FileInv(n)')
    BY <1>0, <2>1, FileKept
  <2>3. FileInv(m) => FileInv(m)'
    BY <1>0, <2>1 DEF FileInv, GrowsFile
  <2>4. \A n \in Sector : n \in linked \/ (\E j \in Struct : inode[j].sector = n) => n \in InUse
    BY InUseIs DEF Used
  <2> QED BY <1>5, <2>2, <2>3, <2>4 DEF SoundInv, DataInv
<1> QED BY <1>2, <1>3, <1>4, <1>6, <1>7 DEF SoundInv

(* A new sector has one place in the file that gets it, and zeros. *)
LEMMA NewSector ==
  ASSUME Base, SoundInv, NEW m \in InUse, NEW i \in Index, NEW l \in 1..REDIRECTION_LEVEL,
         NEW x \in Sector, x = WayIn(ptr, m, i)[l - 1], ptr[x][get_redirection_ids(i)[l]] = None,
         NEW c \in Sector, c \notin free_map, ptr' \in Pointers,
         Enters(ptr, ptr', x, get_redirection_ids(i)[l], c),
         UNCHANGED <<length, expect>>,
         \A y \in Sector : y # c => bytes'[y] = bytes[y],
         l = REDIRECTION_LEVEL => bytes'[c] = [b \in Byte |-> Zero]
  PROVE  /\ TreeIn(ptr', InUse) /\ ReachIn(ptr', InUse) = ReachIn(ptr, InUse) \cup {c}
         /\ c \notin leaked
         /\ GrowsFile(m) /\ \A n \in InUse : n # m => SameFile(n)
         /\ WayIn(ptr', m, i)[l] = c
<1>1. InUse \in SUBSET Sector /\ ptr \in Pointers
  BY InUseAllocated
<1>2a. TreeIn(ptr, InUse) /\ free_map = ReachIn(ptr, InUse) \cup leaked
  BY DEF SoundInv, TreeInv
<1>2. TreeIn(ptr, InUse) /\ c \notin ReachIn(ptr, InUse) /\ c \notin leaked
  BY <1>2a
<1>3. PICK p, q, used : p = ptr /\ q = ptr' /\ used = InUse
  OBVIOUS
<1>4. /\ AddsNode(p, q, used, m, i, l, c)
      /\ \A j \in Index : Place(j, l) = Place(i, l) => WayIn(p, m, j)[l] = None
  BY <1>1, <1>2, <1>3, NodeAdded
<1>5. TreeIn(q, used) /\ ReachIn(q, used) = ReachIn(p, used) \cup {c}
  BY <1>1, <1>2, <1>3, <1>4, TreeGrown
<1>6. \A n \in used, j \in Index, k \in Level :
        /\ WayIn(q, n, j)[k] = IF n = m /\ k = l /\ Place(j, l) = Place(i, l) THEN c
                               ELSE WayIn(p, n, j)[k]
        /\ WayIn(p, n, j)[k] # c
  <2>1. \A n \in used, j \in Index, k \in Level : WayIn(p, n, j)[k] # c
    <3>1. c # None
      BY Sizes
    <3> QED BY <1>2, <1>3, <3>1 DEF ReachIn
  <2> QED BY <1>4, <2>1 DEF AddsNode
<1>7. REDIRECTION_LEVEL \in Level /\ l \in Level /\ c # None
  BY Sizes DEF Level
<1>8. WayIn(q, m, i)[l] = c
  BY <1>3, <1>6, <1>7
<1>9. \A n \in used, j \in Index :
        /\ SectorAt(p, n, j) \in Sector \cup {None} /\ SectorAt(p, n, j) # c
        /\ SectorAt(q, n, j) = IF n = m /\ l = REDIRECTION_LEVEL /\ Place(j, l) = Place(i, l) THEN c
                               ELSE SectorAt(p, n, j)
        /\ n = m /\ l = REDIRECTION_LEVEL /\ Place(j, l) = Place(i, l) => SectorAt(p, n, j) = None
  <2> SUFFICES ASSUME NEW n \in used, NEW j \in Index
               PROVE  /\ SectorAt(p, n, j) \in Sector \cup {None} /\ SectorAt(p, n, j) # c
                      /\ SectorAt(q, n, j) = IF n = m /\ l = REDIRECTION_LEVEL /\ Place(j, l) = Place(i, l)
                                             THEN c ELSE SectorAt(p, n, j)
                      /\ n = m /\ l = REDIRECTION_LEVEL /\ Place(j, l) = Place(i, l) =>
                           SectorAt(p, n, j) = None
    OBVIOUS
  <2>1. n \in Sector \cup {None} /\ p \in Pointers
    BY <1>1, <1>3
  <2>2. WayIn(p, n, j) \in [Level -> Sector \cup {None}]
    BY <2>1, WayOK
  <2> QED BY <1>4, <1>6, <1>7, <2>2 DEF SectorAt
<1>10. \A n \in used, r \in Pos :
         LET j == r \div BLOCK_SECTOR_SIZE IN
           /\ j \in Index
           /\ BackedIn(p, n, r) => /\ SectorAt(q, n, j) = SectorAt(p, n, j) /\ BackedIn(q, n, r)
                                   /\ Holds(q, bytes', n, r) = Holds(p, bytes, n, r)
           /\ ~BackedIn(p, n, r) /\ BackedIn(q, n, r) => n = m /\ Holds(q, bytes', n, r) = Zero
  <2> SUFFICES ASSUME NEW n \in used, NEW r \in Pos, NEW j \in Index, NEW b \in Byte,
                      j = r \div BLOCK_SECTOR_SIZE, b = r % BLOCK_SECTOR_SIZE
               PROVE  /\ BackedIn(p, n, r) => /\ SectorAt(q, n, j) = SectorAt(p, n, j) /\ BackedIn(q, n, r)
                                              /\ Holds(q, bytes', n, r) = Holds(p, bytes, n, r)
                      /\ ~BackedIn(p, n, r) /\ BackedIn(q, n, r) =>
                           n = m /\ Holds(q, bytes', n, r) = Zero
    BY PosOK
  <2>1. PICK y, z : y = SectorAt(p, n, j) /\ z = SectorAt(q, n, j)
    OBVIOUS
  <2>2. /\ BackedIn(p, n, r) <=> y # None
        /\ BackedIn(q, n, r) <=> z # None
        /\ Holds(p, bytes, n, r) = bytes[y][b] /\ Holds(q, bytes', n, r) = bytes'[z][b]
    BY <2>1 DEF BackedIn, Holds
  <2>3. y \in Sector \cup {None} /\ y # c /\ (z = y \/ (z = c /\ y = None /\ n = m /\ l = REDIRECTION_LEVEL))
    BY <1>9, <2>1
  <2>4. l = REDIRECTION_LEVEL => bytes'[c][b] = Zero
    OBVIOUS
  <2> QED BY <2>1, <2>2, <2>3, <2>4
<1>11. GrowsFile(m)
  <2>1. \A j \in Index : SectorAt(p, m, j) # None => SectorAt(q, m, j) = SectorAt(p, m, j)
    BY <1>3, <1>9
  <2> QED BY <1>3, <1>10, <2>1 DEF GrowsFile
<1>12. ASSUME NEW n \in InUse, n # m PROVE SameFile(n)
  <2>1. ASSUME NEW j \in Index PROVE WayIn(q, n, j) = WayIn(p, n, j)
    <3>1. n \in Sector \cup {None} /\ p \in Pointers /\ q \in Pointers
      BY <1>1, <1>3
    <3>2. WayIn(p, n, j) \in [Level -> Sector \cup {None}] /\ WayIn(q, n, j) \in [Level -> Sector \cup {None}]
      BY <3>1, WayOK
    <3>3. \A k \in Level : WayIn(q, n, j)[k] = WayIn(p, n, j)[k]
      BY <1>3, <1>6, <1>12
    <3> QED BY <3>2, <3>3
  <2> QED BY <1>3, <1>10, <2>1 DEF SameFile
<1> QED BY <1>2, <1>3, <1>5, <1>8, <1>11, <1>12

(* One level of the allocation of a sector, if the kernel goes on. *)
Follows(t, m, l, x, e, new, c) ==
  /\ Running(t, "grow") /\ th[t].idx < bytes_to_sectors(th[t].end)
  /\ m = th[t].main /\ l = th[t].level /\ x = th[t].cur
  /\ e = get_redirection_ids(th[t].idx)[l] /\ new = (ptr[x][e] = None)
  /\ new => free_map # Sector
  /\ c = IF new THEN Least(Sector \ free_map) ELSE ptr[x][e]
  /\ free_map' = free_map \cup {c}
  /\ ptr' = [ptr EXCEPT ![x][e] = c, ![c] = IF new THEN Empty ELSE @]
  /\ unsaved' = IF new THEN unsaved \ {x} ELSE unsaved
  /\ bytes' = IF new /\ l = REDIRECTION_LEVEL
                THEN [bytes EXCEPT ![c] = [b \in Byte |-> Zero]] ELSE bytes
  /\ th' = IF l < REDIRECTION_LEVEL
             THEN [th EXCEPT ![t].level = l + 1, ![t].cur = c, ![t].fresh = new]
             ELSE Allocate(t, m, th[t].idx + 1)
  /\ UNCHANGED <<length, garbage, lock, memory, linked, panic, history>>
LEMMA LevelStep ==
  ASSUME IInv, NEW t \in Thread, NEW m, NEW l, NEW x, NEW e, NEW new \in BOOLEAN, NEW c,
         Follows(t, m, l, x, e, new, c)
  PROVE  IInv' /\ (Sound' => Sound)
<1>0. Base
  BY DEF IInv
<1>1. /\ th \in [Thread -> ThreadRec] /\ th[t] \in ThreadRec /\ LocalsOK(th[t])
      /\ th[t].pc = "grow" /\ m = th[t].main /\ l = th[t].level /\ x = th[t].cur
      /\ e = get_redirection_ids(th[t].idx)[l] /\ (new <=> ptr[x][e] = None)
      /\ c = IF new THEN Least(Sector \ free_map) ELSE ptr[x][e]
      /\ free_map' = free_map \cup {c}
      /\ UNCHANGED <<length, garbage, lock, memory, linked, panic, expect, shared, leaked>>
  BY <1>0, BaseFacts DEF Follows, Running, history
<1>2. /\ Working(th[t]) /\ m \in Sector /\ Grower(t) /\ x \in Sector /\ l \in 1..REDIRECTION_LEVEL
      /\ ~th[t].creating => th[t].ino # None
  <2>1. Working(th[t]) /\ Grower(t)
    BY <1>1 DEF Working, Grower
  <2> QED BY <1>0, <1>1, <2>1, WorkingOnes DEF LocalsOK, ThreadRec
<1>3. PICK i \in Index : i = th[t].idx /\ i \in Nat
  <2>1. th[t].end \in 0..MaxLength /\ th[t].idx \in Nat
    <3>1. th[t].end \in Nat /\ th[t].idx \in Nat
      BY <1>1 DEF ThreadRec
    <3>2. th[t].end <= MaxLength
      BY <1>1 DEF LocalsOK
    <3> QED BY <3>1, <3>2, IndexOK
  <2>2. th[t].idx < bytes_to_sectors(th[t].end)
    BY DEF Follows
  <2> QED BY <2>1, <2>2, PosOK
<1>4. e \in Entry /\ ptr \in Pointers
  BY <1>0, <1>1, <1>2, <1>3, PlaceOK DEF Base, TypeOK, Pointers
<1>5. c \in Sector /\ (new => c \notin free_map)
  <2>1. CASE new
    <3>1. Sector \ free_map \in SUBSET Nat /\ Sector \ free_map # {}
      BY <1>0, <2>1, Sizes DEF Base, TypeOK, Follows
    <3>2. Least(Sector \ free_map) \in Sector \ free_map
      BY <3>1, LeastOf
    <3>3. c = Least(Sector \ free_map)
      BY <1>1, <2>1
    <3> QED BY <3>2, <3>3
  <2>2. CASE ~new
    <3>1. ptr[x][e] # None /\ c = ptr[x][e]
      BY <1>1, <2>2
    <3>2. ptr[x][e] \in Sector \cup {None}
      BY <1>2, <1>4 DEF Pointers
    <3> QED BY <2>2, <3>1, <3>2
  <2> QED BY <2>1, <2>2
<1>6. /\ ptr' \in Pointers
      /\ ~new => ptr' = ptr
      /\ new /\ x # c => Enters(ptr, ptr', x, e, c)
  <2>1. PICK f : f = [ptr[x] EXCEPT ![e] = c]
    OBVIOUS
  <2>2. /\ f \in [Entry -> Sector \cup {None}] /\ f[e] = c /\ \A g \in Entry : g # e => f[g] = ptr[x][g]
        /\ ~new => f = ptr[x]
    <3>1. ptr[x] \in [Entry -> Sector \cup {None}]
      BY <1>2, <1>4 DEF Pointers
    <3> QED BY <1>1, <1>4, <1>5, <2>1, <3>1
  <2>3. PICK h : h = [ptr EXCEPT ![x] = f]
    OBVIOUS
  <2>4. h \in Pointers /\ h[x] = f /\ \A y \in Sector : y # x => h[y] = ptr[y]
    BY <1>2, <1>4, <2>2, <2>3 DEF Pointers
  <2>5. Empty \in [Entry -> Sector \cup {None}]
    BY DEF Empty
  <2>6. ptr' = [ptr EXCEPT ![x][e] = c, ![c] = IF new THEN Empty ELSE @]
    BY DEF Follows
  <2>7. /\ ptr' \in Pointers /\ (new => ptr'[c] = Empty) /\ (~new => ptr'[c] = h[c])
        /\ \A y \in Sector : y # c => ptr'[y] = h[y]
    <3>1. CASE new
      <4>1. ptr' = [h EXCEPT ![c] = Empty]
        BY <2>1, <2>3, <2>6, <3>1
      <4> QED BY <1>5, <2>4, <2>5, <3>1, <4>1 DEF Pointers
    <3>2. CASE ~new
      <4>1. h = ptr
        BY <1>4, <2>2, <2>4, <3>2 DEF Pointers
      <4>2. ptr' = [h EXCEPT ![c] = h[c]]
        BY <2>1, <2>3, <2>6, <3>2, <4>1
      <4> QED BY <1>5, <2>4, <3>2, <4>2 DEF Pointers
    <3> QED BY <3>1, <3>2
  <2>8. ~new => ptr' = ptr
    <3>1. ~new => \A y \in Sector : ptr'[y] = ptr[y]
      BY <2>2, <2>4, <2>7
    <3> QED BY <1>4, <2>7, <3>1 DEF Pointers
  <2>9. new /\ x # c => Enters(ptr, ptr', x, e, c)
    BY <1>2, <2>2, <2>4, <2>7 DEF Enters
  <2> QED BY <2>7, <2>8, <2>9
<1>7. PICK r \in ThreadRec :
        /\ th' = [th EXCEPT ![t] = r] /\ LocalsOK(r) /\ r.ino = th[t].ino /\ r.pc = "grow"
        /\ r.deny_write = th[t].deny_write /\ r.creating = th[t].creating /\ r.grown = th[t].grown
        /\ r.main = m /\ r.offset = th[t].offset /\ r.end = th[t].end
        /\ l < REDIRECTION_LEVEL => r.level = l + 1 /\ r.cur = c /\ r.idx = i
        /\ ~(l < REDIRECTION_LEVEL) => r.level = 1 /\ r.cur = m /\ r.idx = i + 1
  <2>0. m # None /\ c # None
    BY <1>2, <1>5, Sizes
  <2>1. CASE l < REDIRECTION_LEVEL
    <3> DEFINE r == [th[t] EXCEPT !.level = l + 1, !.cur = c, !.fresh = new]
    <3>1. r \in ThreadRec
      <4>1. l + 1 \in 1..REDIRECTION_LEVEL /\ c \in Sector \cup {None}
        BY <1>2, <1>5, <2>1, Sizes
      <4> QED BY <1>1, <4>1 DEF ThreadRec
    <3>2. th' = [th EXCEPT ![t] = r]
      BY <1>1, <2>1 DEF ThreadRec, Follows
    <3>3. /\ r.ino = th[t].ino /\ r.pc = "grow" /\ r.deny_write = th[t].deny_write
          /\ r.creating = th[t].creating /\ r.grown = th[t].grown /\ r.main = m
          /\ r.offset = th[t].offset /\ r.end = th[t].end /\ r.level = l + 1 /\ r.cur = c /\ r.idx = i
      BY <1>1, <1>3 DEF ThreadRec
    <3>4. LocalsOK(r)
      <4> HIDE DEF r
      <4> QED BY <1>1, <2>0, <3>3 DEF LocalsOK
    <3> QED BY <2>1, <3>1, <3>2, <3>3, <3>4
  <2>2. CASE ~(l < REDIRECTION_LEVEL)
    <3> DEFINE r == [th[t] EXCEPT !.idx = i + 1, !.level = 1, !.cur = m, !.fresh = FALSE]
    <3>1. r \in ThreadRec
      <4>1. 1 \in 1..REDIRECTION_LEVEL /\ m \in Sector \cup {None} /\ i + 1 \in Nat
        BY <1>2, <1>3, Sizes
      <4> QED BY <1>1, <4>1 DEF ThreadRec
    <3>2. th' = [th EXCEPT ![t] = r]
      BY <1>1, <1>3, <2>2 DEF ThreadRec, Allocate, Follows
    <3>3. /\ r.ino = th[t].ino /\ r.pc = "grow" /\ r.deny_write = th[t].deny_write
          /\ r.creating = th[t].creating /\ r.grown = th[t].grown /\ r.main = m
          /\ r.offset = th[t].offset /\ r.end = th[t].end /\ r.level = 1 /\ r.cur = m /\ r.idx = i + 1
      BY <1>1, <1>3 DEF ThreadRec
    <3>4. LocalsOK(r)
      <4> HIDE DEF r
      <4> QED BY <1>1, <2>0, <3>3 DEF LocalsOK
    <3> QED BY <2>2, <3>1, <3>2, <3>3, <3>4
  <2> QED BY <2>1, <2>2
<1>8. th'[t] = r /\ Moves(t)
  BY <1>1, <1>7 DEF Moves
<1>9. th' \in [Thread -> ThreadRec] /\ \A u \in Thread : u # t => th'[u] = th[u]
  BY <1>8 DEF Moves
<1>10. KeepsStructs /\ inode' = inode
  BY <1>0, <1>1, MemoryKept
<1>11. ThreadInv' /\ Counts' /\ StructInv'
  BY <1>0, <1>1, <1>7, <1>8, <1>10, MoveBase
<1>12. /\ bytes' \in [Sector -> [Byte -> Thread \cup {Zero}]]
       /\ \A y \in Sector : y # c => bytes'[y] = bytes[y]
       /\ new /\ l = REDIRECTION_LEVEL => bytes'[c] = [b \in Byte |-> Zero]
       /\ ~new => bytes' = bytes
  <2> DEFINE z == [b \in Byte |-> Zero]
  <2>1. z \in [Byte -> Thread \cup {Zero}] /\ bytes \in [Sector -> [Byte -> Thread \cup {Zero}]]
    BY <1>0 DEF Base, TypeOK
  <2>2. bytes' = IF new /\ l = REDIRECTION_LEVEL THEN [bytes EXCEPT ![c] = z] ELSE bytes
    BY DEF Follows
  <2> HIDE DEF z
  <2>3. /\ bytes' \in [Sector -> [Byte -> Thread \cup {Zero}]]
        /\ \A y \in Sector : y # c => bytes'[y] = bytes[y]
        /\ new /\ l = REDIRECTION_LEVEL => bytes'[c] = z
        /\ ~new => bytes' = bytes
    BY <1>5, <2>1, <2>2
  <2> QED BY <2>3 DEF z
<1>13. Base'
  <2>1. free_map' \subseteq Sector /\ unsaved' \subseteq Sector
    BY <1>0, <1>1, <1>5 DEF Base, TypeOK, Follows
  <2>2. TypeOK'
    BY <1>0, <1>1, <1>6, <1>9, <1>10, <1>12, <2>1 DEF Base, TypeOK, ThreadRec, memory, Pointers
  <2> QED BY <1>11, <2>2 DEF Base
<1>14. ASSUME SoundInv PROVE SoundInv'
  <2>1. m \in InUse /\ InUse \in SUBSET Sector /\ GrowOK(t) /\ TreeIn(ptr, InUse)
        /\ free_map = ReachIn(ptr, InUse) \cup leaked /\ ReachIn(ptr, InUse) \cap leaked = {}
    BY <1>0, <1>1, <1>2, <1>14, Owners, InUseAllocated DEF SoundInv, GrowInv, TreeInv
  <2>2. /\ WayIn(ptr, m, i) \in [Level -> Sector \cup {None}] /\ WayIn(ptr, m, i)[0] = m
        /\ \A k \in 1..REDIRECTION_LEVEL :
              WayIn(ptr, m, i)[k] = IF WayIn(ptr, m, i)[k - 1] = None THEN None
                                    ELSE ptr[WayIn(ptr, m, i)[k - 1]][get_redirection_ids(i)[k]]
    <3>1. m \in Sector \cup {None}
      BY <1>2
    <3> QED BY <1>4, <3>1, WayOK
  <2>3. x = WayIn(ptr, m, i)[l - 1] /\ l - 1 \in Level /\ l \in Level /\ l \in Nat
    <3>1. l = 1 => x = m
      BY <1>1, <2>1 DEF GrowOK
    <3>2. l > 1 => x = WayIn(ptr, m, i)[l - 1]
      BY <1>1, <1>3, <2>1 DEF GrowOK
    <3>3. l - 1 \in Level /\ l \in Level /\ l \in Nat /\ (l = 1 \/ l > 1) /\ (l = 1 => l - 1 = 0)
      BY <1>2, Sizes DEF Level
    <3> QED BY <2>2, <3>1, <3>2, <3>3
  <2>4. e = get_redirection_ids(i)[l] /\ x # None
    BY <1>1, <1>2, <1>3, Sizes
  <2>5. x \in free_map
    BY <2>1, <2>3, <2>4 DEF ReachIn
  <2>6. /\ TreeIn(ptr', InUse) /\ free_map' = ReachIn(ptr', InUse) \cup leaked
        /\ ReachIn(ptr', InUse) \cap leaked = {}
        /\ GrowsFile(m) /\ \A n \in InUse : n # m => SameFile(n)
        /\ WayIn(ptr', m, i)[l] = c
    <3>1. CASE new
      <4>1. Enters(ptr, ptr', x, e, c)
        BY <1>5, <1>6, <2>5, <3>1
      <4>2. UNCHANGED <<length, expect>> /\ ptr[x][get_redirection_ids(i)[l]] = None
        BY <1>1, <2>4, <3>1
      <4>3. /\ TreeIn(ptr', InUse) /\ ReachIn(ptr', InUse) = ReachIn(ptr, InUse) \cup {c}
            /\ c \notin leaked
            /\ GrowsFile(m) /\ \A n \in InUse : n # m => SameFile(n)
            /\ WayIn(ptr', m, i)[l] = c
        BY <1>0, <1>2, <1>5, <1>6, <1>12, <1>14, <2>1, <2>3, <2>4, <3>1, <4>1, <4>2, NewSector
      <4> QED BY <1>1, <2>1, <4>3
    <3>2. CASE ~new
      <4>1. ptr' = ptr /\ bytes' = bytes /\ length' = length /\ expect' = expect
        BY <1>1, <1>6, <1>12, <3>2
      <4>2. c = WayIn(ptr, m, i)[l]
        BY <1>1, <1>2, <2>2, <2>3, <2>4, <3>2
      <4>3. c \in free_map
        <5>1. c # None
          BY <1>5, Sizes
        <5> QED BY <2>1, <2>3, <4>2, <5>1 DEF ReachIn
      <4>4. GrowsFile(m) /\ \A n : SameFile(n)
        BY <4>1 DEF GrowsFile, SameFile
      <4> QED BY <1>1, <2>1, <4>1, <4>2, <4>3, <4>4
    <3> QED BY <3>1, <3>2
  <2>7. GrowOK(t)'
    <3>1. /\ r.level = 1 => r.cur = m
          /\ r.level > 1 => r.idx < bytes_to_sectors(r.end) /\ r.cur = WayIn(ptr', m, r.idx)[r.level - 1]
      <4>1. CASE l < REDIRECTION_LEVEL
        <5>1. r.level = l + 1 /\ r.cur = c /\ r.idx = i /\ l \in Nat /\ l > 0
          BY <1>2, <1>7, <2>3, <4>1
        <5>2. r.level # 1 /\ r.level - 1 = l
          BY <5>1
        <5>3. th[t].idx < bytes_to_sectors(th[t].end)
          BY DEF Follows
        <5> QED BY <1>3, <1>7, <2>6, <5>1, <5>2, <5>3
      <4>2. CASE ~(l < REDIRECTION_LEVEL)
        BY <1>7, <4>2
      <4> QED BY <4>1, <4>2
    <3>2. ASSUME NEW j \in Index, j < r.idx PROVE SectorAt(ptr', m, j) # None
      <4>1. CASE j < i
        <5>1. SectorAt(ptr, m, j) # None
          BY <1>1, <1>3, <2>1, <4>1 DEF GrowOK
        <5> QED BY <2>6, <5>1 DEF GrowsFile
      <4>2. CASE ~(j < i)
        <5>1. j \in Nat /\ i \in Nat
          BY <1>3, IndexOK
        <5>2. ~(l < REDIRECTION_LEVEL) /\ j = i
          BY <1>7, <3>2, <4>2, <5>1
        <5>3. l = REDIRECTION_LEVEL
          BY <1>2, <5>2, Sizes
        <5>4. SectorAt(ptr', m, j) = c
          BY <2>6, <5>2, <5>3 DEF SectorAt
        <5> QED BY <1>5, <5>4, Sizes
      <4> QED BY <4>1, <4>2
    <3> QED BY <1>7, <1>8, <3>1, <3>2 DEF GrowOK
  <2>8. /\ th'[t].pc = th[t].pc /\ th'[t].main = th[t].main /\ th'[t].ino = th[t].ino
        /\ th'[t].creating = th[t].creating /\ th'[t].grown = th[t].grown
        /\ th'[t].offset = th[t].offset /\ th'[t].end = th[t].end
    BY <1>1, <1>7, <1>8
  <2>9. UNCHANGED <<length, lock, linked, expect, inode, leaked>>
    BY <1>1, <1>10
  <2> QED BY <1>0, <1>1, <1>9, <1>13, <1>14, <2>6, <2>7, <2>8, <2>9, GrowthSound
<1>15. Sound' => Sound
  BY <1>1 DEF Sound
<1> QED BY <1>13, <1>14, <1>15 DEF IInv

(* Nothing changes for threads and structs. *)
LEMMA StillBase ==
  ASSUME Base, UNCHANGED <<inode, open_inodes, th>>
  PROVE  ThreadInv' /\ Counts' /\ StructInv'
<1>1. ThreadInv' /\ StructInv'
  BY DEF Base, ThreadInv, StructInv, StructUsed, StructListed, StructRefs, Freed
<1>2. Counts'
  BY DEF Base, Counts, Openers, Settled
<1> QED BY <1>1, <1>2

(* A kernel that has stopped has nothing left to keep but its types. *)
LEMMA StoppedStep ==
  ASSUME IInv, NEW why, Stop(why), why # "no"
  PROVE  IInv' /\ (Sound' => Sound)
<1>1. Base' /\ panic' = why
  BY StopBase DEF IInv
<1> QED BY <1>1 DEF IInv, Sound

(* A level of an allocation: followed, made, or without a free sector. *)
LEMMA AllocateStep ==
  ASSUME IInv, NEW t \in Thread, AllocateLevel(t)
  PROVE  IInv' /\ (Sound' => Sound)
<1>0. Base
  BY DEF IInv
<1>1a. PICK m, l, x, e : /\ m = th[t].main /\ l = th[t].level /\ x = th[t].cur
                         /\ e = get_redirection_ids(th[t].idx)[l]
  OBVIOUS
<1>1b. PICK new \in BOOLEAN : new = (ptr[x][e] = None)
  OBVIOUS
<1>1c. PICK c : c = IF new THEN Least(Sector \ free_map) ELSE ptr[x][e]
  OBVIOUS
<1>1. /\ m = th[t].main /\ l = th[t].level /\ x = th[t].cur
      /\ e = get_redirection_ids(th[t].idx)[l] /\ new = (ptr[x][e] = None)
      /\ c = IF new THEN Least(Sector \ free_map) ELSE ptr[x][e]
  BY <1>1a, <1>1b, <1>1c
<1>2. th[t].pc = "grow" /\ panic = "no" /\ Working(th[t]) /\ Grower(t) /\ x \in Sector
      /\ ~th[t].grown
  <2>1. th[t].pc = "grow" /\ panic = "no"
    BY DEF AllocateLevel, Running
  <2>2. th[t] \in ThreadRec /\ LocalsOK(th[t])
    BY <1>0, BaseFacts
  <2> QED BY <1>1, <2>1, <2>2 DEF Working, Grower, LocalsOK, ThreadRec
<1>3. CASE Stop("garbage index")
  BY <1>3, StoppedStep
<1>4. CASE /\ unsaved' = IF th[t].fresh THEN unsaved \cup {x} ELSE unsaved
           /\ Failed(t, m)
           /\ UNCHANGED <<free_map, ptr, length, bytes, garbage, memory, linked, history>>
  <2>0. unsaved' \subseteq Sector
    BY <1>0, <1>2, <1>4 DEF Base, TypeOK
  <2>1. CASE th[t].creating \/ th[t].idx > th[t].start
    <3>1. panic' # "no" /\ UNCHANGED <<lock, th>>
      BY <1>4, <2>1 DEF Failed
    <3>2. Base'
      <4>1. /\ free_map' = free_map /\ ptr' = ptr /\ length' = length /\ bytes' = bytes
            /\ garbage' = garbage /\ inode' = inode /\ open_inodes' = open_inodes
            /\ linked' = linked /\ shared' = shared /\ lock' = lock /\ th' = th /\ leaked' = leaked
        BY <1>4, <3>1 DEF memory, history
      <4>2. TypeOK'
        BY <1>0, <2>0, <4>1 DEF Base, TypeOK
      <4>3. ThreadInv' /\ Counts' /\ StructInv'
        BY <1>0, <4>1, StillBase
      <4> QED BY <4>2, <4>3 DEF Base
    <3> QED BY <3>1, <3>2 DEF IInv, Sound
  <2>2. CASE ~(th[t].creating \/ th[t].idx > th[t].start)
    <3>1. lock' = [lock EXCEPT ![th[t].main] = None] /\ Return(t) /\ UNCHANGED panic
      BY <1>1, <1>4, <2>2 DEF Failed
    <3> QED BY <1>2, <1>4, <2>0, <2>2, <3>1, ReturnStep
  <2> QED BY <2>1, <2>2
<1>5. CASE Follows(t, m, l, x, e, new, c)
  BY <1>5, LevelStep
<1>6. \/ Stop("garbage index")
      \/ /\ unsaved' = IF th[t].fresh THEN unsaved \cup {x} ELSE unsaved
         /\ Failed(t, m)
         /\ UNCHANGED <<free_map, ptr, length, bytes, garbage, memory, linked, history>>
      \/ Follows(t, m, l, x, e, new, c)
  BY <1>1 DEF AllocateLevel, Follows
<1> QED BY <1>3, <1>4, <1>5, <1>6

(* The cache drops an index sector: what depends on it stops. *)
LEMMA DropStep ==
  ASSUME IInv, NEW s \in Sector, CacheDrops(s)
  PROVE  IInv' /\ (Sound' => Sound)
<1>0. Base
  BY DEF IInv
<1>1. /\ unsaved' = unsaved \ {s} /\ garbage' = garbage \cup {s}
      /\ free_map' = free_map /\ ptr' = ptr /\ length' = length /\ bytes' = bytes
      /\ inode' = inode /\ open_inodes' = open_inodes /\ expect' = expect /\ leaked' = leaked
      /\ linked' = linked /\ shared' = shared /\ lock' = lock /\ th' = th /\ panic' = panic
  BY DEF CacheDrops, memory, history
<1>2. Base'
  <2>1. TypeOK'
    BY <1>0, <1>1 DEF Base, TypeOK
  <2>2. ThreadInv' /\ Counts' /\ StructInv'
    BY <1>0, <1>1, StillBase
  <2> QED BY <2>1, <2>2 DEF Base
<1>3. ASSUME SoundInv PROVE SoundInv'
  <2>1. SameWorkers
    BY <1>0, <1>1, WorkingOnes DEF SameWorkers
  <2>2. KeepsFiles
    BY <1>1 DEF KeepsFiles, Settled
  <2> QED BY <1>0, <1>2, <1>3, <2>1, <2>2, QuietSound
<1> QED BY <1>1, <1>2, <1>3 DEF IInv, Sound

(* The searches and waits of inode_open. *)
LEMMA OpenStep ==
  ASSUME IInv, SettleInv, Sound => SearchInv, shared' = {}, NEW t \in Thread,
         \/ \E s \in Sector : inode_open(t, s)
         \/ inode_reopen(t) \/ ReadInode(t) \/ Publish(t) \/ Settle(t)
  PROVE  IInv' /\ (Sound' => Sound)
<1>0. Base
  BY DEF IInv
<1>1. CASE \E s \in Sector : inode_open(t, s)
  <2>1. PICK s \in Sector : inode_open(t, s)
    BY <1>1
  <2>2. Base' /\ (Sound' => Sound)
    BY <1>0, <2>1, OpenBase DEF inode_open, Sound, history
  <2>3. SoundInv => SoundInv'
    BY <1>0, <2>1, <2>2, OpenSound
  <2> QED BY <2>2, <2>3 DEF IInv
<1>2. CASE inode_reopen(t)
  <2>1. CASE Stop("freed inode")
    BY <2>1, StoppedStep
  <2>2. CASE panic' = panic /\ shared \subseteq shared'
    <3>1. Base' /\ (Sound' => Sound) /\ panic' = "no"
      BY <1>0, <1>2, <2>2, ReopenBase DEF inode_reopen, Running, Sound
    <3>2. SoundInv => SoundInv'
      BY <1>0, <1>2, <3>1, ReopenSound
    <3> QED BY <3>1, <3>2 DEF IInv
  <2> QED BY <1>2, <2>1, <2>2 DEF inode_reopen
<1>3. CASE ReadInode(t)
  <2>1. CASE Stop("unlinked inode")
    BY <2>1, StoppedStep
  <2>2. CASE panic' = panic /\ shared' = shared
    <3>1. Base' /\ (Sound' => Sound) /\ panic' = "no"
      BY <1>0, <1>3, <2>2, ReadBase DEF ReadInode, Running, Sound
    <3>2. SoundInv => SoundInv'
      BY <1>0, <1>3, <3>1, ReadSound
    <3> QED BY <3>1, <3>2 DEF IInv
  <2> QED BY <1>3, <2>1, <2>2 DEF ReadInode, history
<1>4. CASE Publish(t)
  <2>1. CASE Stop("unlinked inode")
    BY <2>1, StoppedStep
  <2>2. CASE panic' = panic /\ shared \subseteq shared'
    <3>1. Base' /\ (Sound' => Sound) /\ panic' = "no"
      BY <1>0, <1>4, <2>2, PublishBase DEF Publish, Running, Sound
    <3>2. SoundInv /\ SearchInv => SoundInv'
      BY <1>0, <1>4, <3>1, PublishSound
    <3> QED BY <3>1, <3>2 DEF IInv
  <2> QED BY <1>4, <2>1, <2>2 DEF Publish
<1>5. CASE Settle(t)
  <2>1. CASE Stop("freed inode")
    BY <2>1, StoppedStep
  <2>2. CASE panic' = panic /\ shared' = shared
    <3>1. Base' /\ (Sound' => Sound) /\ panic' = "no"
      BY <1>0, <1>5, <2>2, SettleBase DEF Settle, Running, Sound
    <3>2. SoundInv /\ SearchInv => SoundInv'
      BY <1>0, <1>5, <3>1, SettleSound
    <3> QED BY <3>1, <3>2 DEF IInv
  <2> QED BY <1>5, <2>1, <2>2 DEF Settle, history
<1> QED BY <1>1, <1>2, <1>3, <1>4, <1>5

(* A write that is done. *)
LEMMA DoneStep ==
  ASSUME IInv, NEW t \in Thread, Written(t)
  PROVE  IInv' /\ (Sound' => Sound)
<1>0. Base
  BY DEF IInv
<1>1. CASE th[t].grown
  <2>1. CASE Stop("freed inode")
    BY <2>1, StoppedStep
  <2>2. CASE panic' = panic
    <3>1. panic' = "no"
      BY <2>2 DEF Written, Running
    <3> QED BY <1>1, <3>1, WrittenStep
  <2> QED BY <1>1, <2>1, <2>2 DEF Written
<1>2. CASE ~th[t].grown
  <2>1. th[t].pc = "copy" /\ LocalsOK(th[t])
    BY <1>0, BaseFacts DEF Written, Running
  <2>2. ~th[t].creating /\ Working(th[t]) /\ ~Grower(t)
    BY <1>2, <2>1 DEF LocalsOK, Working, Grower
  <2>3. /\ Return(t) /\ lock' = lock /\ unsaved' = unsaved
        /\ UNCHANGED <<free_map, ptr, length, bytes, garbage, memory, linked, panic, history>>
    BY <1>2 DEF Written, disk
  <2>4. unsaved' \subseteq Sector
    BY <1>0, <2>3 DEF Base, TypeOK
  <2> QED BY <1>2, <2>2, <2>3, <2>4, ReturnStep
<1> QED BY <1>1, <1>2

(* Every step of a thread. *)
LEMMA ThreadSteps ==
  ASSUME IInv, SettleInv, Sound => SearchInv, shared' = {}, NEW t \in Thread, Step(t) \/ Call(t)
  PROVE  IInv' /\ (Sound' => Sound)
<1>1. CASE \/ inode_reopen(t) \/ ReadInode(t) \/ Publish(t) \/ Settle(t)
           \/ \E s \in Sector : inode_open(t, s)
  BY <1>1, OpenStep
<1>2. CASE file_close(t)
  <2>1. CASE Stop("freed inode")
    BY <2>1, StoppedStep
  <2>2. CASE panic' = panic
    <3>1. panic' = "no"
      BY <1>2, <2>2 DEF file_close, Running
    <3> QED BY <1>2, <3>1, CloseStep
  <2> QED BY <1>2, <2>1, <2>2 DEF file_close
<1>3. CASE inode_dir_cleanup(t)
  <2>1. CASE Stop("freed inode") \/ Stop("garbage index")
    BY <2>1, StoppedStep
  <2>2. CASE panic' = panic
    <3>1. panic' = "no"
      BY <1>3, <2>2 DEF inode_dir_cleanup, Running
    <3> QED BY <1>3, <3>1, CleanupStep
  <2> QED BY <1>3, <2>1, <2>2 DEF inode_dir_cleanup
<1>4. CASE AllocateLevel(t)
  BY <1>4, AllocateStep
<1>5. CASE GrowthDone(t)
  <2>1. CASE th[t].creating
    <3>1. Linked(t, th[t].main) \/ NotLinked(t, th[t].main)
      BY <1>5, <2>1 DEF GrowthDone, Allocated
    <3> QED BY <1>5, <2>1, <3>1, CreatedStep, NotLinkedStep
  <2> QED BY <1>5, <2>1, GrownStep
<1>6. CASE Locked(t)
  <2>1. CASE Stop("freed inode")
    BY <2>1, StoppedStep
  <2>2. CASE panic' = panic
    <3>1. panic' = "no"
      BY <1>6, <2>2 DEF Locked, Running
    <3> QED BY <1>6, <3>1, LockedStep
  <2> QED BY <1>6, <2>1, <2>2 DEF Locked
<1>7. CASE Copy(t)
  <2>1. CASE Stop("null handle")
    BY <2>1, StoppedStep
  <2>2. CASE panic' = panic
    <3>1. panic' = "no"
      BY <1>7, <2>2 DEF Copy, Running
    <3> QED BY <1>7, <3>1, CopyStep
  <2> QED BY <1>7, <2>1, <2>2 DEF Copy
<1>8. CASE Written(t)
  BY <1>8, DoneStep
<1>9. CASE inode_remove(t) \/ file_deny_write(t)
  <2>1. CASE inode_remove(t)
    BY <2>1, RemoveStep
  <2>2. CASE Stop("freed inode")
    BY <2>2, StoppedStep
  <2>3. CASE file_deny_write(t) /\ panic' = panic
    <3>1. panic' = "no"
      BY <2>3 DEF file_deny_write, MayCall, Running
    <3> QED BY <2>3, <3>1, DenyStep
  <2> QED BY <1>9, <2>1, <2>2, <2>3 DEF file_deny_write
<1>10. CASE \E n \in {0, 1} : filesys_create(t, n)
  <2>0. PICK n \in {0, 1} : filesys_create(t, n)
    BY <1>10
  <2>1. CASE Stop("no sector for the inode")
    BY <2>1, StoppedStep
  <2>2. CASE panic' = panic
    <3>1. panic' = "no"
      BY <2>0, <2>2 DEF filesys_create, MayCall, Running
    <3> QED BY <2>0, <3>1, CreateStep
  <2> QED BY <2>0, <2>1, <2>2 DEF filesys_create
<1>11. CASE \E r \in Requests : inode_write_at(t, r)
  <2>0. PICK r \in Requests : inode_write_at(t, r)
    BY <1>11
  <2>1. CASE Stop("freed inode")
    BY <2>1, StoppedStep
  <2>2. CASE panic' = panic
    <3>1. panic' = "no"
      BY <2>0, <2>2 DEF inode_write_at, MayCall, Running
    <3> QED BY <2>0, <3>1, WriteStep
  <2> QED BY <2>0, <2>1, <2>2 DEF inode_write_at
<1> QED BY <1>1, <1>2, <1>3, <1>4, <1>5, <1>6, <1>7, <1>8, <1>9, <1>10, <1>11 DEF Step, Call

(* Nothing happens. *)
LEMMA StillStep ==
  ASSUME IInv, UNCHANGED vars
  PROVE  IInv' /\ (Sound' => Sound)
<1>0. Base
  BY DEF IInv
<1>1. /\ free_map' = free_map /\ ptr' = ptr /\ length' = length /\ bytes' = bytes
      /\ unsaved' = unsaved /\ garbage' = garbage /\ leaked' = leaked
      /\ inode' = inode /\ open_inodes' = open_inodes /\ expect' = expect
      /\ linked' = linked /\ shared' = shared /\ lock' = lock /\ th' = th /\ panic' = panic
  BY DEF vars, disk, memory, history
<1>2. Base'
  <2>1. TypeOK'
    BY <1>0, <1>1 DEF Base, TypeOK
  <2> QED BY <1>0, <1>1, <2>1, StillBase DEF Base
<1>3. ASSUME SoundInv PROVE SoundInv'
  <2>1. SameWorkers
    BY <1>0, <1>1, WorkingOnes DEF SameWorkers
  <2>2. KeepsFiles
    BY <1>1 DEF KeepsFiles, Settled
  <2> QED BY <1>0, <1>2, <1>3, <2>1, <2>2, QuietSound
<1> QED BY <1>1, <1>2, <1>3 DEF IInv, Sound

-----------------------------------------------------------------------------
(* Opening: who is at work on a struct that nobody else may use yet.       *)

(* No inode is taken off the history of what two threads were opening. *)
LEMMA SharedGrows ==
  ASSUME [Next]_vars
  PROVE  shared \subseteq shared'
<1>1. ASSUME NEW t \in Thread, Step(t) PROVE shared \subseteq shared'
  <2>1. inode_reopen(t) \/ Publish(t) => shared \subseteq shared'
    BY DEF inode_reopen, Publish, Stop, history
  <2>2. ReadInode(t) \/ Settle(t) \/ file_close(t) \/ inode_dir_cleanup(t) => shared' = shared
    BY DEF ReadInode, Settle, file_close, inode_dir_cleanup, Stop, history
  <2>3. AllocateLevel(t) \/ GrowthDone(t) => shared' = shared
    BY DEF AllocateLevel, GrowthDone, Stop, history
  <2>4. Locked(t) \/ Copy(t) \/ Written(t) => shared' = shared
    BY DEF Locked, Copy, Written, Stop, history
  <2> QED BY <1>1, <2>1, <2>2, <2>3, <2>4 DEF Step
<1>2. ASSUME NEW t \in Thread, Call(t) PROVE shared' = shared
  BY <1>2 DEF Call, inode_open, inode_remove, file_deny_write, filesys_create, inode_write_at,
              Stop, history
<1>3. (\E s \in Sector : CacheDrops(s)) \/ UNCHANGED vars => shared' = shared
  BY DEF CacheDrops, vars, history
<1> QED BY <1>1, <1>2, <1>3 DEF Next, Finished

(* Thread t moves and the structs that others fill in stay as they are. *)
LEMMA SettleKept ==
  ASSUME SettleInv, NEW t \in Thread, \A u \in Thread : u # t => th'[u] = th[u],
         \A u \in Thread : u # t /\ th[u].pc = "settle" =>
           /\ th[u].ino \in open_inodes' /\ inode'[th[u].ino].sector = inode[th[u].ino].sector
           /\ th'[t].ino = th[u].ino => th'[t].pc = "reopen",
         th'[t].pc = "settle" =>
           /\ th'[t].ino \in open_inodes' /\ inode'[th'[t].ino].sector = th'[t].main
           /\ \A u \in Thread : u # t => th[u].ino # th'[t].ino
  PROVE  SettleInv'
<1> SUFFICES ASSUME NEW u \in Thread, th'[u].pc = "settle"
             PROVE  /\ th'[u].ino \in open_inodes' /\ inode'[th'[u].ino].sector = th'[u].main
                    /\ \A v \in Thread : v # u /\ th'[v].ino = th'[u].ino => th'[v].pc = "reopen"
  BY DEF SettleInv
<1>1. CASE u = t
  BY <1>1
<1>2. CASE u # t
  <2>1. th'[u] = th[u] /\ th[u].pc = "settle"
    BY <1>2
  <2>2. \A v \in Thread : v # u /\ th[v].ino = th[u].ino => th[v].pc = "reopen"
    BY <2>1 DEF SettleInv
  <2>3. inode[th[u].ino].sector = th[u].main
    BY <2>1 DEF SettleInv
  <2> QED BY <1>2, <2>1, <2>2, <2>3
<1> QED BY <1>1, <1>2

(* ... and the inodes that others look for stay linked and without struct. *)
LEMMA SearchKept ==
  ASSUME SearchInv, NEW t \in Thread, \A u \in Thread : u # t => th'[u] = th[u],
         \A u \in Thread : u # t /\ th[u].pc \in {"open", "publish", "settle"} =>
           /\ th[u].main \in linked'
           /\ th[u].pc # "settle" => \A i \in Struct : inode'[i].sector # th[u].main
           /\ th[u].pc = "publish" => length'[th[u].main] = length[th[u].main],
         th'[t].pc \in {"open", "publish", "settle"} =>
           /\ th'[t].main \in linked'
           /\ th'[t].pc # "settle" => \A i \in Struct : inode'[i].sector # th'[t].main
           /\ th'[t].pc = "publish" => th'[t].start = length'[th'[t].main]
  PROVE  SearchInv'
<1> SUFFICES ASSUME NEW u \in Thread
             PROVE  /\ th'[u].pc \in {"open", "publish"} =>
                         th'[u].main \in linked' /\ \A i \in Struct : inode'[i].sector # th'[u].main
                    /\ th'[u].pc = "publish" => th'[u].start = length'[th'[u].main]
                    /\ th'[u].pc = "settle" => th'[u].main \in linked'
  BY DEF SearchInv
<1>1. CASE u = t
  BY <1>1
<1>2. CASE u # t
  <2>1. th'[u] = th[u]
    BY <1>2
  <2>2. th[u].pc = "publish" => th[u].start = length[th[u].main]
    BY DEF SearchInv
  <2> QED BY <1>2, <2>1, <2>2
<1> QED BY <1>1, <1>2

(* What a thread does that opens nothing: it moves from its struct or      *)
(* keeps it, and frees no other.                                           *)
Plain(t) ==
  /\ \A u \in Thread : u # t => th'[u] = th[u]
  /\ th[t].pc \notin {"settle", "reopen"} /\ th'[t].pc \notin {"open", "publish", "settle"}
  /\ th'[t].ino = th[t].ino \/ th'[t].ino = None
  /\ \A i \in open_inodes : i \in open_inodes' \/ i = th[t].ino
  /\ \A i \in Struct : inode'[i].sector = inode[i].sector
                         \/ (i = th[t].ino /\ inode'[i].sector = None)
LEMMA PlainOpening ==
  ASSUME Base, SettleInv, Sound => SearchInv, Sound' => Sound, NEW t \in Thread, Plain(t),
         Sound => \A u \in Thread : th[u].pc \in {"open", "publish", "settle"} /\ th[u].main \in linked =>
           /\ th[u].main \in linked'
           /\ (\A i \in Struct : inode[i].sector # th[u].main) =>
                length'[th[u].main] = length[th[u].main]
  PROVE  Opening'
<1>1. /\ \A u \in Thread : u # t => th'[u] = th[u]
      /\ th[t].pc \notin {"settle", "reopen"} /\ th'[t].pc \notin {"open", "publish", "settle"}
      /\ th'[t].ino = th[t].ino \/ th'[t].ino = None
      /\ \A i \in open_inodes : i \in open_inodes' \/ i = th[t].ino
      /\ \A i \in Struct : inode'[i].sector = inode[i].sector
                             \/ (i = th[t].ino /\ inode'[i].sector = None)
  BY DEF Plain
<1>2. \A u \in Thread : u # t /\ th[u].pc = "settle" =>
        th[u].ino \in open_inodes /\ th[u].ino \in Struct /\ th[u].ino # th[t].ino /\ th[u].ino # None
  <2>1. open_inodes \subseteq Struct
    BY DEF Base, TypeOK
  <2>2. \A u \in Thread : th[u].pc = "settle" => th[u].ino # None
    BY DEF Base, ThreadInv
  <2> QED BY <1>1, <2>1, <2>2 DEF SettleInv
<1>3. SettleInv'
  BY <1>1, <1>2, SettleKept
<1>4. ASSUME Sound' PROVE SearchInv'
  <2>1. Sound /\ SearchInv
    BY <1>4
  <2>2. \A u \in Thread : th[u].pc \in {"open", "publish"} => th[u].main # None
    BY DEF Base, ThreadInv
  <2>3. ASSUME NEW u \in Thread, u # t, th[u].pc \in {"open", "publish", "settle"}
        PROVE  /\ th[u].main \in linked'
               /\ th[u].pc # "settle" => \A i \in Struct : inode'[i].sector # th[u].main
               /\ th[u].pc = "publish" => length'[th[u].main] = length[th[u].main]
    <3>1. th[u].main \in linked
      BY <2>1, <2>3 DEF SearchInv
    <3>2. th[u].pc # "settle" => \A i \in Struct : inode[i].sector # th[u].main
      BY <2>1, <2>3 DEF SearchInv
    <3> QED BY <1>1, <2>1, <2>2, <2>3, <3>1, <3>2
  <2> QED BY <1>1, <2>1, <2>3, SearchKept
<1> QED BY <1>3, <1>4 DEF Opening

(* A stopped kernel opens nothing. *)
LEMMA StopOpening ==
  ASSUME SettleInv, NEW why, Stop(why), why # "no"
  PROVE  Opening'
<1>1. th' = th /\ inode' = inode /\ open_inodes' = open_inodes /\ panic' = why
  BY DEF Stop, memory
<1> QED BY <1>1 DEF Opening, SettleInv, Sound

(* The search of inode_open finds a struct, or none for the inode at all. *)
LEMMA OpenOpening ==
  ASSUME IInv, Opening, Sound' => Sound, NEW t \in Thread, NEW s \in Sector, inode_open(t, s)
  PROVE  Opening'
<1>0. Base /\ SettleInv
  BY DEF IInv, Opening
<1>1. th \in [Thread -> ThreadRec] /\ th[t] \in ThreadRec /\ open_inodes \subseteq Struct
  BY <1>0, BaseFacts
<1>2. /\ th[t].pc = "idle" /\ th[t].ino = None /\ s \in linked
      /\ UNCHANGED <<length, inode, open_inodes, linked>>
  BY DEF inode_open, MayCall, Running, disk, memory
<1>3. \A u \in Thread : th[u].pc = "settle" => th[u].ino # None /\ th[u].ino \in open_inodes
  BY <1>0 DEF SettleInv, Base, ThreadInv
<1>4. ASSUME SearchInv, NEW u \in Thread, th[u].pc \in {"open", "publish", "settle"}
      PROVE  /\ th[u].main \in linked'
             /\ th[u].pc # "settle" => \A i \in Struct : inode'[i].sector # th[u].main
             /\ th[u].pc = "publish" => length'[th[u].main] = length[th[u].main]
  BY <1>2, <1>4 DEF SearchInv
<1>5. CASE \E i \in open_inodes :
             th' = [th EXCEPT ![t].pc = "reopen", ![t].ino = i, ![t].calls = @ + 1]
  <2>1. PICK i \in open_inodes : th' = [th EXCEPT ![t].pc = "reopen", ![t].ino = i, ![t].calls = @ + 1]
    BY <1>5
  <2>2. th'[t].pc = "reopen" /\ th'[t].ino = i /\ \A u \in Thread : u # t => th'[u] = th[u]
    BY <1>1, <2>1 DEF ThreadRec
  <2>3. SettleInv'
    BY <1>0, <1>2, <1>3, <2>2, SettleKept
  <2>4. SearchInv => SearchInv'
    BY <1>4, <2>2, SearchKept
  <2> QED BY <2>3, <2>4 DEF Opening
<1>6. CASE /\ \A i \in open_inodes : inode[i].sector # s
           /\ th' = [th EXCEPT ![t].pc = "open", ![t].main = s, ![t].calls = @ + 1]
  <2>1. /\ th'[t].pc = "open" /\ th'[t].main = s /\ th'[t].ino = None
        /\ \A u \in Thread : u # t => th'[u] = th[u]
    BY <1>1, <1>2, <1>6 DEF ThreadRec
  <2>2. SettleInv'
    BY <1>0, <1>2, <1>3, <2>1, SettleKept
  <2>3. ASSUME Sound, NEW i \in Struct PROVE inode[i].sector # s
    <3>1. CASE i \in open_inodes
      BY <1>6, <3>1
    <3>2. CASE Freed(i)
      BY <3>2, Sizes DEF Freed
    <3>3. CASE i \notin open_inodes /\ ~Freed(i)
      <4>1. Settled(i)
        BY <1>3, <3>3 DEF Settled
      <4>2. inode[i].removed
        BY <1>0, <3>3 DEF Base, StructInv, StructListed
      <4>3. inode[i].removed <=> inode[i].sector \notin linked
        BY <2>3, <3>3, <4>1 DEF IInv, SoundInv, LinkInv
      <4> QED BY <1>2, <4>2, <4>3
    <3> QED BY <3>1, <3>2, <3>3
  <2>4. Sound /\ SearchInv => SearchInv'
    BY <1>2, <1>4, <2>1, <2>3, SearchKept
  <2> QED BY <2>2, <2>4 DEF Opening
<1> QED BY <1>5, <1>6 DEF inode_open

(* A struct is reopened once it is settled. *)
LEMMA ReopenOpening ==
  ASSUME IInv, Opening, Sound' => Sound, shared' = {}, NEW t \in Thread, inode_reopen(t)
  PROVE  Opening'
<1>0. Base /\ SettleInv
  BY DEF IInv, Opening
<1>1. /\ th \in [Thread -> ThreadRec] /\ th[t] \in ThreadRec
      /\ inode \in [Struct -> InodeRec] /\ open_inodes \subseteq Struct
  BY <1>0, BaseFacts
<1>2. CASE Stop("freed inode")
  BY <1>0, <1>2, StopOpening
<1>3. CASE ~Stop("freed inode")
  <2>1. PICK i : i = th[t].ino
    OBVIOUS
  <2>2. /\ inode' = [inode EXCEPT ![i].open_cnt = Counted(i)] /\ AfterOpen(t, i, inode[i].removed)
        /\ shared' = (IF Settled(i) THEN shared ELSE shared \cup {inode[i].sector})
        /\ length' = length /\ open_inodes' = open_inodes /\ linked' = linked
    BY <1>3, <2>1 DEF inode_reopen, disk
  <2>3. Settled(i)
    BY <2>2
  <2>4. \A j \in Struct : inode'[j].sector = inode[j].sector
    BY <1>1, <2>2 DEF InodeRec
  <2>5. /\ th'[t].pc \in {"close", "idle"} /\ th'[t].ino = i
        /\ \A u \in Thread : u # t => th'[u] = th[u]
    BY <1>1, <2>2 DEF AfterOpen, ThreadRec
  <2>6. \A u \in Thread : th[u].pc = "settle" => th[u].ino # i /\ th[u].ino \in open_inodes
    BY <1>0, <2>3 DEF Settled, SettleInv
  <2>7. SettleInv'
    BY <1>0, <1>1, <2>2, <2>4, <2>5, <2>6, SettleKept
  <2>8. ASSUME SearchInv PROVE SearchInv'
    <3>1. ASSUME NEW u \in Thread, th[u].pc \in {"open", "publish", "settle"}
          PROVE  /\ th[u].main \in linked'
                 /\ th[u].pc # "settle" => \A j \in Struct : inode'[j].sector # th[u].main
                 /\ th[u].pc = "publish" => length'[th[u].main] = length[th[u].main]
      BY <2>2, <2>4, <2>8, <3>1 DEF SearchInv
    <3> QED BY <2>5, <2>8, <3>1, SearchKept
  <2> QED BY <2>7, <2>8 DEF Opening
<1> QED BY <1>2, <1>3

(* The length is read. *)
LEMMA ReadOpening ==
  ASSUME IInv, Opening, Sound' => Sound, NEW t \in Thread, ReadInode(t)
  PROVE  Opening'
<1>0. Base /\ SettleInv
  BY DEF IInv, Opening
<1>1. th \in [Thread -> ThreadRec] /\ th[t] \in ThreadRec /\ LocalsOK(th[t])
  BY <1>0, BaseFacts
<1>2. CASE Stop("unlinked inode")
  BY <1>0, <1>2, StopOpening
<1>3. CASE ~Stop("unlinked inode")
  <2>1. /\ th[t].pc = "open" /\ UNCHANGED <<length, inode, open_inodes, linked>>
        /\ th' = [th EXCEPT ![t].pc = "publish", ![t].start = length[th[t].main]]
    BY <1>3 DEF ReadInode, Running, disk, memory
  <2>2. th[t].ino = None
    BY <1>1, <2>1 DEF LocalsOK
  <2>3. /\ th'[t].pc = "publish" /\ th'[t].main = th[t].main /\ th'[t].ino = None
        /\ th'[t].start = length[th[t].main] /\ \A u \in Thread : u # t => th'[u] = th[u]
    BY <1>1, <2>1, <2>2 DEF ThreadRec
  <2>4. \A u \in Thread : th[u].pc = "settle" => th[u].ino # None /\ th[u].ino \in open_inodes
    BY <1>0 DEF SettleInv, Base, ThreadInv
  <2>5. SettleInv'
    BY <1>0, <2>1, <2>3, <2>4, SettleKept
  <2>6. ASSUME SearchInv PROVE SearchInv'
    <3>1. ASSUME NEW u \in Thread, th[u].pc \in {"open", "publish", "settle"}
          PROVE  /\ th[u].main \in linked'
                 /\ th[u].pc # "settle" => \A j \in Struct : inode'[j].sector # th[u].main
                 /\ th[u].pc = "publish" => length'[th[u].main] = length[th[u].main]
      BY <2>1, <2>6, <3>1 DEF SearchInv
    <3> QED BY <2>1, <2>3, <2>6, <3>1, SearchKept
  <2> QED BY <2>5, <2>6 DEF Opening
<1> QED BY <1>2, <1>3

(* A struct is published while nobody else looks for its inode. *)
LEMMA PublishOpening ==
  ASSUME IInv, Opening, Sound' => Sound, shared' = {}, NEW t \in Thread, Publish(t)
  PROVE  Opening'
<1>0. Base /\ SettleInv
  BY DEF IInv, Opening
<1>1. /\ th \in [Thread -> ThreadRec] /\ th[t] \in ThreadRec
      /\ inode \in [Struct -> InodeRec] /\ open_inodes \subseteq Struct
  BY <1>0, BaseFacts
<1>2. CASE Stop("unlinked inode")
  BY <1>0, <1>2, StopOpening
<1>3. CASE ~Stop("unlinked inode")
  <2>0. th[t].main \in linked
    BY <1>3 DEF Publish
  <2>1. PICK i \in Struct, junk \in Nat :
           /\ th[t].pc = "publish" /\ th[t].ino = None /\ th[t].main \in Sector
           /\ Freed(i) /\ \A u \in Thread : th[u].ino # i
           /\ Published(t, i, junk) \in InodeRec
           /\ inode' = [inode EXCEPT ![i] = Published(t, i, junk)]
           /\ open_inodes' = open_inodes \cup {i}
           /\ th' = [th EXCEPT ![t].pc = "settle", ![t].ino = i, ![t].start = 0]
           /\ shared' = (IF Contended(t, th[t].main) THEN shared \cup {th[t].main} ELSE shared)
           /\ UNCHANGED <<free_map, ptr, length, bytes, unsaved, garbage, lock, linked, panic, expect,
                          leaked>>
    BY <1>0, <1>3, <2>0, PublishFacts
  <2>2. ~Contended(t, th[t].main)
    BY <2>1
  <2>3. /\ th'[t].pc = "settle" /\ th'[t].main = th[t].main /\ th'[t].ino = i
        /\ \A u \in Thread : u # t => th'[u] = th[u]
    BY <1>1, <2>1 DEF ThreadRec
  <2>4. inode'[i].sector = th[t].main /\ \A j \in Struct : j # i => inode'[j] = inode[j]
    <3>1. inode'[i] = Published(t, i, junk)
      BY <1>1, <2>1
    <3> QED BY <1>1, <2>1, <3>1 DEF Published
  <2>5. \A u \in Thread : th[u].pc = "settle" => th[u].ino \in open_inodes /\ th[u].ino \in Struct
    BY <1>0, <1>1 DEF SettleInv
  <2>5a. /\ open_inodes' = open_inodes \cup {i} /\ linked' = linked /\ length' = length
         /\ \A u \in Thread : th[u].ino # i
    BY <2>1
  <2>6. SettleInv'
    BY <1>0, <2>3, <2>4, <2>5, <2>5a, SettleKept
  <2>7. ASSUME SearchInv PROVE SearchInv'
    <3>1. ASSUME NEW u \in Thread, u # t, th[u].pc \in {"open", "publish", "settle"}
          PROVE  /\ th[u].main \in linked'
                 /\ th[u].pc # "settle" => \A j \in Struct : inode'[j].sector # th[u].main
                 /\ th[u].pc = "publish" => length'[th[u].main] = length[th[u].main]
      <4>1. th[u].main \in linked
        BY <2>7, <3>1 DEF SearchInv
      <4>2. th[u].pc # "settle" => th[u].main # th[t].main
        BY <2>2, <3>1 DEF Contended
      <4>3. th[u].pc # "settle" => \A j \in Struct : inode[j].sector # th[u].main
        BY <2>7, <3>1 DEF SearchInv
      <4> QED BY <2>4, <2>5a, <4>1, <4>2, <4>3
    <3> QED BY <2>0, <2>3, <2>5a, <2>7, <3>1, SearchKept
  <2> QED BY <2>6, <2>7 DEF Opening
<1> QED BY <1>2, <1>3

(* The counters are set. *)
LEMMA SettleOpening ==
  ASSUME IInv, Opening, Sound' => Sound, NEW t \in Thread, Settle(t)
  PROVE  Opening'
<1>0. Base /\ SettleInv
  BY DEF IInv, Opening
<1>1. /\ th \in [Thread -> ThreadRec] /\ th[t] \in ThreadRec
      /\ inode \in [Struct -> InodeRec] /\ open_inodes \subseteq Struct
  BY <1>0, BaseFacts
<1>2. CASE Stop("freed inode")
  BY <1>0, <1>2, StopOpening
<1>3. CASE ~Stop("freed inode")
  <2>1. PICK i : i = th[t].ino
    OBVIOUS
  <2>2. /\ th[t].pc = "settle" /\ UNCHANGED <<length, open_inodes, linked>>
        /\ inode' = [inode EXCEPT ![i] = [sector |-> inode[i].sector, open_cnt |-> 1, removed |-> FALSE,
                                          deny_write_cnt |-> 0, length |-> inode[i].length]]
        /\ AfterOpen(t, i, FALSE)
    BY <1>3, <2>1 DEF Settle, Running, disk
  <2>3. \A j \in Struct : inode'[j].sector = inode[j].sector
    BY <1>1, <2>2 DEF InodeRec
  <2>4. /\ th'[t].pc = "idle" /\ th'[t].ino = i /\ \A u \in Thread : u # t => th'[u] = th[u]
    BY <1>1, <2>2 DEF AfterOpen, ThreadRec
  <2>5. \A u \in Thread : u # t /\ th[u].pc = "settle" =>
          th[u].ino # i /\ th[u].ino \in open_inodes /\ th[u].ino \in Struct
    BY <1>0, <1>1, <2>1, <2>2 DEF SettleInv
  <2>6. SettleInv'
    BY <1>0, <2>2, <2>3, <2>4, <2>5, SettleKept
  <2>7. ASSUME SearchInv PROVE SearchInv'
    <3>1. ASSUME NEW u \in Thread, th[u].pc \in {"open", "publish", "settle"}
          PROVE  /\ th[u].main \in linked'
                 /\ th[u].pc # "settle" => \A j \in Struct : inode'[j].sector # th[u].main
                 /\ th[u].pc = "publish" => length'[th[u].main] = length[th[u].main]
      BY <2>2, <2>3, <2>7, <3>1 DEF SearchInv
    <3> QED BY <2>4, <2>7, <3>1, SearchKept
  <2> QED BY <2>6, <2>7 DEF Opening
<1> QED BY <1>2, <1>3

(* A removed inode has a struct of its own, settled: nobody looks for it. *)
LEMMA RemoveOpening ==
  ASSUME IInv, Opening, Sound' => Sound, NEW t \in Thread, inode_remove(t)
  PROVE  Opening'
<1>0. Base /\ SettleInv
  BY DEF IInv, Opening
<1>1. /\ th \in [Thread -> ThreadRec] /\ th[t] \in ThreadRec
      /\ inode \in [Struct -> InodeRec] /\ open_inodes \subseteq Struct
  BY <1>0, BaseFacts
<1>2. PICK i : i = th[t].ino
  OBVIOUS
<1>3. /\ th[t].pc = "idle" /\ i # None /\ linked' = linked \ {inode[i].sector}
      /\ inode[i].sector \in linked
      /\ inode' = [inode EXCEPT ![i].removed = TRUE] /\ th' = [th EXCEPT ![t].calls = @ + 1]
      /\ length' = length /\ open_inodes' = open_inodes
  BY <1>2 DEF inode_remove, MayCall, Running, disk
<1>4. i \in Struct /\ ~Freed(i)
  <2>1. i \in Struct
    BY <1>1, <1>2, <1>3 DEF ThreadRec
  <2>2. linked \subseteq Sector
    BY <1>0 DEF Base, TypeOK
  <2> QED BY <1>3, <2>1, <2>2, Sizes DEF Freed
<1>5. Plain(t)
  <2>1. \A j \in Struct : inode'[j].sector = inode[j].sector
    BY <1>1, <1>3 DEF InodeRec
  <2>2. th'[t].pc = "idle" /\ th'[t].ino = th[t].ino /\ \A u \in Thread : u # t => th'[u] = th[u]
    BY <1>1, <1>3 DEF ThreadRec
  <2> QED BY <1>3, <2>1, <2>2 DEF Plain
<1>6. ASSUME Sound, NEW u \in Thread, th[u].pc \in {"open", "publish", "settle"}
      PROVE  th[u].main \in linked /\ th[u].main # inode[i].sector
  <2>1. SearchInv /\ LinkInv
    BY <1>6 DEF Opening, IInv, SoundInv
  <2>2. CASE th[u].pc # "settle"
    BY <1>4, <1>6, <2>1, <2>2 DEF SearchInv
  <2>3. CASE th[u].pc = "settle"
    <3>1. th[u].main = inode[th[u].ino].sector /\ th[u].ino # i /\ th[u].ino \in Struct
      BY <1>0, <1>1, <1>2, <1>3, <2>3 DEF SettleInv
    <3>2. inode[th[u].ino].sector # inode[i].sector
      BY <1>4, <2>1, <3>1 DEF LinkInv
    <3> QED BY <2>1, <2>3, <3>1, <3>2 DEF SearchInv
  <2> QED BY <2>2, <2>3
<1> QED BY <1>0, <1>3, <1>5, <1>6, PlainOpening DEF Opening

(* Nothing is opened by closing, growing and writing. *)
LEMMA CloseOpening ==
  ASSUME IInv, Opening, Sound' => Sound, NEW t \in Thread,
         file_close(t) \/ inode_dir_cleanup(t) \/ file_deny_write(t)
  PROVE  Opening'
<1>0. Base /\ SettleInv /\ (Sound => SearchInv)
  BY DEF IInv, Opening
<1>1. /\ th \in [Thread -> ThreadRec] /\ th[t] \in ThreadRec
      /\ inode \in [Struct -> InodeRec] /\ open_inodes \subseteq Struct
  BY <1>0, BaseFacts
<1>2. PICK i : i = th[t].ino
  OBVIOUS
<1>3. CASE Stop("freed inode") \/ Stop("garbage index")
  BY <1>0, <1>3, StopOpening
<1>4. ASSUME Plain(t), linked' = linked, length' = length PROVE Opening'
  BY <1>0, <1>4, PlainOpening
<1>5. CASE file_close(t) /\ ~Stop("freed inode")
  <2>1. /\ th[t].pc \in {"idle", "close"} /\ linked' = linked /\ length' = length
        /\ inode' = [inode EXCEPT
              ![i].deny_write_cnt = @ - Denials(t), ![i].open_cnt = @ - 1,
              ![i].sector = IF inode[i].open_cnt = 1 /\ ~inode[i].removed THEN None ELSE @]
        /\ open_inodes' = IF inode[i].open_cnt = 1 THEN open_inodes \ {i} ELSE open_inodes
        /\ th' = [th EXCEPT
              ![t].pc = IF inode[i].open_cnt = 1 /\ inode[i].removed THEN "cleanup" ELSE "idle",
              ![t].ino = IF inode[i].open_cnt = 1 /\ inode[i].removed THEN i ELSE None,
              ![t].deny_write = FALSE]
    BY <1>2, <1>5 DEF file_close, Running, disk
  <2>2. \A j \in Struct : inode'[j].sector = inode[j].sector
                            \/ (j = i /\ inode'[j].sector = None)
    BY <1>1, <2>1 DEF InodeRec
  <2>3. /\ th'[t].pc \in {"idle", "cleanup"} /\ (th'[t].ino = i \/ th'[t].ino = None)
        /\ \A u \in Thread : u # t => th'[u] = th[u]
    BY <1>1, <2>1 DEF ThreadRec
  <2>4. \A j \in open_inodes : j \in open_inodes' \/ j = i
    BY <2>1
  <2> QED BY <1>2, <1>4, <2>1, <2>2, <2>3, <2>4 DEF Plain
<1>6. CASE inode_dir_cleanup(t) /\ ~Stop("freed inode") /\ ~Stop("garbage index")
  <2>1. /\ th[t].pc = "cleanup" /\ linked' = linked /\ length' = length
        /\ inode' = [inode EXCEPT ![i].sector = None] /\ open_inodes' = open_inodes
        /\ th' = [th EXCEPT ![t].pc = "idle", ![t].ino = None]
    BY <1>2, <1>6 DEF inode_dir_cleanup, Running
  <2>2. \A j \in Struct : inode'[j].sector = inode[j].sector
                            \/ (j = i /\ inode'[j].sector = None)
    BY <1>1, <2>1 DEF InodeRec
  <2>3. /\ th'[t].pc = "idle" /\ th'[t].ino = None
        /\ \A u \in Thread : u # t => th'[u] = th[u]
    BY <1>1, <2>1 DEF ThreadRec
  <2> QED BY <1>2, <1>4, <2>1, <2>2, <2>3 DEF Plain
<1>7. CASE file_deny_write(t) /\ ~Stop("freed inode")
  <2>1. /\ th[t].pc = "idle" /\ linked' = linked /\ length' = length
        /\ inode' = [inode EXCEPT ![i].deny_write_cnt = @ + 1] /\ open_inodes' = open_inodes
        /\ th' = [th EXCEPT ![t].deny_write = TRUE, ![t].calls = @ + 1]
    BY <1>2, <1>7 DEF file_deny_write, MayCall, Running, disk
  <2>2. \A j \in Struct : inode'[j].sector = inode[j].sector
    BY <1>1, <2>1 DEF InodeRec
  <2>3. /\ th'[t].pc = "idle" /\ th'[t].ino = i
        /\ \A u \in Thread : u # t => th'[u] = th[u]
    BY <1>1, <1>2, <2>1 DEF ThreadRec
  <2> QED BY <1>2, <1>4, <2>1, <2>2, <2>3 DEF Plain
<1> QED BY <1>3, <1>5, <1>6, <1>7

(* A thread that is past its search keeps its place. *)
LEMMA MovedPlain ==
  ASSUME NEW t \in Thread, \A u \in Thread : u # t => th'[u] = th[u],
         th[t].pc \in {"idle", "write", "grow", "copy"},
         th'[t].pc \in {"idle", "write", "grow", "copy"}, th'[t].ino = th[t].ino,
         open_inodes' = open_inodes, \A i \in Struct : inode'[i].sector = inode[i].sector
  PROVE  Plain(t)
BY DEF Plain

(* What Return leaves of a thread. *)
LEMMA ReturnsPlain ==
  ASSUME Base, NEW t \in Thread, Return(t)
  PROVE  /\ th'[t].pc = "idle" /\ th'[t].ino = th[t].ino
         /\ \A u \in Thread : u # t => th'[u] = th[u]
<1>1. th \in [Thread -> ThreadRec]
  BY BaseFacts
<1>2. th' = [th EXCEPT ![t] = Rest(th[t].ino, th[t].deny_write, th[t].calls)]
  BY DEF Return
<1>3. th'[t] = Rest(th[t].ino, th[t].deny_write, th[t].calls) /\ \A u \in Thread : u # t => th'[u] = th[u]
  BY <1>1, <1>2
<1> QED BY <1>3 DEF Rest

LEMMA WriteOpening ==
  ASSUME IInv, Opening, Sound' => Sound, NEW t \in Thread,
         \/ \E r \in Requests : inode_write_at(t, r)
         \/ \E n \in {0, 1} : filesys_create(t, n)
         \/ Locked(t) \/ Copy(t)
  PROVE  Opening'
<1>0. Base /\ SettleInv /\ (Sound => SearchInv)
  BY DEF IInv, Opening
<1>1. th \in [Thread -> ThreadRec] /\ th[t] \in ThreadRec
  BY <1>0, BaseFacts
<1>3. CASE Stop("freed inode") \/ Stop("null handle") \/ Stop("no sector for the inode")
  BY <1>0, <1>3, StopOpening
<1>4. ASSUME Plain(t), linked' = linked, length' = length PROVE Opening'
  BY <1>0, <1>4, PlainOpening
<1>5. CASE \E r \in Requests : inode_write_at(t, r) /\ ~Stop("freed inode")
  <2>1. PICK r \in Requests : inode_write_at(t, r) /\ ~Stop("freed inode")
    BY <1>5
  <2>2. PICK i : i = th[t].ino
    OBVIOUS
  <2>3. /\ th[t].pc = "idle" /\ UNCHANGED <<length, inode, open_inodes, linked>>
        /\ th' = IF inode[i].deny_write_cnt # 0 THEN [th EXCEPT ![t].calls = @ + 1]
                 ELSE [th EXCEPT ![t].pc = "write", ![t].main = inode[i].sector,
                                 ![t].offset = r[1], ![t].end = r[1] + r[2],
                                 ![t].start = bytes_to_sectors(inode[i].length),
                                 ![t].calls = @ + 1]
    BY <2>1, <2>2 DEF inode_write_at, MayCall, Running, disk, memory
  <2>4. /\ th'[t].pc \in {"idle", "write"} /\ th'[t].ino = th[t].ino
        /\ \A u \in Thread : u # t => th'[u] = th[u]
    BY <1>1, <2>3 DEF ThreadRec
  <2>5. Plain(t)
    BY <2>3, <2>4, MovedPlain
  <2> QED BY <1>4, <2>3, <2>5
<1>6. CASE \E n \in {0, 1} : filesys_create(t, n) /\ ~Stop("no sector for the inode")
  <2>1. PICK n \in {0, 1} : filesys_create(t, n) /\ ~Stop("no sector for the inode")
    BY <1>6
  <2>2. PICK m : m = Least(Sector \ free_map)
    OBVIOUS
  <2>3. /\ th[t].pc = "idle" /\ UNCHANGED <<length, inode, open_inodes, linked>>
        /\ th' = [Allocate(t, m, 0) EXCEPT
                    ![t].pc = "grow", ![t].main = m, ![t].creating = TRUE,
                    ![t].start = 0, ![t].end = n, ![t].calls = @ + 1]
    BY <2>1, <2>2 DEF filesys_create, MayCall, Running, disk, memory
  <2>4. /\ th'[t].pc = "grow" /\ th'[t].ino = th[t].ino
        /\ \A u \in Thread : u # t => th'[u] = th[u]
    BY <1>1, <2>3 DEF ThreadRec, Allocate
  <2>5. Plain(t)
    BY <2>3, <2>4, MovedPlain
  <2> QED BY <1>4, <2>3, <2>5
<1>7. CASE Locked(t) /\ ~Stop("freed inode")
  <2>1. /\ th[t].pc = "write" /\ UNCHANGED <<length, inode, open_inodes, linked>>
        /\ \/ th' = [Allocate(t, th[t].main, th[t].start) EXCEPT ![t].pc = "grow"]
           \/ th' = [th EXCEPT ![t].pc = "copy"]
    BY <1>7 DEF Locked, Running, Goto, disk, memory
  <2>2. /\ th'[t].pc \in {"grow", "copy"} /\ th'[t].ino = th[t].ino
        /\ \A u \in Thread : u # t => th'[u] = th[u]
    BY <1>1, <2>1 DEF ThreadRec, Allocate
  <2>3. Plain(t)
    BY <2>1, <2>2, MovedPlain
  <2> QED BY <1>4, <2>1, <2>3
<1>8. CASE Copy(t) /\ ~Stop("null handle")
  <2>1. PICK next : /\ th[t].pc = "copy" /\ UNCHANGED <<length, inode, open_inodes, linked>>
                    /\ th' = [th EXCEPT ![t].offset = next]
    BY <1>8 DEF Copy, Running, memory
  <2>2. /\ th'[t].pc = "copy" /\ th'[t].ino = th[t].ino
        /\ \A u \in Thread : u # t => th'[u] = th[u]
    BY <1>1, <2>1 DEF ThreadRec
  <2>3. Plain(t)
    BY <2>1, <2>2, MovedPlain
  <2> QED BY <1>4, <2>1, <2>3
<1> QED BY <1>3, <1>5, <1>6, <1>7, <1>8

(* A length changes of an inode that is not linked yet, or has a struct. *)
LEMMA GrowOpening ==
  ASSUME IInv, Opening, Sound' => Sound, NEW t \in Thread,
         AllocateLevel(t) \/ GrowthDone(t) \/ Written(t)
  PROVE  Opening'
<1>0. Base /\ SettleInv /\ (Sound => SearchInv)
  BY DEF IInv, Opening
<1>1. /\ th \in [Thread -> ThreadRec] /\ th[t] \in ThreadRec /\ LocalsOK(th[t])
      /\ inode \in [Struct -> InodeRec]
  BY <1>0, BaseFacts
<1>2. PICK m, i : m = th[t].main /\ i = th[t].ino
  OBVIOUS
<1>3. CASE Stop("freed inode") \/ Stop("garbage index")
  BY <1>0, <1>3, StopOpening
<1>4. ASSUME Plain(t), linked \subseteq linked',
             \/ length' = length
             \/ \E n : /\ length' = [length EXCEPT ![m] = n]
                       /\ Sound => m \notin linked \/ \E j \in Struct : inode[j].sector = m
      PROVE  Opening'
  <2>1. length \in [Sector -> 0..Cardinality(Pos)] /\ linked \subseteq Sector
    BY <1>0 DEF Base, TypeOK
  <2>2. ASSUME Sound, NEW u \in Thread, th[u].main \in linked, \A j \in Struct : inode[j].sector # th[u].main
        PROVE  length'[th[u].main] = length[th[u].main]
    BY <1>4, <2>1, <2>2
  <2> QED BY <1>0, <1>4, <2>2, PlainOpening
<1>5. CASE AllocateLevel(t) /\ ~Stop("garbage index")
  <2>1. /\ th[t].pc = "grow" /\ UNCHANGED <<length, inode, open_inodes, linked>>
    BY <1>5 DEF AllocateLevel, Running, memory
  <2>2. /\ th'[t].pc \in {"grow", "idle"} /\ th'[t].ino = th[t].ino
        /\ \A u \in Thread : u # t => th'[u] = th[u]
    <3>1. CASE Failed(t, m)
      <4>1. CASE Return(t)
        BY <1>0, <4>1, ReturnsPlain
      <4>2. CASE th' = th
        BY <2>1, <4>2
      <4> QED BY <3>1, <4>1, <4>2 DEF Failed
    <3>2. PICK l, x : l = th[t].level /\ x = th[t].cur
      OBVIOUS
    <3>3. PICK new : new = (ptr[x][get_redirection_ids(th[t].idx)[l]] = None)
      OBVIOUS
    <3>4. PICK c : c = IF new THEN Least(Sector \ free_map) ELSE ptr[x][get_redirection_ids(th[t].idx)[l]]
      OBVIOUS
    <3>5. CASE th' = IF l < REDIRECTION_LEVEL
                       THEN [th EXCEPT ![t].level = l + 1, ![t].cur = c, ![t].fresh = new]
                       ELSE Allocate(t, m, th[t].idx + 1)
      <4>1. CASE th' = [th EXCEPT ![t].level = l + 1, ![t].cur = c, ![t].fresh = new]
        BY <1>1, <2>1, <4>1 DEF ThreadRec
      <4>2. CASE th' = Allocate(t, m, th[t].idx + 1)
        BY <1>1, <2>1, <4>2 DEF ThreadRec, Allocate
      <4> QED BY <3>5, <4>1, <4>2
    <3> QED BY <1>2, <1>5, <3>1, <3>2, <3>3, <3>4, <3>5 DEF AllocateLevel
  <2>3. Plain(t)
    BY <2>1, <2>2, MovedPlain
  <2> QED BY <1>4, <2>1, <2>3
<1>6. CASE GrowthDone(t)
  <2>1. th[t].pc = "grow" /\ UNCHANGED <<inode, open_inodes>>
    BY <1>6 DEF GrowthDone, Running, memory
  <2>2. CASE th[t].creating
    <3>1. Return(t) /\ length' = [length EXCEPT ![m] = th[t].end] /\ linked \subseteq linked'
      BY <1>2, <1>6, <2>2 DEF GrowthDone, Allocated, Linked, NotLinked
    <3>2. Plain(t)
      BY <1>0, <2>1, <3>1, ReturnsPlain, MovedPlain
    <3>3. Sound => m \notin linked
      BY <1>2, <2>2 DEF IInv, SoundInv, LinkInv
    <3> QED BY <1>4, <3>1, <3>2, <3>3
  <2>3. CASE ~th[t].creating
    <3>1. /\ th' = [th EXCEPT ![t].pc = "copy", ![t].grown = TRUE]
          /\ UNCHANGED <<length, linked>>
      BY <1>6, <2>3 DEF GrowthDone, Allocated
    <3>2. /\ th'[t].pc = "copy" /\ th'[t].ino = th[t].ino
          /\ \A u \in Thread : u # t => th'[u] = th[u]
      BY <1>1, <3>1 DEF ThreadRec
    <3>3. Plain(t)
      BY <2>1, <3>2, MovedPlain
    <3> QED BY <1>4, <3>1, <3>3
  <2> QED BY <2>2, <2>3
<1>7. CASE Written(t) /\ ~Stop("freed inode")
  <2>1. th[t].pc = "copy" /\ Return(t) /\ UNCHANGED <<open_inodes, linked>>
    BY <1>7 DEF Written, Running, memory
  <2>2. CASE th[t].grown
    <3>1. inode' = [inode EXCEPT ![i].length = th[t].end] /\ length' = [length EXCEPT ![m] = SavedLength(t)]
      BY <1>2, <1>7, <2>2 DEF Written
    <3>2. \A j \in Struct : inode'[j].sector = inode[j].sector
      BY <1>1, <3>1 DEF InodeRec
    <3>3. Plain(t)
      BY <1>0, <2>1, <3>2, ReturnsPlain, MovedPlain
    <3>4. i \in Struct /\ ~th[t].creating
      BY <1>1, <1>2, <2>1 DEF LocalsOK, ThreadRec
    <3>5. Sound => inode[i].sector = m
      BY <1>2, <2>1, <3>4 DEF IInv, SoundInv, LockInv
    <3> QED BY <1>4, <2>1, <3>1, <3>3, <3>4, <3>5
  <2>3. CASE ~th[t].grown
    <3>1. UNCHANGED <<inode, length>>
      BY <1>7, <2>3 DEF Written, disk, memory
    <3>2. Plain(t)
      BY <1>0, <2>1, <3>1, ReturnsPlain, MovedPlain
    <3> QED BY <1>4, <2>1, <3>1, <3>2
  <2> QED BY <2>2, <2>3
<1> QED BY <1>3, <1>5, <1>6, <1>7

(* The whole invariant, for as long as no two threads open one inode. *)
LEMMA NextStep ==
  ASSUME Inv, [Next]_vars, shared' = {}
  PROVE  IInv /\ IInv' /\ Opening /\ Opening' /\ (Sound' => Sound)
<1>1. IInv /\ Opening
  <2>1. shared = {}
    BY SharedGrows
  <2> QED BY <2>1 DEF Inv
<1>2. SettleInv /\ (Sound => SearchInv)
  BY <1>1 DEF Opening
<1>3. CASE \E t \in Thread : Step(t) \/ Call(t)
  <2>1. PICK t \in Thread : Step(t) \/ Call(t)
    BY <1>3
  <2>2. IInv' /\ (Sound' => Sound)
    BY <1>1, <1>2, <2>1, ThreadSteps
  <2>3. Opening'
    <3>1. CASE Step(t)
      BY <1>1, <2>2, <3>1, ReopenOpening, ReadOpening, PublishOpening, SettleOpening,
         CloseOpening, WriteOpening, GrowOpening DEF Step
    <3>2. CASE Call(t)
      BY <1>1, <2>2, <3>2, OpenOpening, RemoveOpening, CloseOpening, WriteOpening DEF Call
    <3> QED BY <2>1, <3>1, <3>2
  <2> QED BY <1>1, <2>2, <2>3
<1>4. CASE (\E s \in Sector : CacheDrops(s)) \/ UNCHANGED vars
  <2>1. IInv' /\ (Sound' => Sound)
    BY <1>1, <1>4, DropStep, StillStep
  <2>2. UNCHANGED <<th, inode, open_inodes, linked, length>>
    BY <1>4 DEF CacheDrops, vars, disk, memory
  <2>3. Opening'
    BY <1>2, <2>1, <2>2 DEF Opening, SettleInv, SearchInv
  <2> QED BY <1>1, <2>1, <2>3
<1> QED BY <1>3, <1>4 DEF Next, Finished

LEMMA InvKept ==
  ASSUME Inv, [Next]_vars
  PROVE  Inv'
BY NextStep DEF Inv

(* The device starts empty and nobody has a file. *)
LEMMA InitStep ==
  ASSUME Init
  PROVE  Inv
<1> DEFINE r == Rest(None, FALSE, 0)
           f == [sector |-> None, open_cnt |-> 0, removed |-> FALSE, deny_write_cnt |-> 0, length |-> 0]
<1>1. /\ r \in ThreadRec /\ r.pc = "idle" /\ r.ino = None /\ ~r.creating /\ ~r.grown /\ ~r.deny_write
      /\ r.offset = 0 /\ r.end = 0
  <2>1. 0 \in 0..MaxCalls /\ 1 \in 1..REDIRECTION_LEVEL
    BY InodeAssumption DEF InodeAssumption
  <2> QED BY <2>1 DEF Rest, ThreadRec, Points
<1>2. f \in InodeRec /\ f.sector = None /\ f.open_cnt = 0 /\ f.deny_write_cnt = 0
  BY DEF InodeRec
<1>3. th = [t \in Thread |-> r] /\ inode = [i \in Struct |-> f]
  BY DEF Init
<1> HIDE DEF r, f
<1>4. \A t \in Thread : th[t] = r
  BY <1>3
<1>5. \A i \in Struct : inode[i] = f /\ Freed(i)
  BY <1>2, <1>3 DEF Freed
<1>6. TypeOK
  <2>1. th \in [Thread -> ThreadRec] /\ inode \in [Struct -> InodeRec]
    BY <1>1, <1>2, <1>3
  <2>2. ptr \in [Sector -> [Entry -> Sector \cup {None}]]
    BY DEF Init, Empty
  <2>3. length \in [Sector -> 0 .. Cardinality(Pos)]
    BY IndexOK DEF Init
  <2>4. bytes \in [Sector -> [Byte -> Thread \cup {Zero}]] /\ lock \in [Sector -> Thread \cup {None}]
    BY DEF Init
  <2>5. /\ free_map \subseteq Sector /\ linked \subseteq Sector /\ shared \subseteq Sector
        /\ unsaved \subseteq Sector /\ garbage \subseteq Sector /\ leaked \subseteq Sector
        /\ open_inodes \subseteq Struct
    BY DEF Init
  <2> QED BY <2>1, <2>2, <2>3, <2>4, <2>5 DEF TypeOK, ThreadRec, InodeRec
<1>7. ThreadInv
  BY <1>1, <1>4, IndexOK DEF ThreadInv
<1>8. Counts
  <2> SUFFICES ASSUME NEW i \in Struct
               PROVE  /\ inode[i].open_cnt = Cardinality(Openers(i))
                      /\ inode[i].deny_write_cnt = Cardinality({t \in Openers(i) : th[t].deny_write})
    BY DEF Counts
  <2>1. Openers(i) = {}
    BY <1>1, <1>4, Sizes DEF Openers
  <2>2. {t \in Openers(i) : th[t].deny_write} = {}
    BY <2>1
  <2> QED BY <1>2, <1>5, <2>1, <2>2, FS_EmptySet
<1>9. StructInv
  BY <1>1, <1>4, <1>5 DEF Init, StructInv, StructUsed, StructListed, StructRefs
<1>10. SoundInv
  <2>1. linked = {} /\ free_map = {} /\ leaked = {} /\ lock = [s \in Sector |-> None]
    BY DEF Init
  <2>2. LinkInv
    BY <1>1, <1>4, <1>5 DEF LinkInv
  <2>3. LockInv
    BY <1>1, <1>4, <2>1 DEF LockInv, Grower
  <2>4. InUse = {}
    BY <1>1, <1>2, <1>4, <1>5, <2>1 DEF InUse
  <2>5. TreeInv
    BY <2>1, <2>4 DEF TreeInv, TreeIn, ReachIn
  <2>6. GrowInv /\ LengthInv
    BY <1>1, <1>4, <1>5 DEF GrowInv, GrowOK, LengthInv, LengthOK, Grower
  <2>7. DataInv
    <3>1. expect \in [Sector -> [Pos -> Thread \cup {Zero}]]
      BY DEF Init
    <3>2. \A m \in Sector : ~(m \in linked \/ \E i \in Struct : inode[i].sector = m)
      BY <1>2, <1>5, <2>1, Sizes
    <3>3. \A t \in Thread : WriterInv(t)
      BY <1>1, <1>4 DEF WriterInv
    <3> QED BY <3>1, <3>2, <3>3 DEF DataInv
  <2> QED BY <2>2, <2>3, <2>5, <2>6, <2>7 DEF SoundInv
<1>11. Opening
  BY <1>1, <1>4 DEF Opening, SettleInv, SearchInv
<1> QED BY <1>6, <1>7, <1>8, <1>9, <1>10, <1>11 DEF Inv, IInv, Base

(* A length changes when a file is complete, and when a growing write ends. *)
LEMMA LengthStep ==
  ASSUME IInv, NEW t \in Thread, Step(t) \/ Call(t), Sound, NEW m \in linked
  PROVE  length'[m] >= length[m]
<1>0. Base /\ SoundInv /\ m \in Sector /\ length \in [Sector -> Nat]
  <2>1. Base /\ SoundInv
    BY DEF IInv
  <2>2. m \in Sector /\ length \in [Sector -> 0..Cardinality(Pos)]
    BY <2>1 DEF Base, TypeOK
  <2> QED BY <2>1, <2>2, IndexOK
<1>1. ASSUME length' = length PROVE length'[m] >= length[m]
  <2>1. length[m] \in Nat
    BY <1>0
  <2> QED BY <1>1, <2>1
<1>2. CASE GrowthDone(t)
  <2>1. CASE th[t].creating
    <3>1. length' = [length EXCEPT ![th[t].main] = th[t].end]
      BY <1>2, <2>1 DEF GrowthDone, Allocated
    <3>2. th[t].main # m
      BY <1>0, <2>1 DEF SoundInv, LinkInv
    <3>3. length'[m] = length[m] /\ length[m] \in Nat
      BY <1>0, <3>1, <3>2
    <3> QED BY <3>3
  <2>2. CASE ~th[t].creating
    <3>1. length' = length
      BY <1>2, <2>2 DEF GrowthDone, Allocated
    <3> QED BY <1>1, <3>1
  <2> QED BY <2>1, <2>2
<1>3. CASE Written(t)
  <2>0. CASE Stop("freed inode")
    <3>1. length' = length
      BY <2>0 DEF Stop, disk
    <3> QED BY <1>1, <3>1
  <2>1. CASE th[t].grown /\ ~Stop("freed inode")
    <3>1. length' = [length EXCEPT ![th[t].main] = th[t].end]
      BY <1>3, <2>1 DEF Written, SavedLength
    <3>2. th[t].pc = "copy" /\ LocalsOK(th[t]) /\ th[t] \in ThreadRec
      BY <1>0, <1>3, BaseFacts DEF Written, Running
    <3>3. length[th[t].main] < th[t].end /\ th[t].end \in Nat
      BY <1>0, <2>1, <3>2 DEF SoundInv, LengthInv, LengthOK, Grower, LocalsOK, ThreadRec
    <3>4. length[m] \in Nat /\ (length'[m] = length[m] \/ (th[t].main = m /\ length'[m] = th[t].end))
      BY <1>0, <3>1
    <3> QED BY <3>3, <3>4
  <2>2. CASE ~th[t].grown
    <3>1. length' = length
      BY <1>3, <2>2 DEF Written, disk
    <3> QED BY <1>1, <3>1
  <2> QED BY <2>0, <2>1, <2>2
<1>4. CASE ~GrowthDone(t) /\ ~Written(t)
  <2>1. /\ inode_reopen(t) \/ ReadInode(t) \/ Publish(t) \/ Settle(t) => length' = length
        /\ file_close(t) \/ inode_dir_cleanup(t) => length' = length
    BY DEF inode_reopen, ReadInode, Publish, Settle, file_close, inode_dir_cleanup, Stop, disk
  <2>2. AllocateLevel(t) => length' = length
    BY DEF AllocateLevel, Stop, disk
  <2>3. Locked(t) \/ Copy(t) => length' = length
    BY DEF Locked, Copy, Stop, disk
  <2>4. Call(t) => length' = length
    BY DEF Call, inode_open, inode_remove, file_deny_write, filesys_create, inode_write_at, Stop, disk
  <2> QED BY <1>1, <1>4, <2>1, <2>2, <2>3, <2>4 DEF Step
<1> QED BY <1>2, <1>3, <1>4

(* The invariant gives each property of the runs. *)
LEMMA InvCounts ==
  ASSUME Inv
  PROVE  CountsMatch
<1> SUFFICES ASSUME IInv PROVE CountsMatch
  BY DEF Inv, CountsMatch
<1>1. TypeOK /\ Counts /\ open_inodes \subseteq Struct
  BY DEF IInv, Base, TypeOK
<1> QED BY <1>1 DEF CountsMatch, Counts

LEMMA InvOwned ==
  ASSUME Inv
  PROVE  SectorsOwned
<1> SUFFICES ASSUME Sound PROVE /\ free_map = leaked \cup UNION {Reach(m) : m \in InUse}
                                /\ \A m \in InUse : Reach(m) \cap leaked = {}
                                /\ \A m, n \in InUse : \A x \in Node(m), y \in Node(n) :
                                      x[3] = y[3] /\ x[3] # None => m = n /\ x = y
  BY DEF SectorsOwned
<1>1. /\ TreeIn(ptr, InUse) /\ free_map = ReachIn(ptr, InUse) \cup leaked
      /\ ReachIn(ptr, InUse) \cap leaked = {}
  BY DEF Inv, IInv, SoundInv, TreeInv, Sound
<1>2. /\ free_map = leaked \cup UNION {Reach(m) : m \in InUse}
      /\ \A m \in InUse : Reach(m) \cap leaked = {}
  <2>1. \A m : Reach(m) = ReachIn(ptr, {m})
    BY ReachIs
  <2>2. \A m, s : s \in ReachIn(ptr, {m}) <=> s # None /\ \E i \in Index, l \in Level : s = WayIn(ptr, m, i)[l]
    BY DEF ReachIn
  <2>3. \A s : s \in ReachIn(ptr, InUse) <=>
                 s # None /\ \E m \in InUse, i \in Index, l \in Level : s = WayIn(ptr, m, i)[l]
    BY DEF ReachIn
  <2>4. \A s : s \in ReachIn(ptr, InUse) <=> \E m \in InUse : s \in ReachIn(ptr, {m})
    <3>1. ASSUME NEW s \in ReachIn(ptr, InUse) PROVE \E m \in InUse : s \in ReachIn(ptr, {m})
      <4>1. s # None
        BY <2>3
      <4>2. PICK m \in InUse, i \in Index, l \in Level : s = WayIn(ptr, m, i)[l]
        BY <2>3
      <4>3. s \in ReachIn(ptr, {m})
        BY <2>2, <4>1, <4>2
      <4> QED BY <4>3
    <3>2. ASSUME NEW m \in InUse, NEW s \in ReachIn(ptr, {m}) PROVE s \in ReachIn(ptr, InUse)
      <4>1. s # None
        BY <2>2
      <4>2. PICK i \in Index, l \in Level : s = WayIn(ptr, m, i)[l]
        BY <2>2
      <4> QED BY <2>3, <4>1, <4>2
    <3> QED BY <3>1, <3>2
  <2>5. ReachIn(ptr, InUse) = UNION {Reach(m) : m \in InUse}
    BY <2>1, <2>4
  <2> QED BY <1>1, <2>5
<1>3. ASSUME NEW m \in InUse, NEW n \in InUse, NEW x \in Node(m), NEW y \in Node(n),
             x[3] = y[3], x[3] # None
      PROVE  m = n /\ x = y
  <2>1. PICK k \in Level, i \in Index : x = <<k, Place(i, k), WayIn(ptr, m, i)[k]>>
    BY ReachIs
  <2>2. PICK l \in Level, j \in Index : y = <<l, Place(j, l), WayIn(ptr, n, j)[l]>>
    BY ReachIs
  <2>3. WayIn(ptr, m, i)[k] = WayIn(ptr, n, j)[l] /\ WayIn(ptr, m, i)[k] # None
    BY <1>3, <2>1, <2>2
  <2>4. m = n /\ k = l /\ Place(i, k) = Place(j, l)
    BY <1>1, <2>3 DEF TreeIn
  <2> QED BY <2>1, <2>2, <2>3, <2>4
<1> QED BY <1>2, <1>3

LEMMA InvReads ==
  ASSUME Inv
  PROVE  ReadsWritten
<1> SUFFICES ASSUME Sound, NEW i \in open_inodes, NEW p \in Pos, p < inode[i].length
             PROVE  Backed(i, p) /\ inode_read_at(i, p) = expect[inode[i].sector][p]
  BY DEF ReadsWritten
<1>1. SoundInv /\ Base
  BY DEF Inv, IInv, Sound
<1>2. PICK m : m = inode[i].sector
  OBVIOUS
<1>3. i \in Struct /\ ~Freed(i) /\ m \in Sector
  <2>1. i \in Struct /\ inode \in [Struct -> InodeRec]
    BY <1>1 DEF Base, TypeOK, InodeRec
  <2>2. ~Freed(i)
    BY <1>1, <2>1 DEF Base, StructInv, StructListed
  <2>3. inode[i] \in InodeRec
    BY <2>1
  <2> QED BY <1>2, <2>1, <2>2, <2>3 DEF Freed, InodeRec
<1>4. FileInv(m) /\ inode[i].length = length[m]
  BY <1>1, <1>2, <1>3 DEF SoundInv, DataInv, LengthInv
<1>5. BackedIn(ptr, m, p) /\ Holds(ptr, bytes, m, p) = expect[m][p]
  BY <1>4 DEF FileInv
<1>6. \A j : get_inode_sector(m, j) = SectorAt(ptr, m, j)
  BY WayIs DEF get_inode_sector, SectorAt
<1> QED BY <1>2, <1>5, <1>6 DEF Backed, inode_read_at, BackedIn, Holds

(* The counters of an open inode are those of its openers once inode_open  *)
(* has set them, whatever the order of inode_open, inode_reopen,           *)
(* inode_close and their waits, as long as no two threads have been        *)
(* opening one inode at once; all variables have their types.              *)
THEOREM CountsMatchAlways == Spec => []CountsMatch
<1>1. Init => Inv
  BY InitStep
<1>2. Inv /\ [Next]_vars => Inv'
  BY InvKept
<1>3. Inv => CountsMatch
  BY InvCounts
<1> QED BY <1>1, <1>2, <1>3, PTL DEF Spec

(* The free map marks exactly the sectors of the inodes in use, each at    *)
(* one place of one inode, and those a create left behind when its dir_add *)
(* failed, through growth, its failure, removal and inode_dir_cleanup.     *)
THEOREM SectorsOwnedAlways == Spec => []SectorsOwned
<1>1. Init => Inv
  BY InitStep
<1>2. Inv /\ [Next]_vars => Inv'
  BY InvKept
<1>3. Inv => SectorsOwned
  BY InvOwned
<1> QED BY <1>1, <1>2, <1>3, PTL DEF Spec

(* A reader that goes by the length in the struct finds what was written   *)
(* before it, or zeros, while others grow the file.                        *)
THEOREM ReadsWrittenAlways == Spec => []ReadsWritten
<1>1. Init => Inv
  BY InitStep
<1>2. Inv /\ [Next]_vars => Inv'
  BY InvKept
<1>3. Inv => ReadsWritten
  BY InvReads
<1> QED BY <1>1, <1>2, <1>3, PTL DEF Spec

(* The length in memory is the one on disk, and a linked file never gets   *)
(* shorter, though writers count sectors from a length they read before    *)
(* they have the inode, and an opener publishes the length it read before  *)
(* its struct is in the list.                                              *)
THEOREM LengthsKeptAlways == Spec => LengthsKept
<1> DEFINE A == Sound' => LengthStored' /\ \A m \in linked \cap InUse' : length'[m] >= length[m]
<1>1. Init => Inv
  BY InitStep
<1>2. Inv /\ [Next]_vars => Inv'
  BY InvKept
<1>3. Inv /\ [Next]_vars => [A]_vars
  <2> SUFFICES ASSUME Inv, [Next]_vars, Sound'
               PROVE  LengthStored' /\ \A m \in linked \cap InUse' : length'[m] >= length[m]
    OBVIOUS
  <2>1. IInv /\ IInv' /\ Sound
    BY NextStep DEF Sound
  <2>2. LengthStored'
    <3>1. SoundInv' /\ Base'
      BY <2>1 DEF IInv
    <3>2. \A i \in open_inodes' : i \in Struct /\ ~Freed(i)'
      BY <3>1 DEF Base, TypeOK, StructInv, StructListed
    <3> QED BY <3>1, <3>2 DEF SoundInv, LengthInv, LengthStored
  <2>3. ASSUME NEW m \in linked PROVE length'[m] >= length[m]
    <3>1. CASE \E t \in Thread : Step(t) \/ Call(t)
      BY <2>1, <3>1, LengthStep
    <3>2. CASE (\E s \in Sector : CacheDrops(s)) \/ UNCHANGED vars
      <4>1. length' = length
        BY <3>2 DEF CacheDrops, vars, disk
      <4>2. m \in Sector /\ length \in [Sector -> 0..MaxLength]
        BY <2>1, IndexOK DEF IInv, Base, TypeOK
      <4>3. length[m] \in Nat
        BY <4>2, IndexOK
      <4> QED BY <4>1, <4>3
    <3> QED BY <3>1, <3>2 DEF Next, Finished
  <2> QED BY <2>2, <2>3
<1> QED BY <1>1, <1>2, <1>3, PTL DEF Spec, LengthsKept
=============================================================================
