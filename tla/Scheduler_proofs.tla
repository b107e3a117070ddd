-------------------------- MODULE Scheduler_proofs --------------------------
(***************************************************************************)
(* Proofs about Scheduler: every thread's elem is in one list, no wake-up  *)
(* and no signal is lost, and sleepers wake on time, for any threads,      *)
(* locks, semaphores and priorities.                                       *)
(***************************************************************************)
EXTENDS Scheduler, FiniteSetTheorems, WellFoundedInduction, TLAPS

-----------------------------------------------------------------------------
(* Induction over data: a least counterexample stands for the induction    *)
(* hypothesis.                                                             *)
LEMMA Least ==
  ASSUME NEW S \in SUBSET Nat, S # {}
  PROVE  \E n \in S : \A m \in S : n <= m
<1>1. \E x \in S : \A y \in S : ~ (<<y, x>> \in OpToRel(<, Nat))
  BY WFMin, NatLessThanWellFounded
<1>2. PICK x \in S : \A y \in S : ~(y < x)
  <2>1. \A x, y \in S : y < x => <<y, x>> \in OpToRel(<, Nat)
    BY Zenon DEF OpToRel
  <2> QED BY <1>1, <2>1, Zenon
<1> QED BY <1>2

(* A function on an initial segment has a maximum. *)
LEMMA Greatest ==
  ASSUME NEW n \in Nat, n > 0, NEW f \in [1..n -> Int]
  PROVE  \E i \in 1..n : \A j \in 1..n : f[j] <= f[i]
<1> DEFINE Has(m, g) == \E i \in 1..m : \A j \in 1..m : g[j] <= g[i]
           Bad == {m \in Nat : m > 0 /\ \E g \in [1..m -> Int] : ~Has(m, g)}
<1> SUFFICES ASSUME Bad # {} PROVE FALSE
  OBVIOUS
<1>1. PICK m \in Bad : \A k \in Bad : m <= k
  BY Least
<1>2. PICK g \in [1..m -> Int] : ~Has(m, g)
  BY <1>1
<1>3. m \in Nat /\ m > 1
  <2>1. m = 1 => Has(m, g)
    BY <1>2
  <2> QED BY <1>1, <1>2, <2>1
<1>4. PICK h \in [1..(m - 1) -> Int] : \A j \in 1..(m - 1) : h[j] = g[j]
  <2>1. [j \in 1..(m - 1) |-> g[j]] \in [1..(m - 1) -> Int]
    BY <1>2, <1>3
  <2> QED BY <2>1
<1>5. m - 1 \in Nat /\ m - 1 > 0 /\ m - 1 \notin Bad
  <2>1. m - 1 \in Nat /\ m - 1 > 0 /\ ~(m <= m - 1)
    BY <1>3
  <2> QED BY <1>1, <2>1
<1>6. PICK i \in 1..(m - 1) : \A j \in 1..(m - 1) : h[j] <= h[i]
  BY <1>4, <1>5
<1>7. i \in 1..m /\ m \in 1..m /\ \A j \in 1..m : j \in 1..(m - 1) \/ j = m
  BY <1>3, <1>6
<1>8. \A j \in 1..(m - 1) : g[j] <= g[i]
  BY <1>4, <1>6
<1>9. CASE g[m] <= g[i]
  <2>1. \A j \in 1..m : g[j] <= g[i]
    BY <1>7, <1>8, <1>9
  <2> QED BY <1>2, <1>7, <2>1
<1>10. CASE ~(g[m] <= g[i])
  <2>1. g[m] \in Int /\ g[i] \in Int /\ \A j \in 1..m : g[j] \in Int
    BY <1>2, <1>7
  <2>2. ASSUME NEW j \in 1..m PROVE g[j] <= g[m]
    <3>1. CASE j = m
      BY <2>1, <3>1
    <3>2. CASE j \in 1..(m - 1)
      <4>1. PICK a \in Int, b \in Int, c \in Int : a = g[j] /\ b = g[i] /\ c = g[m]
        BY <2>1
      <4>2. a <= b /\ ~(c <= b)
        BY <1>8, <1>10, <3>2, <4>1
      <4> QED BY <4>1, <4>2
    <3> QED BY <1>7, <3>1, <3>2
  <2> QED BY <1>2, <1>7, <2>2
<1> QED BY <1>9, <1>10

(* The iterates of a step function. *)
Iterates(f, X, S, x, B) ==
  f \in [0..B -> X] /\ f[0] = x /\ \A n \in 1..B : f[n] = S[f[n - 1]]

(* A step function can be iterated. *)
LEMMA Iterated ==
  ASSUME NEW X, NEW S \in [X -> X], NEW x \in X, NEW B \in Nat
  PROVE  \E f : Iterates(f, X, S, x, B)
<1> USE DEF Iterates
<1> DEFINE Has(m) == \E f : Iterates(f, X, S, x, m)
           Bad == {m \in Nat : ~Has(m)}
<1> SUFFICES ASSUME Bad # {} PROVE FALSE
  OBVIOUS
<1>1. PICK m \in Bad : \A k \in Bad : m <= k
  BY Least
<1>2. m \in Nat /\ ~Has(m)
  BY <1>1
<1>3. m # 0
  <2>1. PICK f : f = [n \in 0..0 |-> x]
    OBVIOUS
  <2>2. f \in [0..0 -> X] /\ f[0] = x /\ 1..0 = {}
    BY <2>1
  <2>3. Has(0)
    BY <2>2
  <2> QED BY <1>2, <2>3
<1>4. m - 1 \in Nat /\ Has(m - 1)
  <2>1. m - 1 \in Nat /\ ~(m <= m - 1)
    BY <1>2, <1>3
  <2> QED BY <1>1, <2>1
<1>5. PICK f \in [0..(m - 1) -> X] : f[0] = x /\ \A n \in 1..(m - 1) : f[n] = S[f[n - 1]]
  BY <1>4
<1>6. PICK g : g = [n \in 0..m |-> IF n = m THEN S[f[m - 1]] ELSE f[n]]
  OBVIOUS
<1>7. /\ \A n \in 0..(m - 1) : n \in 0..m /\ g[n] = f[n]
      /\ m \in 0..m /\ m - 1 \in 0..(m - 1) /\ g[m] = S[f[m - 1]]
  BY <1>2, <1>3, <1>4, <1>6
<1>8. g \in [0..m -> X]
  <2>1. \A n \in 0..m : (IF n = m THEN S[f[m - 1]] ELSE f[n]) \in X
    BY <1>2, <1>3, <1>4, <1>5, <1>7
  <2> QED BY <1>6, <2>1
<1>9. g[0] = x
  BY <1>2, <1>3, <1>5, <1>7
<1>10. ASSUME NEW n \in 1..m PROVE g[n] = S[g[n - 1]]
  <2>1. CASE n = m
    BY <1>2, <1>3, <1>7, <2>1
  <2>2. CASE n # m
    <3>1. n \in 1..(m - 1) /\ n - 1 \in 0..(m - 1) /\ n \in 0..(m - 1)
      BY <1>2, <1>3, <2>2
    <3> QED BY <1>5, <1>7, <3>1
  <2> QED BY <2>1, <2>2
<1> QED BY <1>2, <1>8, <1>9, <1>10

(* What holds at first and is kept by every step holds at the end. *)
LEMMA Kept ==
  ASSUME NEW X, NEW B \in Nat, NEW w, w[0] \in X,
         \A n \in 0..B : n + 1 \in 0..B /\ w[n] \in X => w[n + 1] \in X
  PROVE  w[B] \in X
<1> DEFINE Bad == {m \in 0..B : w[m] \notin X}
<1> SUFFICES ASSUME Bad # {} PROVE FALSE
  OBVIOUS
<1>1. PICK m \in Bad : \A k \in Bad : m <= k
  <2>1. Bad \in SUBSET Nat
    OBVIOUS
  <2> QED BY <2>1, Least
<1>2. PICK k \in 0..B : m = k + 1 /\ k \notin Bad
  <2>1. m - 1 \in 0..B /\ m = (m - 1) + 1 /\ ~(m <= m - 1)
    BY <1>1
  <2> QED BY <1>1, <2>1
<1> QED BY <1>1, <1>2

-----------------------------------------------------------------------------
(* Sequences without repetitions. *)
Once(s) == \A i, j \in DOMAIN s : s[i] = s[j] => i = j

(* What t is appended to. *)
LEMMA Appended ==
  ASSUME NEW T, NEW s \in Seq(T), NEW t \in T
  PROVE  /\ Append(s, t) \in Seq(T) /\ Append(s, t) # <<>>
         /\ ToSet(Append(s, t)) = ToSet(s) \cup {t}
         /\ Once(s) /\ t \notin ToSet(s) => Once(Append(s, t))
<1>1. PICK a : a = Append(s, t)
  OBVIOUS
<1>2. /\ a \in Seq(T) /\ Len(a) = Len(s) + 1 /\ Len(s) \in Nat
      /\ DOMAIN a = 1..(Len(s) + 1) /\ DOMAIN s = 1..Len(s)
      /\ a[Len(s) + 1] = t /\ \A i \in 1..Len(s) : a[i] = s[i]
  BY <1>1
<1>3. a # <<>>
  BY <1>2
<1>4. ToSet(a) = ToSet(s) \cup {t}
  BY <1>2 DEF ToSet
<1>5. ASSUME Once(s), t \notin ToSet(s) PROVE Once(a)
  <2> SUFFICES ASSUME NEW i \in 1..(Len(s) + 1), NEW j \in 1..(Len(s) + 1),
                      a[i] = a[j], i # j
               PROVE  FALSE
    BY <1>2 DEF Once
  <2>1. \A k \in 1..Len(s) : s[k] # t
    BY <1>2, <1>5 DEF ToSet
  <2> QED BY <1>2, <1>5, <2>1 DEF Once
<1> QED BY <1>1, <1>2, <1>3, <1>4, <1>5

(* Two lists, one after the other. *)
IsJoin(a, s, r) ==
  /\ Len(a) = Len(s) + Len(r)
  /\ \A i \in 1..Len(s) : a[i] = s[i]
  /\ \A i \in 1..Len(r) : a[i + Len(s)] = r[i]

(* Their elements and places are those of the two. *)
LEMMA Joined ==
  ASSUME NEW T, NEW s \in Seq(T), NEW r \in Seq(T)
  PROVE  /\ s \o r \in Seq(T) /\ IsJoin(s \o r, s, r)
         /\ ToSet(s \o r) = ToSet(s) \cup ToSet(r)
         /\ Once(s) /\ Once(r) /\ ToSet(s) \cap ToSet(r) = {} => Once(s \o r)
<1>1. PICK a : a = s \o r
  OBVIOUS
<1>2. /\ a \in Seq(T) /\ Len(s) \in Nat /\ Len(r) \in Nat /\ Len(a) = Len(s) + Len(r)
      /\ DOMAIN a = 1..(Len(s) + Len(r)) /\ DOMAIN s = 1..Len(s) /\ DOMAIN r = 1..Len(r)
      /\ \A i \in 1..(Len(s) + Len(r)) :
           a[i] = IF i <= Len(s) THEN s[i] ELSE r[i - Len(s)]
  BY <1>1
<1>3. PICK m \in Nat, n \in Nat : m = Len(s) /\ n = Len(r)
  BY <1>2
<1>4. \A i \in 1..m : i \in 1..(m + n) /\ a[i] = s[i]
  BY <1>2, <1>3
<1>5. ASSUME NEW i \in 1..n PROVE i + m \in 1..(m + n) /\ a[i + m] = r[i]
  <2>1. PICK k \in 1..(m + n) : k = i + m
    BY <1>3
  <2>2. ~(k <= m) /\ k - m = i
    BY <1>3, <2>1
  <2>3. a[k] = r[k - m]
    BY <1>2, <1>3, <2>2
  <2> QED BY <2>1, <2>2, <2>3
<1>6. ASSUME NEW i \in 1..(m + n)
      PROVE  (i \in 1..m /\ a[i] = s[i]) \/ (i - m \in 1..n /\ a[i] = r[i - m])
  <2>1. a[i] = IF i <= m THEN s[i] ELSE r[i - m]
    BY <1>2, <1>3
  <2>2. IF i <= m THEN i \in 1..m ELSE i - m \in 1..n
    BY <1>3
  <2> QED BY <2>1, <2>2
<1>7. ToSet(a) = ToSet(s) \cup ToSet(r)
  <2>1. ToSet(a) \subseteq ToSet(s) \cup ToSet(r)
    BY <1>2, <1>3, <1>6 DEF ToSet
  <2>2. ToSet(s) \subseteq ToSet(a)
    BY <1>2, <1>3, <1>4 DEF ToSet
  <2>3. ToSet(r) \subseteq ToSet(a)
    <3>1. ASSUME NEW i \in 1..n PROVE r[i] \in {a[k] : k \in 1..(m + n)}
      BY <1>5
    <3> QED BY <1>2, <1>3, <3>1 DEF ToSet
  <2> QED BY <2>1, <2>2, <2>3
<1>8. ASSUME Once(s), Once(r), ToSet(s) \cap ToSet(r) = {} PROVE Once(a)
  <2> SUFFICES ASSUME NEW i \in 1..(m + n), NEW j \in 1..(m + n), a[i] = a[j]
               PROVE  i = j
    BY <1>2, <1>3 DEF Once
  <2>1. \A k \in 1..m, l \in 1..n : s[k] # r[l]
    BY <1>2, <1>3, <1>8 DEF ToSet
  <2>2. CASE i \in 1..m /\ j \in 1..m
    BY <1>2, <1>3, <1>4, <1>8, <2>2 DEF Once
  <2>3. CASE i - m \in 1..n /\ j - m \in 1..n /\ a[i] = r[i - m] /\ a[j] = r[j - m]
    <3>1. i - m = j - m
      BY <1>2, <1>3, <1>8, <2>3 DEF Once
    <3> QED BY <3>1
  <2> QED BY <1>6, <2>1, <2>2, <2>3
<1>9. IsJoin(a, s, r)
  BY <1>2, <1>3, <1>4, <1>5 DEF IsJoin
<1> QED BY <1>1, <1>2, <1>7, <1>8, <1>9

(* A list cut in two. *)
IsCut(s, n, a, b) ==
  /\ Len(a) = n /\ Len(b) = Len(s) - n
  /\ \A i \in 1..n : a[i] = s[i]
  /\ \A i \in 1..(Len(s) - n) : b[i] = s[i + n]

(* The elements of the two parts are those of the list. *)
LEMMA Cut ==
  ASSUME NEW T, NEW s \in Seq(T), NEW n \in 0..Len(s)
  PROVE  LET a == SubSeq(s, 1, n)
             b == SubSeq(s, n + 1, Len(s))
         IN  /\ a \in Seq(T) /\ b \in Seq(T)
             /\ IsCut(s, n, a, b)
             /\ ToSet(s) = ToSet(a) \cup ToSet(b)
             /\ Once(s) => Once(a) /\ Once(b) /\ ToSet(a) \cap ToSet(b) = {}
<1>1. PICK a, b : a = SubSeq(s, 1, n) /\ b = SubSeq(s, n + 1, Len(s))
  OBVIOUS
<1>2. PICK m \in Nat : m = Len(s) - n
  OBVIOUS
<1>3. /\ n \in Nat /\ Len(s) = m + n /\ DOMAIN s = 1..(m + n)
      /\ \A i \in 1..(m + n) : s[i] \in T
  BY <1>2
<1>4. /\ a \in Seq(T) /\ Len(a) = n /\ DOMAIN a = 1..n
      /\ \A i \in 1..n : i \in 1..(m + n) /\ a[i] = s[i]
  BY <1>1, <1>3
<1>5. /\ b \in Seq(T) /\ Len(b) = m /\ DOMAIN b = 1..m
      /\ \A i \in 1..m : i + n \in 1..(m + n) /\ b[i] = s[i + n]
  <2>1. /\ n + 1 \in Int /\ m + n \in Int /\ n + 1 >= 1 /\ m + n <= Len(s)
        /\ \A i \in (n + 1)..(m + n) : s[i] \in T
    BY <1>3
  <2>2. b = SubSeq(s, n + 1, m + n)
    BY <1>1, <1>3
  <2>3. b \in Seq(T) /\ Len(b) = m /\ DOMAIN b = 1..m
    BY <1>3, <2>1, <2>2
  <2>4. ASSUME NEW i \in 1..m PROVE i + n \in 1..(m + n) /\ b[i] = s[i + n]
    <3>1. i + n \in 1..(m + n) /\ (n + 1) + i - 1 = i + n
      BY <1>3
    <3>2. b[i] = s[(n + 1) + i - 1]
      BY <1>3, <2>1, <2>2, <2>3
    <3> QED BY <3>1, <3>2
  <2> QED BY <2>3, <2>4
<1>6. \A i \in 1..(m + n) : i \in 1..n \/ (i - n \in 1..m /\ (i - n) + n = i)
  BY <1>3
<1>7. ToSet(s) = ToSet(a) \cup ToSet(b)
  <2>1. ToSet(a) \subseteq ToSet(s)
    BY <1>3, <1>4 DEF ToSet
  <2>2. ToSet(b) \subseteq ToSet(s)
    BY <1>3, <1>5 DEF ToSet
  <2>3. ASSUME NEW i \in 1..(m + n) PROVE s[i] \in ToSet(a) \cup ToSet(b)
    <3>1. CASE i \in 1..n
      BY <1>4, <3>1 DEF ToSet
    <3>2. CASE i - n \in 1..m /\ (i - n) + n = i
      <4>1. PICK k \in 1..m : k = i - n /\ k + n = i
        BY <3>2
      <4>2. b[k] = s[i]
        BY <1>5, <4>1
      <4> QED BY <1>5, <4>2 DEF ToSet
    <3> QED BY <1>6, <3>1, <3>2
  <2> QED BY <1>3, <2>1, <2>2, <2>3 DEF ToSet
<1>8. ASSUME Once(s) PROVE Once(a) /\ Once(b) /\ ToSet(a) \cap ToSet(b) = {}
  <2>1. Once(a)
    BY <1>3, <1>4, <1>8 DEF Once
  <2>2. Once(b)
    <3> SUFFICES ASSUME NEW i \in 1..m, NEW j \in 1..m, b[i] = b[j] PROVE i = j
      BY <1>5 DEF Once
    <3>1. i + n = j + n
      BY <1>3, <1>5, <1>8, SMTT(30) DEF Once
    <3> QED BY <1>3, <3>1
  <2>3. \A i \in 1..n, j \in 1..m : a[i] # b[j]
    <3> SUFFICES ASSUME NEW i \in 1..n, NEW j \in 1..m, a[i] = b[j] PROVE FALSE
      OBVIOUS
    <3>1. i \in 1..(m + n) /\ j + n \in 1..(m + n)
      BY <1>3
    <3>2. s[i] = s[j + n]
      BY <1>4, <1>5
    <3>3. i = j + n
      BY <1>3, <1>8, <3>1, <3>2 DEF Once
    <3> QED BY <1>3, <3>3
  <2> QED BY <1>4, <1>5, <2>1, <2>2, <2>3 DEF ToSet
<1>9. IsCut(s, n, a, b)
  BY <1>2, <1>3, <1>4, <1>5 DEF IsCut
<1> QED BY <1>1, <1>4, <1>5, <1>7, <1>8, <1>9

(* A list with one element taken out. *)
LEMMA TakenOut ==
  ASSUME NEW T, NEW s \in Seq(T), Once(s), NEW i \in DOMAIN s
  PROVE  /\ RemoveAt(s, i) \in Seq(T) /\ Once(RemoveAt(s, i))
         /\ ToSet(RemoveAt(s, i)) = ToSet(s) \ {s[i]}
<1>1. i \in 1..Len(s) /\ i - 1 \in 0..Len(s) /\ i \in 0..Len(s) /\ Len(s) \in Nat
      /\ DOMAIN s = 1..Len(s)
  OBVIOUS
<1>2. PICK a, b : a = SubSeq(s, 1, i - 1) /\ b = SubSeq(s, i + 1, Len(s))
  OBVIOUS
<1>3. PICK c, d : c = SubSeq(s, 1, i) /\ d = SubSeq(s, (i - 1) + 1, Len(s))
  OBVIOUS
<1>4. /\ a \in Seq(T) /\ d \in Seq(T) /\ ToSet(s) = ToSet(a) \cup ToSet(d)
      /\ Once(a) /\ ToSet(a) \cap ToSet(d) = {}
      /\ Len(a) = i - 1 /\ \A k \in 1..(i - 1) : a[k] = s[k]
  BY <1>1, <1>2, <1>3, Cut, SMTT(30) DEF IsCut
<1>5. /\ c \in Seq(T) /\ b \in Seq(T) /\ ToSet(s) = ToSet(c) \cup ToSet(b)
      /\ Once(b) /\ ToSet(c) \cap ToSet(b) = {}
      /\ Len(c) = i /\ \A k \in 1..i : c[k] = s[k]
  BY <1>1, <1>2, <1>3, Cut, SMTT(30) DEF IsCut
<1>6. ToSet(c) = ToSet(a) \cup {s[i]}
  <2>1. DOMAIN c = 1..i /\ DOMAIN a = 1..(i - 1)
    BY <1>4, <1>5
  <2>2. \A k \in 1..i : k \in 1..(i - 1) \/ k = i
    BY <1>1
  <2>3. \A k \in 1..(i - 1) : k \in 1..i
    BY <1>1
  <2>4. \A k \in 1..i : c[k] \in ToSet(a) \cup {s[i]}
    BY <1>4, <1>5, <2>1, <2>2, ZenonT(30) DEF ToSet
  <2>5. \A k \in 1..(i - 1) : a[k] \in {c[j] : j \in 1..i}
    BY <1>4, <1>5, <2>3
  <2>6. s[i] \in {c[j] : j \in 1..i}
    BY <1>1, <1>5
  <2> QED BY <2>1, <2>4, <2>5, <2>6 DEF ToSet
<1>7. s[i] \notin ToSet(a)
  <2> SUFFICES ASSUME NEW k \in 1..(i - 1), a[k] = s[i] PROVE FALSE
    BY <1>4 DEF ToSet
  <2>1. k \in DOMAIN s /\ k # i /\ s[k] = s[i]
    BY <1>1, <1>4
  <2> QED BY <2>1 DEF Once
<1>8. ToSet(a) \cap ToSet(b) = {} /\ ToSet(s) \ {s[i]} = ToSet(a) \cup ToSet(b)
  BY <1>5, <1>6, <1>7
<1>9. RemoveAt(s, i) = a \o b
  BY <1>2 DEF RemoveAt
<1> QED BY <1>4, <1>5, <1>8, <1>9, Joined

(* A list with one element put in. *)
IsInsert(r, s, i, t) ==
  /\ Len(r) = Len(s) + 1
  /\ \A k \in 1..(i - 1) : r[k] = s[k]
  /\ r[i] = t
  /\ \A k \in (i + 1)..(Len(s) + 1) : r[k] = s[k - 1]

(* Its elements and their places. *)
LEMMA PutIn ==
  ASSUME NEW T, NEW s \in Seq(T), NEW t \in T, NEW i \in 1..(Len(s) + 1)
  PROVE  LET r == InsertAt(s, i, t)
         IN  /\ r \in Seq(T) /\ IsInsert(r, s, i, t)
             /\ ToSet(r) = ToSet(s) \cup {t}
             /\ Once(s) /\ t \notin ToSet(s) => Once(r)
<1>1. PICK a, b, o : a = SubSeq(s, 1, i - 1) /\ b = SubSeq(s, (i - 1) + 1, Len(s)) /\ o = <<t>>
  OBVIOUS
<1>2. i - 1 \in 0..Len(s) /\ Len(s) \in Nat /\ (i - 1) + 1 = i
  OBVIOUS
<1>3. /\ a \in Seq(T) /\ b \in Seq(T)
      /\ Len(a) = i - 1 /\ Len(b) = Len(s) - (i - 1)
      /\ \A k \in 1..(i - 1) : a[k] = s[k]
      /\ \A k \in 1..(Len(s) - (i - 1)) : b[k] = s[k + (i - 1)]
      /\ ToSet(s) = ToSet(a) \cup ToSet(b)
      /\ Once(s) => Once(a) /\ Once(b) /\ ToSet(a) \cap ToSet(b) = {}
  <2>1. /\ a \in Seq(T) /\ b \in Seq(T) /\ IsCut(s, i - 1, a, b)
        /\ ToSet(s) = ToSet(a) \cup ToSet(b)
        /\ Once(s) => Once(a) /\ Once(b) /\ ToSet(a) \cap ToSet(b) = {}
    BY <1>1, <1>2, Cut
  <2> QED BY <2>1 DEF IsCut
<1>4. o \in Seq(T) /\ ToSet(o) = {t} /\ Once(o) /\ Len(o) = 1 /\ o[1] = t
  BY <1>1 DEF ToSet, Once
<1>5. PICK c : c = a \o o
  OBVIOUS
<1>6. /\ c \in Seq(T) /\ ToSet(c) = ToSet(a) \cup {t}
      /\ Once(a) /\ t \notin ToSet(a) => Once(c)
  <2>1. t \notin ToSet(a) => ToSet(a) \cap ToSet(o) = {}
    BY <1>4
  <2> QED BY <1>3, <1>4, <1>5, <2>1, Joined
<1>7. Len(c) = i /\ c[i] = t /\ \A k \in 1..(i - 1) : c[k] = s[k]
  <2>1. /\ Len(c) = Len(a) + Len(o) /\ \A k \in 1..Len(a) : c[k] = a[k]
        /\ \A k \in 1..Len(o) : c[k + Len(a)] = o[k]
    <3>1. IsJoin(c, a, o)
      BY <1>3, <1>4, <1>5, Joined
    <3> QED BY <3>1 DEF IsJoin
  <2> QED BY <1>2, <1>3, <1>4, <2>1
<1>8. PICK r : r = c \o b
  OBVIOUS
<1>9. r = InsertAt(s, i, t)
  BY <1>1, <1>2, <1>5, <1>8 DEF InsertAt
<1>10. /\ r \in Seq(T) /\ ToSet(r) = ToSet(s) \cup {t}
       /\ Once(s) /\ t \notin ToSet(s) => Once(r)
  BY <1>3, <1>6, <1>8, Joined
<1>11. /\ Len(r) = Len(c) + Len(b) /\ \A k \in 1..Len(c) : r[k] = c[k]
       /\ \A k \in 1..Len(b) : r[k + Len(c)] = b[k]
  <2>1. IsJoin(r, c, b)
    BY <1>3, <1>6, <1>8, Joined
  <2> QED BY <2>1 DEF IsJoin
<1>12. Len(r) = Len(s) + 1 /\ r[i] = t /\ \A k \in 1..(i - 1) : r[k] = s[k]
  BY <1>2, <1>3, <1>7, <1>11
<1>13. ASSUME NEW k \in (i + 1)..(Len(s) + 1) PROVE r[k] = s[k - 1]
  <2>1. PICK j \in 1..(Len(s) - (i - 1)) : j = k - i
    BY <1>2
  <2>2. j + (i - 1) = k - 1 /\ j + Len(c) = k /\ j \in 1..Len(b)
    BY <1>2, <1>3, <1>7, <2>1, SMTT(30)
  <2> QED BY <1>3, <1>11, <2>2
<1>14. IsInsert(r, s, i, t)
  BY <1>12, <1>13 DEF IsInsert
<1> QED BY <1>9, <1>10, <1>14

-----------------------------------------------------------------------------
(* list_max() of a list that is not empty is one of its elements. *)
LEMMA ListMaxIn ==
  ASSUME NEW list \in Seq(Threads), list # <<>>, NEW key \in [Threads -> Int]
  PROVE  ListMax(list, key) \in DOMAIN list
<1>1. PICK n \in Nat : n = Len(list) /\ n > 0 /\ DOMAIN list = 1..n
  OBVIOUS
<1>2. PICK f \in [1..n -> Int] : \A i \in 1..n : f[i] = key[list[i]]
  <2>1. \A i \in 1..n : key[list[i]] \in Int
    BY <1>1
  <2>2. [i \in 1..n |-> key[list[i]]] \in [1..n -> Int]
    BY <2>1
  <2> QED BY <2>2
<1>3. PICK m \in 1..n : \A j \in 1..n : f[j] <= f[m]
  BY <1>1, Greatest
<1> DEFINE Tops == {i \in 1..n : f[i] = f[m]}
<1>4. PICK i \in Tops : \A j \in Tops : i <= j
  <2>1. Tops \in SUBSET Nat /\ m \in Tops
    OBVIOUS
  <2> QED BY <2>1, Least
<1>5. \A j \in 1..n : f[j] <= f[i]
  BY <1>3, <1>4
<1>6. ASSUME NEW j \in 1..(i - 1) PROVE f[j] < f[i]
  <2>1. j \in 1..n /\ i \in 1..n /\ ~(i <= j)
    BY <1>1, <1>4
  <2>2. f[j] # f[i]
    BY <1>4, <2>1
  <2>3. PICK a \in Int, b \in Int : a = f[j] /\ b = f[i]
    BY <1>2, <2>1
  <2> QED BY <1>5, <2>1, <2>2, <2>3
<1>7. \E x \in DOMAIN list : /\ \A j \in DOMAIN list : key[list[j]] <= key[list[x]]
                             /\ \A j \in 1..(x - 1) : key[list[j]] < key[list[x]]
  <2>1. \A j \in 1..(i - 1) : j \in 1..n
    BY <1>1, <1>4
  <2>2. i \in 1..n /\ f[i] = key[list[i]]
    BY <1>2, <1>4
  <2> QED BY <1>1, <1>2, <1>5, <1>6, <2>1, <2>2
<1> QED BY <1>7 DEF ListMax

(* The recalculated priority is a number, with any garbage. *)
LEMMA RecalculatedTyped ==
  ASSUME NEW d \in [Threads -> Int], NEW b \in [Threads -> Int], NEW t \in Threads,
         NEW g \in [Locks -> Int], waiters \in [Sems -> Seq(Threads)], ConstantsOK
  PROVE  Recalculated(d, b, t, g) \in Int
<1>1. ASSUME NEW l \in Locks PROVE Donation(d, l, g) \in Int
  <2>1. CASE waiters[l] = <<>>
    BY <2>1 DEF Donation
  <2>2. CASE waiters[l] # <<>>
    <3>1. waiters[l] \in Seq(Threads)
      BY DEF Sems
    <3>2. Foremost(waiters[l], d) \in DOMAIN waiters[l]
      BY <2>2, <3>1, ListMaxIn DEF Foremost
    <3>3. waiters[l][Foremost(waiters[l], d)] \in Threads
      BY <3>1, <3>2
    <3> QED BY <2>2, <3>3 DEF Donation
  <2> QED BY <2>1, <2>2
<1> DEFINE S == {b[t]} \cup {Donation(d, l, g) : l \in Held(t)}
<1>2. PICK f : f = [k \in 1..(NLocks + 1) |-> IF k \in Held(t) THEN Donation(d, k, g) ELSE b[t]]
  OBVIOUS
<1>3. /\ NLocks + 1 \in Nat /\ NLocks + 1 > 0 /\ NLocks + 1 \in 1..(NLocks + 1)
      /\ NLocks + 1 \notin Held(t)
      /\ \A l \in Held(t) : l \in Locks /\ l \in 1..(NLocks + 1)
  BY DEF ConstantsOK, Held, Locks
<1>4. \A k \in 1..(NLocks + 1) :
        f[k] = (IF k \in Held(t) THEN Donation(d, k, g) ELSE b[t]) /\ f[k] \in Int /\ f[k] \in S
  BY <1>1, <1>2, <1>3
<1>5. f \in [1..(NLocks + 1) -> Int]
  BY <1>2, <1>4
<1>6. PICK i \in 1..(NLocks + 1) : \A j \in 1..(NLocks + 1) : f[j] <= f[i]
  BY <1>3, <1>5, Greatest
<1>7. \A y \in S : \E j \in 1..(NLocks + 1) : y = f[j]
  BY <1>3, <1>4
<1>8. f[i] \in S /\ \A y \in S : f[i] >= y
  BY <1>4, <1>6, <1>7
<1>9. Max(S) \in S
  BY <1>8 DEF Max
<1>10. \A y \in S : y \in Int
  BY <1>1, <1>3
<1> QED BY <1>9, <1>10 DEF Recalculated

-----------------------------------------------------------------------------
(* The walks of thread_donate() and thread_update_donations() end with     *)
(* numbers as priorities, however long they are.                           *)
Walk == [don : [Threads -> Int], at : Threads \cup {NULL, "done"}]

(* thread_donate() keeps priorities numbers. *)
LEMMA DonateTyped ==
  ASSUME NEW d \in [Threads -> Int], NEW t \in Threads, NEW p \in Int,
         locked_on \in [Threads -> Locks \cup {NULL}], holder \in [Locks -> Threads \cup {NULL}],
         ConstantsOK
  PROVE  thread_donate(d, t, p) \in Walk
<1> DEFINE B == ChainBound
           x == [don |-> d, at |-> t]
           Body(v) == IF v.at \in Threads THEN DonateStep(v, p) ELSE v
<1>1. B \in Nat
  BY FS_CardinalityType DEF ConstantsOK, ChainBound
<1>2. x \in Walk
  BY DEF Walk
<1>3. ASSUME NEW v \in Walk PROVE Body(v) \in Walk
  <2>1. v.don \in [Threads -> Int] /\ v.at \in Threads \cup {NULL, "done"}
    BY DEF Walk
  <2>2. ASSUME v.at \in Threads PROVE DonateStep(v, p) \in Walk
    <3>1. Upstream(v.at) \in Threads \cup {NULL, "done"}
      BY <2>2 DEF Upstream
    <3>2. [v.don EXCEPT ![v.at] = p] \in [Threads -> Int]
      BY <2>1, <2>2
    <3> QED BY <2>1, <3>1, <3>2 DEF DonateStep, Walk
  <2> QED BY <2>2
<1> HIDE DEF B, x, Body
<1>4. PICK S \in [Walk -> Walk] : \A v \in Walk : S[v] = Body(v)
  <2>1. [v \in Walk |-> Body(v)] \in [Walk -> Walk]
    BY <1>3
  <2> QED BY <2>1
<1>5. PICK f : Iterates(f, Walk, S, x, B)
  BY <1>1, <1>2, Iterated
<1> DEFINE At(g, n) == IF n = 0 THEN x ELSE Body(g[n - 1])
<1>6. f = [n \in 0..B |-> At(f, n)]
  <2>1. ASSUME NEW n \in 0..B PROVE f[n] = At(f, n)
    <3>1. CASE n = 0
      BY <1>5, <3>1 DEF Iterates
    <3>2. CASE n # 0
      <4>1. n \in 1..B /\ n - 1 \in 0..B
        BY <1>1, <3>2
      <4> QED BY <1>4, <1>5, <3>2, <4>1 DEF Iterates
    <3> QED BY <3>1, <3>2
  <2> QED BY <1>5, <2>1 DEF Iterates
<1>7. PICK w : w = CHOOSE g : g = [n \in 0..B |-> At(g, n)]
  OBVIOUS
<1>8. w = [n \in 0..B |-> At(w, n)]
  BY <1>6, <1>7, Zenon
<1>9. w[0] = x
  BY <1>1, <1>8
<1>10. \A n \in 0..B : n + 1 \in 0..B => w[n + 1] = Body(w[n])
  BY <1>1, <1>8
<1>11. w[B] \in Walk
  <2>1. \A n \in 0..B : n + 1 \in 0..B /\ w[n] \in Walk => w[n + 1] \in Walk
    BY <1>3, <1>10
  <2> QED BY <1>1, <1>2, <1>9, <2>1, Kept
<1>12. thread_donate(d, t, p) = w[B]
  BY <1>7, Zenon DEF thread_donate, Body, x, B
<1> QED BY <1>11, <1>12

(* So does thread_update_donations(). *)
LEMMA UpdateTyped ==
  ASSUME NEW d \in [Threads -> Int], NEW b \in [Threads -> Int], NEW t \in Threads,
         NEW garbage \in [Locks -> Int], waiters \in [Sems -> Seq(Threads)],
         locked_on \in [Threads -> Locks \cup {NULL}], holder \in [Locks -> Threads \cup {NULL}],
         ConstantsOK
  PROVE  thread_update_donations(d, b, t, garbage) \in Walk
<1> DEFINE B == ChainBound
           x == [don |-> d, at |-> t]
           Body(v) == IF v.at \in Threads THEN UpdateStep(v, b, garbage) ELSE v
<1>1. B \in Nat
  BY FS_CardinalityType DEF ConstantsOK, ChainBound
<1>2. x \in Walk
  BY DEF Walk
<1>3. ASSUME NEW v \in Walk PROVE Body(v) \in Walk
  <2>1. v.don \in [Threads -> Int] /\ v.at \in Threads \cup {NULL, "done"}
    BY DEF Walk
  <2>2. ASSUME v.at \in Threads PROVE UpdateStep(v, b, garbage) \in Walk
    <3>1. Upstream(v.at) \in Threads \cup {NULL, "done"}
      BY <2>2 DEF Upstream
    <3>2. PICK q \in Int : q = Recalculated(v.don, b, v.at, garbage)
      BY <2>1, <2>2, RecalculatedTyped
    <3>3. [v.don EXCEPT ![v.at] = q] \in [Threads -> Int]
      BY <2>1, <2>2, <3>2
    <3> QED BY <2>1, <3>1, <3>2, <3>3 DEF UpdateStep, Walk
  <2> QED BY <2>2
<1> HIDE DEF B, x, Body
<1>4. PICK S \in [Walk -> Walk] : \A v \in Walk : S[v] = Body(v)
  <2>1. [v \in Walk |-> Body(v)] \in [Walk -> Walk]
    BY <1>3
  <2> QED BY <2>1
<1>5. PICK f : Iterates(f, Walk, S, x, B)
  BY <1>1, <1>2, Iterated
<1> DEFINE At(g, n) == IF n = 0 THEN x ELSE Body(g[n - 1])
<1>6. f = [n \in 0..B |-> At(f, n)]
  <2>1. ASSUME NEW n \in 0..B PROVE f[n] = At(f, n)
    <3>1. CASE n = 0
      BY <1>5, <3>1 DEF Iterates
    <3>2. CASE n # 0
      <4>1. n \in 1..B /\ n - 1 \in 0..B
        BY <1>1, <3>2
      <4> QED BY <1>4, <1>5, <3>2, <4>1 DEF Iterates
    <3> QED BY <3>1, <3>2
  <2> QED BY <1>5, <2>1 DEF Iterates
<1>7. PICK w : w = CHOOSE g : g = [n \in 0..B |-> At(g, n)]
  OBVIOUS
<1>8. w = [n \in 0..B |-> At(w, n)]
  BY <1>6, <1>7, Zenon
<1>9. w[0] = x
  BY <1>1, <1>8
<1>10. \A n \in 0..B : n + 1 \in 0..B => w[n + 1] = Body(w[n])
  BY <1>1, <1>8
<1>11. w[B] \in Walk
  <2>1. \A n \in 0..B : n + 1 \in 0..B /\ w[n] \in Walk => w[n + 1] \in Walk
    BY <1>3, <1>10
  <2> QED BY <1>1, <1>2, <1>9, <2>1, Kept
<1>12. thread_update_donations(d, b, t, garbage) = w[B]
  BY <1>7, Zenon DEF thread_update_donations, Body, x, B
<1> QED BY <1>11, <1>12

-----------------------------------------------------------------------------
(* The inductive invariant.                                                *)
(*                                                                         *)
(* The scheduler's own state is consistent: the ready list has the ready   *)
(* threads, each once, and the running thread is the only one.             *)
SchedOK(st, list, c) ==
  /\ c \in Threads \cup {Idle}
  /\ st \in [Threads -> {"RUNNING", "READY", "BLOCKED", "FREE"}]
  /\ list \in Seq(Threads) /\ Once(list)
  /\ \A t \in Threads : /\ st[t] = "READY" <=> t \in ToSet(list)
                        /\ st[t] = "RUNNING" <=> c = t

(* Until a panic, which may leave the running thread in a list of waiters, *)
(* the blocked threads are those that sleep or wait.                       *)
Listed(t) == t \in ToSet(sleepers) \/ \E s \in Sems : t \in ToSet(waiters[s])

BlockedInv ==
  panic = "none" => /\ SchedOK(status, ready_list, cur)
                    /\ \A t \in Threads : status[t] = "BLOCKED" <=> Listed(t)

(* The sleep queue is sorted, and a sleeper is in no other operation. *)
SleepInv ==
  /\ Once(sleepers)
  /\ \A i, j \in DOMAIN sleepers : i <= j => wake[sleepers[i]] <= wake[sleepers[j]]
  /\ \A t \in ToSet(sleepers) : pc[t] = "run"

(* A waiter is in sema_down() on that semaphore, which cannot be taken. *)
WaitInv ==
  \A s \in Sems :
    /\ Once(waiters[s])
    /\ \A t \in ToSet(waiters[s]) : pc[t] = "down" /\ arg[t] = s
    /\ value[s] > 0 => waiters[s] = <<>>

(* In cond_wait(), before it wants its lock back. *)
Signallable(t) == pc[t] = "enqueued" \/ (pc[t] = "down" /\ arg[t] = t)

(* The locals of the operation a thread is in. *)
CallInv ==
  \A t \in Threads :
    /\ pc[t] = "down" => arg[t] \in Locks \cup Semas \cup {t}
    /\ pc[t] \in {"broadcast", "relock"} \/ Signallable(t) => monitor[t] \in Locks
    /\ pc[t] = "relock" \/ Signallable(t) => holder[monitor[t]] # t

(* A lock's semaphore counts its holder, who does not wait for it. *)
LockInv ==
  \A l \in Locks :
    IF holder[l] = NULL THEN value[l] = 1
    ELSE /\ value[l] = 0 /\ status[holder[l]] # "FREE"
         /\ ~(pc[holder[l]] = "down" /\ arg[holder[l]] = l)

(* Who is in a condition's list waits there, without an up; whoever left   *)
(* it has one until it takes it.                                           *)
CondInv ==
  /\ \A l \in Locks : /\ Once(cond[l])
                      /\ \A t \in ToSet(cond[l]) : Signallable(t) /\ monitor[t] = l
  /\ \A t \in Threads :
       value[t] = IF Signallable(t) /\ t \notin ToSet(cond[monitor[t]]) THEN 1 ELSE 0

(* The inductive invariant. *)
IInv ==
  TypeOK /\ BlockedInv /\ SleepInv /\ WaitInv /\ CallInv /\ LockInv /\ CondInv

-----------------------------------------------------------------------------
(* What a switch leaves alone: who is blocked and who does not exist. *)
Switched(st) ==
  /\ SchedOK(status', ready_list', cur')
  /\ \A t \in Threads : /\ status'[t] = "BLOCKED" <=> st[t] = "BLOCKED"
                        /\ status'[t] = "FREE" <=> st[t] = "FREE"

(* schedule(), when nobody runs any more. *)
LEMMA ScheduleOK ==
  ASSUME NEW st \in [Threads -> {"RUNNING", "READY", "BLOCKED", "FREE"}],
         NEW list \in Seq(Threads), Once(list), NEW d \in [Threads -> Int],
         \A t \in Threads : st[t] # "RUNNING" /\ (st[t] = "READY" <=> t \in ToSet(list)),
         schedule(st, list, d), ConstantsOK
  PROVE  Switched(st)
<1>1. CASE list = <<>>
  <2>1. cur' = Idle /\ ready_list' = <<>> /\ status' = st
    BY <1>1 DEF schedule
  <2>2. Idle \notin Threads
    BY DEF ConstantsOK
  <2> QED BY <1>1, <2>1, <2>2 DEF Switched, SchedOK
<1>2. CASE list # <<>>
  <2>1. PICK i \in DOMAIN list :
          /\ cur' = list[i] /\ ready_list' = RemoveAt(list, i)
          /\ status' = [st EXCEPT ![list[i]] = "RUNNING"]
    BY <1>2, ListMaxIn DEF schedule, Foremost, Dequeued
  <2>2. list[i] \in Threads /\ list[i] \in ToSet(list)
    BY DEF ToSet
  <2>3. /\ ready_list' \in Seq(Threads) /\ Once(ready_list')
        /\ ToSet(ready_list') = ToSet(list) \ {list[i]}
    BY <2>1, TakenOut
  <2>4. /\ status' \in [Threads -> {"RUNNING", "READY", "BLOCKED", "FREE"}]
        /\ \A t \in Threads : status'[t] = IF t = list[i] THEN "RUNNING" ELSE st[t]
    BY <2>1, <2>2
  <2>5. \A t \in Threads : t = list[i] => st[t] = "READY"
    BY <2>2
  <2>6. SchedOK(status', ready_list', cur')
    BY <2>1, <2>2, <2>3, <2>4, <2>5 DEF SchedOK
  <2> QED BY <2>4, <2>5, <2>6 DEF Switched
<1> QED BY <1>1, <1>2

(* thread_yield() by a thread. *)
LEMMA YieldOK ==
  ASSUME NEW st, NEW list, SchedOK(st, list, cur), NEW d \in [Threads -> Int], cur \in Threads,
         thread_yield(st, list, d), ConstantsOK
  PROVE  Switched(st)
<1>1. PICK e : e = [st EXCEPT ![cur] = "READY"]
  OBVIOUS
<1>2. /\ e \in [Threads -> {"RUNNING", "READY", "BLOCKED", "FREE"}]
      /\ \A t \in Threads : e[t] = IF t = cur THEN "READY" ELSE st[t]
  BY <1>1 DEF SchedOK
<1>3. st[cur] = "RUNNING" /\ cur \notin ToSet(list)
  BY DEF SchedOK
<1>4. PICK a : a = Append(list, cur)
  OBVIOUS
<1>5. a \in Seq(Threads) /\ Once(a) /\ ToSet(a) = ToSet(list) \cup {cur}
  BY <1>3, <1>4, Appended DEF SchedOK
<1>6. \A t \in Threads : e[t] # "RUNNING" /\ (e[t] = "READY" <=> t \in ToSet(a))
  BY <1>2, <1>5 DEF SchedOK
<1>7. Switched(e)
  BY <1>1, <1>2, <1>4, <1>5, <1>6, ScheduleOK DEF thread_yield
<1> QED BY <1>2, <1>3, <1>7 DEF Switched

(* No switch. *)
LEMMA StayOK ==
  ASSUME NEW st, NEW list, SchedOK(st, list, cur), Stay(st, list)
  PROVE  Switched(st)
BY DEF Stay, Switched, SchedOK

(* The running thread leaves the CPU with the status it gave itself. *)
LEMMA LeaveOK ==
  ASSUME SchedOK(status, ready_list, cur), NEW d \in [Threads -> Int], cur \in Threads,
         NEW x \in {"BLOCKED", "FREE"}, ConstantsOK,
         schedule([status EXCEPT ![cur] = x], ready_list, d)
  PROVE  Switched([status EXCEPT ![cur] = x])
<1>1. PICK e : e = [status EXCEPT ![cur] = x]
  OBVIOUS
<1>2. /\ e \in [Threads -> {"RUNNING", "READY", "BLOCKED", "FREE"}]
      /\ \A t \in Threads : e[t] = IF t = cur THEN x ELSE status[t]
  BY <1>1 DEF SchedOK
<1>3. \A t \in Threads : e[t] # "RUNNING" /\ (e[t] = "READY" <=> t \in ToSet(ready_list))
  BY <1>2 DEF SchedOK
<1> QED BY <1>1, <1>2, <1>3, ScheduleOK DEF SchedOK

(* thread_unblock() of blocked threads that are put in the ready list. *)
LEMMA UnblockOK ==
  ASSUME SchedOK(status, ready_list, cur), NEW woken \in Seq(Threads), Once(woken),
         \A t \in ToSet(woken) : status[t] \in {"BLOCKED", "FREE"}
  PROVE  SchedOK(thread_unblock(ToSet(woken)), ready_list \o woken, cur)
<1>1. PICK e : e = thread_unblock(ToSet(woken))
  OBVIOUS
<1>2. /\ e \in [Threads -> {"RUNNING", "READY", "BLOCKED", "FREE"}]
      /\ \A t \in Threads : e[t] = IF t \in ToSet(woken) THEN "READY" ELSE status[t]
  BY <1>1 DEF thread_unblock, SchedOK
<1>3. PICK a : a = ready_list \o woken
  OBVIOUS
<1>4. ToSet(woken) \subseteq Threads /\ ToSet(ready_list) \cap ToSet(woken) = {}
  <2>1. ToSet(woken) \subseteq Threads
    BY DEF ToSet
  <2> QED BY <2>1 DEF SchedOK
<1>5. a \in Seq(Threads) /\ Once(a) /\ ToSet(a) = ToSet(ready_list) \cup ToSet(woken)
  BY <1>3, <1>4, Joined DEF SchedOK
<1>6. SchedOK(e, a, cur)
  BY <1>2, <1>4, <1>5 DEF SchedOK
<1> QED BY <1>1, <1>3, <1>6

-----------------------------------------------------------------------------
(* A step of the running thread moves no other thread. *)
Alone(t) ==
  \A u \in Threads : u # t => pc'[u] = pc[u] /\ arg'[u] = arg[u] /\ monitor'[u] = monitor[u]

(* A list of threads has threads. *)
LEMMA InList ==
  ASSUME NEW list \in Seq(Threads)
  PROVE  ToSet(list) \subseteq Threads
BY DEF ToSet

(* The running thread is in no list. *)
LEMMA CurUnlisted ==
  ASSUME IInv, panic = "none", cur \in Threads
  PROVE  /\ status[cur] = "RUNNING" /\ cur \notin ToSet(ready_list) /\ cur \notin ToSet(sleepers)
         /\ \A s \in Sems : cur \notin ToSet(waiters[s])
BY DEF IInv, BlockedInv, SchedOK, Listed

(* The sleep queue does not notice what the running thread does. *)
LEMMA SleepKept ==
  ASSUME IInv, panic = "none", cur \in Threads, Alone(cur), UNCHANGED <<sleepers, wake>>
  PROVE  SleepInv'
<1>1. cur \notin ToSet(sleepers) /\ ToSet(sleepers) \subseteq Threads
  BY CurUnlisted, InList DEF IInv, TypeOK
<1>2. \A t \in ToSet(sleepers) : pc'[t] = "run"
  BY <1>1 DEF Alone, IInv, SleepInv
<1> QED BY <1>2 DEF IInv, SleepInv

(* sema_up(), called by the running thread or on top of it. *)
LEMMA SemaUpOK ==
  ASSUME IInv, panic = "none", cur \in Threads, NEW s \in Sems, sema_up(s), ConstantsOK,
         Alone(cur), UNCHANGED <<sleepers, wake, panic>>
  PROVE  /\ BlockedInv' /\ SleepInv' /\ WaitInv'
         /\ SchedOK(status', ready_list', cur')
         /\ \A t \in Threads : status'[t] = "FREE" <=> status[t] = "FREE"
         /\ value' = [value EXCEPT ![s] = value[s] + 1]
         /\ waiters' \in [Sems -> Seq(Threads)]
<1>1. /\ SchedOK(status, ready_list, cur) /\ Once(waiters[s])
      /\ waiters[s] \in Seq(Threads) /\ waiters \in [Sems -> Seq(Threads)]
      /\ \A t \in Threads : status[t] = "BLOCKED" <=> Listed(t)
      /\ don \in [Threads -> Int]
  BY DEF IInv, BlockedInv, WaitInv, TypeOK
<1>2. ToSet(waiters[s]) \subseteq Threads /\ \A t \in ToSet(waiters[s]) : status[t] = "BLOCKED"
  BY <1>1, InList DEF Listed
<1>3. PICK st, list : st = thread_unblock(ToSet(waiters[s])) /\ list = ready_list \o waiters[s]
  OBVIOUS
<1>4. SchedOK(st, list, cur)
  BY <1>1, <1>2, <1>3, UnblockOK
<1>5. Switched(st)
  <2>1. thread_yield(st, list, don) \/ Stay(st, list)
    BY <1>3 DEF sema_up, Released
  <2> QED BY <1>1, <1>4, <2>1, YieldOK, StayOK
<1>6. \A t \in Threads : st[t] = IF t \in ToSet(waiters[s]) THEN "READY" ELSE status[t]
  BY <1>3 DEF thread_unblock
<1>7. waiters' = [waiters EXCEPT ![s] = <<>>]
  <2>1. waiters' = [waiters EXCEPT ![s] = SubSeq(waiters[s], Len(waiters[s]) + 1, Len(waiters[s]))]
    BY DEF sema_up, Released
  <2>2. SubSeq(waiters[s], Len(waiters[s]) + 1, Len(waiters[s])) = <<>>
    BY <1>1
  <2> QED BY <2>1, <2>2
<1>8. /\ waiters' \in [Sems -> Seq(Threads)] /\ ToSet(waiters'[s]) = {}
      /\ \A r \in Sems : r # s => waiters'[r] = waiters[r]
  BY <1>1, <1>7 DEF ToSet
<1>9. value' = [value EXCEPT ![s] = value[s] + 1]
  BY DEF sema_up, Raised
<1>10. \A t \in ToSet(waiters[s]) :
         t \notin ToSet(sleepers) /\ \A r \in Sems : r # s => t \notin ToSet(waiters[r])
  BY DEF IInv, WaitInv, SleepInv
<1>11. \A t \in Threads : Listed(t)' <=> Listed(t) /\ t \notin ToSet(waiters[s])
  BY <1>8, <1>10 DEF Listed
<1>12. \A t \in Threads : status'[t] = "BLOCKED" <=> Listed(t)'
  BY <1>1, <1>5, <1>6, <1>11 DEF Switched
<1>13. BlockedInv'
  BY <1>5, <1>12 DEF BlockedInv, Switched
<1>14. WaitInv'
  <2> SUFFICES ASSUME NEW r \in Sems
               PROVE  /\ Once(waiters'[r])
                      /\ \A t \in ToSet(waiters'[r]) : pc'[t] = "down" /\ arg'[t] = r
                      /\ value'[r] > 0 => waiters'[r] = <<>>
    BY DEF WaitInv
  <2>1. CASE r = s
    BY <1>7, <1>8, <2>1 DEF Once, TypeOK, IInv
  <2>2. CASE r # s
    <3>1. waiters'[r] = waiters[r] /\ value'[r] = value[r]
      BY <1>8, <1>9, <2>2 DEF IInv, TypeOK
    <3>2. ToSet(waiters[r]) \subseteq Threads /\ cur \notin ToSet(waiters[r])
      BY <1>1, CurUnlisted, InList
    <3> QED BY <3>1, <3>2 DEF IInv, WaitInv, Alone
  <2> QED BY <2>1, <2>2
<1>15. \A t \in Threads : status'[t] = "FREE" <=> status[t] = "FREE"
  BY <1>2, <1>5, <1>6 DEF Switched
<1> QED BY <1>5, <1>8, <1>9, <1>13, <1>14, <1>15, SleepKept DEF Switched

-----------------------------------------------------------------------------
(* The three kinds of semaphores differ, and NULL is none of the pointers. *)
LEMMA Kinds ==
  ASSUME ConstantsOK
  PROVE  /\ NULL \notin Threads /\ NULL \notin Locks /\ Idle \notin Threads
         /\ \A t \in Threads : t \notin Locks /\ t \notin Semas /\ t \in Sems
         /\ \A l \in Locks : l \notin Threads /\ l \notin Semas /\ l \in Sems
         /\ \A s \in Semas : s \notin Threads /\ s \notin Locks /\ s \in Sems
BY DEF ConstantsOK, Sems

(* lock_release(). *)
LEMMA ReleaseInv ==
  ASSUME IInv, ConstantsOK, NEW t \in Threads, NEW l \in Locks, lock_release(t, l)
  PROVE  IInv'
<1>1. /\ cur = t /\ pc[t] = "run" /\ panic = "none" /\ cur \in Threads /\ holder[l] = t
      /\ holder' = [holder EXCEPT ![l] = NULL] /\ sema_up(l)
      /\ UNCHANGED <<base, don, locked_on, cond, pc, arg, owner, monitor, sleepers, wake, ticks,
                     panic, calls>>
  BY DEF lock_release, Running, Held, frame, alarm
<1>2. Alone(cur)
  BY <1>1 DEF Alone
<1>3. l \in Sems /\ l \notin Threads /\ NULL \notin Threads
  BY Kinds
<1>4. /\ BlockedInv' /\ SleepInv' /\ WaitInv'
      /\ SchedOK(status', ready_list', cur')
      /\ \A u \in Threads : status'[u] = "FREE" <=> status[u] = "FREE"
      /\ value' = [value EXCEPT ![l] = value[l] + 1]
      /\ waiters' \in [Sems -> Seq(Threads)]
  BY <1>1, <1>2, <1>3, SemaUpOK
<1>5. value[l] = 0 /\ value'[l] = 1 /\ \A s \in Sems : s # l => value'[s] = value[s]
  BY <1>1, <1>3, <1>4 DEF IInv, TypeOK, LockInv
<1>6. holder'[l] = NULL /\ \A k \in Locks : k # l => holder'[k] = holder[k]
  BY <1>1 DEF IInv, TypeOK
<1>7. TypeOK'
  <2>1. value' \in [Sems -> Nat] /\ holder' \in [Locks -> Threads \cup {NULL}]
    BY <1>1, <1>3, <1>4 DEF IInv, TypeOK
  <2> QED BY <1>1, <1>4, <2>1 DEF IInv, TypeOK, SchedOK
<1>8. CallInv'
  BY <1>1, <1>3, <1>6 DEF IInv, CallInv, Signallable
<1>9. LockInv'
  <2>1. \A k \in Locks : k # l => value'[k] = value[k] /\ holder'[k] = holder[k]
    BY <1>5, <1>6, Kinds
  <2>2. \A k \in Locks : holder[k] # NULL => holder[k] \in Threads
    BY DEF IInv, TypeOK
  <2> QED BY <1>1, <1>4, <1>5, <1>6, <2>1, <2>2 DEF IInv, LockInv
<1>10. CondInv'
  <2>1. \A u \in Threads : value'[u] = value[u]
    BY <1>3, <1>5, Kinds
  <2> QED BY <1>1, <2>1 DEF IInv, CondInv, Signallable
<1> QED BY <1>4, <1>7, <1>8, <1>9, <1>10 DEF IInv

(* sema_up() on a semaphore used directly, by a thread or an interrupt. *)
LEMMA UpInv ==
  ASSUME IInv, ConstantsOK, panic = "none", cur \in Threads, NEW s \in Semas, sema_up(s),
         calls' \in 0..MaxOps, panic' = "none",
         UNCHANGED <<base, don, locked_on, holder, cond, frame, alarm>>
  PROVE  IInv'
<1>1. UNCHANGED <<pc, arg, owner, monitor, sleepers, wake, ticks, panic>>
  BY DEF frame, alarm
<1>2. Alone(cur)
  BY <1>1 DEF Alone
<1>3. s \in Sems /\ s \notin Threads /\ s \notin Locks
  BY Kinds
<1>4. /\ BlockedInv' /\ SleepInv' /\ WaitInv'
      /\ SchedOK(status', ready_list', cur')
      /\ \A u \in Threads : status'[u] = "FREE" <=> status[u] = "FREE"
      /\ value' = [value EXCEPT ![s] = value[s] + 1]
      /\ waiters' \in [Sems -> Seq(Threads)]
  BY <1>1, <1>2, <1>3, SemaUpOK
<1>5. value' \in [Sems -> Nat] /\ \A r \in Sems : r # s => value'[r] = value[r]
  BY <1>3, <1>4 DEF IInv, TypeOK
<1>6. TypeOK'
  BY <1>1, <1>4, <1>5 DEF IInv, TypeOK, SchedOK
<1>7. CallInv'
  BY <1>1 DEF IInv, CallInv, Signallable
<1>8. LockInv'
  <2>1. \A k \in Locks : value'[k] = value[k]
    BY <1>3, <1>5, Kinds
  <2>2. \A k \in Locks : holder[k] # NULL => holder[k] \in Threads
    BY DEF IInv, TypeOK
  <2> QED BY <1>1, <1>4, <2>1, <2>2 DEF IInv, LockInv
<1>9. CondInv'
  <2>1. \A u \in Threads : value'[u] = value[u]
    BY <1>3, <1>5, Kinds
  <2> QED BY <1>1, <2>1 DEF IInv, CondInv, Signallable
<1> QED BY <1>4, <1>6, <1>7, <1>8, <1>9 DEF IInv

(* The interrupt handler fails its assertion or is such an up. *)
LEMMA InterruptInv ==
  ASSUME IInv, ConstantsOK, NEW s \in Semas, InterruptUp(s)
  PROVE  IInv'
<1>1. calls' \in 0..MaxOps /\ panic = "none"
  BY DEF InterruptUp, IInv, TypeOK, ConstantsOK
<1>2. CASE panic' = "thread_yield" /\ UNCHANGED <<sched, value, waiters>>
  <2>1. UNCHANGED <<cur, status, ready_list, value, waiters, base, don, locked_on, holder, cond,
                    pc, arg, owner, monitor, sleepers, wake, ticks>>
    BY <1>2 DEF InterruptUp, frame, alarm, sched
  <2>2. TypeOK'
    BY <1>1, <1>2, <2>1 DEF IInv, TypeOK
  <2> QED BY <1>2, <2>1, <2>2
          DEF IInv, BlockedInv, SleepInv, WaitInv, CallInv, LockInv, CondInv, Signallable
<1>3. CASE panic' = "none" /\ cur # Idle /\ sema_up(s)
  <2>1. cur \in Threads
    BY <1>3 DEF IInv, TypeOK
  <2> QED BY <1>1, <1>3, <2>1, UpInv DEF InterruptUp
<1> QED BY <1>2, <1>3 DEF InterruptUp

(* A list without its head. *)
LEMMA Beheaded ==
  ASSUME NEW T, NEW s \in Seq(T), s # <<>>, Once(s)
  PROVE  /\ Tail(s) \in Seq(T) /\ Once(Tail(s)) /\ Head(s) \in ToSet(s)
         /\ ToSet(Tail(s)) = ToSet(s) \ {Head(s)}
<1>1. PICK n \in Nat : Len(s) = n + 1 /\ DOMAIN s = 1..(n + 1)
  <2>1. Len(s) \in Nat /\ Len(s) # 0 /\ DOMAIN s = 1..Len(s)
    OBVIOUS
  <2>2. Len(s) - 1 \in Nat /\ Len(s) = (Len(s) - 1) + 1
    BY <2>1
  <2> QED BY <2>1, <2>2
<1>2. PICK r : r = Tail(s)
  OBVIOUS
<1>3. r \in Seq(T) /\ DOMAIN r = 1..n /\ \A i \in 1..n : i + 1 \in 1..(n + 1) /\ r[i] = s[i + 1]
  BY <1>1, <1>2
<1>4. Head(s) = s[1] /\ 1 \in 1..(n + 1) /\ \A i \in 1..n : i + 1 # 1
  BY <1>1
<1>5. Once(r)
  <2> SUFFICES ASSUME NEW i \in 1..n, NEW j \in 1..n, r[i] = r[j] PROVE i = j
    BY <1>3 DEF Once
  <2>1. i + 1 = j + 1
    BY <1>1, <1>3 DEF Once
  <2> QED BY <2>1
<1>6. \A i \in 1..n : r[i] \in ToSet(s) /\ r[i] # s[1]
  BY <1>1, <1>3, <1>4, SMTT(30) DEF ToSet, Once
<1>7. ASSUME NEW i \in 1..(n + 1), s[i] # s[1] PROVE s[i] \in ToSet(r)
  <2>1. PICK k \in 1..n : i = k + 1
    <3>1. i # 1
      BY <1>7
    <3>2. i - 1 \in 1..n /\ i = (i - 1) + 1
      BY <3>1
    <3> QED BY <3>2
  <2> QED BY <1>3, <2>1 DEF ToSet
<1>8. ToSet(r) = ToSet(s) \ {s[1]}
  <2>1. ToSet(r) \subseteq ToSet(s) \ {s[1]}
    BY <1>3, <1>6 DEF ToSet
  <2>2. ToSet(s) \ {s[1]} \subseteq ToSet(r)
    BY <1>1, <1>7 DEF ToSet
  <2> QED BY <2>1, <2>2
<1>9. s[1] \in ToSet(s)
  BY <1>1, <1>4 DEF ToSet
<1> QED BY <1>2, <1>3, <1>4, <1>5, <1>8, <1>9

(* A signal: one waiter leaves the condition's list and its own semaphore  *)
(* goes up.                                                                *)
LEMMA SignalInv ==
  ASSUME IInv, ConstantsOK, panic = "none", cur \in Threads, NEW l \in Locks,
         NEW u \in ToSet(cond[l]), NEW c \in Seq(Threads), Once(c), ToSet(c) = ToSet(cond[l]) \ {u},
         cond' = [cond EXCEPT ![l] = c], sema_up(u), calls' \in 0..MaxOps,
         UNCHANGED <<base, don, locked_on, holder, frame, alarm, panic>>
  PROVE  IInv'
<1>1. UNCHANGED <<pc, arg, owner, monitor, sleepers, wake, ticks, panic>>
  BY DEF frame, alarm
<1>2. Alone(cur)
  BY <1>1 DEF Alone
<1>3. cond[l] \in Seq(Threads) /\ u \in Threads /\ u \in Sems /\ u \notin Locks
  BY Kinds, InList DEF IInv, TypeOK
<1>4. /\ BlockedInv' /\ SleepInv' /\ WaitInv'
      /\ SchedOK(status', ready_list', cur')
      /\ \A v \in Threads : status'[v] = "FREE" <=> status[v] = "FREE"
      /\ value' = [value EXCEPT ![u] = value[u] + 1]
      /\ waiters' \in [Sems -> Seq(Threads)]
  BY <1>1, <1>2, <1>3, SemaUpOK
<1>5. Signallable(u) /\ monitor[u] = l /\ value[u] = 0
  BY <1>3 DEF IInv, CondInv
<1>6. /\ value' \in [Sems -> Nat] /\ value'[u] = 1
      /\ \A r \in Sems : r # u => value'[r] = value[r]
  BY <1>3, <1>4, <1>5 DEF IInv, TypeOK
<1>7. /\ cond' \in [Locks -> Seq(Threads)] /\ cond'[l] = c
      /\ \A k \in Locks : k # l => cond'[k] = cond[k]
  BY DEF IInv, TypeOK
<1>8. TypeOK'
  BY <1>1, <1>4, <1>6, <1>7 DEF IInv, TypeOK, SchedOK
<1>9. CallInv'
  BY <1>1 DEF IInv, CallInv, Signallable
<1>10. LockInv'
  <2>1. \A k \in Locks : value'[k] = value[k]
    BY <1>3, <1>6, Kinds
  <2>2. \A k \in Locks : holder[k] # NULL => holder[k] \in Threads
    BY DEF IInv, TypeOK
  <2> QED BY <1>1, <1>4, <2>1, <2>2 DEF IInv, LockInv
<1>11. CondInv'
  <2>1. \A v \in Threads : Signallable(v)' <=> Signallable(v)
    BY <1>1 DEF Signallable
  <2>2. ASSUME NEW k \in Locks
        PROVE  Once(cond'[k]) /\ \A v \in ToSet(cond'[k]) : Signallable(v)' /\ monitor'[v] = k
    <3>1. ToSet(cond'[k]) \subseteq ToSet(cond[k])
      BY <1>7
    <3>2. ToSet(cond[k]) \subseteq Threads
      BY InList DEF IInv, TypeOK
    <3>3. Once(cond'[k])
      BY <1>7 DEF IInv, CondInv
    <3> QED BY <1>1, <2>1, <3>1, <3>2, <3>3 DEF IInv, CondInv
  <2>3. ASSUME NEW v \in Threads
        PROVE  value'[v] = IF Signallable(v)' /\ v \notin ToSet(cond'[monitor'[v]]) THEN 1 ELSE 0
    <3>1. CASE v = u
      BY <1>1, <1>5, <1>6, <1>7, <2>1, <3>1
    <3>2. CASE v # u
      <4>1. value'[v] = value[v]
        BY <1>6, <3>2, Kinds
      <4>2. Signallable(v) => monitor[v] \in Locks
        BY DEF IInv, CallInv
      <4>3. Signallable(v) => (v \in ToSet(cond'[monitor[v]]) <=> v \in ToSet(cond[monitor[v]]))
        BY <1>7, <3>2, <4>2
      <4>4. value[v] = IF Signallable(v) /\ v \notin ToSet(cond[monitor[v]]) THEN 1 ELSE 0
        BY DEF IInv, CondInv
      <4> QED BY <1>1, <2>1, <4>1, <4>3, <4>4
    <3> QED BY <3>1, <3>2
  <2> QED BY <2>2, <2>3 DEF CondInv
<1> QED BY <1>4, <1>8, <1>9, <1>10, <1>11 DEF IInv

(* The steps that change nothing but the caller's own place. *)
LEMMA MoveInv ==
  ASSUME IInv, ConstantsOK, NEW t \in Threads, cur = t, panic = "none",
         NEW to \in {"run", "broadcast"}, NEW m \in Locks \cup {NULL},
         to = "broadcast" => m \in Locks, pc[t] \in {"run", "broadcast"},
         pc' = [pc EXCEPT ![t] = to], monitor' = [monitor EXCEPT ![t] = m],
         calls' \in 0..MaxOps,
         UNCHANGED <<sched, base, don, sync, arg, owner, alarm, panic>>
  PROVE  IInv'
<1>1. UNCHANGED <<cur, status, ready_list, base, don, locked_on, holder, value, waiters, cond,
                  arg, owner, sleepers, wake, ticks, panic>>
  BY DEF sched, sync, alarm
<1>2. /\ pc' \in [Threads -> {"run", "down", "enqueued", "relock", "broadcast", "created"}]
      /\ monitor' \in [Threads -> Locks \cup {NULL}]
      /\ pc'[t] = to /\ monitor'[t] = m
      /\ \A u \in Threads : u # t => pc'[u] = pc[u] /\ monitor'[u] = monitor[u]
  BY DEF IInv, TypeOK
<1>3. Alone(cur)
  BY <1>1, <1>2 DEF Alone
<1>4. TypeOK'
  BY <1>1, <1>2 DEF IInv, TypeOK
<1>5. BlockedInv' /\ SleepInv'
  BY <1>1, <1>3, SleepKept DEF IInv, BlockedInv, Listed
<1>6. \A u \in Threads : Signallable(u)' <=> Signallable(u)
  BY <1>1, <1>2 DEF Signallable
<1>7. ~Signallable(t)
  BY DEF Signallable
<1>8. WaitInv'
  <2> SUFFICES ASSUME NEW s \in Sems, NEW u \in ToSet(waiters[s])
               PROVE  pc'[u] = "down" /\ arg'[u] = s
    BY <1>1 DEF IInv, WaitInv
  <2>1. u \in Threads
    BY InList DEF IInv, TypeOK
  <2>2. u # t
    BY CurUnlisted
  <2> QED BY <1>1, <1>2, <2>1, <2>2 DEF IInv, WaitInv
<1>9. CallInv'
  BY <1>1, <1>2, <1>6, <1>7 DEF IInv, CallInv
<1>10. LockInv'
  BY <1>1, <1>2 DEF IInv, LockInv, TypeOK
<1>11. CondInv'
  <2>1. ASSUME NEW l \in Locks, NEW u \in ToSet(cond[l])
        PROVE  Signallable(u)' /\ monitor'[u] = l
    <3>1. u \in Threads
      BY InList DEF IInv, TypeOK
    <3>2. Signallable(u) /\ monitor[u] = l
      BY DEF IInv, CondInv
    <3> QED BY <1>2, <1>6, <1>7, <3>1, <3>2
  <2>2. ASSUME NEW u \in Threads
        PROVE  value'[u] = IF Signallable(u)' /\ u \notin ToSet(cond'[monitor'[u]]) THEN 1 ELSE 0
    <3>1. value[u] = IF Signallable(u) /\ u \notin ToSet(cond[monitor[u]]) THEN 1 ELSE 0
      BY DEF IInv, CondInv
    <3> QED BY <1>1, <1>2, <1>6, <1>7, <3>1
  <2> QED BY <1>1, <2>1, <2>2 DEF IInv, CondInv
<1> QED BY <1>4, <1>5, <1>8, <1>9, <1>10, <1>11 DEF IInv

(* A call by the running thread, within the bound. *)
LEMMA CallsFacts ==
  ASSUME IInv, ConstantsOK, NEW t \in Threads, NEW op, Calls(t, op)
  PROVE  cur = t /\ pc[t] = "run" /\ panic = "none" /\ calls' \in 0..MaxOps
BY DEF Calls, Running, IInv, TypeOK, ConstantsOK

(* A step that changes no variable but the number of calls. *)
LEMMA NothingInv ==
  ASSUME IInv, calls' \in 0..MaxOps, UNCHANGED <<sched, base, don, sync, frame, alarm, panic>>
  PROVE  IInv'
<1>1. UNCHANGED <<cur, status, ready_list, base, don, locked_on, holder, value, waiters, cond,
                  pc, arg, owner, monitor, sleepers, wake, ticks, panic>>
  BY DEF sched, sync, frame, alarm
<1>2. TypeOK'
  BY <1>1 DEF IInv, TypeOK
<1> QED BY <1>1, <1>2 DEF IInv, BlockedInv, Listed, SleepInv, WaitInv, CallInv, LockInv, CondInv,
           Signallable

(* The key by which cond_signal() chooses is a number. *)
LEMMA CondKeyTyped ==
  ASSUME IInv, ConstantsOK
  PROVE  CondKey \in [Threads -> Int]
<1>1. PRI_MIN - 1 \in Int
  BY DEF ConstantsOK
<1> QED BY <1>1 DEF CondKey, IInv, TypeOK

(* cond_signal(), with somebody waiting or nobody. *)
LEMMA CondSignalInv ==
  ASSUME IInv, ConstantsOK, NEW t \in Threads, NEW l \in Locks, cond_signal(t, l)
  PROVE  IInv'
<1>1. /\ cur = t /\ pc[t] = "run" /\ panic = "none" /\ calls' \in 0..MaxOps
      /\ UNCHANGED <<base, don, locked_on, holder, frame, alarm, panic>>
  BY CallsFacts DEF cond_signal
<1>2. CASE cond[l] = <<>>
  <2>1. UNCHANGED <<sched, value, waiters, cond>>
    BY <1>2 DEF cond_signal
  <2> QED BY <1>1, <2>1, NothingInv DEF sync
<1>3. CASE cond[l] # <<>>
  <2>1. cond[l] \in Seq(Threads) /\ Once(cond[l])
    BY DEF IInv, TypeOK, CondInv
  <2>2. PICK i \in DOMAIN cond[l] :
          cond' = [cond EXCEPT ![l] = RemoveAt(cond[l], i)] /\ sema_up(cond[l][i])
    BY <1>3, <2>1, CondKeyTyped, ListMaxIn DEF cond_signal
  <2>3. PICK u, c : u = cond[l][i] /\ c = RemoveAt(cond[l], i)
    OBVIOUS
  <2>4. u \in ToSet(cond[l])
    BY <2>3 DEF ToSet
  <2>5. c \in Seq(Threads) /\ Once(c) /\ ToSet(c) = ToSet(cond[l]) \ {u}
    BY <2>1, <2>3, TakenOut
  <2> QED BY <1>1, <2>2, <2>3, <2>4, <2>5, SignalInv
<1> QED BY <1>2, <1>3

(* cond_broadcast(), whose loop goes on until the list is empty. *)
LEMMA BroadcastInv ==
  ASSUME IInv, ConstantsOK, NEW t \in Threads, NEW l \in Locks, cond_broadcast(t, l)
  PROVE  IInv'
<1>1. /\ cur = t /\ pc[t] = "run" /\ panic = "none" /\ calls' \in 0..MaxOps
      /\ pc' = [pc EXCEPT ![t] = "broadcast"] /\ monitor' = [monitor EXCEPT ![t] = l]
      /\ UNCHANGED <<sched, base, don, sync, arg, owner, alarm, panic>>
  BY CallsFacts DEF cond_broadcast
<1> QED BY <1>1, MoveInv

(* One turn of that loop, or its end. *)
LEMMA BroadcastNextInv ==
  ASSUME IInv, ConstantsOK, NEW t \in Threads, BroadcastNext(t)
  PROVE  IInv'
<1>1. PICK l : l = monitor[t]
  OBVIOUS
<1>2. /\ cur = t /\ pc[t] = "broadcast" /\ panic = "none" /\ calls' \in 0..MaxOps
      /\ UNCHANGED <<base, don, locked_on, holder, arg, owner, alarm, panic>>
  BY DEF BroadcastNext, Running, IInv, TypeOK
<1>3. l \in Locks
  BY <1>1, <1>2 DEF IInv, CallInv
<1>4. CASE cond[l] = <<>>
  <2>1. /\ pc' = [pc EXCEPT ![t] = "run"] /\ monitor' = [monitor EXCEPT ![t] = NULL]
        /\ UNCHANGED <<sched, value, waiters, cond>>
    BY <1>1, <1>4 DEF BroadcastNext
  <2> QED BY <1>2, <2>1, MoveInv DEF sync
<1>5. CASE cond[l] # <<>>
  <2>1. /\ cond' = [cond EXCEPT ![l] = Tail(cond[l])] /\ sema_up(Head(cond[l]))
        /\ UNCHANGED <<pc, monitor>>
    BY <1>1, <1>5 DEF BroadcastNext
  <2>2. cond[l] \in Seq(Threads) /\ Once(cond[l])
    BY <1>3 DEF IInv, TypeOK, CondInv
  <2>3. PICK u, c : u = Head(cond[l]) /\ c = Tail(cond[l])
    OBVIOUS
  <2>4. u \in ToSet(cond[l]) /\ c \in Seq(Threads) /\ Once(c) /\ ToSet(c) = ToSet(cond[l]) \ {u}
    BY <1>5, <2>2, <2>3, Beheaded
  <2> QED BY <1>2, <1>3, <2>1, <2>3, <2>4, SignalInv DEF frame
<1> QED BY <1>4, <1>5

(* cond_wait(), up to where it has released the lock. *)
LEMMA CondWaitInv ==
  ASSUME IInv, ConstantsOK, NEW t \in Threads, NEW l \in Locks, cond_wait(t, l)
  PROVE  IInv'
<1>1. /\ cur = t /\ pc[t] = "run" /\ panic = "none" /\ cur \in Threads /\ calls' \in 0..MaxOps
      /\ holder[l] = t
  BY CallsFacts DEF cond_wait, Held
<1>2. /\ cond' = [cond EXCEPT ![l] = Append(cond[l], t)]
      /\ holder' = [holder EXCEPT ![l] = NULL] /\ sema_up(l)
      /\ pc' = [pc EXCEPT ![t] = "enqueued"] /\ monitor' = [monitor EXCEPT ![t] = l]
      /\ UNCHANGED <<base, don, locked_on, arg, owner, sleepers, wake, ticks, panic>>
  BY DEF cond_wait, alarm
<1>3. /\ pc' \in [Threads -> {"run", "down", "enqueued", "relock", "broadcast", "created"}]
      /\ monitor' \in [Threads -> Locks \cup {NULL}]
      /\ pc'[t] = "enqueued" /\ monitor'[t] = l
      /\ \A u \in Threads : u # t => pc'[u] = pc[u] /\ monitor'[u] = monitor[u]
  BY <1>2 DEF IInv, TypeOK
<1>4. Alone(cur)
  BY <1>1, <1>2, <1>3 DEF Alone
<1>5. l \in Sems /\ l \notin Threads /\ NULL \notin Threads
  BY Kinds
<1>6. /\ BlockedInv' /\ SleepInv' /\ WaitInv'
      /\ SchedOK(status', ready_list', cur')
      /\ \A u \in Threads : status'[u] = "FREE" <=> status[u] = "FREE"
      /\ value' = [value EXCEPT ![l] = value[l] + 1]
      /\ waiters' \in [Sems -> Seq(Threads)]
  BY <1>1, <1>2, <1>4, <1>5, SemaUpOK
<1>7. /\ value[l] = 0 /\ value'[l] = 1 /\ \A s \in Sems : s # l => value'[s] = value[s]
      /\ value' \in [Sems -> Nat]
  <2>1. value \in [Sems -> Nat]
    BY DEF IInv, TypeOK
  <2>2. value[l] = 0
    BY <1>1, <1>5 DEF IInv, LockInv
  <2> QED BY <1>5, <1>6, <2>1, <2>2
<1>8. /\ holder' \in [Locks -> Threads \cup {NULL}]
      /\ holder'[l] = NULL /\ \A k \in Locks : k # l => holder'[k] = holder[k]
  BY <1>2 DEF IInv, TypeOK
<1>9. ~Signallable(t) /\ Signallable(t)' /\ \A u \in Threads : u # t => (Signallable(u)' <=> Signallable(u))
  BY <1>1, <1>2, <1>3 DEF Signallable
<1>10. \A k \in Locks : t \notin ToSet(cond[k])
  BY <1>9 DEF IInv, CondInv
<1>11. PICK c : c = Append(cond[l], t)
  OBVIOUS
<1>12. c \in Seq(Threads) /\ Once(c) /\ ToSet(c) = ToSet(cond[l]) \cup {t}
  <2>1. cond[l] \in Seq(Threads) /\ Once(cond[l])
    BY DEF IInv, TypeOK, CondInv
  <2> QED BY <1>10, <1>11, <2>1, Appended
<1>13. /\ cond' \in [Locks -> Seq(Threads)] /\ cond'[l] = c
       /\ \A k \in Locks : k # l => cond'[k] = cond[k]
  BY <1>2, <1>11, <1>12 DEF IInv, TypeOK
<1>14. TypeOK'
  BY <1>1, <1>2, <1>3, <1>6, <1>7, <1>8, <1>13 DEF IInv, TypeOK, SchedOK
<1>15. CallInv'
  <2> SUFFICES ASSUME NEW u \in Threads
               PROVE  /\ pc'[u] = "down" => arg'[u] \in Locks \cup Semas \cup {u}
                      /\ pc'[u] \in {"broadcast", "relock"} \/ Signallable(u)' => monitor'[u] \in Locks
                      /\ pc'[u] = "relock" \/ Signallable(u)' => holder'[monitor'[u]] # u
    BY DEF CallInv
  <2>1. CASE u = t
    BY <1>3, <1>5, <1>8, <2>1
  <2>2. CASE u # t
    BY <1>2, <1>3, <1>5, <1>8, <1>9, <2>2 DEF IInv, CallInv
  <2> QED BY <2>1, <2>2
<1>16. LockInv'
  <2>1. \A k \in Locks : k # l => value'[k] = value[k] /\ holder'[k] = holder[k]
    BY <1>7, <1>8, Kinds
  <2>2. \A k \in Locks : holder[k] # NULL => holder[k] \in Threads
    BY DEF IInv, TypeOK
  <2>3. \A u \in Threads : pc'[u] = "down" => pc[u] = "down"
    BY <1>3
  <2> QED BY <1>2, <1>6, <1>7, <1>8, <2>1, <2>2, <2>3 DEF IInv, LockInv
<1>17. CondInv'
  <2>1. ASSUME NEW k \in Locks
        PROVE  Once(cond'[k]) /\ \A v \in ToSet(cond'[k]) : Signallable(v)' /\ monitor'[v] = k
    <3>1. ToSet(cond[k]) \subseteq Threads
      BY InList DEF IInv, TypeOK
    <3>2. Once(cond'[k])
      BY <1>12, <1>13 DEF IInv, CondInv
    <3>3. \A v \in ToSet(cond[k]) : v \in Threads /\ v # t /\ Signallable(v) /\ monitor[v] = k
      BY <1>10, <3>1 DEF IInv, CondInv
    <3>4. \A v \in ToSet(cond'[k]) : v \in ToSet(cond[k]) \/ (v = t /\ k = l)
      BY <1>12, <1>13
    <3>5. \A v \in ToSet(cond'[k]) : Signallable(v)' /\ monitor'[v] = k
      BY <1>3, <1>9, <3>3, <3>4
    <3> QED BY <3>2, <3>5
  <2>2. ASSUME NEW v \in Threads
        PROVE  value'[v] = IF Signallable(v)' /\ v \notin ToSet(cond'[monitor'[v]]) THEN 1 ELSE 0
    <3>1. value'[v] = value[v]
      BY <1>5, <1>7, Kinds
    <3>2. value[v] = IF Signallable(v) /\ v \notin ToSet(cond[monitor[v]]) THEN 1 ELSE 0
      BY DEF IInv, CondInv
    <3>3. CASE v = t
      BY <1>3, <1>9, <1>12, <1>13, <3>1, <3>2, <3>3
    <3>4. CASE v # t
      <4>1. Signallable(v) => monitor[v] \in Locks
        BY DEF IInv, CallInv
      <4>2. Signallable(v) => (v \in ToSet(cond'[monitor[v]]) <=> v \in ToSet(cond[monitor[v]]))
        BY <1>12, <1>13, <3>4, <4>1
      <4> QED BY <1>3, <1>9, <3>1, <3>2, <3>4, <4>2
    <3> QED BY <3>3, <3>4
  <2> QED BY <2>1, <2>2 DEF CondInv
<1> QED BY <1>6, <1>14, <1>15, <1>16, <1>17 DEF IInv

-----------------------------------------------------------------------------
(* sema_down_donate() is on the caller's own semaphore exactly in          *)
(* cond_wait(), and then cond_wait()'s lock stays known.                   *)
Downing(t, s) ==
  /\ cur = t /\ panic = "none" /\ s \in Locks \cup Semas \cup {t}
  /\ s = t <=> Signallable(t)
  /\ monitor' = monitor \/ (s # t /\ monitor' = [monitor EXCEPT ![t] = NULL])
  /\ calls' \in 0..MaxOps
  /\ UNCHANGED <<base, cond, alarm>>

(* It takes a free semaphore. *)
LEMMA TakeStep ==
  ASSUME IInv, ConstantsOK, NEW t \in Threads, NEW s, Downing(t, s), NEW d \in [Threads -> Int],
         Take(t, s, d)
  PROVE  IInv'
<1>1. /\ cur = t /\ panic = "none" /\ cur \in Threads /\ s \in Locks \cup Semas \cup {t}
      /\ s = t <=> Signallable(t)
      /\ calls' \in 0..MaxOps /\ don' = d /\ value[s] > 0
      /\ UNCHANGED <<base, cond, sleepers, wake, ticks, cur, status, ready_list, waiters, panic>>
  BY DEF Downing, alarm, Take, sched, Free
<1>2. /\ s \in Sems /\ NULL \notin Threads /\ t \notin Locks
      /\ s # t => s \notin Threads
  BY <1>1, Kinds
<1>3. /\ value' \in [Sems -> Nat] /\ value'[s] = value[s] - 1
      /\ \A r \in Sems : r # s => value'[r] = value[r]
  <2>1. value \in [Sems -> Nat] /\ value' = [value EXCEPT ![s] = value[s] - 1]
    BY DEF Take, IInv, TypeOK
  <2>2. PICK n \in Nat : n = value[s] - 1
    BY <1>1, <1>2, <2>1
  <2> QED BY <1>2, <2>1, <2>2
<1>4. PICK to \in {"run", "relock"} : pc' = [pc EXCEPT ![t] = to] /\ (to = "relock" <=> s = t)
  BY DEF Take
<1>5. /\ pc' \in [Threads -> {"run", "down", "enqueued", "relock", "broadcast", "created"}]
      /\ pc'[t] = to /\ \A u \in Threads : u # t => pc'[u] = pc[u]
  BY <1>4 DEF IInv, TypeOK
<1>6. /\ arg' \in [Threads -> Sems \cup {NULL}] /\ owner' \in [Threads -> Threads \cup {NULL}]
      /\ locked_on' \in [Threads -> Locks \cup {NULL}]
      /\ \A u \in Threads : u # t => arg'[u] = arg[u]
  BY DEF Take, IInv, TypeOK
<1>7. /\ monitor' \in [Threads -> Locks \cup {NULL}]
      /\ \A u \in Threads : u # t => monitor'[u] = monitor[u]
      /\ s = t => monitor'[t] = monitor[t]
  BY DEF Downing, IInv, TypeOK
<1>8. /\ holder' \in [Locks -> Threads \cup {NULL}]
      /\ \A k \in Locks : holder'[k] = IF k = s THEN t ELSE holder[k]
  BY DEF Take, IInv, TypeOK
<1>9. Alone(cur)
  BY <1>1, <1>5, <1>6, <1>7 DEF Alone
<1>10. TypeOK'
  BY <1>1, <1>3, <1>5, <1>6, <1>7, <1>8 DEF IInv, TypeOK
<1>11. BlockedInv' /\ SleepInv'
  BY <1>1, <1>9, SleepKept DEF IInv, BlockedInv, Listed
<1>12. WaitInv'
  <2> SUFFICES ASSUME NEW r \in Sems
               PROVE  /\ Once(waiters'[r])
                      /\ \A u \in ToSet(waiters'[r]) : pc'[u] = "down" /\ arg'[u] = r
                      /\ value'[r] > 0 => waiters'[r] = <<>>
    BY DEF WaitInv
  <2>1. ToSet(waiters[r]) \subseteq Threads /\ t \notin ToSet(waiters[r])
    BY <1>1, InList, CurUnlisted DEF IInv, TypeOK
  <2>2. value'[r] > 0 => value[r] > 0
    BY <1>1, <1>2, <1>3 DEF IInv, TypeOK
  <2> QED BY <1>1, <1>5, <1>6, <2>1, <2>2 DEF IInv, WaitInv
<1>13. ~Signallable(t)' /\ \A u \in Threads : u # t => (Signallable(u)' <=> Signallable(u))
  BY <1>5, <1>6 DEF Signallable
<1>14. CallInv'
  <2> SUFFICES ASSUME NEW u \in Threads
               PROVE  /\ pc'[u] = "down" => arg'[u] \in Locks \cup Semas \cup {u}
                      /\ pc'[u] \in {"broadcast", "relock"} \/ Signallable(u)' => monitor'[u] \in Locks
                      /\ pc'[u] = "relock" \/ Signallable(u)' => holder'[monitor'[u]] # u
    BY DEF CallInv
  <2>1. CASE u = t
    <3>1. CASE s = t
      <4>1. monitor[t] \in Locks /\ holder[monitor[t]] # t /\ monitor[t] # s
        BY <1>1, <1>2, <3>1 DEF IInv, CallInv
      <4> QED BY <1>4, <1>5, <1>7, <1>8, <1>13, <2>1, <3>1, <4>1
    <3>2. CASE s # t
      BY <1>4, <1>5, <1>13, <2>1, <3>2
    <3> QED BY <3>1, <3>2
  <2>2. CASE u # t
    BY <1>5, <1>6, <1>7, <1>8, <1>13, <2>2 DEF IInv, CallInv
  <2> QED BY <2>1, <2>2
<1>15. LockInv'
  <2> SUFFICES ASSUME NEW l \in Locks
               PROVE  IF holder'[l] = NULL THEN value'[l] = 1
                      ELSE /\ value'[l] = 0 /\ status'[holder'[l]] # "FREE"
                           /\ ~(pc'[holder'[l]] = "down" /\ arg'[holder'[l]] = l)
    BY DEF LockInv
  <2>1. CASE l = s
    <3>1. value[l] = 1
      BY <1>1, <2>1 DEF IInv, LockInv
    <3>2. status[t] = "RUNNING"
      BY <1>1, CurUnlisted
    <3> QED BY <1>1, <1>2, <1>3, <1>5, <1>8, <2>1, <3>1, <3>2
  <2>2. CASE l # s
    <3>1. value'[l] = value[l] /\ holder'[l] = holder[l]
      BY <1>3, <1>8, <2>2, Kinds
    <3>2. holder[l] # NULL => holder[l] \in Threads
      BY DEF IInv, TypeOK
    <3> QED BY <1>1, <1>5, <1>6, <3>1, <3>2 DEF IInv, LockInv
  <2> QED BY <2>1, <2>2
<1>16. CondInv'
  <2>1. \A k \in Locks : t \notin ToSet(cond[k])
    <3>1. s = t => value[t] # 0
      BY <1>1
    <3> QED BY <1>1, <3>1 DEF IInv, CondInv
  <2>2. ASSUME NEW k \in Locks, NEW u \in ToSet(cond[k])
        PROVE  Signallable(u)' /\ monitor'[u] = k
    <3>1. u \in Threads /\ u # t
      BY <2>1, <2>2, InList DEF IInv, TypeOK
    <3> QED BY <1>7, <1>13, <3>1 DEF IInv, CondInv
  <2>3. ASSUME NEW u \in Threads
        PROVE  value'[u] = IF Signallable(u)' /\ u \notin ToSet(cond'[monitor'[u]]) THEN 1 ELSE 0
    <3>1. value[u] = IF Signallable(u) /\ u \notin ToSet(cond[monitor[u]]) THEN 1 ELSE 0
      BY DEF IInv, CondInv
    <3>2. CASE u = t
      <4>1. value'[t] = 0
        <5>1. CASE s = t
          BY <1>1, <1>3, <3>1, <3>2, <5>1
        <5>2. CASE s # t
          BY <1>1, <1>3, <3>1, <3>2, <5>2, Kinds
        <5> QED BY <5>1, <5>2
      <4> QED BY <1>13, <3>2, <4>1
    <3>3. CASE u # t
      <4>1. value'[u] = value[u]
        BY <1>2, <1>3, <3>3, Kinds
      <4> QED BY <1>1, <1>7, <1>13, <3>1, <3>3, <4>1
    <3> QED BY <3>2, <3>3
  <2> QED BY <1>1, <2>2, <2>3 DEF IInv, CondInv
<1> QED BY <1>10, <1>11, <1>12, <1>14, <1>15, <1>16 DEF IInv

(* Or it donates its priority and waits. *)
LEMMA WaitStep ==
  ASSUME IInv, ConstantsOK, NEW t \in Threads, NEW s, Downing(t, s), NEW d \in [Threads -> Int],
         s \in Locks => holder[s] # t, Wait(t, s, d)
  PROVE  IInv'
<1>1. /\ cur = t /\ panic = "none" /\ cur \in Threads /\ s \in Locks \cup Semas \cup {t}
      /\ s = t <=> Signallable(t)
      /\ calls' \in 0..MaxOps /\ ~(value[s] > 0)
      /\ UNCHANGED <<base, cond, sleepers, wake, ticks, holder, value>>
  BY DEF Downing, alarm, Wait, Free
<1>2. s \in Sems /\ (s # t => s \notin Threads) /\ t \notin Locks
  BY <1>1, Kinds
<1>3. PICK w : w = Donate(t, s, d)
  OBVIOUS
<1>4. w.don \in [Threads -> Int]
  <2>1. CASE s \in Locks /\ holder[s] # NULL
    <3>1. holder[s] \in Threads /\ d[t] \in Int
      BY <2>1 DEF IInv, TypeOK
    <3>2. w \in Walk
      BY <1>3, <2>1, <3>1, DonateTyped DEF Donate, IInv, TypeOK
    <3> QED BY <3>2 DEF Walk
  <2>2. CASE ~(s \in Locks /\ holder[s] # NULL)
    BY <1>3, <2>2 DEF Donate
  <2> QED BY <2>1, <2>2
<1>5. /\ don' = w.don
      /\ \/ thread_block(ready_list, w.don) /\ panic' = panic
         \/ panic' = "thread_donate" /\ UNCHANGED <<cur, status, ready_list>>
  BY <1>3 DEF Wait, sched
<1>6. /\ pc' \in [Threads -> {"run", "down", "enqueued", "relock", "broadcast", "created"}]
      /\ arg' \in [Threads -> Sems \cup {NULL}]
      /\ pc'[t] = "down" /\ arg'[t] = s
      /\ \A u \in Threads : u # t => pc'[u] = pc[u] /\ arg'[u] = arg[u]
  BY <1>2 DEF Wait, IInv, TypeOK
<1>7. /\ owner' \in [Threads -> Threads \cup {NULL}]
      /\ locked_on' \in [Threads -> Locks \cup {NULL}]
  BY DEF Wait, IInv, TypeOK
<1>8. /\ monitor' \in [Threads -> Locks \cup {NULL}]
      /\ \A u \in Threads : u # t => monitor'[u] = monitor[u]
      /\ s = t => monitor'[t] = monitor[t]
  BY DEF Downing, IInv, TypeOK
<1>9. Alone(cur)
  BY <1>1, <1>6, <1>8 DEF Alone
<1>10. \A r \in Sems : waiters[r] \in Seq(Threads) /\ ToSet(waiters[r]) \subseteq Threads
                       /\ t \notin ToSet(waiters[r])
  BY <1>1, InList, CurUnlisted DEF IInv, TypeOK
<1>11. PICK a : a = Append(waiters[s], t)
  OBVIOUS
<1>12. a \in Seq(Threads) /\ Once(a) /\ ToSet(a) = ToSet(waiters[s]) \cup {t}
  BY <1>2, <1>10, <1>11, Appended DEF IInv, WaitInv
<1>13. /\ waiters' \in [Sems -> Seq(Threads)] /\ waiters'[s] = a
       /\ \A r \in Sems : r # s => waiters'[r] = waiters[r]
  BY <1>2, <1>11, <1>12 DEF Wait, IInv, TypeOK
<1>14. /\ cur' \in Threads \cup {Idle} /\ ready_list' \in Seq(Threads)
       /\ status' \in [Threads -> {"RUNNING", "READY", "BLOCKED", "FREE"}]
       /\ panic' \in {"none", "thread_donate", "thread_update_donations", "thread_yield"}
       /\ BlockedInv' /\ \A u \in Threads : status'[u] = "FREE" => status[u] = "FREE"
  <2>1. CASE thread_block(ready_list, w.don) /\ panic' = panic
    <3>1. SchedOK(status, ready_list, cur)
      BY <1>1 DEF IInv, BlockedInv
    <3>2. Switched([status EXCEPT ![cur] = "BLOCKED"])
      BY <1>1, <1>4, <2>1, <3>1, LeaveOK DEF thread_block
    <3>3. \A u \in Threads : [status EXCEPT ![cur] = "BLOCKED"][u] = IF u = t THEN "BLOCKED" ELSE status[u]
      BY <1>1 DEF IInv, TypeOK
    <3>4. \A u \in Threads : Listed(u)' <=> Listed(u) \/ u = t
      BY <1>1, <1>2, <1>12, <1>13 DEF Listed
    <3>5. \A u \in Threads : status'[u] = "BLOCKED" <=> Listed(u)'
      BY <1>1, <3>2, <3>3, <3>4 DEF Switched, IInv, BlockedInv
    <3>6. \A u \in Threads : status'[u] = "FREE" => status[u] = "FREE"
      BY <3>2, <3>3 DEF Switched
    <3> QED BY <1>1, <2>1, <3>2, <3>5, <3>6 DEF Switched, SchedOK, BlockedInv
  <2>2. CASE panic' = "thread_donate" /\ UNCHANGED <<cur, status, ready_list>>
    BY <2>2 DEF BlockedInv, IInv, TypeOK
  <2> QED BY <1>5, <2>1, <2>2
<1>15. TypeOK'
  BY <1>1, <1>4, <1>5, <1>6, <1>7, <1>8, <1>13, <1>14 DEF IInv, TypeOK
<1>16. SleepInv'
  BY <1>1, <1>9, SleepKept
<1>17. WaitInv'
  <2> SUFFICES ASSUME NEW r \in Sems
               PROVE  /\ Once(waiters'[r])
                      /\ \A u \in ToSet(waiters'[r]) : pc'[u] = "down" /\ arg'[u] = r
                      /\ value'[r] > 0 => waiters'[r] = <<>>
    BY DEF WaitInv
  <2>1. ASSUME NEW u \in ToSet(waiters[r]) PROVE pc'[u] = "down" /\ arg'[u] = r
    <3>1. u \in Threads /\ u # t
      BY <1>10
    <3>2. pc[u] = "down" /\ arg[u] = r
      BY DEF IInv, WaitInv
    <3> QED BY <1>6, <3>1, <3>2
  <2>2. CASE r = s
    BY <1>1, <1>6, <1>12, <1>13, <2>1, <2>2
  <2>3. CASE r # s
    BY <1>1, <1>13, <2>1, <2>3 DEF IInv, WaitInv
  <2> QED BY <2>2, <2>3
<1>18. \A u \in Threads : Signallable(u)' <=> Signallable(u)
  BY <1>1, <1>6 DEF Signallable
<1>19. CallInv'
  <2> SUFFICES ASSUME NEW u \in Threads
               PROVE  /\ pc'[u] = "down" => arg'[u] \in Locks \cup Semas \cup {u}
                      /\ pc'[u] \in {"broadcast", "relock"} \/ Signallable(u)' => monitor'[u] \in Locks
                      /\ pc'[u] = "relock" \/ Signallable(u)' => holder'[monitor'[u]] # u
    BY DEF CallInv
  <2>1. CASE u = t
    BY <1>1, <1>6, <1>8, <1>18, <2>1 DEF IInv, CallInv
  <2>2. CASE u # t
    BY <1>1, <1>6, <1>8, <1>18, <2>2 DEF IInv, CallInv
  <2> QED BY <2>1, <2>2
<1>20. LockInv'
  <2>1. \A l \in Locks : holder[l] # NULL => holder[l] \in Threads
    BY DEF IInv, TypeOK
  <2>2. \A l \in Locks : holder[l] # NULL =>
          ~(pc'[holder[l]] = "down" /\ arg'[holder[l]] = l)
    BY <1>6, <2>1 DEF IInv, LockInv
  <2> QED BY <1>1, <1>14, <2>1, <2>2 DEF IInv, LockInv
<1>21. CondInv'
  <2>1. ASSUME NEW k \in Locks, NEW u \in ToSet(cond[k])
        PROVE  Signallable(u)' /\ monitor'[u] = k
    <3>1. u \in Threads /\ Signallable(u) /\ monitor[u] = k
      BY <2>1, InList DEF IInv, TypeOK, CondInv
    <3> QED BY <1>1, <1>8, <1>18, <3>1
  <2>2. ASSUME NEW u \in Threads
        PROVE  value'[u] = IF Signallable(u)' /\ u \notin ToSet(cond'[monitor'[u]]) THEN 1 ELSE 0
    <3>1. value[u] = IF Signallable(u) /\ u \notin ToSet(cond[monitor[u]]) THEN 1 ELSE 0
      BY DEF IInv, CondInv
    <3> QED BY <1>1, <1>8, <1>18, <3>1
  <2> QED BY <1>1, <2>1, <2>2 DEF IInv, CondInv
<1> QED BY <1>14, <1>15, <1>16, <1>17, <1>19, <1>20, <1>21 DEF IInv

(* Priorities are numbers, and so is what lies past a list. *)
LEMMA Numbers ==
  ASSUME ConstantsOK
  PROVE  Priorities \subseteq Int /\ Garbage \subseteq Int
BY DEF ConstantsOK, Priorities

(* sema_down_donate(), whatever it does. *)
LEMMA DownInv ==
  ASSUME IInv, ConstantsOK, NEW t \in Threads, NEW s, Downing(t, s), NEW d \in [Threads -> Int],
         s \in Locks => holder[s] # t, sema_down_donate(t, s, d)
  PROVE  IInv'
BY TakeStep, WaitStep DEF sema_down_donate

(* lock_acquire(). *)
LEMMA AcquireInv ==
  ASSUME IInv, ConstantsOK, NEW t \in Threads, NEW l \in Locks, lock_acquire(t, l)
  PROVE  IInv'
<1>1. /\ cur = t /\ pc[t] = "run" /\ panic = "none" /\ calls' \in 0..MaxOps
      /\ sema_down_donate(t, l, don) /\ UNCHANGED <<base, cond, monitor, alarm>>
  BY CallsFacts DEF lock_acquire
<1>2. holder[l] # t
  <2>1. holder[l] = t => l < l
    BY DEF lock_acquire, Nests, Held
  <2>2. l \in Int
    BY DEF Locks, ConstantsOK
  <2> QED BY <2>1, <2>2
<1>3. Downing(t, l)
  BY <1>1, Kinds DEF Downing, Signallable
<1> QED BY <1>1, <1>2, <1>3, DownInv DEF IInv, TypeOK

(* sema_down(). *)
LEMMA SemaDownInv ==
  ASSUME IInv, ConstantsOK, NEW t \in Threads, NEW s \in Semas, sema_down(t, s)
  PROVE  IInv'
<1>1. /\ cur = t /\ pc[t] = "run" /\ panic = "none" /\ calls' \in 0..MaxOps
      /\ sema_down_donate(t, s, don) /\ UNCHANGED <<base, cond, monitor, alarm>>
  BY CallsFacts DEF sema_down
<1>2. Downing(t, s) /\ s \notin Locks
  BY <1>1, Kinds DEF Downing, Signallable
<1> QED BY <1>1, <1>2, DownInv DEF IInv, TypeOK

(* The down of cond_wait(). *)
LEMMA CondDownInv ==
  ASSUME IInv, ConstantsOK, NEW t \in Threads, CondDown(t)
  PROVE  IInv'
<1>1. /\ cur = t /\ pc[t] = "enqueued" /\ panic = "none" /\ calls' \in 0..MaxOps
      /\ sema_down_donate(t, t, don) /\ UNCHANGED <<base, cond, monitor, alarm>>
  BY DEF CondDown, Running, IInv, TypeOK
<1>2. Downing(t, t) /\ t \notin Locks
  BY <1>1, Kinds DEF Downing, Signallable
<1> QED BY <1>1, <1>2, DownInv DEF IInv, TypeOK

(* The lock_acquire() at its end. *)
LEMMA RelockInv ==
  ASSUME IInv, ConstantsOK, NEW t \in Threads, CondRelock(t)
  PROVE  IInv'
<1>1. /\ cur = t /\ pc[t] = "relock" /\ panic = "none" /\ calls' \in 0..MaxOps
      /\ sema_down_donate(t, monitor[t], don) /\ UNCHANGED <<base, cond, alarm>>
      /\ monitor' = [monitor EXCEPT ![t] = NULL]
  BY DEF CondRelock, Running, IInv, TypeOK
<1>2. monitor[t] \in Locks /\ holder[monitor[t]] # t
  BY <1>1 DEF IInv, CallInv
<1>3. Downing(t, monitor[t])
  BY <1>1, <1>2, Kinds DEF Downing, Signallable
<1> QED BY <1>1, <1>2, <1>3, DownInv DEF IInv, TypeOK

(* A woken thread takes its donation back and tries again, or panics. *)
LEMMA WokenInv ==
  ASSUME IInv, ConstantsOK, NEW t \in Threads, Woken(t)
  PROVE  IInv'
<1>1. /\ cur = t /\ pc[t] = "down" /\ panic = "none" /\ calls' \in 0..MaxOps
      /\ UNCHANGED <<base, cond, monitor, alarm>>
  BY DEF Woken, Running, IInv, TypeOK
<1>2. PICK g \in [Locks -> Garbage] :
        LET w == IF TakesBack(t) THEN thread_update_donations(don, base, owner[t], g)
                                 ELSE [don |-> don, at |-> "done"]
        IN  \/ sema_down_donate(t, arg[t], w.don)
            \/ /\ panic' = "thread_update_donations" /\ don' = w.don
               /\ UNCHANGED <<sched, locked_on, holder, value, waiters, pc, arg, owner>>
  BY DEF Woken
<1>3. PICK w : /\ w = IF TakesBack(t) THEN thread_update_donations(don, base, owner[t], g)
                                      ELSE [don |-> don, at |-> "done"]
               /\ \/ sema_down_donate(t, arg[t], w.don)
                  \/ /\ panic' = "thread_update_donations" /\ don' = w.don
                     /\ UNCHANGED <<sched, locked_on, holder, value, waiters, pc, arg, owner>>
  BY <1>2
<1>4. w.don \in [Threads -> Int]
  <2>1. CASE TakesBack(t)
    <3>1. owner[t] \in Threads
      BY <2>1 DEF TakesBack, IInv, TypeOK
    <3>2. /\ g \in [Locks -> Int] /\ base \in [Threads -> Int] /\ don \in [Threads -> Int]
          /\ waiters \in [Sems -> Seq(Threads)]
          /\ locked_on \in [Threads -> Locks \cup {NULL}] /\ holder \in [Locks -> Threads \cup {NULL}]
      BY Numbers DEF IInv, TypeOK
    <3>3. w \in Walk
      BY <1>3, <2>1, <3>1, <3>2, UpdateTyped
    <3> QED BY <3>3 DEF Walk
  <2>2. CASE ~TakesBack(t)
    BY <1>3, <2>2 DEF IInv, TypeOK
  <2> QED BY <2>1, <2>2
<1>5. CASE sema_down_donate(t, arg[t], w.don)
  <2>1. arg[t] \in Locks \cup Semas \cup {t}
    BY <1>1 DEF IInv, CallInv
  <2>2. arg[t] \in Locks => holder[arg[t]] # t
    BY <1>1, Kinds DEF IInv, LockInv
  <2>3. Downing(t, arg[t])
    BY <1>1, <2>1 DEF Downing, Signallable
  <2> QED BY <1>4, <1>5, <2>2, <2>3, DownInv
<1>6. CASE /\ panic' = "thread_update_donations" /\ don' = w.don
           /\ UNCHANGED <<sched, locked_on, holder, value, waiters, pc, arg, owner>>
  <2>1. UNCHANGED <<cur, status, ready_list, locked_on, holder, value, waiters, pc, arg, owner,
                    base, cond, monitor, sleepers, wake, ticks>>
    BY <1>1, <1>6 DEF sched, alarm
  <2>2. TypeOK'
    BY <1>1, <1>4, <1>6, <2>1 DEF IInv, TypeOK
  <2> QED BY <1>6, <2>1, <2>2
          DEF IInv, BlockedInv, SleepInv, WaitInv, CallInv, LockInv, CondInv, Signallable
<1> QED BY <1>3, <1>5, <1>6

(* lock_try_acquire(). *)
LEMMA TryInv ==
  ASSUME IInv, ConstantsOK, NEW t \in Threads, NEW l \in Locks, lock_try_acquire(t, l)
  PROVE  IInv'
<1>1. /\ cur = t /\ pc[t] = "run" /\ panic = "none" /\ calls' \in 0..MaxOps /\ cur \in Threads
      /\ UNCHANGED <<sched, base, don, locked_on, waiters, cond, frame, alarm, panic>>
  BY CallsFacts DEF lock_try_acquire
<1>2. CASE UNCHANGED <<value, holder>>
  BY <1>1, <1>2, NothingInv DEF sync
<1>3. CASE /\ Free(l) /\ value' = [value EXCEPT ![l] = value[l] - 1]
           /\ holder' = [holder EXCEPT ![l] = t]
  <2>1. UNCHANGED <<cur, status, ready_list, base, don, locked_on, waiters, cond, pc, arg, owner,
                    monitor, sleepers, wake, ticks, panic>>
    BY <1>1 DEF sched, frame, alarm
  <2>2. l \in Sems /\ l \notin Threads /\ NULL \notin Threads /\ value[l] > 0 /\ value[l] = 1
    BY <1>3, Kinds DEF Free, IInv, LockInv
  <2>3. /\ value' \in [Sems -> Nat] /\ value'[l] = 0
        /\ \A s \in Sems : s # l => value'[s] = value[s]
    BY <1>3, <2>2 DEF IInv, TypeOK
  <2>4. /\ holder' \in [Locks -> Threads \cup {NULL}] /\ holder'[l] = t
        /\ \A k \in Locks : k # l => holder'[k] = holder[k]
    BY <1>3 DEF IInv, TypeOK
  <2>5. TypeOK'
    BY <1>1, <2>1, <2>3, <2>4 DEF IInv, TypeOK
  <2>6. BlockedInv' /\ SleepInv'
    BY <2>1 DEF IInv, BlockedInv, Listed, SleepInv
  <2>7. WaitInv'
    <3>1. \A s \in Sems : value'[s] > 0 => value[s] > 0
      BY <2>2, <2>3
    <3> QED BY <2>1, <3>1 DEF IInv, WaitInv
  <2>8. CallInv'
    <3>1. \A u \in Threads : Signallable(u)' <=> Signallable(u)
      BY <2>1 DEF Signallable
    <3>2. ~Signallable(t)
      BY <1>1 DEF Signallable
    <3> QED BY <1>1, <2>1, <2>4, <3>1, <3>2 DEF IInv, CallInv
  <2>9. LockInv'
    <3>1. status[t] = "RUNNING"
      BY <1>1, CurUnlisted
    <3>2. \A k \in Locks : k # l => value'[k] = value[k]
      BY <2>3, Kinds
    <3> QED BY <1>1, <2>1, <2>2, <2>3, <2>4, <3>1, <3>2 DEF IInv, LockInv
  <2>10. CondInv'
    <3>1. \A u \in Threads : value'[u] = value[u]
      BY <2>2, <2>3, Kinds
    <3> QED BY <2>1, <3>1 DEF IInv, CondInv, Signallable
  <2> QED BY <2>5, <2>6, <2>7, <2>8, <2>9, <2>10 DEF IInv
<1> QED BY <1>2, <1>3 DEF lock_try_acquire

-----------------------------------------------------------------------------
(* A switch that leaves the synchronization primitives alone, and threads  *)
(* where they are but for a way into or out of thread_create().            *)
LEMMA SwitchMoves ==
  ASSUME IInv, ConstantsOK, SchedOK(status', ready_list', cur'),
         \A u \in Threads : status'[u] = "BLOCKED" <=> Listed(u)',
         \A u \in Threads : status'[u] = "FREE" => status[u] = "FREE" \/ Held(u) = {},
         SleepInv', sleepers' \in Seq(Threads), wake' \in [Threads -> Int], ticks' \in Nat,
         base' \in [Threads -> Priorities], don' \in [Threads -> Int], calls' \in 0..MaxOps,
         panic' = panic, UNCHANGED <<sync, arg, owner, monitor>>,
         pc' \in [Threads -> {"run", "down", "enqueued", "relock", "broadcast", "created"}],
         \A u \in Threads : pc'[u] = pc[u] \/ {pc[u], pc'[u]} \subseteq {"run", "created"}
  PROVE  IInv'
<1>1. UNCHANGED <<locked_on, holder, value, waiters, cond, arg, owner, monitor, panic>>
  BY DEF sync
<1>2. TypeOK'
  BY <1>1 DEF IInv, TypeOK, SchedOK
<1>3. BlockedInv'
  BY DEF BlockedInv
<1>4. \A u \in Threads : /\ pc'[u] = "down" <=> pc[u] = "down"
                         /\ pc'[u] = "relock" <=> pc[u] = "relock"
                         /\ pc'[u] = "broadcast" <=> pc[u] = "broadcast"
                         /\ Signallable(u)' <=> Signallable(u)
  BY <1>1 DEF Signallable
<1>5. WaitInv'
  <2>1. \A s \in Sems : ToSet(waiters[s]) \subseteq Threads
    BY InList DEF IInv, TypeOK
  <2> QED BY <1>1, <1>4, <2>1 DEF IInv, WaitInv
<1>6. CondInv'
  <2>1. \A l \in Locks : ToSet(cond[l]) \subseteq Threads
    BY InList DEF IInv, TypeOK
  <2> QED BY <1>1, <1>4, <2>1 DEF IInv, CondInv
<1>7. CallInv'
  <2> SUFFICES ASSUME NEW u \in Threads
               PROVE  /\ pc'[u] = "down" => arg'[u] \in Locks \cup Semas \cup {u}
                      /\ pc'[u] \in {"broadcast", "relock"} \/ Signallable(u)' => monitor'[u] \in Locks
                      /\ pc'[u] = "relock" \/ Signallable(u)' => holder'[monitor'[u]] # u
    BY DEF CallInv
  <2>1. /\ pc[u] = "down" => arg[u] \in Locks \cup Semas \cup {u}
        /\ pc[u] \in {"broadcast", "relock"} \/ Signallable(u) => monitor[u] \in Locks
        /\ pc[u] = "relock" \/ Signallable(u) => holder[monitor[u]] # u
    BY DEF IInv, CallInv
  <2> QED BY <1>1, <1>4, <2>1
<1>8. LockInv'
  <2> SUFFICES ASSUME NEW l \in Locks
               PROVE  IF holder[l] = NULL THEN value[l] = 1
                      ELSE /\ value[l] = 0 /\ status'[holder[l]] # "FREE"
                           /\ ~(pc'[holder[l]] = "down" /\ arg[holder[l]] = l)
    BY <1>1 DEF LockInv
  <2>1. holder[l] # NULL => holder[l] \in Threads /\ Held(holder[l]) # {}
    BY DEF IInv, TypeOK, Held
  <2>2. IF holder[l] = NULL THEN value[l] = 1
        ELSE /\ value[l] = 0 /\ status[holder[l]] # "FREE"
             /\ ~(pc[holder[l]] = "down" /\ arg[holder[l]] = l)
    BY DEF IInv, LockInv
  <2> QED BY <1>4, <2>1, <2>2
<1> QED BY <1>2, <1>3, <1>5, <1>6, <1>7, <1>8 DEF IInv

(* A switch that leaves every thread where it is in its code. *)
LEMMA SwitchInv ==
  ASSUME IInv, ConstantsOK, SchedOK(status', ready_list', cur'),
         \A u \in Threads : status'[u] = "BLOCKED" <=> Listed(u)',
         \A u \in Threads : status'[u] = "FREE" => status[u] = "FREE" \/ Held(u) = {},
         SleepInv', sleepers' \in Seq(Threads), wake' \in [Threads -> Int], ticks' \in Nat,
         base' \in [Threads -> Priorities], don' \in [Threads -> Int], calls' \in 0..MaxOps,
         panic' = panic, UNCHANGED <<sync, frame>>
  PROVE  IInv'
<1>1. /\ UNCHANGED <<sync, arg, owner, monitor>> /\ pc' = pc
      /\ pc' \in [Threads -> {"run", "down", "enqueued", "relock", "broadcast", "created"}]
  BY DEF frame, IInv, TypeOK
<1> QED BY <1>1, SwitchMoves

(* With the lists as they were, the same threads are blocked. *)
LEMMA SameListed ==
  ASSUME IInv, panic = "none", UNCHANGED <<sleepers, waiters>>
  PROVE  \A u \in Threads : status[u] = "BLOCKED" <=> Listed(u)'
BY DEF IInv, BlockedInv, Listed

(* The sleep queue, when nobody joins or leaves it. *)
LEMMA SameSleep ==
  ASSUME IInv, UNCHANGED <<sleepers, wake, pc>>
  PROVE  SleepInv'
BY DEF IInv, SleepInv

(* thread_create(), up to its thread_unblock(). *)
LEMMA CreateInv ==
  ASSUME IInv, ConstantsOK, NEW t \in Threads, NEW u \in Threads, NEW p \in Priorities,
         thread_create(t, u, p)
  PROVE  IInv'
<1>1. /\ cur = t /\ pc[t] = "run" /\ panic = "none" /\ calls' \in 0..MaxOps /\ cur \in Threads
      /\ status[u] = "FREE"
      /\ base' = [base EXCEPT ![u] = p] /\ don' = [don EXCEPT ![u] = p]
      /\ Stay(thread_unblock({u}), Append(ready_list, u))
      /\ pc' = [pc EXCEPT ![t] = "created"]
      /\ UNCHANGED <<sync, arg, owner, monitor, sleepers, wake, ticks, panic>>
  BY CallsFacts DEF thread_create, alarm
<1>2. base' \in [Threads -> Priorities] /\ don' \in [Threads -> Int]
  BY <1>1, Numbers DEF IInv, TypeOK
<1>3. SchedOK(status, ready_list, cur)
  BY <1>1 DEF IInv, BlockedInv
<1>4. PICK st, list : st = thread_unblock({u}) /\ list = Append(ready_list, u)
  OBVIOUS
<1>5. \A v \in Threads : st[v] = IF v = u THEN "READY" ELSE status[v]
  BY <1>4 DEF thread_unblock
<1>6. SchedOK(st, list, cur)
  <2>1. st \in [Threads -> {"RUNNING", "READY", "BLOCKED", "FREE"}]
    BY <1>3, <1>4 DEF thread_unblock, SchedOK
  <2>2. u \notin ToSet(ready_list)
    BY <1>1, <1>3 DEF SchedOK
  <2>3. list \in Seq(Threads) /\ Once(list) /\ ToSet(list) = ToSet(ready_list) \cup {u}
    BY <1>3, <1>4, <2>2, Appended DEF SchedOK
  <2> QED BY <1>1, <1>3, <1>5, <2>1, <2>3 DEF SchedOK
<1>7. Switched(st)
  BY <1>1, <1>4, <1>6, StayOK
<1>8. /\ waiters' = waiters
      /\ pc' \in [Threads -> {"run", "down", "enqueued", "relock", "broadcast", "created"}]
      /\ \A v \in Threads : pc'[v] = IF v = t THEN "created" ELSE pc[v]
  BY <1>1 DEF sync, IInv, TypeOK
<1>9. \A v \in Threads : status'[v] = "BLOCKED" <=> Listed(v)'
  BY <1>1, <1>5, <1>7, <1>8, SameListed DEF Switched
<1>10. \A v \in Threads : status'[v] = "FREE" => status[v] = "FREE"
  BY <1>5, <1>7 DEF Switched
<1>11. sleepers' \in Seq(Threads) /\ wake' \in [Threads -> Int] /\ ticks' \in Nat
  BY <1>1 DEF IInv, TypeOK
<1>12. SleepInv'
  BY <1>1, <1>8, SleepKept DEF Alone
<1> QED BY <1>1, <1>2, <1>7, <1>8, <1>9, <1>10, <1>11, <1>12, SwitchMoves DEF Switched

(* Its thread_yield(). *)
LEMMA CreatedInv ==
  ASSUME IInv, ConstantsOK, NEW t \in Threads, CreatedYield(t)
  PROVE  IInv'
<1>1. /\ cur = t /\ pc[t] = "created" /\ panic = "none" /\ cur \in Threads
      /\ thread_yield(status, ready_list, don)
      /\ pc' = [pc EXCEPT ![t] = "run"]
      /\ UNCHANGED <<base, don, sync, arg, owner, monitor, sleepers, wake, ticks, panic, calls>>
  BY DEF CreatedYield, Running, alarm
<1>2. don \in [Threads -> Int] /\ SchedOK(status, ready_list, cur)
  BY <1>1 DEF IInv, TypeOK, BlockedInv
<1>3. Switched(status)
  BY <1>1, <1>2, YieldOK
<1>4. /\ waiters' = waiters
      /\ pc' \in [Threads -> {"run", "down", "enqueued", "relock", "broadcast", "created"}]
      /\ \A v \in Threads : pc'[v] = IF v = t THEN "run" ELSE pc[v]
  BY <1>1 DEF sync, IInv, TypeOK
<1>5. \A v \in Threads : status'[v] = "BLOCKED" <=> Listed(v)'
  BY <1>1, <1>3, <1>4, SameListed DEF Switched
<1>6. \A v \in Threads : status'[v] = "FREE" => status[v] = "FREE"
  BY <1>3 DEF Switched
<1>7. /\ sleepers' \in Seq(Threads) /\ wake' \in [Threads -> Int] /\ ticks' \in Nat
      /\ base' \in [Threads -> Priorities] /\ don' \in [Threads -> Int] /\ calls' \in 0..MaxOps
  BY <1>1 DEF IInv, TypeOK
<1>8. SleepInv'
  BY <1>1, <1>4, SleepKept DEF Alone
<1> QED BY <1>1, <1>3, <1>4, <1>5, <1>6, <1>7, <1>8, SwitchMoves DEF Switched

(* thread_exit(). *)
LEMMA ExitInv ==
  ASSUME IInv, ConstantsOK, NEW t \in Threads, thread_exit(t)
  PROVE  IInv'
<1>1. /\ cur = t /\ panic = "none" /\ cur \in Threads /\ Held(t) = {}
      /\ schedule([status EXCEPT ![cur] = "FREE"], ready_list, don)
      /\ UNCHANGED <<base, don, sync, frame, sleepers, wake, ticks, panic, calls>>
  BY DEF thread_exit, Running, alarm
<1>2. don \in [Threads -> Int] /\ SchedOK(status, ready_list, cur)
  BY <1>1 DEF IInv, TypeOK, BlockedInv
<1>3. Switched([status EXCEPT ![cur] = "FREE"])
  BY <1>1, <1>2, LeaveOK
<1>4. \A v \in Threads : [status EXCEPT ![cur] = "FREE"][v] = IF v = t THEN "FREE" ELSE status[v]
  BY <1>1 DEF IInv, TypeOK
<1>5. UNCHANGED <<waiters, pc>>
  BY <1>1 DEF sync, frame
<1>6. \A v \in Threads : status'[v] = "BLOCKED" <=> Listed(v)'
  <2>1. status[t] = "RUNNING"
    BY <1>1, CurUnlisted
  <2> QED BY <1>1, <1>3, <1>4, <1>5, <2>1, SameListed DEF Switched
<1>7. \A v \in Threads : status'[v] = "FREE" => status[v] = "FREE" \/ Held(v) = {}
  BY <1>1, <1>3, <1>4 DEF Switched
<1>8. /\ sleepers' \in Seq(Threads) /\ wake' \in [Threads -> Int] /\ ticks' \in Nat
      /\ base' \in [Threads -> Priorities] /\ don' \in [Threads -> Int] /\ calls' \in 0..MaxOps
  BY <1>1 DEF IInv, TypeOK
<1> QED BY <1>1, <1>3, <1>5, <1>6, <1>7, <1>8, SameSleep, SwitchInv DEF Switched

(* thread_set_priority(). *)
LEMMA SetPriorityInv ==
  ASSUME IInv, ConstantsOK, NEW t \in Threads, NEW p \in Priorities, thread_set_priority(t, p)
  PROVE  IInv'
<1>1. /\ cur = t /\ pc[t] = "run" /\ panic = "none" /\ calls' \in 0..MaxOps /\ cur \in Threads
      /\ base' = [base EXCEPT ![t] = p]
      /\ thread_yield_if_needed(status, ready_list, don')
      /\ UNCHANGED <<sync, frame, sleepers, wake, ticks, panic>>
  BY CallsFacts DEF thread_set_priority, alarm
<1>2. PICK g \in [Locks -> Garbage] :
        don' = IF don[t] < p THEN [don EXCEPT ![t] = p]
               ELSE thread_update_donations(don, base', t, g).don
  BY DEF thread_set_priority
<1>3. base' \in [Threads -> Priorities] /\ base' \in [Threads -> Int]
  BY <1>1, Numbers DEF IInv, TypeOK
<1>4. don' \in [Threads -> Int]
  <2>1. [don EXCEPT ![t] = p] \in [Threads -> Int]
    BY Numbers DEF IInv, TypeOK
  <2>2. PICK b \in [Threads -> Int] : b = base'
    BY <1>3
  <2>3. thread_update_donations(don, b, t, g) \in Walk
    <3>1. g \in [Locks -> Int]
      BY Numbers
    <3> QED BY <3>1, UpdateTyped DEF IInv, TypeOK
  <2>4. thread_update_donations(don, base', t, g).don \in [Threads -> Int]
    BY <2>2, <2>3 DEF Walk
  <2> QED BY <1>2, <2>1, <2>4
<1>5. SchedOK(status, ready_list, cur)
  BY <1>1 DEF IInv, BlockedInv
<1>6. Switched(status)
  BY <1>1, <1>4, <1>5, YieldOK, StayOK DEF thread_yield_if_needed
<1>7. UNCHANGED <<waiters, pc>>
  BY <1>1 DEF sync, frame
<1>8. \A v \in Threads : status'[v] = "BLOCKED" <=> Listed(v)'
  BY <1>1, <1>6, <1>7, SameListed DEF Switched
<1>9. \A v \in Threads : status'[v] = "FREE" => status[v] = "FREE"
  BY <1>6 DEF Switched
<1>10. sleepers' \in Seq(Threads) /\ wake' \in [Threads -> Int] /\ ticks' \in Nat
  BY <1>1 DEF IInv, TypeOK
<1> QED BY <1>1, <1>3, <1>4, <1>6, <1>7, <1>8, <1>9, <1>10, SameSleep, SwitchInv DEF Switched

(* The idle thread gives way. *)
LEMMA IdleInv ==
  ASSUME IInv, ConstantsOK, idle
  PROVE  IInv'
<1>1. /\ cur = Idle /\ panic = "none" /\ schedule(status, ready_list, don)
      /\ UNCHANGED <<base, don, sync, frame, sleepers, wake, ticks, panic, calls>>
  BY DEF idle, alarm
<1>2. don \in [Threads -> Int] /\ SchedOK(status, ready_list, cur)
  BY <1>1 DEF IInv, TypeOK, BlockedInv
<1>3. \A u \in Threads : status[u] # "RUNNING"
  BY <1>1, <1>2, Kinds DEF SchedOK
<1>4. Switched(status)
  BY <1>1, <1>2, <1>3, ScheduleOK DEF SchedOK
<1>5. UNCHANGED <<waiters, pc>>
  BY <1>1 DEF sync, frame
<1>6. \A v \in Threads : status'[v] = "BLOCKED" <=> Listed(v)'
  BY <1>1, <1>4, <1>5, SameListed DEF Switched
<1>7. \A v \in Threads : status'[v] = "FREE" => status[v] = "FREE"
  BY <1>4 DEF Switched
<1>8. /\ sleepers' \in Seq(Threads) /\ wake' \in [Threads -> Int] /\ ticks' \in Nat
      /\ base' \in [Threads -> Priorities] /\ don' \in [Threads -> Int] /\ calls' \in 0..MaxOps
  BY <1>1 DEF IInv, TypeOK
<1> QED BY <1>1, <1>4, <1>5, <1>6, <1>7, <1>8, SameSleep, SwitchInv DEF Switched

-----------------------------------------------------------------------------
(* list_insert_ordered() inserts at a place of the list with nothing later *)
(* before it and only later ones after it.                                 *)
LEMMA OrderedPlace ==
  ASSUME NEW list \in Seq(Threads), NEW t \in Threads, NEW w \in [Threads -> Int],
         \A i, j \in DOMAIN list : i <= j => w[list[i]] <= w[list[j]]
  PROVE  \E i \in 1..(Len(list) + 1) :
           /\ InsertOrdered(list, t, w) = InsertAt(list, i, t)
           /\ \A k \in 1..(i - 1) : w[list[k]] <= w[t]
           /\ \A k \in i..Len(list) : w[t] <= w[list[k]]
<1> DEFINE later == {i \in DOMAIN list : w[t] < w[list[i]]}
<1>1. Len(list) \in Nat /\ DOMAIN list = 1..Len(list) /\ \A k \in 1..Len(list) : w[list[k]] \in Int
  OBVIOUS
<1>2. w[t] \in Int
  OBVIOUS
<1>3. CASE later = {}
  <2>1. InsertOrdered(list, t, w) = InsertAt(list, Len(list) + 1, t)
    BY <1>3 DEF InsertOrdered
  <2>2. \A k \in 1..Len(list) : w[list[k]] <= w[t]
    BY <1>1, <1>2, <1>3
  <2>3. /\ Len(list) + 1 \in 1..(Len(list) + 1) /\ (Len(list) + 1) - 1 = Len(list)
        /\ (Len(list) + 1)..Len(list) = {}
    BY <1>1
  <2> QED BY <2>1, <2>2, <2>3
<1>4. CASE later # {}
  <2>1. PICK i \in later : \A j \in later : i <= j
    <3>1. later \in SUBSET Nat
      BY <1>1
    <3> QED BY <1>4, <3>1, Least
  <2>2. Min(later) \in later /\ \A j \in later : Min(later) <= j
    BY <2>1 DEF Min
  <2>3. PICK m \in later : m = Min(later) /\ \A j \in later : m <= j
    BY <2>2
  <2>4. InsertOrdered(list, t, w) = InsertAt(list, m, t)
    BY <1>4, <2>3 DEF InsertOrdered
  <2>5. m \in 1..Len(list) /\ w[t] < w[list[m]]
    BY <1>1
  <2>6. ASSUME NEW k \in 1..(m - 1) PROVE w[list[k]] <= w[t]
    <3>1. k \in 1..Len(list) /\ ~(m <= k)
      BY <1>1, <2>5
    <3>2. k \notin later
      BY <2>3, <3>1
    <3> QED BY <1>1, <1>2, <3>1, <3>2
  <2>7. ASSUME NEW k \in m..Len(list) PROVE w[t] <= w[list[k]]
    <3>1. k \in 1..Len(list) /\ m <= k
      BY <1>1, <2>5
    <3>2. w[list[m]] <= w[list[k]]
      BY <1>1, <2>5, <3>1
    <3>3. PICK a \in Int, b \in Int, c \in Int : a = w[t] /\ b = w[list[m]] /\ c = w[list[k]]
      BY <1>1, <1>2, <2>5, <3>1
    <3> QED BY <2>5, <3>2, <3>3
  <2>8. m \in 1..(Len(list) + 1)
    BY <1>1, <2>5
  <2> QED BY <2>4, <2>6, <2>7, <2>8
<1> QED BY <1>3, <1>4

(* A sorted list stays sorted. *)
LEMMA OrderedInsert ==
  ASSUME NEW list \in Seq(Threads), NEW t \in Threads, NEW w \in [Threads -> Int],
         \A i, j \in DOMAIN list : i <= j => w[list[i]] <= w[list[j]],
         Once(list), t \notin ToSet(list), NEW r, r = InsertOrdered(list, t, w)
  PROVE  /\ r \in Seq(Threads) /\ Once(r) /\ ToSet(r) = ToSet(list) \cup {t}
         /\ \A i, j \in DOMAIN r : i <= j => w[r[i]] <= w[r[j]]
<1>1. PICK i \in 1..(Len(list) + 1) :
        /\ InsertOrdered(list, t, w) = InsertAt(list, i, t)
        /\ \A k \in 1..(i - 1) : w[list[k]] <= w[t]
        /\ \A k \in i..Len(list) : w[t] <= w[list[k]]
  BY OrderedPlace
<1>2. PICK n \in Nat : n = Len(list) /\ DOMAIN list = 1..n
  OBVIOUS
<1>3. /\ r \in Seq(Threads) /\ Len(r) = n + 1
      /\ \A k \in 1..(i - 1) : r[k] = list[k]
      /\ r[i] = t
      /\ \A k \in (i + 1)..(n + 1) : r[k] = list[k - 1]
      /\ ToSet(r) = ToSet(list) \cup {t} /\ Once(r)
  <2>1. r \in Seq(Threads) /\ IsInsert(r, list, i, t) /\ ToSet(r) = ToSet(list) \cup {t} /\ Once(r)
    BY <1>1, PutIn
  <2> QED BY <1>2, <2>1 DEF IsInsert
<1>4. \A k \in 1..n : w[list[k]] \in Int
  BY <1>2
<1>5. ASSUME NEW k \in 1..(n + 1), NEW m \in 1..(n + 1), k <= m
      PROVE  w[r[k]] <= w[r[m]]
  <2>1. CASE k = m
    <3>1. w[r[k]] \in Int
      BY <1>3
    <3> QED BY <2>1, <3>1
  <2>2. CASE m < i
    <3>1. k \in 1..(i - 1) /\ m \in 1..(i - 1) /\ k \in 1..n /\ m \in 1..n
      BY <1>2, <1>5, <2>2
    <3> QED BY <1>2, <1>3, <1>5, <3>1
  <2>3. CASE k < i /\ m = i
    <3>1. k \in 1..(i - 1)
      BY <1>2, <2>3
    <3> QED BY <1>1, <1>3, <2>3, <3>1
  <2>4. CASE k < i /\ m > i
    <3>1. k \in 1..(i - 1) /\ m \in (i + 1)..(n + 1) /\ k \in 1..n /\ m - 1 \in 1..n /\ k <= m - 1
      BY <1>2, <2>4
    <3>2. w[list[k]] <= w[list[m - 1]]
      BY <1>2, <3>1
    <3> QED BY <1>3, <3>1, <3>2
  <2>5. CASE k = i /\ m > i
    <3>1. m \in (i + 1)..(n + 1) /\ m - 1 \in i..n
      BY <1>2, <2>5
    <3> QED BY <1>1, <1>2, <1>3, <2>5, <3>1
  <2>6. CASE k > i
    <3>1. /\ k \in (i + 1)..(n + 1) /\ m \in (i + 1)..(n + 1)
          /\ k - 1 \in 1..n /\ m - 1 \in 1..n /\ k - 1 <= m - 1
      BY <1>2, <1>5, <2>6
    <3>2. w[list[k - 1]] <= w[list[m - 1]]
      BY <1>2, <3>1
    <3> QED BY <1>3, <3>1, <3>2
  <2> QED BY <1>2, <1>5, <2>1, <2>2, <2>3, <2>4, <2>5, <2>6
<1>6. DOMAIN r = 1..(n + 1)
  BY <1>2, <1>3
<1> QED BY <1>3, <1>5, <1>6

(* timer_sleep(). *)
LEMMA SleepStep ==
  ASSUME IInv, ConstantsOK, NEW t \in Threads, NEW n \in (-1)..MaxSleep, sleep_the_thread(t, n)
  PROVE  IInv' /\ t \notin ToSet(sleepers) /\ ToSet(sleepers') = ToSet(sleepers) \cup {t}
<1>1. /\ cur = t /\ pc[t] = "run" /\ panic = "none" /\ calls' \in 0..MaxOps /\ cur \in Threads
      /\ wake' = [wake EXCEPT ![t] = n + ticks]
      /\ sleepers' = InsertOrdered(sleepers, t, wake')
      /\ schedule([status EXCEPT ![cur] = "BLOCKED"], ready_list, don)
      /\ UNCHANGED <<base, don, sync, frame, ticks, panic>>
  BY CallsFacts DEF sleep_the_thread, thread_block
<1>2. n + ticks \in Int
  BY DEF IInv, TypeOK, ConstantsOK
<1>3. /\ wake' \in [Threads -> Int] /\ \A u \in Threads : u # t => wake'[u] = wake[u]
  BY <1>1, <1>2 DEF IInv, TypeOK
<1>4. /\ sleepers \in Seq(Threads) /\ Once(sleepers) /\ t \notin ToSet(sleepers)
      /\ ToSet(sleepers) \subseteq Threads
  BY <1>1, CurUnlisted, InList DEF IInv, TypeOK, SleepInv
<1>5. \A i \in DOMAIN sleepers : sleepers[i] \in Threads /\ sleepers[i] # t
  BY <1>4 DEF ToSet
<1>6. \A i, j \in DOMAIN sleepers : i <= j => wake'[sleepers[i]] <= wake'[sleepers[j]]
  BY <1>3, <1>5 DEF IInv, SleepInv
<1>7. /\ sleepers' \in Seq(Threads) /\ Once(sleepers') /\ ToSet(sleepers') = ToSet(sleepers) \cup {t}
      /\ \A i, j \in DOMAIN sleepers' : i <= j => wake'[sleepers'[i]] <= wake'[sleepers'[j]]
  <2>1. PICK w, r : w \in [Threads -> Int] /\ w = wake' /\ r = sleepers'
    BY <1>3
  <2>2. \A i, j \in DOMAIN sleepers : i <= j => w[sleepers[i]] <= w[sleepers[j]]
    BY <1>6, <2>1
  <2>3. r = InsertOrdered(sleepers, t, w)
    BY <1>1, <2>1
  <2>4. /\ r \in Seq(Threads) /\ Once(r) /\ ToSet(r) = ToSet(sleepers) \cup {t}
        /\ \A i, j \in DOMAIN r : i <= j => w[r[i]] <= w[r[j]]
    BY <1>4, <2>1, <2>2, <2>3, OrderedInsert
  <2> QED BY <2>1, <2>4
<1>8. UNCHANGED <<waiters, pc>>
  BY <1>1 DEF sync, frame
<1>9. SleepInv'
  <2>1. \A u \in ToSet(sleepers') : pc'[u] = "run"
    BY <1>1, <1>7, <1>8 DEF IInv, SleepInv
  <2> QED BY <1>7, <2>1 DEF SleepInv
<1>10. don \in [Threads -> Int] /\ SchedOK(status, ready_list, cur)
  BY <1>1 DEF IInv, TypeOK, BlockedInv
<1>11. Switched([status EXCEPT ![cur] = "BLOCKED"])
  BY <1>1, <1>10, LeaveOK
<1>12. \A v \in Threads : [status EXCEPT ![cur] = "BLOCKED"][v] = IF v = t THEN "BLOCKED" ELSE status[v]
  BY <1>1 DEF IInv, TypeOK
<1>13. \A v \in Threads : Listed(v)' <=> Listed(v) \/ v = t
  BY <1>7, <1>8 DEF Listed
<1>14. \A v \in Threads : status'[v] = "BLOCKED" <=> Listed(v)'
  BY <1>1, <1>11, <1>12, <1>13 DEF Switched, IInv, BlockedInv
<1>15. \A v \in Threads : status'[v] = "FREE" => status[v] = "FREE"
  BY <1>11, <1>12 DEF Switched
<1>16. ticks' \in Nat /\ base' \in [Threads -> Priorities] /\ don' \in [Threads -> Int]
  BY <1>1 DEF IInv, TypeOK
<1>17. IInv'
  BY <1>1, <1>3, <1>7, <1>9, <1>11, <1>14, <1>15, <1>16, SwitchInv DEF Switched
<1> QED BY <1>4, <1>7, <1>17

(* The due sleepers are a prefix of the queue, and with the queue sorted   *)
(* they are all that are due.                                              *)
LEMMA DuePrefix ==
  ASSUME IInv, NEW now \in Int
  PROVE  \E n \in 0..Len(sleepers) :
           /\ Cardinality(Due(now)) = n
           /\ \A i \in 1..n : wake[sleepers[i]] <= now
           /\ \A i \in (n + 1)..Len(sleepers) : wake[sleepers[i]] > now
<1>1. PICK len \in Nat : len = Len(sleepers) /\ DOMAIN sleepers = 1..len
  BY DEF IInv, TypeOK
<1>2. \A i \in 1..len : wake[sleepers[i]] \in Int
  BY <1>1 DEF IInv, TypeOK
<1>3. \A i, j \in 1..len : i <= j => wake[sleepers[i]] <= wake[sleepers[j]]
  BY <1>1 DEF IInv, SleepInv
<1> DEFINE Late == {i \in 1..len : ~(wake[sleepers[i]] <= now)}
<1>4. CASE Late = {}
  <2>1. \A i \in 1..len : wake[sleepers[i]] <= now
    BY <1>4
  <2>2. Due(now) = 1..len
    BY <1>1, <2>1 DEF Due
  <2>3. Cardinality(1..len) = len
    BY FS_Interval
  <2>4. (len + 1)..len = {} /\ len \in 0..len
    OBVIOUS
  <2> QED BY <1>1, <2>1, <2>2, <2>3, <2>4
<1>5. CASE Late # {}
  <2>1. PICK m \in Late : \A k \in Late : m <= k
    <3>1. Late \in SUBSET Nat
      BY <1>1
    <3> QED BY <1>5, <3>1, Least
  <2>2. PICK n \in 0..len : m = n + 1 /\ n < m
    <3>1. m - 1 \in 0..len /\ m = (m - 1) + 1 /\ m - 1 < m
      BY <2>1
    <3> QED BY <3>1
  <2>3. \A i \in 1..n : wake[sleepers[i]] <= now
    <3> SUFFICES ASSUME NEW i \in 1..n, i \in Late PROVE FALSE
      BY <1>1, <2>2
    <3>1. ~(m <= i)
      BY <2>2
    <3> QED BY <2>1, <3>1
  <2>4. ASSUME NEW i \in (n + 1)..len PROVE wake[sleepers[i]] > now
    <3>1. i \in 1..len /\ m \in 1..len /\ m <= i
      BY <2>1, <2>2
    <3>2. PICK a \in Int, b \in Int : a = wake[sleepers[m]] /\ b = wake[sleepers[i]]
      BY <1>2, <3>1
    <3>3. ~(a <= now) /\ a <= b
      BY <1>3, <2>1, <3>1, <3>2
    <3> QED BY <3>2, <3>3
  <2>5. Due(now) = 1..n
    <3>1. ASSUME NEW i \in 1..n PROVE i \in Due(now)
      <4>1. i \in 1..len /\ \A j \in 1..i : j \in 1..n
        BY <1>1, <2>2
      <4> QED BY <1>1, <2>3, <4>1 DEF Due
    <3>2. ASSUME NEW i \in Due(now) PROVE i \in 1..n
      <4>1. i \in 1..len /\ \A j \in 1..i : wake[sleepers[j]] <= now
        BY <1>1 DEF Due
      <4>2. ~(m \in 1..i)
        BY <2>1, <4>1
      <4> QED BY <2>1, <2>2, <4>1, <4>2
    <3> QED BY <3>1, <3>2
  <2>6. Cardinality(1..n) = n
    BY FS_Interval, <2>2
  <2> QED BY <1>1, <2>2, <2>3, <2>4, <2>5, <2>6
<1> QED BY <1>4, <1>5

(* The timer interrupt wakes exactly those. *)
LEMMA TimerStep ==
  ASSUME IInv, ConstantsOK, timer_interrupt
  PROVE  /\ IInv'
         /\ \A t \in ToSet(sleepers) :
              IF t \in ToSet(sleepers') THEN wake[t] > ticks + 1 /\ ticks' = ticks + 1
                                        ELSE wake[t] <= ticks + 1
<1>1. ticks + 1 \in Int /\ ticks + 1 \in Nat
  BY DEF IInv, TypeOK
<1>2. PICK n \in 0..Len(sleepers) :
        /\ Cardinality(Due(ticks + 1)) = n
        /\ \A i \in 1..n : wake[sleepers[i]] <= ticks + 1
        /\ \A i \in (n + 1)..Len(sleepers) : wake[sleepers[i]] > ticks + 1
  BY <1>1, DuePrefix
<1>3. PICK due, rest, st, list :
        /\ due = SubSeq(sleepers, 1, n) /\ rest = SubSeq(sleepers, n + 1, Len(sleepers))
        /\ st = thread_unblock(ToSet(due)) /\ list = ready_list \o due
  OBVIOUS
<1>4. /\ panic = "none" /\ sleepers' = rest
      /\ wake' = [t \in Threads |-> IF t \in ToSet(due) THEN 0 ELSE wake[t]]
      /\ ticks' = IF sleepers' = <<>> THEN 0 ELSE ticks + 1
      /\ Stay(st, list) \/ (cur # Idle /\ thread_yield(st, list, don))
      /\ UNCHANGED <<base, don, sync, frame, panic, calls>>
  BY <1>2, <1>3 DEF timer_interrupt
<1>5. sleepers \in Seq(Threads) /\ Once(sleepers) /\ SchedOK(status, ready_list, cur)
  BY <1>4 DEF IInv, TypeOK, SleepInv, BlockedInv
<1>6. /\ due \in Seq(Threads) /\ rest \in Seq(Threads)
      /\ Len(due) = n /\ Len(rest) = Len(sleepers) - n
      /\ \A i \in 1..n : due[i] = sleepers[i]
      /\ \A i \in 1..(Len(sleepers) - n) : rest[i] = sleepers[i + n]
      /\ ToSet(sleepers) = ToSet(due) \cup ToSet(rest)
      /\ Once(due) /\ Once(rest) /\ ToSet(due) \cap ToSet(rest) = {}
  <2>1. /\ due \in Seq(Threads) /\ rest \in Seq(Threads) /\ IsCut(sleepers, n, due, rest)
        /\ ToSet(sleepers) = ToSet(due) \cup ToSet(rest)
        /\ Once(due) /\ Once(rest) /\ ToSet(due) \cap ToSet(rest) = {}
    BY <1>3, <1>5, Cut
  <2> QED BY <2>1 DEF IsCut
<1>7. ToSet(due) \subseteq Threads /\ ToSet(rest) \subseteq Threads
  BY <1>6, InList
<1>8. \A t \in ToSet(due) : status[t] = "BLOCKED"
  BY <1>4, <1>6, <1>7 DEF IInv, BlockedInv, Listed
<1>9. SchedOK(st, list, cur)
  BY <1>3, <1>5, <1>6, <1>8, UnblockOK
<1>10. Switched(st)
  <2>1. don \in [Threads -> Int] /\ (cur # Idle => cur \in Threads)
    BY DEF IInv, TypeOK
  <2> QED BY <1>4, <1>9, <2>1, YieldOK, StayOK
<1>11. \A t \in Threads : st[t] = IF t \in ToSet(due) THEN "READY" ELSE status[t]
  BY <1>3 DEF thread_unblock
<1>12. UNCHANGED <<waiters, pc>>
  BY <1>4 DEF sync, frame
<1>13. \A t \in ToSet(due) : \A s \in Sems : t \notin ToSet(waiters[s])
  BY <1>6 DEF IInv, SleepInv, WaitInv
<1>14. \A t \in Threads : Listed(t)' <=> Listed(t) /\ t \notin ToSet(due)
  BY <1>4, <1>6, <1>12, <1>13 DEF Listed
<1>15. \A t \in Threads : status'[t] = "BLOCKED" <=> Listed(t)'
  BY <1>4, <1>10, <1>11, <1>14 DEF Switched, IInv, BlockedInv
<1>16. \A t \in Threads : status'[t] = "FREE" => status[t] = "FREE"
  BY <1>10, <1>11 DEF Switched
<1>17. /\ wake' \in [Threads -> Int] /\ \A t \in ToSet(rest) : wake'[t] = wake[t]
  BY <1>4, <1>6, <1>7 DEF IInv, TypeOK
<1>18. SleepInv'
  <2>1. PICK m \in Nat : m = Len(sleepers) - n /\ DOMAIN rest = 1..m /\ DOMAIN sleepers = 1..Len(sleepers)
    BY <1>5, <1>6
  <2>2. ASSUME NEW i \in 1..m, NEW j \in 1..m, i <= j PROVE wake'[rest[i]] <= wake'[rest[j]]
    <3>1. i + n \in DOMAIN sleepers /\ j + n \in DOMAIN sleepers /\ i + n <= j + n
      BY <1>5, <2>1, <2>2
    <3>2. wake[sleepers[i + n]] <= wake[sleepers[j + n]]
      BY <3>1 DEF IInv, SleepInv
    <3>3. rest[i] = sleepers[i + n] /\ rest[j] = sleepers[j + n]
      BY <1>6, <2>1
    <3>4. rest[i] \in ToSet(rest) /\ rest[j] \in ToSet(rest)
      BY <2>1 DEF ToSet
    <3> QED BY <1>17, <3>2, <3>3, <3>4
  <2>3. \A t \in ToSet(rest) : pc'[t] = "run"
    BY <1>6, <1>12 DEF IInv, SleepInv
  <2> QED BY <1>4, <1>6, <2>1, <2>2, <2>3 DEF SleepInv
<1>19. /\ sleepers' \in Seq(Threads) /\ ticks' \in Nat
       /\ base' \in [Threads -> Priorities] /\ don' \in [Threads -> Int] /\ calls' \in 0..MaxOps
  BY <1>1, <1>4, <1>6 DEF IInv, TypeOK
<1>20. IInv'
  BY <1>4, <1>10, <1>15, <1>16, <1>17, <1>18, <1>19, SwitchInv DEF Switched
<1>21. \A t \in ToSet(due) : wake[t] <= ticks + 1
  <2>1. ToSet(due) = {due[i] : i \in 1..n}
    BY <1>6 DEF ToSet
  <2>2. \A i \in 1..n : wake[due[i]] <= ticks + 1
    BY <1>2, <1>6
  <2> QED BY <2>1, <2>2
<1>22. \A t \in ToSet(rest) : wake[t] > ticks + 1
  <2> SUFFICES ASSUME NEW i \in 1..(Len(sleepers) - n) PROVE wake[rest[i]] > ticks + 1
    BY <1>6 DEF ToSet
  <2>1. i + n \in (n + 1)..Len(sleepers)
    BY <1>5
  <2> QED BY <1>2, <1>6, <2>1
<1>23. rest = <<>> => ToSet(rest) = {}
  BY DEF ToSet
<1> QED BY <1>4, <1>6, <1>20, <1>21, <1>22, <1>23

-----------------------------------------------------------------------------
(* The kernel starts in the invariant. *)
LEMMA InitInv ==
  ASSUME Init, ConstantsOK
  PROVE  IInv
<1>1. TypeOK
  BY Kinds, Numbers DEF Init, TypeOK, ConstantsOK, Sems
<1>2. ToSet(<<>>) = {} /\ Once(<<>>) /\ DOMAIN <<>> = {}
  BY DEF ToSet, Once
<1>3. ready_list = <<>> /\ sleepers = <<>> /\ \A s \in Sems : waiters[s] = <<>>
  BY DEF Init
<1>4. BlockedInv
  <2>1. \A t \in Threads : ~Listed(t)
    BY <1>2, <1>3 DEF Listed
  <2>2. SchedOK(status, ready_list, cur)
    BY <1>1, <1>2, <1>3 DEF Init, TypeOK, SchedOK
  <2>3. \A t \in Threads : status[t] # "BLOCKED"
    BY DEF Init
  <2> QED BY <2>1, <2>2, <2>3 DEF BlockedInv
<1>5. SleepInv /\ WaitInv
  BY <1>2, <1>3 DEF SleepInv, WaitInv
<1>6. \A t \in Threads : ~Signallable(t) /\ pc[t] = "run"
  BY DEF Init, Signallable
<1>7. CallInv
  BY <1>6 DEF CallInv
<1>8. LockInv
  BY Kinds DEF Init, LockInv
<1>9. CondInv
  <2>1. \A l \in Locks : cond[l] = <<>>
    BY DEF Init
  <2>2. \A t \in Threads : value[t] = 0
    BY Kinds DEF Init
  <2> QED BY <1>2, <1>6, <2>1, <2>2 DEF CondInv
<1> QED BY <1>1, <1>4, <1>5, <1>7, <1>8, <1>9 DEF IInv

(* A step of a thread keeps it. *)
LEMMA StepInv ==
  ASSUME IInv, ConstantsOK, NEW t \in Threads, Step(t)
  PROVE  IInv'
<1>1. ASSUME NEW l \in Locks,
             \/ lock_acquire(t, l) \/ lock_try_acquire(t, l) \/ lock_release(t, l)
             \/ cond_wait(t, l) \/ cond_signal(t, l) \/ cond_broadcast(t, l)
      PROVE  IInv'
  BY <1>1, AcquireInv, TryInv, ReleaseInv, CondWaitInv, CondSignalInv, BroadcastInv
<1>2. ASSUME NEW s \in Semas, sema_down(t, s) PROVE IInv'
  BY <1>2, SemaDownInv
<1>3. ASSUME NEW s \in Semas, SemaUp(t, s) PROVE IInv'
  <2>1. /\ cur \in Threads /\ panic = "none" /\ calls' \in 0..MaxOps /\ panic' = "none"
        /\ sema_up(s)
        /\ UNCHANGED <<base, don, locked_on, holder, cond, frame, alarm>>
    BY <1>3, CallsFacts DEF SemaUp
  <2> QED BY <2>1, UpInv
<1>4. CASE Woken(t) \/ CondDown(t) \/ CondRelock(t) \/ BroadcastNext(t)
  BY <1>4, WokenInv, CondDownInv, RelockInv, BroadcastNextInv
<1>5. ASSUME NEW p \in Priorities, (\E u \in Threads : thread_create(t, u, p)) \/ thread_set_priority(t, p)
      PROVE  IInv'
  BY <1>5, CreateInv, SetPriorityInv
<1>6. CASE CreatedYield(t) \/ thread_exit(t)
  BY <1>6, CreatedInv, ExitInv
<1>7. ASSUME NEW n \in (-1)..MaxSleep, sleep_the_thread(t, n) PROVE IInv'
  BY <1>7, SleepStep
<1> QED BY <1>1, <1>2, <1>3, <1>4, <1>5, <1>6, <1>7 DEF Step

(* So does every step. *)
LEMMA NextInv ==
  ASSUME IInv, ConstantsOK, [Next]_vars
  PROVE  IInv'
<1>1. CASE UNCHANGED vars
  BY <1>1, NothingInv DEF vars, IInv, TypeOK
<1>2. CASE Halted
  BY <1>1, <1>2 DEF Halted
<1> QED BY <1>1, <1>2, StepInv, InterruptInv, TimerStep, IdleInv DEF Next

(* The inductive invariant holds: the scheduler, the semaphores and the    *)
(* conditions of Project2 agree on who is where.                           *)
THEOREM Invariance == Spec => []IInv
<1>1. Init => IInv
  BY InitInv, ConstantsOK
<1>2. IInv /\ [Next]_vars => IInv'
  BY NextInv, ConstantsOK
<1> QED BY <1>1, <1>2, PTL DEF Spec

(* The links of a thread follow from the lists. *)
LEMMA LinksFollow == IInv => OneList
<1> SUFFICES ASSUME IInv PROVE OneList
  OBVIOUS
<1> SUFFICES ASSUME panic = "none", NEW t \in Threads
             PROVE  /\ Cardinality(Links(t)) = IF status[t] \in {"READY", "BLOCKED"} THEN 1 ELSE 0
                    /\ (status[t] = "READY") = (t \in ToSet(ready_list))
                    /\ (status[t] = "RUNNING") = (cur = t)
  BY DEF OneList, IInv
<1>1. /\ SchedOK(status, ready_list, cur) /\ (status[t] = "BLOCKED" <=> Listed(t))
      /\ Once(ready_list) /\ Once(sleepers)
  BY DEF IInv, BlockedInv, SchedOK, SleepInv
<1>2. (status[t] = "READY") <=> (t \in ToSet(ready_list))
  BY <1>1 DEF SchedOK
<1>3. (status[t] = "RUNNING") <=> (cur = t)
  BY <1>1 DEF SchedOK
<1> DEFINE R == {i \in DOMAIN ready_list : ready_list[i] = t}
           A == {i \in DOMAIN sleepers : sleepers[i] = t}
           W(s) == {i \in DOMAIN waiters[s] : waiters[s][i] = t}
<1>4. Links(t) = {<<"ready", i>> : i \in R} \cup {<<"asleep", i>> : i \in A}
                   \cup UNION {{<<s, i>> : i \in W(s)} : s \in Sems}
  BY DEF Links
<1>5. /\ t \notin ToSet(ready_list) => R = {}
      /\ t \notin ToSet(sleepers) => A = {}
      /\ \A s \in Sems : t \notin ToSet(waiters[s]) => W(s) = {}
  BY DEF ToSet
<1>6. /\ t \in ToSet(ready_list) => \E i : R = {i}
      /\ t \in ToSet(sleepers) => \E i : A = {i}
      /\ \A s \in Sems : t \in ToSet(waiters[s]) => \E i : W(s) = {i}
  <2>1. t \in ToSet(ready_list) => \E i : R = {i}
    BY <1>1 DEF ToSet, Once
  <2>2. t \in ToSet(sleepers) => \E i : A = {i}
    BY <1>1 DEF ToSet, Once
  <2>3. ASSUME NEW s \in Sems, t \in ToSet(waiters[s]) PROVE \E i : W(s) = {i}
    <3>1. Once(waiters[s])
      BY DEF IInv, WaitInv
    <3> QED BY <2>3, <3>1 DEF ToSet, Once
  <2> QED BY <2>1, <2>2, <2>3
<1> HIDE DEF R, A, W
<1>7. ASSUME t \in ToSet(ready_list)
      PROVE  Cardinality(Links(t)) = IF status[t] \in {"READY", "BLOCKED"} THEN 1 ELSE 0
  <2>1. t \notin ToSet(sleepers) /\ \A s \in Sems : t \notin ToSet(waiters[s])
    BY <1>1, <1>2, <1>7 DEF Listed
  <2>2. PICK i : R = {i}
    BY <1>6, <1>7
  <2>3. Links(t) = {<<"ready", i>>}
    BY <1>4, <1>5, <2>1, <2>2
  <2> QED BY <1>2, <1>7, <2>3, FS_Singleton
<1>8. ASSUME t \in ToSet(sleepers)
      PROVE  Cardinality(Links(t)) = IF status[t] \in {"READY", "BLOCKED"} THEN 1 ELSE 0
  <2>1. t \notin ToSet(ready_list) /\ status[t] = "BLOCKED"
    BY <1>1, <1>2, <1>8 DEF Listed
  <2>2. \A s \in Sems : t \notin ToSet(waiters[s])
    BY <1>8 DEF IInv, SleepInv, WaitInv
  <2>3. PICK i : A = {i}
    BY <1>6, <1>8
  <2>4. Links(t) = {<<"asleep", i>>}
    BY <1>4, <1>5, <2>1, <2>2, <2>3
  <2> QED BY <2>1, <2>4, FS_Singleton
<1>9. ASSUME NEW s \in Sems, t \in ToSet(waiters[s])
      PROVE  Cardinality(Links(t)) = IF status[t] \in {"READY", "BLOCKED"} THEN 1 ELSE 0
  <2>1. t \notin ToSet(ready_list) /\ status[t] = "BLOCKED"
    BY <1>1, <1>2, <1>9 DEF Listed
  <2>2. t \notin ToSet(sleepers) /\ \A r \in Sems : r # s => t \notin ToSet(waiters[r])
    BY <1>9 DEF IInv, SleepInv, WaitInv
  <2>3. PICK i : W(s) = {i}
    BY <1>6, <1>9
  <2>4. UNION {{<<r, j>> : j \in W(r)} : r \in Sems} = {<<s, i>>}
    BY <1>5, <2>2, <2>3
  <2>5. Links(t) = {<<s, i>>}
    BY <1>4, <1>5, <2>1, <2>2, <2>4
  <2> QED BY <2>1, <2>5, FS_Singleton
<1>10. ASSUME t \notin ToSet(ready_list), t \notin ToSet(sleepers),
              \A s \in Sems : t \notin ToSet(waiters[s])
       PROVE  Cardinality(Links(t)) = IF status[t] \in {"READY", "BLOCKED"} THEN 1 ELSE 0
  <2>1. Links(t) = {}
    BY <1>4, <1>5, <1>10
  <2>2. status[t] \notin {"READY", "BLOCKED"}
    BY <1>1, <1>2, <1>10 DEF Listed
  <2> QED BY <2>1, <2>2, FS_EmptySet
<1> QED BY <1>2, <1>3, <1>7, <1>8, <1>9, <1>10

(* thread.h's one elem: every thread is in exactly the list its status     *)
(* says, once, whatever is scheduled, woken, put to sleep or created.      *)
THEOREM ElemInOneList == Spec => []OneList
BY Invariance, LinksFollow, PTL

(* No sema_up() is lost on the waiters of a semaphore, and a lock's        *)
(* semaphore and its holder always agree.                                  *)
THEOREM WakeupsKept == Spec => []NoLostWakeup
<1>1. IInv => NoLostWakeup
  BY DEF IInv, NoLostWakeup, WaitInv, LockInv, TypeOK, Sems
<1> QED BY <1>1, Invariance, PTL

(* A thread in cond_wait() is in the condition's list or has its up, also  *)
(* when the signal overtakes its sema_down().                              *)
THEOREM SignalsKept == Spec => []SignalKept
<1>1. IInv => SignalKept
  BY DEF IInv, SignalKept, CondInv, Signallable
<1> QED BY <1>1, Invariance, PTL

(* Only timer_sleep() and the timer change the sleep queue. *)
LEMMA QueueKept ==
  ASSUME ConstantsOK, [Next]_vars
  PROVE  \/ UNCHANGED <<sleepers, ticks>> \/ timer_interrupt
         \/ \E t \in Threads, n \in (-1)..MaxSleep : sleep_the_thread(t, n)
<1>1. CASE UNCHANGED vars \/ Halted
  BY <1>1 DEF Halted, vars, alarm
<1>2. ASSUME NEW s \in Semas, InterruptUp(s) PROVE UNCHANGED <<sleepers, ticks>>
  BY <1>2 DEF InterruptUp, alarm
<1>3. CASE idle
  BY <1>3 DEF idle, alarm
<1>4. ASSUME NEW t \in Threads, Step(t), \A n \in (-1)..MaxSleep : ~sleep_the_thread(t, n)
      PROVE  UNCHANGED <<sleepers, ticks>>
  <2>1. ASSUME NEW l \in Locks,
               \/ lock_acquire(t, l) \/ lock_try_acquire(t, l) \/ lock_release(t, l)
               \/ cond_wait(t, l) \/ cond_signal(t, l) \/ cond_broadcast(t, l)
        PROVE  UNCHANGED alarm
    BY <2>1 DEF lock_acquire, lock_try_acquire, lock_release, cond_wait, cond_signal, cond_broadcast
  <2>2. ASSUME NEW s \in Semas, sema_down(t, s) \/ SemaUp(t, s) PROVE UNCHANGED alarm
    BY <2>2 DEF sema_down, SemaUp
  <2>3. CASE Woken(t) \/ CondDown(t) \/ CondRelock(t) \/ BroadcastNext(t)
    BY <2>3 DEF Woken, CondDown, CondRelock, BroadcastNext, alarm
  <2>4. ASSUME NEW p \in Priorities,
               (\E u \in Threads : thread_create(t, u, p)) \/ thread_set_priority(t, p)
        PROVE  UNCHANGED alarm
    BY <2>4 DEF thread_create, thread_set_priority
  <2>5. CASE CreatedYield(t) \/ thread_exit(t)
    BY <2>5 DEF CreatedYield, thread_exit, alarm
  <2> QED BY <1>4, <2>1, <2>2, <2>3, <2>4, <2>5 DEF Step, alarm
<1> QED BY <1>1, <1>2, <1>3, <1>4 DEF Next

(* Every sleeper wakes at the first tick that is not before its time, and  *)
(* at no other: timer_sleep() and the handler that looks only at the head  *)
(* of the queue.                                                           *)
THEOREM SleepersWakeOnTime == Spec => WakesOnTime
<1> DEFINE A == \A t \in ToSet(sleepers) :
                  IF t \in ToSet(sleepers') THEN ticks' # ticks => wake[t] > ticks'
                                            ELSE wake[t] <= ticks + 1
<1>1. ASSUME IInv, [Next]_vars PROVE A
  <2>1. CASE UNCHANGED <<sleepers, ticks>>
    BY <2>1
  <2>2. CASE timer_interrupt
    BY <1>1, <2>2, TimerStep, ConstantsOK
  <2>3. ASSUME NEW t \in Threads, NEW n \in (-1)..MaxSleep, sleep_the_thread(t, n) PROVE A
    <3>1. ticks' = ticks
      BY <2>3 DEF sleep_the_thread
    <3> QED BY <1>1, <2>3, <3>1, SleepStep, ConstantsOK
  <2> QED BY <1>1, <2>1, <2>2, <2>3, QueueKept, ConstantsOK
<1>2. IInv /\ [Next]_vars => [A]_vars
  BY <1>1
<1> HIDE DEF A
<1>3. Spec => [][A]_vars
  BY <1>2, Invariance, PTL DEF Spec
<1> QED BY <1>3 DEF A, WakesOnTime
=============================================================================
