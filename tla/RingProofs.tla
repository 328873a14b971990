----------------------------- MODULE RingProofs -----------------------------
(***************************************************************************)
(* For any set of hashes: the list of a ring stays sorted and in step with *)
(* its map, the node's own index stays its own, the list's neighbours are  *)
(* the circle's, a node accepts gossip from its neighbours and no other,   *)
(* and the ring implements RingSet.  The binary searches are right for     *)
(* every list and key, and a ring that uses them implements Ring.          *)
(***************************************************************************)
EXTENDS RingSearch, SequenceTheorems, WellFoundedInduction, TLAPS

\* A set of hashes has a smallest member.
LEMMA MinWitness ==
  ASSUME NEW S, S \subseteq Nat, S # {}
  PROVE  \E x \in S : \A y \in S : x <= y
  <1> DEFINE less == {ss \in Nat \X Nat : ss[1] < ss[2]}
  <1>1. less = OpToRel(<, Nat)
    BY DEF OpToRel
  <1>2. PICK x \in S : \A y \in S : ~ (<<y, x>> \in less)
    <2>1. IsWellFoundedOn(less, Nat)
      BY ZenonT(30), <1>1, NatLessThanWellFounded
    <2> HIDE DEF less
    <2> QED BY ZenonT(30), <2>1, WFMin
  <1>3. ASSUME NEW y \in S PROVE x <= y
    <2>1. x \in Nat /\ y \in Nat
      OBVIOUS
    <2>2. <<y, x>> \in less <=> y < x
      BY <2>1
    <2> QED BY <1>2, <2>1, <2>2
  <1> QED BY <1>3

\* Min picks it.
LEMMA MinMember ==
  ASSUME NEW S, S \subseteq Nat, S # {}
  PROVE  Min(S) \in S
  BY ZenonT(30), MinWitness DEF Min

\* The successor on the circle is a member of it.
LEMMA SuccInMember ==
  ASSUME NEW S, S \subseteq Nat, NEW x \in Nat
  PROVE  SuccIn(S, x) \in S \cup {x}
  <1> DEFINE T == S \ {x}
             above == {y \in T : y > x}
  <1>1. T # {} => Min(T) \in T
    BY ZenonT(30), MinMember
  <1>2. above # {} => Min(above) \in above
    <2>1. above \subseteq Nat
      BY ZenonT(30)
    <2> HIDE DEF above
    <2> QED BY ZenonT(30), <2>1, MinMember
  <1> QED BY <1>1, <1>2 DEF SuccIn

\* y is the member of S that comes before, or after, x on the circle.
NearestBelow(S, x, y) ==
  /\ y \in S \ {x}
  /\ \/ y < x /\ \A z \in S : z < x => z <= y
     \/ \A z \in S \ {x} : z > x /\ z <= y
NearestAbove(S, x, y) ==
  /\ y \in S \ {x}
  /\ \/ y > x /\ \A z \in S : z > x => z >= y
     \/ \A z \in S \ {x} : z < x /\ z >= y

\* The predecessor is the largest member below, or the largest of all.
LEMMA PrevInIs ==
  ASSUME NEW S, S \subseteq Nat, NEW x \in Nat, NEW y, NearestBelow(S, x, y)
  PROVE  PrevIn(S, x) = y
  <1> DEFINE T == S \ {x}
             below == {z \in T : z < x}
  <1>1. CASE y < x /\ \A z \in S : z < x => z <= y
    <2>1. y \in below /\ \A z \in below : z \in Nat /\ y >= z
      BY <1>1 DEF NearestBelow
    <2>2. Max(below) = y
      <3>1. \A m \in below : (\A z \in below : m >= z) => m = y
        BY <2>1
      <3> HIDE DEF below
      <3> QED BY <2>1, <3>1 DEF Max
    <2> QED BY <2>1, <2>2 DEF PrevIn
  <1>2. CASE \A z \in S \ {x} : z > x /\ z <= y
    <2>1. below = {} /\ y \in T /\ \A z \in T : z \in Nat /\ y >= z
      <3>1. \A z \in T : z \in Nat /\ y >= z /\ ~(z < x)
        BY <1>2 DEF NearestBelow
      <3>2. below = {}
        BY ZenonT(30), <3>1
      <3> QED BY <3>1, <3>2 DEF NearestBelow
    <2>2. Max(T) = y
      <3>1. \A m \in T : (\A z \in T : m >= z) => m = y
        BY <2>1
      <3> HIDE DEF T
      <3> QED BY <2>1, <3>1 DEF Max
    <2> QED BY <2>1, <2>2 DEF PrevIn
  <1> QED BY <1>1, <1>2 DEF NearestBelow

\* The successor is the smallest member above, or the smallest of all.
LEMMA SuccInIs ==
  ASSUME NEW S, S \subseteq Nat, NEW x \in Nat, NEW y, NearestAbove(S, x, y)
  PROVE  SuccIn(S, x) = y
  <1> DEFINE T == S \ {x}
             above == {z \in T : z > x}
  <1>1. CASE y > x /\ \A z \in S : z > x => z >= y
    <2>1. y \in above /\ \A z \in above : z \in Nat /\ y <= z
      BY <1>1 DEF NearestAbove
    <2>2. Min(above) = y
      <3>1. \A m \in above : (\A z \in above : m <= z) => m = y
        BY <2>1
      <3> HIDE DEF above
      <3> QED BY <2>1, <3>1 DEF Min
    <2> QED BY <2>1, <2>2 DEF SuccIn
  <1>2. CASE \A z \in S \ {x} : z < x /\ z >= y
    <2>1. above = {} /\ y \in T /\ \A z \in T : z \in Nat /\ y <= z
      <3>1. \A z \in T : z \in Nat /\ y <= z /\ ~(z > x)
        BY <1>2 DEF NearestAbove
      <3>2. above = {}
        BY ZenonT(30), <3>1
      <3> QED BY <3>1, <3>2 DEF NearestAbove
    <2>2. Min(T) = y
      <3>1. \A m \in T : (\A z \in T : m <= z) => m = y
        BY <2>1
      <3> HIDE DEF T
      <3> QED BY <2>1, <3>1 DEF Min
    <2> QED BY <2>1, <2>2 DEF SuccIn
  <1> QED BY <1>1, <1>2 DEF NearestAbove

\* Where there is another member, the successor is the nearest one above.
LEMMA SuccInNearest ==
  ASSUME NEW S, S \subseteq Nat, NEW x \in Nat, S \ {x} # {}
  PROVE  NearestAbove(S, x, SuccIn(S, x))
  <1> DEFINE T == S \ {x}
             above == {z \in T : z > x}
  <1>1. PICK y : NearestAbove(S, x, y)
    <2>1. CASE above # {}
      <3>1. above \subseteq Nat
        BY ZenonT(30)
      <3>2. PICK y \in above : \A z \in above : y <= z
        BY ZenonT(30), <2>1, <3>1, MinWitness
      <3>3. NearestAbove(S, x, y)
        BY <3>2 DEF NearestAbove
      <3> QED BY <3>3
    <2>2. CASE above = {}
      <3>1. T \subseteq Nat
        OBVIOUS
      <3>2. PICK y \in T : \A z \in T : y <= z
        BY ZenonT(30), <3>1, MinWitness
      <3>3. NearestAbove(S, x, y)
        BY <2>2, <3>2 DEF NearestAbove
      <3> QED BY <3>3
    <2> QED BY <2>1, <2>2
  <1> QED BY ZenonT(30), <1>1, SuccInIs

-----------------------------------------------------------------------------
\* The places 1..n of L are in strictly ascending order.
Sorted(L, n) == \A a, b \in 1..n : a < b => L[a] < L[b]

\* p belongs in place k of L, and is not there yet.
Splits(L, n, k, p) == \A j \in 1..n : L[j] # p /\ (L[j] < p <=> j < k)

\* M is L with p put in place k, or with place k taken out.
Inserted(M, L, n, k, p) ==
  \A j \in 1..(n + 1) :
    M[j] = IF j < k THEN L[j] ELSE IF j = k THEN p ELSE L[j - 1]
Removed(M, L, n, k) ==
  \A j \in 1..(n - 1) : M[j] = IF j < k THEN L[j] ELSE L[j + 1]

\* The inductive invariant: the order of the list is what makes the index
\* arithmetic of add and remove right.
RingInv == TypeOK /\ ListMatchesMap /\ SelfTracked

\* L is sorted and M is what adding p in its place makes of it, or what
\* taking place k out makes of it.
Adds(M, m, L, n, k, p) ==
  /\ n \in Nat /\ m = n + 1 /\ k \in 1..m /\ p \in Nat
  /\ L \in [1..n -> Nat] /\ M \in [1..m -> Nat]
  /\ Sorted(L, n) /\ Splits(L, n, k, p) /\ Inserted(M, L, n, k, p)
Drops(M, m, L, n, k) ==
  /\ n \in Nat /\ m = n - 1 /\ k \in 1..n
  /\ L \in [1..n -> Nat] /\ M \in [1..m -> Nat]
  /\ Sorted(L, n) /\ Removed(M, L, n, k)

\* What spliceIn builds, place by place.
LEMMA InsertFacts ==
  ASSUME NEW S, NEW s \in Seq(S), NEW i \in 1..(Len(s) + 1), NEW e \in S
  PROVE  /\ spliceIn(s, i, e) \in Seq(S)
         /\ Len(spliceIn(s, i, e)) = Len(s) + 1
         /\ Inserted(spliceIn(s, i, e), s, Len(s), i, e)
  <1> DEFINE a == SubSeq(s, 1, i - 1)
             b == SubSeq(s, i, Len(s))
             t == a \o <<e>>
  <1>1. a \in Seq(S) /\ Len(a) = i - 1 /\ \A j \in 1..(i - 1) : a[j] = s[j]
    OBVIOUS
  <1>2. b \in Seq(S) /\ Len(b) = Len(s) - i + 1
        /\ \A j \in 1..(Len(s) - i + 1) : b[j] = s[i + j - 1]
    OBVIOUS
  <1>3. spliceIn(s, i, e) = t \o b
    BY DEF spliceIn
  <1> HIDE DEF a, b
  <1>4. t \in Seq(S) /\ Len(t) = i
        /\ \A j \in 1..i : t[j] = IF j < i THEN s[j] ELSE e
    BY <1>1
  <1> HIDE DEF t
  <1>0. Len(s) \in Nat
    OBVIOUS
  <1>5. t \o b \in Seq(S) /\ Len(t \o b) = Len(s) + 1
    <2>1. t \o b \in Seq(S) /\ Len(t \o b) = Len(t) + Len(b)
      BY ZenonT(30), <1>2, <1>4, ConcatProperties
    <2> QED BY <2>1, <1>2, <1>4, <1>0
  <1>6. ASSUME NEW j \in 1..(Len(s) + 1)
        PROVE  (t \o b)[j] =
                 IF j < i THEN s[j] ELSE IF j = i THEN e ELSE s[j - 1]
    <2>1. CASE j <= i
      BY <2>1, <1>2, <1>4
    <2>2. CASE j > i
      <3>1. (t \o b)[j] = b[j - i] /\ j - i \in 1..(Len(s) - i + 1)
        BY <2>2, <1>2, <1>4
      <3>2. PICK k \in 1..(Len(s) - i + 1) : k = j - i
        BY <3>1
      <3>3. b[k] = s[i + k - 1]
        BY <1>2
      <3>4. i + k - 1 = j - 1 /\ ~(j < i) /\ j # i
        BY <2>2, <3>2, <1>0
      <3>5. (t \o b)[j] = s[j - 1]
        BY <3>1, <3>2, <3>3, <3>4, Zenon
      <3> QED BY <3>4, <3>5, Zenon
    <2>3. j <= i \/ j > i
      BY <1>0
    <2> QED BY <2>1, <2>2, <2>3, Zenon
  <1> QED BY <1>3, <1>5, <1>6 DEF Inserted

\* What spliceOut leaves, place by place.
LEMMA RemoveFacts ==
  ASSUME NEW S, NEW s \in Seq(S), NEW i \in 1..Len(s)
  PROVE  /\ spliceOut(s, i) \in Seq(S)
         /\ Len(spliceOut(s, i)) = Len(s) - 1
         /\ Removed(spliceOut(s, i), s, Len(s), i)
  <1> DEFINE a == SubSeq(s, 1, i - 1)
             b == SubSeq(s, i + 1, Len(s))
  <1>1. a \in Seq(S) /\ Len(a) = i - 1 /\ \A j \in 1..(i - 1) : a[j] = s[j]
    OBVIOUS
  <1>2. b \in Seq(S) /\ Len(b) = Len(s) - i
        /\ \A j \in 1..(Len(s) - i) : b[j] = s[i + j]
    OBVIOUS
  <1>3. spliceOut(s, i) = a \o b
    BY DEF spliceOut
  <1> HIDE DEF a, b
  <1>0. Len(s) \in Nat
    OBVIOUS
  <1>4. a \o b \in Seq(S) /\ Len(a \o b) = Len(s) - 1
    <2>1. a \o b \in Seq(S) /\ Len(a \o b) = Len(a) + Len(b)
      BY ZenonT(30), <1>1, <1>2, ConcatProperties
    <2> QED BY <2>1, <1>1, <1>2, <1>0
  <1>5. ASSUME NEW j \in 1..(Len(s) - 1)
        PROVE  (a \o b)[j] = IF j < i THEN s[j] ELSE s[j + 1]
    <2>1. CASE j < i
      BY <2>1, <1>1, <1>2
    <2>2. CASE j >= i
      <3>1. (a \o b)[j] = b[j - i + 1] /\ j - i + 1 \in 1..(Len(s) - i)
        BY <2>2, <1>1, <1>2
      <3>2. PICK k \in 1..(Len(s) - i) : k = j - i + 1
        BY <3>1
      <3>3. b[k] = s[i + k]
        BY ZenonT(30), <1>2
      <3>4. i + k = j + 1 /\ ~(j < i)
        BY <2>2, <3>2, <1>0
      <3>5. (a \o b)[j] = s[j + 1]
        BY <3>1, <3>2, <3>3, <3>4, Zenon
      <3> QED BY <3>4, <3>5, Zenon
    <2>3. j < i \/ j >= i
      BY <1>0
    <2> QED BY <2>1, <2>2, <2>3, Zenon
  <1> QED BY ZenonT(30), <1>3, <1>4, <1>5 DEF Removed


\* A sequence as a function on the places 1..n.
LEMMA SeqIsFunction ==
  ASSUME NEW S, NEW s \in Seq(S)
  PROVE  Len(s) \in Nat /\ s \in [1..Len(s) -> S]
  OBVIOUS

\* Inserting at the first place not below p keeps a list sorted.
LEMMA SortedInsert ==
  ASSUME NEW M, NEW m, NEW L, NEW n, NEW k, NEW p, Adds(M, m, L, n, k, p)
  PROVE  Sorted(M, m) /\ Range(M) = Range(L) \cup {p}
  <1> USE DEF Sorted, Splits, Inserted, Adds
  <1>1. ASSUME NEW x \in 1..(n + 1), NEW y \in 1..(n + 1), x < y
        PROVE  M[x] < M[y]
    <2>1. CASE y < k
      <3>1. x \in 1..n /\ y \in 1..n /\ M[x] = L[x] /\ M[y] = L[y]
        BY <1>1, <2>1
      <3> QED BY <1>1, <3>1
    <2>2. CASE y = k
      BY <1>1, <2>2
    <2>3. CASE y > k /\ x > k
      BY <1>1, <2>3
    <2>4. CASE y > k /\ x = k
      BY SMTT(30), <1>1, <2>4
    <2>5. CASE y > k /\ x < k
      BY SMTT(30), <1>1, <2>5
    <2> QED BY <1>1, <2>1, <2>2, <2>3, <2>4, <2>5
  <1>2. Range(M) = Range(L) \cup {p}
    <2>1. ASSUME NEW j \in 1..(n + 1) PROVE M[j] \in Range(L) \cup {p}
      <3>1. j = k \/ (j < k /\ j \in 1..n) \/ (j > k /\ j - 1 \in 1..n)
        OBVIOUS
      <3> QED BY <3>1 DEF Range
    <2>2. ASSUME NEW j \in 1..n PROVE L[j] \in Range(M)
      <3>1. \/ j < k /\ j \in 1..(n + 1) /\ M[j] = L[j]
            \/ j + 1 \in 1..(n + 1) /\ M[j + 1] = L[j]
        BY SMTT(30)
      <3> QED BY <3>1 DEF Range
    <2>3. p \in Range(M)
      <3>1. M[k] = p
        OBVIOUS
      <3> QED BY <3>1 DEF Range
    <2> QED BY <2>1, <2>2, <2>3 DEF Range
  <1> QED BY <1>1, <1>2

\* Removing a place keeps a list sorted and drops exactly its element.
LEMMA SortedRemove ==
  ASSUME NEW M, NEW m, NEW L, NEW n, NEW k, Drops(M, m, L, n, k)
  PROVE  Sorted(M, m) /\ Range(M) = Range(L) \ {L[k]}
  <1> USE DEF Sorted, Removed, Drops
  <1>1. ASSUME NEW x \in 1..(n - 1), NEW y \in 1..(n - 1), x < y
        PROVE  M[x] < M[y]
    <2>1. CASE y < k
      BY <1>1, <2>1
    <2>2. CASE y >= k /\ x < k
      BY <1>1, <2>2
    <2>3. CASE y >= k /\ x >= k
      BY <1>1, <2>3
    <2> QED BY <1>1, <2>1, <2>2, <2>3
  <1>2. Range(M) = Range(L) \ {L[k]}
    <2>1. ASSUME NEW j \in 1..(n - 1) PROVE M[j] \in Range(L) \ {L[k]}
      <3>1. \E h \in 1..n : h # k /\ M[j] = L[h] /\ L[h] # L[k]
        <4>1. CASE j < k
          BY SMTT(30), <4>1
        <4>2. CASE j >= k
          <5>1. j + 1 \in 1..n /\ j + 1 > k /\ M[j] = L[j + 1]
            BY <4>2
          <5> QED BY SMTT(30), <5>1
        <4> QED BY <4>1, <4>2
      <3> QED BY <3>1 DEF Range
    <2>2. ASSUME NEW j \in 1..n, j # k PROVE L[j] \in Range(M)
      <3>1. \/ j < k /\ j \in 1..(n - 1) /\ M[j] = L[j]
            \/ j - 1 \in 1..(n - 1) /\ M[j - 1] = L[j]
        BY <2>2
      <3> QED BY <3>1 DEF Range
    <2> QED BY ZenonT(30), <2>1, <2>2 DEF Range
  <1> QED BY <1>1, <1>2

\* The list of a state of the invariant, as a sorted function.
LEMMA ListFacts ==
  ASSUME RingInv
  PROVE  /\ Len(succList) \in Nat \ {0}
         /\ succList \in [1..Len(succList) -> Ids]
         /\ succList \in [1..Len(succList) -> Nat]
         /\ Sorted(succList, Len(succList))
         /\ \A x : x \in peerToRing
                   <=> \E j \in 1..Len(succList) : succList[j] = x
         /\ selfIdx \in 0..(Len(succList) - 1)
         /\ succList[selfIdx + 1] = self
  <1>1. Len(succList) \in Nat /\ succList \in [1..Len(succList) -> Ids]
    BY SeqIsFunction DEF RingInv, TypeOK
  <1>2. Len(succList) # 0 /\ selfIdx \in 0..(Len(succList) - 1)
    BY <1>1 DEF RingInv, TypeOK
  <1>3. succList \in [1..Len(succList) -> Nat]
    BY ZenonT(30), <1>1, IdsAssumption
  <1>4. \A x : x \in peerToRing
               <=> \E j \in 1..Len(succList) : succList[j] = x
    BY <1>1 DEF RingInv, ListMatchesMap, Range
  <1>5. succList[selfIdx + 1] = self
    BY DEF RingInv, SelfTracked, At
  <1>6. Sorted(succList, Len(succList))
    BY DEF RingInv, ListMatchesMap, Sorted
  <1> QED BY <1>1, <1>2, <1>3, <1>4, <1>5, <1>6

\* A fresh ring satisfies the invariant.
LEMMA RingInit == newRing => RingInv
  <1> SUFFICES ASSUME newRing PROVE RingInv
    OBVIOUS
  <1>1. succList \in Seq(Ids) /\ Len(succList) = 1 /\ succList[1] = self
        /\ DOMAIN succList = {1}
    BY IdsAssumption DEF newRing
  <1>2. TypeOK
    BY <1>1, IdsAssumption DEF newRing, TypeOK, Others
  <1>3. ListMatchesMap
    <2>1. Range(succList) = {self}
      BY <1>1 DEF Range
    <2> QED BY <1>1, <2>1 DEF ListMatchesMap, newRing
  <1>4. SelfTracked
    BY <1>1 DEF SelfTracked, At, newRing
  <1> QED BY <1>2, <1>3, <1>4 DEF RingInv

\* add keeps the list sorted and in step with the map, and its index.
LEMMA AddKeeps ==
  ASSUME RingInv, NEW p \in Others, add(p)
  PROVE  RingInv'
  <1>1. PICK idx \in 0..Len(succList) :
          /\ InsertsAt(idx, p)
          /\ succList' = spliceIn(succList, idx + 1, p)
          /\ selfIdx' = selfIdxAfterAdd(idx)
          /\ peerToRing' = peerToRing \cup {p}
          /\ acc' = accAfterAdd(succList', idx)
          /\ p \notin peerToRing
    BY SMTT(30) DEF add, addAt
  <1>0. PICK n \in Nat : n = Len(succList)
    BY ZenonT(30), ListFacts
  <1>2. PICK L, M : n = Len(succList) /\ L = succList /\ M = succList'
    BY <1>0
  <1>3. /\ n # 0 /\ L \in [1..n -> Nat]
        /\ Sorted(L, n)
        /\ \A x : x \in peerToRing <=> \E j \in 1..n : L[j] = x
        /\ selfIdx \in 0..(n - 1) /\ L[selfIdx + 1] = self
    BY <1>2, ListFacts
  <1>4. PICK k \in 1..(n + 1) : p \in Ids /\ p \in Nat /\ k = idx + 1
    BY <1>2, <1>1, IdsAssumption DEF Others
  <1>5. M \in Seq(Ids) /\ Len(M) = n + 1 /\ Inserted(M, L, n, k, p)
    <2>1. L \in Seq(Ids) /\ Len(L) = n /\ M = spliceIn(L, k, p)
      BY <1>1, <1>2, <1>4 DEF RingInv, TypeOK
    <2>2. k \in 1..(Len(L) + 1) /\ p \in Ids
      BY <2>1, <1>4
    <2>3. /\ spliceIn(L, k, p) \in Seq(Ids)
          /\ Len(spliceIn(L, k, p)) = Len(L) + 1
          /\ Inserted(spliceIn(L, k, p), L, Len(L), k, p)
      BY <2>1, <2>2, InsertFacts
    <2> HIDE DEF Inserted
    <2> QED BY <2>1, <2>3
  <1>6. M \in [1..(n + 1) -> Nat] /\ DOMAIN M = 1..(n + 1)
    BY ZenonT(30), <1>5, SeqIsFunction, IdsAssumption
  <1>7. Splits(L, n, k, p)
    <2> SUFFICES ASSUME NEW j \in 1..n
                 PROVE  L[j] # p /\ (L[j] < p <=> j < k)
      BY DEF Splits
    <2>1. j - 1 \in 0..(n - 1) /\ At(L, j - 1) = L[j]
      BY DEF At
    <2>2. L[j] < p <=> j - 1 < idx
      BY <2>1, <1>1, <1>2 DEF InsertsAt
    <2>3. L[j] # p
      BY <1>1, <1>3
    <2> QED BY <2>2, <2>3, <1>1, <1>4
  <1>8. Sorted(M, n + 1) /\ Range(M) = Range(L) \cup {p}
    <2>1. PICK m : m = n + 1
      OBVIOUS
    <2>2. Adds(M, m, L, n, k, p)
      BY ZenonT(30), <2>1, <1>3, <1>4, <1>5, <1>6, <1>7 DEF Adds
    <2>3. Sorted(M, m) /\ Range(M) = Range(L) \cup {p}
      BY <2>2, SortedInsert
    <2> QED BY <2>1, <2>3
  <1>9. selfIdx' \in 0..n /\ M[selfIdx' + 1] = self
    <2>1. idx \in Nat /\ selfIdx \in Nat
      BY <1>1, <1>2, <1>3
    <2>2. CASE idx <= selfIdx
      <3>1. selfIdx' = selfIdx + 1 /\ selfIdx + 2 \in 1..(n + 1)
        BY <1>1, <1>3, <2>1, <2>2 DEF selfIdxAfterAdd
      <3> QED BY SMTT(30), <3>1, <1>3, <1>4, <1>5, <2>1, <2>2 DEF Inserted
    <2>3. CASE idx > selfIdx
      <3>1. selfIdx' = selfIdx /\ selfIdx + 1 \in 1..(n + 1)
        BY SMTT(30), <1>1, <1>3, <2>1, <2>3 DEF selfIdxAfterAdd
      <3> QED BY SMTT(30), <3>1, <1>3, <1>4, <1>5, <2>1, <2>3 DEF Inserted
    <2> QED BY <2>1, <2>2, <2>3
  <1>10. acc' \in [Others -> Ids \cup {None}]
    BY <1>1 DEF accAfterAdd, RingInv, TypeOK
  <1>11. TypeOK'
    BY SMTT(30), <1>1, <1>2, <1>4, <1>5, <1>9, <1>10 DEF TypeOK, RingInv
  <1>12. ListMatchesMap'
    BY <1>1, <1>2, <1>5, <1>8 DEF ListMatchesMap, RingInv, Sorted
  <1>13. SelfTracked'
    BY <1>2, <1>9 DEF SelfTracked, At
  <1> QED BY <1>11, <1>12, <1>13 DEF RingInv

\* remove does too.
LEMMA RemoveKeeps ==
  ASSUME RingInv, NEW p \in Others, remove(p)
  PROVE  RingInv'
  <1>1. PICK idx \in 0..(Len(succList) - 1) :
          /\ FoundAt(idx, p)
          /\ idx # selfIdx
          /\ selfIdx' = IF idx < selfIdx THEN selfIdx - 1 ELSE selfIdx
          /\ succList' = spliceOut(succList, idx + 1)
          /\ peerToRing' = peerToRing \ {p}
          /\ acc' = acc
    BY SMTT(30) DEF remove, removeAt
  <1>0. PICK n \in Nat : n = Len(succList)
    BY ZenonT(30), ListFacts
  <1>2. PICK L, M : n = Len(succList) /\ L = succList /\ M = succList'
    BY <1>0
  <1>3. /\ n # 0 /\ L \in [1..n -> Nat]
        /\ Sorted(L, n)
        /\ selfIdx \in 0..(n - 1) /\ L[selfIdx + 1] = self
    BY <1>2, ListFacts
  <1>4. PICK k \in 1..n, m \in Nat : k = idx + 1 /\ m = n - 1 /\ L[k] = p
    <2>1. idx + 1 \in 1..n /\ n - 1 \in Nat /\ L[idx + 1] = p
      BY <1>1, <1>2, <1>3 DEF FoundAt, At
    <2> QED BY <2>1
  <1>5. M \in Seq(Ids) /\ Len(M) = m /\ Removed(M, L, n, k)
    <2>1. L \in Seq(Ids) /\ Len(L) = n /\ M = spliceOut(L, k)
      BY <1>1, <1>2, <1>4 DEF RingInv, TypeOK
    <2>2. /\ spliceOut(L, k) \in Seq(Ids)
          /\ Len(spliceOut(L, k)) = Len(L) - 1
          /\ Removed(spliceOut(L, k), L, Len(L), k)
      BY ZenonT(30), <2>1, RemoveFacts
    <2> QED BY <2>1, <2>2, <1>4
  <1>6. M \in [1..m -> Nat] /\ DOMAIN M = 1..m
    BY ZenonT(30), <1>5, SeqIsFunction, IdsAssumption
  <1>7. Sorted(M, m) /\ Range(M) = Range(L) \ {L[k]}
    <2>1. Drops(M, m, L, n, k)
      BY ZenonT(30), <1>3, <1>4, <1>5, <1>6 DEF Drops
    <2> QED BY <2>1, SortedRemove
  <1>8. idx \in Nat /\ selfIdx \in Nat
    BY <1>1, <1>2, <1>3
  <1>9. selfIdx' \in 0..(m - 1) /\ M[selfIdx' + 1] = self
    <2>1. CASE idx < selfIdx
      <3>1. selfIdx' = selfIdx - 1 /\ selfIdx \in 1..m /\ ~(selfIdx < k)
        BY <1>1, <1>3, <1>4, <1>8, <2>1
      <3>2. M[selfIdx] = L[selfIdx + 1]
        BY <3>1, <1>4, <1>5, <1>8 DEF Removed
      <3> QED BY <3>1, <3>2, <1>3, <1>8
    <2>2. CASE idx > selfIdx
      <3>1. selfIdx' = selfIdx /\ selfIdx + 1 \in 1..m /\ selfIdx + 1 < k
        BY <1>1, <1>3, <1>4, <1>8, <2>2
      <3>2. M[selfIdx + 1] = L[selfIdx + 1]
        BY <3>1, <1>4, <1>5, <1>8 DEF Removed
      <3> QED BY <3>1, <3>2, <1>3, <1>8
    <2> QED BY <1>1, <1>8, <2>1, <2>2
  <1>10. m > 0
    BY <1>4, <1>9, <1>8
  <1>11. TypeOK'
    BY <1>1, <1>2, <1>5, <1>9, <1>10 DEF TypeOK, RingInv
  <1>12. ListMatchesMap'
    BY SMTT(30), <1>1, <1>2, <1>4, <1>5, <1>7 DEF ListMatchesMap, RingInv, Sorted
  <1>13. SelfTracked'
    BY <1>2, <1>9 DEF SelfTracked, At
  <1> QED BY <1>11, <1>12, <1>13 DEF RingInv

\* Every step of the ring keeps the invariant.
LEMMA RingStep == RingInv /\ [Next]_vars => RingInv'
  <1> SUFFICES ASSUME RingInv, [Next]_vars PROVE RingInv'
    OBVIOUS
  <1>1. ASSUME NEW p \in Others, add(p) PROVE RingInv'
    BY <1>1, AddKeeps
  <1>2. ASSUME NEW p \in Others, remove(p) PROVE RingInv'
    BY <1>2, RemoveKeeps
  <1>3. ASSUME NEW p \in Others,
               rebut(p) \/ \E q \in Ids : accuse(p, q)
        PROVE  RingInv'
    <2>1. UNCHANGED <<succList, selfIdx, peerToRing>>
          /\ acc' \in [Others -> Ids \cup {None}]
      BY <1>3 DEF rebut, accuse, RingInv, TypeOK
    <2> QED BY <2>1 DEF RingInv, TypeOK, ListMatchesMap, SelfTracked, At
  <1>4. CASE UNCHANGED vars
    BY <1>4 DEF vars, RingInv, TypeOK, ListMatchesMap, SelfTracked, At
  <1> QED BY <1>1, <1>2, <1>3, <1>4 DEF Next

\* The invariant holds in every reachable state of a ring.
THEOREM RingInvariant == Spec => []RingInv
  BY RingInit, RingStep, PTL DEF Spec

\* Types hold for every set of hashes.
THEOREM RingTypeCorrect == Spec => []TypeOK
  <1>1. RingInv => TypeOK
    BY DEF RingInv
  <1> QED BY <1>1, RingInvariant, PTL

\* Whatever joins and leaves, the list is sorted and holds exactly the
\* members the map names.
THEOREM ListCorrect == Spec => []ListMatchesMap
  <1>1. RingInv => ListMatchesMap
    BY DEF RingInv
  <1> QED BY <1>1, RingInvariant, PTL

\* The node never loses its own place: errLostSelf is never logged.
THEOREM SelfNeverLost == Spec => []SelfTracked
  <1>1. RingInv => SelfTracked
    BY DEF RingInv
  <1> QED BY <1>1, RingInvariant, PTL

-----------------------------------------------------------------------------
\* The wrap-around of an index: within the list it is the index itself, one
\* lap further the same place.
LEMMA Wraps ==
  ASSUME NEW n \in Nat \ {0}, NEW r \in 0..(n - 1)
  PROVE  r % n = r /\ (n + r) % n = r /\ n % n = 0
  OBVIOUS

\* L lists the members S in order.
Lists(L, n, S) ==
  /\ n \in Nat \ {0} /\ L \in [1..n -> Nat] /\ Len(L) = n
  /\ Sorted(L, n)
  /\ \A z : z \in S <=> \E j \in 1..n : L[j] = z

\* The last place below x, or the last place of all, precedes x.
LEMMA PrevPlace ==
  ASSUME NEW L, NEW n, NEW S, Lists(L, n, S), NEW x \in Nat, S \ {x} # {},
         NEW k \in 0..n, \A j \in 1..n : L[j] < x <=> j <= k
  PROVE  NearestBelow(S, x, L[IF k = 0 THEN n ELSE k])
  <1> USE DEF Lists
  <1>1. CASE k = 0
    <2>1. \A j \in 1..n : L[j] >= x /\ L[j] <= L[n]
      BY <1>1 DEF Sorted
    <2>2. \A z \in S \ {x} : z > x /\ z <= L[n]
      BY <2>1
    <2>3. L[n] # x
      BY <2>2
    <2> QED BY <1>1, <2>2, <2>3 DEF NearestBelow
  <1>2. CASE k # 0
    <2>1. \A j \in 1..n : L[j] < x => L[j] <= L[k]
      BY <1>2 DEF Sorted
    <2>2. L[k] < x /\ L[k] \in S /\ k \in 1..n
      BY <1>2
    <2>3. \A z \in S : z < x => z <= L[k]
      BY <2>1
    <2> QED BY <1>2, <2>2, <2>3 DEF NearestBelow
  <1> QED BY <1>1, <1>2

\* The first place above x, or the first place of all, follows x.
LEMMA SuccPlace ==
  ASSUME NEW L, NEW n, NEW S, Lists(L, n, S), NEW x \in Nat, S \ {x} # {},
         NEW k \in 1..(n + 1), \A j \in 1..n : L[j] > x <=> j >= k
  PROVE  NearestAbove(S, x, L[IF k = n + 1 THEN 1 ELSE k])
  <1> USE DEF Lists
  <1>1. CASE k = n + 1
    <2>1. \A j \in 1..n : L[j] <= x /\ L[j] >= L[1]
      BY <1>1 DEF Sorted
    <2>2. \A z \in S \ {x} : z < x /\ z >= L[1]
      BY <2>1
    <2>3. L[1] # x
      BY <2>2
    <2> QED BY <1>1, <2>2, <2>3 DEF NearestAbove
  <1>2. CASE k # n + 1
    <2>1. \A j \in 1..n : L[j] > x => L[j] >= L[k]
      BY SMTT(30), <1>2 DEF Sorted
    <2>2. L[k] > x /\ L[k] \in S /\ k \in 1..n
      BY <1>2
    <2>3. \A z \in S : z > x => z >= L[k]
      BY <2>1
    <2> QED BY <1>2, <2>2, <2>3 DEF NearestAbove
  <1> QED BY <1>1, <1>2

\* x is the member in place i, counted from 0, and not alone.
Place(L, n, S, i, x) ==
  /\ Lists(L, n, S) /\ S \subseteq Nat
  /\ i \in 0..(n - 1) /\ x = L[i + 1] /\ S \ {x} # {}

\* The entries next to a member's own are its neighbours on the circle.
LEMMA MemberNeighbours ==
  ASSUME NEW L, NEW n, NEW S, NEW i, NEW x, Place(L, n, S, i, x)
  PROVE  /\ prevAtIdx(L, i) = PrevIn(S, x)
         /\ NearestBelow(S, x, prevAtIdx(L, i))
         /\ succAtIdx(L, i) = SuccIn(S, x)
  <1>0. Lists(L, n, S) /\ S \subseteq Nat /\ S \ {x} # {}
        /\ i \in 0..(n - 1) /\ x = L[i + 1]
    BY DEF Place
  <1>1. n \in Nat \ {0} /\ L \in [1..n -> Nat] /\ Len(L) = n /\ Sorted(L, n)
        /\ x \in Nat
    BY <1>0 DEF Lists
  <1>2. \A j \in 1..n : (L[j] < x <=> j <= i) /\ (L[j] > x <=> j >= i + 2)
    <2> SUFFICES ASSUME NEW j \in 1..n
                 PROVE  (L[j] < x <=> j <= i) /\ (L[j] > x <=> j >= i + 2)
      OBVIOUS
    <2>1. i + 1 \in 1..n
      BY <1>1, <1>0
    <2>2. j < i + 1 => L[j] < x
      BY <1>1, <1>0, <2>1 DEF Sorted
    <2>3. j > i + 1 => L[j] > x
      BY <1>1, <1>0, <2>1 DEF Sorted
    <2> QED BY <1>1, <1>0, <2>1, <2>2, <2>3
  <1>3. NearestBelow(S, x, L[IF i = 0 THEN n ELSE i])
    <2>1. i \in 0..n /\ \A j \in 1..n : L[j] < x <=> j <= i
      BY <1>1, <1>0, <1>2
    <2> QED BY ZenonT(30), <1>1, <1>0, <2>1, PrevPlace
  <1>4. NearestAbove(S, x, L[IF i + 2 = n + 1 THEN 1 ELSE i + 2])
    <2>1. PICK k \in 1..(n + 1) : k = i + 2
      BY <1>1, <1>0
    <2>2. \A j \in 1..n : L[j] > x <=> j >= k
      BY <1>0, <1>2, <2>1
    <2> QED BY ZenonT(30), <1>1, <1>0, <2>1, <2>2, SuccPlace
  <1>5. prevAtIdx(L, i) = L[IF i = 0 THEN n ELSE i]
    <2>1. CASE i = 0
      BY <2>1, <1>1, <1>0 DEF prevAtIdx, At
    <2>2. CASE i # 0
      <3>0. n \in Nat \ {0} /\ i \in 0..(n - 1)
        BY <1>1, <1>0
      <3>1. i - 1 \in 0..(n - 1) /\ (i - 1) % n = i - 1
        <4>1. PICK r \in 0..(n - 1) : r = i - 1
          BY <2>2, <3>0
        <4>2. r % n = r
          BY <3>0, Wraps
        <4> QED BY <4>1, <4>2
      <3>2. ~(i - 1 < 0) /\ i - 1 + 1 = i
        BY <2>2, <1>1, <1>0
      <3>3. prevAtIdx(L, i) = L[(i - 1) + 1]
        BY SMTT(30), <3>1, <3>2, <1>1, <1>0 DEF prevAtIdx, At
      <3> QED BY <2>2, <3>2, <3>3
    <2> QED BY <2>1, <2>2
  <1>6. succAtIdx(L, i) = L[IF i + 2 = n + 1 THEN 1 ELSE i + 2]
    <2>1. CASE i + 1 = n
      <3>0. n \in Nat \ {0}
        BY <1>1
      <3>1. (i + 1) % n = 0
        <4>1. 0 \in 0..(n - 1)
          BY <3>0
        <4>2. n % n = 0
          BY <3>0, <4>1, Wraps
        <4> QED BY <2>1, <4>2
      <3> QED BY <2>1, <3>1, <1>1, <1>0 DEF succAtIdx, At
    <2>2. CASE i + 1 # n
      <3>0. n \in Nat \ {0} /\ i \in 0..(n - 1)
        BY <1>1, <1>0
      <3>1. (i + 1) % n = i + 1
        <4>1. PICK r \in 0..(n - 1) : r = i + 1
          BY <2>2, <3>0
        <4>2. r % n = r
          BY <3>0, Wraps
        <4> QED BY <4>1, <4>2
      <3>2. succAtIdx(L, i) = L[i + 1 + 1]
        BY <3>1, <1>1, <1>0 DEF succAtIdx, At
      <3>3. i + 2 # n + 1 /\ i + 1 + 1 = i + 2
        BY <2>2, <1>1, <1>0
      <3> QED BY <3>2, <3>3
    <2> QED BY <2>1, <2>2
  <1>7. prevAtIdx(L, i) = PrevIn(S, x) /\ NearestBelow(S, x, prevAtIdx(L, i))
    BY ZenonT(30), <1>1, <1>0, <1>3, <1>5, PrevInIs
  <1>8. succAtIdx(L, i) = SuccIn(S, x)
    BY ZenonT(30), <1>1, <1>0, <1>4, <1>6, SuccInIs
  <1> QED BY <1>7, <1>8

\* A sorted sequence lists its elements.
LEMMA SeqLists ==
  ASSUME NEW L \in Seq(Ids), Len(L) > 0, Sorted(L, Len(L))
  PROVE  Lists(L, Len(L), Range(L)) /\ Range(L) \subseteq Nat
  <1>1. Len(L) \in Nat /\ L \in [1..Len(L) -> Ids]
    BY SeqIsFunction
  <1>2. L \in [1..Len(L) -> Nat]
    BY ZenonT(30), <1>1, IdsAssumption
  <1>3. \A z : z \in Range(L) <=> \E j \in 1..Len(L) : L[j] = z
    BY <1>1 DEF Range
  <1>4. Len(L) \in Nat \ {0}
    BY <1>1
  <1>5. Range(L) \subseteq Nat
    BY <1>2, <1>3
  <1> QED BY <1>2, <1>3, <1>4, <1>5 DEF Lists

\* The list of a state of the invariant lists the map's members.
LEMMA ListsMembers ==
  ASSUME RingInv
  PROVE  Lists(succList, Len(succList), peerToRing) /\ peerToRing \subseteq Nat
         /\ self \in peerToRing
  BY ListFacts, IdsAssumption DEF Lists, RingInv, TypeOK

\* Every hash has a place in the list.
LEMMA PlaceExists ==
  ASSUME RingInv, NEW x \in Nat
  PROVE  \E i \in 0..Len(succList) : InsertsAt(i, x)
  <1>0. PICK n \in Nat \ {0} : n = Len(succList)
    BY ZenonT(30), ListFacts
  <1>1. PICK L :
          L \in [1..n -> Nat]
          /\ n = Len(succList) /\ L = succList /\ Sorted(L, n)
    BY <1>0, ListFacts
  <1> DEFINE T == {i \in 0..n : i = n \/ ~(L[i + 1] < x)}
  <1>2. T \subseteq Nat /\ n \in T
    OBVIOUS
  <1>3. PICK i \in T : \A j \in T : i <= j
    <2> HIDE DEF T
    <2> QED BY ZenonT(30), <1>2, MinWitness
  <1>4. ASSUME NEW j \in 0..(n - 1) PROVE L[j + 1] < x <=> j < i
    <2>1. i \in 0..n /\ (i = n \/ ~(L[i + 1] < x))
      OBVIOUS
    <2>2. j < i => L[j + 1] < x
      <3>1. j < i => j \notin T
        BY <1>3, <2>1
      <3> QED BY <3>1
    <2>3. i <= j => ~(L[j + 1] < x)
      <3> SUFFICES ASSUME i <= j PROVE ~(L[j + 1] < x)
        OBVIOUS
      <3>1. i + 1 \in 1..n /\ j + 1 \in 1..n /\ ~(L[i + 1] < x)
        BY <2>1
      <3>2. i = j \/ L[i + 1] < L[j + 1]
        <4>1. i = j \/ i + 1 < j + 1
          BY SMTT(30), <2>1
        <4>2. \A a, b \in 1..n : a < b => L[a] < L[b]
          BY ZenonT(30), <1>1 DEF Sorted
        <4> HIDE DEF T
        <4> QED BY <3>1, <4>1, <4>2
      <3>3. L[i + 1] \in Nat /\ L[j + 1] \in Nat
        BY ZenonT(30), <3>1, <1>1
      <3> QED BY <3>1, <3>2, <3>3
    <2> QED BY <2>1, <2>2, <2>3
  <1> QED BY ZenonT(30), <1>1, <1>4 DEF InsertsAt, At

\* findSuccAndPrev returns the circle's neighbours of any hash.
LEMMA FoundNeighbours ==
  ASSUME RingInv, NEW x \in Nat, peerToRing \ {x} # {}
  PROVE  /\ findSuccAndPrev(x) = <<SuccIn(peerToRing, x), PrevIn(peerToRing, x)>>
         /\ NearestBelow(peerToRing, x, PrevIn(peerToRing, x))
  <1>0. PICK n \in Nat \ {0} : n = Len(succList)
    BY ZenonT(30), ListFacts
  <1>1. PICK L, S : n = Len(succList) /\ L = succList /\ S = peerToRing
    BY <1>0
  <1>2. Lists(L, n, S) /\ S \subseteq Nat /\ S \ {x} # {}
    BY <1>1, ListsMembers
  <1>3. L \in [1..n -> Nat] /\ Len(L) = n /\ Sorted(L, n)
    BY <1>2 DEF Lists
  <1>4. PICK k \in 0..n : k = CHOOSE i \in 0..Len(succList) : InsertsAt(i, x)
    BY <1>1, PlaceExists
  <1>5. InsertsAt(k, x)
    BY ZenonT(30), <1>1, <1>4, PlaceExists
  <1>6. \A j \in 1..n : L[j] < x <=> j <= k
    <2> TAKE j \in 1..n
    <2>1. j - 1 \in 0..(n - 1) /\ At(L, j - 1) = L[j]
      BY DEF At
    <2>2. L[j] < x <=> j - 1 < k
      BY <2>1, <1>5, <1>1 DEF InsertsAt
    <2> QED BY <2>2
  <1>7. NearestBelow(S, x, L[IF k = 0 THEN n ELSE k])
    BY ZenonT(30), <1>2, <1>6, PrevPlace
  <1>8. PICK s \in 0..n : s = IF k < n /\ At(L, k) = x THEN k + 1 ELSE k
    OBVIOUS
  <1>9. \A j \in 1..n : L[j] > x <=> j >= s + 1
    <2> TAKE j \in 1..n
    <2>1. CASE k < n /\ L[k + 1] = x
      <3>1. s = k + 1 /\ k + 1 \in 1..n
        BY <2>1, <1>8 DEF At
      <3>2. j > k + 1 => L[k + 1] < L[j]
        BY <3>1, <1>3 DEF Sorted
      <3>3. j < k + 1 => L[j] < L[k + 1]
        BY <3>1, <1>3 DEF Sorted
      <3> QED BY <2>1, <3>1, <3>2, <3>3, <1>3
    <2>2. CASE ~(k < n /\ L[k + 1] = x)
      <3>1. s = k
        BY <2>2, <1>8 DEF At
      <3>2. j > k => L[j] # x
        <4> SUFFICES ASSUME j > k PROVE L[j] # x
          OBVIOUS
        <4>1. k < n /\ k + 1 \in 1..n /\ ~(L[k + 1] < x) /\ L[k + 1] # x
          BY <2>2, <1>6
        <4>2. j = k + 1 \/ L[k + 1] < L[j]
          BY <4>1, <1>3 DEF Sorted
        <4>3. L[j] \in Nat /\ L[k + 1] \in Nat
          BY <4>1, <1>3
        <4> QED BY <4>1, <4>2, <4>3
      <3>3. L[j] \in Nat /\ (L[j] < x <=> j <= k)
        BY <1>3, <1>6
      <3> QED BY <3>1, <3>2, <3>3
    <2> QED BY <2>1, <2>2
  <1>10. NearestAbove(S, x, L[IF s + 1 = n + 1 THEN 1 ELSE s + 1])
    <2>1. PICK m \in 1..(n + 1) : m = s + 1
      OBVIOUS
    <2>2. \A j \in 1..n : L[j] > x <=> j >= m
      BY <1>9, <2>1
    <2> QED BY <1>2, <2>1, <2>2, SuccPlace
  <1>11. At(L, s % n) = L[IF s + 1 = n + 1 THEN 1 ELSE s + 1]
    <2>1. CASE s = n
      BY <2>1, Wraps DEF At
    <2>2. CASE s # n
      <3>1. s % n = s
        BY <2>2, Wraps
      <3> QED BY <2>2, <3>1 DEF At
    <2> QED BY <2>1, <2>2
  <1>12. At(L, (k - 1 + n) % n) = L[IF k = 0 THEN n ELSE k]
    <2>1. CASE k = 0
      <3>1. k - 1 + n = n - 1 /\ (n - 1) % n = n - 1 /\ n - 1 + 1 = n
        BY <2>1, Wraps
      <3> QED BY <2>1, <3>1 DEF At
    <2>2. CASE k # 0
      <3>1. k - 1 + n = n + (k - 1) /\ k - 1 \in 0..(n - 1) /\ k - 1 + 1 = k
        BY <2>2
      <3>2. (n + (k - 1)) % n = k - 1
        BY <3>1, Wraps
      <3> QED BY <2>2, <3>1, <3>2 DEF At
    <2> QED BY <2>1, <2>2
  <1>13. findSuccAndPrev(x) = <<At(L, s % n), At(L, (k - 1 + n) % n)>>
    BY <1>1, <1>4, <1>8 DEF findSuccAndPrev
  <1>14. At(L, s % n) = SuccIn(S, x)
    BY ZenonT(30), <1>2, <1>10, <1>11, SuccInIs
  <1>15. At(L, (k - 1 + n) % n) = PrevIn(S, x)
    BY ZenonT(30), <1>2, <1>7, <1>12, PrevInIs
  <1>16. NearestBelow(S, x, PrevIn(S, x))
    BY <1>7, <1>12, <1>15
  <1> QED BY SMTT(30), <1>1, <1>13, <1>14, <1>15, <1>16

\* A list of one place holds the node itself alone.
LEMMA AloneOrNot ==
  ASSUME RingInv
  PROVE  IF Len(succList) <= 1 THEN peerToRing = {self} /\ succList[1] = self
                                    /\ Len(succList) = 1 /\ selfIdx = 0
         ELSE peerToRing \ {self} # {}
  <1>0. PICK n \in Nat \ {0} : n = Len(succList)
    BY ZenonT(30), ListFacts
  <1>1. PICK L : n = Len(succList) /\ L = succList
    BY <1>0
  <1>2. /\ L \in [1..n -> Nat] /\ Sorted(L, n)
        /\ \A x : x \in peerToRing <=> \E j \in 1..n : L[j] = x
        /\ selfIdx \in 0..(n - 1) /\ L[selfIdx + 1] = self
    BY <1>1, ListFacts
  <1>3. CASE n <= 1
    <2>1. n = 1 /\ selfIdx = 0 /\ L[1] = self
      BY <1>2, <1>3
    <2>2. peerToRing = {self}
      BY <1>2, <2>1
    <2> QED BY <1>1, <1>3, <2>1, <2>2
  <1>4. CASE n > 1
    <2>1. 1 \in 1..n /\ 2 \in 1..n /\ L[1] # L[2]
      BY <1>2, <1>4 DEF Sorted
    <2>2. L[1] \in peerToRing /\ L[2] \in peerToRing
      BY <1>2, <2>1
    <2> QED BY SMTT(30), <1>1, <1>4, <2>1, <2>2
  <1> QED BY SMTT(30), <1>3, <1>4

\* For the node itself and for any other peer, what the index arithmetic and
\* the search return are the nearest members on the circle.
LEMMA NearestFollows == RingInv => NeighboursAreNearest
  <1> SUFFICES ASSUME RingInv PROVE NeighboursAreNearest
    OBVIOUS
  <1>0. self \in Nat
    BY IdsAssumption
  <1>1. CASE Len(succList) <= 1
    <2>1. peerToRing = {self} /\ succList[1] = self /\ Len(succList) = 1
          /\ selfIdx = 0
      BY <1>1, AloneOrNot
    <2>2. SuccIn({self}, self) = self /\ PrevIn({self}, self) = self
      BY DEF SuccIn, PrevIn
    <2>3. successor = self /\ predecessor = self
      BY <2>1 DEF successor, predecessor, succAtIdx, prevAtIdx, At
    <2>4. ASSUME NEW id \in Others
          PROVE  SuccIn({self}, id) = self /\ PrevIn({self}, id) = self
      <3>1. id \in Nat /\ id # self
        BY IdsAssumption DEF Others
      <3>2. PICK S : S = {self}
        BY ZenonT(30)
      <3>3. NearestAbove(S, id, self) /\ NearestBelow(S, id, self)
        BY <1>0, <3>1, <3>2 DEF NearestAbove, NearestBelow
      <3>4. S \subseteq Nat
        BY <1>0, <3>2
      <3> QED BY SMTT(30), <3>1, <3>2, <3>3, <3>4, SuccInIs, PrevInIs
    <2> QED BY SMTT(30), <1>1, <2>1, <2>2, <2>3, <2>4 DEF NeighboursAreNearest, neighbours
  <1>2. CASE ~(Len(succList) <= 1)
    <2>1. peerToRing \ {self} # {}
      BY <1>2, AloneOrNot
    <2>2. successor = SuccIn(peerToRing, self)
          /\ predecessor = PrevIn(peerToRing, self)
      <3>1. PICK n, L, S, i : n = Len(succList) /\ L = succList
                              /\ S = peerToRing /\ i = selfIdx
        BY ZenonT(30)
      <3>2. Lists(L, n, S) /\ S \subseteq Nat /\ S \ {self} # {}
        BY <2>1, <3>1, ListsMembers
      <3>3. i \in 0..(n - 1) /\ self = L[i + 1]
        BY <3>1, ListFacts
      <3>4. prevAtIdx(L, i) = PrevIn(S, self) /\ succAtIdx(L, i) = SuccIn(S, self)
        <4>1. Place(L, n, S, i, self)
          BY <3>2, <3>3 DEF Place
        <4> QED BY <4>1, MemberNeighbours
      <3> QED BY <3>1, <3>4 DEF successor, predecessor
    <2>3. ASSUME NEW id \in Others
          PROVE  neighbours(id)
                   = <<SuccIn(peerToRing, id), PrevIn(peerToRing, id)>>
      <3>1. id \in Nat /\ peerToRing \ {id} # {}
        BY SMTT(30), ListsMembers, IdsAssumption DEF Others
      <3> QED BY <1>2, <3>1, FoundNeighbours DEF neighbours
    <2> QED BY <2>2, <2>3 DEF NeighboursAreNearest
  <1> QED BY <1>1, <1>2

\* The neighbours of every peer are the circle's.
THEOREM NeighboursCorrect == Spec => []NeighboursAreNearest
  BY NearestFollows, RingInvariant, PTL

\* x lies on the arc from a to its successor exactly when a precedes x.
LEMMA ArcAbove ==
  ASSUME NEW S, S \subseteq Nat, NEW a \in S, NEW x \in Nat, x # a,
         NEW s, NearestAbove(S, a, s), NEW y, NearestBelow(S, x, y)
  PROVE  isBetween(a, s, x) <=> y = a
  BY SMTT(30) DEF NearestAbove, NearestBelow, isBetween

\* The same for the arc that ends at a.
LEMMA ArcBelow ==
  ASSUME NEW S, S \subseteq Nat, NEW a \in S, NEW x \in Nat, x # a,
         NEW p, NearestBelow(S, a, p), NEW y, NearestAbove(S, x, y)
  PROVE  isBetween(p, a, x) <=> y = a
  BY SMTT(30) DEF NearestAbove, NearestBelow, isBetween

\* A node accepts gossip from exactly the peers it is a neighbour of, in the
\* ring or not.
THEOREM AcceptsCorrect == Spec => []AcceptsItsNeighbours
  <1>1. RingInv => AcceptsItsNeighbours
    <2> SUFFICES ASSUME RingInv, NEW id \in Others
                 PROVE  betweenNeighbours(id)
                          <=> self \in {neighbours(id)[1], neighbours(id)[2]}
      BY DEF AcceptsItsNeighbours
    <2>1. PICK S : S = peerToRing
      BY ZenonT(30)
    <2>2. /\ S \subseteq Nat /\ self \in S /\ self \in Nat /\ id \in Nat
          /\ id # self /\ S \ {id} # {}
      BY <2>1, ListsMembers, IdsAssumption DEF Others
    <2>3. PICK s, p, t, y : /\ s = SuccIn(S, self) /\ p = PrevIn(S, self)
                            /\ t = SuccIn(S, id) /\ y = PrevIn(S, id)
      BY ZenonT(30)
    <2>4. successor = s /\ predecessor = p /\ neighbours(id) = <<t, y>>
      BY <2>1, <2>3, NearestFollows DEF NeighboursAreNearest
    <2>5. CASE Len(succList) <= 1
      BY <2>5 DEF betweenNeighbours, neighbours
    <2>6. CASE ~(Len(succList) <= 1)
      <3>1. S \ {self} # {}
        BY <2>1, <2>6, AloneOrNot
      <3>2. NearestAbove(S, self, s) /\ NearestAbove(S, id, t)
        BY ZenonT(30), <2>2, <2>3, <3>1, SuccInNearest
      <3>3. NearestBelow(S, self, p) /\ NearestBelow(S, id, y)
        BY <2>1, <2>2, <2>3, <3>1, FoundNeighbours
      <3>4. isBetween(self, s, id) <=> y = self
        BY ZenonT(30), <2>2, <3>2, <3>3, ArcAbove
      <3>5. isBetween(p, self, id) <=> t = self
        BY ZenonT(30), <2>2, <3>2, <3>3, ArcBelow
      <3> QED BY <2>4, <2>6, <3>4, <3>5 DEF betweenNeighbours
    <2> QED BY <2>5, <2>6
  <1> QED BY <1>1, RingInvariant, PTL

\* An accuser that lies between p's predecessor and p becomes p's
\* predecessor when it joins.
LEMMA BetweenIsNearest ==
  ASSUME NEW S, S \subseteq Nat, NEW p \in Nat, NEW q \in Nat, p # q,
         NEW s, NearestBelow(S, p, s), isBetween(s, p, q)
  PROVE  NearestBelow(S \cup {q}, p, q)
  BY DEF NearestBelow, isBetween

\* Who the ring accepts as an accuser, the circle does.
LEMMA AccuserAccepted ==
  ASSUME RingInv, NEW p \in Others, NEW q \in Ids, p # q, isPrev(p, q)
  PROVE  MayAccuse(peerToRing, p, q)
  <1>1. p \in Nat /\ q \in Nat /\ p # self /\ peerToRing \subseteq Nat
        /\ peerToRing \ {p} # {}
    BY ListsMembers, IdsAssumption DEF Others
  <1>2. CASE p \in peerToRing /\ q \in peerToRing
    <2>1. PICK i \in 0..(Len(succList) - 1) :
            FoundAt(i, p) /\ prevAtIdx(succList, i) = q
      BY <1>1, <1>2 DEF isPrev
    <2>2. PICK n, L, S : n = Len(succList) /\ L = succList /\ S = peerToRing
      OBVIOUS
    <2>3. Lists(L, n, S) /\ S \subseteq Nat /\ S \ {p} # {}
          /\ i \in 0..(n - 1) /\ p = L[i + 1]
      BY <1>1, <2>1, <2>2, ListsMembers DEF FoundAt, At
    <2>4. prevAtIdx(L, i) = PrevIn(S, p)
      <3>1. Place(L, n, S, i, p)
        BY <2>3 DEF Place
      <3> QED BY <3>1, MemberNeighbours
    <2>5. peerToRing \cup {q} = peerToRing
      BY <1>2
    <2> QED BY ZenonT(30), <2>1, <2>2, <2>4, <2>5 DEF MayAccuse
  <1>3. CASE ~(p \in peerToRing /\ q \in peerToRing)
    <2>1. isBetween(findSuccAndPrev(p)[2], p, q)
      BY <1>1, <1>3 DEF isPrev
    <2>2. PICK s : s = PrevIn(peerToRing, p)
      OBVIOUS
    <2>3. isBetween(s, p, q) /\ NearestBelow(peerToRing, p, s)
      BY <1>1, <2>1, <2>2, FoundNeighbours
    <2>4. PICK T : T = peerToRing \cup {q}
      BY ZenonT(30)
    <2>5. NearestBelow(T, p, q)
      BY ZenonT(30), <1>1, <2>3, <2>4, BetweenIsNearest
    <2>6. T \subseteq Nat
      BY <1>1, <2>4
    <2>7. PrevIn(T, p) = q
      BY ZenonT(30), <1>1, <2>5, <2>6, PrevInIs
    <2> QED BY <2>4, <2>7 DEF MayAccuse
  <1> QED BY <1>2, <1>3

\* A new member's entry in the list has the circle's neighbours around it.
LEMMA NewMemberNeighbours ==
  ASSUME RingInv, NEW p \in Others, add(p)
  PROVE  acc' = LET s == SuccIn(peerToRing, p)
                IN  IF s # self /\ acc[s] = PrevIn(peerToRing, p)
                    THEN [acc EXCEPT ![s] = None] ELSE acc
  <1>1. PICK idx \in 0..Len(succList) :
          /\ succList' = spliceIn(succList, idx + 1, p)
          /\ acc' = accAfterAdd(succList', idx)
          /\ peerToRing' = peerToRing \cup {p} /\ p \notin peerToRing
    BY DEF add, addAt
  <1>2. RingInv'
    BY AddKeeps
  <1>3. PICK n, L, S, k : n = Len(succList') /\ L = succList' /\ S = peerToRing'
                          /\ k = idx + 1
    BY ZenonT(30)
  <1>4. Lists(L, n, S) /\ S \subseteq Nat
    <2>1. L \in Seq(Ids) /\ Len(L) > 0 /\ Sorted(L, Len(L)) /\ Range(L) = S
      BY SMTT(30), <1>2, <1>3 DEF RingInv, TypeOK, ListMatchesMap, Sorted
    <2> QED BY <2>1, <1>3, SeqLists
  <1>5. idx \in 0..(n - 1) /\ p = L[idx + 1]
    <2>1. PICK m, M : M = succList /\ m = Len(M)
      OBVIOUS
    <2>2. M \in Seq(Ids) /\ m \in Nat /\ k \in 1..(m + 1) /\ k = idx + 1 /\ p \in Ids
      BY SMTT(30), <2>1, <1>1, <1>3, ListFacts DEF RingInv, TypeOK, Others
    <2>3. Len(spliceIn(M, k, p)) = m + 1
          /\ Inserted(spliceIn(M, k, p), M, m, k, p)
      <3>1. k \in 1..(Len(M) + 1)
        BY <2>1, <2>2
      <3>2. Len(spliceIn(M, k, p)) = Len(M) + 1
            /\ Inserted(spliceIn(M, k, p), M, Len(M), k, p)
        BY ZenonT(30), <3>1, <2>2, InsertFacts
      <3> QED BY <3>2, <2>1
    <2>4. L = spliceIn(M, k, p)
      BY <2>1, <1>1, <1>3
    <2> HIDE DEF Inserted
    <2>5. n = m + 1 /\ Inserted(L, M, m, k, p)
      BY <2>3, <2>4, <1>3
    <2> QED BY SMTT(30), <2>2, <2>5, <1>1, <2>1 DEF Inserted
  <1>6. S \ {p} # {} /\ S \ {p} = peerToRing \ {p}
    BY SMTT(30), <1>1, <1>3, ListsMembers DEF Others
  <1>7. prevAtIdx(L, idx) = PrevIn(S, p) /\ succAtIdx(L, idx) = SuccIn(S, p)
    <2>1. Place(L, n, S, idx, p)
      BY SMTT(30), <1>4, <1>5, <1>6 DEF Place
    <2> QED BY SMTT(30), <2>1, MemberNeighbours
  <1>8. PrevIn(S, p) = PrevIn(peerToRing, p) /\ SuccIn(S, p) = SuccIn(peerToRing, p)
    BY ZenonT(30), <1>6 DEF PrevIn, SuccIn
  <1>9. SuccIn(S, p) \in Ids
    <2>1. p \in Nat
      BY IdsAssumption DEF Others
    <2>2. SuccIn(S, p) \in S \cup {p}
      BY ZenonT(30), <2>1, <1>4, SuccInMember
    <2>3. S \subseteq Ids /\ p \in Ids
      BY <1>2, <1>3 DEF RingInv, TypeOK, Others
    <2> QED BY <2>2, <2>3
  <1>10. PICK s, r : s = SuccIn(S, p) /\ r = PrevIn(S, p)
    OBVIOUS
  <1>11. acc' = IF s \in Others /\ acc[s] = r THEN [acc EXCEPT ![s] = None] ELSE acc
    BY ZenonT(30), <1>1, <1>3, <1>7, <1>10 DEF accAfterAdd
  <1> QED BY SMTT(30), <1>8, <1>9, <1>10, <1>11 DEF Others

\* RingSet speaks of the same circle.
LEMMA SameCircle ==
  /\ \A S, x : Abs!SuccIn(S, x) = SuccIn(S, x)
  /\ \A S, x : Abs!PrevIn(S, x) = PrevIn(S, x)
  BY Zenon DEF SuccIn, PrevIn, Abs!SuccIn, Abs!PrevIn, Min, Max, Abs!Min, Abs!Max

\* The ring of the code implements the circle: with the map as the set of
\* members, every step of the list is a step of RingSet or leaves it alone.
THEOREM RingRefines == Spec => ImplementsRingSet
  <1>1. newRing => Abs!Init
    BY DEF newRing, Abs!Init, Others
  <1>2. RingInv /\ [Next]_vars => [Abs!Next]_<<peerToRing, acc>>
    <2> SUFFICES ASSUME RingInv, [Next]_vars
                 PROVE  [Abs!Next]_<<peerToRing, acc>>
      OBVIOUS
    <2>1. ASSUME NEW p \in Others, add(p) PROVE Abs!Add(p)
      <3>1. PICK s, r : s = SuccIn(peerToRing, p) /\ r = PrevIn(peerToRing, p)
        OBVIOUS
      <3>2. s = Abs!SuccIn(peerToRing, p) /\ r = Abs!PrevIn(peerToRing, p)
        BY SMTT(30), <3>1, SameCircle
      <3>3. acc' = IF s # self /\ acc[s] = r THEN [acc EXCEPT ![s] = None] ELSE acc
        BY SMTT(30), <2>1, <3>1, NewMemberNeighbours
      <3>4. p \notin peerToRing /\ peerToRing' = peerToRing \cup {p}
        BY <2>1 DEF add, addAt
      <3> QED BY <3>2, <3>3, <3>4 DEF Abs!Add
    <2>2. ASSUME NEW p \in Others, remove(p) PROVE Abs!Remove(p)
      BY <2>2 DEF remove, removeAt, Abs!Remove, Others
    <2>3. ASSUME NEW p \in Others, rebut(p) PROVE Abs!Rebut(p)
      BY <2>3 DEF rebut, Abs!Rebut
    <2>4. ASSUME NEW p \in Others, NEW q \in Ids, accuse(p, q)
          PROVE  Abs!Accuse(p, q)
      <3>1. p # q /\ isPrev(p, q)
        BY <2>4 DEF accuse
      <3>2. Abs!MayAccuse(peerToRing, p, q)
        BY <3>1, AccuserAccepted, SameCircle DEF Abs!MayAccuse, MayAccuse
      <3> QED BY <2>4, <3>2 DEF accuse, Abs!Accuse
    <2>5. CASE UNCHANGED vars
      BY <2>5 DEF vars
    <2> QED BY SMTT(30), <2>1, <2>2, <2>3, <2>4, <2>5 DEF Next, Abs!Next, Others
  <1> QED BY <1>1, <1>2, RingInvariant, PTL DEF Spec, ImplementsRingSet, Abs!Spec
-----------------------------------------------------------------------------
(***************************************************************************)
(* The binary searches.  The loop invariant says that the ids left of      *)
(* currIdx are smaller than the key, that those right of maxIdx are larger *)
(* (for insert: not smaller), and that the range shrinks to at worst an    *)
(* empty one that starts inside the list.                                  *)
(***************************************************************************)
Idx == 0..(length - 1)

LoopInv ==
  /\ currIdx <= maxIdx + 1
  /\ \A i \in Idx : i < currIdx => Elem(i) < key
  /\ \A i \in Idx : i > maxIdx =>
       IF call = "insert" THEN Elem(i) >= key ELSE Elem(i) > key

SearchInv ==
  /\ SearchTypeOK
  /\ Running => LoopInv
  /\ InsertIsSorted
  /\ SearchIsExact
  /\ NeighboursAreAdjacent

-----------------------------------------------------------------------------
\* The list is sorted, in terms of the code's indices.
LEMMA SliceFacts ==
  ASSUME SearchTypeOK
  PROVE  /\ length \in Nat /\ length > 0
         /\ key \in Nat
         /\ \A i \in Idx : Elem(i) \in Nat
         /\ \A i, j \in Idx : i < j => Elem(i) < Elem(j)
  <1>1. slice \in Seq(Nat) /\ length \in Nat /\ length > 0 /\ Strict(slice)
    BY DEF SearchTypeOK, length
  <1>2. \A i \in Idx : i + 1 \in 1..length
    BY <1>1 DEF Idx
  <1>3. \A i \in Idx : Elem(i) \in Nat
    BY <1>1, <1>2 DEF Elem, length
  <1>4. \A i, j \in Idx : i < j => Elem(i) < Elem(j)
    BY <1>1, <1>2 DEF Elem, Strict, length, Idx
  <1> QED BY SMTT(30), <1>1, <1>3, <1>4 DEF SearchTypeOK

\* The middle of a range of at least two elements.
LEMMA MidFacts ==
  ASSUME NEW lo \in Int, NEW hi \in Int, lo < hi
  PROVE  (lo + hi) \div 2 \in Int /\ lo <= (lo + hi) \div 2 /\ (lo + hi) \div 2 < hi
  OBVIOUS

\* succ and prev of search.go wrap around the ends of the list.
LEMMA SuccPrev ==
  ASSUME length \in Nat, length > 0, NEW i \in Idx
  PROVE  /\ succ(i) = (IF i + 1 = length THEN 0 ELSE i + 1)
         /\ prev(i) = (IF i = 0 THEN length - 1 ELSE i - 1)
         /\ succ(i) \in Idx /\ prev(i) \in Idx
  <1>1. i + 1 = length => (i + 1) % length = 0
    BY DEF Idx
  <1>2. i + 1 # length => (i + 1) % length = i + 1
    BY DEF Idx
  <1>3. i # 0 => (i - 1) % length = i - 1
    BY DEF Idx
  <1> QED BY SMTT(30), <1>1, <1>2, <1>3 DEF succ, prev, Idx

-----------------------------------------------------------------------------
\* A call starts with the whole list as its range.
LEMMA CallBegins ==
  ASSUME NEW f \in Calls, NEW list \in Seq(Nat), Len(list) > 0, Strict(list),
         NEW x \in Nat, Begins(f, list, x)
  PROVE  SearchInv'
  <1>1. /\ call' = f /\ slice' = list /\ key' = x /\ result' = <<>>
        /\ currIdx' = 0 /\ maxIdx' = Len(list) - 1 /\ Len(list) \in Nat
    BY DEF Begins
  <1>2. length' = Len(list)
    BY <1>1 DEF length
  <1>3. Strict(slice)' /\ Running'
    BY <1>1 DEF Strict, Running
  <1>4. SearchTypeOK'
    BY SMTT(30), <1>1, <1>2, <1>3 DEF SearchTypeOK
  <1>5. LoopInv'
    BY <1>1, <1>2 DEF LoopInv, Idx
  <1> QED BY SMTT(30), <1>3, <1>4, <1>5
       DEF SearchInv, InsertIsSorted, SearchIsExact, NeighboursAreAdjacent

\* A step that returns nothing yet narrows the range.
LEMMA NarrowingStep ==
  ASSUME SearchInv, GoRight \/ GoLeft
  PROVE  SearchInv'
  <1>1. /\ Running /\ Running' /\ LoopInv
        /\ currIdx < maxIdx /\ currIdx \in Idx /\ maxIdx \in Int
        /\ maxIdx <= length - 1 /\ SearchTypeOK
        /\ UNCHANGED <<call, slice, key, result>>
    BY DEF SearchInv, SearchTypeOK, GoRight, GoLeft, Running, Idx
  <1>2. /\ length \in Nat /\ length > 0 /\ key \in Nat
        /\ \A i \in Idx : Elem(i) \in Nat
        /\ \A i, j \in Idx : i < j => Elem(i) < Elem(j)
    BY SMTT(30), <1>1, SliceFacts
  <1>3. mid \in Int /\ currIdx <= mid /\ mid < maxIdx /\ mid \in Idx
    BY SMTT(30), <1>1, <1>2, MidFacts DEF mid, Idx
  <1>4. length' = length /\ Idx' = Idx /\ \A i \in Idx : Elem(i)' = Elem(i)
    BY <1>1 DEF length, Idx, Elem
  <1>5. CASE GoRight
    <2>1. currIdx' = mid + 1 /\ maxIdx' = maxIdx /\ Elem(mid) < key
      BY <1>5 DEF GoRight
    <2>2. \A i \in Idx : i < mid + 1 => Elem(i) < key
      BY SMTT(30), <1>2, <1>3, <2>1 DEF Idx
    <2>3. LoopInv'
      BY SMTT(30), <1>1, <1>3, <1>4, <2>1, <2>2 DEF LoopInv, Idx
    <2>4. SearchTypeOK'
      BY SMTT(30), <1>1, <1>2, <1>3, <1>4, <2>1 DEF SearchTypeOK, Idx, Running
    <2> QED BY SMTT(30), <1>1, <2>3, <2>4
         DEF SearchInv, InsertIsSorted, SearchIsExact, NeighboursAreAdjacent
  <1>6. CASE GoLeft
    <2>1. /\ maxIdx' = mid - 1 /\ currIdx' = currIdx
          /\ Elem(mid) > key \/ (Elem(mid) = key /\ call = "insert")
      BY <1>6 DEF GoLeft
    <2>2. \A i \in Idx : i > mid - 1 =>
            IF call = "insert" THEN Elem(i) >= key ELSE Elem(i) > key
      BY SMTT(30), <1>2, <1>3, <2>1 DEF Idx
    <2>3. LoopInv'
      BY SMTT(30), <1>1, <1>3, <1>4, <2>1, <2>2 DEF LoopInv, Idx
    <2>4. SearchTypeOK'
      BY SMTT(30), <1>1, <1>2, <1>3, <1>4, <2>1 DEF SearchTypeOK, Idx, Running
    <2> QED BY <1>1, <2>3, <2>4
         DEF SearchInv, InsertIsSorted, SearchIsExact, NeighboursAreAdjacent
  <1> QED BY SMTT(30), <1>5, <1>6

\* The middle element equals the key: it is where the list splits.
LEMMA FoundStep ==
  ASSUME SearchInv, FoundMid
  PROVE  SearchInv'
  <1>1. /\ LoopInv /\ SearchTypeOK /\ call \in {"search", "findSuccAndPrev"}
        /\ currIdx < maxIdx /\ currIdx \in Idx /\ maxIdx \in Int
        /\ maxIdx <= length - 1 /\ Elem(mid) = key
        /\ UNCHANGED <<call, slice, key, currIdx, maxIdx>>
    BY DEF SearchInv, SearchTypeOK, FoundMid, Running, Idx, Calls
  <1>2. /\ length \in Nat /\ length > 0 /\ key \in Nat
        /\ \A i \in Idx : Elem(i) \in Nat
        /\ \A i, j \in Idx : i < j => Elem(i) < Elem(j)
    BY SMTT(30), <1>1, SliceFacts
  <1>3. PICK m \in Idx : m = mid
    BY <1>1, <1>2, MidFacts DEF mid, Idx
  <1>4. length' = length /\ Idx' = Idx /\ \A i \in Idx : Elem(i)' = Elem(i)
    BY <1>1 DEF length, Idx, Elem
  <1>5. \A i \in Idx : IF i < m THEN Elem(i) < key ELSE Elem(i) >= key
    BY SMTT(30), <1>1, <1>2, <1>3 DEF Idx
  <1>6. /\ succ(m) = (IF m + 1 = length THEN 0 ELSE m + 1)
        /\ prev(m) = (IF m = 0 THEN length - 1 ELSE m - 1)
        /\ succ(m) \in Idx /\ prev(m) \in Idx
    BY SMTT(30), <1>2, <1>3, SuccPrev
  <1>7. CASE call = "search"
    <2>1. result' = <<m>>
      BY SMTT(30), <1>3, <1>7 DEF FoundMid
    <2>2. SearchTypeOK'
      BY SMTT(30), <1>1, <1>2, <1>3, <1>4, <2>1 DEF SearchTypeOK, Idx
    <2>3. SearchIsExact'
      BY SMTT(30), <1>1, <1>2, <1>3, <1>4, <2>1 DEF SearchIsExact, NotFound, Idx
    <2> QED BY SMTT(30), <1>1, <1>7, <2>1, <2>2, <2>3
         DEF SearchInv, InsertIsSorted, NeighboursAreAdjacent, Running
  <1>8. CASE call = "findSuccAndPrev"
    <2>1. result' = <<succ(m), prev(m)>>
      BY SMTT(30), <1>3, <1>8 DEF FoundMid
    <2>2. SearchTypeOK'
      BY SMTT(30), <1>1, <1>2, <1>3, <1>4, <1>6, <2>1 DEF SearchTypeOK, Idx
    <2>3. SplitsAt(m)'
      BY SMTT(30), <1>1, <1>2, <1>3, <1>4, <1>5 DEF SplitsAt, Idx
    <2>4. m \in 0..length /\ m < length /\ Elem(m)' = key'
      BY SMTT(30), <1>1, <1>2, <1>3, <1>4 DEF Idx
    <2>5. NeighboursAreAdjacent'
      BY SMTT(30), <1>1, <1>2, <1>3, <1>4, <1>6, <2>1, <2>3, <2>4 DEF NeighboursAreAdjacent, Idx
    <2> QED BY SMTT(30), <1>1, <1>8, <2>1, <2>2, <2>5
         DEF SearchInv, InsertIsSorted, SearchIsExact, Running
  <1> QED BY <1>1, <1>7, <1>8

\* One element is left: comparing with it tells where the list splits.
LEMMA LastStep ==
  ASSUME SearchInv, Last
  PROVE  SearchInv'
  <1>1. /\ LoopInv /\ SearchTypeOK /\ call \in Calls
        /\ currIdx >= maxIdx /\ currIdx \in Idx /\ maxIdx \in Int
        /\ UNCHANGED <<call, slice, key, currIdx, maxIdx>>
    BY DEF SearchInv, SearchTypeOK, Last, Running, Idx
  <1>2. /\ length \in Nat /\ length > 0 /\ key \in Nat
        /\ \A i \in Idx : Elem(i) \in Nat
        /\ \A i, j \in Idx : i < j => Elem(i) < Elem(j)
    BY <1>1, SliceFacts
  <1>3. PICK c \in Idx : c = currIdx
    BY <1>1
  <1>4. length' = length /\ Idx' = Idx /\ \A i \in Idx : Elem(i)' = Elem(i)
    BY <1>1 DEF length, Idx, Elem
  <1>5. /\ \A i \in Idx : i < c => Elem(i) < key
        /\ \A i \in Idx : i > c =>
             IF call = "insert" THEN Elem(i) >= key ELSE Elem(i) > key
    BY <1>1, <1>2, <1>3 DEF LoopInv, Idx
  <1>6. PICK k \in 0..length : k = IF Elem(c) < key THEN c + 1 ELSE c
    BY SMTT(30), <1>2, <1>3 DEF Idx
  <1>7. \A i \in Idx : IF i < k THEN Elem(i) < key ELSE Elem(i) >= key
    BY SMTT(30), <1>2, <1>3, <1>5, <1>6 DEF Idx
  <1>8. SplitsAt(k)'
    BY SMTT(30), <1>1, <1>2, <1>4, <1>6, <1>7 DEF SplitsAt, Idx
  <1>9. CASE call = "insert"
    <2>1. result' = <<k>>
      BY SMTT(30), <1>3, <1>6, <1>9 DEF Last, lastInsert
    <2>2. SearchTypeOK'
      BY SMTT(30), <1>1, <1>2, <1>3, <1>4, <2>1 DEF SearchTypeOK, Idx
    <2>3. InsertIsSorted'
      BY SMTT(30), <1>8, <2>1 DEF InsertIsSorted
    <2> QED BY SMTT(30), <1>1, <1>9, <2>1, <2>2, <2>3
         DEF SearchInv, SearchIsExact, NeighboursAreAdjacent, Running
  <1>10. CASE call = "search"
    <2>1. result' = <<IF Elem(c) = key THEN c ELSE NotFound>>
      BY SMTT(30), <1>3, <1>10 DEF Last, lastSearch
    <2>2. SearchTypeOK'
      BY SMTT(30), <1>1, <1>2, <1>3, <1>4, <2>1 DEF SearchTypeOK, Idx, NotFound
    <2>3. Elem(c) # key => \A i \in Idx : Elem(i) # key
      BY SMTT(30), <1>2, <1>3, <1>5, <1>10 DEF Idx
    <2>4. SearchIsExact'
      BY SMTT(30), <1>1, <1>2, <1>3, <1>4, <2>1, <2>3 DEF SearchIsExact, NotFound, Idx
    <2> QED BY SMTT(30), <1>1, <1>10, <2>1, <2>2, <2>4
         DEF SearchInv, InsertIsSorted, NeighboursAreAdjacent, Running
  <1>11. CASE call = "findSuccAndPrev"
    <2>1. /\ succ(c) = (IF c + 1 = length THEN 0 ELSE c + 1)
          /\ prev(c) = (IF c = 0 THEN length - 1 ELSE c - 1)
          /\ succ(c) \in Idx /\ prev(c) \in Idx
      BY <1>2, <1>3, SuccPrev
    <2>2. result' = IF Elem(c) < key THEN <<succ(c), c>>
                    ELSE IF Elem(c) > key THEN <<c, prev(c)>>
                    ELSE <<succ(c), prev(c)>>
      BY <1>3, <1>11 DEF Last, lastNeighbours
    <2>3. SearchTypeOK'
      BY ZenonT(30), <1>1, <1>2, <1>3, <1>4, <2>1, <2>2 DEF SearchTypeOK, Idx
    <2>4. k < length => k \in Idx /\ Elem(k)' = Elem(k)
      BY SMTT(30), <1>2, <1>4, <1>6 DEF Idx
    <2>5. Elem(c) < key /\ k < length => Elem(k) > key
      BY SMTT(30), <1>2, <1>3, <1>5, <1>6, <1>11, <2>4 DEF Idx
    <2>6. result'[2] = (IF k = 0 THEN length - 1 ELSE k - 1)
      BY SMTT(30), <1>2, <1>3, <1>6, <2>1, <2>2 DEF Idx
    <2>7. result'[1] =
            LET s == IF k < length /\ Elem(k) = key THEN k + 1 ELSE k
            IN  IF s >= length THEN s - length ELSE s
      BY SMTT(30), <1>2, <1>3, <1>6, <2>1, <2>2, <2>4, <2>5 DEF Idx
    <2>8. NeighboursAreAdjacent'
      BY SMTT(30), <1>1, <1>4, <1>6, <1>8, <2>4, <2>6, <2>7 DEF NeighboursAreAdjacent
    <2> QED BY SMTT(30), <1>1, <1>11, <2>2, <2>3, <2>8
         DEF SearchInv, InsertIsSorted, SearchIsExact, Running
  <1> QED BY <1>1, <1>9, <1>10, <1>11 DEF Calls

\* The loop keeps its invariant.
LEMMA LoopKeeps == SearchInv /\ [SearchNext]_searchVars => SearchInv'
  <1> SUFFICES ASSUME SearchInv, [SearchNext]_searchVars PROVE SearchInv'
    OBVIOUS
  <1>1. CASE UNCHANGED searchVars
    BY <1>1 DEF searchVars, SearchInv, SearchTypeOK, Running, LoopInv, InsertIsSorted,
      SearchIsExact, NeighboursAreAdjacent, SplitsAt, length, Elem, Idx, Strict
  <1> QED BY SMTT(30), <1>1, NarrowingStep, FoundStep, LastStep DEF SearchNext

-----------------------------------------------------------------------------
\* The operation that waits: its search runs over the ring as it is, under the
\* condition the operation checked before it called.
OpOK ==
  /\ op \in [name : {"none", "add", "remove", "isPrev", "neighbours"}, p : Ids, q : Ids]
  /\ op.name # "none" => op.p \in Others /\ slice = succList /\ key = op.p
  /\ op.name = "add" => call = "insert" /\ op.p \notin peerToRing
  /\ op.name = "remove" => call = "search" /\ op.p \in peerToRing
  /\ op.name = "isPrev" =>
       /\ op.p # op.q
       /\ call = IF op.p \in peerToRing /\ op.q \in peerToRing THEN "search"
                 ELSE "findSuccAndPrev"
  /\ op.name = "neighbours" => call = "findSuccAndPrev" /\ Len(succList) > 1

RSInv == RingInv /\ SearchInv /\ OpOK

\* The list as the searches see it.
LEMMA ListIsSearched ==
  ASSUME RingInv
  PROVE  succList \in Seq(Nat) /\ Len(succList) > 0 /\ Strict(succList)
  <1>1. succList \in Seq(Ids) /\ Len(succList) > 0
    BY DEF RingInv, TypeOK
  <1>2. succList \in Seq(Nat)
    BY ZenonT(30), ListFacts, SeqDef
  <1> QED BY <1>1, <1>2 DEF RingInv, ListMatchesMap, Strict

\* insert returns the place Ring says it does ...
LEMMA InsertsThere ==
  ASSUME SearchInv, slice = succList, call = "insert", ~Running
  PROVE  InsertsAt(result[1], key)
  <1>1. SplitsAt(result[1])
    BY DEF SearchInv, InsertIsSorted
  <1>2. \A i \in 0..(length - 1) : Elem(i) \in Nat
    BY SliceFacts DEF SearchInv, Idx
  <1>3. length = Len(succList) /\ \A i \in 0..(length - 1) : Elem(i) = At(succList, i)
    BY DEF length, Elem, At
  <1>4. key \in Nat
    BY DEF SearchInv, SearchTypeOK
  <1> QED BY <1>1, <1>2, <1>3, <1>4 DEF SplitsAt, InsertsAt

\* ... search the index, when it finds one ...
LEMMA FindsThere ==
  ASSUME SearchInv, slice = succList, call = "search", ~Running, result[1] # NotFound
  PROVE  FoundAt(result[1], key)
  BY DEF SearchInv, SearchIsExact, FoundAt, length, Elem, At

\* ... which for a member it does ...
LEMMA FindsMember ==
  ASSUME RingInv, SearchInv, slice = succList, call = "search", ~Running,
         key \in peerToRing
  PROVE  result[1] # NotFound
  <1>1. PICK n \in Nat \ {0} : n = Len(succList)
    BY ZenonT(30), ListFacts
  <1>2. PICK j \in 1..n : succList[j] = key
    BY SMTT(30), <1>1, ListFacts
  <1>3. j - 1 \in 0..(length - 1) /\ Elem(j - 1) = key
    BY SMTT(30), <1>1, <1>2 DEF length, Elem
  <1> QED BY <1>3 DEF SearchInv, SearchIsExact

\* An id has one place.
LEMMA OnePlace ==
  ASSUME RingInv, NEW x \in Nat
  PROVE  /\ \A i, j : InsertsAt(i, x) /\ InsertsAt(j, x) => i = j
         /\ \A i, j : FoundAt(i, x) /\ FoundAt(j, x) => i = j
  <1>1. PICK n \in Nat \ {0} : n = Len(succList)
    BY ZenonT(30), ListFacts
  <1>2. PICK L : L = succList /\ L \in [1..n -> Nat] /\ Sorted(L, n)
    BY SMTT(30), <1>1, ListFacts
  <1>3. ASSUME NEW i, NEW j, InsertsAt(i, x), InsertsAt(j, x) PROVE i = j
    <2>1. i \in 0..n /\ j \in 0..n
          /\ \A m \in 0..(n - 1) : m < i <=> m < j
      BY SMTT(30), <1>1, <1>3 DEF InsertsAt
    <2> QED BY <2>1
  <1>4. ASSUME NEW i, NEW j, FoundAt(i, x), FoundAt(j, x) PROVE i = j
    <2>1. i \in 0..(n - 1) /\ j \in 0..(n - 1) /\ L[i + 1] = L[j + 1]
      BY SMTT(30), <1>1, <1>2, <1>4 DEF FoundAt, At
    <2> QED BY SMTT(30), <1>2, <2>1 DEF Sorted
  <1> QED BY SMTT(30), <1>3, <1>4

\* ... and findSuccAndPrev the two neighbours.
LEMMA NeighboursThere ==
  ASSUME RingInv, SearchInv, slice = succList, call = "findSuccAndPrev", ~Running
  PROVE  <<At(succList, result[1]), At(succList, result[2])>> = findSuccAndPrev(key)
  <1>1. PICK n \in Nat \ {0} : n = Len(succList)
    BY ZenonT(30), ListFacts
  <1>2. key \in Nat /\ length = n
    BY SMTT(30), <1>1 DEF SearchInv, SearchTypeOK, length
  <1>3. PICK k \in 0..n :
          /\ SplitsAt(k)
          /\ result[2] = (IF k = 0 THEN n - 1 ELSE k - 1)
          /\ LET s == IF k < n /\ Elem(k) = key THEN k + 1 ELSE k
             IN  result[1] = (IF s >= n THEN s - n ELSE s)
    BY <1>2 DEF SearchInv, NeighboursAreAdjacent
  <1>4. \A i \in 0..(n - 1) : Elem(i) \in Nat /\ Elem(i) = At(succList, i)
    BY SMTT(30), <1>2, SliceFacts DEF SearchInv, Idx, Elem, At
  <1>5. InsertsAt(k, key)
    BY SMTT(30), <1>1, <1>2, <1>3, <1>4 DEF SplitsAt, InsertsAt
  <1>6. k = CHOOSE i \in 0..Len(succList) : InsertsAt(i, key)
    BY SMTT(30), <1>1, <1>2, <1>5, OnePlace
  <1>7. PICK s \in 0..n : s = IF k < n /\ At(succList, k) = key THEN k + 1 ELSE k
    BY <1>1
  <1>8. result[1] = s % n
    <2>1. s = IF k < n /\ Elem(k) = key THEN k + 1 ELSE k
      BY SMTT(30), <1>4, <1>7
    <2>2. result[1] = (IF s >= n THEN s - n ELSE s)
      BY <1>3, <2>1
    <2>3. CASE s = n
      BY SMTT(30), <2>2, <2>3, Wraps
    <2>4. CASE s \in 0..(n - 1)
      BY SMTT(30), <2>2, <2>4, Wraps
    <2> QED BY <2>3, <2>4
  <1>9. result[2] = (k - 1 + n) % n
    <2>1. CASE k = 0
      <3>1. n - 1 \in 0..(n - 1) /\ k - 1 + n = n - 1
        BY <2>1
      <3>2. (n - 1) % n = n - 1
        BY <3>1, Wraps
      <3> QED BY SMTT(30), <1>3, <2>1, <3>1, <3>2
    <2>2. CASE k # 0
      <3>1. k - 1 \in 0..(n - 1) /\ k - 1 + n = n + (k - 1)
        BY <2>2
      <3>2. (n + (k - 1)) % n = k - 1
        BY <3>1, Wraps
      <3> QED BY SMTT(30), <1>3, <2>2, <3>1, <3>2
    <2> QED BY SMTT(30), <2>1, <2>2
  <1> QED BY SMTT(30), <1>1, <1>6, <1>7, <1>8, <1>9 DEF findSuccAndPrev

\* Every returned search brings its operation to Ring's answer.
LEMMA AnswersFollow == RSInv => AnswersAgree
  <1> SUFFICES ASSUME RSInv PROVE AnswersAgree
    OBVIOUS
  <1>0. RingInv /\ SearchInv /\ OpOK
    BY DEF RSInv
  <1>1. ASSUME Returned("isPrev") PROVE verdict <=> isPrev(op.p, op.q)
    <2>1. /\ op.p \in Others /\ op.p # self /\ op.p \in Nat /\ slice = succList
          /\ key = op.p /\ ~Running
          /\ call = IF op.p \in peerToRing /\ op.q \in peerToRing THEN "search"
                    ELSE "findSuccAndPrev"
      BY ZenonT(30), <1>0, <1>1, IdsAssumption DEF OpOK, Returned, Others
    <2>2. CASE op.p \in peerToRing /\ op.q \in peerToRing
      <3>1. call = "search" /\ result[1] # NotFound /\ FoundAt(result[1], op.p)
        BY <1>0, <2>1, <2>2, FindsMember, FindsThere
      <3>2. \A i : FoundAt(i, op.p) => i = result[1]
        BY SMTT(30), <1>0, <2>1, <3>1, OnePlace
      <3>3. result[1] \in 0..(Len(succList) - 1)
        BY <3>1 DEF FoundAt
      <3>4. verdict <=> prevAtIdx(succList, result[1]) = op.q
        BY <3>1 DEF verdict
      <3>5. isPrev(op.p, op.q) <=> \E i \in 0..(Len(succList) - 1) :
              FoundAt(i, op.p) /\ prevAtIdx(succList, i) = op.q
        BY <2>1, <2>2 DEF isPrev
      <3> QED BY <3>1, <3>2, <3>3, <3>4, <3>5
    <2>3. CASE ~(op.p \in peerToRing /\ op.q \in peerToRing)
      <3>1. call = "findSuccAndPrev"
        BY <2>1, <2>3
      <3>2. At(succList, result[2]) = findSuccAndPrev(op.p)[2]
        BY <1>0, <2>1, <3>1, NeighboursThere
      <3> QED BY <2>1, <2>3, <3>1, <3>2 DEF verdict, isPrev
    <2> QED BY <2>2, <2>3
  <1>2. ASSUME Returned("neighbours")
        PROVE  <<At(succList, result[1]), At(succList, result[2])>> = neighbours(op.p)
    <2>1. /\ slice = succList /\ key = op.p /\ ~Running
          /\ call = "findSuccAndPrev" /\ Len(succList) > 1
      BY <1>0, <1>2 DEF OpOK, Returned
    <2>2. <<At(succList, result[1]), At(succList, result[2])>> = findSuccAndPrev(op.p)
      BY <1>0, <2>1, NeighboursThere
    <2>3. ~(Len(succList) <= 1)
      BY <1>0, <2>1, ListFacts
    <2> QED BY <2>2, <2>3 DEF neighbours
  <1> QED BY <1>1, <1>2 DEF AnswersAgree

-----------------------------------------------------------------------------
\* Every step of a ring with its searches is a step of Ring, or none.
LEMMA RSStepIsRingStep == RSInv /\ [RSNext]_allVars => [Next]_vars
  <1> SUFFICES ASSUME RSInv, [RSNext]_allVars PROVE [Next]_vars
    OBVIOUS
  <1>0. RingInv /\ SearchInv /\ OpOK
    BY DEF RSInv
  <1>1. ASSUME NEW p \in Others,
               addCalls(p) \/ removeCalls(p) \/ neighboursCalls(p)
               \/ \E q \in Ids : isPrevCalls(p, q)
        PROVE  UNCHANGED vars
    BY <1>1 DEF addCalls, removeCalls, neighboursCalls, isPrevCalls, calls
  <1>2. ASSUME NEW p \in Others, rebutted(p) PROVE Next
    BY <1>2 DEF rebutted, Next
  <1>3. CASE addReturns
    <2>1. Returned("add") /\ addAt(op.p, result[1])
      BY <1>3 DEF addReturns
    <2>2. /\ op.p \in Others /\ op.p \notin peerToRing /\ slice = succList
          /\ key = op.p /\ call = "insert" /\ ~Running
      BY <1>0, <2>1 DEF OpOK, Returned
    <2>3. InsertsAt(result[1], op.p)
      BY <1>0, <2>2, InsertsThere
    <2>4. result[1] \in 0..Len(succList)
      BY <2>3 DEF InsertsAt
    <2>5. add(op.p)
      BY SMTT(30), <2>1, <2>2, <2>3, <2>4 DEF add
    <2> QED BY <2>2, <2>5 DEF Next
  <1>4. CASE removeReturns
    <2>1. Returned("remove") /\ result[1] # NotFound /\ removeAt(op.p, result[1])
      BY <1>4 DEF removeReturns
    <2>2. /\ op.p \in Others /\ op.p \in peerToRing /\ slice = succList
          /\ key = op.p /\ call = "search" /\ ~Running
      BY <1>0, <2>1 DEF OpOK, Returned
    <2>3. FoundAt(result[1], op.p)
      BY SMTT(30), <1>0, <2>1, <2>2, FindsThere
    <2>4. result[1] \in 0..(Len(succList) - 1)
      BY <2>3 DEF FoundAt
    <2>5. remove(op.p)
      BY <2>1, <2>2, <2>3, <2>4 DEF remove
    <2> QED BY <2>2, <2>5 DEF Next
  <1>5. CASE isPrevReturns
    <2>1. /\ Returned("isPrev")
          /\ acc' = IF verdict THEN [acc EXCEPT ![op.p] = op.q] ELSE acc
          /\ UNCHANGED <<succList, selfIdx, peerToRing>>
      BY <1>5 DEF isPrevReturns
    <2>2. op.p \in Others /\ op.q \in Ids /\ op.p # op.q
      BY SMTT(30), <1>0, <2>1 DEF OpOK, Returned
    <2>3. CASE verdict
      <3>1. isPrev(op.p, op.q)
        BY SMTT(30), <2>1, <2>3, AnswersFollow DEF AnswersAgree
      <3>2. accuse(op.p, op.q)
        BY <2>1, <2>2, <2>3, <3>1 DEF accuse
      <3> QED BY <2>2, <3>2 DEF Next
    <2>4. CASE ~verdict
      BY <2>1, <2>4 DEF vars
    <2> QED BY <2>3, <2>4
  <1>6. CASE neighboursReturns
    BY <1>6 DEF neighboursReturns
  <1>7. CASE SearchStep
    BY <1>7 DEF SearchStep
  <1>8. CASE UNCHANGED allVars
    BY <1>8 DEF allVars
  <1> QED BY SMTT(30), <1>1, <1>2, <1>3, <1>4, <1>5, <1>6, <1>7, <1>8 DEF RSNext

\* A call leaves an operation that waits for its search.
LEMMA CallKeeps ==
  ASSUME RSInv, NEW f \in Calls, NEW name \in {"add", "remove", "isPrev", "neighbours"},
         NEW p \in Others, NEW q \in Ids, calls(f, name, p, q),
         name = "add" => f = "insert" /\ p \notin peerToRing,
         name = "remove" => f = "search" /\ p \in peerToRing,
         name = "isPrev" => p # q /\ f = IF p \in peerToRing /\ q \in peerToRing
                                         THEN "search" ELSE "findSuccAndPrev",
         name = "neighbours" => f = "findSuccAndPrev" /\ Len(succList) > 1
  PROVE  SearchInv' /\ OpOK'
  <1>1. /\ op' = [name |-> name, p |-> p, q |-> q] /\ Begins(f, succList, p)
        /\ succList' = succList /\ peerToRing' = peerToRing
        /\ p \in Nat /\ p \in Ids
    BY SMTT(30), IdsAssumption DEF calls, vars, Others
  <1>2. SearchInv'
    BY SMTT(30), <1>1, ListIsSearched, CallBegins DEF RSInv
  <1>3. call' = f /\ slice' = succList /\ key' = p
    BY SMTT(30), <1>1 DEF Begins
  <1>4. op'.name = name /\ op'.p = p /\ op'.q = q
        /\ op' \in [name : {"none", "add", "remove", "isPrev", "neighbours"},
                    p : Ids, q : Ids]
    BY SMTT(30), <1>1
  <1>5. OpOK'
    BY SMTT(30), <1>1, <1>3, <1>4 DEF OpOK
  <1> QED BY SMTT(30), <1>2, <1>5

\* With no operation under way only the type of op matters.
LEMMA IdleKeeps ==
  ASSUME op' = NoOp
  PROVE  OpOK'
  BY SMTT(30), IdsAssumption DEF OpOK, NoOp

\* A new ring has no operation under way.
LEMMA RSStarts == RSInit => RSInv
  <1> SUFFICES ASSUME RSInit PROVE RSInv
    OBVIOUS
  <1>1. RingInv
    BY RingInit DEF RSInit
  <1>2. /\ call = "search" /\ slice = <<self>> /\ key = self /\ self \in Nat
        /\ currIdx = 0 /\ maxIdx = 0 /\ result = <<0>> /\ op = NoOp
    BY IdsAssumption DEF RSInit, newRing
  <1>3. length = 1 /\ slice \in Seq(Nat) /\ Strict(slice) /\ Elem(0) = self
    BY SMTT(30), <1>2 DEF length, Strict, Elem
  <1>4. SearchTypeOK
    BY SMTT(30), <1>2, <1>3 DEF SearchTypeOK, Calls
  <1>5. SearchInv
    BY SMTT(30), <1>2, <1>3, <1>4 DEF SearchInv, Running, InsertIsSorted, SearchIsExact,
      NeighboursAreAdjacent, NotFound
  <1>6. OpOK
    BY SMTT(30), <1>2, IdsAssumption DEF OpOK, NoOp
  <1> QED BY <1>1, <1>5, <1>6 DEF RSInv

\* Every step keeps the invariant of the composition.
LEMMA RSKeeps == RSInv /\ [RSNext]_allVars => RSInv'
  <1> SUFFICES ASSUME RSInv, [RSNext]_allVars PROVE RSInv'
    OBVIOUS
  <1>0. RingInv /\ SearchInv /\ OpOK
    BY DEF RSInv
  <1>1. RingInv'
    BY SMTT(30), <1>0, RSStepIsRingStep, RingStep
  <1>2. ASSUME NEW p \in Others,
               addCalls(p) \/ removeCalls(p) \/ neighboursCalls(p)
               \/ \E q \in Ids : isPrevCalls(p, q)
        PROVE  SearchInv' /\ OpOK'
    <2>1. self \in Ids
      BY SMTT(30), IdsAssumption
    <2>2. CASE addCalls(p)
      BY SMTT(30), <2>1, <2>2, CallKeeps DEF addCalls, Calls
    <2>3. CASE removeCalls(p)
      BY SMTT(30), <2>1, <2>3, CallKeeps DEF removeCalls, Calls
    <2>4. CASE neighboursCalls(p)
      BY SMTT(30), <2>1, <2>4, CallKeeps DEF neighboursCalls, Calls
    <2>5. ASSUME NEW q \in Ids, isPrevCalls(p, q) PROVE SearchInv' /\ OpOK'
      <3>1. PICK f \in Calls : f = IF p \in peerToRing /\ q \in peerToRing
                                   THEN "search" ELSE "findSuccAndPrev"
        BY DEF Calls
      <3>2. p # q /\ calls(f, "isPrev", p, q)
        BY SMTT(30), <2>5, <3>1 DEF isPrevCalls
      <3> QED BY SMTT(30), <3>1, <3>2, CallKeeps
    <2> QED BY SMTT(30), <1>2, <2>2, <2>3, <2>4, <2>5
  <1>3. ASSUME addReturns \/ removeReturns \/ isPrevReturns \/ neighboursReturns
        PROVE  SearchInv' /\ OpOK'
    <2>1. op' = NoOp /\ UNCHANGED searchVars
      BY <1>3 DEF addReturns, removeReturns, isPrevReturns, neighboursReturns, returns
    <2> QED BY SMTT(30), <1>0, <2>1, LoopKeeps, IdleKeeps
  <1>4. ASSUME NEW p \in Others, rebutted(p) PROVE SearchInv' /\ OpOK'
    <2>1. op' = NoOp /\ UNCHANGED searchVars
      BY <1>4 DEF rebutted
    <2> QED BY SMTT(30), <1>0, <2>1, LoopKeeps, IdleKeeps
  <1>5. CASE SearchStep
    <2>1. SearchNext /\ UNCHANGED <<call, slice, key>> /\ UNCHANGED <<vars, op>>
      BY ZenonT(30), <1>5 DEF SearchStep, SearchNext, GoRight, GoLeft, FoundMid, Last
    <2>2. SearchInv'
      BY SMTT(30), <1>0, <2>1, LoopKeeps
    <2>3. OpOK'
      BY SMTT(30), <1>0, <2>1 DEF OpOK, vars
    <2> QED BY SMTT(30), <1>1, <2>2, <2>3 DEF RSInv
  <1>6. CASE UNCHANGED allVars
    <2>1. UNCHANGED searchVars /\ UNCHANGED <<vars, op>>
      BY <1>6 DEF allVars
    <2>2. SearchInv'
      BY SMTT(30), <1>0, <2>1, LoopKeeps
    <2>3. OpOK'
      BY SMTT(30), <1>0, <2>1 DEF OpOK, vars, searchVars
    <2> QED BY <1>1, <2>2, <2>3 DEF RSInv
  <1>7. CASE SearchInv' /\ OpOK'
    BY <1>1, <1>7 DEF RSInv
  <1> QED BY SMTT(30), <1>2, <1>3, <1>4, <1>5, <1>6, <1>7 DEF RSNext

\* The invariant of the composition: the ring's, the loop's, and what the
\* waiting operation knows.
THEOREM RSInvariant == RSSpec => []RSInv
  BY RSStarts, RSKeeps, PTL DEF RSSpec

\* A ring whose operations go where the binary searches point does what Ring
\* says: every property of Ring is one of the code's rings.
THEOREM SearchesImplementRing == RSSpec => ImplementsRing
  <1>1. RSInit => newRing
    BY DEF RSInit
  <1> QED BY <1>1, RSStepIsRingStep, RSInvariant, PTL DEF RSSpec, ImplementsRing, Spec

\* isPrev and neighbours, computed through the searches, give Ring's answers.
THEOREM AnswersCorrect == RSSpec => []AnswersAgree
  BY AnswersFollow, RSInvariant, PTL

\* insert keeps every ring's list sorted.
THEOREM InsertCorrect == RSSpec => []InsertIsSorted
  <1>1. RSInv => InsertIsSorted
    BY DEF RSInv, SearchInv
  <1> QED BY <1>1, RSInvariant, PTL

\* search finds an id exactly when the list holds it, and every element the
\* loop reads is inside the list, whatever its length.
THEOREM SearchCorrect == RSSpec => [](SearchIsExact /\ SearchTypeOK)
  <1>1. RSInv => SearchIsExact /\ SearchTypeOK
    BY DEF RSInv, SearchInv
  <1> QED BY <1>1, RSInvariant, PTL

\* findSuccAndPrev returns the two ids around the key on the circle.
THEOREM NeighboursFound == RSSpec => []NeighboursAreAdjacent
  <1>1. RSInv => NeighboursAreAdjacent
    BY DEF RSInv, SearchInv
  <1> QED BY <1>1, RSInvariant, PTL
\* left: the elements the loop has not excluded yet.
left == maxIdx - currIdx + 1

\* A round of the loop leaves at most half of the elements: each comparison
\* excludes the middle and one side of it.
LEMMA RoundHalves ==
  ASSUME NEW lo \in Int, NEW hi \in Int, lo < hi, NEW m, m = (lo + hi) \div 2
  PROVE  2 * (hi - (m + 1) + 1) <= hi - lo + 1 /\ 2 * (m - 1 - lo + 1) <= hi - lo + 1
  OBVIOUS

\* Every round of insert, search and findSuccAndPrev returns or halves the
\* range, whatever the list: the measure on which their termination rests, and
\* the reason they take no more rounds than the length has binary digits.
THEOREM SearchesHalve == RSSpec => [][SearchStep => ~Running' \/ 2 * left' <= left]_allVars
  <1>1. ASSUME RSInv, SearchStep, Running' PROVE 2 * left' <= left
    <2>1. currIdx \in Int /\ maxIdx \in Int
      BY <1>1, SliceFacts DEF RSInv, SearchInv, SearchTypeOK
    <2>2. CASE GoRight
      <3>1. currIdx < maxIdx /\ currIdx' = mid + 1 /\ maxIdx' = maxIdx
        BY <2>2 DEF GoRight
      <3> QED BY <2>1, <3>1, RoundHalves DEF left, mid
    <2>3. CASE GoLeft
      <3>1. currIdx < maxIdx /\ currIdx' = currIdx /\ maxIdx' = mid - 1
        BY <2>3 DEF GoLeft
      <3> QED BY <2>1, <3>1, RoundHalves DEF left, mid
    <2>4. CASE FoundMid
      BY <1>1, <2>4 DEF FoundMid, Running
    <2>5. CASE Last
      BY <1>1, <2>5 DEF Last, Running, Calls, RSInv, SearchInv, SearchTypeOK, lastInsert,
        lastSearch, lastNeighbours
    <2> QED BY <1>1, <2>2, <2>3, <2>4, <2>5 DEF SearchStep, SearchNext
  <1>2. RSInv /\ [RSNext]_allVars => [SearchStep => ~Running' \/ 2 * left' <= left]_allVars
    BY <1>1
  <1> QED BY <1>2, RSInvariant, PTL DEF RSSpec
=============================================================================
