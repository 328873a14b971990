-------------------------------- MODULE Ring --------------------------------
(***************************************************************************)
(* One ring of the view (src/core/discovery/ring.go): the sorted list of   *)
(* its live members, the index of the node itself in that list, and the    *)
(* accusation every peer holds on this ring.                               *)
(*                                                                         *)
(* The three binary searches the ring calls are modelled in module Search; *)
(* here they are what they return, and RingSearch, which calls them, is    *)
(* shown to implement this module.  List indices count from 0, as in the   *)
(* code.                                                                   *)
(***************************************************************************)
EXTENDS RingOrder, Sequences

CONSTANTS Ids,   \* the hashes of all peers on this ring
          self,  \* the hash of the node the ring belongs to
          None   \* no accusation

ASSUME IdsAssumption == Ids \subseteq Nat /\ IsFiniteSet(Ids) /\ self \in Ids
ASSUME NoneAssumption == None \notin Ids

VARIABLES succList,    \* the members, sorted by hash
          selfIdx,     \* where the node itself is
          peerToRing,  \* the members, as the domain of the code's map
          acc          \* accuser of each other peer on this ring

vars == <<succList, selfIdx, peerToRing, acc>>

Others == Ids \ {self}

At(list, i) == list[i + 1]

succAtIdx(list, i) == At(list, (i + 1) % Len(list))
prevAtIdx(list, i) ==
  At(list, IF i - 1 < 0 THEN i - 1 + Len(list) ELSE (i - 1) % Len(list))

successor == succAtIdx(succList, selfIdx)
predecessor == prevAtIdx(succList, selfIdx)

\* What insert of search.go returns: the first place not below x.
InsertsAt(i, x) ==
  /\ i \in 0..Len(succList)
  /\ \A j \in 0..(Len(succList) - 1) : At(succList, j) < x <=> j < i

\* What search of search.go returns for a member x.
FoundAt(i, x) == i \in 0..(Len(succList) - 1) /\ At(succList, i) = x

\* append(s[:i], append([]*ringId{e}, s[i:]...)...), i counted from 1
spliceIn(s, i, e) == SubSeq(s, 1, i - 1) \o <<e>> \o SubSeq(s, i, Len(s))

\* append(s[:i], s[i+1:]...)
spliceOut(s, i) == SubSeq(s, 1, i - 1) \o SubSeq(s, i + 1, Len(s))

newRing ==
  /\ succList = <<self>>
  /\ selfIdx = 0
  /\ peerToRing = {self}
  /\ acc = [p \in Others |-> None]

\* Mutant of selfIdxAfterAdd: a member put right before the node does not
\* move it.
selfIdxAfterAddLate(idx) == IF idx < selfIdx THEN selfIdx + 1 ELSE selfIdx

selfIdxAfterAdd(idx) == IF idx <= selfIdx THEN selfIdx + 1 ELSE selfIdx

\* Mutant of accAfterAdd: the accusation is left where it is.
accAfterAddKept(list, idx) == acc

\* The accusation of the new member's successor by its predecessor goes; the
\* node itself never holds one.
accAfterAdd(list, idx) ==
  LET s == succAtIdx(list, idx)
      p == prevAtIdx(list, idx)
  IN  IF s \in Others /\ acc[s] = p THEN [acc EXCEPT ![s] = None] ELSE acc

\* Mutant of addAt: the member is appended, whatever its hash.
addAtEnd(p, idx) ==
  /\ succList' = Append(succList, p)
  /\ peerToRing' = peerToRing \cup {p}
  /\ UNCHANGED <<selfIdx, acc>>

\* The rest of add, once insert has found the place.
addAt(p, idx) ==
  /\ succList' = spliceIn(succList, idx + 1, p)
  /\ selfIdx' = selfIdxAfterAdd(idx)
  /\ peerToRing' = peerToRing \cup {p}
  /\ acc' = accAfterAdd(succList', idx)

\* A peer that is already in the ring is only logged.
add(p) ==
  /\ p \notin peerToRing
  /\ \E idx \in 0..Len(succList) : InsertsAt(idx, p) /\ addAt(p, idx)

\* The rest of remove, once search has found p.  The index of the node itself
\* refuses its removal (errRemoveSelf).
removeAt(p, idx) ==
  /\ idx # selfIdx
  /\ selfIdx' = IF idx < selfIdx THEN selfIdx - 1 ELSE selfIdx
  /\ succList' = spliceOut(succList, idx + 1)
  /\ peerToRing' = peerToRing \ {p}
  /\ UNCHANGED acc

remove(p) ==
  /\ p \in peerToRing
  /\ \E idx \in 0..(Len(succList) - 1) : FoundAt(idx, p) /\ removeAt(p, idx)

-----------------------------------------------------------------------------
\* What findSuccAndPrev of search.go returns: the ids next to x on the list.
findSuccAndPrev(x) ==
  LET k == CHOOSE i \in 0..Len(succList) : InsertsAt(i, x)
      s == IF k < Len(succList) /\ At(succList, k) = x THEN k + 1 ELSE k
  IN  <<At(succList, s % Len(succList)),
        At(succList, (k - 1 + Len(succList)) % Len(succList))>>

\* Mutant of isBetween: the arc that wraps at the top is not handled.
isBetweenNoWrap(start, end, new) ==
  new \in {start, end} \/ start = end \/ (start < new /\ new < end)

isBetween(start, end, new) ==
  \/ new \in {start, end}
  \/ start = end
  \/ start < end /\ start < new /\ new < end
  \/ start > end /\ (new < end \/ new > start)

\* May q accuse p?  Both, one or neither of them may be in the ring.
isPrev(p, q) ==
  IF p \in peerToRing /\ q \in peerToRing
  THEN IF p # self
       THEN \E i \in 0..(Len(succList) - 1) :
              FoundAt(i, p) /\ prevAtIdx(succList, i) = q
       ELSE predecessor = q
  ELSE IF p = self THEN isBetween(predecessor, p, q)
       ELSE isBetween(findSuccAndPrev(p)[2], p, q)

betweenNeighbours(other) ==
  \/ Len(succList) <= 1
  \/ isBetween(self, successor, other)
  \/ isBetween(predecessor, self, other)

neighbours(id) ==
  IF Len(succList) <= 1 THEN <<self, self>> ELSE findSuccAndPrev(id)

-----------------------------------------------------------------------------
\* evalAccusation and Monitor store an accusation by q only when the ring
\* accepts q; no peer accuses itself.
accuse(p, q) ==
  /\ p # q
  /\ isPrev(p, q)
  /\ acc' = [acc EXCEPT ![p] = q]
  /\ UNCHANGED <<succList, selfIdx, peerToRing>>

\* evalNote drops the accusation.
rebut(p) ==
  /\ acc[p] # None
  /\ acc' = [acc EXCEPT ![p] = None]
  /\ UNCHANGED <<succList, selfIdx, peerToRing>>

Next ==
  \E p \in Others :
    \/ add(p)
    \/ remove(p)
    \/ rebut(p)
    \/ \E q \in Ids : accuse(p, q)

Spec == newRing /\ [][Next]_vars

-----------------------------------------------------------------------------
\* Types: the list is never empty and the index stays inside it.
TypeOK ==
  /\ succList \in Seq(Ids) /\ Len(succList) > 0
  /\ selfIdx \in 0..(Len(succList) - 1)
  /\ peerToRing \subseteq Ids
  /\ acc \in [Others -> Ids \cup {None}]

\* The list and the map stay two views of one set, the list in order: search
\* finds every member the map names.
ListMatchesMap ==
  /\ Range(succList) = peerToRing
  /\ \A i, j \in 1..Len(succList) : i < j => succList[i] < succList[j]

\* The index kept through every insertion and removal is the node's own: the
\* checks in add and remove that log errLostSelf never fire.
SelfTracked == At(succList, selfIdx) = self

\* The list's neighbours are the circle's, for the node itself and for any
\* peer, in the ring or not.
NeighboursAreNearest ==
  /\ successor = SuccIn(peerToRing, self)
  /\ predecessor = PrevIn(peerToRing, self)
  /\ \A id \in Others :
       neighbours(id) = <<SuccIn(peerToRing, id), PrevIn(peerToRing, id)>>

\* Spread accepts gossip from exactly the peers that would be told to gossip
\* with this node: betweenNeighbours agrees with neighbours.
AcceptsItsNeighbours ==
  \A id \in Others :
    betweenNeighbours(id) <=> self \in {neighbours(id)[1], neighbours(id)[2]}

\* The list implements the circle: members come and go as asked, an accuser
\* is accepted exactly when no member lies between it and the accused, and
\* the accusation a new member cuts off is dropped, no other.
Abs == INSTANCE RingSet WITH members <- peerToRing
ImplementsRingSet == Abs!Spec
=============================================================================
