--------------------------- MODULE OwnNoteProofs ---------------------------
(***************************************************************************)
(* The note a node publishes about itself is right for every number of     *)
(* rings that fits the mask.  The inductive invariant adds to              *)
(* CounterIsExact that every published mask is a set of rings of which at  *)
(* most maxByz are missing: validity and overlap follow by counting.       *)
(***************************************************************************)
EXTENDS OwnNote, FiniteSetTheorems, WellFoundedInduction, TLAPS

\* A mask that leaves at most maxByz rings out.
GoodMask(m) == m \subseteq Rings /\ Cardinality(Rings \ m) <= maxByz

OwnInv ==
  /\ OwnTypeOK
  /\ CounterIsExact
  /\ \A m \in published : GoodMask(m)

-----------------------------------------------------------------------------
\* Fewer than half of the rings may be off (NewView's maxByz).
LEMMA MaxByzBound == maxByz \in Nat /\ 2 * maxByz < NumRings
  BY NumRingsAssumption DEF maxByz

\* Counting the rings that are on and off in a mask.
LEMMA MaskCardinality ==
  ASSUME NEW m, m \subseteq Rings
  PROVE  /\ IsFiniteSet(Rings) /\ Cardinality(Rings) = NumRings
         /\ IsFiniteSet(m) /\ Cardinality(m) \in Nat
         /\ IsFiniteSet(Rings \ m) /\ Cardinality(Rings \ m) \in Nat
         /\ Cardinality(Rings \ m) = NumRings - Cardinality(m)
  <1>1. IsFiniteSet(Rings) /\ Cardinality(Rings) = NumRings
    BY NumRingsAssumption, FS_Interval DEF Rings
  <1>2. IsFiniteSet(m) /\ Cardinality(m) \in Nat
    BY <1>1, FS_Subset, FS_CardinalityType
  <1>3. IsFiniteSet(Rings \ m)
        /\ Cardinality(Rings \ m) = Cardinality(Rings) - Cardinality(Rings \cap m)
    BY <1>1, FS_Difference
  <1>4. Rings \cap m = m
    OBVIOUS
  <1>5. Cardinality(Rings \ m) \in Nat
    BY <1>3, FS_CardinalityType
  <1> QED BY <1>1, <1>2, <1>3, <1>4, <1>5

\* The loop of deactivateRing finds a ring that is off whenever there is one.
LEMMA RingToEnableIsOff ==
  ASSUME NEW m, NEW r, {i \in Rings : i # r /\ ~hasBit(m, i)} # {}
  PROVE  ringToEnable(m, r) \in {i \in Rings : i # r /\ ~hasBit(m, i)}
  <1> DEFINE off == {i \in Rings : i # r /\ ~hasBit(m, i)}
  <1>1. off \subseteq Nat /\ off # {}
    BY NumRingsAssumption DEF Rings
  <1> DEFINE less == {ss \in Nat \X Nat : ss[1] < ss[2]}
  <1>0. less = OpToRel(<, Nat)
    BY DEF OpToRel
  <1>2. PICK x \in off : \A y \in off : ~ (<<y, x>> \in less)
    BY ZenonT(30), <1>1, <1>0, NatLessThanWellFounded, WFMin
  <1>3. ASSUME NEW y \in off PROVE x <= y
    <2>1. x \in Nat /\ y \in Nat
      BY <1>1
    <2>2. <<y, x>> \in less <=> y < x
      BY <2>1
    <2> QED BY <1>2, <2>1, <2>2
  <1>4. (CHOOSE i \in off : \A j \in off : i <= j) \in off
    BY <1>3
  <1> QED BY <1>1, <1>4 DEF ringToEnable

\* What a rebuttal does to the mask: the accused ring goes off and, when the
\* quota is used up, exactly one other ring comes back on.
LEMMA DeactivateRing ==
  ASSUME NEW m, m \subseteq Rings, NEW n, n = Cardinality(Rings \ m),
         n <= maxByz, NEW r, deactivates(m, r)
  PROVE  /\ deactivateRing(m, n, r) \subseteq Rings
         /\ Cardinality(Rings \ deactivateRing(m, n, r)) =
              IF n # maxByz THEN n + 1 ELSE n
  <1>1. IsFiniteSet(Rings \ m) /\ n \in Nat /\ maxByz \in Nat /\ maxByz # 0
        /\ r \in Rings /\ r \in m
    BY ZenonT(30), MaskCardinality, MaxByzBound DEF deactivates, hasBit
  <1>2. CASE n # maxByz
    <2>1. deactivateRing(m, n, r) = m \ {r}
      BY <1>2 DEF deactivateRing, clearBit
    <2>2. Rings \ (m \ {r}) = (Rings \ m) \cup {r}
      BY <1>1
    <2>3. Cardinality((Rings \ m) \cup {r}) = n + 1
      BY ZenonT(30), <1>1, FS_AddElement
    <2> QED BY <1>2, <2>1, <2>2, <2>3
  <1>3. CASE n = maxByz
    <2> DEFINE k == ringToEnable(m, r)
               off == {i \in Rings : i # r /\ ~hasBit(m, i)}
               rest == (Rings \ m) \ {k}
    <2>1. Rings \ m # {}
      BY ZenonT(30), <1>1, <1>3, FS_EmptySet
    <2>2. off # {}
      BY <1>1, <2>1 DEF hasBit
    <2>3. k \in Rings /\ k # r /\ k \notin m
      BY <2>2, RingToEnableIsOff DEF hasBit
    <2>4. k <= WordSize
      BY <2>3, NumRingsAssumption, WordSizeAssumption DEF Rings
    <2>5. deactivateRing(m, n, r) = (m \cup {k}) \ {r}
      BY <1>3, <2>4 DEF deactivateRing, clearBit, setBit
    <2>6. Rings \ ((m \cup {k}) \ {r}) = rest \cup {r}
      BY <1>1, <2>3
    <2>7. IsFiniteSet(rest) /\ Cardinality(rest) = n - 1
      BY ZenonT(30), <1>1, <2>3, FS_RemoveElement
    <2>8. r \notin rest
      BY <1>1
    <2> HIDE DEF rest
    <2>9. Cardinality(rest \cup {r}) = Cardinality(rest) + 1
      BY <2>7, <2>8, FS_AddElement
    <2>10. Cardinality(rest \cup {r}) = n
      BY <1>1, <2>7, <2>9
    <2>11. deactivateRing(m, n, r) \subseteq Rings
      BY <2>3, <2>5
    <2>12. Rings \ deactivateRing(m, n, r) = rest \cup {r}
      BY <2>5, <2>6
    <2> QED BY ZenonT(30), <1>3, <2>10, <2>11, <2>12
  <1> QED BY <1>2, <1>3

\* Masks that leave at most maxByz rings out are valid and overlap.
LEMMA GoodMasks ==
  ASSUME NEW m1, NEW m2, GoodMask(m1), GoodMask(m2)
  PROVE  validMask(m1) /\ \E r \in Rings : hasBit(m1, r) /\ hasBit(m2, r)
  <1>1. /\ IsFiniteSet(Rings) /\ Cardinality(Rings) = NumRings
        /\ Cardinality(m1) \in Nat /\ NumRings - Cardinality(m1) <= maxByz
        /\ Cardinality(m2) \in Nat /\ NumRings - Cardinality(m2) <= maxByz
    BY MaskCardinality DEF GoodMask
  <1>2. Cardinality(m1) + Cardinality(m2) > Cardinality(Rings)
    BY <1>1, MaxByzBound, NumRingsAssumption
  <1>3. m1 \cap m2 # {}
    BY <1>1, <1>2, FS_MajoritiesIntersect DEF GoodMask
  <1> QED BY <1>1, <1>3 DEF validMask, hasBit, GoodMask

-----------------------------------------------------------------------------
\* NewView's first note satisfies the invariant.
LEMMA OwnInit == NewView => OwnInv
  <1> SUFFICES ASSUME NewView PROVE OwnInv
    OBVIOUS
  <1>1. Rings \ Rings = {} /\ Cardinality({}) = 0
    BY FS_EmptySet
  <1>2. Rings \subseteq 1..WordSize
    BY NumRingsAssumption, WordSizeAssumption DEF Rings
  <1>3. maxByz \in Nat
    BY MaxByzBound
  <1>4. OwnTypeOK
    BY <1>2, <1>3, MaxEpochAssumption DEF NewView, OwnTypeOK
  <1> QED BY <1>1, <1>3, <1>4 DEF NewView, OwnInv, CounterIsExact, GoodMask

\* A rebuttal, accepted or refused, preserves the invariant, and the number of
\* rings that are off does not shrink.
LEMMA OwnStep ==
  ASSUME OwnInv, [OwnNext]_ownVars
  PROVE  /\ OwnInv'
         /\ epoch' \in {epoch, epoch + 1}
         /\ epoch' = epoch => mask' = mask
         /\ Cardinality(Rings \ mask) <= Cardinality(Rings \ mask')
  <1>1. /\ mask \subseteq Rings /\ deactivatedRings = Cardinality(Rings \ mask)
        /\ deactivatedRings <= maxByz /\ deactivatedRings \in Nat
        /\ maxByz \in Nat /\ epoch \in Nat
    BY MaxByzBound DEF OwnInv, CounterIsExact, OwnTypeOK
  <1>2. ASSUME NEW e \in 1..MaxEpoch, NEW r \in AccusedRings, ShouldRebuttal(e, r)
        PROVE  /\ mask' \subseteq Rings
               /\ deactivatedRings' = Cardinality(Rings \ mask')
               /\ deactivatedRings' <= maxByz /\ deactivatedRings' \in Nat
               /\ deactivatedRings <= deactivatedRings'
    <2>1. CASE deactivates(mask, r)
      <3> DEFINE m2 == deactivateRing(mask, deactivatedRings, r)
      <3>1. /\ m2 \subseteq Rings
            /\ Cardinality(Rings \ m2) = IF deactivatedRings # maxByz
                 THEN deactivatedRings + 1 ELSE deactivatedRings
        BY <1>1, <2>1, DeactivateRing
      <3>2. /\ mask' = m2
            /\ deactivatedRings' = IF deactivatedRings # maxByz
                 THEN deactivatedRings + 1 ELSE deactivatedRings
        BY <1>2, <2>1 DEF ShouldRebuttal
      <3> HIDE DEF m2
      <3> QED BY <1>1, <3>1, <3>2
    <2>2. CASE ~deactivates(mask, r)
      BY <1>1, <1>2, <2>2 DEF ShouldRebuttal
    <2> QED BY <2>1, <2>2
  <1>3. ASSUME NEW e \in 1..MaxEpoch, NEW r \in AccusedRings, ShouldRebuttal(e, r)
        PROVE  OwnInv'
    <2>1. /\ mask' \subseteq Rings
          /\ deactivatedRings' = Cardinality(Rings \ mask')
          /\ deactivatedRings' <= maxByz /\ deactivatedRings' \in Nat
      BY <1>2, <1>3
    <2>2. mask' \subseteq 1..WordSize
      BY <2>1, NumRingsAssumption, WordSizeAssumption DEF Rings
    <2>3. epoch' \in 1..MaxEpoch
      BY <1>3, MaxEpochAssumption DEF ShouldRebuttal, OwnInv, OwnTypeOK
    <2>4. published' = published \cup {mask'}
      BY <1>3 DEF ShouldRebuttal
    <2>5. OwnTypeOK'
      BY <1>1, <2>1, <2>2, <2>3, <2>4 DEF OwnTypeOK, OwnInv
    <2>6. GoodMask(mask')
      BY <2>1 DEF GoodMask
    <2>7. \A m \in published' : GoodMask(m)
      BY <2>4, <2>6 DEF OwnInv
    <2>8. CounterIsExact'
      BY <2>1 DEF CounterIsExact
    <2> QED BY <2>5, <2>7, <2>8 DEF OwnInv, GoodMask
  <1>4. CASE UNCHANGED ownVars
    BY <1>1, <1>4 DEF OwnInv, OwnTypeOK, CounterIsExact, GoodMask, ownVars
  <1>5. CASE OwnNext
    <2>1. PICK e \in 1..MaxEpoch, r \in AccusedRings :
            ShouldRebuttal(e, r) \/ InvalidSelfAccusation(e, r)
      BY <1>5 DEF OwnNext
    <2>2. CASE ShouldRebuttal(e, r)
      <3>1. OwnInv'
        BY <1>3, <2>2
      <3>2. /\ deactivatedRings' = Cardinality(Rings \ mask')
            /\ deactivatedRings <= deactivatedRings'
        BY <1>2, <2>2
      <3>3. epoch' = epoch + 1
        BY <2>2 DEF ShouldRebuttal
      <3> QED BY <1>1, <3>1, <3>2, <3>3
    <2>3. CASE InvalidSelfAccusation(e, r)
      BY <1>4, <2>3 DEF InvalidSelfAccusation
    <2> QED BY <2>1, <2>2, <2>3
  <1> QED BY <1>4, <1>5

\* The invariant holds in every state of the own note's life.
THEOREM OwnInvariant == OwnSpec => []OwnInv
  <1>1. OwnInv /\ [OwnNext]_ownVars => OwnInv'
    BY OwnStep
  <1> QED BY <1>1, OwnInit, PTL DEF OwnSpec

\* Type correctness of the note and the counter.
THEOREM OwnTypeCorrect == OwnSpec => []OwnTypeOK
  <1>1. OwnInv => OwnTypeOK
    BY DEF OwnInv
  <1> QED BY <1>1, OwnInvariant, PTL

\* For every number of rings, View.deactivatedRings counts the rings that are
\* off and deactivateRing never sets a bit that stands for no ring.
THEOREM CounterCorrect == OwnSpec => []CounterIsExact
  <1>1. OwnInv => CounterIsExact
    BY DEF OwnInv
  <1> QED BY <1>1, OwnInvariant, PTL

\* For every number of rings, no receiver refuses a rebuttal for its mask.
THEOREM NotesValid == OwnSpec => []PublishedNotesAreValid
  <1>1. OwnInv => PublishedNotesAreValid
    BY GoodMasks DEF OwnInv, PublishedNotesAreValid
  <1> QED BY <1>1, OwnInvariant, PTL

\* For every number of rings, any two notes of the owner have a ring on which
\* both accept accusations.
THEOREM NotesOverlap == OwnSpec => []PublishedNotesOverlap
  <1>1. OwnInv => PublishedNotesOverlap
    BY GoodMasks DEF OwnInv, PublishedNotesOverlap
  <1> QED BY <1>1, OwnInvariant, PTL

\* For every number of rings, a rebuttal never gives protection back.
THEOREM ProtectionKept == OwnSpec => ProtectionNeverShrinks
  <1>1. OwnInv /\ [OwnNext]_ownVars =>
          [/\ epoch' \in {epoch, epoch + 1}
           /\ epoch' = epoch => mask' = mask
           /\ Cardinality(Rings \ mask) <= Cardinality(Rings \ mask')]_ownVars
    BY OwnStep
  <1> QED BY <1>1, OwnInvariant, PTL DEF OwnSpec, ProtectionNeverShrinks
=============================================================================
