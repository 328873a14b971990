------------------------------ MODULE OwnNote ------------------------------
(***************************************************************************)
(* The note a node publishes about itself (src/core/discovery/view.go).    *)
(*                                                                         *)
(* A note carries an epoch and a mask of the rings on which its owner may  *)
(* be accused.  A valid accusation about the current epoch makes the owner *)
(* publish a rebuttal: a note with the next epoch in which the accusing    *)
(* ring is switched off.  At most maxByz rings may be off, so once the     *)
(* quota is used the lowest ring that is off is switched on again.         *)
(*                                                                         *)
(* The uint32 mask is the set of the rings whose bit is set: bit i of the  *)
(* code is ring i + 1, and a bit beyond the word does not exist.           *)
(* ShouldRebuttal runs under self.noteMutex, so it is one step.            *)
(***************************************************************************)
EXTENDS Integers, FiniteSets

CONSTANTS NumRings,   \* rings.numRings
          WordSize,   \* bits of the mask: 32 in the code
          MaxEpoch    \* bound: the last epoch the model explores

ASSUME NumRingsAssumption == NumRings \in Nat \ {0}
ASSUME WordSizeAssumption == WordSize \in Nat /\ NumRings <= WordSize
ASSUME MaxEpochAssumption == MaxEpoch \in Nat \ {0}

VARIABLES epoch,             \* self.note.epoch
          mask,              \* self.note.mask
          deactivatedRings,  \* View.deactivatedRings
          published          \* the masks of all the notes handed out so far

ownVars == <<epoch, mask, deactivatedRings, published>>

Rings == 1..NumRings

\* uint32((numRings / 2.0) - 1), a negative value being clamped to 0.
maxByz == IF NumRings < 2 THEN 0 ELSE (NumRings - 2) \div 2

setBit(m, r) == IF r <= WordSize THEN m \cup {r} ELSE m
clearBit(m, r) == m \ {r}
hasBit(m, r) == r \in m

\* All 32 bits are counted, whatever ring they stand for.
validMask(m) == NumRings - Cardinality(m) <= maxByz

IsRingDisabled(m, r) == r \in Rings /\ ~hasBit(m, r)

-----------------------------------------------------------------------------
(***************************************************************************)
(* deactivateRing.  The accused ring number comes from the wire: 0 wraps   *)
(* to the largest uint32 and is refused like any number beyond numRings.   *)
(***************************************************************************)
\* Mutant of deactivates: the test for a ring that is already off is dropped.
deactivatesAgain(m, r) == maxByz # 0 /\ r \in Rings

deactivates(m, r) == maxByz # 0 /\ r \in Rings /\ hasBit(m, r)

\* The loop over idx: the lowest other ring that is off.  When there is none
\* the loop runs out and idx is one past the last ring.
ringToEnable(m, r) ==
  LET off == {i \in Rings : i # r /\ ~hasBit(m, i)}
  IN  IF off = {} THEN NumRings + 1
                  ELSE CHOOSE i \in off : \A j \in off : i <= j

\* Mutant of deactivateRing: the quota is tested off by one.
deactivateRingLate(m, n, r) ==
  clearBit(IF n > maxByz THEN setBit(m, ringToEnable(m, r)) ELSE m, r)

deactivateRing(m, n, r) ==
  clearBit(IF n = maxByz THEN setBit(m, ringToEnable(m, r)) ELSE m, r)

-----------------------------------------------------------------------------
\* NewView: the first note has epoch 1 and every ring switched on.
NewView ==
  /\ epoch = 1
  /\ mask = Rings
  /\ deactivatedRings = 0
  /\ published = {Rings}

\* Mutant of ShouldRebuttal: the counter is not maintained.
ShouldRebuttalNoCount(e, r) ==
  /\ e = epoch
  /\ epoch < MaxEpoch
  /\ epoch' = epoch + 1
  /\ mask' = IF deactivates(mask, r)
             THEN deactivateRing(mask, deactivatedRings, r) ELSE mask
  /\ published' = published \cup {mask'}
  /\ UNCHANGED deactivatedRings

\* An accusation about the current epoch is rebutted: deactivateRing's error
\* leaves the mask as it is, the epoch advances all the same.
ShouldRebuttal(e, r) ==
  /\ e = epoch
  /\ epoch < MaxEpoch
  /\ epoch' = epoch + 1
  /\ mask' = IF deactivates(mask, r)
             THEN deactivateRing(mask, deactivatedRings, r) ELSE mask
  /\ deactivatedRings' = IF deactivates(mask, r) /\ deactivatedRings # maxByz
                         THEN deactivatedRings + 1 ELSE deactivatedRings
  /\ published' = published \cup {mask'}

\* An accusation about any other epoch is errInvalidSelfAccusation.
InvalidSelfAccusation(e, r) == e # epoch /\ UNCHANGED ownVars

AccusedRings == 0..(NumRings + 1)

OwnNext ==
  \E e \in 1..MaxEpoch, r \in AccusedRings :
    \/ ShouldRebuttal(e, r)
    \/ InvalidSelfAccusation(e, r)

OwnSpec == NewView /\ [][OwnNext]_ownVars

-----------------------------------------------------------------------------
\* Types: the mask is a word, the counter counts rings.
OwnTypeOK ==
  /\ epoch \in 1..MaxEpoch
  /\ mask \in SUBSET (1..WordSize)
  /\ deactivatedRings \in 0..maxByz
  /\ published \in SUBSET SUBSET (1..WordSize)

\* The counter that decides whether a ring must be switched on again is the
\* number of rings that are off, and no bit beyond the last ring is ever set
\* (deactivateRing would set one if the counter ran ahead of the mask).
CounterIsExact ==
  /\ mask \subseteq Rings
  /\ deactivatedRings = Cardinality(Rings \ mask)

\* Every note ever published passes the ValidMask test of its receivers: a
\* rebuttal they refused would leave the owner accused for good.
PublishedNotesAreValid == \A m \in published : validMask(m)

\* Receivers may hold any two notes of the owner.  Some ring is switched on in
\* both, so the owner can never rebut itself into being accused by nobody.
PublishedNotesOverlap ==
  \A m1, m2 \in published : \E r \in Rings : hasBit(m1, r) /\ hasBit(m2, r)

\* A step leaves the note alone or publishes the next epoch, and protection
\* once gained is never given back: the number of rings that are off does not
\* shrink, although a rebuttal may switch one ring on to switch another off.
ProtectionNeverShrinks ==
  [][/\ epoch' \in {epoch, epoch + 1}
     /\ epoch' = epoch => mask' = mask
     /\ Cardinality(Rings \ mask) <= Cardinality(Rings \ mask')]_ownVars
=============================================================================
