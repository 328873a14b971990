------------------------------- MODULE MCView -------------------------------
(* Two other peers.  The rings order the three ids both ways round, so that *)
(* each peer is this node's successor on one of two rings.                  *)
EXTENDS View, TLC

CONSTANTS a, b, n

MCOthers == {a, b}
MCHash == [r \in Rings |-> IF r = 1 THEN (n :> 1 @@ a :> 2 @@ b :> 3)
                                    ELSE (n :> 1 @@ b :> 2 @@ a :> 3)]
\* With four rings or more one may be off: a switches off ring 2, on which b
\* watches it, in its second note, as a rebuttal does.
MCEnabled == [p \in MCOthers |-> [e \in Epochs |->
                IF p = a /\ e = 2 /\ NumRings >= 4
                THEN Rings \ {2} ELSE Rings]]

\* What can be signed about a, and with the first note of b.
NotesOfA == {a} \X Epochs
NotesOfBoth == NotesOfA \cup {<<b, 1>>}
AccsOfA == {a} \X {b} \X Rings \X Epochs
AccsOnRing2 == {a} \X {b} \X {2} \X Epochs
=============================================================================
