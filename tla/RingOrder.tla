----------------------------- MODULE RingOrder ------------------------------
(***************************************************************************)
(* The circle that a ring orders its members on.  A member of a ring is    *)
(* its hash on that ring, a number (hashId of src/core/discovery/ring.go,  *)
(* compared with bytes.Compare); two members never share a hash.           *)
(***************************************************************************)
EXTENDS Integers, FiniteSetsExt

\* The member of S next to x going up, wrapping at the top.  x itself may be
\* missing from S: it is the member x would have there.  Alone, x meets x.
SuccIn(S, x) ==
  LET T == S \ {x}
      above == {y \in T : y > x}
  IN  IF T = {} THEN x ELSE Min(IF above = {} THEN T ELSE above)

\* The same going down.
PrevIn(S, x) ==
  LET T == S \ {x}
      below == {y \in T : y < x}
  IN  IF T = {} THEN x ELSE Max(IF below = {} THEN T ELSE below)

\* y may accuse x among the members S: no member lies between them.
MayAccuse(S, x, y) == PrevIn(S \cup {y}, x) = y
=============================================================================
