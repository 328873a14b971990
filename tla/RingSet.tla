------------------------------ MODULE RingSet -------------------------------
(***************************************************************************)
(* What one ring promises, without its list: a set of members on a circle  *)
(* and, for each peer, the accuser of the accusation held on this ring.    *)
(***************************************************************************)
EXTENDS RingOrder

CONSTANTS Ids,   \* the hashes of all peers on this ring
          self,  \* the hash of the node the ring belongs to
          None   \* no accusation

VARIABLES members, acc

Init ==
  /\ members = {self}
  /\ acc = [p \in Ids \ {self} |-> None]

\* A new member ends the accusation its predecessor holds against its
\* successor: the accuser no longer watches the accused.
Add(p) ==
  /\ p \notin members
  /\ members' = members \cup {p}
  /\ LET s == SuccIn(members, p)
     IN  acc' = IF s # self /\ acc[s] = PrevIn(members, p)
                THEN [acc EXCEPT ![s] = None] ELSE acc

Remove(p) ==
  /\ p \in members \ {self}
  /\ members' = members \ {p}
  /\ UNCHANGED acc

\* Only the peer next to p, among the members, is accepted as its accuser.
Accuse(p, q) ==
  /\ p # q
  /\ MayAccuse(members, p, q)
  /\ acc' = [acc EXCEPT ![p] = q]
  /\ UNCHANGED members

Rebut(p) ==
  /\ acc' = [acc EXCEPT ![p] = None]
  /\ UNCHANGED members

Next ==
  \E p \in Ids \ {self} :
    Add(p) \/ Remove(p) \/ Rebut(p) \/ \E q \in Ids : Accuse(p, q)

Spec == Init /\ [][Next]_<<members, acc>>
=============================================================================
