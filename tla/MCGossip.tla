----------------------------- MODULE MCGossip ------------------------------
(* A small network for TLC: a, b and d know each other, c joins through a. *)
EXTENDS Gossip, TLC

CONSTANTS a, b, c, d

MCNodes == {a, b, c, d}
MCHash == [r \in Rings |-> (a :> 1 @@ b :> 2 @@ c :> 3 @@ d :> 4)]
MCFounders == {a, b, d}
MCContacts == [n \in MCNodes |-> IF n = c THEN {a} ELSE {}]
=============================================================================
