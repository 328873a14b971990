-------------------------------- MODULE MCCa --------------------------------
(* Instances of the certificate authority for TLC. *)
EXTENDS Ca, TLC

MCSerials == 1..2

\* Requests and nonces are interchangeable.
Symmetric == Permutations(Handlers) \union Permutations(Ids)
=============================================================================
