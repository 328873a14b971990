---------------------------- MODULE MCEnrolment -----------------------------
(* Instances of the certificate authority and of a client for TLC. *)
EXTENDS Enrolment, TLC

MCSerials == 1..2

\* Requests and nonces are interchangeable.
Symmetric == Permutations(Handlers) \union Permutations(Ids)
=============================================================================
