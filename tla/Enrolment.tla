----------------------------- MODULE Enrolment ------------------------------
(***************************************************************************)
(* Enrolment: the certificate authority (Ca) and a client (CryptoUnit).    *)
(*                                                                         *)
(* The two processes share nothing but the reply to a certificate request. *)
(* CryptoUnit takes any reply made of a ring number, a group and known     *)
(* participants; AnswersCovered says that the authority gives no other.    *)
(* So each process is explored beside the other at rest: a step of one     *)
(* neither enables nor disables a step of the other, and what holds of     *)
(* each of them holds of the two running together (Together; that it is a  *)
(* run of each of them is proved in EnrolmentProofs).                      *)
(***************************************************************************)
EXTENDS Ca, CryptoUnit

\* The client is enrolled by this authority.
ASSUME OneAuthority == /\ Serials \subseteq CaSerials /\ RingNumbers \subseteq GroupRings
                       /\ Ids \subseteq CertIds

VARIABLE moving   \* the process that moves

enrolVars == <<vars, cuVars, moving>>

EInit == Init /\ CuInit /\ moving \in {"ca", "client"}

ENext ==
  /\ \/ moving = "ca" /\ Next /\ UNCHANGED cuVars
     \/ moving = "client" /\ CuNext /\ UNCHANGED vars
  /\ UNCHANGED moving

ESpec == EInit /\ [][ENext]_enrolVars

\* The two running together.  sendCertRequest gets the reply of a request that
\* certificateSigning serves beside those of other participants; a reply that
\* is lost, or belongs to another participant, is a step of the authority alone.
sendCertRequest(h) ==
  Reply(h) /\ Enrolled(req[h].rings, served, Range(req[h].known))

TogetherNext ==
  \/ Next /\ UNCHANGED cuVars
  \/ (cuStep \/ EnrolFails \/ ClientDies) /\ UNCHANGED vars
  \/ \E h \in Handlers : sendCertRequest(h)

Together == Init /\ CuInit /\ [][TogetherNext]_<<vars, cuVars>>

-----------------------------------------------------------------------------
\* certificateSigning answers with what NewCu can take: a group of this CA,
\* the ring number of a group, and certificates of participants only, however
\* requests overlap and whatever the restarts were configured with.
AnswersCovered ==
  \A h \in Replied : /\ req[h].rings \in GroupRings /\ served \in CaSerials
                     /\ Range(req[h].known) \subseteq CertIds
=============================================================================
