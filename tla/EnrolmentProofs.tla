-------------------------- MODULE EnrolmentProofs ---------------------------
(***************************************************************************)
(* Enrolment, for any number of groups, requests, restarts, participants,  *)
(* and faults.  First the certificate authority: what it answers, and what *)
(* of it is on disk.  Then a client's files: what LoadCu returns is what   *)
(* was issued, and LoadCu never returns two different own certificates.    *)
(* Last the two together.                                                  *)
(***************************************************************************)
EXTENDS Enrolment, FiniteSetTheorems, WellFoundedInduction, TLAPS

Saving == {"saveCerts", "encodeCert"}
Serving == {"serving", "draining"}
Requests == [pc : {"idle", "sign", "list", "reply"}, id : Ids \cup {Nil},
             rings : RingNumbers \cup {0}, trusted : BOOLEAN,
             known : Seq(Ids \cup {Nil}), mine : SUBSET Ids]

\* Types of the files, of the daemon, of its group and of the requests.
CaTypeOK ==
  /\ keyFile \in Serials \cup {Absent, Torn}
  /\ certFile \in [Serials -> RingNumbers \cup {Absent, Torn}]
  /\ runs \in 0..MaxRuns /\ exiting \in BOOLEAN
  /\ phase \in {"down", "createKey", "encodeKey"} \cup Saving \cup Serving
  /\ privKey \in Serials \cup {Absent}
  /\ DOMAIN groups \subseteq Serials /\ groups \in [DOMAIN groups -> RingNumbers]
  /\ toSave \subseteq DOMAIN groups
  /\ numRings \in RingNumbers \cup {0} /\ bootNodes \in Nat
  /\ knownCerts \in [1..bootNodes -> Ids \cup {Nil}]
  /\ currBootNodes \in Nat /\ existingIds \subseteq Ids
  /\ req \in [Handlers -> Requests]

\* A save under way has written what is no longer to write, so a daemon that
\* serves has written everything; the group served has its own ring number.
DiskInv ==
  /\ phase \in {"createKey", "encodeKey"} => toSave = DOMAIN groups
  /\ phase \in Saving \cup Serving => keyFile = privKey
  /\ phase \in Saving => \A s \in DOMAIN groups \ toSave : certFile[s] = groups[s]
  /\ phase \in Serving => \A s \in DOMAIN groups : certFile[s] = groups[s]
  /\ DOMAIN groups # {} => numRings = groups[served]

\* The certificates stored come first, and none is Nil.
KnownInv ==
  \A i \in 1..bootNodes :
    IF i <= currBootNodes THEN knownCerts[i] \in existingIds ELSE knownCerts[i] = Nil

\* Only a daemon that serves has requests, each with an id drawn in this run.
ReqInv ==
  \A h \in Handlers : req[h] # NoReq =>
    /\ phase \in Serving /\ DOMAIN groups # {}
    /\ req[h].pc # "idle" /\ req[h].rings = numRings
    /\ req[h].id \in existingIds

\* Stored(h): the certificate of a request is stored exactly if it is trusted,
\* and all there is room for are if it is not.
Stored(h) ==
  /\ req[h].trusted <=> req[h].id \in Range(knownCerts)
  /\ ~req[h].trusted => currBootNodes >= bootNodes
  /\ req[h].mine \subseteq Range(knownCerts)

\* What a request was told, before and after getTrustedNodes.
AnswerInv ==
  \A h \in Handlers :
    /\ req[h].pc = "list" => Stored(h)
    /\ req[h].pc = "reply" =>
         /\ req[h].known \in Seq(Ids)
         /\ req[h].trusted <=> req[h].id \in Range(req[h].known)
         /\ ~req[h].trusted => Len(req[h].known) = bootNodes
         /\ req[h].mine \subseteq Range(req[h].known)

CaInv == CaTypeOK /\ DiskInv /\ KnownInv /\ ReqInv /\ AnswerInv /\ IdsDistinct

-----------------------------------------------------------------------------
\* A set of serial numbers has a smallest member, and Min picks it.
LEMMA MinMember ==
  ASSUME NEW S, S \subseteq Nat, S # {}
  PROVE  Min(S) \in S
  <1> DEFINE less == {ss \in Nat \X Nat : ss[1] < ss[2]}
  <1>1. less = OpToRel(<, Nat)
    BY DEF OpToRel
  <1>2. PICK x \in S : \A y \in S : ~ (<<y, x>> \in less)
    <2>1. IsWellFoundedOn(less, Nat)
      BY ZenonT(30), <1>1, NatLessThanWellFounded
    <2> HIDE DEF less
    <2> QED BY ZenonT(30), <2>1, WFMin
  <1>3. ASSUME NEW y \in S PROVE x <= y
    <2>1. x \in Nat /\ y \in Nat
      OBVIOUS
    <2>2. <<y, x>> \in less <=> y < x
      BY <2>1
    <2> QED BY <1>2, <2>1, <2>2
  <1> QED BY ZenonT(30), <1>3 DEF Min

\* An empty disk and no daemon.
LEMMA CaInitInv == Init => CaInv
<1> SUFFICES ASSUME Init PROVE CaInv
  OBVIOUS
<1> USE DEF Init, NoReq
<1>1. CaTypeOK
  <2>1. groups \in [DOMAIN groups -> RingNumbers] /\ DOMAIN groups = {}
    OBVIOUS
  <2>2. knownCerts \in [1..bootNodes -> Ids \cup {Nil}]
    OBVIOUS
  <2>3. NoReq \in Requests
    BY DEF Requests
  <2>4. req \in [Handlers -> Requests]
    <3> HIDE DEF NoReq
    <3> QED BY <2>3
  <2>5. certFile \in [Serials -> RingNumbers \cup {Absent, Torn}]
    OBVIOUS
  <2>6. /\ keyFile \in Serials \cup {Absent, Torn} /\ runs \in 0..MaxRuns
        /\ privKey \in Serials \cup {Absent} /\ toSave = {} /\ numRings \in RingNumbers \cup {0} /\ bootNodes \in Nat
        /\ currBootNodes \in Nat /\ existingIds = {}
    BY CaNumbers
  <2>7. phase = "down" /\ exiting = FALSE
    BY Zenon
  <2>8. QED
    BY ZenonT(30), <2>1, <2>2, <2>4, <2>5, <2>6, <2>7 DEF CaTypeOK
<1>2. DiskInv /\ KnownInv
  BY DEF DiskInv, KnownInv, Saving, Serving
<1>3. ReqInv /\ AnswerInv
  BY DEF ReqInv, AnswerInv
<1>4. IdsDistinct
  BY DEF IdsDistinct
<1>5. QED
  BY <1>1, <1>2, <1>3, <1>4 DEF CaInv

\* A daemon that is not serving has no requests.
LEMMA NoRequests ==
  ASSUME CaInv, phase \notin Serving
  PROVE  \A h \in Handlers : req[h] = NoReq
  BY DEF CaInv, ReqInv

\* NewCa and LoadCa start with no participants, whatever key and groups they
\* start with.
LEMMA AfterStarts ==
  ASSUME NEW k \in Serials, NEW g, NEW rings \in RingNumbers \cup {0}, NEW boot \in Nat,
         DOMAIN g \subseteq Serials, g \in [DOMAIN g -> RingNumbers],
         DOMAIN g # {} => rings = g[Min(DOMAIN g)],
         CaInv, Starts(k, g, rings, boot)
  PROVE  CaInv'
<1>0. CaTypeOK /\ \A h \in Handlers : req[h] = NoReq
  BY NoRequests DEF CaInv, Starts, Serving
<1> USE DEF Starts
<1>1. CaTypeOK'
  <2>1. /\ privKey' \in Serials \cup {Absent} /\ toSave' \subseteq DOMAIN groups'
        /\ DOMAIN groups' \subseteq Serials /\ groups' \in [DOMAIN groups' -> RingNumbers]
    OBVIOUS
  <2>2. runs' \in 0..MaxRuns
    BY SMTT(30), <1>0, CaNumbers DEF CaTypeOK
  <2>3. knownCerts' \in [1..bootNodes' -> Ids \cup {Nil}] /\ bootNodes' \in Nat
    OBVIOUS
  <2>4. UNCHANGED <<keyFile, certFile, req>>
    BY DEF diskVars
  <2>5. QED
    BY ZenonT(30), <1>0, <2>1, <2>2, <2>3, <2>4 DEF CaTypeOK
<1>2. DiskInv' /\ KnownInv'
  BY DEF DiskInv, KnownInv, Saving, Serving, served
<1>3. \A h \in Handlers : req'[h] = NoReq
  BY <1>0
<1>4. ReqInv' /\ AnswerInv' /\ IdsDistinct'
  <2>1. ReqInv'
    BY <1>3 DEF ReqInv
  <2>2. AnswerInv'
    BY <1>3 DEF AnswerInv, NoReq
  <2>3. IdsDistinct'
    BY <1>3 DEF IdsDistinct, NoReq
  <2>4. QED
    BY <2>1, <2>2, <2>3
<1>5. QED
  BY <1>1, <1>2, <1>4 DEF CaInv

LEMMA AfterNewCa ==
  ASSUME NEW s \in Serials, NEW rings \in RingNumbers, CaInv, NewCa(s, rings)
  PROVE  CaInv'
<1>1. PICK g : g = [x \in {s} |-> rings]
  BY ZenonT(30)
<1>2. DOMAIN g = {s} /\ g[s] = rings /\ g \in [{s} -> RingNumbers]
  BY <1>1
<1>3. Min({s}) = s
  BY CaNumbers, MinMember
<1>4. Starts(s, g, rings, NumBootNodes)
  BY ZenonT(30), <1>1 DEF NewCa
<1>5. NumBootNodes \in Nat
  BY CaNumbers
<1>6. QED
  BY <1>2, <1>3, <1>4, <1>5, AfterStarts

LEMMA AfterLoadCa ==
  ASSUME NEW rings \in RingNumbers, CaInv, LoadCa(rings)
  PROVE  CaInv'
<1>1. PICK g : g = [s \in onDisk |-> certFile[s]]
  BY ZenonT(30)
<1>2. PICK n : n = IF onDisk = {} THEN 0 ELSE ringsOf(Min(onDisk), NumBootNodes)
  OBVIOUS
<1>3. Starts(keyFile, g, n, rings)
  BY ZenonT(30), <1>1, <1>2 DEF LoadCa
<1>4. keyFile \in Serials /\ onDisk \subseteq Serials
  BY DEF LoadCa, loadable, CaInv, CaTypeOK, onDisk
<1>5. \A s \in onDisk : certFile[s] \in RingNumbers
  BY DEF LoadCa, loadable, CaInv, CaTypeOK, onDisk
<1>6. DOMAIN g = onDisk /\ g \in [onDisk -> RingNumbers]
  BY <1>1, <1>5
<1>7. onDisk # {} => n = g[Min(onDisk)] /\ n \in RingNumbers
  <2> HAVE onDisk # {}
  <2>1. Min(onDisk) \in onDisk
    BY ZenonT(30), <1>4, CaNumbers, MinMember
  <2> QED BY <1>1, <1>2, <1>5, <2>1 DEF ringsOf
<1>8. n \in RingNumbers \cup {0} /\ rings \in Nat
  BY <1>2, <1>7, CaNumbers
<1>9. QED
  BY <1>3, <1>4, <1>6, <1>7, <1>8, AfterStarts

-----------------------------------------------------------------------------
\* The group's certificates and the requests stay: so does what is known of
\* them, if the daemon goes on serving or has no requests.
LEMMA SameRequests ==
  ASSUME CaInv, UNCHANGED <<groups, numRings, groupVars, bootNodes, req>>,
         phase' \in Serving \/ \A h \in Handlers : req[h] = NoReq
  PROVE  KnownInv' /\ ReqInv' /\ AnswerInv' /\ IdsDistinct'
<1>0. /\ UNCHANGED <<groups, numRings, bootNodes, req>>
      /\ UNCHANGED <<knownCerts, currBootNodes, existingIds>>
  BY DEF groupVars
<1>1. KnownInv'
  BY ZenonT(30), <1>0 DEF CaInv, KnownInv
<1>2. AnswerInv'
  BY ZenonT(30), <1>0 DEF CaInv, AnswerInv, Stored
<1>3. IdsDistinct'
  BY ZenonT(30), <1>0 DEF CaInv, IdsDistinct
<1>4. ReqInv'
  BY <1>0 DEF CaInv, ReqInv
<1>5. QED
  BY <1>1, <1>2, <1>3, <1>4

LEMMA AfterSavePrivateKey == ASSUME CaInv, SavePrivateKey PROVE CaInv'
<1>0. CaTypeOK /\ DiskInv /\ \A h \in Handlers : req[h] = NoReq
  BY NoRequests DEF CaInv, SavePrivateKey, Serving
<1>1. UNCHANGED <<certFile, runs, exiting, toSave, privKey, groups, numRings, bootNodes,
                  knownCerts, currBootNodes, existingIds, req>>
  BY DEF SavePrivateKey, caVars, groupVars
<1>2. \/ phase = "createKey" /\ keyFile' = Torn /\ phase' = "encodeKey"
      \/ phase = "encodeKey" /\ keyFile' = privKey /\ phase' = "saveCerts"
  BY DEF SavePrivateKey
<1>3. CaTypeOK'
  BY <1>0, <1>1, <1>2 DEF CaTypeOK, Saving, Serving
<1>4. DiskInv'
  BY <1>0, <1>1, <1>2 DEF DiskInv, Saving, Serving, served
<1>5. QED
  BY <1>0, <1>1, <1>3, <1>4, SameRequests DEF CaInv, groupVars

LEMMA AfterSaveCertificate == ASSUME CaInv, SaveCertificate PROVE CaInv'
<1>0. CaTypeOK /\ DiskInv /\ \A h \in Handlers : req[h] = NoReq
  BY NoRequests DEF CaInv, SaveCertificate, Serving
<1>1. UNCHANGED <<keyFile, runs, exiting, privKey, groups, numRings, bootNodes,
                  knownCerts, currBootNodes, existingIds, req>>
  BY DEF SaveCertificate, caVars, groupVars
<1>2. PICK s : s = Min(toSave)
  OBVIOUS
<1>3. s \in toSave /\ s \in Serials /\ groups[s] \in RingNumbers
  <2>1. toSave \subseteq Nat /\ toSave # {} /\ toSave \subseteq Serials
    BY <1>0, CaNumbers DEF CaTypeOK, SaveCertificate
  <2>2. s \in toSave
    BY ZenonT(30), <1>2, <2>1, MinMember
  <2> QED BY <1>0, <2>1, <2>2 DEF CaTypeOK
<1>4. \/ /\ phase = "saveCerts" /\ phase' = "encodeCert"
         /\ certFile' = [certFile EXCEPT ![s] = Torn]
         /\ UNCHANGED toSave
      \/ /\ phase = "encodeCert" /\ phase' = "saveCerts"
         /\ certFile' = [certFile EXCEPT ![s] = groups[s]]
         /\ toSave' = toSave \ {s}
  BY ZenonT(30), <1>2 DEF SaveCertificate
<1>5. CaTypeOK'
  BY <1>0, <1>1, <1>3, <1>4 DEF CaTypeOK, Saving, Serving
<1>6. DiskInv'
  <2>1. /\ keyFile = privKey
        /\ \A t \in DOMAIN groups \ toSave : certFile[t] = groups[t]
    BY <1>0, <1>4 DEF DiskInv, Saving
  <2>2. \A t \in DOMAIN groups \ toSave' : certFile'[t] = groups[t]
    BY <1>0, <1>3, <1>4, <2>1 DEF CaTypeOK
  <2>3. phase' \notin Serving
    BY <1>4 DEF Serving
  <2>4. phase' \notin {"createKey", "encodeKey"}
    BY <1>4
  <2>5. DOMAIN groups' # {} => numRings' = groups'[served']
    BY <1>0, <1>1 DEF DiskInv, served
  <2> QED BY <1>1, <2>1, <2>2, <2>3, <2>4, <2>5 DEF DiskInv
<1>7. QED
  BY <1>0, <1>1, <1>5, <1>6, SameRequests DEF CaInv, groupVars

LEMMA AfterSaved == ASSUME CaInv, Saved PROVE CaInv'
<1>0. CaTypeOK /\ DiskInv /\ \A h \in Handlers : req[h] = NoReq
  BY NoRequests DEF CaInv, Saved, allSaved, Serving
<1>1. UNCHANGED <<keyFile, certFile, runs, exiting, toSave, privKey, groups, numRings,
                  bootNodes, knownCerts, currBootNodes, existingIds, req>>
  BY DEF Saved, diskVars, caVars, groupVars
<1>2. phase = "saveCerts" /\ toSave = {} /\ phase' \in {"down", "serving"}
  BY DEF Saved, allSaved
<1>3. CaTypeOK'
  BY <1>0, <1>1, <1>2 DEF CaTypeOK, Saving, Serving
<1>4. DiskInv'
  BY <1>0, <1>1, <1>2 DEF DiskInv, Saving, Serving, served
<1>5. QED
  BY <1>0, <1>1, <1>3, <1>4, SameRequests DEF CaInv, groupVars

LEMMA AfterSignal == ASSUME CaInv, Signal PROVE CaInv'
<1>0. CaTypeOK /\ DiskInv
  BY DEF CaInv
<1>1. UNCHANGED <<keyFile, certFile, runs, exiting, toSave, privKey, groups, numRings,
                  bootNodes, knownCerts, currBootNodes, existingIds, req>>
  BY DEF Signal, diskVars, caVars, groupVars
<1>2. phase = "serving" /\ phase' = "draining"
  BY DEF Signal
<1>3. CaTypeOK'
  BY ZenonT(30), <1>0, <1>1, <1>2 DEF CaTypeOK, Saving, Serving
<1>4. DiskInv'
  BY <1>0, <1>1, <1>2 DEF DiskInv, Saving, Serving, served
<1>5. phase' \in Serving
  BY <1>2 DEF Serving
<1>6. QED
  BY <1>1, <1>3, <1>4, <1>5, SameRequests DEF CaInv, groupVars

LEMMA AfterShutdown == ASSUME CaInv, Shutdown PROVE CaInv'
<1>0. CaTypeOK /\ DiskInv /\ \A h \in Handlers : req[h] = NoReq
  BY DEF CaInv, Shutdown
<1>1. UNCHANGED <<keyFile, certFile, runs, privKey, groups, numRings,
                  bootNodes, knownCerts, currBootNodes, existingIds, req>>
  BY DEF Shutdown, diskVars, caVars, groupVars
<1>2. phase' = "createKey" /\ toSave' = DOMAIN groups /\ exiting' \in BOOLEAN
  BY DEF Shutdown
<1>3. CaTypeOK'
  BY <1>0, <1>1, <1>2 DEF CaTypeOK, Saving, Serving
<1>4. DiskInv'
  BY <1>0, <1>1, <1>2 DEF DiskInv, Saving, Serving, served
<1>5. QED
  BY <1>0, <1>1, <1>3, <1>4, SameRequests DEF CaInv, groupVars

LEMMA AfterCrash == ASSUME CaInv, Crash PROVE CaInv'
<1>0. CaTypeOK /\ DiskInv /\ KnownInv
  BY DEF CaInv
<1>1. UNCHANGED <<keyFile, certFile, runs, privKey, groups, numRings,
                  bootNodes, knownCerts, currBootNodes, existingIds>>
  BY DEF Crash, diskVars, caVars, groupVars
<1>2. phase' = "down" /\ toSave' = {} /\ exiting' \in BOOLEAN
  BY ZenonT(30) DEF Crash
<1>3. req' \in [Handlers -> Requests] /\ \A h \in Handlers : req'[h] = NoReq
  <2>1. NoReq \in Requests
    BY DEF NoReq, Requests
  <2> QED BY <2>1 DEF Crash
<1>4. CaTypeOK'
  BY <1>0, <1>1, <1>2, <1>3 DEF CaTypeOK, Saving, Serving
<1>5. DiskInv' /\ KnownInv'
  BY <1>0, <1>1, <1>2 DEF DiskInv, KnownInv, Saving, Serving, served
<1>6. ReqInv'
  BY <1>3 DEF ReqInv
<1>7. AnswerInv'
  BY <1>3 DEF AnswerInv, NoReq
<1>8. IdsDistinct'
  BY <1>3 DEF IdsDistinct, NoReq
<1>9. QED
  BY <1>4, <1>5, <1>6, <1>7, <1>8 DEF CaInv

-----------------------------------------------------------------------------
\* A request is served: files, daemon and group number stay.
Served == UNCHANGED <<diskVars, daemonVars, caVars>>

LEMMA SameDaemon ==
  ASSUME CaInv, Served
  PROVE  /\ DiskInv' /\ served' = served
         /\ UNCHANGED <<keyFile, certFile, runs, phase, exiting, privKey, groups, toSave,
                        numRings, bootNodes>>
<1>1. UNCHANGED <<keyFile, certFile, runs, phase, exiting, privKey, groups, toSave,
                  numRings, bootNodes>>
  BY DEF Served, diskVars, daemonVars, caVars
<1>2. served' = served
  BY <1>1 DEF served
<1>3. DiskInv'
  BY ZenonT(30), <1>1, <1>2 DEF CaInv, DiskInv
<1>4. QED
  BY <1>1, <1>2, <1>3

LEMMA AfterGenId ==
  ASSUME NEW h \in Handlers, CaInv, genId(h)
  PROVE  CaInv'
<1>0. CaTypeOK /\ KnownInv /\ ReqInv /\ AnswerInv /\ IdsDistinct
  BY DEF CaInv
<1>1. /\ DiskInv'
      /\ UNCHANGED <<keyFile, certFile, runs, phase, exiting, privKey, groups, toSave,
                     numRings, bootNodes>>
  BY SameDaemon DEF genId, Served
<1>2. phase \in Serving /\ DOMAIN groups # {} /\ UNCHANGED <<knownCerts, currBootNodes>>
  BY ZenonT(30) DEF genId, Serving, served
<1>3. PICK id \in Ids \ existingIds :
        /\ existingIds' = existingIds \cup {id}
        /\ req' = [req EXCEPT ![h] = [NoReq EXCEPT !.pc = "sign", !.id = id, !.rings = numRings]]
  BY ZenonT(30) DEF genId, unusedIds
<1>4. PICK q : q = [NoReq EXCEPT !.pc = "sign", !.id = id, !.rings = numRings]
  OBVIOUS
<1>5. /\ q \in Requests /\ q.pc = "sign" /\ q.id = id /\ q.rings = numRings
  <2>1. numRings \in RingNumbers \cup {0}
    BY <1>0 DEF CaTypeOK
  <2>2. q = [pc |-> "sign", id |-> id, rings |-> numRings, trusted |-> FALSE,
              known |-> <<>>, mine |-> {}]
    BY ZenonT(30), <1>4 DEF NoReq
  <2> QED BY <2>1, <2>2 DEF Requests
<1>6. req' = [req EXCEPT ![h] = q]
  BY <1>3, <1>4
<1>7. CaTypeOK'
  BY <1>0, <1>1, <1>2, <1>3, <1>5, <1>6 DEF CaTypeOK
<1>8. KnownInv'
  BY <1>0, <1>1, <1>2, <1>3 DEF KnownInv
<1>9. req \in [Handlers -> Requests]
  BY <1>0 DEF CaTypeOK
<1>10. ReqInv'
  BY ZenonT(30), <1>0, <1>1, <1>2, <1>3, <1>5, <1>6, <1>9 DEF ReqInv
<1>11. AnswerInv'
  BY <1>0, <1>1, <1>2, <1>5, <1>6, <1>9 DEF AnswerInv, Stored
<1>12. IdsDistinct'
  <2>1. \A i \in Handlers : req[i].id \in existingIds \cup {Nil}
    BY <1>0 DEF ReqInv, NoReq
  <2>2. Range(knownCerts) \subseteq existingIds \cup {Nil}
    BY <1>0 DEF KnownInv, CaTypeOK, Range
  <2>3. id \notin existingIds \cup {Nil}
    BY <1>3, CaIds
  <2> QED BY ZenonT(30), <1>0, <1>2, <1>5, <1>6, <1>9, <2>1, <2>2, <2>3 DEF IdsDistinct
<1>13. QED
  BY <1>1, <1>7, <1>8, <1>10, <1>11, <1>12 DEF CaInv

\* The request ends.
LEMMA AfterEnd ==
  ASSUME NEW h \in Handlers, CaInv, Served, UNCHANGED groupVars,
         req' = [req EXCEPT ![h] = NoReq]
  PROVE  CaInv'
<1>0. CaTypeOK /\ KnownInv /\ ReqInv /\ AnswerInv /\ IdsDistinct
  BY DEF CaInv
<1>1. /\ DiskInv'
      /\ UNCHANGED <<keyFile, certFile, runs, phase, exiting, privKey, groups, toSave,
                     numRings, bootNodes>>
  BY SameDaemon
<1>2. UNCHANGED <<knownCerts, currBootNodes, existingIds>>
  BY DEF groupVars
<1>3. req' \in [Handlers -> Requests]
  <2>1. NoReq \in Requests
    BY DEF NoReq, Requests
  <2> QED BY <1>0, <2>1 DEF CaTypeOK
<1>4. \A i \in Handlers : req'[i] = NoReq \/ req'[i] = req[i]
  BY <1>0 DEF CaTypeOK
<1>5. CaTypeOK'
  BY <1>0, <1>1, <1>2, <1>3 DEF CaTypeOK
<1>6. KnownInv'
  BY ZenonT(30), <1>0, <1>1, <1>2 DEF KnownInv
<1>7. ReqInv'
  BY SMTT(30), <1>0, <1>1, <1>2, <1>4 DEF ReqInv
<1>8. AnswerInv'
  <2> SUFFICES ASSUME NEW i \in Handlers, req'[i].pc \in {"list", "reply"}
               PROVE  /\ req'[i].pc = "list" => Stored(i)'
                      /\ req'[i].pc = "reply" =>
                           /\ req'[i].known \in Seq(Ids)
                           /\ req'[i].trusted <=> req'[i].id \in Range(req'[i].known)
                           /\ ~req'[i].trusted => Len(req'[i].known) = bootNodes'
                           /\ req'[i].mine \subseteq Range(req'[i].known)
    BY ZenonT(30) DEF AnswerInv
  <2>1. NoReq.pc = "idle"
    BY DEF NoReq
  <2>2. req'[i] = req[i]
    BY <1>4, <2>1
  <2>3. /\ req[i].pc = "list" => Stored(i)
        /\ req[i].pc = "reply" =>
             /\ req[i].known \in Seq(Ids)
             /\ req[i].trusted <=> req[i].id \in Range(req[i].known)
             /\ ~req[i].trusted => Len(req[i].known) = bootNodes
             /\ req[i].mine \subseteq Range(req[i].known)
    BY ZenonT(30), <1>0 DEF AnswerInv
  <2> QED BY ZenonT(30), <1>1, <1>2, <2>2, <2>3 DEF Stored
<1>9. IdsDistinct'
  BY SMTT(30), <1>0, <1>2, <1>4 DEF IdsDistinct, NoReq
<1>10. QED
  BY <1>1, <1>5, <1>6, <1>7, <1>8, <1>9 DEF CaInv

LEMMA AfterAddKnownCert ==
  ASSUME NEW h \in Handlers, CaInv, addKnownCert(h)
  PROVE  CaInv'
<1>0. CaTypeOK /\ KnownInv /\ ReqInv /\ AnswerInv /\ IdsDistinct
  BY DEF CaInv
<1>1. /\ DiskInv'
      /\ UNCHANGED <<keyFile, certFile, runs, phase, exiting, privKey, groups, toSave,
                     numRings, bootNodes, existingIds>>
  BY SameDaemon DEF addKnownCert, Served
<1>2. PICK id : id = req[h].id
  OBVIOUS
<1>3. /\ req[h].pc = "sign" /\ currBootNodes' = currBootNodes + 1
      /\ knownCerts' = IF currBootNodes < bootNodes
                       THEN [knownCerts EXCEPT ![currBootNodes + 1] = id] ELSE knownCerts
      /\ req' = [req EXCEPT ![h].pc = "list", ![h].trusted = isTrusted,
                            ![h].mine = Range(knownCerts) \ {Nil}]
  BY <1>2 DEF addKnownCert
<1>4. /\ req \in [Handlers -> Requests] /\ bootNodes \in Nat /\ currBootNodes \in Nat
      /\ knownCerts \in [1..bootNodes -> Ids \cup {Nil}]
  BY <1>0 DEF CaTypeOK
<1>5. id \in existingIds /\ id \in Ids /\ id # Nil
  <2>1. req[h] # NoReq
    BY <1>3 DEF NoReq
  <2> QED BY <1>0, <1>2, <2>1, CaIds DEF ReqInv, CaTypeOK
<1>6. \A y : y # Nil => (y \in Range(knownCerts') <=>
                           y \in Range(knownCerts) \/ (currBootNodes < bootNodes /\ y = id))
  <2>1. CASE currBootNodes < bootNodes
    <3>1. PICK j : j = currBootNodes + 1
      OBVIOUS
    <3>2. j \in 1..bootNodes
      BY <1>4, <2>1, <3>1
    <3>3. knownCerts[j] = Nil
      BY <1>0, <1>4, <3>1, <3>2 DEF KnownInv
    <3>4. PICK g : g = [knownCerts EXCEPT ![j] = id]
      BY ZenonT(30)
    <3>5. knownCerts' = g
      BY <1>3, <2>1, <3>1, <3>4
    <3>6. \A y : y # Nil => (y \in Range(g) <=> y \in Range(knownCerts) \/ y = id)
      <4>1. DOMAIN knownCerts = 1..bootNodes /\ DOMAIN g = 1..bootNodes
        BY <1>4, <3>4
      <4>2. g[j] = id /\ \A i \in 1..bootNodes : i # j => g[i] = knownCerts[i]
        BY <1>4, <3>2, <3>4
      <4> QED BY <3>2, <3>3, <4>1, <4>2 DEF Range
    <3> QED BY <2>1, <3>5, <3>6
  <2>2. CASE ~(currBootNodes < bootNodes)
    BY <1>3, <2>2
  <2> QED BY <2>1, <2>2
<1>7. PICK q : q = [req[h] EXCEPT !.pc = "list", !.trusted = isTrusted,
                                   !.mine = Range(knownCerts) \ {Nil}]
  OBVIOUS
<1>8. req' = [req EXCEPT ![h] = q]
  BY ZenonT(30), <1>3, <1>4, <1>7 DEF Requests
<1>9. /\ q \in Requests /\ q.pc = "list" /\ q.id = id /\ q.rings = req[h].rings
      /\ q.trusted <=> currBootNodes < bootNodes
      /\ q.mine = Range(knownCerts) \ {Nil}
  <2>1. Range(knownCerts) \ {Nil} \subseteq Ids
    BY <1>4 DEF Range
  <2>2. isTrusted <=> currBootNodes < bootNodes
    BY <1>4 DEF isTrusted
  <2>3. isTrusted \in BOOLEAN
    BY DEF isTrusted
  <2>4. req[h] \in Requests
    BY <1>4
  <2> HIDE DEF isTrusted
  <2> QED BY ZenonT(30), <1>2, <1>7, <2>1, <2>2, <2>3, <2>4 DEF Requests
<1>10. CaTypeOK'
  <2>1. knownCerts' \in [1..bootNodes' -> Ids \cup {Nil}]
    BY <1>1, <1>3, <1>4, <1>5
  <2>2. currBootNodes' \in Nat
    BY SMTT(30), <1>3, <1>4
  <2>3. req' \in [Handlers -> Requests]
    BY <1>4, <1>8, <1>9
  <2> QED BY <1>0, <1>1, <2>1, <2>2, <2>3 DEF CaTypeOK
<1>11. KnownInv'
  BY SMTT(30), <1>0, <1>1, <1>3, <1>4, <1>5 DEF KnownInv
<1>12. ReqInv'
  <2>1. req[h] # NoReq
    BY <1>3 DEF NoReq
  <2> QED BY ZenonT(30), <1>0, <1>1, <1>2, <1>4, <1>8, <1>9, <2>1 DEF ReqInv
<1>13. IdsDistinct'
  <2>1. \A i \in Handlers : req'[i].id = req[i].id
    BY <1>2, <1>4, <1>8, <1>9
  <2>2. \A i \in Handlers : req'[i].pc = "sign" => i # h /\ req[i].pc = "sign"
    BY <1>4, <1>8, <1>9
  <2>3. \A i \in Handlers : req[i].pc = "sign" => req[i].id # Nil
    BY <1>0, CaIds DEF ReqInv, NoReq, CaTypeOK
  <2>4. \A i \in Handlers \ {h} : req[i].id # id
    BY ZenonT(30), <1>0, <1>2, <1>5 DEF IdsDistinct
  <2> QED BY ZenonT(30), <1>0, <1>6, <2>1, <2>2, <2>3, <2>4 DEF IdsDistinct
<1>14. AnswerInv'
  <2> SUFFICES ASSUME NEW i \in Handlers
               PROVE  /\ req'[i].pc = "list" => Stored(i)'
                      /\ req'[i].pc = "reply" =>
                           /\ req'[i].known \in Seq(Ids)
                           /\ req'[i].trusted <=> req'[i].id \in Range(req'[i].known)
                           /\ ~req'[i].trusted => Len(req'[i].known) = bootNodes'
                           /\ req'[i].mine \subseteq Range(req'[i].known)
    BY DEF AnswerInv
  <2>1. CASE i = h
    <3>1. req'[i] = q
      BY <1>4, <1>8, <2>1
    <3>2. id \notin Range(knownCerts)
      BY ZenonT(30), <1>0, <1>2, <1>3 DEF IdsDistinct
    <3>3. q.mine \subseteq Range(knownCerts')
      BY <1>6, <1>9
    <3>4. q.trusted <=> q.id \in Range(knownCerts')
      BY <1>5, <1>6, <1>9, <3>2
    <3>5. ~q.trusted => currBootNodes' >= bootNodes'
      <4>1. currBootNodes' = currBootNodes + 1 /\ bootNodes' = bootNodes
        BY ZenonT(30), <1>1, <1>3
      <4>2. bootNodes \in Nat /\ currBootNodes \in Nat
        BY ZenonT(30), <1>4
      <4>3. ~q.trusted => ~(currBootNodes < bootNodes)
        BY ZenonT(30), <1>9
      <4> QED BY <4>1, <4>2, <4>3
    <3> QED BY <1>9, <3>1, <3>3, <3>4, <3>5 DEF Stored
  <2>2. CASE i # h
    <3>1. req'[i] = req[i]
      BY ZenonT(30), <1>4, <1>8, <2>2
    <3>2. req[i].pc = "list" => Stored(i)'
      <4> HAVE req[i].pc = "list"
      <4>1. Stored(i)
        BY ZenonT(30), <1>0 DEF AnswerInv
      <4>2. req[i].id # id /\ req[i].id # Nil
        BY <1>0, <1>2, <1>5, <2>2, CaIds DEF IdsDistinct, ReqInv, NoReq, CaTypeOK
      <4>3. req[i].mine \subseteq Ids
        BY SMTT(30), <1>4 DEF Requests
      <4>4. req[i].mine \subseteq Range(knownCerts')
        BY <1>6, <4>1, <4>3, CaIds DEF Stored
      <4>5. req[i].trusted <=> req[i].id \in Range(knownCerts')
        BY <1>6, <4>1, <4>2 DEF Stored
      <4>6. ~req[i].trusted => currBootNodes' >= bootNodes'
        BY <1>1, <1>3, <1>4, <4>1 DEF Stored
      <4> QED BY <3>1, <4>4, <4>5, <4>6 DEF Stored
    <3> QED BY <1>0, <1>1, <3>1, <3>2 DEF AnswerInv
  <2> QED BY <2>1, <2>2
<1>15. QED
  BY <1>1, <1>10, <1>11, <1>12, <1>13, <1>14 DEF CaInv

\* What getTrustedNodes lists is what is stored, and is no more than that.
LEMMA ListedIsStored ==
  ASSUME CaTypeOK, KnownInv
  PROVE  /\ listed \in Seq(Ids)
         /\ \A y : y # Nil => (y \in Range(listed) <=> y \in Range(knownCerts))
         /\ currBootNodes >= bootNodes => Len(listed) = bootNodes
<1>0. /\ bootNodes \in Nat /\ currBootNodes \in Nat /\ existingIds \subseteq Ids
      /\ knownCerts \in [1..bootNodes -> Ids \cup {Nil}]
  BY DEF CaTypeOK
<1>1. PICK m \in Nat : m = IF currBootNodes >= bootNodes THEN bootNodes ELSE currBootNodes
  BY <1>0
<1>2. knownCerts \in Seq(Ids \cup {Nil}) /\ Len(knownCerts) = bootNodes
  BY <1>0
<1>3. listed = [i \in 1..m |-> knownCerts[i]]
  <2>1. CASE currBootNodes >= bootNodes
    BY <1>0, <1>1, <2>1 DEF listed
  <2>2. CASE ~(currBootNodes >= bootNodes)
    <3>1. SubSeq(knownCerts, 1, currBootNodes) = [i \in 1..currBootNodes |-> knownCerts[i]]
      BY <1>0, <1>2, <2>2
    <3> QED BY <1>1, <2>2, <3>1 DEF listed
  <2> QED BY <2>1, <2>2
<1>4. \A i \in 1..bootNodes : IF i <= m THEN knownCerts[i] \in Ids ELSE knownCerts[i] = Nil
  BY <1>0, <1>1 DEF KnownInv
<1>5. m <= bootNodes
  BY <1>0, <1>1
<1>6. listed \in [1..m -> Ids]
  BY <1>0, <1>3, <1>4, <1>5
<1>7. listed \in Seq(Ids) /\ Len(listed) = m
  BY <1>6
<1>8. \A y : y # Nil => (y \in Range(listed) <=> y \in Range(knownCerts))
  <2>1. DOMAIN listed = 1..m /\ DOMAIN knownCerts = 1..bootNodes
    BY <1>0, <1>6
  <2>2. \A i \in 1..m : listed[i] = knownCerts[i] /\ i \in 1..bootNodes
    BY <1>0, <1>3, <1>5
  <2>3. \A i \in 1..bootNodes : i \in 1..m \/ knownCerts[i] = Nil
    BY <1>4
  <2> QED BY <2>1, <2>2, <2>3 DEF Range
<1>9. QED
  BY <1>1, <1>7, <1>8

LEMMA AfterGetTrustedNodes ==
  ASSUME NEW h \in Handlers, CaInv, getTrustedNodes(h)
  PROVE  CaInv'
<1>0. CaTypeOK /\ KnownInv /\ ReqInv /\ AnswerInv /\ IdsDistinct
  BY DEF CaInv
<1>1. /\ DiskInv'
      /\ UNCHANGED <<keyFile, certFile, runs, phase, exiting, privKey, groups, toSave,
                     numRings, bootNodes>>
  BY SameDaemon DEF getTrustedNodes, Served
<1>2. UNCHANGED <<knownCerts, currBootNodes, existingIds>>
  BY DEF getTrustedNodes, groupVars
<1>3. PICK known : known = listed
  OBVIOUS
<1>4. /\ known \in Seq(Ids) /\ known \in Seq(Ids \cup {Nil})
      /\ \A y : y # Nil => (y \in Range(known) <=> y \in Range(knownCerts))
      /\ currBootNodes >= bootNodes => Len(known) = bootNodes
  <2>1. known \in Seq(Ids)
    BY <1>0, <1>3, ListedIsStored
  <2>2. known \in Seq(Ids \cup {Nil})
    BY <2>1
  <2> QED BY <1>0, <1>3, <2>1, <2>2, ListedIsStored
<1>5. req \in [Handlers -> Requests] /\ req[h].pc = "list"
  BY <1>0 DEF CaTypeOK, getTrustedNodes
<1>6. PICK q : q = [req[h] EXCEPT !.pc = "reply", !.known = known]
  OBVIOUS
<1>7. req' = [req EXCEPT ![h] = q]
  BY ZenonT(30), <1>3, <1>5, <1>6 DEF getTrustedNodes, Requests
<1>8. /\ q \in Requests /\ q.pc = "reply" /\ q.known = known
      /\ q.id = req[h].id /\ q.rings = req[h].rings /\ q.trusted = req[h].trusted
      /\ q.mine = req[h].mine
  BY ZenonT(30), <1>4, <1>5, <1>6 DEF Requests
<1>9. Stored(h) /\ q.id \in Ids /\ q.id # Nil /\ q.mine \subseteq Ids
  <2>1. req[h] # NoReq
    BY <1>5 DEF NoReq
  <2> QED BY <1>0, <1>5, <1>8, <2>1, CaIds DEF ReqInv, CaTypeOK, AnswerInv, Requests
<1>10. CaTypeOK'
  BY <1>0, <1>1, <1>2, <1>5, <1>7, <1>8 DEF CaTypeOK
<1>11. KnownInv'
  BY ZenonT(30), <1>0, <1>1, <1>2 DEF KnownInv
<1>12. ReqInv'
  <2>1. req[h] # NoReq
    BY <1>5 DEF NoReq
  <2> QED BY ZenonT(30), <1>0, <1>1, <1>2, <1>5, <1>7, <1>8, <2>1 DEF ReqInv
<1>13. IdsDistinct'
  BY ZenonT(30), <1>0, <1>2, <1>5, <1>7, <1>8 DEF IdsDistinct
<1>14. AnswerInv'
  <2>1. /\ q.trusted <=> q.id \in Range(known)
        /\ ~q.trusted => Len(known) = bootNodes
        /\ q.mine \subseteq Range(known)
    <3>1. q.trusted <=> q.id \in Range(known)
      BY ZenonT(30), <1>4, <1>8, <1>9 DEF Stored
    <3>2. ~q.trusted => Len(known) = bootNodes
      BY ZenonT(30), <1>4, <1>8, <1>9 DEF Stored
    <3>3. q.mine \subseteq Range(known)
      BY <1>4, <1>8, <1>9, CaIds DEF Stored
    <3> QED BY ZenonT(30), <3>1, <3>2, <3>3
  <2>2. \A i \in Handlers : req'[i] = IF i = h THEN q ELSE req[i]
    BY <1>5, <1>7
  <2> QED BY ZenonT(30), <1>0, <1>1, <1>2, <1>4, <1>8, <2>1, <2>2 DEF AnswerInv, Stored
<1>15. QED
  BY <1>1, <1>10, <1>11, <1>12, <1>13, <1>14 DEF CaInv

\* Every step of the authority keeps the invariant.
LEMMA CaStepInv == CaInv /\ [Next]_vars => CaInv'
<1> SUFFICES ASSUME CaInv, [Next]_vars PROVE CaInv'
  OBVIOUS
<1>1. CASE UNCHANGED vars
  <2>1. Served /\ UNCHANGED groupVars /\ UNCHANGED req
    BY <1>1 DEF vars, Served
  <2>2. UNCHANGED <<keyFile, certFile, runs, phase, exiting, privKey, groups, toSave,
                    numRings, bootNodes, knownCerts, currBootNodes, existingIds>>
    BY <2>1 DEF Served, diskVars, daemonVars, caVars, groupVars
  <2>3. CaTypeOK'
    BY ZenonT(30), <2>1, <2>2 DEF CaInv, CaTypeOK
  <2>4. DiskInv'
    BY <2>1, SameDaemon
  <2>5. phase' \in Serving \/ \A h \in Handlers : req[h] = NoReq
    BY <2>2, NoRequests
  <2> QED BY <2>1, <2>2, <2>3, <2>4, <2>5, SameRequests DEF CaInv
<1>2. ASSUME NEW s \in Serials, NEW rings \in RingNumbers, NewCa(s, rings) PROVE CaInv'
  BY <1>2, AfterNewCa
<1>3. ASSUME NEW rings \in RingNumbers, LoadCa(rings) PROVE CaInv'
  BY <1>3, AfterLoadCa
<1>4. CASE SavePrivateKey
  BY <1>4, AfterSavePrivateKey
<1>5. CASE SaveCertificate
  BY ZenonT(30), <1>5, AfterSaveCertificate
<1>6. CASE Saved
  BY <1>6, AfterSaved
<1>7. CASE Signal
  BY <1>7, AfterSignal
<1>8. CASE Shutdown
  BY <1>8, AfterShutdown
<1>9. CASE Crash
  BY <1>9, AfterCrash
<1>10. ASSUME NEW h \in Handlers, certificateSigning(h) PROVE CaInv'
  <2>1. CASE genId(h)
    BY <2>1, AfterGenId
  <2>2. CASE SignFails(h) \/ Reply(h)
    BY <2>2, AfterEnd DEF SignFails, Reply, Served
  <2>3. CASE addKnownCert(h)
    BY <2>3, AfterAddKnownCert
  <2>4. CASE getTrustedNodes(h)
    BY <2>4, AfterGetTrustedNodes
  <2> QED BY ZenonT(30), <1>10, <2>1, <2>2, <2>3, <2>4 DEF certificateSigning
<1>11. QED
  BY ZenonT(30), <1>1, <1>2, <1>3, <1>4, <1>5, <1>6, <1>7, <1>8, <1>9, <1>10 DEF Next

\* Files, group and requests of the authority stay related as CaInv says,
\* through crashes, restarts and requests that overlap.
THEOREM CaInvariant == Spec => []CaInv
  BY CaInitInv, CaStepInv, PTL DEF Spec

\* genId, addKnownCert and getTrustedNodes are separate critical sections, and
\* still every participant is told it is trusted exactly if the list it gets
\* has its own certificate, and gets a full list if it is not.
THEOREM TrustedAreListed == Spec => []TrustedIsListed
<1>1. CaInv => TrustedIsListed
  <2> SUFFICES ASSUME CaInv, NEW h \in Handlers, req[h].pc = "reply"
               PROVE  /\ Nil \notin Range(req[h].known)
                      /\ req[h].trusted <=> req[h].id \in Range(req[h].known)
                      /\ ~req[h].trusted => Len(req[h].known) = bootNodes
    BY ZenonT(30) DEF TrustedIsListed, Replied
  <2>1. req[h].known \in Seq(Ids)
    BY DEF CaInv, AnswerInv
  <2>2. Nil \notin Range(req[h].known)
    BY <2>1, CaIds DEF Range
  <2> QED BY ZenonT(30), <2>2 DEF CaInv, AnswerInv
<1>2. QED
  BY <1>1, CaInvariant, PTL

\* genId gives no id twice in a run.
THEOREM IdsAreDistinct == Spec => []IdsDistinct
<1>1. CaInv => IdsDistinct
  BY ZenonT(30) DEF CaInv
<1>2. QED
  BY <1>1, CaInvariant, PTL

\* saveState comes before ca.Start: a daemon that serves has its key and its
\* groups on disk.
THEOREM ServesWhatIsSaved == Spec => []SavedBeforeServing
<1>1. CaInv => SavedBeforeServing
  BY ZenonT(30) DEF CaInv, DiskInv, SavedBeforeServing, Serving
<1>2. QED
  BY <1>1, CaInvariant, PTL

\* certificateSigning embeds the ring number of the group's certificate on
\* disk, whatever the restarts were configured with.
THEOREM RingNumbersAgree == Spec => []RingsAgree
<1>1. CaInv => RingsAgree
  <2> SUFFICES ASSUME CaInv, NEW h \in Handlers, req[h] # NoReq
               PROVE  req[h].rings = certFile[served]
    BY DEF RingsAgree
  <2>1. phase \in Serving /\ DOMAIN groups # {} /\ req[h].rings = numRings
    BY DEF CaInv, ReqInv
  <2>2. DOMAIN groups \subseteq Nat
    BY CaNumbers DEF CaInv, CaTypeOK
  <2>3. served \in DOMAIN groups
    BY ZenonT(30), <2>1, <2>2, MinMember DEF served
  <2> QED BY <2>1, <2>3 DEF CaInv, DiskInv
<1>2. QED
  BY <1>1, CaInvariant, PTL

\* getTrustedNodes names every participant that was stored in this run before
\* the new one.
THEOREM RepliesNameThisRun == Spec => []NamesThisRun
<1>1. CaInv => NamesThisRun
  BY ZenonT(30) DEF CaInv, AnswerInv, NamesThisRun, Replied
<1>2. QED
  BY <1>1, CaInvariant, PTL

\* The invariant has what the client relies on.
LEMMA CoveredByInv == CaInv => AnswersCovered
<1> SUFFICES ASSUME CaInv, NEW h \in Handlers, req[h].pc = "reply"
             PROVE  /\ req[h].rings \in GroupRings /\ served \in CaSerials
                    /\ Range(req[h].known) \subseteq CertIds
  BY DEF AnswersCovered, Replied
<1>1. req[h] # NoReq
  BY DEF NoReq
<1>2. DOMAIN groups # {} /\ req[h].rings = numRings
  BY <1>1 DEF CaInv, ReqInv
<1>3. DOMAIN groups \subseteq Nat /\ DOMAIN groups \subseteq Serials
  BY CaNumbers DEF CaInv, CaTypeOK
<1>4. served \in DOMAIN groups
  BY ZenonT(30), <1>2, <1>3, MinMember DEF served
<1>5. numRings \in RingNumbers
  BY ZenonT(30), <1>2, <1>4 DEF CaInv, DiskInv, CaTypeOK
<1>6. req[h].known \in Seq(Ids)
  BY DEF CaInv, AnswerInv
<1>7. Range(req[h].known) \subseteq CertIds
  BY SMTT(30), <1>6, OneAuthority DEF Range
<1> QED BY ZenonT(30), <1>2, <1>3, <1>4, <1>5, <1>7, OneAuthority

\* certificateSigning answers with a group of this authority, the ring number
\* of a group and certificates of participants: what NewCu takes.
THEOREM AnswersAreCovered == Spec => []AnswersCovered
  BY CoveredByInv, CaInvariant, PTL

-----------------------------------------------------------------------------
\* Keys are numbered as they are made, and a key whose request is under way
\* has left nothing in the directory.
KeysInv ==
  /\ dirKeys \subseteq 1..keysMade
  /\ cu.key <= keysMade /\ cu.cert <= keysMade
  /\ cuPhase = "request" => keysMade \in Keys \ dirKeys

\* A new unit is what was issued; a loaded one was put together from the
\* directory.  A save under way has written what is no longer to write.
UnitInv ==
  /\ cuPhase \in {"down", "request"} => cu = NoCu
  /\ cuPhase # "saveKnown" => toWrite = {}
  /\ cuPhase \in {"saveKnown", "saveSelf"} => cu.ca # None
  /\ cu.ca # None => cu.cert \in Keys /\ cu.key \in Keys
  /\ cuPhase = "running" => cu.cert \in Keys /\ cu.key \in Keys
  /\ cu.cert \in Keys /\ ~cu.loaded =>
       /\ cu.key = cu.cert
       /\ issued[cu.cert] = [rings |-> cu.rings, ca |-> cu.ca, known |-> cu.known]
  /\ cu.loaded => {cu.key, cu.cert} \subseteq dirKeys
  /\ cu.loaded => \E k \in dirKeys : issued[k].ca = cu.ca
  /\ cu.loaded => \A i \in cu.known : \E k \in dirKeys : i \in issued[k].known
  /\ cuPhase = "saveKnown" /\ ~skipped => \A i \in cu.known \ toWrite : gPem[i] # "absent"

\* Every file stems from a unit that wrote into the directory.
FilesInv ==
  /\ keyPem # None => keyPem \in dirKeys \/ -keyPem \in dirKeys
  /\ Present(selfPem) \subseteq dirKeys
  /\ \A s \in Present(caPem) : \E k \in dirKeys : issued[k].ca = s
  /\ \A i \in Present(gPem) : \E k \in dirKeys : i \in issued[k].known

\* The known participants' files come before the CA's.
KnownFirst ==
  \A k \in Keys : dirKeys = {k} /\ ~skipped /\ Present(caPem) # {} =>
    issued[k].known \subseteq Present(gPem)

\* What LoadedAsIssued says, without cardinalities.
LoadedInv ==
  \A k \in Keys : cu.loaded /\ dirKeys = {k} =>
    /\ cu.key = k /\ cu.cert = k
    /\ cu.rings = issued[k].rings /\ cu.ca = issued[k].ca
    /\ cu.known \subseteq issued[k].known
    /\ ~skipped => cu.known = issued[k].known

\* The own certificates loaded so far are still there, and are one.
SelfInv ==
  /\ loadedSelf \subseteq Present(selfPem)
  /\ \A j, k \in loadedSelf : j = k

CuInv == CuTypeOK /\ KeysInv /\ UnitInv /\ FilesInv /\ KnownFirst /\ LoadedInv /\ SelfInv

\* Every counter of the client is a natural number.
LEMMA NatsBelow == \A m : \A i \in 0..m : i \in Nat
  OBVIOUS

\* An empty directory and no client.
LEMMA CuInitInv == CuInit => CuInv
<1> SUFFICES ASSUME CuInit PROVE CuInv
  OBVIOUS
<1>5. /\ keyPem = 0 /\ keysMade = 0 /\ faults = 0 /\ cuPhase = "down" /\ cu = NoCu
      /\ toWrite = {} /\ dirKeys = {}
  BY ZenonT(30) DEF CuInit, None
<1>6. 0 \in -MaxKeys..MaxKeys /\ 0 \in 0..MaxKeys /\ 0 \in 0..MaxFaults /\ 0 \notin Keys
  BY CuNumbers DEF Keys
<1>7. NoCu.key = 0 /\ NoCu.cert = 0 /\ NoCu.ca = 0 /\ NoCu.loaded = FALSE
  BY DEF NoCu, None
<1>8. 0 <= 0
  OBVIOUS
<1>2. KeysInv /\ UnitInv
  BY ZenonT(30), <1>5, <1>6, <1>7, <1>8 DEF KeysInv, UnitInv, None
<1> USE DEF CuInit, NoCu, NotIssued, None
<1>1. CuTypeOK
  <2>1. cu \in Units
    BY ZenonT(30), <1>6 DEF Units, Rings
  <2>2. issued \in [Keys -> Issues]
    BY DEF Issues, Rings
  <2>3. skipped \in BOOLEAN
    BY ZenonT(30)
  <2>4. /\ selfPem \in [Keys -> Files] /\ gPem \in [CertIds -> Files]
        /\ caPem \in [CaSerials -> Files]
    BY ZenonT(30) DEF Files
  <2>5. keyPem \in -MaxKeys..MaxKeys /\ keysMade \in 0..MaxKeys /\ faults \in 0..MaxFaults
    BY ZenonT(30), <1>5, <1>6
  <2>6. QED
    BY ZenonT(30), <2>1, <2>2, <2>3, <2>4, <2>5 DEF CuTypeOK
<1>3. FilesInv /\ KnownFirst /\ LoadedInv /\ SelfInv
  BY DEF FilesInv, KnownFirst, LoadedInv, SelfInv, Present
<1>4. QED
  BY ZenonT(30), <1>1, <1>2, <1>3 DEF CuInv

\* The files stay, and so does what was issued to those who wrote them.
LEMMA SameDirectory ==
  ASSUME CuInv, UNCHANGED <<keyPem, selfPem, gPem, caPem, dirKeys, skipped>>,
         \A k \in dirKeys : issued'[k] = issued[k]
  PROVE  FilesInv' /\ KnownFirst' /\ (loadedSelf' = loadedSelf => SelfInv')
<1>1. FilesInv'
  BY ZenonT(30) DEF CuInv, FilesInv, Present
<1>2. KnownFirst'
  BY DEF CuInv, KnownFirst, Present
<1>3. loadedSelf' = loadedSelf => SelfInv'
  BY ZenonT(30) DEF CuInv, SelfInv, Present
<1>4. QED
  BY ZenonT(30), <1>1, <1>2, <1>3

\* No client runs, or it waits for its certificate.
LEMMA NoUnit ==
  ASSUME cu' = NoCu, toWrite' = {}, cuPhase' \in {"down", "request"}
  PROVE  UnitInv' /\ LoadedInv' /\ cu' \in Units /\ toWrite' \subseteq cu'.known
<1>1. /\ cu'.ca = None /\ cu'.cert = None /\ cu'.loaded = FALSE /\ cu'.known = {}
      /\ None \notin Keys
  <2>1. None \notin Keys
    BY CuNumbers DEF None, Keys
  <2> QED BY <2>1 DEF NoCu
<1>2. UnitInv'
  BY ZenonT(30), <1>1 DEF UnitInv
<1>3. LoadedInv'
  BY ZenonT(30), <1>1 DEF LoadedInv
<1>4. cu' \in Units
  BY DEF NoCu, Units, Rings, None
<1>5. QED
  BY ZenonT(30), <1>1, <1>2, <1>3, <1>4

\* A request puts nothing into the directory.
LEMMA AfterRequestCert == ASSUME CuInv, RequestCert PROVE CuInv'
<1>0. CuTypeOK /\ KeysInv /\ cu = NoCu /\ toWrite = {}
  BY ZenonT(30) DEF CuInv, RequestCert, UnitInv
<1>1. UNCHANGED <<cu, toWrite, keyPem, selfPem, gPem, caPem, faults, issued, dirKeys,
                  skipped, loadedSelf>>
  BY DEF RequestCert, cuFiles, cuHistory
<1>2. cuPhase' = "request" /\ keysMade' = keysMade + 1 /\ keysMade < MaxKeys
  BY ZenonT(30) DEF RequestCert
<1>3. UnitInv' /\ LoadedInv' /\ cu' \in Units
  BY ZenonT(30), <1>0, <1>1, <1>2, NoUnit
<1>4. FilesInv' /\ KnownFirst' /\ SelfInv'
  BY SMTT(30), <1>1, SameDirectory
<1>5. CuTypeOK'
  <2>1. keysMade' \in 0..MaxKeys
    <3>1. keysMade \in 0..MaxKeys
      BY ZenonT(30), <1>0 DEF CuTypeOK
    <3> QED BY <1>2, <3>1, CuNumbers
  <2> QED BY ZenonT(30), <1>0, <1>1, <1>2, <1>3, <2>1 DEF CuTypeOK
<1>6. KeysInv'
  <2>1. keysMade \in Nat /\ MaxKeys \in Nat /\ cu'.key = 0 /\ cu'.cert = 0
    <3>1. NoCu.key = 0 /\ NoCu.cert = 0
      BY DEF NoCu, None
    <3>2. keysMade \in Nat
      BY ZenonT(30), <1>0, NatsBelow DEF CuTypeOK
    <3> QED BY ZenonT(30), <1>0, <1>1, <3>1, <3>2, CuNumbers
  <2>2. dirKeys' \subseteq 1..keysMade
    BY ZenonT(30), <1>0, <1>1 DEF KeysInv
  <2>3. /\ dirKeys' \subseteq 1..keysMade' /\ 0 <= keysMade'
        /\ keysMade' \in Keys \ dirKeys'
    BY <1>2, <2>1, <2>2 DEF Keys
  <2> QED BY ZenonT(30), <2>1, <2>3 DEF KeysInv
<1>7. QED
  BY ZenonT(30), <1>3, <1>4, <1>5, <1>6 DEF CuInv

\* The client's process ends, or its request fails: the key stays unused.
LEMMA AfterEnding ==
  ASSUME CuInv, cuPhase' = "down", cu' = NoCu, toWrite' = {},
         UNCHANGED <<keyPem, selfPem, gPem, caPem, keysMade, faults, issued, dirKeys,
                     skipped, loadedSelf>>
  PROVE  CuInv'
<1>0. CuTypeOK /\ KeysInv
  BY ZenonT(30) DEF CuInv
<1>1. UnitInv' /\ LoadedInv' /\ cu' \in Units /\ toWrite' \subseteq cu'.known
  BY NoUnit
<1>2. FilesInv' /\ KnownFirst' /\ SelfInv'
  BY ZenonT(30), SameDirectory
<1>3. CuTypeOK'
  BY ZenonT(30), <1>0, <1>1 DEF CuTypeOK
<1>4. KeysInv'
  <2>1. cu'.key = 0 /\ cu'.cert = 0
    BY DEF NoCu, None
  <2>2. keysMade \in Nat
    BY ZenonT(30), <1>0, NatsBelow DEF CuTypeOK
  <2>3. 0 <= keysMade
    BY <2>2
  <2> QED BY ZenonT(30), <1>0, <2>1, <2>3 DEF KeysInv
<1>5. QED
  BY <1>1, <1>2, <1>3, <1>4 DEF CuInv

\* The unit NewCu returns is what was issued.
LEMMA AfterCreated ==
  ASSUME CuInv, NEW rings \in Rings, NEW ca \in CaSerials \cup {None},
         NEW known \in SUBSET CertIds, cuPhase \in {"down", "request"},
         keysMade' \in Keys \ dirKeys, keysMade <= keysMade',
         created(rings, ca, known)
  PROVE  CuInv'
<1>0. CuTypeOK /\ KeysInv /\ toWrite = {}
  BY ZenonT(30) DEF CuInv, UnitInv
<1>1. UNCHANGED <<toWrite, keyPem, selfPem, gPem, caPem, faults, dirKeys, skipped, loadedSelf>>
  BY DEF created, cuFiles
<1>2. PICK k : k = keysMade'
  BY ZenonT(30)
<1>3. /\ cuPhase' = "running"
      /\ cu' = [key |-> k, cert |-> k, rings |-> rings, ca |-> ca, known |-> known,
                loaded |-> FALSE]
      /\ issued' = [issued EXCEPT ![k] = [rings |-> rings, ca |-> ca, known |-> known]]
  BY <1>2 DEF created
<1>4. k \in Keys /\ k \notin dirKeys /\ k \in Nat
  BY SMTT(30), <1>2, CuNumbers DEF Keys
<1>5. issued' \in [Keys -> Issues] /\ \A j \in dirKeys : issued'[j] = issued[j]
  <2>1. [rings |-> rings, ca |-> ca, known |-> known] \in Issues
    BY SMTT(30) DEF Issues
  <2> QED BY ZenonT(30), <1>0, <1>3, <1>4, <2>1 DEF CuTypeOK
<1>6. issued'[k] = [rings |-> rings, ca |-> ca, known |-> known]
  BY ZenonT(30), <1>0, <1>3, <1>4 DEF CuTypeOK
<1>7. FilesInv' /\ KnownFirst' /\ SelfInv'
  BY SMTT(30), <1>1, <1>5, SameDirectory
<1>8. CuTypeOK'
  <2>1. cu' \in Units /\ toWrite' \subseteq cu'.known
    BY ZenonT(30), <1>0, <1>1, <1>3, <1>4 DEF Units
  <2>2. keysMade' \in 0..MaxKeys
    BY SMTT(30), CuNumbers DEF Keys
  <2> QED BY ZenonT(30), <1>0, <1>1, <1>3, <1>5, <2>1, <2>2 DEF CuTypeOK
<1>9. KeysInv'
  <2>1. keysMade \in Nat /\ dirKeys \subseteq 1..keysMade
    BY ZenonT(30), <1>0, CuNumbers, NatsBelow DEF KeysInv, CuTypeOK
  <2>2. dirKeys \subseteq 1..k
    BY <1>2, <1>4, <2>1
  <2>3. PICK u : u = [key |-> k, cert |-> k, rings |-> rings, ca |-> ca, known |-> known,
                      loaded |-> FALSE]
    BY ZenonT(30)
  <2>4. u.key <= k /\ u.cert <= k
    BY <1>4, <2>3
  <2>5. dirKeys' = dirKeys /\ cu' = u
    BY ZenonT(30), <1>1, <1>3, <2>3
  <2> QED BY ZenonT(30), <1>2, <1>3, <2>2, <2>4, <2>5 DEF KeysInv
<1>10. UnitInv'
  BY ZenonT(30), <1>0, <1>1, <1>3, <1>4, <1>6 DEF UnitInv
<1>11. LoadedInv'
  BY <1>3 DEF LoadedInv
<1>12. QED
  BY SMTT(30), <1>7, <1>8, <1>9, <1>10, <1>11 DEF CuInv

\* The certificate is the CA's ...
LEMMA AfterEnrolled ==
  ASSUME NEW rings \in GroupRings, NEW s \in CaSerials, NEW known \in SUBSET CertIds,
         CuInv, Enrolled(rings, s, known)
  PROVE  CuInv'
<1>1. cuPhase = "request" /\ keysMade' = keysMade /\ created(rings, s, known)
  BY ZenonT(30) DEF Enrolled
<1>2. keysMade' \in Keys \ dirKeys /\ keysMade <= keysMade'
  BY <1>1 DEF CuInv, KeysInv, CuTypeOK
<1>3. rings \in Rings
  BY DEF Rings
<1>4. QED
  BY <1>1, <1>2, <1>3, AfterCreated

\* ... or self-signed.
LEMMA AfterSelfSigned == ASSUME CuInv, SelfSigned PROVE CuInv'
<1>1. cuPhase = "down" /\ keysMade' = keysMade + 1 /\ keysMade < MaxKeys
  BY DEF SelfSigned
<1>2. created(SelfSignedRings, None, {})
  BY ZenonT(30) DEF SelfSigned
<1>3. keysMade' \in Keys \ dirKeys /\ keysMade <= keysMade'
  BY <1>1, CuNumbers DEF CuInv, KeysInv, CuTypeOK, Keys
<1>4. SelfSignedRings \in Rings /\ None \in CaSerials \cup {None} /\ {} \in SUBSET CertIds
  BY ZenonT(30) DEF Rings
<1>5. QED
  BY <1>1, <1>2, <1>3, <1>4, AfterCreated

\* A client that runs: what it may be about to write, and where it is in
\* SaveCertificate.
Running == {"running", "saveKnown", "saveSelf"}

\* The unit writes into the directory: it stems from there, or its key joins
\* those that do.
LEMMA Writer ==
  ASSUME CuInv, cuPhase \in Running, cuPhase' \in Running,
         NEW c \in {cu.key, cu.cert}, dirKeys' = dirKeys \cup {c},
         UNCHANGED <<cu, issued, keysMade>>, skipped => skipped',
         cuPhase' # "saveKnown" => toWrite' = {},
         cuPhase' \in {"saveKnown", "saveSelf"} => cu.ca # None,
         cuPhase' = "saveKnown" /\ ~skipped' =>
           \A i \in cu.known \ toWrite' : gPem'[i] # "absent"
  PROVE  /\ KeysInv' /\ UnitInv' /\ LoadedInv'
         /\ c \in Keys /\ dirKeys' \subseteq Keys
         /\ cu.loaded => dirKeys' = dirKeys
         /\ ~cu.loaded => issued[c] = [rings |-> cu.rings, ca |-> cu.ca, known |-> cu.known]
<1>0. CuTypeOK /\ KeysInv /\ UnitInv /\ LoadedInv
  BY ZenonT(30) DEF CuInv
<1>1. cu.cert \in Keys /\ cu.key \in Keys
  BY ZenonT(30), <1>0 DEF UnitInv, Running
<1>2. c \in Keys /\ dirKeys' \subseteq Keys
  BY ZenonT(30), <1>0, <1>1 DEF CuTypeOK
<1>3. cu.loaded => dirKeys' = dirKeys
  BY ZenonT(30), <1>0 DEF UnitInv
<1>4. ~cu.loaded => /\ c = cu.cert /\ cu.key = cu.cert
                    /\ issued[c] = [rings |-> cu.rings, ca |-> cu.ca, known |-> cu.known]
  BY ZenonT(30), <1>0, <1>1 DEF UnitInv
<1>5. KeysInv'
  <2>1. c \in 1..keysMade
    <3>1. c \in Keys /\ c <= keysMade
      BY ZenonT(30), <1>0, <1>1 DEF KeysInv
    <3>2. keysMade \in Nat
      BY ZenonT(30), <1>0, NatsBelow DEF CuTypeOK
    <3> QED BY <3>1, <3>2, CuNumbers DEF Keys
  <2>2. cuPhase' # "request"
    BY SMTT(30) DEF Running
  <2>3. dirKeys' \subseteq 1..keysMade'
    BY ZenonT(30), <1>0, <2>1 DEF KeysInv
  <2> QED BY ZenonT(30), <1>0, <2>2, <2>3 DEF KeysInv
<1>6. UnitInv'
  <2>1. cuPhase' \notin {"down", "request"}
    BY SMTT(30) DEF Running
  <2>2. cu.cert \in Keys /\ ~cu.loaded =>
          /\ cu.key = cu.cert
          /\ issued[cu.cert] = [rings |-> cu.rings, ca |-> cu.ca, known |-> cu.known]
    BY ZenonT(30), <1>4
  <2>3. cu.loaded => /\ {cu.key, cu.cert} \subseteq dirKeys'
                     /\ \E k \in dirKeys' : issued[k].ca = cu.ca
                     /\ \A i \in cu.known : \E k \in dirKeys' : i \in issued[k].known
    BY ZenonT(30), <1>0, <1>3 DEF UnitInv
  <2> QED BY ZenonT(30), <1>1, <2>1, <2>2, <2>3 DEF UnitInv
<1>7. LoadedInv'
  <2> SUFFICES ASSUME NEW k \in Keys, cu.loaded, dirKeys' = {k}
               PROVE  /\ cu.key = k /\ cu.cert = k
                      /\ cu.rings = issued[k].rings /\ cu.ca = issued[k].ca
                      /\ cu.known \subseteq issued[k].known
                      /\ ~skipped' => cu.known = issued[k].known
    BY ZenonT(30) DEF LoadedInv
  <2>1. dirKeys = {k}
    BY ZenonT(30), <1>3
  <2> QED BY ZenonT(30), <1>0, <2>1 DEF LoadedInv
<1>8. QED
  BY ZenonT(30), <1>2, <1>3, <1>4, <1>5, <1>6, <1>7

\* A key joins those that wrote, and the CA's file stays: known participants'
\* files still come before it.
LEMMA KnownStayFirst ==
  ASSUME CuInv, NEW c, dirKeys' = dirKeys \cup {c}, issued' = issued, skipped => skipped',
         caPem' = caPem, Present(gPem) \subseteq Present(gPem')
  PROVE  KnownFirst'
<1> SUFFICES ASSUME NEW k \in Keys, dirKeys' = {k}, ~skipped', Present(caPem) # {}
             PROVE  issued[k].known \subseteq Present(gPem')
  BY ZenonT(30) DEF KnownFirst, Present
<1>1. dirKeys # {}
  BY DEF CuInv, FilesInv
<1>2. dirKeys = {k}
  BY ZenonT(30), <1>1
<1>3. issued[k].known \subseteq Present(gPem)
  BY <1>2 DEF CuInv, KnownFirst
<1>4. QED
  BY ZenonT(30), <1>3

\* SavePrivateKey, cut short or not.
LEMMA AfterSaveKey == ASSUME CuInv, SaveKey PROVE CuInv'
<1>0. CuTypeOK /\ UnitInv /\ FilesInv /\ SelfInv
  BY SMTT(30) DEF CuInv
<1>1. UNCHANGED <<cuPhase, cu, toWrite, selfPem, gPem, caPem, keysMade, issued, skipped,
                  loadedSelf>>
  BY SMTT(30) DEF SaveKey
<1>2. /\ cuPhase = "running" /\ dirKeys' = dirKeys \cup {cu.key}
      /\ keyPem' \in {cu.key, -cu.key, keyPem}
  BY SMTT(30) DEF SaveKey
<1>3. faults' \in 0..MaxFaults
  <2>1. faults \in 0..MaxFaults
    BY ZenonT(30), <1>0 DEF CuTypeOK
  <2>2. faults' = faults \/ (faults < MaxFaults /\ faults' = faults + 1)
    BY SMTT(30) DEF SaveKey, writes
  <2> QED BY <2>1, <2>2, CuNumbers
<1>4. PICK c : c = cu.key
  OBVIOUS
<1>5. /\ KeysInv' /\ UnitInv' /\ LoadedInv'
      /\ c \in Keys /\ dirKeys' \subseteq Keys
  <2>1. cuPhase \in Running /\ cuPhase' \in Running /\ cuPhase' = "running" /\ toWrite' = {}
    BY ZenonT(30), <1>0, <1>1, <1>2 DEF UnitInv, Running
  <2> QED BY ZenonT(30), <1>1, <1>2, <1>4, <2>1, Writer
<1>6. CuTypeOK'
  <2>1. keyPem' \in -MaxKeys..MaxKeys
    BY SMTT(30), <1>0, <1>2, <1>4, <1>5, CuNumbers DEF CuTypeOK, Keys
  <2> QED BY ZenonT(30), <1>0, <1>1, <1>3, <1>5, <2>1 DEF CuTypeOK
<1>7. FilesInv'
  <2>1. c \in dirKeys' /\ c \in Nat /\ dirKeys \subseteq dirKeys'
    <3>1. c \in Keys
      BY ZenonT(30), <1>5
    <3>2. c \in Nat
      BY <3>1, CuNumbers DEF Keys
    <3> QED BY ZenonT(30), <1>2, <1>4, <3>2
  <2>2. keyPem' # None => keyPem' \in dirKeys' \/ -keyPem' \in dirKeys'
    BY SMTT(30), <1>0, <1>2, <1>4, <2>1 DEF FilesInv
  <2>3. Present(selfPem') \subseteq dirKeys'
    BY ZenonT(30), <1>0, <1>1, <2>1 DEF FilesInv
  <2>4. \A s \in Present(caPem') : \E k \in dirKeys' : issued'[k].ca = s
    BY ZenonT(30), <1>0, <1>1, <2>1 DEF FilesInv
  <2>5. \A i \in Present(gPem') : \E k \in dirKeys' : i \in issued'[k].known
    BY <1>0, <1>1, <2>1 DEF FilesInv
  <2> QED BY ZenonT(30), <2>2, <2>3, <2>4, <2>5 DEF FilesInv, Present
<1>8. KnownFirst'
  BY ZenonT(30), <1>1, <1>2, KnownStayFirst
<1>9. SelfInv'
  BY ZenonT(30), <1>0, <1>1 DEF SelfInv, Present
<1>10. QED
  BY <1>5, <1>6, <1>7, <1>8, <1>9 DEF CuInv

\* SaveCertificate begins.
LEMMA AfterSaveCerts == ASSUME CuInv, SaveCerts PROVE CuInv'
<1>0. CuTypeOK /\ KeysInv /\ UnitInv /\ LoadedInv
  BY DEF CuInv
<1>1. UNCHANGED <<cu, keyPem, selfPem, gPem, caPem, keysMade, faults, issued, dirKeys,
                  skipped, loadedSelf>>
  BY DEF SaveCerts, cuFiles, cuHistory
<1>2. cuPhase = "running" /\ cu.ca # None /\ cuPhase' = "saveKnown" /\ toWrite' = cu.known
  BY SMTT(30) DEF SaveCerts
<1>3. FilesInv' /\ KnownFirst' /\ SelfInv'
  BY SMTT(30), <1>1, SameDirectory
<1>4. CuTypeOK'
  BY ZenonT(30), <1>0, <1>1, <1>2 DEF CuTypeOK
<1>5. KeysInv'
  BY SMTT(30), <1>0, <1>1, <1>2 DEF KeysInv
<1>6. UnitInv'
  BY ZenonT(30), <1>0, <1>1, <1>2 DEF UnitInv
<1>7. LoadedInv'
  BY ZenonT(30), <1>0, <1>1 DEF LoadedInv
<1>8. QED
  BY <1>3, <1>4, <1>5, <1>6, <1>7 DEF CuInv

\* Each known participant's file, cut short or not.
LEMMA AfterSaveKnown == ASSUME CuInv, saveKnown PROVE CuInv'
<1>0. CuTypeOK /\ UnitInv /\ FilesInv /\ SelfInv
  BY DEF CuInv
<1>1. UNCHANGED <<cuPhase, cu, keyPem, selfPem, caPem, keysMade, issued, loadedSelf>>
  BY DEF saveKnown
<1>2. PICK i \in toWrite, f \in Files :
        /\ toWrite' = toWrite \ {i} /\ writes(gPem[i], "torn", "whole", f)
        /\ gPem' = [gPem EXCEPT ![i] = f] /\ skipped' = (skipped \/ f = "absent")
  BY ZenonT(30) DEF saveKnown
<1>3. cuPhase = "saveKnown" /\ dirKeys' = dirKeys \cup {cu.cert} /\ cu.ca # None
  BY ZenonT(30), <1>0 DEF saveKnown, UnitInv
<1>4. /\ faults' \in 0..MaxFaults /\ skipped' \in BOOLEAN
      /\ gPem[i] # "absent" => f # "absent"
  <2>1. faults' \in 0..MaxFaults
    BY <1>0, <1>2, CuNumbers DEF CuTypeOK, writes
  <2>2. gPem[i] # "absent" => f # "absent"
    BY <1>2 DEF writes
  <2>3. skipped' \in BOOLEAN
    BY ZenonT(30), <1>2
  <2> QED BY ZenonT(30), <2>1, <2>2, <2>3
<1>5. i \in CertIds /\ gPem \in [CertIds -> Files] /\ i \in cu.known /\ cu.known \subseteq CertIds
  BY <1>0, <1>2 DEF CuTypeOK, Units
<1>6. PICK c : c = cu.cert
  BY SMTT(30)
<1>7. /\ KeysInv' /\ UnitInv' /\ LoadedInv'
      /\ c \in Keys /\ dirKeys' \subseteq Keys
      /\ cu.loaded => dirKeys' = dirKeys
      /\ ~cu.loaded => issued[c] = [rings |-> cu.rings, ca |-> cu.ca, known |-> cu.known]
  <2>1. cuPhase \in Running /\ cuPhase' \in Running /\ cuPhase' = "saveKnown"
    BY <1>1, <1>3 DEF Running
  <2>2. skipped => skipped'
    BY ZenonT(30), <1>2
  <2>3. ~skipped' => \A j \in cu.known \ toWrite' : gPem'[j] # "absent"
    <3> SUFFICES ASSUME ~skipped', NEW j \in cu.known \ toWrite' PROVE gPem'[j] # "absent"
      OBVIOUS
    <3>1. CASE j = i
      BY ZenonT(30), <1>2, <1>5, <3>1
    <3>2. CASE j # i
      <4>1. j \in cu.known \ toWrite /\ ~skipped
        BY ZenonT(30), <1>2, <3>2
      <4>2. gPem[j] # "absent"
        BY ZenonT(30), <1>0, <1>3, <4>1 DEF UnitInv
      <4> QED BY <1>2, <1>5, <3>2, <4>2
    <3> QED BY <3>1, <3>2
  <2> QED BY ZenonT(30), <1>1, <1>3, <1>6, <2>1, <2>2, <2>3, Writer
<1>8. CuTypeOK'
  <2>1. gPem' \in [CertIds -> Files] /\ toWrite' \subseteq cu'.known
    BY ZenonT(30), <1>0, <1>1, <1>2, <1>5 DEF CuTypeOK
  <2> QED BY ZenonT(30), <1>0, <1>1, <1>4, <1>7, <2>1 DEF CuTypeOK
<1>9. Present(gPem) \subseteq Present(gPem') /\ Present(gPem') \subseteq Present(gPem) \cup {i}
  BY ZenonT(30), <1>2, <1>4, <1>5 DEF Present
<1>10. FilesInv'
  <2>1. c \in dirKeys' /\ dirKeys \subseteq dirKeys'
    BY SMTT(30), <1>3, <1>6
  <2>2. \E k \in dirKeys' : i \in issued[k].known
    <3>1. CASE cu.loaded
      BY ZenonT(30), <1>0, <1>5, <2>1, <3>1 DEF UnitInv
    <3>2. CASE ~cu.loaded
      <4>1. PICK r : r = [rings |-> cu.rings, ca |-> cu.ca, known |-> cu.known]
        BY ZenonT(30)
      <4>2. issued[c] = r
        BY ZenonT(30), <1>7, <3>2, <4>1
      <4>3. issued[c].known = cu.known
        BY SMTT(30), <4>1, <4>2
      <4> QED BY ZenonT(30), <1>5, <2>1, <4>3
    <3> QED BY ZenonT(30), <3>1, <3>2
  <2>3. \A j \in Present(gPem') : \E k \in dirKeys' : j \in issued[k].known
    BY ZenonT(30), <1>0, <1>9, <2>1, <2>2 DEF FilesInv
  <2>4. Present(selfPem') \subseteq dirKeys' /\ (keyPem' # None => keyPem' \in dirKeys' \/ -keyPem' \in dirKeys')
    BY ZenonT(30), <1>0, <1>1, <2>1 DEF FilesInv
  <2>5. \A s \in Present(caPem') : \E k \in dirKeys' : issued[k].ca = s
    BY ZenonT(30), <1>0, <1>1, <2>1 DEF FilesInv
  <2> QED BY ZenonT(30), <1>1, <2>3, <2>4, <2>5 DEF FilesInv, Present
<1>11. KnownFirst'
  BY ZenonT(30), <1>1, <1>2, <1>3, <1>9, KnownStayFirst
<1>12. SelfInv'
  BY ZenonT(30), <1>0, <1>1 DEF SelfInv, Present
<1>13. QED
  BY ZenonT(30), <1>7, <1>8, <1>10, <1>11, <1>12 DEF CuInv

\* The CA's file comes after the known ones.
LEMMA AfterSaveCa == ASSUME CuInv, saveCa PROVE CuInv'
<1>0. CuTypeOK /\ UnitInv /\ FilesInv /\ LoadedInv /\ SelfInv
  BY SMTT(30) DEF CuInv
<1>1. UNCHANGED <<cu, toWrite, keyPem, selfPem, gPem, keysMade, issued, skipped, loadedSelf>>
  BY SMTT(30) DEF saveCa
<1>2. /\ cuPhase = "saveKnown" /\ cuPhase' = "saveSelf" /\ toWrite = {}
      /\ dirKeys' = dirKeys \cup {cu.cert} /\ cu.ca # None
  BY ZenonT(30), <1>0 DEF saveCa, UnitInv
<1>3. PICK f \in Files : /\ writes(caPem[cu.ca], "torn", "whole", f)
                         /\ caPem' = [caPem EXCEPT ![cu.ca] = f]
  BY ZenonT(30) DEF saveCa
<1>4. faults' \in 0..MaxFaults
  <2>1. faults \in 0..MaxFaults
    BY ZenonT(30), <1>0 DEF CuTypeOK
  <2>2. faults' = faults \/ (faults < MaxFaults /\ faults' = faults + 1)
    BY ZenonT(30), <1>3 DEF writes
  <2> QED BY <2>1, <2>2, CuNumbers
<1>5. /\ cu.ca \in CaSerials /\ caPem \in [CaSerials -> Files]
      /\ cu.known \subseteq CertIds /\ gPem \in [CertIds -> Files]
  BY <1>0, <1>2 DEF CuTypeOK, Units
<1>6. PICK c : c = cu.cert
  BY SMTT(30)
<1>7. /\ KeysInv' /\ UnitInv' /\ LoadedInv'
      /\ c \in Keys /\ dirKeys' \subseteq Keys
      /\ cu.loaded => dirKeys' = dirKeys
      /\ ~cu.loaded => issued[c] = [rings |-> cu.rings, ca |-> cu.ca, known |-> cu.known]
  <2>1. cuPhase \in Running /\ cuPhase' \in Running /\ cuPhase' # "saveKnown" /\ toWrite' = {}
    BY SMTT(30), <1>1, <1>2 DEF Running
  <2> QED BY ZenonT(30), <1>1, <1>2, <1>6, <2>1, Writer
<1>8. CuTypeOK'
  <2>1. caPem' \in [CaSerials -> Files]
    BY SMTT(30), <1>3, <1>5
  <2> QED BY ZenonT(30), <1>0, <1>1, <1>2, <1>4, <1>7, <2>1 DEF CuTypeOK
<1>9. FilesInv'
  <2>1. c \in dirKeys' /\ dirKeys \subseteq dirKeys'
    BY ZenonT(30), <1>2, <1>6
  <2>2. \E k \in dirKeys' : issued[k].ca = cu.ca
    <3>1. CASE cu.loaded
      BY ZenonT(30), <1>0, <2>1, <3>1 DEF UnitInv
    <3>2. CASE ~cu.loaded
      <4>1. PICK r : r = [rings |-> cu.rings, ca |-> cu.ca, known |-> cu.known]
        BY ZenonT(30)
      <4>2. issued[c] = r
        BY ZenonT(30), <1>7, <3>2, <4>1
      <4>3. issued[c].ca = cu.ca
        BY SMTT(30), <4>1, <4>2
      <4> QED BY ZenonT(30), <2>1, <4>3
    <3> QED BY SMTT(30), <3>1, <3>2
  <2>3. \A s \in Present(caPem') : s = cu.ca \/ s \in Present(caPem)
    BY ZenonT(30), <1>3, <1>5 DEF Present
  <2>4. \A s \in Present(caPem') : \E k \in dirKeys' : issued[k].ca = s
    BY ZenonT(30), <1>0, <2>1, <2>2, <2>3 DEF FilesInv
  <2>5. Present(selfPem') \subseteq dirKeys' /\ (keyPem' # None => keyPem' \in dirKeys' \/ -keyPem' \in dirKeys')
    BY ZenonT(30), <1>0, <1>1, <2>1 DEF FilesInv
  <2>6. \A i \in Present(gPem') : \E k \in dirKeys' : i \in issued[k].known
    BY ZenonT(30), <1>0, <1>1, <2>1 DEF FilesInv
  <2> QED BY ZenonT(30), <1>1, <2>4, <2>5, <2>6 DEF FilesInv, Present
<1>10. KnownFirst'
  <2> SUFFICES ASSUME NEW k \in Keys, dirKeys' = {k}, ~skipped
               PROVE  issued[k].known \subseteq Present(gPem)
    BY <1>1 DEF KnownFirst, Present
  <2>1. c = k
    BY ZenonT(30), <1>2, <1>6
  <2>2. cu.known \subseteq Present(gPem)
    <3>1. \A i \in cu.known : gPem[i] # "absent"
      BY ZenonT(30), <1>0, <1>2 DEF UnitInv
    <3> QED BY SMTT(30), <1>5, <3>1 DEF Present
  <2>3. issued[k].known = cu.known
    <3>1. CASE cu.loaded
      <4>1. dirKeys = {k}
        BY ZenonT(30), <1>7, <3>1
      <4> QED BY ZenonT(30), <1>0, <3>1, <4>1 DEF LoadedInv
    <3>2. CASE ~cu.loaded
      BY <1>7, <2>1, <3>2
    <3> QED BY ZenonT(30), <3>1, <3>2
  <2> QED BY ZenonT(30), <2>2, <2>3
<1>11. SelfInv'
  BY ZenonT(30), <1>0, <1>1 DEF SelfInv, Present
<1>12. QED
  BY ZenonT(30), <1>7, <1>8, <1>9, <1>10, <1>11 DEF CuInv

\* The own certificate comes last.
LEMMA AfterSaveSelf == ASSUME CuInv, saveSelf PROVE CuInv'
<1>0. CuTypeOK /\ UnitInv /\ FilesInv /\ SelfInv
  BY DEF CuInv
<1>1. UNCHANGED <<cu, toWrite, keyPem, gPem, caPem, keysMade, issued, skipped, loadedSelf>>
  BY SMTT(30) DEF saveSelf
<1>2. /\ cuPhase = "saveSelf" /\ cuPhase' = "running" /\ toWrite = {}
      /\ dirKeys' = dirKeys \cup {cu.cert}
  BY ZenonT(30), <1>0 DEF saveSelf, UnitInv
<1>3. PICK c : c = cu.cert
  OBVIOUS
<1>4. PICK f \in Files : /\ writes(selfPem[c], "torn", "whole", f)
                         /\ selfPem' = [selfPem EXCEPT ![c] = f]
  BY ZenonT(30), <1>3 DEF saveSelf
<1>5. faults' \in 0..MaxFaults /\ (selfPem[c] # "absent" => f # "absent")
  BY <1>0, <1>4, CuNumbers DEF CuTypeOK, writes
<1>6. /\ KeysInv' /\ UnitInv' /\ LoadedInv'
      /\ c \in Keys /\ dirKeys' \subseteq Keys
  <2>1. cuPhase \in Running /\ cuPhase' \in Running /\ cuPhase' = "running" /\ toWrite' = {}
    BY SMTT(30), <1>1, <1>2 DEF Running
  <2> QED BY ZenonT(30), <1>1, <1>2, <1>3, <2>1, Writer
<1>7. selfPem \in [Keys -> Files] /\ selfPem' \in [Keys -> Files]
  BY ZenonT(30), <1>0, <1>4, <1>6 DEF CuTypeOK
<1>8. CuTypeOK'
  BY ZenonT(30), <1>0, <1>1, <1>2, <1>5, <1>6, <1>7 DEF CuTypeOK
<1>9. Present(selfPem) \subseteq Present(selfPem') /\ Present(selfPem') \subseteq Present(selfPem) \cup {c}
  BY SMTT(30), <1>4, <1>5, <1>6, <1>7 DEF Present
<1>10. FilesInv'
  <2>1. c \in dirKeys' /\ dirKeys \subseteq dirKeys'
    BY SMTT(30), <1>2, <1>3
  <2>2. Present(selfPem') \subseteq dirKeys'
    BY ZenonT(30), <1>0, <1>9, <2>1 DEF FilesInv
  <2>3. keyPem' # None => keyPem' \in dirKeys' \/ -keyPem' \in dirKeys'
    BY ZenonT(30), <1>0, <1>1, <2>1 DEF FilesInv
  <2>4. \A s \in Present(caPem') : \E k \in dirKeys' : issued[k].ca = s
    BY ZenonT(30), <1>0, <1>1, <2>1 DEF FilesInv
  <2>5. \A i \in Present(gPem') : \E k \in dirKeys' : i \in issued[k].known
    BY ZenonT(30), <1>0, <1>1, <2>1 DEF FilesInv
  <2> QED BY ZenonT(30), <1>1, <2>2, <2>3, <2>4, <2>5 DEF FilesInv, Present
<1>11. KnownFirst'
  BY ZenonT(30), <1>1, <1>2, KnownStayFirst
<1>12. SelfInv'
  <2>1. loadedSelf \subseteq Present(selfPem')
    BY <1>0, <1>9 DEF SelfInv
  <2> QED BY SMTT(30), <1>0, <1>1, <2>1 DEF SelfInv, Present
<1>13. QED
  BY ZenonT(30), <1>6, <1>8, <1>10, <1>11, <1>12 DEF CuInv

\* LoadCu puts a unit together from the files.
LEMMA AfterLoadCu == ASSUME CuInv, LoadCu PROVE CuInv'
<1>0. CuTypeOK /\ KeysInv /\ UnitInv /\ FilesInv /\ KnownFirst /\ SelfInv
  BY ZenonT(30) DEF CuInv
<1>1. UNCHANGED <<toWrite, keyPem, selfPem, gPem, caPem, keysMade, faults, issued, dirKeys,
                  skipped>>
  BY SMTT(30) DEF LoadCu, cuFiles
<1>2. cuPhase = "down" /\ cuPhase' = "running" /\ keyPem > 0 /\ toWrite = {}
  BY ZenonT(30), <1>0 DEF LoadCu, UnitInv
<1>3. PICK k \in selfFound, s \in CaSerials :
        /\ caPem[s] = "whole"
        /\ cu' = [key |-> keyPem, cert |-> k, rings |-> issued[k].rings, ca |-> s,
                  known |-> Present(gPem), loaded |-> TRUE]
        /\ loadedSelf' = loadedSelf \cup {k}
  BY ZenonT(30) DEF LoadCu
<1>4. k \in Keys /\ Present(selfPem) = {k}
  BY ZenonT(30), <1>3 DEF selfFound
<1>5. k \in dirKeys
  BY SMTT(30), <1>0, <1>4 DEF FilesInv
<1>6. s \in Present(caPem) /\ s # None
  <2>1. s # None
    BY <1>3, CuNumbers DEF None
  <2> QED BY ZenonT(30), <1>0, <1>3, <2>1 DEF CuTypeOK, Present
<1>7. keyPem \in dirKeys /\ keyPem \in Keys
  <2>0. keyPem \in -MaxKeys..MaxKeys
    BY ZenonT(30), <1>0 DEF CuTypeOK
  <2>1. keyPem \in Int /\ -keyPem \notin Keys /\ keyPem # None
    BY <1>2, <2>0, CuNumbers DEF Keys, None
  <2>2. dirKeys \subseteq Keys
    BY ZenonT(30), <1>0 DEF CuTypeOK
  <2> QED BY ZenonT(30), <1>0, <2>1, <2>2 DEF FilesInv
<1>8. PICK K : K = Present(gPem)
  BY SMTT(30)
<1>9. K \subseteq CertIds /\ \A i \in K : \E j \in dirKeys : i \in issued[j].known
  BY ZenonT(30), <1>0, <1>8 DEF FilesInv, CuTypeOK, Present
<1>10. \E j \in dirKeys : issued[j].ca = s
  BY ZenonT(30), <1>0, <1>6 DEF FilesInv
<1>11. issued[k] \in Issues
  BY ZenonT(30), <1>0, <1>4 DEF CuTypeOK
<1>12. /\ cu'.key = keyPem /\ cu'.cert = k /\ cu'.rings = issued[k].rings /\ cu'.ca = s
       /\ cu'.known = K /\ cu'.loaded
  BY SMTT(30), <1>3, <1>8
<1>13. CuTypeOK'
  <2>1. cu' \in Units
    BY ZenonT(30), <1>3, <1>4, <1>7, <1>8, <1>9, <1>11 DEF Units, Issues
  <2>2. loadedSelf' \subseteq Keys /\ toWrite' \subseteq cu'.known
    BY ZenonT(30), <1>0, <1>1, <1>2, <1>3, <1>4 DEF CuTypeOK
  <2> QED BY ZenonT(30), <1>0, <1>1, <1>2, <2>1, <2>2 DEF CuTypeOK
<1>14. KeysInv'
  <2>1. cu'.key \in 1..keysMade /\ cu'.cert \in 1..keysMade
    BY ZenonT(30), <1>0, <1>5, <1>7, <1>12 DEF KeysInv
  <2>2. keysMade \in Nat
    <3>1. keysMade \in 0..MaxKeys
      BY ZenonT(30), <1>0 DEF CuTypeOK
    <3> QED BY <3>1
  <2>3. cu'.key <= keysMade /\ cu'.cert <= keysMade
    BY <2>1, <2>2
  <2> QED BY ZenonT(30), <1>0, <1>1, <1>2, <2>3 DEF KeysInv
<1>15. UnitInv'
  <2>1. cu'.loaded /\ cu'.key \in Keys /\ cu'.cert \in Keys /\ {cu'.key, cu'.cert} \subseteq dirKeys'
    BY ZenonT(30), <1>1, <1>4, <1>5, <1>7, <1>12
  <2>2. \E j \in dirKeys' : issued'[j].ca = cu'.ca
    BY ZenonT(30), <1>1, <1>10, <1>12
  <2>3. \A i \in cu'.known : \E j \in dirKeys' : i \in issued'[j].known
    BY <1>1, <1>9, <1>12
  <2> QED BY ZenonT(30), <1>1, <1>2, <2>1, <2>2, <2>3 DEF UnitInv
<1>16. FilesInv' /\ KnownFirst'
  BY SMTT(30), <1>1, SameDirectory
<1>17. LoadedInv'
  <2> SUFFICES ASSUME NEW j \in Keys, dirKeys = {j}
               PROVE  /\ keyPem = j /\ k = j
                      /\ issued[k].rings = issued[j].rings /\ s = issued[j].ca
                      /\ K \subseteq issued[j].known
                      /\ ~skipped => K = issued[j].known
    BY ZenonT(30), <1>1, <1>12 DEF LoadedInv
  <2>1. keyPem = j /\ k = j /\ s = issued[j].ca
    BY <1>5, <1>7, <1>10
  <2>2. K \subseteq issued[j].known
    BY <1>9
  <2>3. ~skipped => issued[j].known \subseteq K
    BY SMTT(30), <1>0, <1>6, <1>8 DEF KnownFirst
  <2> QED BY ZenonT(30), <2>1, <2>2, <2>3
<1>18. SelfInv'
  BY ZenonT(30), <1>0, <1>1, <1>3, <1>4 DEF SelfInv, Present
<1>19. QED
  BY ZenonT(30), <1>13, <1>14, <1>15, <1>16, <1>17, <1>18 DEF CuInv

\* Every step keeps the invariant.
LEMMA CuStepInv == CuInv /\ [CuNext]_cuVars => CuInv'
<1> SUFFICES ASSUME CuInv, [CuNext]_cuVars PROVE CuInv'
  OBVIOUS
<1>1. CASE UNCHANGED cuVars
  <2> USE <1>1 DEF CuInv, cuVars, cuFiles, cuHistory
  <2>1. CuTypeOK'
    BY ZenonT(30) DEF CuTypeOK
  <2>2. KeysInv'
    BY ZenonT(30) DEF KeysInv
  <2>3. UnitInv'
    BY ZenonT(30) DEF UnitInv
  <2>4. FilesInv' /\ KnownFirst'
    BY ZenonT(30) DEF FilesInv, KnownFirst, Present
  <2>5. LoadedInv' /\ SelfInv'
    BY ZenonT(30) DEF LoadedInv, SelfInv, Present
  <2>6. QED
    BY ZenonT(30), <2>1, <2>2, <2>3, <2>4, <2>5
<1>2. CASE RequestCert
  BY <1>2, AfterRequestCert
<1>3. CASE EnrolFails
  <2>1. cu = NoCu /\ toWrite = {}
    BY ZenonT(30), <1>3 DEF CuInv, UnitInv, EnrolFails
  <2> QED BY SMTT(30), <1>3, <2>1, AfterEnding DEF EnrolFails, cuFiles, cuHistory
<1>4. ASSUME NEW rings \in GroupRings, NEW s \in CaSerials,
              NEW known \in SUBSET CertIds, Enrolled(rings, s, known)
      PROVE  CuInv'
  BY SMTT(30), <1>4, AfterEnrolled
<1>5. CASE SelfSigned
  BY <1>5, AfterSelfSigned
<1>6. CASE SaveKey
  BY <1>6, AfterSaveKey
<1>7. CASE SaveCerts
  BY <1>7, AfterSaveCerts
<1>8. CASE SaveCertsPanics
  <2>1. toWrite = {}
    BY ZenonT(30), <1>8 DEF CuInv, UnitInv, SaveCertsPanics
  <2> QED BY ZenonT(30), <1>8, <2>1, AfterEnding DEF SaveCertsPanics, cuFiles, cuHistory
<1>9. CASE saveKnown
  BY <1>9, AfterSaveKnown
<1>10. CASE saveCa
  BY <1>10, AfterSaveCa
<1>11. CASE saveSelf
  BY <1>11, AfterSaveSelf
<1>12. CASE LoadCu
  BY <1>12, AfterLoadCu
<1>13. CASE ClientDies
  BY <1>13, AfterEnding DEF ClientDies, cuFiles, cuHistory
<1>14. QED
  BY ZenonT(30), <1>1, <1>2, <1>3, <1>4, <1>5, <1>6, <1>7, <1>8, <1>9, <1>10, <1>11, <1>12, <1>13
  DEF CuNext, cuStep

\* The invariant holds in every reachable state.
LEMMA CuInvariance == CuSpec => []CuInv
  BY CuInitInv, CuStepInv, PTL DEF CuSpec

\* NewCu, LoadCu, SavePrivateKey and SaveCertificate keep the types of the
\* unit and of the files.
THEOREM CuTypeCorrect == CuSpec => []CuTypeOK
<1>1. CuInv => CuTypeOK
  BY ZenonT(30) DEF CuInv
<1>2. QED
  BY <1>1, CuInvariance, PTL

\* Whatever SavePrivateKey and SaveCertificate were cut short in, LoadCu
\* returns what one enrolment was issued, if only one wrote the directory.
THEOREM LoadsWhatWasIssued == CuSpec => []LoadedAsIssued
<1>1. CuInv => LoadedAsIssued
  <2> SUFFICES ASSUME CuTypeOK, LoadedInv, cu.loaded, Cardinality(dirKeys) = 1
               PROVE  /\ cu.key = cu.cert
                      /\ cu.rings = issued[cu.cert].rings /\ cu.ca = issued[cu.cert].ca
                      /\ cu.known \subseteq issued[cu.cert].known
                      /\ ~skipped => cu.known = issued[cu.cert].known
    BY DEF CuInv, LoadedAsIssued
  <2>1. IsFiniteSet(Keys)
    BY SMTT(30), CuNumbers, FS_Interval DEF Keys
  <2>2. dirKeys \subseteq Keys
    BY DEF CuTypeOK
  <2>3. IsFiniteSet(dirKeys)
    BY <2>1, <2>2, FS_Subset
  <2>4. PICK k : dirKeys = {k}
    BY ZenonT(30), <2>3, FS_Singleton
  <2>5. k \in Keys
    BY ZenonT(30), <2>2, <2>4
  <2>6. QED
    BY ZenonT(30), <2>4, <2>5 DEF LoadedInv
<1>2. QED
  BY <1>1, CuInvariance, PTL

\* LoadCu never returns two different own certificates, however many
\* enrolments saved theirs into the directory.
THEOREM IdentityNeverChanges == CuSpec => []IdentityIsStable
<1>1. CuInv => IdentityIsStable
  <2> SUFFICES ASSUME SelfInv PROVE Cardinality(loadedSelf) <= 1
    BY DEF CuInv, IdentityIsStable
  <2>1. CASE loadedSelf = {}
    BY <2>1, FS_EmptySet
  <2>2. CASE loadedSelf # {}
    <3>1. PICK k : k \in loadedSelf
      BY <2>2
    <3>2. loadedSelf = {k}
      BY <3>1 DEF SelfInv
    <3>3. Cardinality(loadedSelf) = 1
      BY ZenonT(30), <3>2, FS_Singleton
    <3>4. QED
      BY <3>3
  <2>3. QED
    BY <2>1, <2>2
<1>2. QED
  BY <1>1, CuInvariance, PTL

-----------------------------------------------------------------------------
\* Each process alone takes every step it takes beside the other at rest.
THEOREM AloneInEnrolment == ESpec => Spec /\ CuSpec
<1>1. EInit => Init /\ CuInit
  BY ZenonT(30) DEF EInit
<1>2. [ENext]_enrolVars => [Next]_vars /\ [CuNext]_cuVars
  <2>1. CASE UNCHANGED enrolVars
    BY <2>1 DEF enrolVars
  <2>2. CASE Next /\ UNCHANGED cuVars
    BY <2>2
  <2>3. CASE CuNext /\ UNCHANGED vars
    BY <2>3
  <2> QED BY ZenonT(30), <2>1, <2>2, <2>3 DEF ENext
<1>3. QED
  BY <1>1, <1>2, PTL DEF ESpec, Spec, CuSpec

\* The client enrolled by the authority, the two running together, is a run of
\* the authority and a run of the client with any authority: so the theorems
\* on Spec and on CuSpec hold of it.
THEOREM TogetherAsAlone == Together => Spec /\ CuSpec
<1>1. ASSUME CaInv, [TogetherNext]_<<vars, cuVars>>
      PROVE  [Next]_vars /\ [CuNext]_cuVars
  <2>1. CASE UNCHANGED <<vars, cuVars>>
    BY <2>1
  <2>2. CASE Next /\ UNCHANGED cuVars
    BY <2>2
  <2>3. CASE (cuStep \/ EnrolFails \/ ClientDies) /\ UNCHANGED vars
    BY <2>3 DEF CuNext
  <2>4. ASSUME NEW h \in Handlers, sendCertRequest(h)
        PROVE  [Next]_vars /\ [CuNext]_cuVars
    <3>1. Reply(h) /\ Enrolled(req[h].rings, served, Range(req[h].known))
      BY ZenonT(30), <2>4 DEF sendCertRequest
    <3>2. req[h].pc = "reply"
      BY ZenonT(30), <3>1 DEF Reply
    <3>3. /\ req[h].rings \in GroupRings /\ served \in CaSerials
          /\ Range(req[h].known) \in SUBSET CertIds
      BY <1>1, <3>2, CoveredByInv DEF AnswersCovered, Replied
    <3>4. CuNext
      <4> HIDE DEF Enrolled
      <4> QED BY ZenonT(30), <3>1, <3>3 DEF CuNext
    <3>5. Next
      BY ZenonT(30), <3>1 DEF Next, certificateSigning
    <3> QED BY ZenonT(30), <3>4, <3>5
  <2> QED BY ZenonT(30), <1>1, <2>1, <2>2, <2>3, <2>4 DEF TogetherNext
<1>2. CaInv /\ [TogetherNext]_<<vars, cuVars>> => CaInv'
  BY <1>1, CaStepInv
<1>3. CaInv /\ [TogetherNext]_<<vars, cuVars>> => [Next]_vars /\ [CuNext]_cuVars
  BY <1>1
<1>4. QED
  BY <1>2, <1>3, CaInitInv, PTL DEF Together, Spec, CuSpec
=============================================================================
