--------------------------------- MODULE Ca ---------------------------------
(***************************************************************************)
(* The certificate authority (src/cauth/cauth.go) and the daemon that runs *)
(* it (src/cmd/ca/main.go): certificate requests served at the same time,  *)
(* and what a crash and a restart leave of them.                           *)
(*                                                                         *)
(* A key and the group created with it are known by the group's serial     *)
(* number; a participant's certificate is the id (SubjectKeyId) in it and  *)
(* a group's certificate the ring number in it.  A file is written in two  *)
(* steps, for a crash may come between os.Create, which empties it, and    *)
(* pem.Encode.  A request that does not parse, or that reaches a CA with   *)
(* no group (the handler panics, net/http recovers), changes nothing and   *)
(* does not appear.                                                        *)
(***************************************************************************)
EXTENDS Integers, Sequences, FiniteSetsExt

CONSTANTS Serials,       \* serial numbers of groups: bounds the uses of --new
          RingNumbers,   \* values the operator may give NumRings
          NumBootNodes,  \* NumBootNodes of the daemon's configuration
          Ids, Nil,      \* the nonces genId draws from, and no certificate
          Handlers,      \* requests served at the same time
          MaxRuns        \* bound: starts of the daemon

ASSUME CaNumbers == /\ Serials \subseteq Nat \ {0}
                    /\ RingNumbers \subseteq Nat \ {0}
                    /\ NumBootNodes \in Nat \ {0}
                    /\ MaxRuns \in Nat
ASSUME CaIds == Nil \notin Ids

VARIABLES keyFile,    \* key.pem: Absent, Torn or a key
          certFile,   \* g-<serial>.pem: Absent, Torn or a ring number
          runs, phase,
          exiting,    \* the save under way is the deferred one of main
          privKey, groups, toSave, \* groups: serial -> ring number in groupCert
          numRings, bootNodes, knownCerts, currBootNodes, existingIds, \* groups[0]
          req         \* the requests being served; mine: known before its own was added

diskVars == <<keyFile, certFile>>
daemonVars == <<runs, phase, exiting, toSave>>
caVars == <<privKey, groups, numRings, bootNodes>>
groupVars == <<knownCerts, currBootNodes, existingIds>>
vars == <<diskVars, daemonVars, caVars, groupVars, req>>

Absent == 0
Torn == -1
NoReq == [pc |-> "idle", id |-> Nil, rings |-> 0, trusted |-> FALSE,
          known |-> <<>>, mine |-> {}]

onDisk == {s \in Serials : certFile[s] # Absent}

\* LoadCa gets past the files: a missing key is an error, and a torn file
\* makes pem.Decode return nil, which is then dereferenced.
loadable == keyFile \notin {Absent, Torn} /\ \A s \in onDisk : certFile[s] # Torn

\* groups[0], filepath.Glob giving the names in order.
served == IF DOMAIN groups = {} THEN Absent ELSE Min(DOMAIN groups)

Init ==
  /\ keyFile = Absent
  /\ certFile = [s \in Serials |-> Absent]
  /\ runs = 0 /\ phase = "down" /\ exiting = FALSE
  /\ privKey = Absent /\ groups = <<>> /\ toSave = {}
  /\ numRings = 0 /\ bootNodes = 0
  /\ knownCerts = <<>> /\ currBootNodes = 0 /\ existingIds = {}
  /\ req = [h \in Handlers |-> NoReq]

-----------------------------------------------------------------------------
\* The daemon starts with key k, groups g and, in groups[0], room for boot
\* certificates, none of them known; it saves its state before it serves.
Starts(k, g, rings, boot) ==
  /\ phase = "down" /\ runs < MaxRuns
  /\ runs' = runs + 1 /\ phase' = "createKey" /\ exiting' = FALSE
  /\ privKey' = k /\ groups' = g /\ toSave' = DOMAIN g
  /\ numRings' = rings /\ bootNodes' = boot
  /\ knownCerts' = [i \in 1..boot |-> Nil] /\ currBootNodes' = 0
  /\ existingIds' = {}
  /\ UNCHANGED <<diskVars, req>>

\* main --new (NewCa, NewGroup), which main advises when LoadCa fails.
NewCa(s, rings) ==
  /\ ~loadable
  /\ s \notin onDisk
  /\ Starts(s, [g \in {s} |-> rings], rings, NumBootNodes)

\* Mutant of ringsOf: the ring number the group is used with is the configured one.
ringsOfConfig(s, rings) == rings

\* LoadCa starts from the argument and overwrites it from the certificate's
\* extension.
ringsOf(s, rings) == certFile[s]

\* main without --new.  LoadCa(path, numBootNodes, numRings) is called with
\* NumRings and NumBootNodes, in this order.
LoadCa(rings) ==
  /\ loadable
  /\ Starts(keyFile, [s \in onDisk |-> certFile[s]],
            IF onDisk = {} THEN 0 ELSE ringsOf(Min(onDisk), NumBootNodes), rings)

-----------------------------------------------------------------------------
\* saveState, before the daemon serves and again when it exits: the key ...
SavePrivateKey ==
  /\ \/ phase = "createKey" /\ keyFile' = Torn /\ phase' = "encodeKey"
     \/ phase = "encodeKey" /\ keyFile' = privKey /\ phase' = "saveCerts"
  /\ UNCHANGED <<certFile, runs, exiting, toSave, caVars, groupVars, req>>

\* ... then the groups, one file after the other.
SaveCertificate ==
  /\ toSave # {}
  /\ LET s == Min(toSave)
     IN  \/ /\ phase = "saveCerts" /\ phase' = "encodeCert"
            /\ certFile' = [certFile EXCEPT ![s] = Torn]
            /\ UNCHANGED toSave
         \/ /\ phase = "encodeCert" /\ phase' = "saveCerts"
            /\ certFile' = [certFile EXCEPT ![s] = groups[s]]
            /\ toSave' = toSave \ {s}
  /\ UNCHANGED <<keyFile, runs, exiting, caVars, groupVars, req>>

\* Mutant of allSaved: saveState returns before the certificates are written.
allSavedKeyOnly == phase = "saveCerts"

allSaved == phase = "saveCerts" /\ toSave = {}

\* main goes on: ca.Start after the first save, exit after the deferred one.
Saved ==
  /\ allSaved
  /\ phase' = IF exiting THEN "down" ELSE "serving"
  /\ UNCHANGED <<diskVars, runs, exiting, toSave, caVars, groupVars, req>>

\* SIGTERM: the server takes no new request and waits for those under way;
\* main's deferred saveState follows.
Signal ==
  /\ phase = "serving"
  /\ phase' = "draining"
  /\ UNCHANGED <<diskVars, runs, exiting, toSave, caVars, groupVars, req>>

Shutdown ==
  /\ phase = "draining"
  /\ \A h \in Handlers : req[h] = NoReq
  /\ phase' = "createKey" /\ exiting' = TRUE /\ toSave' = DOMAIN groups
  /\ UNCHANGED <<diskVars, runs, caVars, groupVars, req>>

\* The process dies, at any moment; the disk stays as it is.
Crash ==
  /\ phase # "down"
  /\ phase' = "down" /\ exiting' = FALSE /\ toSave' = {}
  /\ req' = [h \in Handlers |-> NoReq]
  /\ UNCHANGED <<diskVars, runs, caVars, groupVars>>

-----------------------------------------------------------------------------
\* Mutant of unusedIds: genId does not look the nonce up.
unusedIdsAny == Ids

unusedIds == Ids \ existingIds

\* certificateSigning up to the end of genId.
genId(h) ==
  /\ phase = "serving" /\ served # Absent
  /\ req[h] = NoReq
  /\ \E id \in unusedIds :
       /\ existingIds' = existingIds \union {id}
       /\ req' = [req EXCEPT ![h] = [NoReq EXCEPT !.pc = "sign", !.id = id,
                                                  !.rings = numRings]]
  /\ UNCHANGED <<diskVars, daemonVars, caVars, knownCerts, currBootNodes>>

\* x509.CreateCertificate fails, or (some versions of the library) refuses a
\* key that is not the group's: the handler returns without a reply.
SignFails(h) ==
  /\ req[h].pc = "sign"
  /\ req' = [req EXCEPT ![h] = NoReq]
  /\ UNCHANGED <<diskVars, daemonVars, caVars, groupVars>>

\* Mutant of isTrusted: the count from before the increment is compared.
isTrustedBefore == currBootNodes <= bootNodes

\* currBootNodes <= bootNodes, after the increment.
isTrusted == currBootNodes + 1 <= bootNodes

addKnownCert(h) ==
  LET id == req[h].id
  IN  /\ req[h].pc = "sign"
      /\ knownCerts' = IF currBootNodes < bootNodes
                       THEN [knownCerts EXCEPT ![currBootNodes + 1] = id]
                       ELSE knownCerts
      /\ currBootNodes' = currBootNodes + 1
      /\ req' = [req EXCEPT ![h].pc = "list", ![h].trusted = isTrusted,
                            ![h].mine = Range(knownCerts) \ {Nil}]
      /\ UNCHANGED <<diskVars, daemonVars, caVars, existingIds>>

\* Mutant of listed: certificates are taken from the second on.
listedTail == IF currBootNodes >= bootNodes THEN knownCerts
              ELSE SubSeq(knownCerts, 2, currBootNodes + 1)

listed == IF currBootNodes >= bootNodes THEN knownCerts
          ELSE SubSeq(knownCerts, 1, currBootNodes)

getTrustedNodes(h) ==
  /\ req[h].pc = "list"
  /\ req' = [req EXCEPT ![h].pc = "reply", ![h].known = listed]
  /\ UNCHANGED <<diskVars, daemonVars, caVars, groupVars>>

\* The reply is written, or the write fails.
Reply(h) ==
  /\ req[h].pc = "reply"
  /\ req' = [req EXCEPT ![h] = NoReq]
  /\ UNCHANGED <<diskVars, daemonVars, caVars, groupVars>>

certificateSigning(h) ==
  genId(h) \/ SignFails(h) \/ addKnownCert(h) \/ getTrustedNodes(h) \/ Reply(h)

Next ==
  \/ \E s \in Serials, rings \in RingNumbers : NewCa(s, rings)
  \/ \E rings \in RingNumbers : LoadCa(rings)
  \/ SavePrivateKey \/ SaveCertificate \/ Saved
  \/ Signal \/ Shutdown \/ Crash
  \/ \E h \in Handlers : certificateSigning(h)

Spec == Init /\ [][Next]_vars

-----------------------------------------------------------------------------
Replied == {h \in Handlers : req[h].pc = "reply"}

\* addKnownCert and getTrustedNodes are two critical sections: whatever other
\* requests do between them, the list a participant receives holds no nil
\* certificate (its c.Raw would panic), holds the participant's own exactly
\* if it was told it is trusted, and is full if it was not.
TrustedIsListed ==
  \A h \in Replied :
    /\ Nil \notin Range(req[h].known)
    /\ req[h].trusted <=> req[h].id \in Range(req[h].known)
    /\ ~req[h].trusted => Len(req[h].known) = bootNodes

\* genId gives no two participants of a run the same id: neither two requests
\* being served nor a request and a certificate the CA keeps.
IdsDistinct ==
  /\ \A h, i \in Handlers : req[h].id = req[i].id /\ req[h].id # Nil => h = i
  /\ \A h \in Handlers : req[h].pc = "sign" => req[h].id \notin Range(knownCerts)

\* certificateSigning embeds in every certificate the ring number of the
\* group's own certificate, the one on disk, whatever NumRings a restart was
\* configured with.
RingsAgree ==
  \A h \in Handlers : req[h] # NoReq => req[h].rings = certFile[served]

\* saveState before ca.Start: while requests are served the key and every
\* group certificate are on disk, whole, so a crash loses neither.
SavedBeforeServing ==
  phase \in {"serving", "draining"} =>
    /\ keyFile = privKey
    /\ \A s \in DOMAIN groups : certFile[s] = groups[s]

\* getTrustedNodes: a participant the CA stored in this run before it added the
\* new one is in the reply, so every reply but the first of a run is an entry
\* into the network.
NamesThisRun ==
  \A h \in Replied : req[h].mine \subseteq Range(req[h].known)

\* README: boot_nodes is "how many participant certificates the certificate
\* authority stores locally": addKnownCert keeps the certificates of the first
\* NumBootNodes participants of a run.
StoresBootNodes ==
  phase = "serving" =>
    Cardinality(Range(knownCerts) \ {Nil}) = Min({currBootNodes, NumBootNodes})
=============================================================================
