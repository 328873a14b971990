----------------------------- MODULE CryptoUnit -----------------------------
(***************************************************************************)
(* A client's key and certificates (src/comm/crypto_unit.go): NewCu and    *)
(* LoadCu, which NewClient calls for Config.New and without it, and the    *)
(* files that SavePrivateKey and SaveCertificate leave for LoadCu.         *)
(*                                                                         *)
(* The k-th call of NewCu makes key k, and the certificate for it is named *)
(* by k: issued[k] is what the certificate authority put in it, and        *)
(* self-<serial>.pem is selfPem[k].  The known participants' certificates  *)
(* are their ids and the CA's is its group's serial number.  A file is     *)
(* torn when the process dies, or the disk fills up, between os.Create and *)
(* the end of pem.Encode.                                                  *)
(***************************************************************************)
EXTENDS Integers, FiniteSets

CONSTANTS MaxKeys,    \* bound: calls of NewCu
          MaxFaults,  \* bound: writes cut short by a crash or an error
          CertIds,    \* ids of the participants
          CaSerials,  \* serial numbers of the CA's groups
          GroupRings  \* ring numbers the CA puts in certificates

ASSUME CuNumbers == /\ MaxKeys \in Nat \ {0} /\ MaxFaults \in Nat
                    /\ CaSerials \subseteq Nat \ {0} /\ GroupRings \subseteq Nat

Keys == 1..MaxKeys
None == 0            \* no key, no certificate authority
Files == {"absent", "torn", "whole"}
SelfSignedRings == 32

VARIABLES cuPhase,  \* the client: "down", "request", "running", "saveKnown", "saveSelf"
          cu,       \* the CryptoUnit it runs with
          toWrite,  \* SaveCertificate: known certificates still to write
          keyPem,   \* key.pem: None, -k while torn, or the key
          selfPem, gPem, caPem, \* the certificates' files
          keysMade, \* calls of NewCu
          faults,   \* writes cut short so far
          issued,   \* history: what each key's certificate was issued with
          dirKeys,  \* history: the keys whose unit wrote into the directory
          skipped,  \* history: os.Create failed for a certificate
          loadedSelf \* history: the own certificates LoadCu has returned

cuFiles == <<keyPem, selfPem, gPem, caPem>>
cuHistory == <<issued, dirKeys, skipped, loadedSelf>>
cuVars == <<cuPhase, cu, toWrite, cuFiles, keysMade, faults, cuHistory>>

\* key: priv; cert: the own certificate; ca: nil is None.
NoCu == [key |-> None, cert |-> None, rings |-> 0, ca |-> None, known |-> {},
         loaded |-> FALSE]
NotIssued == [rings |-> 0, ca |-> None, known |-> {}]

CuInit ==
  /\ cuPhase = "down" /\ cu = NoCu /\ toWrite = {}
  /\ keyPem = None
  /\ selfPem = [k \in Keys |-> "absent"]
  /\ gPem = [i \in CertIds |-> "absent"]
  /\ caPem = [s \in CaSerials |-> "absent"]
  /\ keysMade = 0 /\ faults = 0
  /\ issued = [k \in Keys |-> NotIssued]
  /\ dirKeys = {} /\ skipped = FALSE /\ loadedSelf = {}

-----------------------------------------------------------------------------
\* NewCu up to sendCertRequest: a new key, and a request on its way.
RequestCert ==
  /\ cuPhase = "down" /\ keysMade < MaxKeys
  /\ cuPhase' = "request" /\ keysMade' = keysMade + 1
  /\ UNCHANGED <<cu, toWrite, cuFiles, faults, cuHistory>>

\* NewCu returns a unit for the newest key.
created(rings, ca, known) ==
  /\ cu' = [key |-> keysMade', cert |-> keysMade', rings |-> rings, ca |-> ca,
            known |-> known, loaded |-> FALSE]
  /\ cuPhase' = "running"
  /\ issued' = [issued EXCEPT ![keysMade'] = [rings |-> rings, ca |-> ca, known |-> known]]
  /\ UNCHANGED <<toWrite, cuFiles, faults, dirKeys, skipped, loadedSelf>>

\* The CA's answer arrives ...
Enrolled(rings, ca, known) ==
  /\ cuPhase = "request"
  /\ keysMade' = keysMade
  /\ created(rings, ca, known)

\* ... or an error does.
EnrolFails ==
  /\ cuPhase = "request"
  /\ cuPhase' = "down"
  /\ UNCHANGED <<cu, toWrite, cuFiles, keysMade, faults, cuHistory>>

\* NewCu without a CA's address: selfSignedCert.
SelfSigned ==
  /\ cuPhase = "down" /\ keysMade < MaxKeys
  /\ keysMade' = keysMade + 1
  /\ created(SelfSignedRings, None, {})

-----------------------------------------------------------------------------
(***************************************************************************)
(* One file is written, old being what it held: whole, or a fault: os.Create *)
(* fails and leaves it, or pem.Encode stops short.  A process that dies in *)
(* the middle of a write is one whose write was cut short and that dies.   *)
(***************************************************************************)
writes(old, torn, whole, new) ==
  \/ new = whole /\ faults' = faults
  \/ new \in {old, torn} /\ faults < MaxFaults /\ faults' = faults + 1

\* SavePrivateKey returns its error, saveCert's is logged.
SaveKey ==
  /\ cuPhase = "running"
  /\ keyPem' \in {cu.key, -cu.key, keyPem} /\ writes(keyPem, -cu.key, cu.key, keyPem')
  /\ dirKeys' = dirKeys \cup {cu.key}
  /\ UNCHANGED <<cuPhase, cu, toWrite, selfPem, gPem, caPem, keysMade, issued, skipped,
                 loadedSelf>>

\* Mutant of SaveCerts: the known certificates are stored last.
SaveCertsKnownLast ==
  /\ cuPhase = "running" /\ cu.ca # None
  /\ cuPhase' = "saveKnown" /\ toWrite' = cu.known
  /\ selfPem' = [selfPem EXCEPT ![cu.cert] = "whole"]
  /\ caPem' = [caPem EXCEPT ![cu.ca] = "whole"]
  /\ dirKeys' = dirKeys \cup {cu.cert}
  /\ UNCHANGED <<cu, keyPem, gPem, keysMade, faults, issued, skipped, loadedSelf>>

\* SaveCertificate begins with the known certificates.
SaveCerts ==
  /\ cuPhase = "running" /\ cu.ca # None
  /\ cuPhase' = "saveKnown" /\ toWrite' = cu.known
  /\ UNCHANGED <<cu, cuFiles, keysMade, faults, cuHistory>>

\* A self-signed client has no CA certificate: cu.ca.SerialNumber panics, and
\* the process dies.
SaveCertsPanics ==
  /\ cuPhase = "running" /\ cu.ca = None
  /\ cuPhase' = "down" /\ cu' = NoCu
  /\ UNCHANGED <<toWrite, cuFiles, keysMade, faults, cuHistory>>

\* Errors of saveCert are logged and the next file follows.
saveKnown ==
  /\ cuPhase = "saveKnown"
  /\ \E i \in toWrite :
       /\ toWrite' = toWrite \ {i}
       /\ \E f \in Files :
            /\ writes(gPem[i], "torn", "whole", f)
            /\ gPem' = [gPem EXCEPT ![i] = f] /\ skipped' = (skipped \/ f = "absent")
  /\ dirKeys' = dirKeys \cup {cu.cert}
  /\ UNCHANGED <<cuPhase, cu, keyPem, selfPem, caPem, keysMade, issued, loadedSelf>>

saveCa ==
  /\ cuPhase = "saveKnown" /\ toWrite = {}
  /\ \E f \in Files : /\ writes(caPem[cu.ca], "torn", "whole", f)
                       /\ caPem' = [caPem EXCEPT ![cu.ca] = f]
  /\ cuPhase' = "saveSelf"
  /\ dirKeys' = dirKeys \cup {cu.cert}
  /\ UNCHANGED <<cu, toWrite, keyPem, selfPem, gPem, keysMade, issued, skipped, loadedSelf>>

saveSelf ==
  /\ cuPhase = "saveSelf"
  /\ \E f \in Files : /\ writes(selfPem[cu.cert], "torn", "whole", f)
                       /\ selfPem' = [selfPem EXCEPT ![cu.cert] = f]
  /\ cuPhase' = "running"
  /\ dirKeys' = dirKeys \cup {cu.cert}
  /\ UNCHANGED <<cu, toWrite, keyPem, gPem, caPem, keysMade, issued, skipped, loadedSelf>>

-----------------------------------------------------------------------------
Present(file) == {x \in DOMAIN file : file[x] # "absent"}
AllWhole(file) == \A x \in Present(file) : file[x] = "whole"

\* Mutant of selfFound: any of several own certificates is taken.
selfFoundAny == {k \in Keys : selfPem[k] = "whole"}

\* loadCertSet: exactly one file of the pattern self-*.pem, and it decodes.
selfFound == {k \in Keys : selfPem[k] = "whole" /\ Present(selfPem) = {k}}

\* loadCertSet and loadPrivKey: one own certificate, one CA, some known ones,
\* the key, and all of them decode.  Nothing compares key and certificate.
LoadCu ==
  /\ cuPhase = "down"
  /\ keyPem > 0
  /\ Present(gPem) # {} /\ AllWhole(gPem)
  /\ \E k \in selfFound, s \in CaSerials :
       /\ caPem[s] = "whole" /\ Present(caPem) = {s}
       /\ cu' = [key |-> keyPem, cert |-> k, rings |-> issued[k].rings, ca |-> s,
                 known |-> Present(gPem), loaded |-> TRUE]
       /\ loadedSelf' = loadedSelf \cup {k}
  /\ cuPhase' = "running"
  /\ UNCHANGED <<toWrite, cuFiles, keysMade, faults, issued, dirKeys, skipped>>

\* The process stops or dies, at any moment.
ClientDies ==
  /\ cuPhase # "down"
  /\ cuPhase' = "down" /\ cu' = NoCu /\ toWrite' = {}
  /\ UNCHANGED <<cuFiles, keysMade, faults, cuHistory>>

\* The steps the client takes by itself.
cuStep ==
  \/ RequestCert \/ SelfSigned \/ LoadCu
  \/ SaveKey \/ SaveCerts \/ SaveCertsPanics
  \/ saveKnown \/ saveCa \/ saveSelf

\* The client with any certificate authority.
CuNext ==
  \/ cuStep \/ EnrolFails \/ ClientDies
  \/ \E rings \in GroupRings, s \in CaSerials, known \in SUBSET CertIds :
       Enrolled(rings, s, known)

CuSpec == CuInit /\ [][CuNext]_cuVars

-----------------------------------------------------------------------------
Rings == GroupRings \cup {SelfSignedRings, 0}
Units == [key : Keys \cup {None}, cert : Keys \cup {None}, rings : Rings,
          ca : CaSerials \cup {None}, known : SUBSET CertIds, loaded : BOOLEAN]
Issues == [rings : Rings, ca : CaSerials \cup {None}, known : SUBSET CertIds]

\* Types of the unit, of the files and of the history.
CuTypeOK ==
  /\ cuPhase \in {"down", "request", "running", "saveKnown", "saveSelf"}
  /\ cu \in Units
  /\ toWrite \subseteq cu.known
  /\ keyPem \in -MaxKeys..MaxKeys
  /\ selfPem \in [Keys -> Files] /\ gPem \in [CertIds -> Files]
  /\ caPem \in [CaSerials -> Files]
  /\ keysMade \in 0..MaxKeys /\ faults \in 0..MaxFaults
  /\ issued \in [Keys -> Issues]
  /\ dirKeys \subseteq Keys /\ skipped \in BOOLEAN /\ loadedSelf \subseteq Keys

\* A directory that one enrolment wrote into gives back that enrolment or
\* nothing, wherever a crash or a full disk cut SavePrivateKey and
\* SaveCertificate short: LoadCu returns the key of the certificate, the CA
\* and ring number it was issued with, and every participant the CA named
\* whose file could be created (these files are written first).
LoadedAsIssued ==
  cu.loaded /\ Cardinality(dirKeys) = 1 =>
    /\ cu.key = cu.cert
    /\ cu.rings = issued[cu.cert].rings /\ cu.ca = issued[cu.cert].ca
    /\ cu.known \subseteq issued[cu.cert].known
    /\ ~skipped => cu.known = issued[cu.cert].known

\* Even in a directory where clients enrolled again and again (Config.New
\* with a used CryptoUnitPath), LoadCu never changes its mind: all the own
\* certificates it ever returns are one.  A second one makes it refuse.
IdentityIsStable == Cardinality(loadedSelf) <= 1

=============================================================================
