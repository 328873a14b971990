-------------------------------- MODULE View --------------------------------
(***************************************************************************)
(* One node's view of the others: the certificates, notes, accusations,    *)
(* live members and removal timers it keeps (src/core/discovery/view.go    *)
(* and peer.go), and the goroutines of src/core that change them: gossip   *)
(* replies and Spread calls being merged, the monitor and the timeouts.    *)
(*                                                                         *)
(* Each field has a lock of its own and no handler holds two of them       *)
(* across its steps, except AddLive, which keeps liveMutex while it puts   *)
(* the peer in the rings.  So an action is what a goroutine does under one *)
(* lock, and th[t] is where it goes next.  A test directly followed by the *)
(* operation that repeats it under its own lock (IsAlive and AddLive,      *)
(* HasTimer and StartTimer or DeleteTimeout, Exists and AddFull,           *)
(* IncrementPing and NumPing) is one action: the operation on its own has  *)
(* the same outcomes.  Notes and accusations that fail their signature or  *)
(* mask check are dropped before they touch the view and do not appear.    *)
(***************************************************************************)
EXTENDS RingOrder, Sequences

CONSTANTS Others,      \* the other peers
          Self,        \* the node the view belongs to
          NumRings,
          Hash,        \* Hash[r][p]: place of p on ring r
          MaxEpoch,    \* bound on the epochs of notes
          EnabledRings,\* EnabledRings[p][e]: rings set in the mask of p's note e
          Notes,       \* the notes <<p, e>> that can reach the node, and the
          Accusations, \* accusations <<accused, accuser, ring, epoch>>
          Contacts,    \* peers the certificate authority named at start-up
          PingLimit,   \* ping_limit
          Crashed,     \* peers that answer no ping
          Gossipers,   \* goroutines merging gossip replies
          Spreaders,   \* goroutines serving a Spread call
          Monitors,    \* the monitorLoop goroutine
          Checkers     \* the View.Start goroutine, which checks timeouts

Rings == 1..NumRings
Ids == Others \cup {Self}
Epochs == 1..MaxEpoch
Threads == Gossipers \cup Spreaders \cup Monitors \cup Checkers

ASSUME ViewNumbers == /\ NumRings \in Nat \ {0}
                      /\ MaxEpoch \in Nat \ {0}
                      /\ PingLimit \in Nat \ {0}
ASSUME ViewSets == /\ IsFiniteSet(Others) /\ Self \notin Others
                   /\ Contacts \subseteq Others /\ Crashed \subseteq Others
ASSUME ViewThreads ==
  /\ Gossipers \cap (Spreaders \cup Monitors \cup Checkers) = {}
  /\ Spreaders \cap (Monitors \cup Checkers) = {} /\ Monitors \cap Checkers = {}
ASSUME ViewNetwork ==
  /\ Notes \subseteq Others \X Epochs
  /\ Accusations \subseteq Others \X Ids \X Rings \X Epochs
ASSUME ViewMasks == EnabledRings \in [Others -> [Epochs -> SUBSET Rings]]
ASSUME ViewHashes == /\ Hash \in [Rings -> [Ids -> Nat]]
                     /\ \A r \in Rings : \A p, q \in Ids :
                          Hash[r][p] = Hash[r][q] => p = q

VARIABLES full,     \* viewMap: peers whose certificate is known
          live,     \* liveMap, and so the members of every ring besides Self
          note,     \* epoch of the newest note of each peer, 0 for none
          acc,      \* acc[p][r]: the accusation of p on ring r
          timers,   \* timeoutMap: peers with a removal timer
          nPing,    \* failed pings, counted up to PingLimit
          currMonitorRing,
          th        \* what each goroutine is about to do

vars == <<full, live, note, acc, timers, nPing, currMonitorRing, th>>

NoAcc == [accuser |-> Self, epoch |-> 0]
Accused(p) == \E r \in Rings : acc[p][r] # NoAcc

-----------------------------------------------------------------------------
\* The rings, as module Ring shows them to be: circles over the live peers.
hashes(r) == {Hash[r][p] : p \in live \cup {Self}}
peerAt(r, h) == CHOOSE p \in Ids : Hash[r][p] = h
ringSucc(r, p) == peerAt(r, SuccIn(hashes(r), Hash[r][p]))
ringPrev(r, p) == peerAt(r, PrevIn(hashes(r), Hash[r][p]))
ValidAccuser(p, q, r) == MayAccuse(hashes(r), Hash[r][p], Hash[r][q])

\* A goroutine's frame: the next operation, the peer and the epoch it is
\* about, the accuser and ring of an accusation, the rings still to handle.
Frame(pc, p, e) ==
  [pc |-> pc, p |-> p, e |-> e, q |-> Self, r |-> 1, rs |-> {}]
Idle == Frame("idle", Self, 0)

At(t, pc) == th[t].pc = pc
Goto(t, pc) == th' = [th EXCEPT ![t].pc = pc]
\* ... and nothing but the peer matters from there on.
Jump(t, pc) == th' = [th EXCEPT ![t] = Frame(pc, @.p, 0)]
Return(t) == th' = [th EXCEPT ![t] = Idle]

\* A handler of goroutine t may begin.
Starts(t) == th[t] = Idle

\* liveMutex is free: nobody is halfway through AddLive.
liveFree == \A t \in Threads : th[t].pc \notin {"ringAdd", "ringClear"}

-----------------------------------------------------------------------------
\* NewNode: the contacts are live before any note of theirs is known.
NewNode ==
  /\ full = Contacts
  /\ live = Contacts
  /\ note = [p \in Others |-> 0]
  /\ acc = [p \in Others |-> [r \in Rings |-> NoAcc]]
  /\ timers = {}
  /\ nPing = [p \in Others |-> 0]
  /\ currMonitorRing = 1
  /\ th = [t \in Threads |-> Idle]

\* evalCertificate, AddFull
evalCertificate(t, p) ==
  /\ Starts(t)
  /\ p \notin full
  /\ full' = full \cup {p}
  /\ UNCHANGED <<live, note, acc, timers, nPing, currMonitorRing, th>>

\* mergeNotes, evalNote: the note is newer than the one held.
evalNote(t, p, e) ==
  /\ Starts(t)
  /\ p \in full
  /\ note[p] < e
  /\ th' = [th EXCEPT ![t] = Frame("allAccusations", p, e)]
  /\ UNCHANGED <<full, live, note, acc, timers, nPing, currMonitorRing>>

\* Spread, from p: its certificate is stored on every path, then its note
\* is evaluated.
Spread(t, p, e) ==
  /\ Starts(t)
  /\ full' = full \cup {p}
  /\ IF note[p] < e THEN th' = [th EXCEPT ![t] = Frame("allAccusations", p, e)]
                    ELSE UNCHANGED th
  /\ UNCHANGED <<live, note, acc, timers, nPing, currMonitorRing>>

\* The rings whose accusation a note of epoch e invalidates (IsMoreRecent).
invalidated(p, e) ==
  {r \in Rings : acc[p][r] # NoAcc /\ acc[p][r].epoch < e}

\* evalNote goes on with the accusations it sees now; the ones the note
\* invalidates are removed one by one.
AllAccusations(t) ==
  LET f == th[t]
  IN  /\ At(t, "allAccusations")
      /\ IF Accused(f.p)
         THEN th' = [th EXCEPT ![t].pc = "removeAccusation",
                              ![t].rs = invalidated(f.p, f.e)]
         ELSE Goto(t, "addNote")
      /\ UNCHANGED <<full, live, note, acc, timers, nPing, currMonitorRing>>

\* RemoveAccusation clears the ring's slot, whatever it holds by now.
RemoveAccusation(t) ==
  /\ At(t, "removeAccusation")
  /\ \E r \in th[t].rs :
       /\ acc' = [acc EXCEPT ![th[t].p][r] = NoAcc]
       /\ th' = [th EXCEPT ![t].rs = @ \ {r}]
  /\ UNCHANGED <<full, live, note, timers, nPing, currMonitorRing>>

\* Mutant of noteAfterAdd: AddNote trusts evalNote's earlier comparison.
noteAfterAddUnchecked(p, e) == [note EXCEPT ![p] = e]

\* Mutant of noteAfterAdd: a peer's first note is forgotten.
noteAfterAddNotFirst(p, e) ==
  IF note[p] # 0 /\ note[p] < e THEN [note EXCEPT ![p] = e] ELSE note

\* AddNote compares again under noteMutex.
noteAfterAdd(p, e) == IF note[p] < e THEN [note EXCEPT ![p] = e] ELSE note

\* AddNote, for a peer that was not accused and for one that was.
AddNote(t) ==
  /\ \/ At(t, "addNote") /\ Jump(t, "addLive")
     \/ At(t, "removeAccusation") /\ th[t].rs = {} /\ Jump(t, "isAccused")
  /\ note' = noteAfterAdd(th[t].p, th[t].e)
  /\ UNCHANGED <<full, live, acc, timers, nPing, currMonitorRing>>

\* A peer that is still accused stays as it is.
IsAccused(t) ==
  /\ At(t, "isAccused")
  /\ IF Accused(th[t].p) THEN Return(t) ELSE Goto(t, "resetPing")
  /\ UNCHANGED <<full, live, note, acc, timers, nPing, currMonitorRing>>

ResetPing(t) ==
  /\ At(t, "resetPing")
  /\ nPing' = [nPing EXCEPT ![th[t].p] = 0]
  /\ Goto(t, "deleteTimeout")
  /\ UNCHANGED <<full, live, note, acc, timers, currMonitorRing>>

DeleteTimeout(t) ==
  /\ At(t, "deleteTimeout")
  /\ timers' = timers \ {th[t].p}
  /\ Goto(t, "addLive")
  /\ UNCHANGED <<full, live, note, acc, nPing, currMonitorRing>>

\* AddLive takes liveMutex and puts the peer in the rings one by one.
AddLive(t) ==
  /\ At(t, "addLive")
  /\ liveFree
  /\ IF th[t].p \in live
     THEN Return(t) /\ UNCHANGED live
     ELSE /\ live' = live \cup {th[t].p}
          /\ th' = [th EXCEPT ![t].pc = "ringAdd", ![t].rs = Rings]
  /\ UNCHANGED <<full, note, acc, timers, nPing, currMonitorRing>>

\* ring.add: does the new member's successor hold an accusation by its
\* predecessor?
RingAdd(t) ==
  /\ At(t, "ringAdd")
  /\ \E r \in th[t].rs :
       LET s == ringSucc(r, th[t].p)
           last == th[t].rs = {r}
       IN  IF s # Self /\ acc[s][r] # NoAcc
                       /\ acc[s][r].accuser = ringPrev(r, th[t].p)
           THEN th' = [th EXCEPT ![t].pc = "ringClear", ![t].r = r]
           ELSE IF last THEN Return(t)
                ELSE th' = [th EXCEPT ![t].rs = @ \ {r}]
  /\ UNCHANGED <<full, live, note, acc, timers, nPing, currMonitorRing>>

\* RemoveRingAccusation clears the slot, whatever it holds by now.
RingClear(t) ==
  LET r == th[t].r
      s == ringSucc(r, th[t].p)
  IN  /\ At(t, "ringClear")
      /\ acc' = [acc EXCEPT ![s][r] = NoAcc]
      /\ IF th[t].rs = {r} THEN Return(t)
         ELSE th' = [th EXCEPT ![t].pc = "ringAdd", ![t].r = 1, ![t].rs = @ \ {r}]
      /\ UNCHANGED <<full, live, note, timers, nPing, currMonitorRing>>

-----------------------------------------------------------------------------
\* mergeAccusations, evalAccusation: both peers are known, the accused has a
\* note.  An accusation that is held already only makes sure of the timer.
evalAccusation(t, p, q, r, e) ==
  /\ Starts(t)
  /\ p \in full /\ note[p] # 0
  /\ q \in full \cup {Self} /\ q # p
  /\ th' = [th EXCEPT ![t] =
              IF acc[p][r] = [accuser |-> q, epoch |-> e]
              THEN Frame("isAlive", p, 0)
              ELSE [Frame("checkNote", p, e) EXCEPT !.q = q, !.r = r]]
  /\ UNCHANGED <<full, live, note, acc, timers, nPing, currMonitorRing>>

\* Mutant of noteAllows: the accused peer's mask is not looked at.
noteAllowsAnyRing(p, r, e) == note[p] = e

\* The accusation is about the note held, on a ring the note leaves enabled.
noteAllows(p, r, e) == note[p] = e /\ r \in EnabledRings[p][e]

CheckNote(t) ==
  /\ At(t, "checkNote")
  /\ IF noteAllows(th[t].p, th[t].r, th[t].e) THEN Goto(t, "validAccuser")
                                               ELSE Return(t)
  /\ UNCHANGED <<full, live, note, acc, timers, nPing, currMonitorRing>>

CheckAccuser(t) ==
  /\ At(t, "validAccuser")
  /\ liveFree
  /\ IF ValidAccuser(th[t].p, th[t].q, th[t].r) THEN Goto(t, "addAccusation")
                                                ELSE Return(t)
  /\ UNCHANGED <<full, live, note, acc, timers, nPing, currMonitorRing>>

\* AddAccusation compares the epoch again, under accuseMutex.
sameEpoch(p, e) == note[p] = e

AddAccusation(t) ==
  LET f == th[t]
  IN  /\ At(t, "addAccusation")
      /\ IF sameEpoch(f.p, f.e)
         THEN /\ acc' = [acc EXCEPT ![f.p][f.r] = [accuser |-> f.q, epoch |-> f.e]]
              /\ Jump(t, "isAlive")
         ELSE UNCHANGED acc /\ Return(t)
      /\ UNCHANGED <<full, live, note, timers, nPing, currMonitorRing>>

\* IsAlive, for evalAccusation and Monitor
IsAlive(t) ==
  /\ At(t, "isAlive")
  /\ liveFree
  /\ IF th[t].p \in live THEN Goto(t, "startTimer") ELSE Return(t)
  /\ UNCHANGED <<full, live, note, acc, timers, nPing, currMonitorRing>>

\* HasTimer, StartTimer: an existing timer keeps its time stamp, and only
\* StartTimer looks at the note and observer recorded with it.
StartTimer(t) ==
  /\ At(t, "startTimer")
  /\ timers' = timers \cup {th[t].p}
  /\ Return(t)
  /\ UNCHANGED <<full, live, note, acc, nPing, currMonitorRing>>

-----------------------------------------------------------------------------
nextRing(r) == IF (r + 1) % (NumRings + 1) = 0 THEN 1 ELSE r + 1

\* Monitor, MonitorTarget: the successor on the next ring, none when the
\* node is alone.
MonitorTarget(t) ==
  /\ Starts(t)
  /\ liveFree
  /\ LET p == ringSucc(currMonitorRing, Self)
     IN  IF p = Self THEN UNCHANGED th
         ELSE th' = [th EXCEPT ![t] = [Frame("probe", p, 0)
                                        EXCEPT !.r = currMonitorRing]]
  /\ currMonitorRing' = nextRing(currMonitorRing)
  /\ UNCHANGED <<full, live, note, acc, timers, nPing>>

\* probe: a lost ping is counted.  An answer changes nothing: its signature
\* is cleared before it is looked at, so ResetPing is never reached.
Probe(t) ==
  LET p == th[t].p
      failed == IF nPing[p] < PingLimit THEN nPing[p] + 1 ELSE PingLimit
  IN  /\ At(t, "probe")
      /\ \/ /\ nPing' = [nPing EXCEPT ![p] = failed]
            /\ IF failed >= PingLimit THEN Goto(t, "readNote") ELSE Return(t)
         \/ /\ p \notin Crashed
            /\ Return(t)
            /\ UNCHANGED nPing
      /\ UNCHANGED <<full, live, note, acc, timers, currMonitorRing>>

\* errDead: without a note the peer cannot be accused.
ReadNote(t) ==
  LET e == note[th[t].p]
  IN  /\ At(t, "readNote")
      /\ th' = [th EXCEPT ![t].pc = IF e = 0 THEN "removeLive" ELSE "createAccusation",
                          ![t].e = e]
      /\ UNCHANGED <<full, live, note, acc, timers, nPing, currMonitorRing>>

RemoveNoteless(t) ==
  /\ At(t, "removeLive")
  /\ liveFree
  /\ live' = live \ {th[t].p}
  /\ Return(t)
  /\ UNCHANGED <<full, note, acc, timers, nPing, currMonitorRing>>

\* Mutant of afterCreate: an accusation that exists already ends the round.
afterCreateOnlyNew(p, r, e) ==
  IF acc[p][r] = [accuser |-> Self, epoch |-> e] THEN "idle" ELSE "isAlive"

\* ErrAccAlreadyExists or nil: the timer is looked after either way.
afterCreate(p, r, e) == "isAlive"

\* CreateAccusation, about the note read before
CreateAccusation(t) ==
  LET f == th[t]
      next == afterCreate(f.p, f.r, f.e)
  IN  /\ At(t, "createAccusation")
      /\ acc' = [acc EXCEPT ![f.p][f.r] = [accuser |-> Self, epoch |-> f.e]]
      /\ IF next = "idle" THEN Return(t) ELSE Jump(t, next)
      /\ UNCHANGED <<full, live, note, timers, nPing, currMonitorRing>>

-----------------------------------------------------------------------------
\* checkTimeouts starts from a copy of the timers (rs holds its peers) ...
AllTimeouts(t) ==
  /\ Starts(t)
  /\ timers # {}
  /\ th' = [th EXCEPT ![t] = [Frame("expired", Self, 0) EXCEPT !.rs = timers]]
  /\ UNCHANGED <<full, live, note, acc, timers, nPing, currMonitorRing>>

\* ... and removes the expired ones from the live peers ...
RemoveExpired(t, p) ==
  /\ At(t, "expired")
  /\ liveFree
  /\ p \in th[t].rs
  /\ live' = live \ {p}
  /\ th' = [th EXCEPT ![t].pc = "dropTimeout", ![t].p = p, ![t].rs = @ \ {p}]
  /\ UNCHANGED <<full, note, acc, timers, nPing, currMonitorRing>>

\* ... and then their timers.
DropTimeout(t) ==
  /\ At(t, "dropTimeout")
  /\ timers' = timers \ {th[t].p}
  /\ IF th[t].rs = {} THEN Return(t)
     ELSE th' = [th EXCEPT ![t].pc = "expired", ![t].p = Self]
  /\ UNCHANGED <<full, live, note, acc, nPing, currMonitorRing>>

\* The others have not expired yet.
KeepRest(t) ==
  /\ At(t, "expired")
  /\ Return(t)
  /\ UNCHANGED <<full, live, note, acc, timers, nPing, currMonitorRing>>

-----------------------------------------------------------------------------
evalNoteStep(t) ==
  \/ AllAccusations(t) \/ RemoveAccusation(t) \/ AddNote(t) \/ IsAccused(t)
  \/ ResetPing(t) \/ DeleteTimeout(t) \/ AddLive(t) \/ RingAdd(t) \/ RingClear(t)

timerStep(t) == IsAlive(t) \/ StartTimer(t)

Gossip(t) ==
  \/ \E p \in Others : evalCertificate(t, p)
  \/ \E m \in Notes : evalNote(t, m[1], m[2])
  \/ \E m \in Accusations : evalAccusation(t, m[1], m[2], m[3], m[4])
gossipStep(t) ==
  evalNoteStep(t) \/ CheckNote(t) \/ CheckAccuser(t) \/ AddAccusation(t) \/ timerStep(t)

monitorStep(t) ==
  \/ Probe(t) \/ ReadNote(t) \/ RemoveNoteless(t) \/ CreateAccusation(t)
  \/ timerStep(t)
timeoutStep(t) ==
  (\E p \in Others : RemoveExpired(t, p)) \/ DropTimeout(t) \/ KeepRest(t)

Next ==
  \/ \E t \in Gossipers : Gossip(t) \/ gossipStep(t)
  \/ \E t \in Spreaders :
       (\E m \in Notes : Spread(t, m[1], m[2])) \/ evalNoteStep(t)
  \/ \E t \in Monitors : MonitorTarget(t) \/ monitorStep(t)
  \/ \E t \in Checkers : AllTimeouts(t) \/ timeoutStep(t)

\* A goroutine in the middle of a handler goes on; monitorLoop and
\* View.Start wake up again and again; and a timer that stays expires, for
\* its time stamp never moves.
Fairness ==
  /\ \A t \in Gossipers : WF_vars(gossipStep(t))
  /\ \A t \in Spreaders : WF_vars(evalNoteStep(t))
  /\ \A t \in Monitors : WF_vars(MonitorTarget(t) \/ monitorStep(t))
  /\ \A t \in Checkers : WF_vars(AllTimeouts(t) \/ timeoutStep(t))
  /\ \A t \in Checkers, p \in Others : SF_vars(RemoveExpired(t, p))

Spec == NewNode /\ [][Next]_vars
FairSpec == Spec /\ Fairness

-----------------------------------------------------------------------------
PCs == {"idle", "allAccusations", "removeAccusation", "addNote", "isAccused",
        "resetPing", "deleteTimeout", "addLive", "ringAdd", "ringClear",
        "checkNote", "validAccuser", "addAccusation", "isAlive", "startTimer",
        "probe", "readNote", "removeLive", "createAccusation",
        "expired", "dropTimeout"}

\* Types; a live or accused peer is one whose certificate is known.
TypeOK ==
  /\ full \subseteq Others /\ live \subseteq full /\ timers \subseteq full
  /\ note \in [Others -> 0..MaxEpoch]
  /\ acc \in [Others -> [Rings -> [accuser : Ids, epoch : 0..MaxEpoch]]]
  /\ nPing \in [Others -> 0..PingLimit]
  /\ currMonitorRing \in Rings
  /\ th \in [Threads -> [pc : PCs, p : Ids, e : 0..MaxEpoch, q : Ids,
                         r : Rings, rs : SUBSET (Rings \cup Others)]]

\* Monitor relies on it ("Will always have note for a peer in our liveView,
\* except when the peer stems from the initial contact list"): whatever the
\* goroutines do, no other live peer is without a note.
LiveHasNote == \A p \in live : note[p] # 0 \/ p \in Contacts

\* An accusation is never about a note the view has not seen: the newest
\* note can always answer it.
AccusationsNotAhead ==
  \A p \in Others, r \in Rings : acc[p][r].epoch <= note[p]

\* An accusation taken from another peer is on a ring that the accused left
\* enabled in the very note it is about.
AcceptedOnEnabledRing ==
  \A p \in Others, r \in Rings :
    acc[p][r].accuser # Self => r \in EnabledRings[p][acc[p][r].epoch]

\* AddNote never puts an older note in the place of a newer one, however two
\* evalNote calls overlap.
NotesOnlyGrow == [][\A p \in Others : note[p] <= note'[p]]_vars

\* A live peer that has crashed, and that this node monitors on some ring
\* whoever else is live, leaves the live view for good.
Monitored(p) ==
  \E r \in Rings : \A S \in SUBSET Others :
    p \in S => SuccIn({Hash[r][q] : q \in S \cup {Self}}, Hash[r][Self]) = Hash[r][p]
CrashedLeaves ==
  \A p \in Crashed : Monitored(p) => <>[](p \notin live)

\* "All accusations has to be invalidated before we add peer back": a peer
\* that becomes live holds no accusation.
AddedBackUnaccused ==
  [][\A p \in live' \ live : ~Accused(p)]_vars
=============================================================================
