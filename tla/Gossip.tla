------------------------------- MODULE Gossip -------------------------------
(***************************************************************************)
(* A network of nodes: each gossips with its neighbours on the rings,      *)
(* serves their Spread calls, monitors its successor, accuses it when      *)
(* pings fail, rebuts accusations of itself and removes accused peers      *)
(* (src/core/handlers.go, protocol.go and discovery/view.go).  Pings and   *)
(* calls may be lost and nodes may crash and be started again.             *)
(*                                                                         *)
(* Here a handler is one step: a Spread call, a probe and its accusation,  *)
(* the expiry of a timer (module View has their interleavings inside one   *)
(* node).  A gossip round is not: the message is put together once, a call *)
(* reaches its partner later, and the partner's reply is merged later      *)
(* still, one note at a time and then the accusations.  Rings are the      *)
(* circles of RingOrder.  With fewer than four rings none can be switched  *)
(* off (maxByz is 0), so masks do not appear.                              *)
(***************************************************************************)
EXTENDS RingOrder, Sequences

CONSTANTS Nodes,
          NumRings, Hash,  \* Hash[r][p]: place of p on ring r
          Founders,        \* nodes that have joined and know each other
          Contacts,        \* Contacts[n]: the peers the CA names to n
          TextIds,         \* peers whose id is valid UTF-8
          PingLimit,       \* ping_limit
          Crashers,        \* nodes that may crash
          MaxFaults,       \* bound: pings and calls lost, and crashes
          MaxRounds        \* bound: gossip rounds under way at a time

Rings == 1..NumRings

ASSUME GossipNumbers == /\ NumRings \in 1..3 /\ PingLimit \in Nat \ {0}
                        /\ MaxFaults \in Nat /\ MaxRounds \in Nat \ {0}
ASSUME GossipSets == /\ Founders \subseteq Nodes /\ TextIds \subseteq Nodes
                     /\ Crashers \subseteq Nodes
                     /\ Contacts \in [Nodes -> SUBSET Nodes]
                     /\ \A n \in Nodes : n \notin Contacts[n]
ASSUME GossipHashes == IsFiniteSet(Nodes) /\ Hash \in [Rings -> [Nodes -> Nat]]

VARIABLES up,       \* the nodes that run
          st,       \* st[n]: what node n knows
          rpc,      \* rpc[n]: the calls its gossip goroutine has to make
          faults,   \* pings and calls lost, and crashes, so far
          restarted \* history: the nodes that were started again

vars == <<up, st, rpc, faults, restarted>>
faultVars == <<faults, restarted>>

fault == faults < MaxFaults /\ faults' = faults + 1

NoAcc == [accuser |-> 0, epoch |-> 0]
NoReply == [certs |-> {}, notes |-> <<>>, accs |-> {}]
Idle == [todo |-> <<>>, reply |-> NoReply]

\* What NewNode starts from: the known peers are live, notes has the epochs
\* of their notes and of the own one.
NewNode(peers, notes) ==
  [full |-> peers, live |-> peers, note |-> notes,
   acc |-> [p \in Nodes |-> [r \in Rings |-> NoAcc]],
   timers |-> {},
   nPing |-> [p \in Nodes |-> 0],  \* failed pings, up to PingLimit - 1
   currGossipRing |-> 1, currMonitorRing |-> 1]

Joins(n) == NewNode(Contacts[n], [p \in Nodes |-> IF p = n THEN 1 ELSE 0])

Init ==
  /\ up = Nodes
  /\ st = [n \in Nodes |->
             IF n \notin Founders THEN Joins(n)
             ELSE NewNode(Founders \ {n}, [p \in Nodes |-> IF p \in Founders THEN 1 ELSE 0])]
  /\ rpc = [n \in Nodes |-> Idle]
  /\ faults = 0 /\ restarted = {}

-----------------------------------------------------------------------------
\* The ring r of node n, whose state is s.
hashes(s, n, r) == {Hash[r][p] : p \in s.live \cup {n}}
peerAt(r, h) == CHOOSE p \in Nodes : Hash[r][p] = h
ringSucc(s, n, r, p) == peerAt(r, SuccIn(hashes(s, n, r), Hash[r][p]))
ringPrev(s, n, r, p) == peerAt(r, PrevIn(hashes(s, n, r), Hash[r][p]))

ValidAccuser(s, n, p, q, r) == MayAccuse(hashes(s, n, r), Hash[r][p], Hash[r][q])

\* betweenNeighbours: on some ring p is, or would be, next to n.
ShouldBeNeighbour(s, n, p) ==
  \E r \in Rings : n \in {ringSucc(s, n, r, p), ringPrev(s, n, r, p)}

FindNeighbours(s, n, p) ==
  UNION {{ringSucc(s, n, r, p), ringPrev(s, n, r, p)} : r \in Rings}

nextRing(r) == IF (r + 1) % (NumRings + 1) = 0 THEN 1 ELSE r + 1

\* GossipPartners: successor and predecessor on the current gossip ring.
GossipPartners(s, n) ==
  LET q == ringSucc(s, n, s.currGossipRing, n)
      p == ringPrev(s, n, s.currGossipRing, n)
  IN  (IF q = n THEN <<>> ELSE <<q>>) \o (IF p \in {q, n} THEN <<>> ELSE <<p>>)

Accused(s, p) == \E r \in Rings : s.acc[p][r] # NoAcc
AllAccusations(s, p) ==
  {[accused |-> p, accuser |-> s.acc[p][r].accuser, ring |-> r, epoch |-> s.acc[p][r].epoch] :
     r \in {i \in Rings : s.acc[p][i] # NoAcc}}

-----------------------------------------------------------------------------
\* AddLive, and ring.add on every ring: an accusation of the new member's
\* successor by its predecessor is dropped; a removal timer stays.
AddLive(s, n, p) ==
  LET t == [s EXCEPT !.live = @ \cup {p}]
      drops(q, r) == /\ q # n /\ q = ringSucc(t, n, r, p)
                     /\ t.acc[q][r].accuser = ringPrev(t, n, r, p)
  IN  IF p \in s.live THEN s
      ELSE [t EXCEPT !.acc = [q \in Nodes |-> [r \in Rings |->
                                IF drops(q, r) THEN NoAcc ELSE @[q][r]]]]

\* evalCertificate
evalCertificates(s, n, certs) == [s EXCEPT !.full = @ \cup (certs \ {n})]

\* Mutant of answers: the note of the next epoch does not end the accusation.
answersLate(e, a) == a.epoch + 1 < e

\* IsMoreRecent: note e answers accusation a.
answers(e, a) == a.epoch < e

\* evalNote: a newer note ends the accusations it answers; a peer that is no
\* longer accused is live again.
evalNote(s, n, p, e) ==
  LET t == [s EXCEPT !.note[p] = e,
                     !.acc[p] = [r \in Rings |-> IF answers(e, @[r]) THEN NoAcc ELSE @[r]]]
      u == [t EXCEPT !.nPing[p] = 0, !.timers = @ \ {p}]
  IN  IF p \notin s.full \/ e <= s.note[p] THEN s
      ELSE IF ~Accused(s, p) THEN AddLive(t, n, p)
      ELSE IF ~Accused(t, p) THEN AddLive(u, n, p)
      ELSE t

\* Mutant of StartTimer: peers that are not live get a timer.
StartTimerAny(s, ps) == s.timers \cup ps

\* IsAlive, StartTimer
StartTimer(s, ps) == s.timers \cup (ps \cap s.live)

\* mergeAccusations, evalAccusation: the accusations that are about the note
\* held, by the peer that watches the accused, and those held already.
knownPeers(s, n, a) ==
  /\ a.accuser \in s.full \cup {n}
  /\ a.accused \in s.full /\ s.note[a.accused] # 0
accepted(s, n, a) ==
  /\ knownPeers(s, n, a)
  /\ a.epoch = s.note[a.accused]
  /\ ValidAccuser(s, n, a.accused, a.accuser, a.ring)
isHeld(s, n, a) ==
  /\ knownPeers(s, n, a)
  /\ s.acc[a.accused][a.ring] = [accuser |-> a.accuser, epoch |-> a.epoch]

mergeAccusations(s, n, accs) ==
  LET new == {a \in accs : accepted(s, n, a)}
      held == {a \in accs : isHeld(s, n, a)}
      about(p, r) == {a \in new : a.accused = p /\ a.ring = r}
  IN  [s EXCEPT !.acc = [p \in Nodes |-> [r \in Rings |->
                           IF about(p, r) = {} THEN @[p][r]
                           ELSE LET chosen == CHOOSE a \in about(p, r) : TRUE
                                IN  [accuser |-> chosen.accuser, epoch |-> chosen.epoch]]],
                !.timers = StartTimer(s, {a.accused : a \in new \cup held})]

\* ... and an accusation of the node itself, about its current note.
ShouldRebuttal(s, n, accs) ==
  \E a \in accs : /\ a.accused = n /\ a.accuser \in s.full
                  /\ ValidAccuser(s, n, n, a.accuser, a.ring)
                  /\ a.epoch = s.note[n]

-----------------------------------------------------------------------------
\* State: epochs of the known peers, under their ids as protobuf strings.  An
\* id that is not valid UTF-8 loses bytes in the conversion, so the receiver
\* finds nothing under it.
existingHosts(s, n) == [p \in s.full \cap TextIds |-> s.note[p]]

\* A call of Spread: the own note and, in a gossip message, the hosts.
call(s, n, kind, hosts) ==
  [i \in DOMAIN GossipPartners(s, n) |->
     [to |-> GossipPartners(s, n)[i], kind |-> kind, own |-> s.note[n], hosts |-> hosts]]

advanceGossip(s) == [s EXCEPT !.currGossipRing = nextRing(@)]

\* gossipLoop, correct.Gossip: the message and the partners are fixed.
GossipRound(n) ==
  /\ n \in up /\ rpc[n] = Idle
  /\ Cardinality({m \in Nodes : rpc[m] # Idle}) < MaxRounds
  /\ rpc' = [rpc EXCEPT ![n].todo = call(st[n], n, "gossip", existingHosts(st[n], n))]
  /\ st' = [st EXCEPT ![n] = advanceGossip(@)]
  /\ UNCHANGED <<up, faultVars>>

\* Mutant of mergeViews: the reply has no accusations.
mergeViewsNoAccs(s, m, given) ==
  LET known == {p \in s.full \cup {m} : s.note[p] # 0}
  IN  [certs |-> s.full \ DOMAIN given, notes |-> [p \in known |-> s.note[p]], accs |-> {}]

\* mergeViews: the certificates and notes of the peers the caller has not
\* named, the notes of which the caller has a newer one (this is what
\* IsMoreRecent compares), and every accusation.
mergeViews(s, m, given) ==
  LET news == {p \in s.full \cup {m} :
                 p \in DOMAIN given => s.note[p] < given[p]}
  IN  [certs |-> s.full \ DOMAIN given,
       notes |-> [p \in {q \in news : s.note[q] # 0} |-> s.note[p]],
       accs |-> UNION {AllAccusations(s, p) : p \in s.full}]

\* Spread at m, called by n with message c: the new state of m and the reply;
\* answered is FALSE for an error.
Spread(s, m, n, c) ==
  LET observed == n \in s.full
      t == evalNote(evalCertificates(s, m, {n}), m, n, c.own)
      met == FindNeighbours(t, m, n) \cup {m}
  IN  IF ShouldBeNeighbour(s, m, n)
      THEN [s |-> t, answered |-> TRUE,
            reply |-> IF c.kind = "gossip" THEN mergeViews(t, m, c.hosts) ELSE NoReply]
      ELSE IF observed
      THEN [s |-> t, answered |-> Accused(s, n),
            reply |-> [NoReply EXCEPT !.accs = AllAccusations(t, n)]]
      ELSE [s |-> t, answered |-> TRUE,
            reply |-> [NoReply EXCEPT !.certs = met,
                         !.notes = [p \in {q \in met : t.note[q] # 0} |-> t.note[p]]]]

endCall(n) == [rpc EXCEPT ![n] = [todo |-> Tail(@.todo), reply |-> NoReply]]

\* The next call arrives.  The reply to a rebuttal is not looked at.
Call(n) ==
  /\ n \in up /\ rpc[n].todo # <<>> /\ rpc[n].reply = NoReply
  /\ \E c \in {Head(rpc[n].todo)} : \E res \in {Spread(st[c.to], c.to, n, c)} :
         /\ c.to \in up
         /\ st' = [st EXCEPT ![c.to] = res.s]
         /\ rpc' = IF res.answered /\ res.reply # NoReply /\ c.kind = "gossip"
                   THEN [rpc EXCEPT ![n].reply = res.reply] ELSE endCall(n)
  /\ UNCHANGED <<up, faultVars>>

\* The partner is down, ...
PartnerDown(n) ==
  /\ n \in up /\ rpc[n].todo # <<>> /\ rpc[n].reply = NoReply
  /\ Head(rpc[n].todo).to \notin up
  /\ rpc' = endCall(n)
  /\ UNCHANGED <<up, st, faultVars>>

\* ... or the connection breaks, before or after the partner has served it.
CallLost(n) ==
  /\ n \in up /\ rpc[n].todo # <<>>
  /\ fault
  /\ rpc' = endCall(n)
  /\ UNCHANGED <<up, st, restarted>>

\* Mutant of rebuttal: the new note is sent and not kept.
rebuttalUnkept(s, n) ==
  [s |-> advanceGossip(s), calls |-> call([s EXCEPT !.note[n] = @ + 1], n, "rebuttal", <<>>)]

\* correct.Rebuttal: the note of the next epoch, for the current partners.
rebuttal(s, n) ==
  LET t == [s EXCEPT !.note[n] = @ + 1]
  IN  [s |-> advanceGossip(t), calls |-> call(t, n, "rebuttal", <<>>)]

\* The reply is merged, certificates first.  Then mergeNotes goes through the
\* notes, one evalNote at a time, in an order that comes from a map; notes
\* that are not newer change nothing and are left out.
certified(n) == evalCertificates(st[n], n, rpc[n].reply.certs)
news(s, n, notes) == {p \in (DOMAIN notes \cap s.full) \ {n} : notes[p] > s.note[p]}

MergeNote(n) ==
  /\ n \in up /\ rpc[n].reply # NoReply
  /\ LET s == certified(n)
         notes == rpc[n].reply.notes
     IN  \E p \in news(s, n, notes) : st' = [st EXCEPT ![n] = evalNote(s, n, p, notes[p])]
  /\ UNCHANGED <<up, rpc, faultVars>>

\* The accusations come last.  A rebuttal is sent to the current partners
\* before the round goes on.
MergeAccusations(n) ==
  /\ n \in up /\ rpc[n].reply # NoReply
  /\ LET s == certified(n)
         accs == rpc[n].reply.accs
         t == mergeAccusations(s, n, accs)
         u == rebuttal(t, n)
     IN  /\ news(s, n, rpc[n].reply.notes) = {}
         /\ IF ShouldRebuttal(s, n, accs)
            THEN /\ st' = [st EXCEPT ![n] = u.s]
                 /\ rpc' = [rpc EXCEPT ![n] = [todo |-> u.calls \o Tail(@.todo),
                                               reply |-> NoReply]]
            ELSE st' = [st EXCEPT ![n] = t] /\ rpc' = endCall(n)
  /\ UNCHANGED <<up, faultVars>>

-----------------------------------------------------------------------------
\* errDead: the successor p is accused on ring r, or dropped when it has no
\* note.
accuse(s, n, p, r) ==
  IF s.note[p] = 0 THEN [s EXCEPT !.live = @ \ {p}]
  ELSE [s EXCEPT !.acc[p][r] = [accuser |-> n, epoch |-> s.note[p]],
                 !.timers = StartTimer(s, {p})]

\* Monitor, probe: one failed ping more, and enough of them are errDead.
failedPing(s, n, p, r) ==
  IF s.nPing[p] + 1 >= PingLimit THEN accuse(s, n, p, r)
  ELSE [s EXCEPT !.nPing[p] = @ + 1]

\* An answer changes nothing: probe clears its signature before it looks at
\* it, so it never gets to ResetPing.
Monitor(n) ==
  LET s == [st[n] EXCEPT !.currMonitorRing = nextRing(@)]
      r == st[n].currMonitorRing
      p == ringSucc(s, n, r, n)
  IN  /\ n \in up
      /\ \E failed \in BOOLEAN :
           /\ IF failed THEN p # n ELSE p \in up
           /\ IF failed /\ p \in up THEN fault ELSE UNCHANGED faults
           /\ st' = [st EXCEPT ![n] = IF failed THEN failedPing(s, n, p, r) ELSE s]
      /\ st' # st  \* with one ring an answer leaves no trace
      /\ UNCHANGED <<up, rpc, restarted>>

\* checkTimeouts: an expired timer.
Expire(n, p) ==
  /\ n \in up /\ p \in st[n].timers
  /\ st' = [st EXCEPT ![n].live = @ \ {p}, ![n].timers = @ \ {p}]
  /\ UNCHANGED <<up, rpc, faultVars>>

Crash(n) ==
  /\ n \in up \cap Crashers /\ fault
  /\ up' = up \ {n}
  /\ rpc' = [rpc EXCEPT ![n] = Idle]
  /\ UNCHANGED <<st, restarted>>

\* The client is started again, with the identity and the contacts it saved.
Restart(n) ==
  /\ n \in Nodes \ up
  /\ up' = up \cup {n} /\ restarted' = restarted \cup {n}
  /\ st' = [st EXCEPT ![n] = Joins(n)]
  /\ UNCHANGED <<rpc, faults>>

-----------------------------------------------------------------------------
gossipLoop(n) ==
  \/ GossipRound(n) \/ Call(n) \/ PartnerDown(n)
  \/ MergeNote(n) \/ MergeAccusations(n)

Next ==
  \E n \in Nodes :
    \/ gossipLoop(n) \/ CallLost(n) \/ Monitor(n) \/ Crash(n) \/ Restart(n)
    \/ \E p \in Nodes : Expire(n, p)

Spec == Init /\ [][Next]_vars

(***************************************************************************)
(* gossipLoop, monitorLoop and checkTimeouts wake up again and again: weak *)
(* fairness, spelled out so that MaxRounds, a bound no node knows of,      *)
(* holds nobody up, and so that TLC need not run the handlers again.       *)
(***************************************************************************)
\* n has nobody to gossip with.
Alone(n) == st[n].live = {}

canGossip(n) == n \in up /\ (rpc[n] # Idle \/ ~Alone(n))
gossiped(n) == rpc'[n] # rpc[n] /\ faults' = faults

deadSuccessor(n) ==
  \E r \in Rings : LET p == ringSucc(st[n], n, r, n)
                   IN  p \notin up /\ failedPing(st[n], n, p, r) # st[n]
canTick == \E n \in up : st[n].timers # {} \/ deadSuccessor(n)
ticked == /\ rpc' = rpc /\ faults' = faults /\ up' = up
          /\ \A n \in Nodes : st'[n].note = st[n].note  \* not MergeNote

FairSpec ==
  /\ Spec
  /\ \A n \in Nodes : []<>(~canGossip(n)) \/ []<><<gossiped(n)>>_vars
  /\ []<>(~canTick) \/ []<><<ticked>>_vars

-----------------------------------------------------------------------------
\* evalNote and evalAccusation: at a node whose handlers do not overlap every
\* accusation is about the note held, whatever order notes, accusations and
\* rebuttals reach it in and through whom.
AccusationCurrent ==
  \A n \in Nodes, p \in Nodes, r \in Rings :
    st[n].acc[p][r] # NoAcc => st[n].acc[p][r].epoch = st[n].note[p]

\* StartTimer and DeleteTimeout: an accused peer that is live has a removal
\* timer, and only live peers have one: nobody is accused for ever without
\* being removed, and nobody is removed twice.
AccusedIsTimed ==
  \A n \in Nodes : /\ {p \in st[n].live : Accused(st[n], p)} \subseteq st[n].timers
                   /\ st[n].timers \subseteq st[n].live

\* Rebuttal stores the new note before it is sent: while a node has not been
\* started again, nobody has, and no reply on its way carries, a note of it
\* newer than its own.
NotesArePublished ==
  \A n \in Nodes, p \in Nodes \ restarted :
    /\ st[n].note[p] <= st[p].note[p]
    /\ p \in DOMAIN rpc[n].reply.notes => rpc[n].reply.notes[p] <= st[p].note[p]

(***************************************************************************)
(* README: "After participating in the network for some time you will      *)
(* learn of all other participants in the network".  The code leaves four  *)
(* situations out of which gossip alone does not lead:                     *)
(*   - a node whose last live peer was dropped gossips with nobody;        *)
(*   - a timer whose accusation ring.add dropped removes a peer that       *)
(*     nobody will hear of as accused;                                     *)
(*   - an accusation whose accuser has stopped being the predecessor, for  *)
(*     a node joined between the two, is accepted by nobody else;          *)
(*   - a client started again is at epoch 1 and its notes are ignored.     *)
(***************************************************************************)
Orphan(n, p) == p \in st[n].timers /\ ~Accused(st[n], p)
Outdated(n, p) ==
  \E r \in Rings : /\ st[n].acc[p][r] # NoAcc
                   /\ ~ValidAccuser(st[n], n, p, st[n].acc[p][r].accuser, r)

Undisturbed ==
  /\ restarted = {}
  /\ \A n \in up : ~Alone(n) /\ \A p \in Nodes : ~Orphan(n, p) /\ ~Outdated(n, p)

\* Every node that runs has all the others, and only them, in its live view,
\* with their current notes and unaccused.
Settled ==
  \A n \in up : /\ st[n].live = up \ {n}
                /\ \A p \in st[n].live : /\ st[n].note[p] = st[p].note[p]
                                         /\ ~Accused(st[n], p)

\* Gossip, Monitor and Rebuttal together: a run that never meets one of those
\* situations settles for good, though pings and calls were lost, nodes were
\* accused falsely, crashed, or joined in the meantime.
LearnsAll == []Undisturbed => <>[]Settled
=============================================================================
