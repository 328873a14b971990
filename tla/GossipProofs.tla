---------------------------- MODULE GossipProofs ----------------------------
(***************************************************************************)
(* The network's safety for any nodes, rings, contacts and faults, and for *)
(* any number of gossip rounds under way.                                  *)
(*                                                                         *)
(* What a node knows changes through a few handlers, and each is shown to  *)
(* keep NodeInv of the node that runs it, whatever message it is given:    *)
(* the messages themselves need only be well formed.  Notes are different: *)
(* how new a note may be depends on the state of the node it is from, so   *)
(* PublishedInv also speaks of the calls and replies on their way.         *)
(***************************************************************************)
EXTENDS Gossip, FiniteSetTheorems, WellFoundedInduction, TLAPS

Accs == [accuser : Nodes \cup {0}, epoch : Nat]
States == [full : SUBSET Nodes, live : SUBSET Nodes, note : [Nodes -> Nat],
           acc : [Nodes -> [Rings -> Accs]], timers : SUBSET Nodes,
           nPing : [Nodes -> Nat], currGossipRing : Rings, currMonitorRing : Rings]

Notes == UNION {[ps -> Nat] : ps \in SUBSET Nodes}
Sent == [accused : Nodes, accuser : Nodes \cup {0}, ring : Rings, epoch : Nat]
Replies == [certs : SUBSET Nodes, notes : Notes, accs : SUBSET Sent]
Calls == [to : Nodes, kind : {"gossip", "rebuttal"}, own : Nat, hosts : Notes]
Rounds == [todo : Seq(Calls), reply : Replies]

GossipTypeOK ==
  /\ up \in SUBSET Nodes /\ restarted \in SUBSET Nodes /\ faults \in Nat
  /\ st \in [Nodes -> States]
  /\ rpc \in [Nodes -> Rounds]

\* A node has no accusation of itself, so the note that answers it cannot be
\* overtaken; a peer with a timer has a note, so Monitor does not drop it.
NodeInv(s, n) ==
  /\ n \notin s.full
  /\ \A r \in Rings : s.acc[n][r] = NoAcc
  /\ \A p \in Nodes, r \in Rings : s.acc[p][r] # NoAcc => s.acc[p][r].epoch = s.note[p]
  /\ \A p \in s.live : Accused(s, p) => p \in s.timers
  /\ s.timers \subseteq s.live
  /\ \A p \in s.timers : s.note[p] # 0

\* The call a reply answers is not over until the reply is merged.
PublishedInv ==
  /\ NotesArePublished
  /\ \A n \in Nodes : rpc[n].reply # NoReply => rpc[n].todo # <<>>
  /\ \A n \in Nodes \ restarted : \A i \in DOMAIN rpc[n].todo :
       rpc[n].todo[i].own <= st[n].note[n]

GossipInv ==
  /\ GossipTypeOK
  /\ \A n \in Nodes : NodeInv(st[n], n)
  /\ PublishedInv

\* A set of hashes has a smallest member.
LEMMA MinWitness ==
  ASSUME NEW S, S \subseteq Nat, S # {}
  PROVE  \E x \in S : \A y \in S : x <= y
  <1> DEFINE less == {ss \in Nat \X Nat : ss[1] < ss[2]}
  <1>1. less = OpToRel(<, Nat)
    BY DEF OpToRel
  <1>2. PICK x \in S : \A y \in S : ~ (<<y, x>> \in less)
    <2>1. IsWellFoundedOn(less, Nat)
      BY ZenonT(30), <1>1, NatLessThanWellFounded
    <2> HIDE DEF less
    <2> QED BY ZenonT(30), <2>1, WFMin
  <1>3. ASSUME NEW y \in S PROVE x <= y
    <2>1. x \in Nat /\ y \in Nat
      OBVIOUS
    <2>2. <<y, x>> \in less <=> y < x
      BY <2>1
    <2> QED BY <1>2, <2>1, <2>2
  <1> QED BY <1>3

\* Min picks it.
LEMMA MinMember ==
  ASSUME NEW S, S \subseteq Nat, S # {}
  PROVE  Min(S) \in S
  BY ZenonT(30), MinWitness DEF Min

\* The successor on the circle is a member of it.
LEMMA SuccInMember ==
  ASSUME NEW S, S \subseteq Nat, NEW x \in Nat
  PROVE  SuccIn(S, x) \in S \cup {x}
  <1> DEFINE T == S \ {x}
             above == {y \in T : y > x}
  <1>1. T # {} => Min(T) \in T
    BY ZenonT(30), MinMember
  <1>2. above # {} => Min(above) \in above
    <2>1. above \subseteq Nat
      BY ZenonT(30)
    <2> HIDE DEF above
    <2> QED BY ZenonT(30), <2>1, MinMember
  <1> QED BY <1>1, <1>2 DEF SuccIn

\* A finite set of hashes is bounded: in a smallest one that were not, any
\* member could be left out.
LEMMA Bounded ==
  ASSUME NEW S, S \subseteq Nat, IsFiniteSet(S)
  PROVE  \E b \in Nat : \A x \in S : x <= b
  <1> DEFINE bounded(V) == \E b \in Nat : \A x \in V : x <= b
             bad(k) == \E V \in SUBSET Nat : IsFiniteSet(V) /\ Cardinality(V) = k /\ ~bounded(V)
             B == {k \in Nat : bad(k)}
  <1>1. SUFFICES B = {}
    <2>1. Cardinality(S) \in Nat
      BY FS_CardinalityType
    <2> QED BY <2>1
  <1>2. SUFFICES ASSUME B # {} PROVE FALSE
    OBVIOUS
  <1>3. PICK k \in B : \A j \in B : k <= j
    <2>1. B \subseteq Nat
      OBVIOUS
    <2> HIDE DEF B
    <2> QED BY ZenonT(30), <1>2, <2>1, MinWitness
  <1>4. PICK V \in SUBSET Nat : IsFiniteSet(V) /\ Cardinality(V) = k /\ ~bounded(V)
    BY <1>3
  <1>5. PICK x : x \in V
    <2>1. V # {}
      BY <1>4
    <2> QED BY <2>1
  <1>6. IsFiniteSet(V \ {x}) /\ Cardinality(V \ {x}) = k - 1 /\ k - 1 \in Nat
    <2>1. IsFiniteSet(V \ {x}) /\ Cardinality(V \ {x}) = k - 1
      BY <1>4, <1>5, FS_RemoveElement
    <2>2. Cardinality(V \ {x}) \in Nat
      BY <2>1, FS_CardinalityType
    <2> QED BY <2>1, <2>2
  <1>7. bounded(V \ {x})
    <2>1. k - 1 \notin B
      BY <1>3, <1>6
    <2> QED BY ZenonT(30), <1>6, <2>1
  <1>8. PICK b \in Nat : \A y \in V \ {x} : y <= b
    BY <1>7
  <1>9. \A y \in V : y \in Nat /\ (y = x \/ y <= b)
    BY <1>8
  <1>10. bounded(V)
    <2>1. CASE x <= b
      <3>1. \A y \in V : y <= b
        BY <1>9, <2>1
      <3> QED BY <3>1
    <2>2. CASE ~(x <= b)
      <3>1. x \in Nat /\ \A y \in V : y <= x
        BY <1>5, <1>9, <2>2
      <3> QED BY <3>1
    <2> QED BY <2>1, <2>2
  <1> QED BY <1>4, <1>10

\* Max picks a member: the smallest of the bounds is one.
LEMMA MaxMember ==
  ASSUME NEW S, S \subseteq Nat, S # {}, IsFiniteSet(S)
  PROVE  Max(S) \in S
  <1> DEFINE U == {b \in Nat : \A x \in S : x <= b}
  <1>1. PICK m \in U : \A b \in U : m <= b
    <2>1. U # {}
      BY ZenonT(30), Bounded
    <2>2. U \subseteq Nat
      OBVIOUS
    <2> HIDE DEF U
    <2> QED BY ZenonT(30), <2>1, <2>2, MinWitness
  <1>2. m \in Nat /\ \A x \in S : x \in Nat /\ x <= m
    BY <1>1
  <1>3. m \in S
    <2>1. SUFFICES ASSUME m \notin S PROVE FALSE
      OBVIOUS
    <2>2. \A x \in S : x <= m - 1 /\ m - 1 \in Nat
      BY <1>2, <2>1
    <2>3. m - 1 \in U
      BY ZenonT(30), <2>2
    <2> QED BY <1>1, <1>2, <2>3
  <1>4. \A x \in S : m >= x
    BY <1>2
  <1> QED BY ZenonT(30), <1>3, <1>4 DEF Max

\* The predecessor on the circle is a member of it.
LEMMA PrevInMember ==
  ASSUME NEW S, S \subseteq Nat, IsFiniteSet(S), NEW x \in Nat
  PROVE  PrevIn(S, x) \in S \cup {x}
  <1> DEFINE T == S \ {x}
             below == {y \in T : y < x}
  <1>1. T # {} => Max(T) \in T
    <2>1. T \subseteq Nat /\ IsFiniteSet(T)
      BY FS_RemoveElement
    <2> HIDE DEF T
    <2> QED BY ZenonT(30), <2>1, MaxMember
  <1>2. below # {} => Max(below) \in below
    <2>1. below \subseteq Nat /\ IsFiniteSet(below)
      BY ZenonT(30), FS_Subset
    <2> HIDE DEF below
    <2> QED BY ZenonT(30), <2>1, MaxMember
  <1> QED BY <1>1, <1>2 DEF PrevIn

\* The rings of a node have only nodes on them.
LEMMA Neighbours ==
  ASSUME NEW s \in States, NEW n \in Nodes, NEW p \in Nodes, NEW r \in Rings
  PROVE  ringSucc(s, n, r, p) \in Nodes /\ ringPrev(s, n, r, p) \in Nodes
  <1> DEFINE ps == s.live \cup {n}
             H == hashes(s, n, r)
             x == Hash[r][p]
  <1>1. ps \in SUBSET Nodes
    BY DEF States
  <1>2. H = {Hash[r][q] : q \in ps}
    BY DEF hashes
  <1> HIDE DEF ps, H
  <1>3. Hash[r] \in [Nodes -> Nat] /\ x \in Nat
    BY GossipHashes
  <1>4. H \subseteq Nat
    BY <1>1, <1>2, <1>3
  <1>5. IsFiniteSet(H)
    <2> DEFINE f == [q \in ps |-> Hash[r][q]]
    <2>1. f \in Surjection(ps, H)
      BY <1>2 DEF Surjection
    <2>2. IsFiniteSet(ps)
      BY <1>1, GossipHashes, FS_Subset
    <2> HIDE DEF f
    <2> QED BY ZenonT(30), <2>1, <2>2, FS_Surjection
  <1>6. \A h \in H \cup {x} : peerAt(r, h) \in Nodes
    <2> TAKE h \in H \cup {x}
    <2>1. \E q \in Nodes : Hash[r][q] = h
      BY <1>1, <1>2
    <2> QED BY ZenonT(30), <2>1 DEF peerAt
  <1>7. SuccIn(H, x) \in H \cup {x}
    BY ZenonT(30), <1>3, <1>4, SuccInMember
  <1>8. PrevIn(H, x) \in H \cup {x}
    BY ZenonT(30), <1>3, <1>4, <1>5, PrevInMember
  <1> QED BY ZenonT(30), <1>6, <1>7, <1>8 DEF H, ringSucc, ringPrev
-----------------------------------------------------------------------------
\* What the handlers make of a node's state.  Each keeps NodeInv and says
\* which notes change.

\* A peer that is not accused may be added: ring.add only drops accusations.
LEMMA AddLiveKeeps ==
  ASSUME NEW s \in States, NEW n \in Nodes, NodeInv(s, n),
         NEW p \in Nodes, ~Accused(s, p)
  PROVE  /\ AddLive(s, n, p) \in States /\ NodeInv(AddLive(s, n, p), n)
         /\ AddLive(s, n, p).note = s.note
  <1>1. PICK t : t = AddLive(s, n, p)
    OBVIOUS
  <1>2. CASE p \in s.live
    BY <1>2 DEF AddLive
  <1>3. CASE p \notin s.live
    <2>1. PICK g : /\ g \in [Nodes -> [Rings -> Accs]]
                   /\ \A q \in Nodes, r \in Rings : g[q][r] \in {NoAcc, s.acc[q][r]}
                   /\ t = [s EXCEPT !.live = @ \cup {p}, !.acc = g]
      <3>1. s.acc \in [Nodes -> [Rings -> Accs]] /\ NoAcc \in Accs
        BY DEF States, Accs, NoAcc
      <3>2. PICK u : u = [s EXCEPT !.live = @ \cup {p}]
        BY ZenonT(30)
      <3>3. u.acc = s.acc
        BY <3>2 DEF States
      <3> DEFINE drops(q, r) == /\ q # n /\ q = ringSucc(u, n, r, p)
                                /\ u.acc[q][r].accuser = ringPrev(u, n, r, p)
                 h == [q \in Nodes |-> [r \in Rings |-> IF drops(q, r) THEN NoAcc ELSE s.acc[q][r]]]
      <3>4. t = [u EXCEPT !.acc = h]
        BY <1>1, <1>3, <3>2, <3>3 DEF AddLive
      <3> HIDE DEF drops
      <3>5. h \in [Nodes -> [Rings -> Accs]] /\ \A q \in Nodes, r \in Rings : h[q][r] \in {NoAcc, s.acc[q][r]}
        BY <3>1
      <3> HIDE DEF h
      <3>6. t = [s EXCEPT !.live = @ \cup {p}, !.acc = h]
        BY <3>2, <3>4 DEF States
      <3> QED BY ZenonT(30), <3>5, <3>6
    <2>2. /\ t \in States
          /\ t.full = s.full /\ t.note = s.note /\ t.timers = s.timers
          /\ t.live = s.live \cup {p} /\ t.acc = g
      BY ZenonT(30), <2>1 DEF States
    <2>3. \A q \in Nodes : Accused(t, q) => Accused(s, q)
      BY <2>1, <2>2 DEF Accused
    <2>4. NodeInv(t, n)
      <3>1. \A q \in t.live : Accused(t, q) => q \in t.timers
        BY <2>2, <2>3 DEF NodeInv, States
      <3>2. \A q \in Nodes, r \in Rings : t.acc[q][r] # NoAcc => t.acc[q][r].epoch = t.note[q]
        BY <2>1, <2>2 DEF NodeInv
      <3>3. \A r \in Rings : t.acc[n][r] = NoAcc
        BY <2>1, <2>2 DEF NodeInv
      <3> QED BY <2>2, <3>1, <3>2, <3>3 DEF NodeInv
    <2> QED BY <1>1, <2>2, <2>4
  <1> QED BY <1>2, <1>3

\* evalNote: a newer note of a peer ends every accusation of it, because they
\* are all about the note before.
LEMMA EvalNoteKeeps ==
  ASSUME NEW s \in States, NEW n \in Nodes, NodeInv(s, n),
         NEW p \in Nodes, NEW e \in Nat
  PROVE  /\ evalNote(s, n, p, e) \in States /\ NodeInv(evalNote(s, n, p, e), n)
         /\ \A q \in Nodes : \/ evalNote(s, n, p, e).note[q] = s.note[q]
                             \/ /\ q = p /\ q # n
                                /\ e > s.note[q] /\ evalNote(s, n, p, e).note[q] = e
  <1> DEFINE t == [s EXCEPT !.note[p] = e,
                            !.acc[p] = [r \in Rings |-> IF answers(e, @[r]) THEN NoAcc ELSE @[r]]]
             u == [t EXCEPT !.nPing[p] = 0, !.timers = @ \ {p}]
  <1>1. CASE p \notin s.full \/ e <= s.note[p]
    BY ZenonT(30), <1>1 DEF evalNote
  <1>2. CASE p \in s.full /\ ~(e <= s.note[p])
    <2>0. /\ s.acc \in [Nodes -> [Rings -> Accs]] /\ s.note \in [Nodes -> Nat]
          /\ s.timers \subseteq s.live /\ s.live \subseteq Nodes /\ s.nPing \in [Nodes -> Nat]
          /\ p # n /\ e > s.note[p] /\ s.note[p] \in Nat
      BY <1>2 DEF States, NodeInv
    <2>1. \A r \in Rings : (IF answers(e, s.acc[p][r]) THEN NoAcc ELSE s.acc[p][r]) = NoAcc
      BY <2>0 DEF NodeInv, answers, NoAcc
    <2>2. PICK g : g = [r \in Rings |-> NoAcc]
      BY ZenonT(30)
    <2>3. t = [s EXCEPT !.note[p] = e, !.acc[p] = g]
      BY ZenonT(30), <2>0, <2>1, <2>2 DEF States
    <2> HIDE DEF t
    <2>4. /\ t \in States
          /\ t.note = [s.note EXCEPT ![p] = e] /\ t.acc = [s.acc EXCEPT ![p] = g]
          /\ t.full = s.full /\ t.live = s.live /\ t.timers = s.timers
      <3>1. g \in [Rings -> Accs]
        BY <2>2 DEF Accs, NoAcc
      <3> QED BY ZenonT(30), <2>3, <3>1 DEF States
    <2>5. /\ u \in States
          /\ u.note = t.note /\ u.acc = t.acc /\ u.full = t.full /\ u.live = t.live
          /\ u.timers = t.timers \ {p}
      BY ZenonT(30), <2>4 DEF States
    <2> HIDE DEF u
    <2>6. ~Accused(t, p) /\ ~Accused(u, p)
      BY <2>0, <2>2, <2>4, <2>5 DEF Accused
    <2>7. \A q \in Nodes, r \in Rings : t.acc[q][r] # NoAcc => q # p /\ t.acc[q][r] = s.acc[q][r]
      BY <2>0, <2>2, <2>4
    <2>8. \A q \in Nodes : q # p => t.note[q] = s.note[q]
      BY <2>0, <2>4
    <2>9. \A q \in Nodes : Accused(t, q) => q # p /\ Accused(s, q)
      BY <2>7 DEF Accused
    <2>10. \A q \in Nodes : Accused(u, q) => q # p /\ Accused(s, q)
      BY <2>5, <2>9 DEF Accused
    <2>11. \A q \in Nodes, r \in Rings : t.acc[q][r] # NoAcc => t.acc[q][r].epoch = t.note[q]
      BY <2>7, <2>8 DEF NodeInv
    <2>12. \A r \in Rings : t.acc[n][r] = NoAcc
      BY <2>7 DEF NodeInv
    <2>13. \A q \in t.timers : t.note[q] # 0
      BY <2>0, <2>4 DEF NodeInv
    <2>14. NodeInv(t, n)
      BY <2>0, <2>4, <2>9, <2>11, <2>12, <2>13 DEF NodeInv
    <2>15. NodeInv(u, n)
      BY <2>0, <2>4, <2>5, <2>10, <2>11, <2>12, <2>13 DEF NodeInv
    <2>16. \/ evalNote(s, n, p, e) = AddLive(t, n, p)
           \/ evalNote(s, n, p, e) = AddLive(u, n, p)
      BY <1>2, <2>6 DEF evalNote, t, u
    <2>17. evalNote(s, n, p, e).note = t.note
      BY <2>4, <2>5, <2>6, <2>14, <2>15, <2>16, AddLiveKeeps
    <2>18. evalNote(s, n, p, e) \in States /\ NodeInv(evalNote(s, n, p, e), n)
      BY <2>4, <2>5, <2>6, <2>14, <2>15, <2>16, AddLiveKeeps
    <2> QED BY <2>0, <2>4, <2>8, <2>17, <2>18
  <1> QED BY <1>1, <1>2

\* evalCertificate never adds the node itself.
LEMMA EvalCertificatesKeeps ==
  ASSUME NEW s \in States, NEW n \in Nodes, NodeInv(s, n), NEW certs \in SUBSET Nodes
  PROVE  /\ evalCertificates(s, n, certs) \in States
         /\ NodeInv(evalCertificates(s, n, certs), n)
         /\ evalCertificates(s, n, certs).note = s.note
  <1>1. PICK t : t = evalCertificates(s, n, certs)
    OBVIOUS
  <1>2. /\ t \in States /\ t.full = s.full \cup (certs \ {n})
        /\ t.live = s.live /\ t.note = s.note /\ t.acc = s.acc /\ t.timers = s.timers
    BY <1>1 DEF States, evalCertificates
  <1>3. \A p \in Nodes : Accused(t, p) <=> Accused(s, p)
    BY <1>2 DEF Accused
  <1>4. NodeInv(t, n)
    BY <1>2, <1>3 DEF NodeInv, States
  <1> QED BY <1>1, <1>2, <1>4

\* mergeAccusations: an accusation is taken over only when it is about the
\* note held, and its live subject gets a timer.
LEMMA MergeAccusationsKeeps ==
  ASSUME NEW s \in States, NEW n \in Nodes, NodeInv(s, n), NEW accs \in SUBSET Sent
  PROVE  /\ mergeAccusations(s, n, accs) \in States
         /\ NodeInv(mergeAccusations(s, n, accs), n)
         /\ mergeAccusations(s, n, accs).note = s.note
  <1> DEFINE new == {a \in accs : accepted(s, n, a)}
             held == {a \in accs : isHeld(s, n, a)}
             about(p, r) == {a \in new : a.accused = p /\ a.ring = r}
             taken(p, r) == LET chosen == CHOOSE a \in about(p, r) : TRUE
                            IN  [accuser |-> chosen.accuser, epoch |-> chosen.epoch]
             g == [p \in Nodes |-> [r \in Rings |-> IF about(p, r) = {} THEN s.acc[p][r] ELSE taken(p, r)]]
             ps == {a.accused : a \in new \cup held}
  <1>1. /\ s.acc \in [Nodes -> [Rings -> Accs]] /\ s.note \in [Nodes -> Nat]
        /\ s.live \subseteq Nodes /\ s.full \subseteq Nodes
    BY DEF States
  <1>2. PICK t : t = mergeAccusations(s, n, accs)
    OBVIOUS
  <1>3. t = [s EXCEPT !.acc = g, !.timers = StartTimer(s, ps)]
    BY <1>2 DEF mergeAccusations, States
  <1>4. \A p \in ps : p \in s.full /\ s.note[p] # 0
    BY ZenonT(30) DEF accepted, isHeld, knownPeers
  <1>5. ASSUME NEW p \in Nodes, NEW r \in Rings
        PROVE  /\ g[p][r] \in Accs
               /\ g[p][r] = s.acc[p][r] \/ (p \in ps /\ g[p][r].epoch = s.note[p])
    <2>1. CASE about(p, r) = {}
      BY <1>1, <2>1
    <2>2. CASE about(p, r) # {}
      <3>1. PICK a : a = CHOOSE b \in about(p, r) : TRUE
        OBVIOUS
      <3>2. a \in about(p, r)
        <4> HIDE DEF about
        <4> QED BY ZenonT(30), <2>2, <3>1
      <3>3. g[p][r] = [accuser |-> a.accuser, epoch |-> a.epoch]
        <4> HIDE DEF about
        <4> QED BY <2>2, <3>1
      <3>4. a \in Sent /\ a \in new /\ a.accused = p /\ a.epoch = s.note[p]
        BY <3>2 DEF accepted
      <3>5. p \in ps
        BY <3>4
      <3> QED BY <3>3, <3>4, <3>5 DEF Accs, Sent
    <2> QED BY <2>1, <2>2
  <1>6. g \in [Nodes -> [Rings -> Accs]]
    <2> HIDE DEF about, taken
    <2>1. \A p \in Nodes : g[p] = [r \in Rings |-> g[p][r]]
      OBVIOUS
    <2>2. g = [p \in Nodes |-> g[p]]
      OBVIOUS
    <2> HIDE DEF g
    <2> QED BY <1>5, <2>1, <2>2
  <1> HIDE DEF g, ps
  <1>7. /\ t \in States /\ t.acc = g /\ t.timers = s.timers \cup (ps \cap s.live)
        /\ t.full = s.full /\ t.live = s.live /\ t.note = s.note
    BY ZenonT(30), <1>1, <1>3, <1>6 DEF States, StartTimer
  <1>8. NodeInv(t, n)
    <2>1. \A r \in Rings : t.acc[n][r] = NoAcc
      BY <1>4, <1>5, <1>7 DEF NodeInv
    <2>2. \A p \in Nodes, r \in Rings : t.acc[p][r] # NoAcc => t.acc[p][r].epoch = t.note[p]
      BY <1>5, <1>7 DEF NodeInv
    <2>3. \A p \in t.live : Accused(t, p) => p \in t.timers
      <3>1. \A p \in Nodes : Accused(t, p) => Accused(s, p) \/ p \in ps
        BY <1>5, <1>7 DEF Accused
      <3> QED BY <1>1, <1>7, <3>1 DEF NodeInv
    <2>4. t.timers \subseteq t.live /\ \A p \in t.timers : t.note[p] # 0
      BY <1>4, <1>7 DEF NodeInv
    <2> QED BY <1>7, <2>1, <2>2, <2>3, <2>4 DEF NodeInv
  <1> QED BY <1>2, <1>7, <1>8

\* The partners of a round are nodes, and each call carries the own note.
LEMMA CallsTyped ==
  ASSUME NEW s \in States, NEW n \in Nodes, NEW kind \in {"gossip", "rebuttal"}, NEW hosts \in Notes
  PROVE  /\ call(s, n, kind, hosts) \in Seq(Calls)
         /\ \A i \in DOMAIN call(s, n, kind, hosts) : call(s, n, kind, hosts)[i].own = s.note[n]
  <1>1. PICK r \in Rings : r = s.currGossipRing
    BY DEF States
  <1>2. PICK q \in Nodes : q = ringSucc(s, n, r, n)
    BY Neighbours
  <1>3. PICK p \in Nodes : p = ringPrev(s, n, r, n)
    BY Neighbours
  <1>4. PICK ps : ps = GossipPartners(s, n)
    OBVIOUS
  <1>5. ps = (IF q = n THEN <<>> ELSE <<q>>) \o (IF p \in {q, n} THEN <<>> ELSE <<p>>)
    BY <1>1, <1>2, <1>3, <1>4 DEF GossipPartners
  <1>6. ps \in Seq(Nodes)
    BY <1>5
  <1>7. call(s, n, kind, hosts) =
          [i \in 1..Len(ps) |-> [to |-> ps[i], kind |-> kind, own |-> s.note[n], hosts |-> hosts]]
    BY <1>4, <1>6 DEF call
  <1>8. s.note[n] \in Nat
    BY DEF States
  <1>9. \A i \in 1..Len(ps) :
          [to |-> ps[i], kind |-> kind, own |-> s.note[n], hosts |-> hosts] \in Calls
    BY <1>6, <1>8 DEF Calls
  <1>10. Len(ps) \in Nat
    BY <1>6
  <1> QED BY <1>7, <1>9, <1>10

\* The message of a round has no notes in it.
LEMMA EmptyNotes == <<>> \in Notes
  <1>1. <<>> = [p \in {} |-> 0]
    OBVIOUS
  <1>2. [p \in {} |-> 0] \in [{} -> Nat]
    OBVIOUS
  <1>3. {} \in SUBSET Nodes
    OBVIOUS
  <1> QED BY <1>1, <1>2, <1>3 DEF Notes

\* GossipPartners advances the gossip ring, whatever else it is given.
LEMMA AdvanceKeeps ==
  ASSUME NEW s \in States, NEW n \in Nodes, NodeInv(s, n), NEW r \in Rings
  PROVE  LET t == [s EXCEPT !.currMonitorRing = r]
         IN  /\ advanceGossip(s) \in States /\ NodeInv(advanceGossip(s), n)
             /\ advanceGossip(s).note = s.note
             /\ t \in States /\ NodeInv(t, n) /\ t.note = s.note
  <1>1. \A i \in Rings : nextRing(i) \in Rings
    BY GossipNumbers DEF nextRing, Rings
  <1>2. PICK t : t = advanceGossip(s)
    OBVIOUS
  <1>3. /\ t \in States /\ t.full = s.full /\ t.live = s.live /\ t.note = s.note
        /\ t.acc = s.acc /\ t.timers = s.timers
    BY ZenonT(30), <1>1, <1>2 DEF advanceGossip, States
  <1>4. PICK u : u = [s EXCEPT !.currMonitorRing = r]
    BY ZenonT(30)
  <1>5. /\ u \in States /\ u.full = s.full /\ u.live = s.live /\ u.note = s.note
        /\ u.acc = s.acc /\ u.timers = s.timers
    BY ZenonT(30), <1>4 DEF States
  <1>6. NodeInv(t, n) /\ NodeInv(u, n)
    BY <1>3, <1>5 DEF NodeInv, Accused
  <1> QED BY <1>2, <1>3, <1>4, <1>5, <1>6

\* Rebuttal: nobody's accusations are about the node's own note, so it may
\* move on.
LEMMA RebuttalKeeps ==
  ASSUME NEW s \in States, NEW n \in Nodes, NodeInv(s, n)
  PROVE  /\ rebuttal(s, n).s \in States /\ NodeInv(rebuttal(s, n).s, n)
         /\ rebuttal(s, n).s.note = [s.note EXCEPT ![n] = @ + 1]
         /\ rebuttal(s, n).calls \in Seq(Calls)
         /\ \A i \in DOMAIN rebuttal(s, n).calls :
              rebuttal(s, n).calls[i].own = rebuttal(s, n).s.note[n]
  <1>0. PICK f \in [Nodes -> Nat] : f = [s.note EXCEPT ![n] = @ + 1]
    <2>1. s.note \in [Nodes -> Nat] /\ s.note[n] + 1 \in Nat
      BY DEF States
    <2>2. [s.note EXCEPT ![n] = s.note[n] + 1] \in [Nodes -> Nat]
      BY <2>1
    <2> QED BY ZenonT(30), <2>1, <2>2
  <1>1. PICK t : t = [s EXCEPT !.note[n] = @ + 1] /\ t = [s EXCEPT !.note = f]
    BY ZenonT(30), <1>0 DEF States
  <1>2. /\ t \in States /\ t.note = [s.note EXCEPT ![n] = @ + 1] /\ s.note \in [Nodes -> Nat]
        /\ t.full = s.full /\ t.live = s.live /\ t.acc = s.acc /\ t.timers = s.timers
    BY ZenonT(30), <1>0, <1>1 DEF States
  <1>3. NodeInv(t, n)
    <2>1. \A p \in Nodes, r \in Rings : t.acc[p][r] # NoAcc => t.acc[p][r].epoch = t.note[p]
      BY <1>2 DEF NodeInv
    <2>2. \A p \in t.timers : t.note[p] # 0
      BY <1>2 DEF NodeInv, States
    <2> QED BY <1>2, <2>1, <2>2 DEF NodeInv, Accused
  <1>4. rebuttal(s, n).s = advanceGossip(t) /\ rebuttal(s, n).calls = call(t, n, "rebuttal", <<>>)
    BY <1>1 DEF rebuttal
  <1>5. 1 \in Rings
    BY GossipNumbers DEF Rings
  <1>6. advanceGossip(t) \in States /\ NodeInv(advanceGossip(t), n) /\ advanceGossip(t).note = t.note
    BY ZenonT(30), <1>2, <1>3, <1>5, AdvanceKeeps
  <1>7. /\ call(t, n, "rebuttal", <<>>) \in Seq(Calls)
        /\ \A i \in DOMAIN call(t, n, "rebuttal", <<>>) : call(t, n, "rebuttal", <<>>)[i].own = t.note[n]
    BY <1>2, CallsTyped, EmptyNotes
  <1> QED BY ZenonT(30), <1>2, <1>4, <1>6, <1>7

\* Monitor: the accusation is about the note held, the node does not accuse
\* itself, and a peer it drops has no timer.
LEMMA FailedPingKeeps ==
  ASSUME NEW s \in States, NEW n \in Nodes, NodeInv(s, n),
         NEW p \in Nodes, p # n, NEW r \in Rings
  PROVE  /\ failedPing(s, n, p, r) \in States /\ NodeInv(failedPing(s, n, p, r), n)
         /\ failedPing(s, n, p, r).note = s.note
  <1>0. /\ s.acc \in [Nodes -> [Rings -> Accs]] /\ s.note \in [Nodes -> Nat]
        /\ s.nPing \in [Nodes -> Nat] /\ s.live \subseteq Nodes
    BY DEF States
  <1>1. PICK t : t = failedPing(s, n, p, r)
    OBVIOUS
  <1>2. CASE ~(s.nPing[p] + 1 >= PingLimit)
    <2>0. PICK f \in [Nodes -> Nat] : f = [s.nPing EXCEPT ![p] = @ + 1]
      <3>1. s.nPing[p] + 1 \in Nat
        BY <1>0
      <3>2. [s.nPing EXCEPT ![p] = s.nPing[p] + 1] \in [Nodes -> Nat]
        BY <1>0, <3>1
      <3> QED BY ZenonT(30), <1>0, <3>2
    <2>1. t = [s EXCEPT !.nPing = f]
      BY <1>1, <1>2, <2>0 DEF failedPing, States
    <2>2. /\ t \in States /\ t.full = s.full /\ t.live = s.live /\ t.note = s.note
          /\ t.acc = s.acc /\ t.timers = s.timers
      BY ZenonT(30), <1>0, <2>1 DEF States
    <2>3. NodeInv(t, n)
      BY <2>2 DEF NodeInv, Accused
    <2> QED BY <1>1, <2>2, <2>3
  <1>3. CASE s.nPing[p] + 1 >= PingLimit /\ s.note[p] = 0
    <2>1. t = [s EXCEPT !.live = @ \ {p}]
      BY <1>1, <1>3 DEF failedPing, accuse
    <2>2. /\ t \in States /\ t.full = s.full /\ t.live = s.live \ {p} /\ t.note = s.note
          /\ t.acc = s.acc /\ t.timers = s.timers
      BY ZenonT(30), <1>0, <2>1 DEF States
    <2>3. NodeInv(t, n)
      BY <1>3, <2>2 DEF NodeInv, Accused
    <2> QED BY <1>1, <2>2, <2>3
  <1>4. CASE s.nPing[p] + 1 >= PingLimit /\ s.note[p] # 0
    <2>1. PICK a \in Accs : a = [accuser |-> n, epoch |-> s.note[p]]
      BY ZenonT(30), <1>0 DEF Accs
    <2>2. t = [s EXCEPT !.acc[p][r] = a, !.timers = StartTimer(s, {p})]
      BY <1>1, <1>4, <2>1 DEF failedPing, accuse
    <2>3. /\ t \in States /\ t.full = s.full /\ t.live = s.live /\ t.note = s.note
          /\ t.acc = [s.acc EXCEPT ![p][r] = a]
          /\ t.timers = s.timers \cup ({p} \cap s.live)
      BY ZenonT(30), <1>0, <2>2 DEF States, StartTimer
    <2>4. \A q \in Nodes, i \in Rings : t.acc[q][i] = s.acc[q][i] \/ (q = p /\ t.acc[q][i].epoch = s.note[q])
      BY <1>0, <2>1, <2>3
    <2>5. \A q \in Nodes : Accused(t, q) => Accused(s, q) \/ q = p
      BY <2>4 DEF Accused
    <2>6. \A q \in Nodes, i \in Rings : t.acc[q][i] # NoAcc => t.acc[q][i].epoch = t.note[q]
      BY <2>3, <2>4 DEF NodeInv
    <2>7. \A i \in Rings : t.acc[n][i] = NoAcc
      BY <2>4 DEF NodeInv
    <2>8. \A q \in t.live : Accused(t, q) => q \in t.timers
      BY <1>0, <2>3, <2>5 DEF NodeInv
    <2>9. t.timers \subseteq t.live /\ \A q \in t.timers : t.note[q] # 0
      BY ZenonT(30), <1>4, <2>3 DEF NodeInv
    <2>10. NodeInv(t, n)
      BY <2>3, <2>6, <2>7, <2>8, <2>9 DEF NodeInv
    <2> QED BY <1>1, <2>3, <2>10
  <1> QED BY <1>2, <1>3, <1>4

\* A node that starts has nobody accused.
LEMMA NewNodeKeeps ==
  ASSUME NEW n \in Nodes, NEW peers \in SUBSET Nodes, n \notin peers, NEW notes \in [Nodes -> Nat]
  PROVE  /\ NewNode(peers, notes) \in States /\ NodeInv(NewNode(peers, notes), n)
         /\ NewNode(peers, notes).note = notes
  <1>1. PICK t : t = NewNode(peers, notes)
    OBVIOUS
  <1>2. /\ t.full = peers /\ t.live = peers /\ t.note = notes /\ t.timers = {}
        /\ t.acc = [p \in Nodes |-> [r \in Rings |-> NoAcc]]
    BY <1>1 DEF NewNode
  <1>3. t \in States
    <2>1. 1 \in Rings
      BY GossipNumbers DEF Rings
    <2>2. NoAcc \in Accs
      BY DEF NoAcc, Accs
    <2>3. [p \in Nodes |-> [r \in Rings |-> NoAcc]] \in [Nodes -> [Rings -> Accs]]
      BY <2>2
    <2> QED BY <1>1, <2>1, <2>3 DEF NewNode, States
  <1>4. NodeInv(t, n)
    BY <1>2 DEF NodeInv, Accused
  <1> QED BY <1>1, <1>2, <1>3, <1>4

\* The notes, and the accusations, that a reply carries are well formed.
LEMMA NotesOf ==
  ASSUME NEW f \in [Nodes -> Nat], NEW ps \in SUBSET Nodes
  PROVE  [p \in ps |-> f[p]] \in Notes
  <1>1. [p \in ps |-> f[p]] \in [ps -> Nat]
    OBVIOUS
  <1> QED BY <1>1 DEF Notes

LEMMA SentAccusations ==
  ASSUME NEW s \in States, NEW p \in Nodes
  PROVE  AllAccusations(s, p) \in SUBSET Sent
  <1>1. \A r \in Rings : s.acc[p][r] \in Accs
    BY DEF States
  <1>2. \A r \in Rings : s.acc[p][r].accuser \in Nodes \cup {0} /\ s.acc[p][r].epoch \in Nat
    BY <1>1 DEF Accs
  <1> QED BY <1>2 DEF AllAccusations, Sent

\* mergeViews: the reply has the notes the node holds.
LEMMA MergeViewsTyped ==
  ASSUME NEW s \in States, NEW m \in Nodes, NEW given
  PROVE  /\ mergeViews(s, m, given) \in Replies
         /\ \A q \in DOMAIN mergeViews(s, m, given).notes : mergeViews(s, m, given).notes[q] = s.note[q]
  <1>1. PICK ps \in SUBSET Nodes :
          mergeViews(s, m, given) = [certs |-> s.full \ DOMAIN given,
                                     notes |-> [p \in ps |-> s.note[p]],
                                     accs |-> UNION {AllAccusations(s, p) : p \in s.full}]
    <2> DEFINE ps == {q \in {p \in s.full \cup {m} : p \in DOMAIN given => s.note[p] < given[p]} : s.note[q] # 0}
    <2>1. s.full \subseteq Nodes
      BY DEF States
    <2>2. ps \in SUBSET Nodes
      BY <2>1
    <2>3. mergeViews(s, m, given) = [certs |-> s.full \ DOMAIN given,
                                     notes |-> [p \in ps |-> s.note[p]],
                                     accs |-> UNION {AllAccusations(s, p) : p \in s.full}]
      BY ZenonT(30) DEF mergeViews
    <2> HIDE DEF ps
    <2> QED BY ZenonT(30), <2>2, <2>3
  <1>2. [p \in ps |-> s.note[p]] \in Notes
    BY ZenonT(30), NotesOf DEF States
  <1>3. UNION {AllAccusations(s, p) : p \in s.full} \in SUBSET Sent
    <2>1. \A p \in s.full : AllAccusations(s, p) \in SUBSET Sent
      BY SentAccusations DEF States
    <2> QED BY <2>1
  <1>4. s.full \ DOMAIN given \in SUBSET Nodes
    BY DEF States
  <1>5. PICK g : g = UNION {AllAccusations(s, p) : p \in s.full}
    BY ZenonT(30)
  <1>6. PICK d : d = s.full \ DOMAIN given
    BY ZenonT(30)
  <1> QED BY <1>1, <1>2, <1>3, <1>4, <1>5, <1>6 DEF Replies

LEMMA NoReplyTyped == NoReply \in Replies /\ NoReply.notes = <<>> /\ DOMAIN NoReply.notes = {}
  BY EmptyNotes DEF NoReply, Replies

\* What Spread leaves the callee with and answers: at most the caller's own
\* note is new, and the notes of the reply are the callee's.
Answers(s, m, n, c, t, reply) ==
  /\ t \in States /\ NodeInv(t, m) /\ reply \in Replies
  /\ \A q \in Nodes : \/ t.note[q] = s.note[q]
                      \/ q = n /\ q # m /\ c.own > s.note[q] /\ t.note[q] = c.own
  /\ \A q \in DOMAIN reply.notes : reply.notes[q] = t.note[q]

\* Spread: the callee takes the caller's note if it is newer, and answers
\* with notes it holds itself.
LEMMA SpreadKeeps ==
  ASSUME NEW s \in States, NEW m \in Nodes, NodeInv(s, m), NEW n \in Nodes, NEW c \in Calls
  PROVE  Answers(s, m, n, c, Spread(s, m, n, c).s, Spread(s, m, n, c).reply)
  <1>1. PICK t : t = evalNote(evalCertificates(s, m, {n}), m, n, c.own)
    OBVIOUS
  <1>2. c.own \in Nat
    BY DEF Calls
  <1>3. PICK u : u = evalCertificates(s, m, {n})
    OBVIOUS
  <1>4. u \in States /\ NodeInv(u, m) /\ u.note = s.note
    BY <1>3, EvalCertificatesKeeps
  <1>5. /\ t \in States /\ NodeInv(t, m)
        /\ \A q \in Nodes : \/ t.note[q] = s.note[q]
                            \/ q = n /\ q # m /\ c.own > s.note[q] /\ t.note[q] = c.own
    <2>1. t = evalNote(u, m, n, c.own)
      BY <1>1, <1>3
    <2>2. t \in States /\ NodeInv(t, m)
      BY ZenonT(30), <1>2, <1>4, <2>1, EvalNoteKeeps
    <2>3. \A q \in Nodes : \/ t.note[q] = u.note[q]
                           \/ q = n /\ q # m /\ c.own > u.note[q] /\ t.note[q] = c.own
      <3>1. PICK e \in Nat : e = c.own
        BY <1>2
      <3>2. \A q \in Nodes : \/ evalNote(u, m, n, e).note[q] = u.note[q]
                             \/ /\ q = n /\ q # m
                                /\ e > u.note[q] /\ evalNote(u, m, n, e).note[q] = e
        BY <1>4, EvalNoteKeeps
      <3> QED BY <2>1, <3>1, <3>2
    <2> QED BY <1>4, <2>2, <2>3
  <1>6. PICK met \in SUBSET Nodes : met = FindNeighbours(t, m, n) \cup {m}
    <2>1. \A r \in Rings : ringSucc(t, m, r, n) \in Nodes /\ ringPrev(t, m, r, n) \in Nodes
      BY <1>5, Neighbours
    <2>2. \A r \in Rings : {ringSucc(t, m, r, n), ringPrev(t, m, r, n)} \subseteq Nodes
      BY <2>1
    <2>3. FindNeighbours(t, m, n) \subseteq Nodes
      BY ZenonT(30), <2>2 DEF FindNeighbours
    <2> QED BY ZenonT(30), <2>3
  <1>7. PICK ps \in SUBSET Nodes : ps = {q \in met : t.note[q] # 0}
    BY ZenonT(30)
  <1>8. PICK f \in Notes : f = [p \in ps |-> t.note[p]]
    BY ZenonT(30), <1>5, NotesOf DEF States
  <1>9. PICK g \in SUBSET Sent : g = AllAccusations(t, n)
    BY <1>5, SentAccusations
  <1>10. PICK v : v = mergeViews(t, m, c.hosts)
    OBVIOUS
  <1>11. v \in Replies /\ \A q \in DOMAIN v.notes : v.notes[q] = t.note[q]
    BY <1>5, <1>10, MergeViewsTyped
  <1>12. PICK r1 : r1 = [NoReply EXCEPT !.accs = g]
    BY ZenonT(30)
  <1>13. r1 \in Replies /\ DOMAIN r1.notes = {}
    BY <1>12, NoReplyTyped DEF Replies
  <1>14. PICK r2 : r2 = [NoReply EXCEPT !.certs = met, !.notes = f]
    OBVIOUS
  <1>15. r2 \in Replies /\ r2.notes = f
    BY ZenonT(30), <1>14, NoReplyTyped DEF Replies
  <1>16. \A q \in DOMAIN r2.notes : r2.notes[q] = t.note[q]
    BY <1>8, <1>15
  <1>17. PICK res : res = Spread(s, m, n, c)
    OBVIOUS
  <1>18. \/ res = [s |-> t, answered |-> TRUE, reply |-> v]
         \/ res = [s |-> t, answered |-> TRUE, reply |-> NoReply]
         \/ res = [s |-> t, answered |-> Accused(s, n), reply |-> r1]
         \/ res = [s |-> t, answered |-> TRUE, reply |-> r2]
    BY ZenonT(30), <1>1, <1>6, <1>7, <1>8, <1>9, <1>10, <1>12, <1>14, <1>17 DEF Spread
  <1>19. res.s = t /\ res.reply \in {v, NoReply, r1, r2}
    BY <1>18
  <1>20. res.reply \in Replies /\ \A q \in DOMAIN res.reply.notes : res.reply.notes[q] = t.note[q]
    BY ZenonT(30), <1>11, <1>13, <1>15, <1>16, <1>19, NoReplyTyped
  <1> QED BY <1>5, <1>17, <1>19, <1>20 DEF Answers

-----------------------------------------------------------------------------
\* The steps.

\* While a node runs, no note it has is replaced by an older one.
Forward == \A n \in up, p \in Nodes : st'[n].note[p] >= st[n].note[p]

\* A handler of m that keeps NodeInv, and learns of no note that is not
\* published, keeps the invariant.
LEMMA OneNode ==
  ASSUME GossipInv, NEW m \in Nodes, NEW t \in States, NodeInv(t, m),
         st' = [st EXCEPT ![m] = t],
         \A q \in Nodes : t.note[q] >= st[m].note[q],
         \A q \in Nodes \ (restarted \cup {m}) : t.note[q] <= st[q].note[q],
         up' \in SUBSET Nodes, restarted' = restarted, faults' \in Nat,
         rpc' \in [Nodes -> Rounds],
         \A n \in Nodes : rpc'[n].reply # NoReply => rpc'[n].todo # <<>>,
         \A n \in Nodes \ restarted : \A i \in DOMAIN rpc'[n].todo :
            rpc'[n].todo[i].own <= (IF n = m THEN t ELSE st[n]).note[n],
         \A n \in Nodes, p \in Nodes \ restarted :
            p \in DOMAIN rpc'[n].reply.notes => rpc'[n].reply.notes[p] <= st[p].note[p]
  PROVE  GossipInv' /\ Forward
  <1>1. /\ st \in [Nodes -> States] /\ up \in SUBSET Nodes
        /\ \A n \in Nodes : NodeInv(st[n], n) /\ rpc'[n].reply \in Replies
    BY ZenonT(30) DEF GossipInv, GossipTypeOK, Rounds
  <1>2. st' \in [Nodes -> States] /\ st'[m] = t /\ \A n \in Nodes : n # m => st'[n] = st[n]
    BY <1>1
  <1>3. \A n \in Nodes : NodeInv(st'[n], n)
    BY ZenonT(30), <1>1, <1>2
  <1>4. \A n, p \in Nodes : st[n].note[p] \in Nat /\ t.note[p] \in Nat
    BY <1>1 DEF States
  <1>5. \A n, p \in Nodes : st'[n].note[p] >= st[n].note[p] /\ st'[n].note[p] \in Nat
    BY <1>2, <1>4
  <1>6. \A n \in Nodes, p \in Nodes \ restarted : st'[n].note[p] <= st'[p].note[p]
    <2>1. \A n \in Nodes, p \in Nodes \ restarted : st[n].note[p] <= st[p].note[p]
      BY DEF GossipInv, PublishedInv, NotesArePublished
    <2> QED BY <1>2, <1>4, <1>5, <2>1
  <1>7. \A n \in Nodes, p \in Nodes \ restarted :
          p \in DOMAIN rpc'[n].reply.notes => rpc'[n].reply.notes[p] <= st'[p].note[p]
    <2> SUFFICES ASSUME NEW n \in Nodes, NEW p \in Nodes \ restarted, p \in DOMAIN rpc'[n].reply.notes
                 PROVE  rpc'[n].reply.notes[p] <= st'[p].note[p]
      OBVIOUS
    <2>1. rpc'[n].reply.notes[p] \in Nat
      BY <1>1 DEF Replies, Notes
    <2>2. rpc'[n].reply.notes[p] <= st[p].note[p]
      OBVIOUS
    <2> QED BY <1>4, <1>5, <2>1, <2>2
  <1>8. \A n \in Nodes \ restarted : \A i \in DOMAIN rpc'[n].todo :
          rpc'[n].todo[i].own <= st'[n].note[n]
    BY ZenonT(30), <1>2
  <1>9. PublishedInv'
    BY <1>6, <1>7, <1>8 DEF PublishedInv, NotesArePublished
  <1>10. GossipTypeOK'
    <2>1. restarted' \in SUBSET Nodes
      BY DEF GossipInv, GossipTypeOK
    <2> QED BY ZenonT(30), <1>2, <2>1 DEF GossipTypeOK
  <1> QED BY <1>1, <1>3, <1>5, <1>9, <1>10 DEF GossipInv, Forward

\* What the calls and replies of an unchanged round satisfy.
LEMMA SameRounds ==
  ASSUME GossipInv
  PROVE  /\ rpc \in [Nodes -> Rounds]
         /\ \A n \in Nodes : rpc[n].reply # NoReply => rpc[n].todo # <<>>
         /\ \A n \in Nodes \ restarted : \A i \in DOMAIN rpc[n].todo : rpc[n].todo[i].own <= st[n].note[n]
         /\ \A n \in Nodes, p \in Nodes \ restarted :
              p \in DOMAIN rpc[n].reply.notes => rpc[n].reply.notes[p] <= st[p].note[p]
  BY DEF GossipInv, GossipTypeOK, PublishedInv, NotesArePublished

\* A handler of m that has nothing to do with a round.
LEMMA OneNodeAlone ==
  ASSUME GossipInv, NEW m \in Nodes, NEW t \in States, NodeInv(t, m),
         st' = [st EXCEPT ![m] = t],
         \A q \in Nodes : t.note[q] >= st[m].note[q],
         \A q \in Nodes \ (restarted \cup {m}) : t.note[q] <= st[q].note[q],
         up' = up, restarted' = restarted, faults' \in Nat, rpc' = rpc
  PROVE  GossipInv' /\ Forward
  <1>1. up \in SUBSET Nodes /\ st \in [Nodes -> States]
    BY DEF GossipInv, GossipTypeOK
  <1>2. \A n, p \in Nodes : st[n].note[p] \in Nat /\ t.note[p] \in Nat
    BY <1>1 DEF States
  <1>3. ASSUME NEW n \in Nodes, NEW i \in DOMAIN rpc[n].todo PROVE rpc[n].todo[i].own \in Nat
    <2>1. rpc[n].todo \in Seq(Calls)
      BY SameRounds DEF Rounds
    <2>2. rpc[n].todo[i] \in Calls
      BY <2>1
    <2> QED BY <2>2 DEF Calls
  <1>4. \A n \in Nodes \ restarted : \A i \in DOMAIN rpc[n].todo :
            rpc[n].todo[i].own <= (IF n = m THEN t ELSE st[n]).note[n]
    BY <1>2, <1>3, SameRounds
  <1> QED BY ZenonT(30), <1>1, <1>4, SameRounds, OneNode

\* Nothing changes at any node.
LEMMA NoNode ==
  ASSUME GossipInv, UNCHANGED st,
         up' \in SUBSET Nodes, restarted' = restarted, faults' \in Nat,
         rpc' \in [Nodes -> Rounds],
         \A n \in Nodes : rpc'[n].reply # NoReply => rpc'[n].todo # <<>>,
         \A n \in Nodes \ restarted : \A i \in DOMAIN rpc'[n].todo : rpc'[n].todo[i].own <= st[n].note[n],
         \A n \in Nodes, p \in Nodes \ restarted :
            p \in DOMAIN rpc'[n].reply.notes => rpc'[n].reply.notes[p] <= st[p].note[p],
         NEW m \in Nodes
  PROVE  GossipInv' /\ Forward
  <1>1. /\ st \in [Nodes -> States] /\ NodeInv(st[m], m)
        /\ \A q \in Nodes \ restarted : st[m].note[q] <= st[q].note[q]
    BY DEF GossipInv, GossipTypeOK, PublishedInv, NotesArePublished
  <1>2. PICK t \in States : t = st[m]
    BY <1>1
  <1>3. st' = [st EXCEPT ![m] = t]
    BY ZenonT(30), <1>1, <1>2
  <1>4. \A q \in Nodes : t.note[q] >= st[m].note[q]
    BY <1>2 DEF States
  <1>5. \A n \in Nodes \ restarted : \A i \in DOMAIN rpc'[n].todo :
            rpc'[n].todo[i].own <= (IF n = m THEN t ELSE st[n]).note[n]
    BY <1>2
  <1> QED BY ZenonT(30), <1>1, <1>2, <1>3, <1>4, <1>5, OneNode

\* The round goes on with the next call.
LEMMA EndCallKeeps ==
  ASSUME GossipInv, NEW n \in Nodes, rpc[n].todo # <<>>, NEW g, g = endCall(n)
  PROVE  /\ g \in [Nodes -> Rounds]
         /\ \A m \in Nodes : g[m].reply # NoReply => g[m].todo # <<>>
         /\ \A m \in Nodes \ restarted : \A i \in DOMAIN g[m].todo : g[m].todo[i].own <= st[m].note[m]
         /\ \A m \in Nodes, p \in Nodes \ restarted :
              p \in DOMAIN g[m].reply.notes => g[m].reply.notes[p] <= st[p].note[p]
  <1>1. PICK q \in Seq(Calls) : q = rpc[n].todo
    BY SameRounds DEF Rounds
  <1>2. q # <<>> /\ Tail(q) \in Seq(Calls)
    BY <1>1
  <1>3. \A i \in DOMAIN Tail(q) : i + 1 \in DOMAIN q /\ Tail(q)[i] = q[i + 1]
    BY <1>1, <1>2
  <1>4. PICK v \in Rounds : v = [todo |-> Tail(q), reply |-> NoReply]
    BY ZenonT(30), <1>2, NoReplyTyped DEF Rounds
  <1>5. g = [rpc EXCEPT ![n] = v]
    BY ZenonT(30), <1>1, <1>4 DEF endCall
  <1>6. /\ g \in [Nodes -> Rounds] /\ g[n].todo = Tail(q) /\ g[n].reply = NoReply
        /\ \A m \in Nodes : m # n => g[m] = rpc[m]
    BY <1>4, <1>5, SameRounds
  <1>7. \A m \in Nodes \ restarted : \A i \in DOMAIN g[m].todo : g[m].todo[i].own <= st[m].note[m]
    <2> SUFFICES ASSUME NEW m \in Nodes \ restarted, NEW i \in DOMAIN g[m].todo
                 PROVE  g[m].todo[i].own <= st[m].note[m]
      OBVIOUS
    <2>1. CASE m # n
      BY <1>6, <2>1, SameRounds
    <2>2. CASE m = n
      <3>1. i \in DOMAIN Tail(q) /\ g[m].todo[i] = q[i + 1] /\ i + 1 \in DOMAIN q
        BY ZenonT(30), <1>3, <1>6, <2>2
      <3>2. q[i + 1].own <= st[n].note[n]
        BY ZenonT(30), <1>1, <2>2, <3>1, SameRounds
      <3> QED BY <2>2, <3>1, <3>2
    <2> QED BY <2>1, <2>2
  <1>8. \A m \in Nodes, p \in Nodes \ restarted :
          p \in DOMAIN g[m].reply.notes => g[m].reply.notes[p] <= st[p].note[p]
    <2> SUFFICES ASSUME NEW m \in Nodes, NEW p \in Nodes \ restarted, p \in DOMAIN g[m].reply.notes
                 PROVE  g[m].reply.notes[p] <= st[p].note[p]
      OBVIOUS
    <2>1. m # n
      BY <1>6, NoReplyTyped
    <2> QED BY ZenonT(30), <1>6, <2>1, SameRounds
  <1>9. \A m \in Nodes : g[m].reply # NoReply => g[m].todo # <<>>
    BY ZenonT(30), <1>6, SameRounds
  <1> QED BY ZenonT(30), <1>6, <1>7, <1>8, <1>9

LEMMA AfterPartnerDown == ASSUME GossipInv, NEW n \in Nodes, PartnerDown(n) PROVE GossipInv' /\ Forward
  <1>1. /\ rpc[n].todo # <<>> /\ rpc' = endCall(n) /\ up' = up /\ st' = st
        /\ faults' = faults /\ restarted' = restarted
    BY DEF PartnerDown, faultVars
  <1>2. up' \in SUBSET Nodes /\ faults' \in Nat
    BY <1>1 DEF GossipInv, GossipTypeOK
  <1>3. PICK g : g = endCall(n)
    BY ZenonT(30)
  <1> QED BY <1>1, <1>2, <1>3, EndCallKeeps, NoNode

LEMMA AfterCallLost == ASSUME GossipInv, NEW n \in Nodes, CallLost(n) PROVE GossipInv' /\ Forward
  <1>1. /\ rpc[n].todo # <<>> /\ rpc' = endCall(n) /\ up' = up /\ st' = st
        /\ faults' = faults + 1 /\ restarted' = restarted
    BY DEF CallLost, fault
  <1>2. up' \in SUBSET Nodes /\ faults' \in Nat
    BY <1>1 DEF GossipInv, GossipTypeOK
  <1>3. PICK g : g = endCall(n)
    OBVIOUS
  <1> QED BY ZenonT(30), <1>1, <1>2, <1>3, EndCallKeeps, NoNode

\* A crash ends the node's round.
LEMMA AfterCrash == ASSUME GossipInv, NEW n \in Nodes, Crash(n) PROVE GossipInv' /\ Forward
  <1>1. /\ rpc' = [rpc EXCEPT ![n] = Idle] /\ up' = up \ {n} /\ st' = st
        /\ faults' = faults + 1 /\ restarted' = restarted
    BY DEF Crash, fault
  <1>2. up' \in SUBSET Nodes /\ faults' \in Nat
    BY <1>1 DEF GossipInv, GossipTypeOK
  <1>3. Idle \in Rounds /\ Idle.reply = NoReply /\ Idle.todo = <<>>
    BY NoReplyTyped DEF Idle, Rounds
  <1>4. /\ rpc' \in [Nodes -> Rounds] /\ rpc'[n] = Idle
        /\ \A m \in Nodes : m # n => rpc'[m] = rpc[m]
    BY <1>1, <1>3, SameRounds
  <1>5. \A m \in Nodes : rpc'[m].reply # NoReply => rpc'[m].todo # <<>>
    BY ZenonT(30), <1>3, <1>4, SameRounds
  <1>6. \A m \in Nodes \ restarted : \A i \in DOMAIN rpc'[m].todo : rpc'[m].todo[i].own <= st[m].note[m]
    BY <1>3, <1>4, SameRounds
  <1>7. \A m \in Nodes, p \in Nodes \ restarted :
          p \in DOMAIN rpc'[m].reply.notes => rpc'[m].reply.notes[p] <= st[p].note[p]
    BY ZenonT(30), <1>3, <1>4, SameRounds, NoReplyTyped
  <1> QED BY <1>1, <1>2, <1>4, <1>5, <1>6, <1>7, NoNode

\* The state of a node, and how its notes relate to the others'.
LEMMA NodeOf ==
  ASSUME GossipInv, NEW n \in Nodes
  PROVE  /\ st[n] \in States /\ NodeInv(st[n], n)
         /\ \A q \in Nodes : st[n].note[q] \in Nat /\ st[n].note[q] >= st[n].note[q]
         /\ \A q \in Nodes \ restarted : st[n].note[q] <= st[q].note[q]
  <1>1. st[n] \in States /\ NodeInv(st[n], n)
    BY DEF GossipInv, GossipTypeOK
  <1>2. \A q \in Nodes : st[n].note[q] \in Nat
    BY ZenonT(30), <1>1 DEF States
  <1>3. \A q \in Nodes \ restarted : st[n].note[q] <= st[q].note[q]
    BY DEF GossipInv, PublishedInv, NotesArePublished
  <1> QED BY <1>1, <1>2, <1>3

\* Gossip: the message has the note the node holds.
LEMMA AfterGossipRound == ASSUME GossipInv, NEW n \in Nodes, GossipRound(n) PROVE GossipInv' /\ Forward
  <1>1. PICK s \in States : s = st[n]
    BY NodeOf
  <1>2. PICK hosts \in Notes : hosts = existingHosts(s, n)
    <2>1. s.full \cap TextIds \in SUBSET Nodes /\ s.note \in [Nodes -> Nat]
      BY DEF States
    <2> QED BY ZenonT(30), <2>1, NotesOf DEF existingHosts
  <1>3. PICK cs : cs = call(s, n, "gossip", hosts)
    OBVIOUS
  <1>4. cs \in Seq(Calls) /\ \A i \in DOMAIN cs : cs[i].own = s.note[n]
    BY <1>3, CallsTyped
  <1>5. PICK t : t = advanceGossip(s)
    OBVIOUS
  <1>6. t \in States /\ NodeInv(t, n) /\ t.note = s.note
    <2>1. 1 \in Rings
      BY GossipNumbers DEF Rings
    <2> QED BY ZenonT(30), <1>1, <1>5, <2>1, NodeOf, AdvanceKeeps
  <1>7. /\ rpc[n] = Idle /\ rpc' = [rpc EXCEPT ![n].todo = cs] /\ st' = [st EXCEPT ![n] = t]
        /\ up' = up /\ faults' = faults /\ restarted' = restarted
    BY <1>1, <1>2, <1>3, <1>5 DEF GossipRound, faultVars
  <1>8. PICK v \in Rounds : v = [todo |-> cs, reply |-> NoReply]
    BY ZenonT(30), <1>4, NoReplyTyped DEF Rounds
  <1>9. rpc' = [rpc EXCEPT ![n] = v]
    <2>1. [rpc[n] EXCEPT !.todo = cs] = v
      BY <1>7, <1>8 DEF Idle
    <2>2. rpc' = [rpc EXCEPT ![n] = [rpc[n] EXCEPT !.todo = cs]]
      BY ZenonT(30), <1>7, SameRounds
    <2> QED BY ZenonT(30), <2>1, <2>2
  <1>10. /\ rpc' \in [Nodes -> Rounds] /\ rpc'[n].todo = cs /\ rpc'[n].reply = NoReply
         /\ \A m \in Nodes : m # n => rpc'[m] = rpc[m]
    BY <1>8, <1>9, SameRounds
  <1>11. \A m \in Nodes : rpc'[m].reply # NoReply => rpc'[m].todo # <<>>
    BY ZenonT(30), <1>10, SameRounds
  <1>12. \A m \in Nodes \ restarted : \A i \in DOMAIN rpc'[m].todo :
           rpc'[m].todo[i].own <= (IF m = n THEN t ELSE st[m]).note[m]
    <2> SUFFICES ASSUME NEW m \in Nodes \ restarted, NEW i \in DOMAIN rpc'[m].todo
                 PROVE  rpc'[m].todo[i].own <= (IF m = n THEN t ELSE st[m]).note[m]
      BY ZenonT(30)
    <2>1. CASE m # n
      BY <1>10, <2>1, SameRounds
    <2>2. CASE m = n
      <3>1. rpc'[m].todo[i].own = t.note[n] /\ t.note[n] \in Nat
        BY ZenonT(30), <1>4, <1>6, <1>10, <2>2 DEF States
      <3> QED BY <2>2, <3>1
    <2> QED BY <2>1, <2>2
  <1>13. \A m \in Nodes, p \in Nodes \ restarted :
           p \in DOMAIN rpc'[m].reply.notes => rpc'[m].reply.notes[p] <= st[p].note[p]
    BY <1>10, SameRounds, NoReplyTyped
  <1>14. up' \in SUBSET Nodes /\ faults' \in Nat
    BY <1>7 DEF GossipInv, GossipTypeOK
  <1>15. /\ \A q \in Nodes : t.note[q] >= st[n].note[q]
         /\ \A q \in Nodes \ (restarted \cup {n}) : t.note[q] <= st[q].note[q]
    BY <1>1, <1>6, NodeOf
  <1> QED BY ZenonT(30), <1>6, <1>7, <1>10, <1>11, <1>12, <1>13, <1>14, <1>15, OneNode

\* Spread: the callee may learn the caller's note, and answers with notes it
\* holds.
LEMMA AfterCall == ASSUME GossipInv, NEW n \in Nodes, Call(n) PROVE GossipInv' /\ Forward
  <1>1. PICK c : c = Head(rpc[n].todo)
    OBVIOUS
  <1>2. PICK m : m = c.to
    OBVIOUS
  <1>3. PICK res : res = Spread(st[m], m, n, c)
    OBVIOUS
  <1>4. /\ rpc[n].todo # <<>> /\ m \in up /\ st' = [st EXCEPT ![m] = res.s]
        /\ rpc' = endCall(n) \/ rpc' = [rpc EXCEPT ![n].reply = res.reply]
        /\ up' = up /\ faults' = faults /\ restarted' = restarted
    BY ZenonT(30), <1>1, <1>2, <1>3 DEF Call, faultVars
  <1>5. c \in Calls /\ 1 \in DOMAIN rpc[n].todo /\ c = rpc[n].todo[1]
    <2>1. rpc[n].todo \in Seq(Calls)
      BY SameRounds DEF Rounds
    <2> QED BY <1>1, <1>4, <2>1
  <1>6. m \in Nodes /\ up' \in SUBSET Nodes /\ faults' \in Nat
    BY <1>4 DEF GossipInv, GossipTypeOK
  <1>7. PICK t : t = res.s
    OBVIOUS
  <1>8. PICK reply : reply = res.reply
    OBVIOUS
  <1>9. Answers(st[m], m, n, c, t, reply)
    BY ZenonT(30), <1>3, <1>5, <1>6, <1>7, <1>8, NodeOf, SpreadKeeps
  <1>10. /\ t \in States /\ NodeInv(t, m) /\ reply \in Replies
         /\ \A q \in Nodes : \/ t.note[q] = st[m].note[q]
                             \/ q = n /\ q # m /\ c.own > st[m].note[q] /\ t.note[q] = c.own
    BY ZenonT(30), <1>9 DEF Answers
  <1>11. \A q \in DOMAIN reply.notes : reply.notes[q] = t.note[q]
    BY ZenonT(30), <1>9 DEF Answers
  <1>12. c.own \in Nat /\ (n \notin restarted => c.own <= st[n].note[n])
    BY <1>5, SameRounds DEF Calls
  <1>13. \A q \in Nodes : t.note[q] >= st[m].note[q] /\ t.note[q] \in Nat
    BY <1>6, <1>10, <1>12, NodeOf
  <1>14. \A q \in Nodes \ restarted : t.note[q] <= st[q].note[q]
    BY <1>6, <1>10, <1>12, NodeOf
  <1>15. /\ rpc' \in [Nodes -> Rounds]
         /\ \A k \in Nodes : rpc'[k].reply # NoReply => rpc'[k].todo # <<>>
         /\ \A k \in Nodes \ restarted : \A i \in DOMAIN rpc'[k].todo : rpc'[k].todo[i].own <= st[k].note[k]
         /\ \A k \in Nodes, p \in Nodes \ restarted :
              p \in DOMAIN rpc'[k].reply.notes => rpc'[k].reply.notes[p] <= st[p].note[p]
    <2>1. CASE rpc' = endCall(n)
      <3>1. PICK g : g = endCall(n)
        OBVIOUS
      <3> QED BY ZenonT(30), <1>4, <2>1, <3>1, EndCallKeeps
    <2>2. CASE rpc' = [rpc EXCEPT ![n].reply = res.reply]
      <3>1. PICK v \in Rounds : v = [todo |-> rpc[n].todo, reply |-> reply]
        BY ZenonT(30), <1>10, SameRounds DEF Rounds
      <3>2. rpc' = [rpc EXCEPT ![n] = v]
        <4>1. rpc[n] \in Rounds
          BY SameRounds
        <4>2. [rpc[n] EXCEPT !.reply = reply] = v
          BY <3>1, <4>1 DEF Rounds
        <4>3. rpc' = [rpc EXCEPT ![n] = [rpc[n] EXCEPT !.reply = reply]]
          BY <1>8, <2>2, SameRounds
        <4> QED BY ZenonT(30), <4>2, <4>3
      <3>3. /\ rpc' \in [Nodes -> Rounds] /\ rpc'[n].todo = rpc[n].todo /\ rpc'[n].reply = reply
            /\ \A k \in Nodes : k # n => rpc'[k] = rpc[k]
        BY <3>1, <3>2, SameRounds
      <3>4. \A k \in Nodes : rpc'[k].reply # NoReply => rpc'[k].todo # <<>>
        BY ZenonT(30), <1>4, <3>3, SameRounds
      <3>5. \A k \in Nodes : rpc'[k].todo = rpc[k].todo
        BY ZenonT(30), <3>3
      <3>6. \A k \in Nodes \ restarted : \A i \in DOMAIN rpc'[k].todo : rpc'[k].todo[i].own <= st[k].note[k]
        BY <3>5, SameRounds
      <3>7. ASSUME NEW k \in Nodes, NEW p \in Nodes \ restarted, p \in DOMAIN rpc'[k].reply.notes
            PROVE  rpc'[k].reply.notes[p] <= st[p].note[p]
        <4>1. CASE k # n
          BY ZenonT(30), <3>3, <3>7, <4>1, SameRounds
        <4>2. CASE k = n
          BY ZenonT(30), <1>11, <1>14, <3>3, <3>7, <4>2
        <4> QED BY ZenonT(30), <4>1, <4>2
      <3> QED BY <3>3, <3>4, <3>6, <3>7
    <2> QED BY <1>4, <2>1, <2>2
  <1>16. \A k \in Nodes \ restarted : \A i \in DOMAIN rpc'[k].todo :
           rpc'[k].todo[i].own <= (IF k = m THEN t ELSE st[k]).note[k]
    <2>1. ASSUME NEW k \in Nodes \ restarted, NEW i \in DOMAIN rpc'[k].todo PROVE rpc'[k].todo[i].own \in Nat
      <3>1. rpc'[k].todo \in Seq(Calls)
        BY <1>15 DEF Rounds
      <3>2. rpc'[k].todo[i] \in Calls
        BY <3>1
      <3> QED BY <3>2 DEF Calls
    <2>2. t.note[m] = st[m].note[m]
      BY <1>6, <1>10
    <2> QED BY <1>15, <2>2
  <1> QED BY ZenonT(30), <1>4, <1>6, <1>7, <1>10, <1>13, <1>14, <1>15, <1>16, OneNode

\* What the certificates of a reply make of the node's state.
LEMMA Certified ==
  ASSUME GossipInv, NEW n \in Nodes
  PROVE  certified(n) \in States /\ NodeInv(certified(n), n) /\ certified(n).note = st[n].note
  <1>1. PICK certs \in SUBSET Nodes : certs = rpc[n].reply.certs
    BY SameRounds DEF Rounds, Replies
  <1>2. PICK s \in States : s = st[n] /\ NodeInv(s, n)
    BY NodeOf
  <1>3. certified(n) = evalCertificates(s, n, certs)
    BY <1>1, <1>2 DEF certified
  <1> QED BY <1>2, <1>3, EvalCertificatesKeeps

\* evalNote of a reply's note, which is published.
LEMMA AfterMergeNote == ASSUME GossipInv, NEW n \in Nodes, MergeNote(n) PROVE GossipInv' /\ Forward
  <1>1. PICK s \in States : s = certified(n) /\ NodeInv(s, n) /\ s.note = st[n].note
    BY Certified
  <1>2. PICK notes \in Notes : notes = rpc[n].reply.notes
    BY SameRounds DEF Rounds, Replies
  <1>3. PICK p \in news(s, n, notes) : st' = [st EXCEPT ![n] = evalNote(s, n, p, notes[p])]
    BY ZenonT(30), <1>1, <1>2 DEF MergeNote
  <1>4. p \in DOMAIN notes /\ p \in Nodes /\ notes[p] \in Nat
    <2>1. p \in DOMAIN notes
      BY <1>3 DEF news
    <2> QED BY <2>1 DEF Notes
  <1>5. PICK e \in Nat : e = notes[p]
    BY <1>4
  <1>6. PICK t : t = evalNote(s, n, p, e)
    OBVIOUS
  <1>7. /\ t \in States /\ NodeInv(t, n)
        /\ \A q \in Nodes : t.note[q] = s.note[q] \/ (q = p /\ q # n /\ e > s.note[q] /\ t.note[q] = e)
    BY <1>1, <1>4, <1>6, EvalNoteKeeps
  <1>8. \A q \in Nodes : t.note[q] >= st[n].note[q]
    BY <1>1, <1>7, NodeOf
  <1>9. p \notin restarted => e <= st[p].note[p]
    BY ZenonT(30), <1>2, <1>4, <1>5, SameRounds
  <1>10. \A q \in Nodes \ (restarted \cup {n}) : t.note[q] <= st[q].note[q]
    BY ZenonT(30), <1>1, <1>7, <1>9, NodeOf
  <1>11. up' = up /\ rpc' = rpc /\ faults' = faults /\ restarted' = restarted /\ faults' \in Nat
    BY DEF MergeNote, faultVars, GossipInv, GossipTypeOK
  <1>12. st' = [st EXCEPT ![n] = t]
    BY <1>3, <1>5, <1>6
  <1> QED BY ZenonT(30), <1>7, <1>8, <1>10, <1>11, <1>12, OneNodeAlone

\* The accusations of a reply, and the rebuttal they may call for.
LEMMA AfterMergeAccusations ==
  ASSUME GossipInv, NEW n \in Nodes, MergeAccusations(n) PROVE GossipInv' /\ Forward
  <1>1. PICK s \in States : s = certified(n) /\ NodeInv(s, n) /\ s.note = st[n].note
    BY Certified
  <1>2. PICK accs \in SUBSET Sent : accs = rpc[n].reply.accs
    BY SameRounds DEF Rounds, Replies
  <1>3. PICK t : t = mergeAccusations(s, n, accs)
    OBVIOUS
  <1>4. t \in States /\ NodeInv(t, n) /\ t.note = s.note
    BY <1>1, <1>3, MergeAccusationsKeeps
  <1>5. PICK u : u = rebuttal(t, n)
    OBVIOUS
  <1>6. /\ rpc[n].reply # NoReply /\ up' = up /\ faults' = faults /\ restarted' = restarted
        /\ \/ /\ st' = [st EXCEPT ![n] = u.s]
              /\ rpc' = [rpc EXCEPT ![n] = [todo |-> u.calls \o Tail(@.todo), reply |-> NoReply]]
           \/ st' = [st EXCEPT ![n] = t] /\ rpc' = endCall(n)
    BY ZenonT(30), <1>1, <1>2, <1>3, <1>5 DEF MergeAccusations, faultVars
  <1>7. rpc[n].todo # <<>> /\ up' \in SUBSET Nodes /\ faults' \in Nat
    BY ZenonT(30), <1>6, SameRounds DEF GossipInv, GossipTypeOK
  <1>8. PICK g : g = endCall(n)
    BY ZenonT(30)
  <1>9. /\ g \in [Nodes -> Rounds]
        /\ \A m \in Nodes : g[m].reply # NoReply => g[m].todo # <<>>
        /\ \A m \in Nodes \ restarted : \A i \in DOMAIN g[m].todo : g[m].todo[i].own <= st[m].note[m]
        /\ \A m \in Nodes, p \in Nodes \ restarted :
             p \in DOMAIN g[m].reply.notes => g[m].reply.notes[p] <= st[p].note[p]
    BY <1>7, <1>8, EndCallKeeps
  <1>10. CASE st' = [st EXCEPT ![n] = t] /\ rpc' = endCall(n)
    <2>1. \A q \in Nodes : t.note[q] >= st[n].note[q]
      BY ZenonT(30), <1>1, <1>4, NodeOf
    <2>2. \A q \in Nodes \ (restarted \cup {n}) : t.note[q] <= st[q].note[q]
      BY ZenonT(30), <1>1, <1>4, NodeOf
    <2>3. \A m \in Nodes \ restarted : \A i \in DOMAIN g[m].todo :
            g[m].todo[i].own <= (IF m = n THEN t ELSE st[m]).note[m]
      BY <1>1, <1>4, <1>9
    <2> QED BY ZenonT(30), <1>4, <1>6, <1>7, <1>8, <1>9, <1>10, <2>1, <2>2, <2>3, OneNode
  <1>11. CASE /\ st' = [st EXCEPT ![n] = u.s]
              /\ rpc' = [rpc EXCEPT ![n] = [todo |-> u.calls \o Tail(@.todo), reply |-> NoReply]]
    <2>1. PICK v : v = u.s
      OBVIOUS
    <2>2. PICK cs : cs = u.calls
      BY ZenonT(30)
    <2>3. /\ v \in States /\ NodeInv(v, n) /\ v.note = [st[n].note EXCEPT ![n] = @ + 1]
          /\ cs \in Seq(Calls) /\ \A i \in DOMAIN cs : cs[i].own = v.note[n]
      BY <1>1, <1>4, <1>5, <2>1, <2>2, RebuttalKeeps
    <2>4. v.note[n] = st[n].note[n] + 1 /\ \A q \in Nodes : q # n => v.note[q] = st[n].note[q]
      BY ZenonT(30), <2>3, NodeOf DEF States
    <2>5. \A q \in Nodes : v.note[q] >= st[n].note[q]
      BY <2>4, NodeOf
    <2>6. \A q \in Nodes \ (restarted \cup {n}) : v.note[q] <= st[q].note[q]
      BY <2>4, NodeOf
    <2>7. PICK rest \in Seq(Calls) : rest = Tail(rpc[n].todo) /\ rest = g[n].todo
      <3>1. g[n].todo = Tail(rpc[n].todo)
        BY ZenonT(30), <1>8, SameRounds DEF endCall
      <3>2. PICK q \in Seq(Calls) : q = rpc[n].todo
        BY SameRounds DEF Rounds
      <3>3. Tail(q) \in Seq(Calls)
        BY <1>7, <3>2
      <3> QED BY ZenonT(30), <3>1, <3>2, <3>3
    <2>8. PICK w \in Rounds : w = [todo |-> cs \o rest, reply |-> NoReply]
      <3>1. cs \o rest \in Seq(Calls)
        BY <2>3, <2>7
      <3> QED BY ZenonT(30), <3>1, NoReplyTyped DEF Rounds
    <2>9. rpc' = [rpc EXCEPT ![n] = w]
      BY ZenonT(30), <1>11, <2>2, <2>7, <2>8
    <2>10. /\ rpc' \in [Nodes -> Rounds] /\ rpc'[n].todo = cs \o rest /\ rpc'[n].reply = NoReply
           /\ \A m \in Nodes : m # n => rpc'[m] = rpc[m]
      BY <2>8, <2>9, SameRounds
    <2>11. \A m \in Nodes : rpc'[m].reply # NoReply => rpc'[m].todo # <<>>
      BY ZenonT(30), <2>10, SameRounds
    <2>12. \A m \in Nodes, p \in Nodes \ restarted :
             p \in DOMAIN rpc'[m].reply.notes => rpc'[m].reply.notes[p] <= st[p].note[p]
      BY <2>10, SameRounds, NoReplyTyped
    <2>13. ASSUME NEW i \in DOMAIN (cs \o rest), n \notin restarted
           PROVE  (cs \o rest)[i].own <= v.note[n]
      <3>1. CASE i \in DOMAIN cs
        <4>1. (cs \o rest)[i] = cs[i]
          BY <2>3, <2>7, <3>1
        <4>2. v.note[n] \in Nat
          BY ZenonT(30), <2>3 DEF States
        <4> QED BY <2>3, <3>1, <4>1, <4>2
      <3>2. CASE i \notin DOMAIN cs
        <4>1. i - Len(cs) \in DOMAIN rest /\ (cs \o rest)[i] = rest[i - Len(cs)]
          BY <2>3, <2>7, <2>13, <3>2
        <4>2. PICK j \in DOMAIN rest : (cs \o rest)[i] = rest[j]
          BY <4>1
        <4>3. rest[j] \in Calls /\ rest[j].own <= st[n].note[n]
          <5>1. rest[j] \in Calls
            BY <2>7, <4>2
          <5>2. rest[j].own <= st[n].note[n]
            BY ZenonT(30), <1>9, <2>7, <2>13, <4>2
          <5> QED BY <5>1, <5>2
        <4>4. rest[j].own \in Nat /\ st[n].note[n] \in Nat
          BY <4>3, NodeOf DEF Calls
        <4> QED BY <2>4, <4>2, <4>3, <4>4
      <3> QED BY <3>1, <3>2
    <2>14. \A m \in Nodes \ restarted : \A i \in DOMAIN rpc'[m].todo :
             rpc'[m].todo[i].own <= (IF m = n THEN v ELSE st[m]).note[m]
      BY ZenonT(30), <2>10, <2>13, SameRounds
    <2>15. st' = [st EXCEPT ![n] = v] /\ restarted' = restarted
      BY <1>6, <1>11, <2>1
    <2> QED BY ZenonT(30), <1>7, <2>3, <2>5, <2>6, <2>10, <2>11, <2>12, <2>14, <2>15, OneNode
  <1> QED BY ZenonT(30), <1>6, <1>10, <1>11

\* A probe of the successor, which is never the node itself.
LEMMA AfterMonitor == ASSUME GossipInv, NEW n \in Nodes, Monitor(n) PROVE GossipInv' /\ Forward
  <1>1. PICK r \in Rings : r = st[n].currMonitorRing
    BY NodeOf DEF States
  <1>2. PICK i \in Rings : i = nextRing(r)
    BY <1>1, GossipNumbers DEF nextRing, Rings
  <1>3. PICK s : s = [st[n] EXCEPT !.currMonitorRing = i]
    BY ZenonT(30)
  <1>4. s \in States /\ NodeInv(s, n) /\ s.note = st[n].note
    BY ZenonT(30), <1>3, NodeOf, AdvanceKeeps
  <1>5. PICK p \in Nodes : p = ringSucc(s, n, r, n)
    BY <1>4, Neighbours
  <1>6. PICK failed \in BOOLEAN :
          /\ IF failed THEN p # n ELSE p \in up
          /\ IF failed /\ p \in up THEN fault ELSE UNCHANGED faults
          /\ st' = [st EXCEPT ![n] = IF failed THEN failedPing(s, n, p, r) ELSE s]
    BY ZenonT(30), <1>1, <1>2, <1>3, <1>5 DEF Monitor
  <1>7. PICK t : t = IF failed THEN failedPing(s, n, p, r) ELSE s
    OBVIOUS
  <1>8. t \in States /\ NodeInv(t, n) /\ t.note = st[n].note
    <2>1. CASE failed
      BY <1>4, <1>6, <1>7, <2>1, FailedPingKeeps
    <2>2. CASE ~failed
      BY <1>4, <1>7, <2>2
    <2> QED BY <2>1, <2>2
  <1>9. /\ \A q \in Nodes : t.note[q] >= st[n].note[q]
        /\ \A q \in Nodes \ (restarted \cup {n}) : t.note[q] <= st[q].note[q]
    BY <1>8, NodeOf
  <1>10. up' = up /\ rpc' = rpc /\ restarted' = restarted
    BY DEF Monitor
  <1>11. faults' \in Nat
    <2>1. faults \in Nat
      BY DEF GossipInv, GossipTypeOK
    <2> QED BY <1>6, <2>1 DEF fault
  <1>12. st' = [st EXCEPT ![n] = t]
    BY <1>6, <1>7
  <1> QED BY ZenonT(30), <1>8, <1>9, <1>10, <1>11, <1>12, OneNodeAlone

\* checkTimeouts: the timer goes with the peer.
LEMMA AfterExpire ==
  ASSUME GossipInv, NEW n \in Nodes, NEW p \in Nodes, Expire(n, p) PROVE GossipInv' /\ Forward
  <1>1. PICK s \in States : s = st[n] /\ NodeInv(s, n)
    BY NodeOf
  <1>2. PICK t : t = [s EXCEPT !.live = @ \ {p}, !.timers = @ \ {p}]
    OBVIOUS
  <1>3. t \in States /\ NodeInv(t, n) /\ t.note = s.note
    <2>1. /\ t \in States /\ t.full = s.full /\ t.live = s.live \ {p} /\ t.note = s.note
          /\ t.acc = s.acc /\ t.timers = s.timers \ {p}
      BY ZenonT(30), <1>2 DEF States
    <2>2. NodeInv(t, n)
      <3>1. /\ \A q \in s.live : Accused(s, q) => q \in s.timers
            /\ s.timers \subseteq s.live /\ \A q \in s.timers : s.note[q] # 0
        BY ZenonT(30), <1>1 DEF NodeInv
      <3>2. /\ n \notin s.full /\ \A r \in Rings : s.acc[n][r] = NoAcc
            /\ \A q \in Nodes, r \in Rings : s.acc[q][r] # NoAcc => s.acc[q][r].epoch = s.note[q]
        BY ZenonT(30), <1>1 DEF NodeInv
      <3>3. \A q : Accused(t, q) => Accused(s, q)
        BY <2>1 DEF Accused
      <3>4. /\ \A q \in t.live : Accused(t, q) => q \in t.timers
            /\ t.timers \subseteq t.live /\ \A q \in t.timers : t.note[q] # 0
        BY ZenonT(30), <2>1, <3>1, <3>3
      <3>5. /\ n \notin t.full /\ \A r \in Rings : t.acc[n][r] = NoAcc
            /\ \A q \in Nodes, r \in Rings : t.acc[q][r] # NoAcc => t.acc[q][r].epoch = t.note[q]
        BY <2>1, <3>2
      <3> QED BY ZenonT(30), <3>4, <3>5 DEF NodeInv
    <2> QED BY <2>1, <2>2
  <1>4. /\ st' = [st EXCEPT ![n].live = @ \ {p}, ![n].timers = @ \ {p}]
        /\ up' = up /\ rpc' = rpc /\ faults' = faults /\ restarted' = restarted
    BY DEF Expire, faultVars
  <1>5. st' = [st EXCEPT ![n] = t]
    BY ZenonT(30), <1>1, <1>2, <1>4 DEF GossipInv, GossipTypeOK
  <1>6. /\ \A q \in Nodes : t.note[q] >= st[n].note[q]
        /\ \A q \in Nodes \ (restarted \cup {n}) : t.note[q] <= st[q].note[q]
    BY <1>1, <1>3, NodeOf
  <1>7. faults' \in Nat
    BY <1>4 DEF GossipInv, GossipTypeOK
  <1> QED BY ZenonT(30), <1>3, <1>4, <1>5, <1>6, <1>7, OneNodeAlone

\* The state a client starts from.
LEMMA JoinsTyped ==
  ASSUME NEW n \in Nodes
  PROVE  /\ Joins(n) \in States /\ NodeInv(Joins(n), n)
         /\ Joins(n).note = [p \in Nodes |-> IF p = n THEN 1 ELSE 0]
  <1>1. PICK f \in [Nodes -> Nat] : f = [p \in Nodes |-> IF p = n THEN 1 ELSE 0]
    BY ZenonT(30)
  <1>2. Contacts[n] \in SUBSET Nodes /\ n \notin Contacts[n]
    BY GossipSets
  <1>3. Joins(n) = NewNode(Contacts[n], f)
    BY <1>1 DEF Joins
  <1> QED BY <1>1, <1>2, <1>3, NewNodeKeeps

\* A node that is started again forgets what it knew, so its own notes are no
\* longer the newest, and it was not running.
LEMMA AfterRestart == ASSUME GossipInv, NEW n \in Nodes, Restart(n) PROVE GossipInv' /\ Forward
  <1>1. PICK t \in States : t = Joins(n) /\ NodeInv(t, n)
    BY ZenonT(30), JoinsTyped
  <1>2. \A q \in Nodes : q # n => t.note[q] = 0
    BY ZenonT(30), <1>1, JoinsTyped
  <1>3. /\ n \notin up /\ up' = up \cup {n} /\ restarted' = restarted \cup {n}
        /\ st' = [st EXCEPT ![n] = t] /\ rpc' = rpc /\ faults' = faults
    BY <1>1 DEF Restart
  <1>4. st \in [Nodes -> States] /\ up \in SUBSET Nodes
    BY DEF GossipInv, GossipTypeOK
  <1>5. st' \in [Nodes -> States] /\ st'[n] = t /\ \A m \in Nodes : m # n => st'[m] = st[m]
    BY <1>1, <1>3, <1>4
  <1>6. \A m \in Nodes : NodeInv(st'[m], m)
    BY ZenonT(30), <1>1, <1>5, NodeOf
  <1>7. GossipTypeOK'
    <2>1. up' \in SUBSET Nodes /\ restarted' \in SUBSET Nodes /\ faults' \in Nat
      BY ZenonT(30), <1>3 DEF GossipInv, GossipTypeOK
    <2> QED BY ZenonT(30), <1>3, <1>5, <2>1, SameRounds DEF GossipTypeOK
  <1>8. \A m, q \in Nodes : st[m].note[q] \in Nat
    BY NodeOf
  <1>9. \A m \in Nodes, p \in Nodes \ restarted' : st'[m].note[p] <= st'[p].note[p]
    <2>1. \A m \in Nodes, p \in Nodes \ restarted : st[m].note[p] <= st[p].note[p]
      BY ZenonT(30), NodeOf
    <2> QED BY <1>2, <1>3, <1>5, <1>8, <2>1
  <1>10. PublishedInv'
    <2>1. \A p \in Nodes \ restarted' : p \in Nodes \ restarted /\ st'[p] = st[p]
      BY ZenonT(30), <1>3, <1>5
    <2>2. \A m \in Nodes \ restarted' : \A i \in DOMAIN rpc'[m].todo : rpc'[m].todo[i].own <= st'[m].note[m]
      BY <1>3, <2>1, SameRounds
    <2>3. \A m \in Nodes, p \in Nodes \ restarted' :
            p \in DOMAIN rpc'[m].reply.notes => rpc'[m].reply.notes[p] <= st'[p].note[p]
      BY ZenonT(30), <1>3, <2>1, SameRounds
    <2>4. \A m \in Nodes : rpc'[m].reply # NoReply => rpc'[m].todo # <<>>
      BY <1>3, SameRounds
    <2> QED BY <1>9, <2>2, <2>3, <2>4 DEF PublishedInv, NotesArePublished
  <1>11. Forward
    BY <1>3, <1>4, <1>5, <1>8 DEF Forward
  <1> QED BY <1>6, <1>7, <1>10, <1>11 DEF GossipInv

LEMMA GossipInit == ASSUME Init PROVE GossipInv
  <1>1. PICK f \in [Nodes -> Nat] : f = [p \in Nodes |-> IF p \in Founders THEN 1 ELSE 0]
    BY ZenonT(30)
  <1>2. ASSUME NEW n \in Nodes
        PROVE  /\ st[n] \in States /\ NodeInv(st[n], n)
               /\ \A p \in Nodes : st[n].note[p] = IF p = n \/ {p, n} \subseteq Founders THEN 1 ELSE 0
    <2>1. CASE n \in Founders
      <3>1. st[n] = NewNode(Founders \ {n}, f)
        BY <1>1, <2>1 DEF Init
      <3>2. Founders \ {n} \in SUBSET Nodes /\ n \notin Founders \ {n}
        BY GossipSets
      <3>3. st[n] \in States /\ NodeInv(st[n], n) /\ st[n].note = f
        BY ZenonT(30), <3>1, <3>2, NewNodeKeeps
      <3> QED BY <1>1, <2>1, <3>3
    <2>2. CASE n \notin Founders
      <3>1. st[n] = Joins(n)
        BY <2>2 DEF Init
      <3>2. \A p \in Nodes : st[n].note[p] = IF p = n THEN 1 ELSE 0
        <4>1. st[n].note = [p \in Nodes |-> IF p = n THEN 1 ELSE 0]
          BY ZenonT(30), <3>1, JoinsTyped
        <4> QED BY <4>1
      <3>3. \A p \in Nodes : (p = n \/ {p, n} \subseteq Founders) <=> p = n
        BY <2>2
      <3>4. st[n] \in States /\ NodeInv(st[n], n)
        BY ZenonT(30), <3>1, JoinsTyped
      <3> QED BY <3>2, <3>3, <3>4
    <2> QED BY <2>1, <2>2
  <1>3. /\ up = Nodes /\ restarted = {} /\ faults = 0
        /\ st = [n \in Nodes |-> st[n]] /\ rpc = [n \in Nodes |-> Idle]
    BY ZenonT(30) DEF Init
  <1>4. Idle \in Rounds /\ Idle.reply = NoReply /\ Idle.todo = <<>>
    BY NoReplyTyped DEF Idle, Rounds
  <1>5. GossipTypeOK
    <2>1. st \in [Nodes -> States]
      BY <1>2, <1>3
    <2>2. rpc \in [Nodes -> Rounds]
      BY ZenonT(30), <1>3, <1>4
    <2> QED BY <1>3, <2>1, <2>2 DEF GossipTypeOK
  <1>6. PublishedInv
    <2>1. \A n, p \in Nodes : st[n].note[p] <= st[p].note[p]
      BY <1>2
    <2>2. \A n \in Nodes : rpc[n].reply = NoReply /\ rpc[n].todo = <<>>
      BY <1>3, <1>4
    <2> QED BY ZenonT(30), <2>1, <2>2, NoReplyTyped DEF PublishedInv, NotesArePublished
  <1> QED BY <1>2, <1>5, <1>6 DEF GossipInv

LEMMA GossipStep == ASSUME GossipInv, [Next]_vars PROVE GossipInv' /\ Forward
  <1>1. CASE Next
    <2>1. PICK n \in Nodes : \/ gossipLoop(n) \/ CallLost(n) \/ Monitor(n) \/ Crash(n) \/ Restart(n)
                             \/ \E p \in Nodes : Expire(n, p)
      BY <1>1 DEF Next
    <2>2. GossipInv' /\ Forward
      <3>1. CASE gossipLoop(n)
        BY ZenonT(30), <3>1, AfterGossipRound, AfterCall, AfterPartnerDown, AfterMergeNote, AfterMergeAccusations
           DEF gossipLoop
      <3>2. CASE CallLost(n) \/ Monitor(n) \/ Crash(n) \/ Restart(n)
        BY <3>2, AfterCallLost, AfterMonitor, AfterCrash, AfterRestart
      <3>3. CASE \E p \in Nodes : Expire(n, p)
        BY <3>3, AfterExpire
      <3> QED BY ZenonT(30), <2>1, <3>1, <3>2, <3>3
    <2> QED BY <2>2
  <1>2. CASE UNCHANGED vars
    <2>1. GossipTypeOK'
      BY <1>2 DEF vars, GossipInv, GossipTypeOK
    <2>2. \A n \in Nodes : NodeInv(st'[n], n)
      BY ZenonT(30), <1>2 DEF vars, GossipInv
    <2>3. PublishedInv'
      BY ZenonT(30), <1>2 DEF vars, GossipInv, PublishedInv, NotesArePublished
    <2>4. Forward
      BY <1>2, NodeOf DEF vars, Forward, GossipInv, GossipTypeOK
    <2> QED BY ZenonT(30), <2>1, <2>2, <2>3, <2>4 DEF GossipInv
  <1> QED BY <1>1, <1>2

\* The invariant holds for any nodes, rings, contacts, losses and crashes.
THEOREM GossipInvariant == Spec => []GossipInv
  BY GossipInit, GossipStep, PTL DEF Spec

\* evalNote and evalAccusation: every accusation a node has is about the note
\* it has of the accused.
THEOREM AccusationsAreCurrent == Spec => []AccusationCurrent
  <1>1. GossipInv => AccusationCurrent
    BY ZenonT(30) DEF GossipInv, NodeInv, AccusationCurrent
  <1> QED BY <1>1, GossipInvariant, PTL

\* StartTimer and DeleteTimeout: the accused live peers have timers, and only
\* live peers have one.
THEOREM AccusedAreTimed == Spec => []AccusedIsTimed
  <1>1. GossipInv => AccusedIsTimed
    BY DEF GossipInv, NodeInv, AccusedIsTimed
  <1> QED BY <1>1, GossipInvariant, PTL

\* Rebuttal, mergeViews and evalNote: nobody has, or is about to be told, a
\* note newer than the one its node has published.
THEOREM NotesComeFromTheirNode == Spec => []NotesArePublished
  <1>1. GossipInv => NotesArePublished
    BY DEF GossipInv, PublishedInv
  <1> QED BY <1>1, GossipInvariant, PTL

\* evalNote and Rebuttal: while a node runs, no note it has, its own included,
\* is replaced by an older one.
THEOREM NotesNeverGoBack == Spec => [][Forward]_vars
  <1>1. GossipInv /\ [Next]_vars => [Forward]_vars
    BY GossipStep
  <1> QED BY <1>1, GossipInvariant, PTL DEF Spec
=============================================================================
