----------------------------- MODULE ViewProofs -----------------------------
(***************************************************************************)
(* The view's safety for any peers, rings, notes and accusations, and for  *)
(* any number of goroutines, interleaved in any way.                       *)
(*                                                                         *)
(* What a goroutine read under one lock is used under the next, so the     *)
(* properties of the shared state are not inductive by themselves: FrameOK *)
(* says what is still true of the values a frame carries.  It survives the *)
(* steps of the others because certificates are never forgotten and notes  *)
(* only grow (FrameStable).                                                *)
(***************************************************************************)
EXTENDS View, WellFoundedInduction, TLAPS

Frames == [pc : PCs, p : Ids, e : 0..MaxEpoch, q : Ids,
           r : Rings, rs : SUBSET (Rings \cup Others)]

FrameOK(f) ==
  /\ f.pc \notin {"idle", "expired"} => f.p \in full
  /\ f.pc \in {"expired", "dropTimeout"} => f.rs \subseteq full
  /\ f.pc \in {"removeAccusation", "ringAdd", "ringClear"} => f.rs \subseteq Rings
  /\ f.pc \in {"allAccusations", "removeAccusation", "addNote", "checkNote",
               "validAccuser", "addAccusation"} => f.e # 0
  /\ f.pc \in {"isAccused", "resetPing", "deleteTimeout", "addLive",
               "ringAdd", "ringClear"} => note[f.p] # 0
  /\ f.pc \in {"validAccuser", "addAccusation"} =>
       f.r \in EnabledRings[f.p][f.e]
  /\ f.pc = "createAccusation" => f.e # 0 /\ f.e <= note[f.p]

ViewInv ==
  /\ TypeOK
  /\ \A t \in Threads : FrameOK(th[t])
  /\ LiveHasNote
  /\ AccusationsNotAhead
  /\ AcceptedOnEnabledRing

-----------------------------------------------------------------------------
\* What a frame carries stays good while the others work.
LEMMA FrameStable ==
  ASSUME NEW f \in Frames, FrameOK(f), full \subseteq full', full \subseteq Others,
         note \in [Others -> 0..MaxEpoch], note' \in [Others -> 0..MaxEpoch],
         \A p \in Others : note[p] <= note'[p]
  PROVE  FrameOK(f)'
  <1>1. full \subseteq Others /\ MaxEpoch \in Nat
    BY ViewNumbers
  <1>2. \A p \in Others : note[p] \in Nat /\ note'[p] \in Nat
    BY <1>1
  <1>3. f.e \in Nat
    BY <1>1 DEF Frames
  <1> QED BY <1>1, <1>2, <1>3 DEF FrameOK

\* A step of one goroutine puts a good frame in the place of its own.
LEMMA FrameUpdate ==
  ASSUME TypeOK, \A t \in Threads : FrameOK(th[t]),
         NEW t \in Threads, NEW g \in Frames, th' = [th EXCEPT ![t] = g],
         FrameOK(g)', full \subseteq full', note' \in [Others -> 0..MaxEpoch],
         \A p \in Others : note[p] <= note'[p]
  PROVE  th' \in [Threads -> Frames] /\ (\A u \in Threads : FrameOK(th[u]))'
  <1>1. th \in [Threads -> Frames]
    BY DEF TypeOK, Frames
  <1>2. th' \in [Threads -> Frames]
    BY <1>1
  <1>3. ASSUME NEW u \in Threads PROVE FrameOK(th[u])'
    <2>1. CASE u = t
      <3>1. th'[u] = g
        BY <1>1, <2>1
      <3> QED BY <3>1 DEF FrameOK
    <2>2. CASE u # t
      <3>1. PICK f \in Frames : f = th[u]
        BY <1>1
      <3>2. th'[u] = f
        BY <1>1, <2>2, <3>1
      <3>3. FrameOK(f)
        BY <3>1
      <3>4. FrameOK(f)'
        BY ZenonT(30), <3>3, FrameStable DEF TypeOK
      <3> QED BY <3>2, <3>4 DEF FrameOK
    <2> QED BY <2>1, <2>2
  <1> QED BY <1>2, <1>3

\* A set of hashes has a smallest member.
LEMMA MinWitness ==
  ASSUME NEW S, S \subseteq Nat, S # {}
  PROVE  \E x \in S : \A y \in S : x <= y
  <1> DEFINE less == {ss \in Nat \X Nat : ss[1] < ss[2]}
  <1>1. less = OpToRel(<, Nat)
    BY DEF OpToRel
  <1>2. PICK x \in S : \A y \in S : ~ (<<y, x>> \in less)
    <2>1. IsWellFoundedOn(less, Nat)
      BY ZenonT(30), <1>1, NatLessThanWellFounded
    <2> HIDE DEF less
    <2> QED BY ZenonT(30), <2>1, WFMin
  <1>3. ASSUME NEW y \in S PROVE x <= y
    <2>1. x \in Nat /\ y \in Nat
      OBVIOUS
    <2>2. <<y, x>> \in less <=> y < x
      BY <2>1
    <2> QED BY <1>2, <2>1, <2>2
  <1> QED BY <1>3

\* Min picks it.
LEMMA MinMember ==
  ASSUME NEW S, S \subseteq Nat, S # {}
  PROVE  Min(S) \in S
  BY ZenonT(30), MinWitness DEF Min

\* The successor on the circle is a member of it.
LEMMA SuccInMember ==
  ASSUME NEW S, S \subseteq Nat, NEW x \in Nat
  PROVE  SuccIn(S, x) \in S \cup {x}
  <1> DEFINE T == S \ {x}
             above == {y \in T : y > x}
  <1>1. T # {} => Min(T) \in T
    BY ZenonT(30), MinMember
  <1>2. above # {} => Min(above) \in above
    <2>1. above \subseteq Nat
      BY ZenonT(30)
    <2> HIDE DEF above
    <2> QED BY ZenonT(30), <2>1, MinMember
  <1> QED BY <1>1, <1>2 DEF SuccIn

\* The monitor's target is a live peer, or the node itself when it is alone.
LEMMA TargetIsLive ==
  ASSUME NEW r \in Rings, live \subseteq Others
  PROVE  ringSucc(r, Self) \in live \cup {Self}
  <1>1. hashes(r) \subseteq Nat /\ Hash[r][Self] \in Nat
    BY ViewHashes DEF hashes, Ids
  <1>2. PICK h : h = SuccIn(hashes(r), Hash[r][Self])
    OBVIOUS
  <1>3. h \in hashes(r)
    <2>1. Hash[r][Self] \in hashes(r)
      BY DEF hashes
    <2> QED BY <1>1, <1>2, <2>1, SuccInMember
  <1>4. PICK p \in live \cup {Self} : h = Hash[r][p]
    BY <1>3 DEF hashes
  <1>5. peerAt(r, h) = p
    BY <1>4, ViewHashes DEF peerAt, Ids
  <1> QED BY <1>2, <1>5 DEF ringSucc

\* The initial state of NewNode is good.
LEMMA ViewInit ==
  ASSUME NewNode
  PROVE  ViewInv
  <1> USE DEF NewNode
  <1>1. MaxEpoch \in Nat /\ PingLimit \in Nat /\ NumRings \in Nat /\ 1 \in Rings
    BY ViewNumbers DEF Rings
  <1>2. NoAcc \in [accuser : Ids, epoch : 0..MaxEpoch]
    BY <1>1 DEF NoAcc, Ids
  <1>3. Idle \in Frames
    BY <1>1 DEF Idle, Frame, Frames, PCs, Ids
  <1>4. th \in [Threads -> Frames]
    BY <1>3
  <1>5. TypeOK
    BY <1>1, <1>2, <1>4, ViewSets DEF TypeOK, Frames
  <1>6. FrameOK(Idle)
    BY DEF FrameOK, Idle, Frame
  <1>7. \A t \in Threads : FrameOK(th[t])
    BY <1>6
  <1>8. LiveHasNote
    BY DEF LiveHasNote
  <1>9. AccusationsNotAhead /\ AcceptedOnEnabledRing
    BY DEF AccusationsNotAhead, AcceptedOnEnabledRing, NoAcc
  <1> QED BY <1>5, <1>7, <1>8, <1>9 DEF ViewInv

-----------------------------------------------------------------------------
\* What the constants' assumptions say in one place.
LEMMA Numbers ==
  /\ MaxEpoch \in Nat /\ PingLimit \in Nat /\ NumRings \in Nat
  /\ 1 \in Rings /\ Rings \subseteq Nat
  /\ Self \in Ids /\ Others \subseteq Ids /\ Self \notin Others
  BY ViewNumbers, ViewSets DEF Rings, Ids

\* A new frame for a peer and an epoch is well formed.
LEMMA NewFrame ==
  ASSUME NEW pc \in PCs, NEW p \in Ids, NEW e \in 0..MaxEpoch
  PROVE  /\ Frame(pc, p, e) \in Frames
         /\ Frame(pc, p, e).pc = pc /\ Frame(pc, p, e).p = p
         /\ Frame(pc, p, e).e = e
  BY Numbers DEF Frame, Frames

\* A goroutine that returns has a good frame.
LEMMA IdleFrame == Idle \in Frames /\ FrameOK(Idle) /\ FrameOK(Idle)'
  BY Numbers DEF Idle, Frame, Frames, PCs, FrameOK

\* The steps that only read: nothing changes but the goroutine's own frame.
LEMMA ReadStep ==
  ASSUME ViewInv, NEW t \in Threads, NEW g \in Frames,
         th' = [th EXCEPT ![t] = g], FrameOK(g),
         UNCHANGED <<full, live, note, acc, timers, nPing>>,
         currMonitorRing' \in Rings
  PROVE  ViewInv'
  <1>1. FrameOK(g)'
    BY DEF FrameOK
  <1>2. /\ note \in [Others -> 0..MaxEpoch] /\ note' = note
        /\ \A p \in Others : note[p] <= note'[p]
    BY Numbers DEF ViewInv, TypeOK
  <1>3. th' \in [Threads -> Frames] /\ (\A u \in Threads : FrameOK(th[u]))'
    BY ZenonT(30), <1>1, <1>2, FrameUpdate DEF ViewInv
  <1>4. TypeOK'
    BY <1>2, <1>3 DEF ViewInv, TypeOK, Frames
  <1>5. LiveHasNote' /\ AccusationsNotAhead' /\ AcceptedOnEnabledRing'
    BY DEF ViewInv, LiveHasNote, AccusationsNotAhead, AcceptedOnEnabledRing
  <1> QED BY <1>3, <1>4, <1>5 DEF ViewInv

\* The steps that write something else than a note: the frames stay good.
LEMMA WriteStep ==
  ASSUME ViewInv, NEW t \in Threads, NEW g \in Frames,
         th' = [th EXCEPT ![t] = g], FrameOK(g),
         full \subseteq full', full' \subseteq Others,
         UNCHANGED <<note, currMonitorRing>>,
         live' \subseteq full', timers' \subseteq full',
         acc' \in [Others -> [Rings -> [accuser : Ids, epoch : 0..MaxEpoch]]],
         nPing' \in [Others -> 0..PingLimit],
         LiveHasNote', AccusationsNotAhead', AcceptedOnEnabledRing'
  PROVE  ViewInv'
  <1>1. /\ note \in [Others -> 0..MaxEpoch] /\ note' = note
        /\ \A p \in Others : note[p] <= note'[p]
        /\ full \subseteq Others
    BY Numbers DEF ViewInv, TypeOK
  <1>2. FrameOK(g)'
    BY <1>1, FrameStable
  <1>3. th' \in [Threads -> Frames] /\ (\A u \in Threads : FrameOK(th[u]))'
    BY ZenonT(30), <1>1, <1>2, FrameUpdate DEF ViewInv
  <1>4. TypeOK'
    BY <1>1, <1>3 DEF ViewInv, TypeOK, Frames
  <1> QED BY <1>3, <1>4 DEF ViewInv

\* The frame of a goroutine that goes on with another operation.
LEMMA GotoFrame ==
  ASSUME TypeOK, NEW t \in Threads, NEW pc \in PCs, Goto(t, pc)
  PROVE  \E g \in Frames : /\ th' = [th EXCEPT ![t] = g] /\ g.pc = pc
                           /\ g.p = th[t].p /\ g.e = th[t].e /\ g.q = th[t].q
                           /\ g.r = th[t].r /\ g.rs = th[t].rs
  <1> DEFINE g == [th[t] EXCEPT !.pc = pc]
  <1>1. th[t] \in Frames
    BY DEF TypeOK, Frames
  <1>2. g \in Frames
    BY <1>1 DEF Frames
  <1>3. g.pc = pc /\ g.p = th[t].p /\ g.e = th[t].e /\ g.q = th[t].q
        /\ g.r = th[t].r /\ g.rs = th[t].rs
    BY <1>1 DEF Frames
  <1>4. th' = [th EXCEPT ![t] = g]
    BY DEF Goto
  <1> HIDE DEF g
  <1> QED BY ZenonT(30), <1>2, <1>3, <1>4

\* A goroutine goes on with an operation that needs no more of its frame
\* than it has.
LEMMA GotoStep ==
  ASSUME ViewInv, NEW t \in Threads, NEW pc \in PCs, Goto(t, pc),
         th[t].pc \notin {"idle", "expired"}, pc \notin {"expired", "dropTimeout"},
         pc \in {"addNote", "validAccuser", "addAccusation"} => th[t].e # 0,
         pc \in {"resetPing", "deleteTimeout", "addLive"} => note[th[t].p] # 0,
         pc \in {"validAccuser", "addAccusation"} =>
           th[t].r \in EnabledRings[th[t].p][th[t].e],
         pc \notin {"allAccusations", "removeAccusation", "checkNote", "isAccused",
                    "ringAdd", "ringClear", "createAccusation"}
  PROVE  \E g \in Frames : th' = [th EXCEPT ![t] = g] /\ FrameOK(g)
  <1>1. PICK g \in Frames : /\ th' = [th EXCEPT ![t] = g] /\ g.pc = pc
                            /\ g.p = th[t].p /\ g.e = th[t].e /\ g.q = th[t].q
                            /\ g.r = th[t].r /\ g.rs = th[t].rs
    BY GotoFrame DEF ViewInv
  <1>2. FrameOK(th[t])
    BY DEF ViewInv
  <1>3. FrameOK(g)
    BY <1>1, <1>2 DEF FrameOK
  <1> QED BY ZenonT(30), <1>1, <1>3

\* Jump keeps the peer alone.
LEMMA JumpStep ==
  ASSUME ViewInv, NEW t \in Threads, NEW pc \in {"addLive", "isAccused", "isAlive"},
         Jump(t, pc), th[t].pc \notin {"idle", "expired"}
  PROVE  \E g \in Frames : /\ th' = [th EXCEPT ![t] = g]
                           /\ g.pc = pc /\ g.p = th[t].p /\ g.p \in full
  <1>1. th[t] \in Frames /\ FrameOK(th[t])
    BY DEF ViewInv, TypeOK, Frames
  <1>2. th[t].p \in full /\ th[t].p \in Ids
    BY <1>1 DEF FrameOK, Frames
  <1>3. pc \in PCs /\ 0 \in 0..MaxEpoch
    BY Numbers DEF PCs
  <1>4. th' = [th EXCEPT ![t] = Frame(pc, th[t].p, 0)]
    BY DEF Jump
  <1>5. PICK g : g = Frame(pc, th[t].p, 0)
    OBVIOUS
  <1>6. g \in Frames /\ g.pc = pc /\ g.p = th[t].p
    BY <1>2, <1>3, <1>5, NewFrame
  <1> QED BY ZenonT(30), <1>2, <1>4, <1>5, <1>6

-----------------------------------------------------------------------------
\* The steps of evalNote that only read.
LEMMA EvalNoteReads ==
  ASSUME ViewInv, NEW t \in Threads
  PROVE  /\ \A m \in Notes : evalNote(t, m[1], m[2]) => ViewInv'
         /\ AllAccusations(t) => ViewInv'
         /\ IsAccused(t) => ViewInv'
         /\ RingAdd(t) => ViewInv'
  <1>1. th[t] \in Frames /\ FrameOK(th[t]) /\ TypeOK /\ currMonitorRing \in Rings
    BY DEF ViewInv, TypeOK, Frames
  <1>2. ASSUME NEW m \in Notes, evalNote(t, m[1], m[2]) PROVE ViewInv'
    <2>1. m[1] \in Others /\ m[2] \in Epochs /\ m[1] \in full
      BY <1>2, ViewNetwork DEF evalNote
    <2>2. PICK g : g = Frame("allAccusations", m[1], m[2])
      OBVIOUS
    <2>3. g \in Frames /\ g.pc = "allAccusations" /\ g.p = m[1] /\ g.e = m[2]
      BY <2>1, <2>2, Numbers, NewFrame DEF Epochs, PCs
    <2>4. FrameOK(g)
      BY <2>1, <2>3 DEF FrameOK, Epochs
    <2> QED BY ZenonT(30), <1>1, <1>2, <2>2, <2>3, <2>4, ReadStep DEF evalNote
  <1>3. ASSUME AllAccusations(t) PROVE ViewInv'
    <2>1. CASE Accused(th[t].p)
      <3>1. PICK rs : rs = invalidated(th[t].p, th[t].e)
        OBVIOUS
      <3>2. rs \subseteq Rings
        BY <3>1 DEF invalidated
      <3> DEFINE g == [th[t] EXCEPT !.pc = "removeAccusation", !.rs = rs]
      <3>3. g \in Frames /\ FrameOK(g)
        BY ZenonT(30), <1>1, <1>3, <3>2 DEF Frames, FrameOK, PCs, AllAccusations, At
      <3>4. th' = [th EXCEPT ![t] = g]
        BY ZenonT(30), <1>3, <2>1, <3>1 DEF AllAccusations
      <3> HIDE DEF g
      <3> QED BY ZenonT(30), <1>1, <1>3, <3>3, <3>4, ReadStep DEF AllAccusations
    <2>2. CASE ~Accused(th[t].p)
      <3>1. Goto(t, "addNote") /\ th[t].pc = "allAccusations"
        BY <1>3, <2>2 DEF AllAccusations, At
      <3>2. th[t].e # 0
        BY <1>1, <3>1 DEF FrameOK
      <3>3. PICK g \in Frames : th' = [th EXCEPT ![t] = g] /\ FrameOK(g)
        BY <3>1, <3>2, GotoStep DEF PCs
      <3> QED BY ZenonT(30), <1>1, <1>3, <3>3, ReadStep DEF AllAccusations
    <2> QED BY <2>1, <2>2
  <1>4. ASSUME IsAccused(t) PROVE ViewInv'
    <2>1. CASE Accused(th[t].p)
      BY <1>1, <1>4, <2>1, IdleFrame, ReadStep DEF IsAccused, Return
    <2>2. CASE ~Accused(th[t].p)
      <3>1. Goto(t, "resetPing") /\ th[t].pc = "isAccused"
        BY <1>4, <2>2 DEF IsAccused, At
      <3>2. note[th[t].p] # 0
        BY <1>1, <3>1 DEF FrameOK
      <3>3. PICK g \in Frames : th' = [th EXCEPT ![t] = g] /\ FrameOK(g)
        BY <3>1, <3>2, GotoStep DEF PCs
      <3> QED BY ZenonT(30), <1>1, <1>4, <3>3, ReadStep DEF IsAccused
    <2> QED BY <2>1, <2>2
  <1>5. ASSUME RingAdd(t) PROVE ViewInv'
    <2>1. th[t].pc = "ringAdd"
      BY <1>5 DEF RingAdd, At
    <2>2. PICK r \in th[t].rs :
            \/ th' = [th EXCEPT ![t].pc = "ringClear", ![t].r = r]
            \/ Return(t)
            \/ th' = [th EXCEPT ![t].rs = @ \ {r}]
      BY <1>5 DEF RingAdd
    <2>3. r \in Rings
      BY <1>1, <2>1, <2>2 DEF FrameOK
    <2>4. CASE th' = [th EXCEPT ![t].pc = "ringClear", ![t].r = r]
      <3> DEFINE g == [th[t] EXCEPT !.pc = "ringClear", !.r = r]
      <3>1. g \in Frames /\ FrameOK(g)
        BY ZenonT(30), <1>1, <2>1, <2>3 DEF Frames, FrameOK, PCs
      <3>2. th' = [th EXCEPT ![t] = g]
        BY ZenonT(30), <2>4
      <3> HIDE DEF g
      <3> QED BY ZenonT(30), <1>1, <1>5, <3>1, <3>2, ReadStep DEF RingAdd
    <2>5. CASE Return(t)
      BY ZenonT(30), <1>1, <1>5, <2>5, IdleFrame, ReadStep DEF RingAdd, Return
    <2>6. CASE th' = [th EXCEPT ![t].rs = @ \ {r}]
      <3> DEFINE g == [th[t] EXCEPT !.rs = @ \ {r}]
      <3>1. g \in Frames /\ FrameOK(g)
        BY <1>1, <2>1 DEF Frames, FrameOK, PCs
      <3>2. th' = [th EXCEPT ![t] = g]
        BY <2>6
      <3> HIDE DEF g
      <3> QED BY ZenonT(30), <1>1, <1>5, <3>1, <3>2, ReadStep DEF RingAdd
    <2> QED BY <2>2, <2>4, <2>5, <2>6
  <1> QED BY <1>2, <1>3, <1>4, <1>5

-----------------------------------------------------------------------------
AccType == [Others -> [Rings -> [accuser : Ids, epoch : 0..MaxEpoch]]]

\* Putting one accusation in its slot, or none.
LEMMA SlotWrite ==
  ASSUME ViewInv, NEW s, NEW r, NEW a \in [accuser : Ids, epoch : 0..MaxEpoch],
         acc' = [acc EXCEPT ![s][r] = a], UNCHANGED note,
         s \in Others => a.epoch <= note[s],
         a.accuser # Self => r \in EnabledRings[s][a.epoch]
  PROVE  acc' \in AccType /\ AccusationsNotAhead' /\ AcceptedOnEnabledRing'
  <1>1. acc \in AccType
    BY DEF ViewInv, TypeOK, AccType
  <1>2. acc' \in AccType
    BY ZenonT(30), <1>1 DEF AccType
  <1>3. ASSUME NEW p \in Others, NEW x \in Rings
        PROVE  acc'[p][x] = IF p = s /\ x = r THEN a ELSE acc[p][x]
    BY <1>1 DEF AccType
  <1>4. AccusationsNotAhead'
    BY <1>3 DEF ViewInv, AccusationsNotAhead
  <1>5. AcceptedOnEnabledRing'
    BY <1>3 DEF ViewInv, AcceptedOnEnabledRing
  <1> QED BY <1>2, <1>4, <1>5

\* Clearing a slot.
LEMMA SlotClear ==
  ASSUME ViewInv, NEW s, NEW r, acc' = [acc EXCEPT ![s][r] = NoAcc], UNCHANGED note
  PROVE  acc' \in AccType /\ AccusationsNotAhead' /\ AcceptedOnEnabledRing'
  <1>1. NoAcc \in [accuser : Ids, epoch : 0..MaxEpoch]
        /\ NoAcc.epoch = 0 /\ NoAcc.accuser = Self
    BY Numbers DEF NoAcc
  <1>2. \A p \in Others : note[p] \in Nat
    BY Numbers DEF ViewInv, TypeOK
  <1>3. s \in Others => NoAcc.epoch <= note[s]
    BY <1>1, <1>2
  <1> HIDE DEF NoAcc
  <1> QED BY ZenonT(30), <1>1, <1>3, SlotWrite

\* The steps of evalNote that write.
LEMMA EvalNoteWrites ==
  ASSUME ViewInv, NEW t \in Threads
  PROVE  /\ RemoveAccusation(t) => ViewInv'
         /\ ResetPing(t) => ViewInv'
         /\ DeleteTimeout(t) => ViewInv'
         /\ AddLive(t) => ViewInv'
         /\ RingClear(t) => ViewInv'
  <1>1. th[t] \in Frames /\ FrameOK(th[t]) /\ TypeOK
    BY DEF ViewInv, TypeOK, Frames
  <1>2. LiveHasNote /\ AccusationsNotAhead /\ AcceptedOnEnabledRing
    BY DEF ViewInv
  <1>3. ASSUME RemoveAccusation(t) PROVE ViewInv'
    <2>1. PICK r \in th[t].rs : /\ acc' = [acc EXCEPT ![th[t].p][r] = NoAcc]
                                /\ th' = [th EXCEPT ![t].rs = @ \ {r}]
      BY ZenonT(30), <1>3 DEF RemoveAccusation
    <2> DEFINE g == [th[t] EXCEPT !.rs = @ \ {r}]
    <2>2. g \in Frames /\ FrameOK(g)
      BY <1>1, <1>3 DEF Frames, FrameOK, RemoveAccusation, At
    <2>3. th' = [th EXCEPT ![t] = g]
      BY <2>1
    <2>4. acc' \in AccType /\ AccusationsNotAhead' /\ AcceptedOnEnabledRing'
      BY ZenonT(30), <1>3, <2>1, SlotClear DEF RemoveAccusation
    <2>5. LiveHasNote'
      BY <1>2, <1>3 DEF LiveHasNote, RemoveAccusation
    <2> HIDE DEF g
    <2> QED BY ZenonT(30), <1>1, <1>3, <2>2, <2>3, <2>4, <2>5, WriteStep
         DEF RemoveAccusation, TypeOK, AccType
  <1>4. ASSUME ResetPing(t) PROVE ViewInv'
    <2>1. Goto(t, "deleteTimeout") /\ th[t].pc = "resetPing"
      BY <1>4 DEF ResetPing, At
    <2>2. PICK g \in Frames : th' = [th EXCEPT ![t] = g] /\ FrameOK(g)
      <3>1. note[th[t].p] # 0
        BY <1>1, <2>1 DEF FrameOK
      <3> QED BY <2>1, <3>1, GotoStep DEF PCs
    <2>3. nPing' \in [Others -> 0..PingLimit]
      <3>1. nPing \in [Others -> 0..PingLimit] /\ 0 \in 0..PingLimit
        BY <1>1, Numbers DEF TypeOK
      <3>2. nPing' = [nPing EXCEPT ![th[t].p] = 0]
        BY <1>4 DEF ResetPing
      <3> QED BY ZenonT(30), <3>1, <3>2
    <2>4. LiveHasNote' /\ AccusationsNotAhead' /\ AcceptedOnEnabledRing'
      BY <1>2, <1>4 DEF ResetPing, LiveHasNote, AccusationsNotAhead,
        AcceptedOnEnabledRing
    <2> QED BY ZenonT(30), <1>1, <1>4, <2>2, <2>3, <2>4, WriteStep DEF ResetPing, TypeOK
  <1>5. ASSUME DeleteTimeout(t) PROVE ViewInv'
    <2>1. Goto(t, "addLive") /\ th[t].pc = "deleteTimeout"
      BY <1>5 DEF DeleteTimeout, At
    <2>2. PICK g \in Frames : th' = [th EXCEPT ![t] = g] /\ FrameOK(g)
      <3>1. note[th[t].p] # 0
        BY <1>1, <2>1 DEF FrameOK
      <3> QED BY <2>1, <3>1, GotoStep DEF PCs
    <2>3. LiveHasNote' /\ AccusationsNotAhead' /\ AcceptedOnEnabledRing'
      BY <1>2, <1>5 DEF DeleteTimeout, LiveHasNote, AccusationsNotAhead,
        AcceptedOnEnabledRing
    <2> QED BY ZenonT(30), <1>1, <1>5, <2>2, <2>3, WriteStep DEF DeleteTimeout, TypeOK
  <1>6. ASSUME AddLive(t) PROVE ViewInv'
    <2>1. th[t].pc = "addLive" /\ th[t].p \in full /\ note[th[t].p] # 0
      BY <1>1, <1>6 DEF AddLive, At, FrameOK
    <2>2. AccusationsNotAhead' /\ AcceptedOnEnabledRing'
      BY <1>2, <1>6 DEF AddLive, AccusationsNotAhead, AcceptedOnEnabledRing
    <2>3. CASE th[t].p \in live
      <3>1. th' = [th EXCEPT ![t] = Idle] /\ live' = live
        BY <1>6, <2>3 DEF AddLive, Return
      <3>2. LiveHasNote'
        BY <1>2, <1>6, <3>1 DEF AddLive, LiveHasNote
      <3> QED BY ZenonT(30), <1>1, <1>6, <2>2, <3>1, <3>2, IdleFrame, WriteStep
           DEF AddLive, TypeOK
    <2>4. CASE th[t].p \notin live
      <3> DEFINE g == [th[t] EXCEPT !.pc = "ringAdd", !.rs = Rings]
      <3>1. g \in Frames /\ FrameOK(g)
        BY ZenonT(30), <1>1, <2>1 DEF Frames, FrameOK, PCs
      <3>2. th' = [th EXCEPT ![t] = g] /\ live' = live \cup {th[t].p}
        BY ZenonT(30), <1>6, <2>4 DEF AddLive
      <3>3. LiveHasNote'
        BY <1>2, <1>6, <2>1, <3>2 DEF AddLive, LiveHasNote
      <3> HIDE DEF g
      <3> QED BY ZenonT(30), <1>1, <1>6, <2>1, <2>2, <3>1, <3>2, <3>3, WriteStep
           DEF AddLive, TypeOK
    <2> QED BY <2>3, <2>4
  <1>7. ASSUME RingClear(t) PROVE ViewInv'
    <2>1. th[t].pc = "ringClear" /\ note[th[t].p] # 0
      BY <1>1, <1>7 DEF RingClear, At, FrameOK
    <2>2. PICK s : acc' = [acc EXCEPT ![s][th[t].r] = NoAcc]
      BY ZenonT(30), <1>7 DEF RingClear
    <2>3. acc' \in AccType /\ AccusationsNotAhead' /\ AcceptedOnEnabledRing'
      BY ZenonT(30), <1>7, <2>2, SlotClear DEF RingClear
    <2>4. LiveHasNote'
      BY <1>2, <1>7 DEF LiveHasNote, RingClear
    <2>5. CASE th[t].rs = {th[t].r}
      BY ZenonT(30), <1>1, <1>7, <2>3, <2>4, <2>5, IdleFrame, WriteStep
        DEF RingClear, Return, TypeOK, AccType
    <2>6. CASE th[t].rs # {th[t].r}
      <3> DEFINE g == [th[t] EXCEPT !.pc = "ringAdd", !.r = 1, !.rs = @ \ {th[t].r}]
      <3>1. g \in Frames /\ FrameOK(g)
        BY ZenonT(30), <1>1, <2>1, Numbers DEF Frames, FrameOK, PCs
      <3>2. th' = [th EXCEPT ![t] = g]
        BY ZenonT(30), <1>7, <2>6 DEF RingClear
      <3> HIDE DEF g
      <3> QED BY ZenonT(30), <1>1, <1>7, <2>3, <2>4, <3>1, <3>2, WriteStep
           DEF RingClear, TypeOK, AccType
    <2> QED BY <2>5, <2>6
  <1> QED BY <1>3, <1>4, <1>5, <1>6, <1>7

\* AddNote never goes back, and frames of every goroutine see the newer note.
LEMMA AddNoteStep ==
  ASSUME ViewInv, NEW t \in Threads, AddNote(t)
  PROVE  ViewInv' /\ \A p \in Others : note[p] <= note'[p]
  <1>1. th[t] \in Frames /\ FrameOK(th[t]) /\ TypeOK
    BY DEF ViewInv, TypeOK, Frames
  <1>2. th[t].pc \in {"addNote", "removeAccusation"}
    BY DEF AddNote, At
  <1>3. th[t].p \in full /\ th[t].p \in Others /\ th[t].e # 0 /\ th[t].e \in 0..MaxEpoch
    BY <1>1, <1>2 DEF FrameOK, Frames, TypeOK
  <1>4. PICK p, e : p = th[t].p /\ e = th[t].e
    OBVIOUS
  <1>5. /\ note \in [Others -> 0..MaxEpoch] /\ MaxEpoch \in Nat
        /\ p \in Others /\ e \in 0..MaxEpoch /\ e # 0
        /\ note' = IF note[p] < e THEN [note EXCEPT ![p] = e] ELSE note
    BY <1>1, <1>3, <1>4, Numbers DEF TypeOK, AddNote, noteAfterAdd
  <1>6. /\ note' \in [Others -> 0..MaxEpoch]
        /\ \A x \in Others : note[x] <= note'[x]
        /\ note'[p] # 0
    BY <1>5
  <1>7. PICK g \in Frames : th' = [th EXCEPT ![t] = g] /\ g.p = p /\ p \in full
                            /\ g.pc \in {"addLive", "isAccused"}
    <2>1. PICK pc \in {"addLive", "isAccused"} : Jump(t, pc)
      BY DEF AddNote
    <2> QED BY <1>2, <1>4, <2>1, JumpStep
  <1>8. UNCHANGED <<full, live, acc, timers, nPing, currMonitorRing>>
    BY DEF AddNote
  <1>9. FrameOK(g)'
    BY <1>6, <1>7, <1>8 DEF FrameOK
  <1>10. th' \in [Threads -> Frames] /\ (\A u \in Threads : FrameOK(th[u]))'
    BY ZenonT(30), <1>6, <1>7, <1>8, <1>9, FrameUpdate DEF ViewInv
  <1>11. TypeOK'
    BY <1>1, <1>6, <1>8, <1>10 DEF TypeOK, Frames
  <1>12. \A x \in Others : note[x] \in Nat /\ note'[x] \in Nat
    BY <1>5, <1>6
  <1>13. LiveHasNote'
    BY <1>1, <1>6, <1>8, <1>12 DEF ViewInv, LiveHasNote, TypeOK
  <1>14. AccusationsNotAhead'
    <2>1. \A x \in Others, r \in Rings : acc[x][r].epoch \in Nat
      BY <1>1, Numbers DEF TypeOK
    <2> QED BY <1>6, <1>8, <1>12, <2>1 DEF ViewInv, AccusationsNotAhead
  <1>15. AcceptedOnEnabledRing'
    BY <1>8 DEF ViewInv, AcceptedOnEnabledRing
  <1> QED BY <1>6, <1>10, <1>11, <1>13, <1>14, <1>15 DEF ViewInv

\* Certificates and Spread calls add to the peers known.
LEMMA NewPeers ==
  ASSUME ViewInv, NEW t \in Threads
  PROVE  /\ \A p \in Others : evalCertificate(t, p) => ViewInv'
         /\ \A m \in Notes : Spread(t, m[1], m[2]) => ViewInv'
  <1>1. th \in [Threads -> Frames] /\ FrameOK(th[t]) /\ TypeOK
    BY DEF ViewInv, TypeOK, Frames
  <1>2. LiveHasNote /\ AccusationsNotAhead /\ AcceptedOnEnabledRing
    BY DEF ViewInv
  <1>3. ASSUME UNCHANGED th PROVE \E g \in Frames : th' = [th EXCEPT ![t] = g] /\ FrameOK(g)
    BY <1>1, <1>3
  <1>4. ASSUME NEW p \in Others, full' = full \cup {p},
               UNCHANGED <<live, note, acc, timers, nPing, currMonitorRing>>,
               NEW g \in Frames, th' = [th EXCEPT ![t] = g], FrameOK(g)
        PROVE  ViewInv'
    <2>1. LiveHasNote' /\ AccusationsNotAhead' /\ AcceptedOnEnabledRing'
      BY <1>2, <1>4 DEF LiveHasNote, AccusationsNotAhead, AcceptedOnEnabledRing
    <2> QED BY ZenonT(30), <1>1, <1>4, <2>1, WriteStep DEF TypeOK
  <1>5. ASSUME NEW p \in Others, evalCertificate(t, p) PROVE ViewInv'
    BY <1>3, <1>4, <1>5 DEF evalCertificate
  <1>6. ASSUME NEW m \in Notes, Spread(t, m[1], m[2]) PROVE ViewInv'
    <2>1. m[1] \in Others /\ m[2] \in Epochs
      BY ViewNetwork
    <2>2. CASE note[m[1]] < m[2]
      <3>1. PICK g : g = Frame("allAccusations", m[1], m[2])
        OBVIOUS
      <3>2. g \in Frames /\ g.pc = "allAccusations" /\ g.p = m[1] /\ g.e = m[2]
        BY <2>1, <3>1, Numbers, NewFrame DEF Epochs, PCs
      <3>3. full' = full \cup {m[1]} /\ th' = [th EXCEPT ![t] = g]
            /\ UNCHANGED <<live, note, acc, timers, nPing, currMonitorRing>>
        BY <1>6, <2>2, <3>1 DEF Spread
      <3>4. FrameOK(g)'
        BY <2>1, <3>2, <3>3 DEF FrameOK, Epochs
      <3>5. /\ note \in [Others -> 0..MaxEpoch] /\ note' = note
            /\ \A p \in Others : note[p] <= note'[p]
        BY SMTT(30), <1>1, <3>3, Numbers DEF TypeOK
      <3>6. th' \in [Threads -> Frames] /\ (\A u \in Threads : FrameOK(th[u]))'
        BY ZenonT(30), <3>2, <3>3, <3>4, <3>5, FrameUpdate DEF ViewInv
      <3>7. TypeOK'
        BY <1>1, <2>1, <3>3, <3>6 DEF TypeOK, Frames
      <3>8. LiveHasNote' /\ AccusationsNotAhead' /\ AcceptedOnEnabledRing'
        BY <1>2, <3>3 DEF LiveHasNote, AccusationsNotAhead, AcceptedOnEnabledRing
      <3> QED BY <3>6, <3>7, <3>8 DEF ViewInv
    <2>3. CASE ~(note[m[1]] < m[2])
      BY <1>3, <1>4, <1>6, <2>1, <2>3 DEF Spread
    <2> QED BY <2>2, <2>3
  <1> QED BY <1>5, <1>6

-----------------------------------------------------------------------------
\* The steps of evalAccusation, and the timer it and Monitor start.
LEMMA AccusationSteps ==
  ASSUME ViewInv, NEW t \in Threads
  PROVE  /\ \A m \in Accusations : evalAccusation(t, m[1], m[2], m[3], m[4]) => ViewInv'
         /\ CheckNote(t) => ViewInv'
         /\ CheckAccuser(t) => ViewInv'
         /\ AddAccusation(t) => ViewInv'
         /\ IsAlive(t) => ViewInv'
         /\ StartTimer(t) => ViewInv'
  <1>1. th[t] \in Frames /\ FrameOK(th[t]) /\ TypeOK /\ currMonitorRing \in Rings
    BY DEF ViewInv, TypeOK, Frames
  <1>2. LiveHasNote /\ AccusationsNotAhead /\ AcceptedOnEnabledRing
    BY DEF ViewInv
  <1>3. ASSUME NEW m \in Accusations, evalAccusation(t, m[1], m[2], m[3], m[4])
        PROVE  ViewInv'
    <2>1. m[1] \in Others /\ m[2] \in Ids /\ m[3] \in Rings /\ m[4] \in Epochs
      BY ViewNetwork
    <2>2. PICK p, q, r, e : p = m[1] /\ q = m[2] /\ r = m[3] /\ e = m[4]
      OBVIOUS
    <2>3. p \in full /\ p \in Ids /\ q \in Ids /\ r \in Rings /\ e \in 0..MaxEpoch /\ e # 0
      BY <1>3, <2>1, <2>2, Numbers DEF evalAccusation, Epochs
    <2>4. \/ th' = [th EXCEPT ![t] = Frame("isAlive", p, 0)]
          \/ th' = [th EXCEPT ![t] = [Frame("checkNote", p, e) EXCEPT !.q = q, !.r = r]]
      BY ZenonT(30), <1>3, <2>2 DEF evalAccusation
    <2>5. CASE th' = [th EXCEPT ![t] = Frame("isAlive", p, 0)]
      <3>1. PICK g : g = Frame("isAlive", p, 0)
        OBVIOUS
      <3>2. g \in Frames /\ g.pc = "isAlive" /\ g.p = p
        BY <2>3, <3>1, Numbers, NewFrame DEF PCs
      <3>3. FrameOK(g)
        BY <2>3, <3>2 DEF FrameOK
      <3> QED BY ZenonT(30), <1>1, <1>3, <2>5, <3>1, <3>2, <3>3, ReadStep DEF evalAccusation
    <2>6. CASE th' = [th EXCEPT ![t] = [Frame("checkNote", p, e) EXCEPT !.q = q, !.r = r]]
      <3> DEFINE g == [Frame("checkNote", p, e) EXCEPT !.q = q, !.r = r]
      <3>1. g \in Frames /\ FrameOK(g)
        BY ZenonT(30), <2>3, Numbers DEF Frame, Frames, FrameOK, PCs
      <3>2. th' = [th EXCEPT ![t] = g]
        BY <2>6
      <3> HIDE DEF g
      <3> QED BY ZenonT(30), <1>1, <1>3, <3>1, <3>2, ReadStep DEF evalAccusation
    <2> QED BY <2>4, <2>5, <2>6
  <1>4. ASSUME CheckNote(t) PROVE ViewInv'
    <2>1. th[t].pc = "checkNote" /\ th[t].e # 0
      BY <1>1, <1>4 DEF CheckNote, At, FrameOK
    <2>2. CASE noteAllows(th[t].p, th[t].r, th[t].e)
      <3>1. Goto(t, "validAccuser") /\ th[t].r \in EnabledRings[th[t].p][th[t].e]
        BY <1>4, <2>2 DEF CheckNote, noteAllows
      <3>2. PICK g \in Frames : th' = [th EXCEPT ![t] = g] /\ FrameOK(g)
        BY <2>1, <3>1, GotoStep DEF PCs
      <3> QED BY ZenonT(30), <1>1, <1>4, <3>2, ReadStep DEF CheckNote
    <2>3. CASE ~noteAllows(th[t].p, th[t].r, th[t].e)
      BY <1>1, <1>4, <2>3, IdleFrame, ReadStep DEF CheckNote, Return
    <2> QED BY SMTT(30), <2>2, <2>3
  <1>5. ASSUME CheckAccuser(t) PROVE ViewInv'
    <2>1. /\ th[t].pc = "validAccuser" /\ th[t].e # 0
          /\ th[t].r \in EnabledRings[th[t].p][th[t].e]
      BY <1>1, <1>5 DEF CheckAccuser, At, FrameOK
    <2>2. CASE ValidAccuser(th[t].p, th[t].q, th[t].r)
      <3>1. Goto(t, "addAccusation")
        BY <1>5, <2>2 DEF CheckAccuser
      <3>2. PICK g \in Frames : th' = [th EXCEPT ![t] = g] /\ FrameOK(g)
        BY <2>1, <3>1, GotoStep DEF PCs
      <3> QED BY ZenonT(30), <1>1, <1>5, <3>2, ReadStep DEF CheckAccuser
    <2>3. CASE ~ValidAccuser(th[t].p, th[t].q, th[t].r)
      BY <1>1, <1>5, <2>3, IdleFrame, ReadStep DEF CheckAccuser, Return
    <2> QED BY SMTT(30), <2>2, <2>3
  <1>6. ASSUME AddAccusation(t) PROVE ViewInv'
    <2>1. /\ th[t].pc = "addAccusation" /\ th[t].p \in full
          /\ th[t].r \in EnabledRings[th[t].p][th[t].e]
      BY SMTT(30), <1>1, <1>6 DEF AddAccusation, At, FrameOK
    <2>2. CASE sameEpoch(th[t].p, th[t].e)
      <3> DEFINE x == [accuser |-> th[t].q, epoch |-> th[t].e]
      <3>1. /\ acc' = [acc EXCEPT ![th[t].p][th[t].r] = x] /\ Jump(t, "isAlive")
            /\ UNCHANGED <<full, live, note, timers, nPing, currMonitorRing>>
        BY <1>6, <2>2 DEF AddAccusation
      <3>2. x \in [accuser : Ids, epoch : 0..MaxEpoch] /\ x.epoch = th[t].e
        BY <1>1 DEF Frames
      <3>3. x.epoch <= note[th[t].p]
        BY <1>1, <2>2, <3>2, Numbers DEF sameEpoch, Frames
      <3> HIDE DEF x
      <3>4. acc' \in AccType /\ AccusationsNotAhead' /\ AcceptedOnEnabledRing'
        BY ZenonT(30), <2>1, <3>1, <3>2, <3>3, SlotWrite
      <3>5. LiveHasNote'
        BY <1>2, <3>1 DEF LiveHasNote
      <3>6. PICK g \in Frames : /\ th' = [th EXCEPT ![t] = g]
                                /\ g.pc = "isAlive" /\ g.p \in full
        BY <2>1, <3>1, JumpStep
      <3>7. FrameOK(g)
        BY <3>6 DEF FrameOK
      <3> QED BY ZenonT(30), <1>1, <3>1, <3>4, <3>5, <3>6, <3>7, WriteStep DEF TypeOK, AccType
    <2>3. CASE ~sameEpoch(th[t].p, th[t].e)
      <3>1. th' = [th EXCEPT ![t] = Idle] /\ acc' = acc
            /\ UNCHANGED <<full, live, note, timers, nPing, currMonitorRing>>
        BY <1>6, <2>3 DEF AddAccusation, Return
      <3> QED BY ZenonT(30), <1>1, <3>1, IdleFrame, ReadStep
    <2> QED BY SMTT(30), <2>2, <2>3
  <1>7. ASSUME IsAlive(t) PROVE ViewInv'
    <2>1. th[t].pc = "isAlive"
      BY <1>7 DEF IsAlive, At
    <2>2. CASE th[t].p \in live
      <3>1. Goto(t, "startTimer")
        BY <1>7, <2>2 DEF IsAlive
      <3>2. PICK g \in Frames : th' = [th EXCEPT ![t] = g] /\ FrameOK(g)
        BY <2>1, <3>1, GotoStep DEF PCs
      <3> QED BY ZenonT(30), <1>1, <1>7, <3>2, ReadStep DEF IsAlive
    <2>3. CASE th[t].p \notin live
      BY SMTT(30), <1>1, <1>7, <2>3, IdleFrame, ReadStep DEF IsAlive, Return
    <2> QED BY <2>2, <2>3
  <1>8. ASSUME StartTimer(t) PROVE ViewInv'
    <2>1. th[t].p \in full
      BY <1>1, <1>8 DEF StartTimer, At, FrameOK
    <2>2. LiveHasNote' /\ AccusationsNotAhead' /\ AcceptedOnEnabledRing'
      BY <1>2, <1>8 DEF StartTimer, LiveHasNote, AccusationsNotAhead,
        AcceptedOnEnabledRing
    <2> QED BY ZenonT(30), <1>1, <1>8, <2>1, <2>2, IdleFrame, WriteStep
         DEF StartTimer, Return, TypeOK
  <1> QED BY <1>3, <1>4, <1>5, <1>6, <1>7, <1>8

\* The steps of Monitor.
LEMMA MonitorSteps ==
  ASSUME ViewInv, NEW t \in Threads
  PROVE  /\ MonitorTarget(t) => ViewInv'
         /\ Probe(t) => ViewInv'
         /\ ReadNote(t) => ViewInv'
         /\ RemoveNoteless(t) => ViewInv'
         /\ CreateAccusation(t) => ViewInv'
  <1>1. th \in [Threads -> Frames] /\ th[t] \in Frames /\ FrameOK(th[t]) /\ TypeOK
    BY DEF ViewInv, TypeOK, Frames
  <1>2. LiveHasNote /\ AccusationsNotAhead /\ AcceptedOnEnabledRing
    BY DEF ViewInv
  <1>3. ASSUME MonitorTarget(t) PROVE ViewInv'
    <2>1. currMonitorRing \in Rings /\ live \subseteq full /\ full \subseteq Others
      BY <1>1 DEF TypeOK
    <2>2. currMonitorRing' \in Rings
      <3>1. PICK c : c = currMonitorRing
        OBVIOUS
      <3>2. c \in 1..NumRings /\ NumRings \in Nat
        BY <2>1, <3>1, Numbers DEF Rings
      <3>3. c = NumRings => (c + 1) % (NumRings + 1) = 0
        BY <3>2
      <3>4. nextRing(c) \in Rings
        BY <3>2, <3>3 DEF nextRing, Rings
      <3> QED BY <1>3, <3>1, <3>4 DEF MonitorTarget
    <2>3. PICK p : p = ringSucc(currMonitorRing, Self)
      OBVIOUS
    <2>4. p \in live \cup {Self}
      BY <2>1, <2>3, TargetIsLive
    <2>5. CASE p = Self
      <3>1. th' = [th EXCEPT ![t] = th[t]]
        BY <1>1, <1>3, <2>3, <2>5 DEF MonitorTarget
      <3> QED BY ZenonT(30), <1>1, <1>3, <2>2, <3>1, ReadStep DEF MonitorTarget
    <2>6. CASE p # Self
      <3> DEFINE g == [Frame("probe", p, 0) EXCEPT !.r = currMonitorRing]
      <3>1. p \in full /\ p \in Ids
        BY <2>1, <2>4, <2>6, Numbers
      <3>2. g \in Frames /\ FrameOK(g)
        BY <2>1, <3>1, Numbers DEF Frame, Frames, FrameOK, PCs
      <3>3. th' = [th EXCEPT ![t] = g]
        BY <1>3, <2>3, <2>6 DEF MonitorTarget
      <3> HIDE DEF g
      <3> QED BY ZenonT(30), <1>1, <1>3, <2>2, <3>2, <3>3, ReadStep DEF MonitorTarget
    <2> QED BY <2>5, <2>6
  <1>4. ASSUME Probe(t) PROVE ViewInv'
    <2>1. th[t].pc = "probe" /\ UNCHANGED <<full, live, note, acc, timers, currMonitorRing>>
      BY <1>4 DEF Probe, At
    <2>2. LiveHasNote' /\ AccusationsNotAhead' /\ AcceptedOnEnabledRing'
      BY <1>2, <2>1 DEF LiveHasNote, AccusationsNotAhead, AcceptedOnEnabledRing
    <2>3. PICK g \in Frames : th' = [th EXCEPT ![t] = g] /\ FrameOK(g)
      <3>1. Goto(t, "readNote") \/ Return(t)
        BY <1>4 DEF Probe
      <3>2. CASE Goto(t, "readNote")
        BY <2>1, <3>2, GotoStep DEF PCs
      <3> QED BY <3>1, <3>2, IdleFrame DEF Return
    <2>4. nPing' \in [Others -> 0..PingLimit]
      <3>1. PICK p : p = th[t].p
        OBVIOUS
      <3>2. nPing \in [Others -> 0..PingLimit] /\ PingLimit \in Nat
        BY SMTT(30), <1>1, Numbers DEF TypeOK
      <3>3. p \in Others
        BY <1>1, <2>1, <3>1 DEF FrameOK, TypeOK
      <3>4. (IF nPing[p] < PingLimit THEN nPing[p] + 1 ELSE PingLimit) \in 0..PingLimit
        BY <3>2, <3>3
      <3>5. \/ nPing' = nPing
            \/ nPing' = [nPing EXCEPT ![p] =
                 IF nPing[p] < PingLimit THEN nPing[p] + 1 ELSE PingLimit]
        BY <1>4, <3>1 DEF Probe
      <3> QED BY <3>2, <3>4, <3>5
    <2> QED BY ZenonT(30), <1>1, <2>1, <2>2, <2>3, <2>4, WriteStep DEF TypeOK
  <1>5. ASSUME ReadNote(t) PROVE ViewInv'
    <2>1. th[t].pc = "readNote" /\ th[t].p \in full
      BY <1>1, <1>5 DEF ReadNote, At, FrameOK
    <2>2. PICK e : e = note[th[t].p]
      OBVIOUS
    <2>3. e \in 0..MaxEpoch
      BY <1>1, <2>1, <2>2 DEF TypeOK
    <2> DEFINE g == [th[t] EXCEPT !.pc = IF e = 0 THEN "removeLive" ELSE "createAccusation",
                                  !.e = e]
    <2>4. g \in Frames
      BY ZenonT(30), <1>1, <2>3 DEF Frames, PCs
    <2>5. FrameOK(g)
      BY <1>1, <2>1, <2>2, <2>3, Numbers DEF FrameOK, Frames
    <2>6. th' = [th EXCEPT ![t] = g]
      BY ZenonT(30), <1>5, <2>2 DEF ReadNote
    <2> HIDE DEF g
    <2> QED BY ZenonT(30), <1>1, <1>5, <2>4, <2>5, <2>6, ReadStep DEF ReadNote, TypeOK
  <1>6. ASSUME RemoveNoteless(t) PROVE ViewInv'
    <2>1. LiveHasNote' /\ AccusationsNotAhead' /\ AcceptedOnEnabledRing'
      BY <1>2, <1>6 DEF RemoveNoteless, LiveHasNote, AccusationsNotAhead,
        AcceptedOnEnabledRing
    <2> QED BY ZenonT(30), <1>1, <1>6, <2>1, IdleFrame, WriteStep
         DEF RemoveNoteless, Return, TypeOK
  <1>7. ASSUME CreateAccusation(t) PROVE ViewInv'
    <2>1. /\ th[t].pc = "createAccusation" /\ th[t].p \in full
          /\ th[t].e <= note[th[t].p]
          /\ UNCHANGED <<full, live, note, timers, nPing, currMonitorRing>>
      BY <1>1, <1>7 DEF CreateAccusation, At, FrameOK
    <2> DEFINE x == [accuser |-> Self, epoch |-> th[t].e]
    <2>2. acc' = [acc EXCEPT ![th[t].p][th[t].r] = x]
      BY <1>7 DEF CreateAccusation
    <2>3. /\ x \in [accuser : Ids, epoch : 0..MaxEpoch]
          /\ x.epoch <= note[th[t].p] /\ x.accuser = Self
      BY SMTT(30), <1>1, <2>1, Numbers DEF Frames
    <2> HIDE DEF x
    <2>4. acc' \in AccType /\ AccusationsNotAhead' /\ AcceptedOnEnabledRing'
      BY ZenonT(30), <2>1, <2>2, <2>3, SlotWrite
    <2>5. LiveHasNote'
      BY <1>2, <2>1 DEF LiveHasNote
    <2>6. Jump(t, "isAlive")
      BY <1>7 DEF CreateAccusation, afterCreate
    <2>7. PICK g \in Frames : /\ th' = [th EXCEPT ![t] = g]
                              /\ g.pc = "isAlive" /\ g.p \in full
      BY <2>1, <2>6, JumpStep
    <2>8. FrameOK(g)
      BY <2>7 DEF FrameOK
    <2> QED BY ZenonT(30), <1>1, <2>1, <2>4, <2>5, <2>7, <2>8, WriteStep DEF TypeOK, AccType
  <1> QED BY <1>3, <1>4, <1>5, <1>6, <1>7

\* The steps of checkTimeouts.
LEMMA TimeoutSteps ==
  ASSUME ViewInv, NEW t \in Threads
  PROVE  /\ AllTimeouts(t) => ViewInv'
         /\ \A p \in Others : RemoveExpired(t, p) => ViewInv'
         /\ DropTimeout(t) => ViewInv'
         /\ KeepRest(t) => ViewInv'
  <1>1. th[t] \in Frames /\ FrameOK(th[t]) /\ TypeOK /\ currMonitorRing \in Rings
    BY DEF ViewInv, TypeOK, Frames
  <1>2. LiveHasNote /\ AccusationsNotAhead /\ AcceptedOnEnabledRing
    BY DEF ViewInv
  <1>3. ASSUME AllTimeouts(t) PROVE ViewInv'
    <2> DEFINE g == [Frame("expired", Self, 0) EXCEPT !.rs = timers]
    <2>1. timers \subseteq full /\ full \subseteq Others
      BY <1>1 DEF TypeOK
    <2>2. g \in Frames /\ FrameOK(g)
      BY <2>1, Numbers DEF Frame, Frames, FrameOK, PCs
    <2>3. th' = [th EXCEPT ![t] = g]
      BY <1>3 DEF AllTimeouts
    <2> HIDE DEF g
    <2> QED BY ZenonT(30), <1>1, <1>3, <2>2, <2>3, ReadStep DEF AllTimeouts
  <1>4. ASSUME NEW p \in Others, RemoveExpired(t, p) PROVE ViewInv'
    <2> DEFINE g == [th[t] EXCEPT !.pc = "dropTimeout", !.p = p, !.rs = @ \ {p}]
    <2>1. th[t].pc = "expired" /\ p \in full /\ p \in Ids
      BY <1>1, <1>4, Numbers DEF RemoveExpired, At, FrameOK
    <2>2. g \in Frames /\ FrameOK(g)
      BY ZenonT(30), <1>1, <2>1 DEF Frames, FrameOK, PCs
    <2>3. th' = [th EXCEPT ![t] = g]
      BY ZenonT(30), <1>4 DEF RemoveExpired
    <2>4. LiveHasNote' /\ AccusationsNotAhead' /\ AcceptedOnEnabledRing'
      BY <1>2, <1>4 DEF RemoveExpired, LiveHasNote, AccusationsNotAhead,
        AcceptedOnEnabledRing
    <2> HIDE DEF g
    <2> QED BY ZenonT(30), <1>1, <1>4, <2>2, <2>3, <2>4, WriteStep DEF RemoveExpired, TypeOK
  <1>5. ASSUME DropTimeout(t) PROVE ViewInv'
    <2>1. th[t].pc = "dropTimeout"
      BY <1>5 DEF DropTimeout, At
    <2>2. LiveHasNote' /\ AccusationsNotAhead' /\ AcceptedOnEnabledRing'
      BY <1>2, <1>5 DEF DropTimeout, LiveHasNote, AccusationsNotAhead,
        AcceptedOnEnabledRing
    <2>3. PICK g \in Frames : th' = [th EXCEPT ![t] = g] /\ FrameOK(g)
      <3>1. CASE th[t].rs = {}
        BY <1>5, <3>1, IdleFrame DEF DropTimeout, Return
      <3>2. CASE th[t].rs # {}
        <4> DEFINE g == [th[t] EXCEPT !.pc = "expired", !.p = Self]
        <4>1. g \in Frames /\ FrameOK(g)
          BY ZenonT(30), <1>1, <2>1, Numbers DEF Frames, FrameOK, PCs
        <4>2. th' = [th EXCEPT ![t] = g]
          BY ZenonT(30), <1>5, <3>2 DEF DropTimeout
        <4> HIDE DEF g
        <4> QED BY ZenonT(30), <4>1, <4>2
      <3> QED BY <3>1, <3>2
    <2> QED BY ZenonT(30), <1>1, <1>5, <2>2, <2>3, WriteStep DEF DropTimeout, TypeOK
  <1>6. ASSUME KeepRest(t) PROVE ViewInv'
    BY ZenonT(30), <1>1, <1>6, IdleFrame, ReadStep DEF KeepRest, Return
  <1> QED BY <1>3, <1>4, <1>5, <1>6

-----------------------------------------------------------------------------
\* Every step of every goroutine keeps the invariant.
LEMMA ViewStep ==
  ASSUME ViewInv, [Next]_vars
  PROVE  ViewInv'
  <1>1. CASE UNCHANGED vars
    BY ZenonT(30), <1>1 DEF vars, ViewInv, TypeOK, FrameOK, LiveHasNote, AccusationsNotAhead,
      AcceptedOnEnabledRing
  <1>2. ASSUME NEW t \in Threads, evalNoteStep(t) PROVE ViewInv'
    BY SMTT(30), <1>2, EvalNoteReads, EvalNoteWrites, AddNoteStep DEF evalNoteStep
  <1>3. ASSUME NEW t \in Gossipers, Gossip(t) \/ gossipStep(t) PROVE ViewInv'
    BY <1>2, <1>3, NewPeers, EvalNoteReads, AccusationSteps
      DEF Gossip, gossipStep, timerStep, Threads
  <1>4. ASSUME NEW t \in Spreaders,
               (\E m \in Notes : Spread(t, m[1], m[2])) \/ evalNoteStep(t)
        PROVE  ViewInv'
    BY <1>2, <1>4, NewPeers DEF Threads
  <1>5. ASSUME NEW t \in Monitors, MonitorTarget(t) \/ monitorStep(t) PROVE ViewInv'
    BY <1>5, MonitorSteps, AccusationSteps DEF monitorStep, timerStep, Threads
  <1>6. ASSUME NEW t \in Checkers, AllTimeouts(t) \/ timeoutStep(t) PROVE ViewInv'
    BY <1>6, TimeoutSteps DEF timeoutStep, Threads
  <1> QED BY <1>1, <1>3, <1>4, <1>5, <1>6 DEF Next

\* The invariant holds in every reachable state.
THEOREM ViewInvariant == Spec => []ViewInv
  <1>1. NewNode => ViewInv
    BY ViewInit
  <1>2. ViewInv /\ [Next]_vars => ViewInv'
    BY ViewStep
  <1> QED BY <1>1, <1>2, PTL DEF Spec

\* Type correctness of the view and of every goroutine.
THEOREM ViewTypeCorrect == Spec => []TypeOK
  <1>1. ViewInv => TypeOK
    BY DEF ViewInv
  <1> QED BY <1>1, ViewInvariant, PTL

\* What Monitor takes for granted: a live peer has a note, unless it is one
\* of the first contacts.
THEOREM LivePeersHaveNotes == Spec => []LiveHasNote
  <1>1. ViewInv => LiveHasNote
    BY DEF ViewInv
  <1> QED BY <1>1, ViewInvariant, PTL

\* No accusation is about a note the view has not seen.
THEOREM NoAccusationAhead == Spec => []AccusationsNotAhead
  <1>1. ViewInv => AccusationsNotAhead
    BY DEF ViewInv
  <1> QED BY <1>1, ViewInvariant, PTL

\* No accusation is accepted on a ring its accused has switched off.
THEOREM DisabledRingsRespected == Spec => []AcceptedOnEnabledRing
  <1>1. ViewInv => AcceptedOnEnabledRing
    BY DEF ViewInv
  <1> QED BY <1>1, ViewInvariant, PTL

\* No step replaces a note by an older one.
THEOREM NotesGrow == Spec => NotesOnlyGrow
  <1>1. ViewInv /\ [Next]_vars => [\A p \in Others : note[p] <= note'[p]]_vars
    <2> SUFFICES ASSUME ViewInv, Next PROVE \A p \in Others : note[p] <= note'[p]
      OBVIOUS
    <2>1. note' = note => \A p \in Others : note[p] <= note'[p]
      BY SMTT(30), Numbers DEF ViewInv, TypeOK
    <2>2. ASSUME NEW t \in Threads, evalNoteStep(t)
          PROVE  \A p \in Others : note[p] <= note'[p]
      BY ZenonT(30), <2>1, <2>2, AddNoteStep DEF evalNoteStep, AllAccusations,
        RemoveAccusation, IsAccused, ResetPing, DeleteTimeout, AddLive, RingAdd,
        RingClear
    <2>3. ASSUME NEW t \in Gossipers, Gossip(t) \/ gossipStep(t)
          PROVE  \A p \in Others : note[p] <= note'[p]
      BY ZenonT(30), <2>1, <2>2, <2>3 DEF Gossip, gossipStep, timerStep, Threads,
        evalCertificate, evalNote, evalAccusation, CheckNote, CheckAccuser,
        AddAccusation, IsAlive, StartTimer
    <2>4. ASSUME NEW t \in Spreaders,
                 (\E m \in Notes : Spread(t, m[1], m[2])) \/ evalNoteStep(t)
          PROVE  \A p \in Others : note[p] <= note'[p]
      BY <2>1, <2>2, <2>4 DEF Spread, Threads
    <2>5. ASSUME NEW t \in Monitors, MonitorTarget(t) \/ monitorStep(t)
          PROVE  note' = note
      BY SMTT(30), <2>5 DEF MonitorTarget, monitorStep, timerStep, Probe, ReadNote,
        RemoveNoteless, CreateAccusation, IsAlive, StartTimer
    <2>6. ASSUME NEW t \in Checkers, AllTimeouts(t) \/ timeoutStep(t)
          PROVE  note' = note
      BY ZenonT(30), <2>6 DEF AllTimeouts, timeoutStep, RemoveExpired, DropTimeout, KeepRest
    <2> QED BY <2>1, <2>3, <2>4, <2>5, <2>6 DEF Next
  <1> QED BY <1>1, ViewInvariant, PTL DEF Spec, NotesOnlyGrow
=============================================================================
