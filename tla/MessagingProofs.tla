--------------------------- MODULE MessagingProofs ---------------------------
(***************************************************************************)
(* The connection pool of src/comm/client.go, for any number of calls,     *)
(* receivers, workers and neighbour changes.                               *)
(***************************************************************************)
EXTENDS Messaging, SequenceTheorems, TLAPS

\* A pooled connection goes to its own receiver, which OpenArePooled alone
\* does not say: without it CloseConn of one receiver could close the
\* connection of another.
PooledToOwn ==
  /\ allConnections \in [Peers -> Conns \union {None}]
  /\ dialled \in [Peers -> 0..MaxDials]
  /\ down \subseteq Peers
  /\ \A p \in Peers : allConnections[p] # None => allConnections[p] \in {p} \X (1..MaxDials)

PCs == {"none", "submit", "connect", "dial", "rpc", "nil", "message", "done"}

Call == [pc : PCs, dest : Peers \union {None},
         conn : Conns \union {None}, out : Outcomes \union {Empty, None}]

\* A call that has left SendTo knows its receiver.
CallsPlaced ==
  /\ call \in [Calls -> Call]
  /\ \A c \in Calls : At(c, "none") \/ call[c].dest \in Peers

PoolInv == PooledToOwn /\ CallsPlaced /\ OpenArePooled

\* Before any call the pool and the set of open connections are empty.
LEMMA PoolInit == Init => PoolInv
<1> SUFFICES ASSUME Init PROVE PoolInv
  OBVIOUS
<1>1. PooledToOwn
  BY MessagingNumbers DEF Init, PooledToOwn
<1>2. CallsPlaced
  <2> DEFINE none == [pc |-> "none", dest |-> None, conn |-> None, out |-> None]
  <2>1. none \in Call
    BY DEF Call, PCs
  <2>2. call = [c \in Calls |-> none]
    BY DEF Init
  <2>3. none.pc = "none"
    OBVIOUS
  <2> HIDE DEF none
  <2> QED BY <2>1, <2>2, <2>3 DEF CallsPlaced, At
<1>3. OpenArePooled
  BY DEF Init, OpenArePooled
<1> QED BY <1>1, <1>2, <1>3 DEF PoolInv

\* Two fields of a call's record may change at once.
LEMMA TwoFields ==
  ASSUME CallsPlaced, NEW c \in Calls, NEW pc \in PCs,
         \/ \E p \in Peers : call' = [call EXCEPT ![c].pc = pc, ![c].dest = p]
         \/ /\ ~At(c, "none")
            /\ \/ \E conn \in Conns \union {None} :
                    call' = [call EXCEPT ![c].pc = pc, ![c].conn = conn]
               \/ \E out \in Outcomes \union {Empty, None} :
                    call' = [call EXCEPT ![c].pc = pc, ![c].out = out]
  PROVE  CallsPlaced'
<1>1. PICK mid : mid = [call EXCEPT ![c].pc = pc]
  OBVIOUS
<1>2. /\ mid \in [Calls -> Call]
      /\ \A d \in Calls : mid[d].dest = call[d].dest
      /\ \A d \in Calls : d # c => mid[d] = call[d]
  BY <1>1 DEF CallsPlaced, Call
<1>3. CASE \E p \in Peers :
              call' = [mid EXCEPT ![c].dest = p]
  <2>1. PICK p \in Peers : call' = [mid EXCEPT ![c].dest = p]
    BY ZenonT(30), <1>3
  <2>2. call' \in [Calls -> Call]
    BY SMTT(30), <1>2, <2>1 DEF Call
  <2>3. \A d \in Calls : d # c => call'[d] = call[d]
    BY <1>2, <2>1
  <2>4. call'[c].dest = p
    BY <1>2, <2>1 DEF Call
  <2>5. call'[c].dest \in Peers
    BY ZenonT(30), <1>2, <1>3, <2>4 DEF CallsPlaced, At
  <2> QED BY <2>2, <2>3, <2>5 DEF CallsPlaced, At
<1>4. CASE ~At(c, "none") /\ \E conn \in Conns \union {None} :
              call' = [mid EXCEPT ![c].conn = conn]
  <2>1. PICK conn \in Conns \union {None} : call' = [mid EXCEPT ![c].conn = conn]
    BY ZenonT(30), <1>4
  <2>2. call' \in [Calls -> Call]
    BY SMTT(30), <1>2, <2>1 DEF Call
  <2>3. \A d \in Calls : d # c => call'[d] = call[d]
    BY <1>2, <2>1
  <2>4. call'[c].dest = mid[c].dest
    BY <1>2, <2>1 DEF Call
  <2>5. call'[c].dest \in Peers
    BY ZenonT(30), <1>2, <1>4, <2>4 DEF CallsPlaced, At
  <2> QED BY <2>2, <2>3, <2>5 DEF CallsPlaced, At
<1>5. CASE ~At(c, "none") /\ \E out \in Outcomes \union {Empty, None} :
              call' = [mid EXCEPT ![c].out = out]
  <2>1. PICK out \in Outcomes \union {Empty, None} : call' = [mid EXCEPT ![c].out = out]
    BY ZenonT(30), <1>5
  <2>2. call' \in [Calls -> Call]
    BY SMTT(30), <1>2, <2>1 DEF Call
  <2>3. \A d \in Calls : d # c => call'[d] = call[d]
    BY <1>2, <2>1
  <2>4. call'[c].dest = mid[c].dest
    BY <1>2, <2>1 DEF Call
  <2>5. call'[c].dest \in Peers
    BY ZenonT(30), <1>2, <1>5, <2>4 DEF CallsPlaced, At
  <2> QED BY <2>2, <2>3, <2>5 DEF CallsPlaced, At
<1> QED BY <1>1, <1>3, <1>4, <1>5

\* The steps of a call that do not dial leave the pool alone and keep the
\* call's receiver.
LEMMA CallSteps ==
  ASSUME PoolInv, NEW c \in Calls,
         \/ \E p \in Peers : SendTo(c, p)
         \/ Submit(c) \/ getConnection(c) \/ Receive(c)
         \/ \E out \in Outcomes : Messenger(c, out)
         \/ SendReturns(c) \/ SendFails(c) \/ SendNil(c) \/ SendMessage(c)
  PROVE  PoolInv'
<1>1. UNCHANGED connVars
  BY DEF SendTo, Submit, getConnection, Receive, Messenger, SendReturns, SendFails,
         SendNil, SendMessage
<1>2. PooledToOwn' /\ OpenArePooled'
  BY <1>1 DEF PoolInv, PooledToOwn, OpenArePooled, connVars
<1>3. CallsPlaced'
  <2>0. CallsPlaced /\ PooledToOwn
    BY SMTT(30) DEF PoolInv
  <2> USE <2>0 DEF CallsPlaced, Call, PCs, At
  <2>1. CASE \E p \in Peers : SendTo(c, p)
    BY ZenonT(30), <2>1, TwoFields DEF SendTo
  <2>2. CASE Submit(c)
    BY <2>2 DEF Submit
  <2>3. CASE getConnection(c)
    <3>1. allConnections[call[c].dest] \in Conns \union {None}
      BY <2>3 DEF getConnection, PooledToOwn
    <3> QED BY ZenonT(30), <2>3, <3>1, TwoFields DEF getConnection
  <2>4. CASE Receive(c)
    BY <2>4 DEF Receive
  <2>5. CASE \E out \in Outcomes : Messenger(c, out)
    BY <2>5 DEF Messenger
  <2>6. CASE SendReturns(c)
    BY <2>6 DEF SendReturns
  <2>7. CASE SendFails(c)
    BY ZenonT(30), <2>7, TwoFields DEF SendFails, failedOut, afterError
  <2>8. CASE SendNil(c)
    BY <2>8 DEF SendNil
  <2>9. CASE SendMessage(c)
    BY SMTT(30), <2>9 DEF SendMessage
  <2> QED BY <2>1, <2>2, <2>3, <2>4, <2>5, <2>6, <2>7, <2>8, <2>9
<1> QED BY <1>2, <1>3 DEF PoolInv

\* dial looks for a connection again under the write lock, so what it adds to
\* the pool replaces nothing.
LEMMA DialStep ==
  ASSUME PoolInv, NEW c \in Calls, dial(c)
  PROVE  PoolInv'
<1>1. PICK p \in Peers : p = call[c].dest
  BY DEF PoolInv, CallsPlaced, dial, At
<1>2. PICK conn : /\ conn = IF pooled(p) THEN allConnections[p] ELSE <<p, dialled[p] + 1>>
                  /\ conn \in Conns
                  /\ allConnections' = [allConnections EXCEPT ![p] = conn]
                  /\ opened' = opened \union {conn}
                  /\ dialled' = [dialled EXCEPT ![p] = conn[2]]
                  /\ call' = [call EXCEPT ![c].pc = "rpc", ![c].conn = conn]
                  /\ down' = down
  BY ZenonT(30), <1>1 DEF dial
<1>3. conn \in {p} \X (1..MaxDials) /\ conn \in Conns /\ conn[2] \in 0..MaxDials /\ conn # None
  <2>1. conn \in Conns /\ conn[2] \in 0..MaxDials /\ conn # None
    BY <1>2, NoneIsNone, MessagingNumbers DEF Conns
  <2>2. CASE pooled(p)
    BY <1>2, <2>1, <2>2 DEF pooled, PoolInv, PooledToOwn
  <2>3. CASE ~pooled(p)
    BY <1>2, <2>1, <2>3 DEF Conns
  <2> QED BY <2>1, <2>2, <2>3
<1>4. PooledToOwn'
  BY <1>2, <1>3 DEF PoolInv, PooledToOwn
<1>5. CallsPlaced'
  <2>1. "rpc" \in PCs /\ ~At(c, "none") /\ CallsPlaced
    BY DEF PCs, dial, At, PoolInv
  <2> QED BY ZenonT(30), <1>2, <1>3, <2>1, TwoFields
<1>6. OpenArePooled'
  <2>1. \A q \in Peers : allConnections'[q] = IF q = p THEN conn ELSE allConnections[q]
    BY <1>2 DEF PoolInv, PooledToOwn
  <2>2. allConnections[p] \in {None, conn}
    BY <1>2 DEF pooled
  <2> QED BY <1>2, <1>3, <2>1, <2>2 DEF PoolInv, OpenArePooled
<1> QED BY <1>4, <1>5, <1>6 DEF PoolInv

\* CloseConn takes one receiver's connection out of both sets, and no other.
LEMMA CloseStep ==
  ASSUME PoolInv, NEW p \in Peers, CloseConn(p)
  PROVE  PoolInv'
<1>1. PICK old : /\ old = allConnections[p] /\ old # None
                 /\ opened' = opened \ {old}
                 /\ allConnections' = [allConnections EXCEPT ![p] = None]
                 /\ UNCHANGED <<call, dialled, down>>
  BY DEF CloseConn
<1>2. PooledToOwn'
  BY <1>1 DEF PoolInv, PooledToOwn
<1>3. CallsPlaced'
  BY <1>1 DEF PoolInv, CallsPlaced, At
<1>4. \A q \in Peers : q # p => allConnections[q] # old
  BY <1>1 DEF PoolInv, PooledToOwn
<1>5. \A q \in Peers : allConnections'[q] = IF q = p THEN None ELSE allConnections[q]
  BY <1>1 DEF PoolInv, PooledToOwn
<1>6. OpenArePooled'
  BY <1>1, <1>4, <1>5 DEF PoolInv, OpenArePooled
<1> QED BY <1>2, <1>3, <1>6 DEF PoolInv

\* The pool invariant is kept by every step of the program.
THEOREM PoolInvariant == Spec => []PoolInv
<1>1. PoolInv /\ [Next]_vars => PoolInv'
  <2> SUFFICES ASSUME PoolInv, [Next]_vars PROVE PoolInv'
    OBVIOUS
  <2>1. ASSUME NEW c \in Calls, NEW p \in Peers, SendTo(c, p) PROVE PoolInv'
    BY <2>1, CallSteps
  <2>2. ASSUME NEW c \in Calls, Submit(c) \/ sendMsg(c) \/ Receive(c) PROVE PoolInv'
    BY <2>2, CallSteps, DialStep DEF sendMsg
  <2>3. ASSUME NEW p \in Peers, CloseConn(p) PROVE PoolInv'
    BY <2>3, CloseStep
  <2>4. ASSUME NEW p \in Peers, PeerCrash(p) PROVE PoolInv'
    BY <2>4 DEF PeerCrash, PoolInv, PooledToOwn, CallsPlaced, OpenArePooled, At
  <2>5. CASE UNCHANGED vars
    BY <2>5 DEF vars, PoolInv, PooledToOwn, CallsPlaced, OpenArePooled, At
  <2> QED BY <2>1, <2>2, <2>3, <2>4, <2>5 DEF Next
<1> QED BY <1>1, PoolInit, PTL DEF Spec

\* No connection is leaked and no closed one stays in the pool, whatever calls
\* dial and whatever neighbours change at the same time.
THEOREM PoolCorrect == Spec => []OpenArePooled
<1>1. PoolInv => OpenArePooled
  BY DEF PoolInv
<1> QED BY <1>1, PoolInvariant, PTL

-----------------------------------------------------------------------------
\* What a caller has seen of its call, received or still in the channel, at
\* each point of sendMsg.  AnswerOrNil alone does not say what sendMsg will
\* send next.
Msgs == Outcomes \union {Nil, Empty}
Answers == {<<Nil, Empty>>} \union {<<out>> : out \in Outcomes}

Stage(pc, out, seen) ==
  /\ pc \in {"none", "submit", "connect", "dial"} => seen = <<>> /\ out = None
  /\ pc = "rpc" => seen = <<>> /\ out \in Outcomes \union {None}
  /\ pc = "nil" => seen = <<>> /\ out = Empty
  /\ pc = "message" => \/ seen = <<>> /\ out \in Outcomes
                       \/ seen = <<Nil>> /\ out = Empty
  /\ pc = "done" => seen \in Answers

AnswerInv ==
  /\ ch \in [Calls -> Seq(Msgs)] /\ got \in [Calls -> Seq(Msgs)]
  /\ \A c \in Calls : Len(ch[c]) <= 1
  /\ \A c \in Calls : Stage(call[c].pc, call[c].out, got[c] \o ch[c])

\* Receiving moves the front of the channel to the end of what was received.
LEMMA Moves ==
  ASSUME NEW g \in Seq(Msgs), NEW h \in Seq(Msgs), h # <<>>
  PROVE  /\ Append(g, Head(h)) \in Seq(Msgs) /\ Tail(h) \in Seq(Msgs)
         /\ Len(Tail(h)) = Len(h) - 1
         /\ Append(g, Head(h)) \o Tail(h) = g \o h
<1>1. /\ Head(h) \in Msgs /\ Tail(h) \in Seq(Msgs) /\ Len(Tail(h)) = Len(h) - 1
      /\ Head(h) = h[1] /\ Len(h) \in Nat \ {0}
  OBVIOUS
<1>2. 1 \in 1..Len(h) /\ Len(h) \in 1..Len(h) /\ 1 + 1 = 2
  BY <1>1
<1>3. <<Head(h)>> \o Tail(h) = h
  <2>1. SubSeq(h, 1, Len(h)) = <<h[1]>> \o SubSeq(h, 1 + 1, Len(h))
    BY Zenon, <1>2, SubSeqRecursiveFirst
  <2> QED BY Zenon, <1>1, <1>2, <2>1, SubSeqFull, TailIsSubSeq
<1>4. Append(g, Head(h)) \in Seq(Msgs) /\ <<Head(h)>> \in Seq(Msgs)
  BY <1>1
<1>5. Append(g, Head(h)) = g \o <<Head(h)>>
  BY <1>1, AppendIsConcat
<1>6. (g \o <<Head(h)>>) \o Tail(h) = g \o (<<Head(h)>> \o Tail(h))
  <2>1. PICK x \in Seq(Msgs), t \in Seq(Msgs) : x = <<Head(h)>> /\ t = Tail(h)
    BY ZenonT(30), <1>1, <1>4
  <2>2. (g \o x) \o t = g \o (x \o t)
    BY SMTT(30), ConcatAssociative
  <2> QED BY <2>1, <2>2
<1> QED BY Zenon, <1>1, <1>3, <1>4, <1>5, <1>6

\* What sendMsg adds to the channel comes after everything seen so far.
LEMMA Sends ==
  ASSUME NEW g \in Seq(Msgs), NEW h \in Seq(Msgs), NEW m \in Msgs
  PROVE  /\ Append(h, m) \in Seq(Msgs) /\ Len(Append(h, m)) = Len(h) + 1
         /\ g \o Append(h, m) = Append(g \o h, m)
<1>1. Append(h, m) \in Seq(Msgs) /\ Len(Append(h, m)) = Len(h) + 1
      /\ <<m>> \in Seq(Msgs)
  OBVIOUS
<1>2. g \o h \in Seq(Msgs)
  BY ConcatProperties
<1>3. Append(h, m) = h \o <<m>> /\ Append(g \o h, m) = (g \o h) \o <<m>>
  BY Zenon, <1>2, AppendIsConcat
<1>4. (g \o h) \o <<m>> = g \o (h \o <<m>>)
  <2>1. PICK x \in Seq(Msgs) : x = <<m>>
    BY ZenonT(30), <1>1
  <2>2. (g \o h) \o x = g \o (h \o x)
    BY ConcatAssociative
  <2> QED BY <2>1, <2>2
<1> QED BY Zenon, <1>1, <1>3, <1>4

\* The answer of a failed call: nil and then the empty message.
LEMMA TwoMessages == Append(<<Nil>>, Empty) = <<Nil, Empty>>
<1>1. PICK a, b : a = Append(<<Nil>>, Empty) /\ b = <<Nil, Empty>>
  BY ZenonT(30)
<1>2. <<Nil>> \in Seq(Msgs) /\ Len(<<Nil>>) = 1 /\ Empty \in Msgs
  BY DEF Msgs
<1>3. a \in Seq(Msgs) /\ Len(a) = 2 /\ a[1] = Nil /\ a[2] = Empty
  <2>1. PICK n \in Seq(Msgs) : n = <<Nil>> /\ Len(n) = 1 /\ n[1] = Nil
    BY ZenonT(30), <1>2
  <2>2. a = Append(n, Empty)
    BY <1>1, <2>1
  <2> QED BY <1>2, <2>1, <2>2, AppendProperties
<1>4. b \in Seq(Msgs) /\ Len(b) = 2 /\ b[1] = Nil /\ b[2] = Empty
  BY <1>1 DEF Msgs
<1>5. \A i \in 1..Len(a) : a[i] = b[i]
  BY <1>3, <1>4
<1> QED BY ZenonT(30), <1>1, <1>3, <1>4, <1>5, SeqEqual

\* A step concerns one call; the others keep their stage.
LEMMA OneCall ==
  ASSUME AnswerInv, NEW c \in Calls,
         ch' \in [Calls -> Seq(Msgs)], got' \in [Calls -> Seq(Msgs)],
         \A d \in Calls : d # c =>
           call'[d] = call[d] /\ ch'[d] = ch[d] /\ got'[d] = got[d],
         Len(ch'[c]) <= 1,
         Stage(call'[c].pc, call'[c].out, got'[c] \o ch'[c])
  PROVE  AnswerInv'
<1>1. \A d \in Calls : Len(ch'[d]) <= 1
  BY ZenonT(30) DEF AnswerInv
<1>2. ASSUME NEW d \in Calls
      PROVE  Stage(call'[d].pc, call'[d].out, got'[d] \o ch'[d])
  <2>1. CASE d = c
    BY Zenon, <2>1
  <2>2. CASE d # c
    BY Zenon, <2>2 DEF AnswerInv
  <2> QED BY <2>1, <2>2
<1> QED BY <1>1, <1>2 DEF AnswerInv

\* The steps that send and receive nothing: only pc and out matter.
LEMMA SilentSteps ==
  ASSUME CallsPlaced, AnswerInv, NEW c \in Calls, UNCHANGED <<ch, got>>,
         \/ \E p \in Peers : SendTo(c, p)
         \/ Submit(c) \/ getConnection(c) \/ dial(c)
         \/ \E out \in Outcomes : Messenger(c, out)
         \/ SendReturns(c) \/ SendFails(c)
  PROVE  AnswerInv'
<1>0. /\ call \in [Calls -> Call]
      /\ ch' = ch /\ got' = got
      /\ ch \in [Calls -> Seq(Msgs)] /\ got \in [Calls -> Seq(Msgs)]
      /\ Len(ch[c]) <= 1
      /\ Stage(call[c].pc, call[c].out, got[c] \o ch[c])
  BY DEF CallsPlaced, AnswerInv
<1>1. PICK seen : seen = got[c] \o ch[c]
  BY ZenonT(30)
<1>2. \A d \in Calls : d # c => call'[d] = call[d]
  BY <1>0 DEF SendTo, Submit, getConnection, dial, Messenger, SendReturns, SendFails
<1>3. Stage(call'[c].pc, call'[c].out, seen)
  <2>0. Stage(call[c].pc, call[c].out, seen)
    BY <1>0, <1>1
  <2>1. CASE \E p \in Peers : SendTo(c, p)
    <3>0. PICK p \in Peers : SendTo(c, p)
      BY <2>1
    <3>1. call'[c].pc = "submit" /\ call'[c].out = call[c].out /\ call[c].pc = "none"
      BY ZenonT(30), <1>0, <3>0 DEF SendTo, At, Call
    <3> QED BY <2>0, <3>1 DEF Stage
  <2>2. CASE Submit(c)
    <3>1. call'[c].pc = "connect" /\ call'[c].out = call[c].out /\ call[c].pc = "submit"
      BY <1>0, <2>2 DEF Submit, At, Call
    <3> QED BY <2>0, <3>1 DEF Stage
  <2>3. CASE getConnection(c)
    <3>1. call'[c].pc \in {"dial", "rpc"} /\ call'[c].out = call[c].out
          /\ call[c].pc = "connect"
      BY <1>0, <2>3 DEF getConnection, At, Call
    <3> QED BY <2>0, <3>1 DEF Stage
  <2>4. CASE dial(c)
    <3>1. call'[c].pc = "rpc" /\ call'[c].out = call[c].out /\ call[c].pc = "dial"
      BY <1>0, <2>4 DEF dial, At, Call
    <3> QED BY <2>0, <3>1 DEF Stage
  <2>5. ASSUME NEW out \in Outcomes, Messenger(c, out)
        PROVE  Stage(call'[c].pc, call'[c].out, seen)
    <3>1. call'[c].pc = "rpc" /\ call'[c].out = out /\ call[c].pc = "rpc"
      BY <1>0, <2>5 DEF Messenger, At, Call
    <3> QED BY <2>0, <2>5, <3>1 DEF Stage
  <2>6. CASE SendReturns(c)
    <3>1. call'[c].pc = "message" /\ call'[c].out = call[c].out /\ call[c].pc = "rpc"
          /\ call[c].out # None
      BY <1>0, <2>6 DEF SendReturns, At, Call
    <3> QED BY <2>0, <3>1 DEF Stage
  <2>7. CASE SendFails(c)
    <3>1. call'[c].pc = "nil" /\ call'[c].out = Empty /\ call[c].pc = "rpc"
      BY <1>0, <2>7 DEF SendFails, At, Call, failedOut, afterError
    <3> QED BY <2>0, <3>1 DEF Stage
  <2> QED BY <2>1, <2>2, <2>3, <2>4, <2>5, <2>6, <2>7
<1> QED BY ZenonT(30), <1>0, <1>1, <1>2, <1>3, OneCall

\* sendMsg's two sends.
LEMMA SendSteps ==
  ASSUME CallsPlaced, AnswerInv, NEW c \in Calls, SendNil(c) \/ SendMessage(c)
  PROVE  AnswerInv'
<1>0. /\ call \in [Calls -> Call]
      /\ got' = got /\ Len(ch[c]) < 1
      /\ ch \in [Calls -> Seq(Msgs)] /\ got \in [Calls -> Seq(Msgs)]
      /\ Stage(call[c].pc, call[c].out, got[c] \o ch[c])
  BY DEF CallsPlaced, AnswerInv, SendNil, SendMessage, hasRoom
<1>1. PICK seen : seen = got[c] \o ch[c]
  BY ZenonT(30)
<1>2. PICK m \in Msgs : /\ ch' = [ch EXCEPT ![c] = Append(ch[c], m)]
                        /\ Stage(call'[c].pc, call'[c].out, Append(seen, m))
  <2>0. Stage(call[c].pc, call[c].out, seen)
    BY <1>0, <1>1
  <2>1. CASE SendNil(c)
    <3>1. /\ call'[c].pc = "message" /\ call'[c].out = call[c].out /\ call[c].pc = "nil"
          /\ ch' = [ch EXCEPT ![c] = Append(ch[c], Nil)]
      BY <1>0, <2>1 DEF SendNil, At, Call
    <3>2. seen = <<>> /\ call[c].out = Empty
      BY <2>0, <3>1 DEF Stage
    <3>3. Append(seen, Nil) = <<Nil>>
      BY <3>2
    <3>4. Stage(call'[c].pc, call'[c].out, Append(seen, Nil))
      BY <3>1, <3>2, <3>3 DEF Stage
    <3> QED BY ZenonT(30), <3>1, <3>4 DEF Msgs
  <2>2. CASE SendMessage(c)
    <3>1. /\ call'[c].pc = "done" /\ call[c].pc = "message"
          /\ ch' = [ch EXCEPT ![c] = Append(ch[c], call[c].out)]
      BY <1>0, <2>2 DEF SendMessage, At, Call
    <3>2. \/ seen = <<>> /\ call[c].out \in Outcomes
          \/ seen = <<Nil>> /\ call[c].out = Empty
      BY <2>0, <3>1 DEF Stage
    <3>3. Append(seen, call[c].out) \in Answers /\ call[c].out \in Msgs
      <4>1. CASE seen = <<>> /\ call[c].out \in Outcomes
        BY <4>1 DEF Answers, Msgs
      <4>2. CASE seen = <<Nil>> /\ call[c].out = Empty
        <5>1. Append(<<Nil>>, Empty) = <<Nil, Empty>>
          BY TwoMessages
        <5> QED BY <4>2, <5>1 DEF Answers, Msgs
      <4> QED BY <3>2, <4>1, <4>2
    <3>4. Stage(call'[c].pc, call'[c].out, Append(seen, call[c].out))
      BY <3>1, <3>3 DEF Stage
    <3> QED BY ZenonT(30), <3>1, <3>3, <3>4
  <2> QED BY <2>1, <2>2
<1>3. \A d \in Calls : d # c => call'[d] = call[d]
  BY <1>0 DEF SendNil, SendMessage
<1>4. ch[c] \in Seq(Msgs) /\ got[c] \in Seq(Msgs) /\ Len(ch[c]) = 0
  BY <1>0
<1>5. /\ Append(ch[c], m) \in Seq(Msgs) /\ Len(Append(ch[c], m)) = 1
      /\ got[c] \o Append(ch[c], m) = Append(seen, m)
  <2>1. /\ Append(ch[c], m) \in Seq(Msgs) /\ Len(Append(ch[c], m)) = Len(ch[c]) + 1
        /\ got[c] \o Append(ch[c], m) = Append(got[c] \o ch[c], m)
    BY Zenon, <1>4, Sends
  <2> QED BY <1>1, <1>4, <2>1
<1>6. /\ ch' \in [Calls -> Seq(Msgs)] /\ ch'[c] = Append(ch[c], m)
      /\ \A d \in Calls : d # c => ch'[d] = ch[d]
  <2>1. PICK longer \in Seq(Msgs) : longer = Append(ch[c], m)
    BY ZenonT(30), <1>5
  <2>2. ch' = [ch EXCEPT ![c] = longer]
    BY <1>2, <2>1
  <2>3. ch' \in [Calls -> Seq(Msgs)] /\ ch'[c] = longer
        /\ \A d \in Calls : d # c => ch'[d] = ch[d]
    BY Zenon, <1>0, <2>2
  <2> QED BY Zenon, <2>1, <2>3
<1>7. Stage(call'[c].pc, call'[c].out, got'[c] \o ch'[c])
  BY Zenon, <1>0, <1>2, <1>5, <1>6
<1>8. Len(ch'[c]) <= 1
  BY <1>5, <1>6
<1> QED BY Zenon, <1>0, <1>3, <1>6, <1>7, <1>8, OneCall

\* The caller's receive.
LEMMA ReceiveStep ==
  ASSUME AnswerInv, NEW c \in Calls, Receive(c)
  PROVE  AnswerInv'
<1>0. /\ ch \in [Calls -> Seq(Msgs)] /\ got \in [Calls -> Seq(Msgs)]
      /\ ch[c] \in Seq(Msgs) /\ got[c] \in Seq(Msgs) /\ ch[c] # <<>>
      /\ Len(ch[c]) <= 1
      /\ Stage(call[c].pc, call[c].out, got[c] \o ch[c])
      /\ got' = [got EXCEPT ![c] = Append(got[c], Head(ch[c]))]
      /\ ch' = [ch EXCEPT ![c] = Tail(ch[c])]
      /\ call' = call
  BY DEF AnswerInv, Receive
<1>1. /\ Append(got[c], Head(ch[c])) \in Seq(Msgs) /\ Tail(ch[c]) \in Seq(Msgs)
      /\ Len(Tail(ch[c])) = Len(ch[c]) - 1
      /\ Append(got[c], Head(ch[c])) \o Tail(ch[c]) = got[c] \o ch[c]
  BY <1>0, Moves
<1>2. /\ ch' \in [Calls -> Seq(Msgs)] /\ ch'[c] = Tail(ch[c])
      /\ got' \in [Calls -> Seq(Msgs)] /\ got'[c] = Append(got[c], Head(ch[c]))
      /\ \A d \in Calls : d # c => ch'[d] = ch[d] /\ got'[d] = got[d]
  BY <1>0, <1>1
<1>3. Len(ch'[c]) <= 1
  <2>1. Len(Tail(ch[c])) \in Nat /\ Len(ch[c]) \in Nat
    BY <1>0, <1>1
  <2> QED BY <1>0, <1>1, <1>2, <2>1
<1>4. Stage(call'[c].pc, call'[c].out, got'[c] \o ch'[c])
  BY Zenon, <1>0, <1>1, <1>2
<1> QED BY ZenonT(30), <1>0, <1>2, <1>3, <1>4, OneCall

\* Nobody has seen anything before the first call.
LEMMA AnswerInit == Init => AnswerInv
<1> SUFFICES ASSUME Init PROVE AnswerInv
  OBVIOUS
<1>1. /\ ch = [c \in Calls |-> <<>>] /\ got = [c \in Calls |-> <<>>]
      /\ \A c \in Calls : call[c].pc = "none" /\ call[c].out = None
  BY DEF Init
<1>2. <<>> \in Seq(Msgs) /\ Len(<<>>) = 0 /\ <<>> \o <<>> = <<>>
  OBVIOUS
<1>3. \A c \in Calls : ch[c] = <<>> /\ got[c] = <<>>
  BY <1>1
<1>4. \A c \in Calls : Stage(call[c].pc, call[c].out, got[c] \o ch[c])
  BY <1>1, <1>2, <1>3 DEF Stage
<1> QED BY <1>1, <1>2, <1>3, <1>4 DEF AnswerInv

\* What a caller has seen fits the point its call is at, in every reachable
\* state.
THEOREM AnswerInvariant == Spec => []AnswerInv
<1>1. PoolInv /\ AnswerInv /\ [Next]_vars => AnswerInv'
  <2> SUFFICES ASSUME PoolInv, AnswerInv, [Next]_vars PROVE AnswerInv'
    OBVIOUS
  <2>0. CallsPlaced
    BY DEF PoolInv
  <2>1. ASSUME NEW c \in Calls, NEW p \in Peers, SendTo(c, p) PROVE AnswerInv'
    <3>1. UNCHANGED <<ch, got>>
      BY <2>1 DEF SendTo
    <3> QED BY <2>0, <2>1, <3>1, SilentSteps
  <2>2. ASSUME NEW c \in Calls, Submit(c) \/ sendMsg(c) \/ Receive(c) PROVE AnswerInv'
    <3>1. CASE Receive(c)
      BY <3>1, ReceiveStep
    <3>2. CASE SendNil(c) \/ SendMessage(c)
      BY <2>0, <3>2, SendSteps
    <3>3. CASE \/ Submit(c) \/ getConnection(c) \/ dial(c)
               \/ \E out \in Outcomes : Messenger(c, out)
               \/ SendReturns(c) \/ SendFails(c)
      <4>1. UNCHANGED <<ch, got>>
        BY <3>3 DEF Submit, getConnection, dial, Messenger, SendReturns, SendFails
      <4> QED BY SMTT(30), <2>0, <3>3, <4>1, SilentSteps
    <3> QED BY <2>2, <3>1, <3>2, <3>3 DEF sendMsg
  <2>3. ASSUME UNCHANGED <<call, ch, got>> PROVE AnswerInv'
    BY <2>3 DEF AnswerInv
  <2>4. ASSUME NEW p \in Peers, CloseConn(p) \/ PeerCrash(p) PROVE AnswerInv'
    BY <2>3, <2>4 DEF CloseConn, PeerCrash
  <2>5. CASE UNCHANGED vars
    BY <2>3, <2>5 DEF vars
  <2> QED BY <2>1, <2>2, <2>4, <2>5 DEF Next
<1> QED BY <1>1, AnswerInit, PoolInvariant, PTL DEF Spec

\* A caller sees one answer of the handler, or nil and then an empty message:
\* never an answer after a nil, whatever fails and whenever.
THEOREM AnswerCorrect == Spec => []AnswerOrNil
<1>1. PoolInv /\ AnswerInv => AnswerOrNil
  <2> SUFFICES ASSUME PoolInv, AnswerInv, NEW c \in Calls
               PROVE  got[c] \o ch[c] \in
                        {<<>>, <<Nil>>, <<Nil, Empty>>} \union {<<out>> : out \in Outcomes}
    BY ZenonT(30) DEF AnswerOrNil
  <2>1. call[c].pc \in PCs
    BY DEF PoolInv, CallsPlaced, Call
  <2>2. Stage(call[c].pc, call[c].out, got[c] \o ch[c])
    BY DEF AnswerInv
  <2> QED BY ZenonT(30), <2>1, <2>2 DEF Stage, PCs, Answers
<1> QED BY <1>1, AnswerInvariant, PoolInvariant, PTL

\* Type correctness: a channel never holds more than its one place.
THEOREM MessagingTypeCorrect == Spec => []TypeOK
<1>1. PoolInv /\ AnswerInv => TypeOK
  <2> SUFFICES ASSUME PoolInv, AnswerInv PROVE TypeOK
    OBVIOUS
  <2>1. opened \subseteq Conns
    BY DEF PoolInv, PooledToOwn, OpenArePooled
  <2> QED BY <2>1 DEF TypeOK, PoolInv, PooledToOwn, CallsPlaced, Call, PCs, AnswerInv
<1> QED BY <1>1, AnswerInvariant, PoolInvariant, PTL
=============================================================================
