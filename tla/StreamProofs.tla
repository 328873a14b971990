---------------------------- MODULE StreamProofs ----------------------------
(***************************************************************************)
(* Streams, for any number of messages and replies and any breaks: order   *)
(* is kept, a handler whose input is closed has all of it, and nobody      *)
(* sends on a closed channel.                                              *)
(***************************************************************************)
EXTENDS Stream, TLAPS

held(g) == IF g.pc = "put" THEN 1 ELSE 0

\* EOF is under way.
ends == up # <<>> /\ up[Len(up)] = EOF

\* Messages that have left the stream at the server.
taken == Len(handlerGot) + held(server)

\* The messages between the client's application and the handler, in their
\* places from end to end, are the first ones in order; on an open stream they
\* are all that were sent.
UpInv ==
  /\ FirstOnes(handlerGot)
  /\ server.pc = "put" => server.msg = Len(handlerGot) + 1
  /\ \A i \in 1..Len(up) : IF up[i] = EOF THEN i = Len(up) ELSE up[i] = taken + i
  /\ sender.pc = "put" => sender.msg = sent
  /\ ends => inputClosed /\ sender = Done
  /\ wire = "open" => sent = taken + Len(up) + held(sender) - (IF ends THEN 1 ELSE 0)

\* The same of the replies.
received == Len(clientGot) + held(receiver)

DownInv ==
  /\ FirstOnes(clientGot)
  /\ receiver.pc = "put" => receiver.msg = Len(clientGot) + 1
  /\ \A i \in 1..Len(down) : down[i] = received + i
  /\ replyStream.pc = "put" => replyStream.msg = replied
  /\ wire = "open" => replied = received + Len(down) + held(replyStream)

\* Only Stream, by returning, ends the gRPC stream, and the client's two
\* goroutines start together, as do Stream and the handler.
OnceInv == /\ wire = "ended" => server = Done
           /\ sender = Start => receiver = Start
           /\ server = Start => handler = "none"

Inv == TypeOK /\ UpInv /\ DownInv /\ OnceInv /\ InputComplete /\ NoSendOnClosed

-----------------------------------------------------------------------------
USE DEF Start, Idle, Done, Holding, EOF

\* Appending the next number.
LEMMA NextOne ==
  ASSUME NEW S, NEW s \in Seq(S), FirstOnes(s), NEW m \in S, m = Len(s) + 1
  PROVE  Append(s, m) \in Seq(S) /\ Len(Append(s, m)) = Len(s) + 1 /\ FirstOnes(Append(s, m))
BY DEF FirstOnes

\* What is left after a receive.
LEMMA TailFacts ==
  ASSUME NEW S, NEW s \in Seq(S), s # <<>>
  PROVE  /\ Head(s) = s[1] /\ Head(s) \in S /\ Tail(s) \in Seq(S)
         /\ Len(s) \in Nat /\ Len(s) > 0 /\ Len(Tail(s)) = Len(s) - 1
         /\ \A i \in 1..(Len(s) - 1) : Tail(s)[i] = s[i + 1]
OBVIOUS

\* What is there after a send.
LEMMA AppendFacts ==
  ASSUME NEW S, NEW s \in Seq(S), NEW m \in S
  PROVE  /\ Append(s, m) \in Seq(S) /\ Append(s, m) # <<>>
         /\ Len(s) \in Nat /\ Len(Append(s, m)) = Len(s) + 1
         /\ \A i \in 1..Len(s) : Append(s, m)[i] = s[i]
         /\ Append(s, m)[Len(s) + 1] = m
OBVIOUS

\* A goroutine that holds a message holds one there is.
LEMMA Holds ==
  ASSUME NEW max \in Nat, NEW g \in Goroutine(max)
  PROVE  /\ g.pc = "put" => g.msg \in 1..max
         /\ held(g) \in {0, 1}
         /\ g.pc # "put" => g \in {Start, Idle, Done}
BY DEF Goroutine, held

\* What the type invariant says of the lengths.
LEMMA Facts ==
  ASSUME TypeOK
  PROVE  /\ MaxMsgs \in Nat /\ MaxReplies \in Nat /\ sent \in Nat /\ replied \in Nat
         /\ Len(up) \in Nat /\ Len(down) \in Nat
         /\ Len(handlerGot) \in Nat /\ Len(clientGot) \in Nat
         /\ held(sender) \in {0, 1} /\ held(server) \in {0, 1}
         /\ held(receiver) \in {0, 1} /\ held(replyStream) \in {0, 1}
         /\ taken \in Nat /\ received \in Nat
BY StreamBounds DEF TypeOK, taken, received, held

\* A step that moves no message upwards.
LEMMA UpFrame ==
  ASSUME UpInv, UNCHANGED <<handlerGot, server, up, sender, inputClosed, sent>>,
         wire' = "open" => wire = "open"
  PROVE  UpInv'
BY ZenonT(30) DEF UpInv, taken, ends, held, FirstOnes

\* A step that moves no reply.
LEMMA DownFrame ==
  ASSUME DownInv, UNCHANGED <<clientGot, receiver, down, replyStream, replied>>,
         wire' = "open" => wire = "open"
  PROVE  DownInv'
BY ZenonT(30) DEF DownInv, received, held, FirstOnes

\* Opening a stream moves nothing.
LEMMA AfterOpen ==
  ASSUME Inv, Open
  PROVE  Inv'
<1> USE DEF Open, clientVars, serverVars
<1>0. TypeOK /\ UpInv /\ DownInv /\ OnceInv /\ InputComplete /\ NoSendOnClosed
  BY DEF Inv
<1>1. TypeOK'
  BY <1>0 DEF TypeOK, Goroutine
<1>2. UpInv'
  <2>1. sender.pc = "start" /\ sender'.pc # "put" /\ sender # Done
    OBVIOUS
  <2>2. held(sender) = 0 /\ held(sender)' = 0 /\ ~ends
    BY <1>0, <2>1 DEF held, UpInv
  <2>3. taken' = taken /\ ends' = ends /\ (wire' = "open" => wire = "open")
    BY DEF taken, ends, held
  <2> QED BY <1>0, <2>1, <2>2, <2>3 DEF UpInv, FirstOnes
<1>3. DownInv'
  <2>1. receiver = Start /\ receiver'.pc # "put"
    BY <1>0 DEF OnceInv
  <2>2. received' = received /\ (wire' = "open" => wire = "open")
    BY <2>1 DEF received, held
  <2> QED BY <1>0, <2>1, <2>2 DEF DownInv, FirstOnes, held
<1>4. OnceInv'
  BY <1>0 DEF OnceInv, TypeOK
<1>5. InputComplete'
  BY <1>0 DEF InputComplete, OnceInv, TypeOK
<1>6. NoSendOnClosed'
  BY <1>0 DEF NoSendOnClosed, OnceInv, TypeOK
<1> QED BY <1>1, <1>2, <1>3, <1>4, <1>5, <1>6 DEF Inv

\* The sender takes the next message from the application.
LEMMA AfterInput ==
  ASSUME Inv, Input
  PROVE  Inv'
<1> USE DEF Input, clientVars, serverVars
<1>0. TypeOK /\ UpInv /\ DownInv /\ OnceInv /\ InputComplete /\ NoSendOnClosed
  BY DEF Inv
<1>1. TypeOK'
  BY <1>0, StreamBounds DEF TypeOK, Goroutine
<1>2. UpInv'
  <2>1. held(sender) = 0 /\ held(sender)' = 1 /\ sender'.msg = sent + 1 /\ sender # Done
    BY DEF held
  <2>2. taken' = taken /\ ends' = ends /\ ~ends
    BY <1>0, <2>1 DEF taken, ends, held, UpInv
  <2> QED BY SMTT(30), <1>0, <2>1, <2>2, Facts DEF UpInv, FirstOnes
<1>3. DownInv'
  BY <1>0, DownFrame
<1>4. OnceInv'
  BY <1>0 DEF OnceInv, TypeOK
<1>5. InputComplete'
  BY <1>0 DEF InputComplete, OnceInv, TypeOK
<1>6. NoSendOnClosed'
  BY <1>0 DEF NoSendOnClosed, OnceInv, TypeOK
<1> QED BY <1>1, <1>2, <1>3, <1>4, <1>5, <1>6 DEF Inv

\* The application closes its input: nothing more is sent.
LEMMA AfterCloseInput ==
  ASSUME Inv, CloseInput
  PROVE  Inv'
<1> USE DEF CloseInput, clientVars, serverVars
<1>0. TypeOK /\ UpInv /\ DownInv /\ OnceInv /\ InputComplete /\ NoSendOnClosed
  BY DEF Inv
<1>1. TypeOK'
  BY <1>0 DEF TypeOK, Goroutine
<1>2. UpInv'
  BY ZenonT(30), <1>0, Facts DEF UpInv, TypeOK, taken, ends, held
<1>3. DownInv'
  BY <1>0, DownFrame
<1>4. OnceInv'
  BY <1>0 DEF OnceInv, TypeOK
<1>5. InputComplete'
  BY <1>0 DEF InputComplete, OnceInv, TypeOK
<1>6. NoSendOnClosed'
  BY <1>0 DEF NoSendOnClosed, OnceInv, TypeOK
<1> QED BY <1>1, <1>2, <1>3, <1>4, <1>5, <1>6 DEF Inv

\* The message the sender holds goes to the end of the stream.
LEMMA AfterClientSend ==
  ASSUME Inv, ClientSend
  PROVE  Inv'
<1> USE DEF ClientSend, puts, clientVars, serverVars
<1>0. TypeOK /\ UpInv /\ DownInv /\ OnceInv /\ InputComplete /\ NoSendOnClosed
  BY DEF Inv
<1>1. TypeOK'
  <2>1. sender.msg \in 0..MaxMsgs
    BY <1>0, StreamBounds, Holds DEF TypeOK
  <2>2. CASE wire = "open"
    <3>1. Append(up, sender.msg) \in Seq(0..MaxMsgs)
      BY <1>0, <2>1, AppendFacts DEF TypeOK
    <3> QED BY <1>0, <2>2, <3>1 DEF TypeOK, Goroutine
  <2>3. CASE wire # "open"
    BY <1>0, <2>3 DEF TypeOK, Goroutine
  <2> QED BY <2>2, <2>3
<1>2. UpInv'
  <2>1. sender.msg \in 1..MaxMsgs /\ up \in Seq(0..MaxMsgs)
    BY <1>0, StreamBounds, Holds DEF TypeOK
  <2>2. sender.msg = sent /\ held(sender) = 1 /\ held(sender)' = 0
        /\ ~ends /\ sender' # Done /\ sender'.pc # "put"
    BY <1>0 DEF UpInv, held
  <2>3. taken' = taken /\ taken \in Nat /\ sent \in Nat /\ Len(up) \in Nat
    BY <1>0, Facts DEF taken, held
  <2>4. CASE wire = "open"
    <3>1. up' = Append(up, sender.msg)
      BY <2>4
    <3>2. /\ up' # <<>> /\ Len(up') = Len(up) + 1
          /\ \A i \in 1..Len(up) : up'[i] = up[i]
          /\ up'[Len(up')] = sender.msg
      BY <2>1, <3>1, AppendFacts
    <3>3. ~ends'
      BY <2>1, <2>2, <3>2 DEF ends
    <3>4. \A i \in 1..Len(up) : up[i] = taken + i
      BY <1>0, <2>2, <2>3 DEF UpInv, ends
    <3>5. sent = taken + Len(up) + 1
      BY <1>0, <2>2, <2>3, <2>4 DEF UpInv
    <3>6. \A i \in 1..Len(up') : up'[i] = taken + i
      <4>1. \A i \in 1..Len(up') : i \in 1..Len(up) \/ i = Len(up')
        BY <2>3, <3>2
      <4>2. up'[Len(up')] = taken + Len(up')
        BY <2>2, <2>3, <3>2, <3>5
      <4> QED BY <3>2, <3>4, <4>1, <4>2
    <3>7. sent = taken + Len(up') + 0 - 0 /\ \A i \in 1..Len(up') : up'[i] # EOF
      BY <2>3, <3>2, <3>5, <3>6
    <3> QED BY SMTT(30), <1>0, <2>2, <2>3, <3>3, <3>6, <3>7 DEF UpInv, FirstOnes
  <2>5. CASE wire # "open"
    <3>1. up' = up /\ ends' = ends
      BY <2>5 DEF ends
    <3> QED BY <1>0, <2>2, <2>3, <2>5, <3>1 DEF UpInv, FirstOnes
  <2> QED BY <2>4, <2>5
<1>3. DownInv'
  BY <1>0, DownFrame
<1>4. OnceInv'
  BY <1>0 DEF OnceInv, TypeOK
<1>5. InputComplete'
  BY <1>0 DEF InputComplete, OnceInv, TypeOK
<1>6. NoSendOnClosed'
  BY <1>0 DEF NoSendOnClosed, OnceInv, TypeOK
<1> QED BY <1>1, <1>2, <1>3, <1>4, <1>5, <1>6 DEF Inv

\* EOF goes to the end of the stream, once and last.
LEMMA AfterCloseSend ==
  ASSUME Inv, CloseSend
  PROVE  Inv'
<1> USE DEF CloseSend, puts, drained, clientVars, serverVars
<1>0. TypeOK /\ UpInv /\ DownInv /\ OnceInv /\ InputComplete /\ NoSendOnClosed
  BY DEF Inv
<1>1. TypeOK'
  <2>1. EOF \in 0..MaxMsgs
    BY <1>0, StreamBounds, Holds DEF TypeOK
  <2>2. CASE wire = "open"
    <3>1. Append(up, EOF) \in Seq(0..MaxMsgs)
      BY <1>0, <2>1, AppendFacts DEF TypeOK
    <3> QED BY <1>0, <2>2, <3>1 DEF TypeOK, Goroutine
  <2>3. CASE wire # "open"
    BY <1>0, <2>3 DEF TypeOK, Goroutine
  <2> QED BY <2>2, <2>3
<1>2. UpInv'
  <2>1. EOF \in 0..MaxMsgs /\ up \in Seq(0..MaxMsgs)
    BY <1>0, StreamBounds, Holds DEF TypeOK
  <2>2. inputClosed /\ held(sender) = 0 /\ held(sender)' = 0
        /\ ~ends /\ sender' = Done /\ sender'.pc # "put"
    BY <1>0 DEF UpInv, held
  <2>3. taken' = taken /\ taken \in Nat /\ sent \in Nat /\ Len(up) \in Nat
    BY <1>0, Facts DEF taken, held
  <2>4. CASE wire = "open"
    <3>1. up' = Append(up, EOF)
      BY <2>4
    <3>2. /\ up' # <<>> /\ Len(up') = Len(up) + 1
          /\ \A i \in 1..Len(up) : up'[i] = up[i]
          /\ up'[Len(up')] = EOF
      BY <2>1, <3>1, AppendFacts
    <3>3. ends'
      BY <3>2 DEF ends
    <3>4. \A i \in 1..Len(up) : up[i] = taken + i /\ up[i] # EOF
      BY <1>0, <2>2, <2>3 DEF UpInv, ends
    <3> QED BY SMTT(30), <1>0, <2>2, <2>3, <2>4, <3>2, <3>3, <3>4 DEF UpInv, FirstOnes
  <2>5. CASE wire # "open"
    <3>1. up' = up /\ ends' = ends
      BY <2>5 DEF ends
    <3> QED BY <1>0, <2>2, <2>3, <2>5, <3>1 DEF UpInv, FirstOnes
  <2> QED BY <2>4, <2>5
<1>3. DownInv'
  BY <1>0, DownFrame
<1>4. OnceInv'
  BY <1>0 DEF OnceInv, TypeOK
<1>5. InputComplete'
  BY <1>0 DEF InputComplete, OnceInv, TypeOK
<1>6. NoSendOnClosed'
  BY <1>0 DEF NoSendOnClosed, OnceInv, TypeOK
<1> QED BY <1>1, <1>2, <1>3, <1>4, <1>5, <1>6 DEF Inv

\* A reply leaves the stream.
LEMMA AfterClientRecv ==
  ASSUME Inv, ClientRecv
  PROVE  Inv'
<1> USE DEF ClientRecv, clientVars, serverVars
<1>0. TypeOK /\ UpInv /\ DownInv /\ OnceInv /\ InputComplete /\ NoSendOnClosed
  BY DEF Inv
<1>1. TypeOK'
  <2>1. Head(down) \in 1..MaxReplies /\ Tail(down) \in Seq(1..MaxReplies)
    BY ZenonT(30), <1>0, TailFacts DEF TypeOK
  <2> QED BY <1>0, <2>1 DEF TypeOK, Goroutine
<1>2. UpInv'
  BY <1>0, UpFrame
<1>3. DownInv'
  <2>1. /\ held(receiver) = 0 /\ held(receiver)' = 1 /\ receiver'.msg = down[1] /\ receiver'.pc = "put"
        /\ Len(down) > 0 /\ Len(down') = Len(down) - 1
        /\ \A i \in 1..(Len(down) - 1) : down'[i] = down[i + 1]
    BY <1>0, TailFacts DEF TypeOK, held
  <2>2. received' = received + 1 /\ received = Len(clientGot) /\ received \in Nat /\ Len(down) \in Nat
    BY <1>0, <2>1, Facts DEF received
  <2>3. held(replyStream)' = held(replyStream)
    BY DEF held
  <2> QED BY SMTT(30), <1>0, <2>1, <2>2, <2>3, Facts DEF DownInv, FirstOnes
<1>4. OnceInv'
  BY <1>0 DEF OnceInv, TypeOK
<1>5. InputComplete'
  BY <1>0 DEF InputComplete, OnceInv, TypeOK
<1>6. NoSendOnClosed'
  BY <1>0 DEF NoSendOnClosed, OnceInv, TypeOK
<1> QED BY <1>1, <1>2, <1>3, <1>4, <1>5, <1>6 DEF Inv

\* A reply reaches the application.
LEMMA AfterReply ==
  ASSUME Inv, Reply
  PROVE  Inv'
<1> USE DEF Reply, clientVars, serverVars
<1>0. TypeOK /\ UpInv /\ DownInv /\ OnceInv /\ InputComplete /\ NoSendOnClosed
  BY DEF Inv
<1>1. TypeOK'
  <2>1. receiver.msg \in 1..MaxReplies
    BY <1>0, StreamBounds, Holds DEF TypeOK
  <2> QED BY <1>0, <2>1 DEF TypeOK, Goroutine
<1>2. UpInv'
  BY <1>0, UpFrame
<1>3. DownInv'
  <2>1. held(receiver) = 1 /\ held(receiver)' = 0 /\ receiver.msg = Len(clientGot) + 1
        /\ receiver'.pc # "put" /\ receiver.msg \in 1..MaxReplies
    BY <1>0, StreamBounds, Holds DEF TypeOK, held, DownInv
  <2>2. FirstOnes(clientGot)' /\ Len(clientGot') = Len(clientGot) + 1
    BY ZenonT(30), <1>0, <2>1, NextOne DEF TypeOK, DownInv
  <2>3. received' = received /\ held(replyStream)' = held(replyStream)
    BY <1>0, <2>1, <2>2, Facts DEF received, held
  <2> QED BY <1>0, <2>1, <2>2, <2>3 DEF DownInv
<1>4. OnceInv'
  BY <1>0 DEF OnceInv, TypeOK
<1>5. InputComplete'
  BY <1>0 DEF InputComplete, OnceInv, TypeOK
<1>6. NoSendOnClosed'
  BY <1>0 DEF NoSendOnClosed, OnceInv, TypeOK
<1> QED BY <1>1, <1>2, <1>3, <1>4, <1>5, <1>6 DEF Inv

\* The stream is over: reply is closed and nobody will send on it.
LEMMA AfterCloseReply ==
  ASSUME Inv, CloseReply
  PROVE  Inv'
<1> USE DEF CloseReply, streamOver, clientVars, serverVars
<1>0. TypeOK /\ UpInv /\ DownInv /\ OnceInv /\ InputComplete /\ NoSendOnClosed
  BY DEF Inv
<1>1. TypeOK'
  BY <1>0 DEF TypeOK, Goroutine
<1>2. UpInv'
  BY <1>0, UpFrame
<1>3. DownInv'
  <2>1. held(receiver) = 0 /\ held(receiver)' = 0 /\ receiver'.pc # "put"
    BY DEF held
  <2>2. received' = received /\ held(replyStream)' = held(replyStream)
    BY <2>1 DEF received, held
  <2> QED BY <1>0, <2>1, <2>2 DEF DownInv, FirstOnes
<1>4. OnceInv'
  BY <1>0 DEF OnceInv, TypeOK
<1>5. InputComplete'
  BY <1>0 DEF InputComplete, OnceInv, TypeOK
<1>6. NoSendOnClosed'
  BY <1>0 DEF NoSendOnClosed, OnceInv, TypeOK
<1> QED BY <1>1, <1>2, <1>3, <1>4, <1>5, <1>6 DEF Inv

\* Stream begins.
LEMMA AfterStreamStart ==
  ASSUME Inv, StreamStart
  PROVE  Inv'
<1> USE DEF StreamStart, clientVars, serverVars
<1>0. TypeOK /\ UpInv /\ DownInv /\ OnceInv /\ InputComplete /\ NoSendOnClosed
  BY DEF Inv
<1>1. TypeOK'
  BY <1>0 DEF TypeOK, Goroutine
<1>2. UpInv'
  <2>1. held(server) = 0 /\ held(server)' = 0 /\ server'.pc # "put"
    BY DEF held
  <2>2. taken' = taken /\ ends' = ends /\ held(sender)' = held(sender) /\ (wire' = "open" => wire = "open")
    BY <2>1 DEF taken, ends, held
  <2> QED BY <1>0, <2>1, <2>2 DEF UpInv, FirstOnes
<1>3. DownInv'
  BY <1>0, DownFrame
<1>4. OnceInv'
  BY <1>0 DEF OnceInv, TypeOK
<1>5. InputComplete'
  <2>1. CASE server' = Idle
    BY <2>1 DEF InputComplete
  <2>2. CASE UNCHANGED handler
    BY <1>0, <2>2 DEF InputComplete, OnceInv
  <2> QED BY <2>1, <2>2
<1>6. NoSendOnClosed'
  BY <1>0 DEF NoSendOnClosed, OnceInv, TypeOK
<1> QED BY <1>1, <1>2, <1>3, <1>4, <1>5, <1>6 DEF Inv

\* A message leaves the stream.
LEMMA AfterServerRecv ==
  ASSUME Inv, ServerRecv
  PROVE  Inv'
<1> USE DEF ServerRecv, isMessage, clientVars, serverVars
<1>0. TypeOK /\ UpInv /\ DownInv /\ OnceInv /\ InputComplete /\ NoSendOnClosed
  BY DEF Inv
<1>1. TypeOK'
  <2>1. Head(up) \in 1..MaxMsgs /\ Tail(up) \in Seq(0..MaxMsgs)
    BY SMTT(30), <1>0, StreamBounds, TailFacts DEF TypeOK
  <2> QED BY <1>0, <2>1 DEF TypeOK, Goroutine
<1>2. UpInv'
  <2>1. /\ held(server) = 0 /\ held(server)' = 1 /\ server'.msg = up[1] /\ server'.pc = "put"
        /\ Len(up) > 0 /\ Len(up') = Len(up) - 1 /\ up[1] # EOF
        /\ \A i \in 1..(Len(up) - 1) : up'[i] = up[i + 1]
        /\ up' \in Seq(0..MaxMsgs)
    BY <1>0, TailFacts DEF TypeOK, held
  <2>2. taken' = taken + 1 /\ taken = Len(handlerGot) /\ taken \in Nat /\ Len(up) \in Nat
    BY <1>0, <2>1, Facts DEF taken
  <2>0. \A i \in 1..Len(up) : IF up[i] = EOF THEN i = Len(up) ELSE up[i] = taken + i
    BY SMTT(30), <1>0 DEF UpInv
  <2>3. held(sender)' = held(sender) /\ up[1] = taken + 1
    <3>1. 1 \in 1..Len(up)
      BY <2>1, <2>2
    <3> QED BY ZenonT(30), <2>0, <2>1, <3>1 DEF held
  <2>4. ends' <=> ends
    <3>1. CASE Len(up) = 1
      BY <2>1, <3>1 DEF ends
    <3>2. CASE Len(up) > 1
      <4>1. up'[Len(up')] = up[Len(up)]
        BY <2>1, <2>2, <3>2
      <4> QED BY SMTT(30), <2>1, <2>2, <3>2, <4>1 DEF ends
    <3> QED BY <2>1, <2>2, <3>1, <3>2
  <2>5. \A i \in 1..Len(up') : IF up'[i] = EOF THEN i = Len(up') ELSE up'[i] = taken' + i
    <3> SUFFICES ASSUME NEW i \in 1..Len(up')
                 PROVE  IF up'[i] = EOF THEN i = Len(up') ELSE up'[i] = taken' + i
      OBVIOUS
    <3>1. i + 1 \in 1..Len(up) /\ up'[i] = up[i + 1] /\ i \in Nat
      BY <2>1, <2>2
    <3>2. IF up[i + 1] = EOF THEN i + 1 = Len(up) ELSE up[i + 1] = taken + (i + 1)
      BY <2>0, <3>1
    <3>3. up'[i] = EOF => i = Len(up')
      <4>1. up[i + 1] = EOF => i + 1 = Len(up)
        BY <3>2
      <4>2. i + 1 = Len(up) => i = Len(up')
        <5>1. PICK n \in Nat : n = Len(up)
          BY <2>2
        <5>2. Len(up') = n - 1
          BY <2>1, <5>1
        <5>3. i \in Nat
          BY <3>1
        <5> QED BY <5>1, <5>2, <5>3
      <4> QED BY <3>1, <4>1, <4>2
    <3>4. up'[i] # EOF => up'[i] = taken' + i
      BY <2>2, <3>1, <3>2
    <3> QED BY <3>3, <3>4
  <2>6. wire = "open" => sent = taken' + Len(up') + held(sender)' - (IF ends' THEN 1 ELSE 0)
    <3>1. wire = "open" => sent = taken + Len(up) + held(sender) - (IF ends THEN 1 ELSE 0)
      BY <1>0 DEF UpInv
    <3>2. held(sender) \in Nat
      BY SMTT(30), <1>0, Facts
    <3> QED BY <2>1, <2>2, <2>3, <2>4, <3>1, <3>2
  <2> QED BY ZenonT(30), <1>0, <2>1, <2>2, <2>3, <2>4, <2>5, <2>6 DEF UpInv, FirstOnes
<1>3. DownInv'
  BY <1>0, DownFrame
<1>4. OnceInv'
  BY <1>0 DEF OnceInv, TypeOK
<1>5. InputComplete'
  BY <1>0 DEF InputComplete, OnceInv, TypeOK
<1>6. NoSendOnClosed'
  BY <1>0 DEF NoSendOnClosed, OnceInv, TypeOK
<1> QED BY <1>1, <1>2, <1>3, <1>4, <1>5, <1>6 DEF Inv

\* A message reaches the handler.
LEMMA AfterHandlerRead ==
  ASSUME Inv, HandlerRead
  PROVE  Inv'
<1> USE DEF HandlerRead, clientVars, serverVars
<1>0. TypeOK /\ UpInv /\ DownInv /\ OnceInv /\ InputComplete /\ NoSendOnClosed
  BY SMTT(30) DEF Inv
<1>1. TypeOK'
  <2>1. server.msg \in 1..MaxMsgs
    BY SMTT(30), <1>0, StreamBounds, Holds DEF TypeOK
  <2> QED BY <1>0, <2>1 DEF TypeOK, Goroutine
<1>2. UpInv'
  <2>1. held(server) = 1 /\ held(server)' = 0 /\ server.msg = Len(handlerGot) + 1
        /\ server'.pc # "put" /\ server.msg \in 1..MaxMsgs
    BY SMTT(30), <1>0, StreamBounds, Holds DEF TypeOK, held, UpInv
  <2>2. FirstOnes(handlerGot)' /\ Len(handlerGot') = Len(handlerGot) + 1
    BY ZenonT(30), <1>0, <2>1, NextOne DEF TypeOK, UpInv
  <2>3. taken' = taken /\ ends' = ends /\ held(sender)' = held(sender)
    BY <1>0, <2>1, <2>2, Facts DEF taken, held, ends
  <2> QED BY SMTT(30), <1>0, <2>1, <2>2, <2>3 DEF UpInv
<1>3. DownInv'
  BY <1>0, DownFrame
<1>4. OnceInv'
  BY <1>0 DEF OnceInv, TypeOK
<1>5. InputComplete'
  BY <1>0 DEF InputComplete, OnceInv, TypeOK
<1>6. NoSendOnClosed'
  BY <1>0 DEF NoSendOnClosed, OnceInv, TypeOK
<1> QED BY <1>1, <1>2, <1>3, <1>4, <1>5, <1>6 DEF Inv

\* Stream returns: at EOF the handler has everything.
LEMMA AfterStreamReturn ==
  ASSUME Inv, StreamReturn
  PROVE  Inv'
<1> USE DEF StreamReturn, mayReturn, clientVars, serverVars
<1>0. TypeOK /\ UpInv /\ DownInv /\ OnceInv /\ InputComplete /\ NoSendOnClosed
  BY DEF Inv
<1>1. TypeOK'
  BY <1>0 DEF TypeOK, Goroutine
<1>2. UpInv'
  <2>1. held(server) = 0 /\ held(server)' = 0 /\ server'.pc # "put"
    BY DEF held
  <2>2. taken' = taken /\ ends' = ends /\ held(sender)' = held(sender) /\ (wire' = "open" => wire = "open")
    BY <2>1 DEF taken, ends, held
  <2> QED BY <1>0, <2>1, <2>2 DEF UpInv, FirstOnes
<1>3. DownInv'
  BY <1>0, DownFrame
<1>4. OnceInv'
  BY <1>0 DEF OnceInv, TypeOK
<1>5. InputComplete'
  <2>1. CASE wire = "broken"
    BY <2>1 DEF InputComplete
  <2>2. CASE wire # "broken"
    <3>1. wire = "open" /\ server = Idle /\ up # <<>> /\ Head(up) = EOF
      BY <1>0, <2>2 DEF OnceInv, TypeOK
    <3>2. up[1] = EOF /\ Len(up) \in Nat /\ Len(up) > 0
      BY <1>0, <3>1, TailFacts DEF TypeOK
    <3>3. Len(up) = 1
      <4>1. 1 \in 1..Len(up)
        BY <3>2
      <4> QED BY ZenonT(30), <1>0, <3>2, <4>1 DEF UpInv
    <3>4. ends /\ inputClosed /\ sender = Done
      BY <1>0, <3>1, <3>2, <3>3 DEF UpInv, ends
    <3>5. held(sender) = 0 /\ held(server) = 0
      BY <3>1, <3>4 DEF held
    <3>6. sent = Len(handlerGot)
      BY <1>0, <3>1, <3>3, <3>4, <3>5, Facts DEF UpInv, taken
    <3> QED BY <3>4, <3>6 DEF InputComplete
  <2> QED BY <2>1, <2>2
<1>6. NoSendOnClosed'
  BY <1>0 DEF NoSendOnClosed, OnceInv, TypeOK
<1> QED BY <1>1, <1>2, <1>3, <1>4, <1>5, <1>6 DEF Inv

\* The handler's next reply is taken by replyStream.
LEMMA AfterHandlerReply ==
  ASSUME Inv, HandlerReply
  PROVE  Inv'
<1> USE DEF HandlerReply, clientVars, serverVars
<1>0. TypeOK /\ UpInv /\ DownInv /\ OnceInv /\ InputComplete /\ NoSendOnClosed
  BY SMTT(30) DEF Inv
<1>1. TypeOK'
  BY <1>0, StreamBounds DEF TypeOK, Goroutine
<1>2. UpInv'
  BY SMTT(30), <1>0, UpFrame
<1>3. DownInv'
  <2>1. held(replyStream) = 0 /\ held(replyStream)' = 1 /\ replyStream'.msg = replied + 1
    BY DEF held
  <2>2. received' = received
    BY DEF received, held
  <2> QED BY SMTT(30), <1>0, <2>1, <2>2, Facts DEF DownInv, FirstOnes
<1>4. OnceInv'
  BY SMTT(30), <1>0 DEF OnceInv, TypeOK
<1>5. InputComplete'
  BY SMTT(30), <1>0 DEF InputComplete, OnceInv, TypeOK
<1>6. NoSendOnClosed'
  BY <1>0 DEF NoSendOnClosed, OnceInv, TypeOK
<1> QED BY <1>1, <1>2, <1>3, <1>4, <1>5, <1>6 DEF Inv

\* The reply goes to the end of the stream.
LEMMA AfterServerSend ==
  ASSUME Inv, ServerSend
  PROVE  Inv'
<1> USE DEF ServerSend, sentDown, clientVars, serverVars
<1>0. TypeOK /\ UpInv /\ DownInv /\ OnceInv /\ InputComplete /\ NoSendOnClosed
  BY DEF Inv
<1>1. TypeOK'
  <2>1. replyStream.msg \in 1..MaxReplies
    BY SMTT(30), <1>0, StreamBounds, Holds DEF TypeOK
  <2>2. CASE wire = "open"
    <3>1. Append(down, replyStream.msg) \in Seq(1..MaxReplies)
      BY SMTT(30), <1>0, <2>1, AppendFacts DEF TypeOK
    <3> QED BY SMTT(30), <1>0, <2>2, <3>1 DEF TypeOK, Goroutine
  <2>3. CASE wire # "open"
    BY <1>0, <2>3 DEF TypeOK, Goroutine
  <2> QED BY SMTT(30), <2>2, <2>3
<1>2. UpInv'
  BY SMTT(30), <1>0, UpFrame
<1>3. DownInv'
  <2>1. replyStream.msg \in 1..MaxReplies /\ down \in Seq(1..MaxReplies)
    BY <1>0, StreamBounds, Holds DEF TypeOK
  <2>2. replyStream.msg = replied /\ held(replyStream) = 1 /\ held(replyStream)' = 0 /\ replyStream'.pc # "put"
    BY SMTT(30), <1>0 DEF held, DownInv
  <2>3. received' = received /\ received \in Nat /\ Len(down) \in Nat /\ replied \in Nat
    BY SMTT(30), <1>0, Facts DEF received, held
  <2>4. CASE wire = "open"
    <3>1. down' = Append(down, replyStream.msg)
      BY SMTT(30), <2>4
    <3>2. /\ Len(down') = Len(down) + 1
          /\ \A i \in 1..Len(down) : down'[i] = down[i]
          /\ down'[Len(down) + 1] = replyStream.msg
      BY SMTT(30), <2>1, <3>1, AppendFacts
    <3>3. replied = received + Len(down) + 1
      BY SMTT(30), <1>0, <2>2, <2>4 DEF DownInv
    <3>4. \A i \in 1..Len(down') : down'[i] = received + i
      <4>1. \A i \in 1..Len(down') : i \in 1..Len(down) \/ i = Len(down) + 1
        BY SMTT(30), <2>3, <3>2
      <4>2. down'[Len(down) + 1] = received + (Len(down) + 1)
        BY SMTT(30), <2>2, <2>3, <3>2, <3>3
      <4> QED BY SMTT(30), <1>0, <3>2, <4>1, <4>2 DEF DownInv
    <3>5. replied = received + Len(down') + 0
      BY SMTT(30), <2>3, <3>2, <3>3
    <3> QED BY <1>0, <2>2, <2>3, <3>4, <3>5 DEF DownInv, FirstOnes
  <2>5. CASE wire # "open"
    <3>1. down' = down
      BY SMTT(30), <2>5
    <3> QED BY <1>0, <2>2, <2>3, <2>5, <3>1 DEF DownInv, FirstOnes
  <2> QED BY <2>4, <2>5
<1>4. OnceInv'
  BY SMTT(30), <1>0 DEF OnceInv, TypeOK
<1>5. InputComplete'
  BY SMTT(30), <1>0 DEF InputComplete, OnceInv, TypeOK
<1>6. NoSendOnClosed'
  BY <1>0 DEF NoSendOnClosed, OnceInv, TypeOK
<1> QED BY <1>1, <1>2, <1>3, <1>4, <1>5, <1>6 DEF Inv

\* The handler returns.
LEMMA AfterHandlerReturn ==
  ASSUME Inv, HandlerReturn
  PROVE  Inv'
<1> USE DEF HandlerReturn, clientVars, serverVars
<1>0. TypeOK /\ UpInv /\ DownInv /\ OnceInv /\ InputComplete /\ NoSendOnClosed
  BY SMTT(30) DEF Inv
<1>1. TypeOK'
  BY SMTT(30), <1>0 DEF TypeOK, Goroutine
<1>2. UpInv'
  BY SMTT(30), <1>0, UpFrame
<1>3. DownInv'
  BY SMTT(30), <1>0, Facts DEF DownInv, TypeOK, received, held
<1>4. OnceInv'
  BY SMTT(30), <1>0 DEF OnceInv, TypeOK
<1>5. InputComplete'
  BY SMTT(30), <1>0 DEF InputComplete, OnceInv, TypeOK
<1>6. NoSendOnClosed'
  BY <1>0 DEF NoSendOnClosed, OnceInv, TypeOK
<1> QED BY <1>1, <1>2, <1>3, <1>4, <1>5, <1>6 DEF Inv

\* What is under way is lost, and nothing is sent after it.
LEMMA AfterBreak ==
  ASSUME Inv, Break
  PROVE  Inv'
<1> USE DEF Break, clientVars, serverVars
<1>0. TypeOK /\ UpInv /\ DownInv /\ OnceInv /\ InputComplete /\ NoSendOnClosed
  BY SMTT(30) DEF Inv
<1>1. TypeOK'
  BY SMTT(30), <1>0 DEF TypeOK, Goroutine
<1>2. UpInv'
  BY SMTT(30), <1>0, Facts DEF UpInv, TypeOK, taken, ends, held
<1>3. DownInv'
  BY SMTT(30), <1>0, Facts DEF DownInv, TypeOK, received, held
<1>4. OnceInv'
  BY <1>0 DEF OnceInv, TypeOK
<1>5. InputComplete'
  BY <1>0 DEF InputComplete, OnceInv, TypeOK
<1>6. NoSendOnClosed'
  BY <1>0 DEF NoSendOnClosed, OnceInv, TypeOK
<1> QED BY SMTT(30), <1>1, <1>2, <1>3, <1>4, <1>5, <1>6 DEF Inv

-----------------------------------------------------------------------------
\* Nothing is under way before the stream is opened.
LEMMA StreamInit == Init => Inv
<1> SUFFICES ASSUME Init PROVE Inv
  OBVIOUS
<1>1. TypeOK
  <2>1. /\ <<>> \in Seq(0..MaxMsgs) /\ <<>> \in Seq(1..MaxReplies) /\ <<>> \in Seq(1..MaxMsgs)
        /\ 0 \in 0..MaxMsgs /\ 0 \in 0..MaxReplies
    BY StreamBounds
  <2>2. \A max : Start \in Goroutine(max) /\ Idle \in Goroutine(max)
    BY DEF Goroutine
  <2> QED BY ZenonT(30), <2>1, <2>2 DEF Init, TypeOK
<1>2. UpInv
  BY DEF Init, UpInv, taken, ends, held, FirstOnes
<1>3. DownInv
  BY DEF Init, DownInv, received, held, FirstOnes
<1>4. OnceInv /\ InputComplete /\ NoSendOnClosed
  BY DEF Init, OnceInv, InputComplete, NoSendOnClosed
<1> QED BY <1>1, <1>2, <1>3, <1>4 DEF Inv

\* The invariant is kept by every step of both ends and of the connection.
THEOREM StreamInvariant == Spec => []Inv
<1>1. Inv /\ [Next]_vars => Inv'
  <2> SUFFICES ASSUME Inv, [Next]_vars PROVE Inv'
    OBVIOUS
  <2>1. CASE UNCHANGED vars
    <3>1. /\ TypeOK /\ OnceInv /\ InputComplete /\ NoSendOnClosed /\ UpInv /\ DownInv
          /\ UNCHANGED <<wire, clientVars, serverVars, up, down>>
      BY <2>1 DEF Inv, vars
    <3>2. UpInv' /\ DownInv'
      BY SMTT(30), <3>1, UpFrame, DownFrame DEF clientVars, serverVars
    <3>3. TypeOK' /\ OnceInv' /\ InputComplete' /\ NoSendOnClosed'
      BY <3>1 DEF TypeOK, OnceInv, InputComplete, NoSendOnClosed, clientVars, serverVars
    <3> QED BY <3>2, <3>3 DEF Inv
  <2> QED BY <2>1, AfterOpen, AfterInput, AfterCloseInput, AfterClientSend, AfterCloseSend,
             AfterClientRecv, AfterReply, AfterCloseReply, AfterStreamStart, AfterServerRecv,
             AfterHandlerRead, AfterStreamReturn, AfterHandlerReply, AfterServerSend,
             AfterHandlerReturn, AfterBreak
          DEF Next, StreamMessenger, StreamServer
<1> QED BY <1>1, StreamInit, PTL DEF Spec

\* Type correctness: EOF is never handed to the handler as a message.
THEOREM StreamTypeCorrect == Spec => []TypeOK
<1>1. Inv => TypeOK
  BY SMTT(30) DEF Inv
<1> QED BY <1>1, StreamInvariant, PTL

\* Both directions keep their order, whatever breaks and whoever returns early.
THEOREM StreamOrder == Spec => []InOrder
<1>1. Inv => InOrder
  BY DEF Inv, UpInv, DownInv, InOrder
<1> QED BY <1>1, StreamInvariant, PTL

\* A handler whose input Stream has closed has all of it.
THEOREM HandlerHasAll == Spec => []InputComplete
<1>1. Inv => InputComplete
  BY DEF Inv
<1> QED BY <1>1, StreamInvariant, PTL

\* No goroutine is left that could send on a closed reply channel.
THEOREM ClosedIsClosed == Spec => []NoSendOnClosed
<1>1. Inv => NoSendOnClosed
  BY DEF Inv
<1> QED BY <1>1, StreamInvariant, PTL
=============================================================================
