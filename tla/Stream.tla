------------------------------- MODULE Stream -------------------------------
(***************************************************************************)
(* A bi-directional stream: Client.OpenStream and gRPCClient.StreamMessenger*)
(* at the client (src/client.go, src/comm/client.go), Node.Stream and its  *)
(* goroutines at the server (src/core/handlers.go), and the gRPC stream    *)
(* between them.                                                           *)
(*                                                                         *)
(* Messages are numbered in the order the applications hand them over.     *)
(* All channels are unbuffered: a send happens together with its receive.  *)
(* A Recv that returns an error other than io.EOF is tried again at once   *)
(* and changes nothing, so it is no step of its own.                       *)
(***************************************************************************)
EXTENDS Integers, Sequences

CONSTANTS MaxMsgs,     \* bound: messages the client sends
          MaxReplies,  \* bound: replies the handler sends
          MayBreak,    \* the connection may break
          MayQuit      \* the handler may return before its input is closed

ASSUME StreamBounds == /\ MaxMsgs \in Nat /\ MaxReplies \in Nat
                       /\ MayBreak \in BOOLEAN /\ MayQuit \in BOOLEAN

VARIABLES wire,       \* the stream: "open", "ended" by the server, "broken"
          up, down,   \* messages under way; up may end with EOF
          sent, inputClosed,     \* client application: input
          sender,                \* client: the goroutine that ranges over input
          receiver,              \* client: the goroutine that calls Recv
          replyClosed, clientGot,\* client application: reply
          server,                \* server: Stream
          handler, handlerGot,   \* server application
          replied, replyStream   \* server: replies sent, and the goroutine

clientVars == <<sent, inputClosed, sender, receiver, replyClosed, clientGot>>
serverVars == <<server, handler, handlerGot, replied, replyStream>>
vars == <<wire, up, down, clientVars, serverVars>>

EOF == 0
Start == [pc |-> "start", msg |-> 0]
Idle == [pc |-> "recv", msg |-> 0]
Holding(m) == [pc |-> "put", msg |-> m]
Done == [pc |-> "done", msg |-> 0]

Init ==
  /\ wire = "open" /\ up = <<>> /\ down = <<>>
  /\ sent = 0 /\ inputClosed = FALSE
  /\ sender = Start /\ receiver = Start
  /\ replyClosed = FALSE /\ clientGot = <<>>
  /\ server = Start
  /\ handler = "none" /\ handlerGot = <<>>
  /\ replied = 0 /\ replyStream = Idle

-----------------------------------------------------------------------------
\* connection and conn.Stream: the stream is opened and the goroutines start,
\* or StreamMessenger returns the error before it defers close(reply).
Open ==
  /\ sender = Start
  /\ \/ sender' = Idle /\ receiver' = Idle /\ UNCHANGED wire
     \/ MayBreak /\ sender' = Done /\ receiver' = Done /\ wire' = "broken"
  /\ UNCHANGED <<up, down, sent, inputClosed, replyClosed, clientGot, serverVars>>

\* The client application: input <- message, received by the sender ...
Input ==
  /\ ~inputClosed /\ sent < MaxMsgs
  /\ sender = Idle
  /\ sent' = sent + 1
  /\ sender' = Holding(sent + 1)
  /\ UNCHANGED <<wire, up, down, inputClosed, receiver, replyClosed, clientGot, serverVars>>

\* ... and close(input).
CloseInput ==
  /\ ~inputClosed
  /\ inputClosed' = TRUE
  /\ UNCHANGED <<wire, up, down, sent, sender, receiver, replyClosed, clientGot, serverVars>>

\* What the sender puts on the stream; an error is logged and it goes on.
puts(m) == up' = IF wire = "open" THEN Append(up, m) ELSE up

\* srv.Send.
ClientSend ==
  /\ sender.pc = "put"
  /\ puts(sender.msg)
  /\ sender' = Idle
  /\ UNCHANGED <<wire, down, sent, inputClosed, receiver, replyClosed, clientGot, serverVars>>

\* Mutant of drained: CloseSend as soon as the application has closed input.
drainedAtOnce == inputClosed /\ sender.pc # "done"

\* range input ends once it is closed and the last message is sent.
drained == inputClosed /\ sender = Idle

\* srv.CloseSend.
CloseSend ==
  /\ drained
  /\ puts(EOF)
  /\ sender' = Done
  /\ UNCHANGED <<wire, down, sent, inputClosed, receiver, replyClosed, clientGot, serverVars>>

\* srv.Recv at the client: a message ...
ClientRecv ==
  /\ receiver = Idle
  /\ down # <<>>
  /\ receiver' = Holding(Head(down))
  /\ down' = Tail(down)
  /\ UNCHANGED <<wire, up, sent, inputClosed, sender, replyClosed, clientGot, serverVars>>

\* ... which goes to the application, reply <- content ...
Reply ==
  /\ receiver.pc = "put"
  /\ clientGot' = Append(clientGot, receiver.msg)
  /\ receiver' = Idle
  /\ UNCHANGED <<wire, up, down, sent, inputClosed, sender, replyClosed, serverVars>>

\* Mutant of streamOver: the goroutine that waits for ctx.Done() closes done,
\* as a comment there considers.
streamOverCtx == wire # "open"

\* ... or io.EOF: done is closed, StreamMessenger closes reply and returns.
streamOver == wire = "ended" /\ down = <<>> /\ receiver = Idle

CloseReply ==
  /\ ~replyClosed
  /\ streamOver
  /\ replyClosed' = TRUE
  /\ receiver' = IF receiver = Idle THEN Done ELSE receiver
  /\ UNCHANGED <<wire, up, down, sent, inputClosed, sender, clientGot, serverVars>>

-----------------------------------------------------------------------------
\* Stream begins: with no handler registered it returns at once.
StreamStart ==
  /\ server = Start /\ receiver \notin {Start, Done}
  /\ \/ server' = Idle /\ handler' = "running" /\ UNCHANGED wire
     \/ /\ server' = Done /\ UNCHANGED handler
        /\ wire' = IF wire = "open" THEN "ended" ELSE wire
  /\ UNCHANGED <<up, down, clientVars, handlerGot, replied, replyStream>>

isMessage == up # <<>> /\ Head(up) # EOF

\* srv.Recv at the server, of a message.
ServerRecv ==
  /\ server = Idle
  /\ isMessage
  /\ server' = Holding(Head(up))
  /\ up' = Tail(up)
  /\ UNCHANGED <<wire, down, clientVars, handler, handlerGot, replied, replyStream>>

\* input <- content, received by the handler.
HandlerRead ==
  /\ server.pc = "put" /\ handler = "running"
  /\ handlerGot' = Append(handlerGot, server.msg)
  /\ server' = Idle
  /\ UNCHANGED <<wire, up, down, clientVars, handler, replied, replyStream>>

\* Mutant of mayReturn: io.EOF is tried again like any other error.
mayReturnCtx == server = Idle /\ wire = "broken"

\* io.EOF, or ctx.Done() at the top of the loop.
mayReturn == server = Idle /\ (wire = "broken" \/ (up # <<>> /\ Head(up) = EOF))

\* Stream returns; the deferred close(input) lets the handler's range end.
StreamReturn ==
  /\ mayReturn
  /\ server' = Done
  /\ wire' = IF wire = "open" THEN "ended" ELSE wire
  /\ UNCHANGED <<up, down, clientVars, handler, handlerGot, replied, replyStream>>

\* The handler: reply <- message, received by replyStream ...
HandlerReply ==
  /\ handler = "running" /\ replied < MaxReplies
  /\ replyStream = Idle
  /\ replied' = replied + 1
  /\ replyStream' = Holding(replied + 1)
  /\ UNCHANGED <<wire, up, down, clientVars, server, handler, handlerGot>>

\* Mutant of sentDown: a reply overtakes those under way.
sentDownFirst(m) == <<m>> \o down

sentDown(m) == Append(down, m)

\* ... and srv.Send by replyStream: an error, once Stream returned, is logged.
ServerSend ==
  /\ replyStream.pc = "put"
  /\ down' = IF wire = "open" THEN sentDown(replyStream.msg) ELSE down
  /\ replyStream' = Idle
  /\ UNCHANGED <<wire, up, clientVars, server, handler, handlerGot, replied>>

\* ... and close(reply) and return, after its input was closed unless MayQuit.
HandlerReturn ==
  /\ handler = "running" /\ replyStream = Idle
  /\ MayQuit \/ server = Done
  /\ handler' = "returned"
  /\ replyStream' = Done
  /\ UNCHANGED <<wire, up, down, clientVars, server, handlerGot, replied>>

\* The connection is lost, with what is under way.
Break ==
  /\ MayBreak
  /\ wire # "broken" /\ sender # Start
  /\ wire' = "broken"
  /\ up' = <<>> /\ down' = <<>>
  /\ UNCHANGED <<clientVars, serverVars>>

StreamMessenger == Open \/ ClientSend \/ CloseSend \/ ClientRecv \/ CloseReply
StreamServer == StreamStart \/ ServerRecv \/ StreamReturn

Next ==
  \/ Input \/ CloseInput \/ StreamMessenger \/ Reply
  \/ StreamServer \/ HandlerRead \/ HandlerReply \/ ServerSend \/ HandlerReturn
  \/ Break

Spec == Init /\ [][Next]_vars

\* Goroutines are scheduled; the applications receive what is sent to them, as
\* the documentation of OpenStream asks, while their functions run; a handler
\* returns once its input is closed, and need not return before.
Fairness ==
  /\ WF_vars(Open) /\ WF_vars(ClientSend) /\ WF_vars(CloseSend) /\ WF_vars(ClientRecv)
  /\ WF_vars(CloseReply) /\ WF_vars(Reply)
  /\ WF_vars(StreamServer) /\ WF_vars(HandlerRead) /\ WF_vars(ServerSend)
  /\ WF_vars(server = Done /\ HandlerReturn)

FairSpec == Spec /\ Fairness

-----------------------------------------------------------------------------
Goroutine(max) == {Start, Idle, Done} \union {Holding(m) : m \in 1..max}

\* Type correctness of both ends of a stream: what is under way was sent, and
\* nothing but a message is handed to an application.
TypeOK ==
  /\ wire \in {"open", "ended", "broken"}
  /\ sent \in 0..MaxMsgs /\ replied \in 0..MaxReplies
  /\ inputClosed \in BOOLEAN /\ replyClosed \in BOOLEAN
  /\ up \in Seq(0..MaxMsgs) /\ down \in Seq(1..MaxReplies)
  /\ handlerGot \in Seq(1..MaxMsgs) /\ clientGot \in Seq(1..MaxReplies)
  /\ sender \in Goroutine(MaxMsgs) /\ server \in Goroutine(MaxMsgs)
  /\ receiver \in Goroutine(MaxReplies) /\ replyStream \in Goroutine(MaxReplies)
  /\ handler \in {"none", "running", "returned"}

FirstOnes(s) == s = [i \in 1..Len(s) |-> i]

\* The stream keeps order: what the handler got are the first messages of the
\* client, and what the client got the first replies of the handler; neither
\* end misses one and sees a later one, even if the connection breaks.
InOrder == FirstOnes(handlerGot) /\ FirstOnes(clientGot)

\* The deferred close(input) of Stream: a handler whose input is closed has
\* received every message the client sent before closing its own input, unless
\* the connection broke.
InputComplete ==
  handler # "none" /\ server = Done /\ wire # "broken" =>
    inputClosed /\ Len(handlerGot) = sent

\* StreamMessenger closes reply only when the goroutine that calls Recv no
\* longer sends on it: a send on a closed channel panics.
NoSendOnClosed == replyClosed => receiver = Done

\* OpenStream: "To close the stream, close the input channel."  A closed input
\* is followed by a closed reply, and the worker that ran the stream is free;
\* what can keep a stream open is a broken connection, on which Recv is tried
\* for ever, or a handler that returned while Stream hands it a message.
StreamCloses ==
  inputClosed ~> \/ replyClosed
                 \/ wire = "broken"
                 \/ handler = "returned" /\ server.pc = "put"
=============================================================================
