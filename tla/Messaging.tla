------------------------------ MODULE Messaging ------------------------------
(***************************************************************************)
(* Application messages: Client.SendTo (src/client.go), Node.SendMessage   *)
(* and sendMsg on the workers of the dispatcher (src/core/node.go), the    *)
(* connection pool (src/comm/client.go) and the receiver's Messenger       *)
(* (src/core/handlers.go).                                                 *)
(*                                                                         *)
(* Each call of SendTo has a channel of its own.  The dispatcher, a        *)
(* library, runs a submitted function on one of its workers when one is    *)
(* free.  A connection is its receiver and a number; an RPC on a closed    *)
(* connection, or to a receiver that is down, fails.                       *)
(***************************************************************************)
EXTENDS Integers, FiniteSets, Sequences

CONSTANTS Calls,     \* calls of SendTo
          Peers,     \* receivers
          Workers,   \* max_concurrent_messages
          Readers,   \* calls whose caller receives from the channel
          MaxDials,  \* bound: connections dialled to a receiver, the last of
                     \* which stays open
          None       \* no connection, or no response yet

ASSUME MessagingNumbers == Workers \in Nat \ {0} /\ MaxDials \in Nat \ {0}
ASSUME SomeRead == Readers \subseteq Calls
ASSUME NoneIsNone == None \notin Peers \X Nat

VARIABLES call,            \* per call: where it is, receiver, connection, outcome
          ch,              \* per call: the channel's buffer
          got,             \* per call: what the caller has received
          allConnections,  \* per receiver: the pooled connection or None
          opened,          \* connections dialled and not closed
          dialled,         \* per receiver: how many were
          down             \* receivers that crashed

vars == <<call, ch, got, allConnections, opened, dialled, down>>
connVars == <<allConnections, opened, dialled, down>>

Nil == "nil"       \* a nil *Message
Empty == "empty"   \* &Message{}: no data and no error
Outcomes == {"data", "error"}  \* what the receiver's handler may return
Conns == Peers \X (1..MaxDials)

At(c, pc) == call[c].pc = pc

\* The channel of SendTo and SendToId: make(chan *core.Message, 1).
hasRoom(c) == Len(ch[c]) < 1

\* Calls that hold a worker.
busy == {c \in Calls : call[c].pc \in {"connect", "dial", "rpc", "nil", "message"}}

Init ==
  /\ call = [c \in Calls |-> [pc |-> "none", dest |-> None, conn |-> None, out |-> None]]
  /\ ch = [c \in Calls |-> <<>>]
  /\ got = [c \in Calls |-> <<>>]
  /\ allConnections = [p \in Peers |-> None]
  /\ opened = {}
  /\ dialled = [p \in Peers |-> 0]
  /\ down = {}

-----------------------------------------------------------------------------
\* SendTo, and SendToId of a known id: the channel is returned at once and a
\* goroutine of its own calls SendMessage.
SendTo(c, p) ==
  /\ At(c, "none")
  /\ call' = [call EXCEPT ![c].pc = "submit", ![c].dest = p]
  /\ UNCHANGED <<ch, got, connVars>>

\* dispatcher.Submit: waits for a worker.
Submit(c) ==
  /\ At(c, "submit")
  /\ Cardinality(busy) < Workers
  /\ call' = [call EXCEPT ![c].pc = "connect"]
  /\ UNCHANGED <<ch, got, connVars>>

\* connection: under the read lock, getConnection ...
getConnection(c) ==
  LET conn == allConnections[call[c].dest]
  IN  /\ At(c, "connect")
      /\ call' = [call EXCEPT ![c].pc = IF conn = None THEN "dial" ELSE "rpc",
                              ![c].conn = conn]
      /\ UNCHANGED <<ch, got, connVars>>

\* Mutant of pooled: dial does not look for a connection again.
pooledNever(p) == FALSE

pooled(p) == allConnections[p] # None

\* ... and, if there is none, dial under the write lock.
dial(c) ==
  LET p == call[c].dest
      conn == IF pooled(p) THEN allConnections[p] ELSE <<p, dialled[p] + 1>>
  IN  /\ At(c, "dial")
      /\ conn \in Conns
      /\ allConnections' = [allConnections EXCEPT ![p] = conn]
      /\ opened' = opened \union {conn}
      /\ dialled' = [dialled EXCEPT ![p] = conn[2]]
      /\ call' = [call EXCEPT ![c].pc = "rpc", ![c].conn = conn]
      /\ UNCHANGED <<ch, got, down>>

reachable(c) == call[c].conn \in opened /\ call[c].dest \notin down

\* Messenger at the receiver: the handler's content or its error.
Messenger(c, out) ==
  /\ At(c, "rpc") /\ call[c].out = None
  /\ reachable(c)
  /\ call' = [call EXCEPT ![c].out = out]
  /\ UNCHANGED <<ch, got, connVars>>

\* comm.Send returns the response ...
SendReturns(c) ==
  /\ At(c, "rpc") /\ call[c].out # None
  /\ reachable(c)
  /\ call' = [call EXCEPT ![c].pc = "message"]
  /\ UNCHANGED <<ch, got, connVars>>

\* Mutant of failedOut: what the handler answered is delivered after the nil.
failedOutKept(c) == call[c].out

\* reply is nil, and its getters return zero values.
failedOut(c) == Empty

\* Mutant of afterError: sendMsg returns without a response.
afterErrorDone == "done"

afterError == "nil"

\* ... or an error, even after the receiver handled the message.
SendFails(c) ==
  /\ At(c, "rpc")
  /\ ~reachable(c)
  /\ call' = [call EXCEPT ![c].pc = afterError, ![c].out = failedOut(c)]
  /\ UNCHANGED <<ch, got, connVars>>

\* sendMsg: on an error ch <- nil, and then, for there is no return ...
SendNil(c) ==
  /\ At(c, "nil")
  /\ hasRoom(c)
  /\ ch' = [ch EXCEPT ![c] = Append(@, Nil)]
  /\ call' = [call EXCEPT ![c].pc = "message"]
  /\ UNCHANGED <<got, connVars>>

\* ... ch <- &Message{...}; the worker is free again.
SendMessage(c) ==
  /\ At(c, "message")
  /\ hasRoom(c)
  /\ ch' = [ch EXCEPT ![c] = Append(@, call[c].out)]
  /\ call' = [call EXCEPT ![c].pc = "done"]
  /\ UNCHANGED <<got, connVars>>

\* The caller's <-ch.
Receive(c) ==
  /\ c \in Readers
  /\ ch[c] # <<>>
  /\ got' = [got EXCEPT ![c] = Append(@, Head(ch[c]))]
  /\ ch' = [ch EXCEPT ![c] = Tail(@)]
  /\ UNCHANGED <<call, connVars>>

\* CloseConn, called by AddLive and RemoveLive when the receiver stops being a
\* neighbour, whoever uses the connection.
CloseConn(p) ==
  /\ allConnections[p] # None
  /\ dialled[p] < MaxDials
  /\ opened' = opened \ {allConnections[p]}
  /\ allConnections' = [allConnections EXCEPT ![p] = None]
  /\ UNCHANGED <<call, ch, got, dialled, down>>

\* A receiver dies.
PeerCrash(p) ==
  /\ p \notin down
  /\ down' = down \union {p}
  /\ UNCHANGED <<call, ch, got, allConnections, opened, dialled>>

sendMsg(c) ==
  \/ getConnection(c) \/ dial(c)
  \/ \E out \in Outcomes : Messenger(c, out)
  \/ SendReturns(c) \/ SendFails(c) \/ SendNil(c) \/ SendMessage(c)

Next ==
  \/ \E c \in Calls : \E p \in Peers : SendTo(c, p)
  \/ \E c \in Calls : Submit(c) \/ sendMsg(c) \/ Receive(c)
  \/ \E p \in Peers : CloseConn(p) \/ PeerCrash(p)

Spec == Init /\ [][Next]_vars

\* Goroutines are scheduled, a handler and an RPC come to an end, a call that
\* can always be submitted or is submitted again and again gets a worker, and
\* callers that read do read.
Fairness ==
  \A c \in Calls : SF_vars(Submit(c)) /\ WF_vars(sendMsg(c)) /\ WF_vars(Receive(c))

FairSpec == Spec /\ Fairness

-----------------------------------------------------------------------------
\* Type correctness of the calls, the channels and the connection pool.
TypeOK ==
  /\ \A c \in Calls :
       /\ call[c].pc \in {"none", "submit", "connect", "dial", "rpc", "nil", "message", "done"}
       /\ call[c].dest \in Peers \union {None}
       /\ call[c].conn \in Conns \union {None}
       /\ call[c].out \in Outcomes \union {Empty, None}
       /\ Len(ch[c]) <= 1
  /\ allConnections \in [Peers -> Conns \union {None}]
  /\ opened \subseteq Conns
  /\ dialled \in [Peers -> 0..MaxDials]
  /\ down \subseteq Peers

\* dial and CloseConn: however calls and neighbour changes interleave, the open
\* connections are exactly the pooled ones, so none is leaked and no closed one
\* is handed out.
OpenArePooled == opened = {allConnections[p] : p \in Peers} \ {None}

\* sendMsg: what a caller sees is a whole answer of its receiver's handler, or
\* nil and then nothing but an empty message; never a handler's answer after
\* a nil, and never a message it did not wait for.
AnswerOrNil ==
  \A c \in Calls : got[c] \o ch[c] \in
    {<<>>, <<Nil>>, <<Nil, Empty>>} \union {<<out>> : out \in Outcomes}

\* README: "The response will eventually be propagated through the returned
\* channel."  Every call of SendTo whose caller receives from the channel gets
\* a response, though calls outnumber workers, connections close and receivers
\* crash.
Answered == \A c \in Readers : At(c, "submit") ~> got[c] # <<>>
=============================================================================
