----------------------------- MODULE Lifecycle -----------------------------
(***************************************************************************)
(* The life of one node: Node.Start and Node.Stop (src/core/node.go), the  *)
(* goroutines they start and end (gossipLoop, monitorLoop, View.Start, the *)
(* ping server of src/comm/udp.go, the visualiser of src/core/viz.go), and *)
(* the calls of Stop that meet in isStopping.                              *)
(*                                                                         *)
(* What a gossip or monitor round does is left to View and Gossip: here a  *)
(* round begins and returns.  dispatcher.Start and dispatcher.Stop return  *)
(* and are no steps of their own; Messaging has the workers.               *)
(***************************************************************************)
EXTENDS Integers, FiniteSets

CONSTANTS Callers,       \* goroutines that may call Stop once
          Entries,       \* the addresses of entry_addrs
          Pausers,       \* requests to viz.byzantineHandler
          HandlerStops   \* the response handler may call Stop

ASSUME LifecycleConstants ==
  /\ IsFiniteSet(Entries)
  /\ HandlerStops \in BOOLEAN
  /\ Callers \cap {"start", "handler"} = {}

(***************************************************************************)
(* Who calls Stop: applications, message handlers and the goroutine of     *)
(* viz.shutdownHandler; Start once exitChan is closed; and the response    *)
(* handler, which runs on gossipLoop.                                      *)
(***************************************************************************)
Stoppers == Callers \cup {"start", "handler"}

Channels == {"node", "viz", "view", "udp"}

VARIABLES useViz,    \* the configuration's use_viz
          start,     \* Start: the next statement
          untried,   \* Start: entry addresses still to contact (none with a CA)
          stop,      \* each caller of Stop: the next statement
          closed,    \* the exit channels that are closed
          panicked,  \* a channel closed twice, or a negative WaitGroup
          wg,        \* the WaitGroup's counter
          gossip, monitor, \* the two loops
          view,      \* the goroutine of View.Start
          udp,       \* the goroutine of UDPServer.Start
          conn,      \* the ping server's socket is open
          pauseChan, \* durations buffered in pauseChan, whose capacity is 1
          pauser,    \* the goroutines of periodicallyPause
          http,      \* the visualiser's server: "new", "serving", "closed"
          updater    \* the goroutine of updateState

loopVars == <<wg, gossip, monitor>>
udpVars == <<udp, conn, pauseChan>>
vizVars == <<http, updater, pauser>>
vars == <<useViz, start, untried, stop, closed, panicked, loopVars, view,
          udpVars, vizVars>>

exitFlag == "node" \in closed

Init ==
  /\ useViz \in BOOLEAN
  /\ start = "new" /\ untried \in {Entries, {}}
  /\ stop = [s \in Stoppers |-> "idle"]
  /\ closed = {} /\ panicked = FALSE
  /\ wg = 0 /\ gossip = "none" /\ monitor = "none"
  /\ view = "none"
  /\ udp = "none" /\ conn = TRUE /\ pauseChan = 0
  /\ pauser = [p \in Pausers |-> "none"]
  /\ http = "new" /\ updater = "none"

\* close(c) panics when c is closed already.
close(c) == closed' = closed \cup {c} /\ panicked' = (panicked \/ c \in closed)

\* wg.Done() panics when the counter is zero.
wgDone == wg' = wg - 1 /\ panicked' = (panicked \/ wg = 0)

-----------------------------------------------------------------------------
\* Start, statement by statement.
StartServers ==
  /\ start = "new"
  /\ start' = "loops" /\ udp' = "select" /\ view' = "select"
  /\ UNCHANGED <<useViz, untried, stop, closed, panicked, loopVars, conn, pauseChan,
                 vizVars>>

StartLoops ==
  /\ start = "loops"
  /\ wg' = wg + 2 /\ gossip' = "select" /\ monitor' = "select"
  /\ start' = IF useViz THEN "addToViz" ELSE "contact"
  /\ UNCHANGED <<useViz, untried, stop, closed, panicked, view, udpVars, vizVars>>

\* viz.start: addToViz, go updateState, and Serve, which blocks until the
\* server is closed and returns at once when it is closed already.
VizStart ==
  /\ start = "addToViz"
  /\ updater' = "select"
  /\ http' = IF http = "closed" THEN http ELSE "serving"
  /\ start' = "serve"
  /\ UNCHANGED <<useViz, untried, stop, closed, panicked, loopVars, view, udpVars, pauser>>

ServeReturns ==
  /\ start = "serve" /\ http = "closed"
  /\ start' = "contact"
  /\ UNCHANGED <<useViz, untried, stop, closed, panicked, loopVars, view, udpVars, vizVars>>

\* Mutant: an error ends the contacts instead of being skipped.
ContactBreaks ==
  /\ start = "contact"
  /\ \E a \in untried : untried' = untried \ {a}
  /\ start' \in {"contact", "wait"}
  /\ UNCHANGED <<useViz, stop, closed, panicked, loopVars, view, udpVars, vizVars>>

\* One entry address after the other: an error is logged and skipped, a reply
\* merged.  A node with a CA contacts none of them.
ContactEntry ==
  /\ start = "contact"
  /\ \E a \in untried : untried' = untried \ {a}
  /\ UNCHANGED <<useViz, start, stop, closed, panicked, loopVars, view, udpVars, vizVars>>

ContactEnds ==
  /\ start = "contact" /\ untried = {}
  /\ start' = "wait"
  /\ UNCHANGED <<useViz, untried, stop, closed, panicked, loopVars, view, udpVars, vizVars>>

\* <-exitChan, then Start's own call of Stop.
StartExits ==
  /\ start = "wait" /\ "node" \in closed
  /\ start' = "stopping" /\ stop' = [stop EXCEPT !["start"] = "enter"]
  /\ UNCHANGED <<useViz, untried, closed, panicked, loopVars, view, udpVars, vizVars>>

StartReturns ==
  /\ start = "stopping" /\ stop["start"] \in {"refused", "returned"}
  /\ start' = "returned"
  /\ UNCHANGED <<useViz, untried, stop, closed, panicked, loopVars, view, udpVars, vizVars>>

startStep == StartServers \/ StartLoops \/ VizStart \/ ServeReturns \/ ContactEntry
               \/ ContactEnds \/ StartExits \/ StartReturns

-----------------------------------------------------------------------------
\* A goroutine of an application, of a message handler or of shutdownHandler
\* calls Stop, before, during or after Start.
CallStop(s) ==
  /\ s \in Callers /\ stop[s] = "idle"
  /\ stop' = [stop EXCEPT ![s] = "enter"]
  /\ UNCHANGED <<useViz, start, untried, closed, panicked, loopVars, view, udpVars, vizVars>>

\* Mutant: exitFlag is never looked at.
isStoppingUnguarded(s) ==
  /\ stop[s] = "enter"
  /\ stop' = [stop EXCEPT ![s] = IF useViz THEN "viz" ELSE "view"]
  /\ close("node")
  /\ UNCHANGED <<useViz, start, untried, loopVars, view, udpVars, vizVars>>

\* The first caller closes exitChan and goes on; the others return at once.
isStopping(s) ==
  /\ stop[s] = "enter"
  /\ \/ /\ exitFlag
        /\ stop' = [stop EXCEPT ![s] = "refused"]
        /\ UNCHANGED <<closed, panicked>>
     \/ /\ ~exitFlag
        /\ stop' = [stop EXCEPT ![s] = IF useViz THEN "viz" ELSE "view"]
        /\ close("node")
  /\ UNCHANGED <<useViz, start, untried, loopVars, view, udpVars, vizVars>>

\* viz.stop: remove, httpServer.Close and close(exitChan).
VizStop(s) ==
  /\ stop[s] = "viz"
  /\ http' = "closed" /\ close("viz")
  /\ stop' = [stop EXCEPT ![s] = "view"]
  /\ UNCHANGED <<useViz, start, untried, loopVars, view, udpVars, updater, pauser>>

ViewStop(s) ==
  /\ stop[s] = "view"
  /\ close("view")
  /\ stop' = [stop EXCEPT ![s] = "udp"]
  /\ UNCHANGED <<useViz, start, untried, loopVars, view, udpVars, vizVars>>

\* Mutant: the socket is left open.
UdpStopOpen(s) ==
  /\ stop[s] = "udp"
  /\ close("udp")
  /\ stop' = [stop EXCEPT ![s] = "wait"]
  /\ UNCHANGED <<useViz, start, untried, loopVars, view, udpVars, vizVars>>

\* fd.stop: UDPServer.Stop closes exitChan and the socket.
UdpStop(s) ==
  /\ stop[s] = "udp"
  /\ close("udp") /\ conn' = FALSE
  /\ stop' = [stop EXCEPT ![s] = "wait"]
  /\ UNCHANGED <<useViz, start, untried, loopVars, view, udp, pauseChan, vizVars>>

\* Mutant: Stop returns without waiting for the loops.
WaitSkipped(s) ==
  /\ stop[s] = "wait"
  /\ stop' = [stop EXCEPT ![s] = "returned"]
  /\ UNCHANGED <<useViz, start, untried, closed, panicked, loopVars, view, udpVars, vizVars>>

\* wg.Wait()
Wait(s) ==
  /\ stop[s] = "wait" /\ wg = 0
  /\ stop' = [stop EXCEPT ![s] = "returned"]
  /\ UNCHANGED <<useViz, start, untried, closed, panicked, loopVars, view, udpVars, vizVars>>

stopStep(s) == isStopping(s) \/ VizStop(s) \/ ViewStop(s) \/ UdpStop(s) \/ Wait(s)

-----------------------------------------------------------------------------
(***************************************************************************)
(* The loops.  time.After starts a fresh timer for every select, so the    *)
(* timer's case is chosen only while exitChan is open.                     *)
(***************************************************************************)
GossipTick ==
  /\ gossip = "select" /\ ~exitFlag
  /\ gossip' = "round"
  /\ UNCHANGED <<useViz, start, untried, stop, closed, panicked, wg, monitor, view, udpVars,
                 vizVars>>

\* The response handler is called with a partner's answer, and may call Stop.
GossipHandler ==
  /\ gossip = "round" /\ HandlerStops /\ stop["handler"] = "idle"
  /\ gossip' = "handler" /\ stop' = [stop EXCEPT !["handler"] = "enter"]
  /\ UNCHANGED <<useViz, start, untried, closed, panicked, wg, monitor, view, udpVars,
                 vizVars>>

GossipReturns ==
  /\ \/ gossip = "round"
     \/ gossip = "handler" /\ stop["handler"] \in {"refused", "returned"}
  /\ gossip' = "select"
  /\ UNCHANGED <<useViz, start, untried, stop, closed, panicked, wg, monitor, view, udpVars,
                 vizVars>>

\* Mutant: the loop ends without its deferred wg.Done().
GossipExitNoDone ==
  /\ gossip = "select" /\ exitFlag
  /\ gossip' = "done"
  /\ UNCHANGED <<useViz, start, untried, stop, closed, panicked, wg, monitor, view, udpVars,
                 vizVars>>

GossipExit ==
  /\ gossip = "select" /\ exitFlag
  /\ gossip' = "done" /\ wgDone
  /\ UNCHANGED <<useViz, start, untried, stop, closed, monitor, view, udpVars, vizVars>>

MonitorTick ==
  /\ monitor = "select" /\ ~exitFlag
  /\ monitor' = "round"
  /\ UNCHANGED <<useViz, start, untried, stop, closed, panicked, wg, gossip, view, udpVars,
                 vizVars>>

MonitorReturns ==
  /\ monitor = "round"
  /\ monitor' = "select"
  /\ UNCHANGED <<useViz, start, untried, stop, closed, panicked, wg, gossip, view, udpVars,
                 vizVars>>

MonitorExit ==
  /\ monitor = "select" /\ exitFlag
  /\ monitor' = "done" /\ wgDone
  /\ UNCHANGED <<useViz, start, untried, stop, closed, gossip, view, udpVars, vizVars>>

\* View.Start: checkTimeouts at every tick, until its exitChan is closed.
ViewExit ==
  /\ view = "select" /\ "view" \in closed
  /\ view' = "done"
  /\ UNCHANGED <<useViz, start, untried, stop, closed, panicked, loopVars, udpVars, vizVars>>

\* updateState ends when the visualiser's exitChan is closed.
UpdaterExit ==
  /\ updater = "select" /\ "viz" \in closed
  /\ updater' = "done"
  /\ UNCHANGED <<useViz, start, untried, stop, closed, panicked, loopVars, view, udpVars,
                 http, pauser>>

-----------------------------------------------------------------------------
(***************************************************************************)
(* The ping server.  select prefers a ready channel to default, and when   *)
(* both are ready takes either.                                            *)
(***************************************************************************)
UdpSleep ==
  /\ udp = "select" /\ pauseChan > 0
  /\ udp' = "sleep" /\ pauseChan' = pauseChan - 1
  /\ UNCHANGED <<useViz, start, untried, stop, closed, panicked, loopVars, view, conn, vizVars>>

UdpDone ==
  /\ udp = "select" /\ "udp" \in closed
  /\ udp' = "done"
  /\ UNCHANGED <<useViz, start, untried, stop, closed, panicked, loopVars, view, conn,
                 pauseChan, vizVars>>

UdpRead ==
  /\ udp = "select" /\ pauseChan = 0 /\ "udp" \notin closed
  /\ udp' = "read"
  /\ UNCHANGED <<useViz, start, untried, stop, closed, panicked, loopVars, view, conn,
                 pauseChan, vizVars>>

\* ReadFrom fails once the socket is closed; a pause ends.
UdpAgain ==
  /\ \/ udp = "read" /\ ~conn
     \/ udp = "sleep"
  /\ udp' = "select"
  /\ UNCHANGED <<useViz, start, untried, stop, closed, panicked, loopVars, view, conn,
                 pauseChan, vizVars>>

udpStep == UdpSleep \/ UdpDone \/ UdpRead \/ UdpAgain

\* A ping arrives and is answered.
Ping ==
  /\ udp = "read" /\ conn
  /\ udp' = "select"
  /\ UNCHANGED <<useViz, start, untried, stop, closed, panicked, loopVars, view, conn,
                 pauseChan, vizVars>>

\* byzantineHandler: go v.periodicallyPause(...)
byzantineHandler(p) ==
  /\ http = "serving" /\ pauser[p] = "none"
  /\ pauser' = [pauser EXCEPT ![p] = "select"]
  /\ UNCHANGED <<useViz, start, untried, stop, closed, panicked, loopVars, view, udpVars,
                 http, updater>>

\* The pauser's select: exitChan, or default, where it calls Pause.
PauserSelect(p) ==
  /\ pauser[p] = "select"
  /\ pauser' = [pauser EXCEPT ![p] = IF "viz" \in closed THEN "done" ELSE "pause"]
  /\ UNCHANGED <<useViz, start, untried, stop, closed, panicked, loopVars, view, udpVars,
                 http, updater>>

\* Pause blocks while the buffer of pauseChan is full.
Pause(p) ==
  /\ pauser[p] = "pause" /\ pauseChan < 1
  /\ pauseChan' = pauseChan + 1 /\ pauser' = [pauser EXCEPT ![p] = "select"]
  /\ UNCHANGED <<useViz, start, untried, stop, closed, panicked, loopVars, view, udp, conn,
                 http, updater>>

-----------------------------------------------------------------------------
Next == \/ startStep
        \/ \E s \in Stoppers : CallStop(s) \/ stopStep(s)
        \/ GossipTick \/ GossipHandler \/ GossipReturns \/ GossipExit
        \/ MonitorTick \/ MonitorReturns \/ MonitorExit
        \/ ViewExit \/ UpdaterExit \/ udpStep \/ Ping
        \/ \E p \in Pausers : byzantineHandler(p) \/ PauserSelect(p) \/ Pause(p)

Spec == Init /\ [][Next]_vars

(***************************************************************************)
(* Every goroutine that can run goes on running, rounds return (pings time *)
(* out, gRPC calls return) and sleeps end.  Nothing says that anyone calls *)
(* Stop, that a ping or a request arrives, or that a timer's case is taken.*)
(***************************************************************************)
Fairness ==
  /\ WF_vars(startStep)
  /\ \A s \in Stoppers : WF_vars(stopStep(s))
  /\ WF_vars(GossipReturns) /\ WF_vars(GossipExit)
  /\ WF_vars(MonitorReturns) /\ WF_vars(MonitorExit)
  /\ WF_vars(ViewExit) /\ WF_vars(UpdaterExit) /\ WF_vars(udpStep)
  /\ \A p \in Pausers : WF_vars(PauserSelect(p)) /\ WF_vars(Pause(p))

FairSpec == Spec /\ Fairness

-----------------------------------------------------------------------------
\* Types of the places of Start, Stop and every goroutine; the WaitGroup
\* counts no more than the two loops and pauseChan no more than its buffer.
TypeOK ==
  /\ useViz \in BOOLEAN
  /\ start \in {"new", "loops", "addToViz", "serve", "contact", "wait", "stopping",
                "returned"}
  /\ untried \in SUBSET Entries
  /\ stop \in [Stoppers -> {"idle", "enter", "refused", "viz", "view", "udp", "wait",
                            "returned"}]
  /\ closed \in SUBSET Channels /\ panicked \in BOOLEAN
  /\ wg \in 0..2
  /\ gossip \in {"none", "select", "round", "handler", "done"}
  /\ monitor \in {"none", "select", "round", "done"}
  /\ view \in {"none", "select", "done"}
  /\ udp \in {"none", "select", "read", "sleep", "done"}
  /\ conn \in BOOLEAN /\ pauseChan \in 0..1
  /\ pauser \in [Pausers -> {"none", "select", "pause", "done"}]
  /\ http \in {"new", "serving", "closed"} /\ updater \in {"none", "select", "done"}

(***************************************************************************)
(* However many goroutines call Stop, and whenever they do, no channel is  *)
(* closed twice and the WaitGroup never goes below zero: closing exitChan  *)
(* under exitMutex (isStopping) lets one caller through (src/core/node.go).*)
(***************************************************************************)
NoPanic == ~panicked

(***************************************************************************)
(* Once a Stop that closed exitChan has returned, no gossip or monitor     *)
(* round is under way, and none begins: wg.Wait waits for the loops, and   *)
(* loops that Start adds to the WaitGroup after the Wait find exitChan     *)
(* closed (src/core/node.go, Stop and Start).                              *)
(***************************************************************************)
QuietAfterStop ==
  (\E s \in Stoppers : stop[s] = "returned")
     => gossip \in {"none", "select", "done"} /\ monitor \in {"none", "select", "done"}

(***************************************************************************)
(* Every call of Stop returns, except the one the response handler makes   *)
(* first: it runs on gossipLoop and waits for that loop in wg.Wait         *)
(* (src/core/node.go, Stop).                                               *)
(***************************************************************************)
StopReturns ==
  \A s \in Stoppers :
    stop[s] = "enter" ~> \/ stop[s] \in {"refused", "returned"}
                         \/ s = "handler" /\ stop[s] = "wait" /\ gossip = "handler"

(***************************************************************************)
(* When Stop has been called on a started node, every goroutine that Start *)
(* began ends, except the gRPC server's, which nothing stops, and          *)
(* gossipLoop when its own response handler waits for it.  This needs the  *)
(* socket closed after exitChan: the ping server may be reading.           *)
(***************************************************************************)
AllEnd ==
  exitFlag /\ start # "new"
     ~> /\ start = "returned" /\ monitor = "done" /\ view = "done" /\ udp = "done"
        /\ updater \in {"none", "done"}
        /\ \/ gossip = "done"
           \/ gossip = "handler" /\ stop["handler"] = "wait"

(***************************************************************************)
(* A node without a CA contacts every entry address, even when some of the *)
(* calls fail.  With use_viz Start serves HTTP before it contacts anyone,  *)
(* and the property is left to the case without it (src/core/node.go,      *)
(* Start).                                                                 *)
(***************************************************************************)
EntriesContacted == start = "loops" /\ ~useViz ~> untried = {}
=============================================================================
