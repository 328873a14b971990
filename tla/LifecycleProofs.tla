--------------------------- MODULE LifecycleProofs --------------------------
(***************************************************************************)
(* Stop and the goroutines it ends, for any number of callers, entry       *)
(* addresses and pausers: no channel is closed twice, the WaitGroup never  *)
(* goes below zero, and a Stop that returned leaves no round under way.    *)
(***************************************************************************)
EXTENDS Lifecycle, TLAPS

\* The callers that isStopping let through.
Stopping == {s \in Stoppers : stop[s] \notin {"idle", "enter", "refused"}}

runs(loop) == IF loop \in {"select", "round", "handler"} THEN 1 ELSE 0

\* isStopping lets one caller through, and that caller closes the channels one
\* after the other.  Start calls Stop once.
OneStops ==
  /\ start \notin {"stopping", "returned"} => stop["start"] = "idle"
  /\ \A s, t \in Stopping : s = t
  /\ Stopping = {} => closed = {}
  /\ "node" \notin closed => Stopping = {}
  /\ \A s \in Stopping : /\ stop[s] = "viz" => closed \subseteq {"node"}
                         /\ stop[s] = "view" => closed \subseteq {"node", "viz"}
                         /\ stop[s] = "udp" => closed \subseteq {"node", "viz", "view"}

\* The WaitGroup counts the loops that run, and Start adds them once.
LoopsCounted ==
  /\ wg = runs(gossip) + runs(monitor)
  /\ start \in {"new", "loops"} => gossip = "none" /\ monitor = "none"

Inv == TypeOK /\ NoPanic /\ OneStops /\ LoopsCounted /\ QuietAfterStop

\* A fresh node satisfies the invariant.
LEMMA InitInv == Init => Inv
<1> SUFFICES ASSUME Init PROVE Inv
  OBVIOUS
<1>1. TypeOK
  <2>1. useViz \in BOOLEAN /\ panicked \in BOOLEAN /\ conn \in BOOLEAN
    BY Zenon DEF Init
  <2>2. /\ stop \in [Stoppers -> {"idle", "enter", "refused", "viz", "view", "udp", "wait",
                                  "returned"}]
        /\ pauser \in [Pausers -> {"none", "select", "pause", "done"}]
    BY DEF Init
  <2>3. QED
    BY <2>1, <2>2 DEF Init, TypeOK
<1>2. NoPanic
  BY DEF Init, NoPanic
<1>3. Stopping = {} /\ closed = {} /\ stop["start"] = "idle"
  BY DEF Init, Stopping, Stoppers
<1>4. OneStops
  BY <1>3 DEF OneStops
<1>5. LoopsCounted
  BY DEF Init, LoopsCounted, runs
<1>6. QuietAfterStop
  BY DEF Init, QuietAfterStop
<1>7. QED
  BY <1>1, <1>2, <1>4, <1>5, <1>6 DEF Inv

\* Steps of the goroutines and of Start that touch neither Stop, nor a
\* channel, nor the loops keep the invariant if they keep the types.
LEMMA UntouchedInv ==
  ASSUME Inv, TypeOK', UNCHANGED <<stop, closed, panicked, wg, gossip, monitor>>,
         start \in {"new", "loops"} <=> start' \in {"new", "loops"},
         start \in {"stopping", "returned"} <=> start' \in {"stopping", "returned"}
  PROVE  Inv'
<1>1. NoPanic' /\ QuietAfterStop'
  BY DEF Inv, NoPanic, QuietAfterStop
<1>2. OneStops'
  BY DEF Inv, OneStops, Stopping
<1>3. LoopsCounted'
  BY DEF Inv, LoopsCounted, runs
<1>4. QED
  BY <1>1, <1>2, <1>3 DEF Inv

\* Every step keeps it.
LEMMA StepInv == Inv /\ [Next]_vars => Inv'
<1> SUFFICES ASSUME Inv, [Next]_vars PROVE Inv'
  OBVIOUS
<1> USE DEF Inv
<1>1. CASE StartServers
  <2> USE <1>1 DEF StartServers, loopVars, udpVars, vizVars
  <2>1. TypeOK'
    BY DEF TypeOK, Stoppers
  <2>2. QED
    BY <2>1, UntouchedInv
<1>2. CASE VizStart
  <2> USE <1>2 DEF VizStart, loopVars, udpVars, vizVars
  <2>1. TypeOK'
    BY DEF TypeOK, Stoppers
  <2>2. QED
    BY <2>1, UntouchedInv
<1>3. CASE ServeReturns
  <2> USE <1>3 DEF ServeReturns, loopVars, udpVars, vizVars
  <2>1. TypeOK'
    BY DEF TypeOK, Stoppers
  <2>2. QED
    BY <2>1, UntouchedInv
<1>4. CASE ContactEntry
  <2> USE <1>4 DEF ContactEntry, loopVars, udpVars, vizVars
  <2>1. TypeOK'
    BY DEF TypeOK, Stoppers
  <2>2. QED
    BY <2>1, UntouchedInv
<1>5. CASE ContactEnds
  <2> USE <1>5 DEF ContactEnds, loopVars, udpVars, vizVars
  <2>1. TypeOK'
    BY DEF TypeOK, Stoppers
  <2>2. QED
    BY <2>1, UntouchedInv
<1>6. CASE StartReturns
  <2> USE <1>6 DEF StartReturns, loopVars, udpVars, vizVars
  <2>1. TypeOK'
    BY DEF TypeOK, Stoppers
  <2>2. QED
    BY <2>1, UntouchedInv
<1>7. CASE ViewExit
  <2> USE <1>7 DEF ViewExit, loopVars, udpVars, vizVars
  <2>1. TypeOK'
    BY DEF TypeOK, Stoppers
  <2>2. QED
    BY <2>1, UntouchedInv
<1>8. CASE UpdaterExit
  <2> USE <1>8 DEF UpdaterExit, loopVars, udpVars, vizVars
  <2>1. TypeOK'
    BY DEF TypeOK, Stoppers
  <2>2. QED
    BY <2>1, UntouchedInv
<1>9. CASE UdpSleep
  <2> USE <1>9 DEF UdpSleep, loopVars, udpVars, vizVars
  <2>1. TypeOK'
    BY DEF TypeOK, Stoppers
  <2>2. QED
    BY <2>1, UntouchedInv
<1>10. CASE UdpDone
  <2> USE <1>10 DEF UdpDone, loopVars, udpVars, vizVars
  <2>1. TypeOK'
    BY DEF TypeOK, Stoppers
  <2>2. QED
    BY <2>1, UntouchedInv
<1>11. CASE UdpRead
  <2> USE <1>11 DEF UdpRead, loopVars, udpVars, vizVars
  <2>1. TypeOK'
    BY DEF TypeOK, Stoppers
  <2>2. QED
    BY <2>1, UntouchedInv
<1>12. CASE UdpAgain
  <2> USE <1>12 DEF UdpAgain, loopVars, udpVars, vizVars
  <2>1. TypeOK'
    BY DEF TypeOK, Stoppers
  <2>2. QED
    BY <2>1, UntouchedInv
<1>13. CASE Ping
  <2> USE <1>13 DEF Ping, loopVars, udpVars, vizVars
  <2>1. TypeOK'
    BY DEF TypeOK, Stoppers
  <2>2. QED
    BY <2>1, UntouchedInv
<1>14. ASSUME NEW p \in Pausers, byzantineHandler(p) PROVE Inv'
  <2> USE <1>14 DEF byzantineHandler, loopVars, udpVars, vizVars
  <2>1. TypeOK'
    BY DEF TypeOK
  <2>2. QED
    BY <2>1, UntouchedInv
<1>15. ASSUME NEW p \in Pausers, PauserSelect(p) PROVE Inv'
  <2> USE <1>15 DEF PauserSelect, loopVars, udpVars, vizVars
  <2>1. TypeOK'
    BY DEF TypeOK
  <2>2. QED
    BY <2>1, UntouchedInv
<1>16. ASSUME NEW p \in Pausers, Pause(p) PROVE Inv'
  <2> USE <1>16 DEF Pause, loopVars, udpVars, vizVars
  <2>1. TypeOK'
    BY DEF TypeOK
  <2>2. QED
    BY <2>1, UntouchedInv
<1>17. CASE StartLoops
  <2> USE <1>17 DEF StartLoops, loopVars, udpVars, vizVars
  <2>1. TypeOK'
    <3>1. wg' \in 0..2
      BY DEF LoopsCounted, runs, TypeOK
    <3>2. panicked' \in BOOLEAN
      BY DEF TypeOK
    <3>3. QED
      BY <3>1, <3>2 DEF TypeOK
  <2>2. NoPanic'
    BY DEF NoPanic
  <2>3. OneStops'
    BY DEF OneStops, Stopping
  <2>4. LoopsCounted'
    BY DEF LoopsCounted, runs
  <2>5. QuietAfterStop'
    BY DEF QuietAfterStop
  <2>6. QED
    BY <2>1, <2>2, <2>3, <2>4, <2>5
<1>18. CASE StartExits
  <2> USE <1>18 DEF StartExits, loopVars, udpVars, vizVars
  <2>1. TypeOK'
    BY DEF TypeOK, Stoppers, Channels
  <2>2. NoPanic'
    BY DEF NoPanic
  <2>3. OneStops'
    BY DEF OneStops, Stopping, TypeOK, Stoppers
  <2>4. LoopsCounted'
    BY DEF LoopsCounted, runs
  <2>5. QuietAfterStop'
    BY DEF QuietAfterStop, TypeOK
  <2>6. QED
    BY <2>1, <2>2, <2>3, <2>4, <2>5
<1>19. CASE GossipTick
  <2> USE <1>19 DEF GossipTick, loopVars, udpVars, vizVars, exitFlag
  <2>1. TypeOK'
    BY DEF TypeOK, Stoppers, Channels
  <2>2. NoPanic'
    BY DEF NoPanic
  <2>3. OneStops'
    BY DEF OneStops, Stopping
  <2>4. LoopsCounted'
    BY DEF LoopsCounted, runs
  <2>5. QuietAfterStop'
    BY DEF QuietAfterStop, OneStops, Stopping
  <2>6. QED
    BY <2>1, <2>2, <2>3, <2>4, <2>5
<1>20. CASE MonitorTick
  <2> USE <1>20 DEF MonitorTick, loopVars, udpVars, vizVars, exitFlag
  <2>1. TypeOK'
    BY DEF TypeOK, Stoppers, Channels
  <2>2. NoPanic'
    BY DEF NoPanic
  <2>3. OneStops'
    BY DEF OneStops, Stopping
  <2>4. LoopsCounted'
    BY DEF LoopsCounted, runs
  <2>5. QuietAfterStop'
    BY DEF QuietAfterStop, OneStops, Stopping
  <2>6. QED
    BY <2>1, <2>2, <2>3, <2>4, <2>5
<1>21. CASE GossipHandler
  <2> USE <1>21 DEF GossipHandler, loopVars, udpVars, vizVars
  <2>1. TypeOK'
    BY DEF TypeOK, Stoppers, Channels
  <2>2. NoPanic'
    BY DEF NoPanic
  <2>3. OneStops'
    BY DEF OneStops, Stopping, TypeOK, Stoppers
  <2>4. LoopsCounted'
    BY DEF LoopsCounted, runs
  <2>5. QuietAfterStop'
    BY DEF QuietAfterStop, TypeOK
  <2>6. QED
    BY <2>1, <2>2, <2>3, <2>4, <2>5
<1>22. CASE GossipReturns
  <2> USE <1>22 DEF GossipReturns, loopVars, udpVars, vizVars
  <2>1. TypeOK'
    BY DEF TypeOK, Stoppers, Channels
  <2>2. NoPanic'
    BY DEF NoPanic
  <2>3. OneStops'
    BY DEF OneStops, Stopping
  <2>4. LoopsCounted'
    BY DEF LoopsCounted, runs
  <2>5. QuietAfterStop'
    BY DEF QuietAfterStop
  <2>6. QED
    BY <2>1, <2>2, <2>3, <2>4, <2>5
<1>23. CASE MonitorReturns
  <2> USE <1>23 DEF MonitorReturns, loopVars, udpVars, vizVars
  <2>1. TypeOK'
    BY DEF TypeOK, Stoppers, Channels
  <2>2. NoPanic'
    BY DEF NoPanic
  <2>3. OneStops'
    BY DEF OneStops, Stopping
  <2>4. LoopsCounted'
    BY DEF LoopsCounted, runs
  <2>5. QuietAfterStop'
    BY DEF QuietAfterStop
  <2>6. QED
    BY <2>1, <2>2, <2>3, <2>4, <2>5
<1>24. CASE GossipExit
  <2> USE <1>24 DEF GossipExit, loopVars, udpVars, vizVars, exitFlag, wgDone
  <2>1. TypeOK'
    <3>1. wg' \in 0..2
      BY DEF LoopsCounted, runs, TypeOK
    <3>2. panicked' \in BOOLEAN
      BY DEF TypeOK
    <3>3. QED
      BY <3>1, <3>2 DEF TypeOK
  <2>2. NoPanic'
    BY DEF NoPanic, LoopsCounted, runs, TypeOK
  <2>3. OneStops'
    BY DEF OneStops, Stopping
  <2>4. LoopsCounted'
    BY DEF LoopsCounted, runs, TypeOK
  <2>5. QuietAfterStop'
    BY DEF QuietAfterStop
  <2>6. QED
    BY <2>1, <2>2, <2>3, <2>4, <2>5
<1>25. CASE MonitorExit
  <2> USE <1>25 DEF MonitorExit, loopVars, udpVars, vizVars, exitFlag, wgDone
  <2>1. TypeOK'
    <3>1. wg' \in 0..2
      BY DEF LoopsCounted, runs, TypeOK
    <3>2. panicked' \in BOOLEAN
      BY DEF TypeOK
    <3>3. QED
      BY <3>1, <3>2 DEF TypeOK
  <2>2. NoPanic'
    BY DEF NoPanic, LoopsCounted, runs, TypeOK
  <2>3. OneStops'
    BY DEF OneStops, Stopping
  <2>4. LoopsCounted'
    BY DEF LoopsCounted, runs, TypeOK
  <2>5. QuietAfterStop'
    BY DEF QuietAfterStop
  <2>6. QED
    BY <2>1, <2>2, <2>3, <2>4, <2>5
<1>26. ASSUME NEW s \in Stoppers, CallStop(s) PROVE Inv'
  <2> USE <1>26 DEF CallStop, loopVars, udpVars, vizVars
  <2>1. TypeOK'
    BY DEF TypeOK
  <2>2. NoPanic'
    BY DEF NoPanic
  <2>3. OneStops'
    BY LifecycleConstants DEF OneStops, Stopping, TypeOK
  <2>4. LoopsCounted'
    BY DEF LoopsCounted, runs
  <2>5. QuietAfterStop'
    BY DEF QuietAfterStop, TypeOK
  <2>6. QED
    BY <2>1, <2>2, <2>3, <2>4, <2>5
<1>27. ASSUME NEW s \in Stoppers, isStopping(s) PROVE Inv'
  <2> USE <1>27 DEF isStopping, loopVars, udpVars, vizVars, exitFlag, close
  <2>1. TypeOK'
    <3>1. closed' \in SUBSET Channels
      BY DEF TypeOK, Channels
    <3>2. stop' \in [Stoppers -> {"idle", "enter", "refused", "viz", "view", "udp", "wait",
                                   "returned"}]
      BY DEF TypeOK
    <3>3. panicked' \in BOOLEAN /\ conn' \in BOOLEAN
      BY Zenon DEF TypeOK
    <3>4. QED
      BY <3>1, <3>2, <3>3 DEF TypeOK
  <2>2. NoPanic'
    BY DEF NoPanic
  <2>3. OneStops'
    <3>1. CASE exitFlag
      <4>1. Stopping' = Stopping /\ closed' = closed
        BY <3>1 DEF Stopping, TypeOK, exitFlag
      <4>2. \A t \in Stopping : stop'[t] = stop[t]
        BY DEF Stopping, TypeOK
      <4>3. stop'["start"] = stop["start"] \/ start \in {"stopping", "returned"}
        BY DEF OneStops, TypeOK, Stoppers
      <4>4. QED
        BY <4>1, <4>2, <4>3 DEF OneStops
    <3>2. CASE ~exitFlag
      <4>1. Stopping = {} /\ closed = {}
        BY <3>2 DEF OneStops, exitFlag
      <4>2. Stopping' = {s} /\ closed' = {"node"} /\ stop'[s] \in {"viz", "view"}
        BY <3>2, <4>1 DEF Stopping, TypeOK, close
      <4>3. stop'["start"] = stop["start"] \/ start \in {"stopping", "returned"}
        BY DEF OneStops, TypeOK, Stoppers
      <4>4. QED
        BY <4>1, <4>2, <4>3 DEF OneStops
    <3>3. QED
      BY <3>1, <3>2
  <2>4. LoopsCounted'
    BY DEF LoopsCounted, runs
  <2>5. QuietAfterStop'
    BY DEF QuietAfterStop, TypeOK
  <2>6. QED
    BY <2>1, <2>2, <2>3, <2>4, <2>5
<1>28. ASSUME NEW s \in Stoppers, VizStop(s) PROVE Inv'
  <2> USE <1>28 DEF VizStop, loopVars, udpVars, vizVars, close
  <2>1. TypeOK'
    <3>1. closed' \in SUBSET Channels
      BY DEF TypeOK, Channels
    <3>2. stop' \in [Stoppers -> {"idle", "enter", "refused", "viz", "view", "udp", "wait",
                                   "returned"}]
      BY DEF TypeOK
    <3>3. panicked' \in BOOLEAN /\ conn' \in BOOLEAN
      BY Zenon DEF TypeOK
    <3>4. QED
      BY <3>1, <3>2, <3>3 DEF TypeOK
  <2>2. NoPanic'
    BY DEF NoPanic, OneStops, Stopping
  <2>3. OneStops'
    BY DEF OneStops, Stopping, TypeOK, Stoppers
  <2>4. LoopsCounted'
    BY DEF LoopsCounted, runs
  <2>5. QuietAfterStop'
    BY DEF QuietAfterStop, TypeOK
  <2>6. QED
    BY <2>1, <2>2, <2>3, <2>4, <2>5
<1>29. ASSUME NEW s \in Stoppers, ViewStop(s) PROVE Inv'
  <2> USE <1>29 DEF ViewStop, loopVars, udpVars, vizVars, close
  <2>1. TypeOK'
    <3>1. closed' \in SUBSET Channels
      BY DEF TypeOK, Channels
    <3>2. stop' \in [Stoppers -> {"idle", "enter", "refused", "viz", "view", "udp", "wait",
                                   "returned"}]
      BY DEF TypeOK
    <3>3. panicked' \in BOOLEAN /\ conn' \in BOOLEAN
      BY Zenon DEF TypeOK
    <3>4. QED
      BY <3>1, <3>2, <3>3 DEF TypeOK
  <2>2. NoPanic'
    BY DEF NoPanic, OneStops, Stopping
  <2>3. OneStops'
    BY DEF OneStops, Stopping, TypeOK, Stoppers
  <2>4. LoopsCounted'
    BY DEF LoopsCounted, runs
  <2>5. QuietAfterStop'
    BY DEF QuietAfterStop, TypeOK
  <2>6. QED
    BY <2>1, <2>2, <2>3, <2>4, <2>5
<1>30. ASSUME NEW s \in Stoppers, UdpStop(s) PROVE Inv'
  <2> USE <1>30 DEF UdpStop, loopVars, udpVars, vizVars, close
  <2>1. TypeOK'
    <3>1. closed' \in SUBSET Channels
      BY DEF TypeOK, Channels
    <3>2. stop' \in [Stoppers -> {"idle", "enter", "refused", "viz", "view", "udp", "wait",
                                   "returned"}]
      BY DEF TypeOK
    <3>3. panicked' \in BOOLEAN /\ conn' \in BOOLEAN
      BY Zenon DEF TypeOK
    <3>4. QED
      BY <3>1, <3>2, <3>3 DEF TypeOK
  <2>2. NoPanic'
    BY DEF NoPanic, OneStops, Stopping
  <2>3. OneStops'
    BY DEF OneStops, Stopping, TypeOK, Stoppers
  <2>4. LoopsCounted'
    BY DEF LoopsCounted, runs
  <2>5. QuietAfterStop'
    BY DEF QuietAfterStop, TypeOK
  <2>6. QED
    BY <2>1, <2>2, <2>3, <2>4, <2>5
<1>31. ASSUME NEW s \in Stoppers, Wait(s) PROVE Inv'
  <2> USE <1>31 DEF Wait, loopVars, udpVars, vizVars
  <2>1. TypeOK'
    BY DEF TypeOK
  <2>2. NoPanic'
    BY DEF NoPanic
  <2>3. OneStops'
    BY DEF OneStops, Stopping, TypeOK, Stoppers
  <2>4. LoopsCounted'
    BY DEF LoopsCounted, runs
  <2>5. QuietAfterStop'
    BY DEF QuietAfterStop, LoopsCounted, runs, TypeOK
  <2>6. QED
    BY <2>1, <2>2, <2>3, <2>4, <2>5
<1>32. CASE UNCHANGED vars
  <2> USE <1>32 DEF vars, loopVars, udpVars, vizVars
  <2>1. TypeOK'
    BY DEF TypeOK
  <2>2. QED
    BY <2>1, UntouchedInv
<1>33. QED
  BY <1>1, <1>2, <1>3, <1>4, <1>5, <1>6, <1>7, <1>8, <1>9, <1>10, <1>11, <1>12, <1>13,
     <1>14, <1>15, <1>16, <1>17, <1>18, <1>19, <1>20, <1>21, <1>22, <1>23, <1>24, <1>25,
     <1>26, <1>27, <1>28, <1>29, <1>30, <1>31, <1>32
  DEF Next, startStep, stopStep, udpStep

\* The invariant holds in every reachable state.
LEMMA Invariance == Spec => []Inv
  BY InitInv, StepInv, PTL DEF Spec

\* Type correctness: in particular the WaitGroup never counts more than the
\* two loops of Start.
THEOREM LifecycleTypeCorrect == Spec => []TypeOK
<1>1. Inv => TypeOK
  BY DEF Inv
<1>2. QED
  BY Invariance, <1>1, PTL

\* However many goroutines call Stop, and whenever, no channel is closed twice
\* and the WaitGroup does not go below zero.
THEOREM StopNeverPanics == Spec => []NoPanic
<1>1. Inv => NoPanic
  BY DEF Inv
<1>2. QED
  BY Invariance, <1>1, PTL

\* After the Stop that does the work has returned, no gossip or monitor round
\* is under way or begins, even if Stop overtook Start.
THEOREM StopIsQuiet == Spec => []QuietAfterStop
<1>1. Inv => QuietAfterStop
  BY DEF Inv
<1>2. QED
  BY Invariance, <1>1, PTL
=============================================================================
