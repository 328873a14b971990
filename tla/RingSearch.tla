----------------------------- MODULE RingSearch -----------------------------
(***************************************************************************)
(* A ring with its searches: the operations of Ring do not know where an   *)
(* id is, they call insert, search and findSuccAndPrev of search.go and    *)
(* use the index those return.  rings.go's callers hold the view's lock,   *)
(* so one call runs at a time and the list does not change under it.       *)
(*                                                                         *)
(* The searches are Search's steps over the ring's own list; what an       *)
(* operation does with their result is Ring's addAt, removeAt and          *)
(* isBetween.                                                              *)
(***************************************************************************)
EXTENDS Ring, Search

VARIABLES op   \* the ring operation that waits for the search

allVars == <<vars, searchVars, op>>

NoOp == [name |-> "none", p |-> self, q |-> self]

RSInit ==
  /\ newRing
  /\ call = "search" /\ slice = succList /\ key = self
  /\ currIdx = 0 /\ maxIdx = 0 /\ result = <<0>>
  /\ op = NoOp

\* An operation calls search function f for p.
calls(f, name, p, q) ==
  /\ op = NoOp
  /\ op' = [name |-> name, p |-> p, q |-> q]
  /\ Begins(f, succList, p)
  /\ UNCHANGED vars

\* add and remove look the peer up in peerToRing first.
addCalls(p) == p \notin peerToRing /\ calls("insert", "add", p, self)
removeCalls(p) == p \in peerToRing /\ calls("search", "remove", p, self)

\* isPrev searches for an accused member when it knows the accuser too, and
\* for its neighbours otherwise.
isPrevCalls(p, q) ==
  /\ p # q
  /\ calls(IF p \in peerToRing /\ q \in peerToRing THEN "search" ELSE "findSuccAndPrev",
           "isPrev", p, q)

\* A ring of one answers without a search.
neighboursCalls(p) ==
  Len(succList) > 1 /\ calls("findSuccAndPrev", "neighbours", p, self)

SearchStep == SearchNext /\ UNCHANGED <<vars, op>>

Returned(name) == op.name = name /\ ~Running
returns == op' = NoOp /\ UNCHANGED searchVars

addReturns == Returned("add") /\ addAt(op.p, result[1]) /\ returns

\* errIdNotFound and errRemoveSelf have no step: a call that met them would
\* stay without a successor, which TLC reports as a deadlock.
removeReturns ==
  /\ Returned("remove") /\ result[1] # NotFound
  /\ removeAt(op.p, result[1])
  /\ returns

\* Mutant of verdict: the successor is compared with, not the predecessor.
verdictSucc ==
  IF call = "search"
  THEN result[1] # NotFound /\ succAtIdx(succList, result[1]) = op.q
  ELSE isBetween(At(succList, result[1]), op.p, op.q)

\* What isPrev makes of the index.
verdict ==
  IF call = "search"
  THEN result[1] # NotFound /\ prevAtIdx(succList, result[1]) = op.q
  ELSE isBetween(At(succList, result[2]), op.p, op.q)

\* The caller stores the accusation of an accuser that isPrev accepts.
isPrevReturns ==
  /\ Returned("isPrev")
  /\ acc' = IF verdict THEN [acc EXCEPT ![op.p] = op.q] ELSE acc
  /\ UNCHANGED <<succList, selfIdx, peerToRing>>
  /\ returns

neighboursReturns == Returned("neighbours") /\ UNCHANGED vars /\ returns

\* evalNote, between two operations.
rebutted(p) == op = NoOp /\ rebut(p) /\ UNCHANGED <<searchVars, op>>

RSNext ==
  \/ \E p \in Others :
       \/ addCalls(p) \/ removeCalls(p) \/ neighboursCalls(p) \/ rebutted(p)
       \/ \E q \in Ids : isPrevCalls(p, q)
  \/ SearchStep
  \/ addReturns \/ removeReturns \/ isPrevReturns \/ neighboursReturns

\* The searches are sequential code that runs on until it returns.
RSSpec == RSInit /\ [][RSNext]_allVars /\ WF_allVars(SearchStep)

-----------------------------------------------------------------------------
\* The searches bring every operation to the answer Ring gives it: isPrev
\* accepts exactly the accusers, and neighbours names exactly the neighbours,
\* of Ring's definitions over the members.
AnswersAgree ==
  /\ Returned("isPrev") => (verdict <=> isPrev(op.p, op.q))
  /\ Returned("neighbours") =>
       <<At(succList, result[1]), At(succList, result[2])>> = neighbours(op.p)

\* A ring with its searches is the ring of module Ring: an operation that
\* takes the index its search returned (insert's place, search's index) does
\* what Ring says in one step.
ImplementsRing == Spec
=============================================================================
