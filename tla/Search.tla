------------------------------- MODULE Search -------------------------------
(***************************************************************************)
(* The binary searches over a ring's successor list                        *)
(* (src/core/discovery/search.go): insert, search and findSuccAndPrev.     *)
(*                                                                         *)
(* All three run the same loop over [currIdx, maxIdx] and differ in what   *)
(* they do with an equal element and with the last one left, so one state  *)
(* machine with the called function as a variable models them.  Ring ids   *)
(* are compared by hash only: an id is its hash, a number.  Indices count  *)
(* from 0, as in the code.  The ring operations that call them, and so the *)
(* lists and keys they are called with, are RingSearch's.                  *)
(***************************************************************************)
EXTENDS Integers, Sequences

VARIABLES call,     \* the function that runs
          slice, key,
          currIdx, maxIdx,
          result    \* what it returns, <<>> while it runs

searchVars == <<call, slice, key, currIdx, maxIdx, result>>

Calls == {"insert", "search", "findSuccAndPrev"}

length == Len(slice)
Elem(i) == slice[i + 1]

NotFound == -1

\* The indices succ() and prev() of search.go read: Go's % keeps the sign of
\* its left operand, which prev() corrects by adding the length.
succ(i) == (i + 1) % length
prev(i) == IF i - 1 < 0 THEN i - 1 + length ELSE (i - 1) % length

\* A call of f: the range is the whole list.
Begins(f, list, x) ==
  /\ call' = f /\ slice' = list /\ key' = x
  /\ currIdx' = 0 /\ maxIdx' = Len(list) - 1
  /\ result' = <<>>

mid == (currIdx + maxIdx) \div 2

Running == result = <<>>

\* Mutant of GoRight: the element in the middle stays in the range.
GoRightKeepMid ==
  /\ Running
  /\ currIdx < maxIdx
  /\ Elem(mid) < key
  /\ currIdx' = mid
  /\ UNCHANGED <<call, slice, key, maxIdx, result>>

\* compare = -1: the middle element is smaller than the key.
GoRight ==
  /\ Running
  /\ currIdx < maxIdx
  /\ Elem(mid) < key
  /\ currIdx' = mid + 1
  /\ UNCHANGED <<call, slice, key, maxIdx, result>>

\* compare = 1, and for insert also the equal element it only logs.
GoLeft ==
  /\ Running
  /\ currIdx < maxIdx
  /\ Elem(mid) > key \/ (Elem(mid) = key /\ call = "insert")
  /\ maxIdx' = mid - 1
  /\ UNCHANGED <<call, slice, key, currIdx, result>>

\* compare = 0 in search and findSuccAndPrev.
FoundMid ==
  /\ Running
  /\ currIdx < maxIdx
  /\ Elem(mid) = key
  /\ call # "insert"
  /\ result' = IF call = "search" THEN <<mid>> ELSE <<succ(mid), prev(mid)>>
  /\ UNCHANGED <<call, slice, key, currIdx, maxIdx>>

\* Mutant of lastInsert: the element left is not compared with.
lastInsertBefore == <<currIdx>>

\* currIdx >= maxIdx: one element is left to compare with.
lastInsert == <<IF Elem(currIdx) < key THEN currIdx + 1 ELSE currIdx>>
lastSearch == <<IF Elem(currIdx) = key THEN currIdx ELSE NotFound>>

lastNeighbours ==
  IF Elem(currIdx) < key THEN <<succ(currIdx), currIdx>>
  ELSE IF Elem(currIdx) > key THEN <<currIdx, prev(currIdx)>>
  ELSE <<succ(currIdx), prev(currIdx)>>

Last ==
  /\ Running
  /\ currIdx >= maxIdx
  /\ result' = CASE call = "insert" -> lastInsert
                 [] call = "search" -> lastSearch
                 [] call = "findSuccAndPrev" -> lastNeighbours
  /\ UNCHANGED <<call, slice, key, currIdx, maxIdx>>

SearchNext == GoRight \/ GoLeft \/ FoundMid \/ Last

-----------------------------------------------------------------------------
Strict(s) == \A i, j \in 1..Len(s) : i < j => s[i] < s[j]

\* Types of the loop variables; the list is sorted and never empty, and maxIdx
\* may fall one below 0.
SearchTypeOK ==
  /\ call \in Calls
  /\ slice \in Seq(Nat) /\ length > 0 /\ Strict(slice)
  /\ key \in Nat
  /\ currIdx \in 0..(length - 1)
  /\ maxIdx \in -1..(length - 1)
  /\ result \in {<<>>} \cup {<<i>> : i \in -1..length}
                 \cup ((0..(length - 1)) \X (0..(length - 1)))

\* k splits the list: smaller ids before it, the others from it on.
SplitsAt(k) ==
  /\ k \in 0..length
  /\ \A i \in 0..(length - 1) : IF i < k THEN Elem(i) < key ELSE Elem(i) >= key

\* insert returns the place that keeps the list sorted, before an equal id.
InsertIsSorted ==
  (call = "insert" /\ ~Running) => SplitsAt(result[1])

\* search returns the index of the id, and errIdNotFound only when the list
\* does not hold it: ring.remove and isPrev rely on both.
SearchIsExact ==
  (call = "search" /\ ~Running) =>
    IF result[1] = NotFound THEN \A i \in 0..(length - 1) : Elem(i) # key
    ELSE result[1] \in 0..(length - 1) /\ Elem(result[1]) = key

\* findSuccAndPrev returns the neighbours the id has, or would have, on the
\* circle: the ids next to the split, wrapping at the ends, skipping the id.
NeighboursAreAdjacent ==
  (call = "findSuccAndPrev" /\ ~Running) =>
    \E k \in 0..length :
      /\ SplitsAt(k)
      /\ result[2] = (IF k = 0 THEN length - 1 ELSE k - 1)
      /\ LET s == IF k < length /\ Elem(k) = key THEN k + 1 ELSE k
         IN  result[1] = (IF s >= length THEN s - length ELSE s)

\* Every search returns.
Terminates == Running ~> ~Running
=============================================================================
