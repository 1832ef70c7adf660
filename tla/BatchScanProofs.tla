--------------------------- MODULE BatchScanProofs ---------------------------
(***************************************************************************)
(* Proofs about BatchScan, for every number of threads, batch size, column *)
(* and set of matches.                                                     *)
(***************************************************************************)
EXTENDS BatchScan, FiniteSetTheorems, TLAPS

\* A batch being matched is not empty, lies in the column and below the index.
Batches ==
    \A t \in Threads : pc[t] = "scan" => cur[t] < last[t] /\ last[t] <= N /\ last[t] <= index

\* A worker that has left the loop has seen that no element is left.
Exhausted == \A t \in Threads : pc[t] \in {"add", "exit"} => index >= N

\* The elements of the workers that have added their count.
Tallied == UNION {scanned[t] : t \in {u \in Threads : pc[u] = "exit"}}

\* The local counts and the total are the numbers of matches among the
\* elements that they stand for.
Counts ==
    /\ \A t \in Threads : localCount[t] = Cardinality(scanned[t] \cap Matches)
    /\ count = Cardinality(Tallied \cap Matches)

\* How far the main thread has come.
MainThread ==
    /\ \A t \in Threads : t > spawned <=> pc[t] = "unborn"
    /\ joined > 0 => spawned = NumThreads
    /\ \A t \in Threads : t <= joined => pc[t] = "exit"
    /\ answer # None => joined = NumThreads /\ answer = count

\* The inductive invariant.
IInv ==
    /\ TypeOK
    /\ Batches
    /\ Exhausted
    /\ MainThread
    /\ ClaimsAreDisjoint
    /\ NoneLost
    /\ Counts

-----------------------------------------------------------------------------
\* Sets of matching elements are finite, so that they can be counted.
LEMMA MatchesFinite ==
    ASSUME NEW S
    PROVE  IsFiniteSet(S \cap Matches) /\ Cardinality(S \cap Matches) \in Nat
<1>1. IsFiniteSet(0 .. N - 1)
  BY ScanAssumption, FS_Interval
<1>2. IsFiniteSet(S \cap Matches)
  BY <1>1, FS_Subset, ScanAssumption
<1> QED BY <1>2, FS_CardinalityType

\* One more element adds one to the number of matches if it matches.
LEMMA AddOne ==
    ASSUME NEW S, NEW e, e \notin S
    PROVE  Cardinality((S \cup {e}) \cap Matches) =
              Cardinality(S \cap Matches) + IF e \in Matches THEN 1 ELSE 0
<1>1. IsFiniteSet(S \cap Matches) /\ Cardinality(S \cap Matches) \in Nat
  BY MatchesFinite
<1>2. CASE e \in Matches
  <2>1. (S \cup {e}) \cap Matches = (S \cap Matches) \cup {e}
    BY <1>2
  <2>2. Cardinality((S \cup {e}) \cap Matches) = Cardinality((S \cap Matches) \cup {e})
    BY <2>1, Zenon
  <2>3. e \notin S \cap Matches
    OBVIOUS
  <2>4. Cardinality((S \cap Matches) \cup {e}) = Cardinality(S \cap Matches) + 1
    BY <1>1, <2>3, FS_AddElement, Zenon
  <2> QED BY <1>2, <2>2, <2>4
<1>3. CASE e \notin Matches
  <2>1. (S \cup {e}) \cap Matches = S \cap Matches
    BY <1>3
  <2>2. Cardinality((S \cup {e}) \cap Matches) = Cardinality(S \cap Matches)
    BY <2>1, Zenon
  <2> QED BY <1>1, <1>3, <2>2
<1> QED BY <1>2, <1>3

\* The matches of two disjoint sets add up.
LEMMA AddDisjoint ==
    ASSUME NEW S, NEW T, S \cap T = {}
    PROVE  Cardinality((S \cup T) \cap Matches) =
              Cardinality(S \cap Matches) + Cardinality(T \cap Matches)
<1>1. /\ IsFiniteSet(S \cap Matches) /\ Cardinality(S \cap Matches) \in Nat
      /\ IsFiniteSet(T \cap Matches) /\ Cardinality(T \cap Matches) \in Nat
  BY MatchesFinite
<1>2. (S \cup T) \cap Matches = (S \cap Matches) \cup (T \cap Matches)
  OBVIOUS
<1>3. (S \cap Matches) \cap (T \cap Matches) = {}
  OBVIOUS
<1>4. Cardinality((S \cap Matches) \cap (T \cap Matches)) = 0
  BY <1>3, FS_EmptySet
<1>5. Cardinality((S \cup T) \cap Matches) = Cardinality((S \cap Matches) \cup (T \cap Matches))
  BY <1>2, Zenon
<1>6. Cardinality((S \cap Matches) \cup (T \cap Matches)) =
        Cardinality(S \cap Matches) + Cardinality(T \cap Matches)
          - Cardinality((S \cap Matches) \cap (T \cap Matches))
  BY <1>1, FS_Union, Zenon
<1> QED BY <1>1, <1>4, <1>5, <1>6

-----------------------------------------------------------------------------
(* The invariant holds initially.                                          *)

\* Before the threads start, nothing is claimed, counted or spawned.
LEMMA InitIInv == Init => IInv
<1> SUFFICES ASSUME Init PROVE IInv
  OBVIOUS
<1> USE ScanAssumption DEF Init
<1>1. TypeOK
  BY DEF TypeOK, Threads, None
<1>2. Batches /\ Exhausted
  BY DEF Batches, Exhausted
<1>3. MainThread
  BY DEF MainThread, Threads
<1>4. ClaimsAreDisjoint /\ NoneLost
  BY DEF ClaimsAreDisjoint, NoneLost, Claimed, Pending, Elements
<1>5. Counts
  <2>1. \A t \in Threads : scanned[t] \cap Matches = {}
    OBVIOUS
  <2>2. Tallied \cap Matches = {}
    BY DEF Tallied
  <2>3. Cardinality({}) = 0
    BY FS_EmptySet
  <2>4. \A t \in Threads : Cardinality(scanned[t] \cap Matches) = 0
    BY <2>1, <2>3, Zenon
  <2>5. Cardinality(Tallied \cap Matches) = 0
    BY <2>2, <2>3, Zenon
  <2> QED BY <2>4, <2>5 DEF Counts
<1> QED BY <1>1, <1>2, <1>3, <1>4, <1>5 DEF IInv

-----------------------------------------------------------------------------
(* Every step preserves it.                                                *)

\* The counts only depend on pc, scanned, localCount and count.
LEMMA CountsUnchanged ==
    ASSUME Counts, UNCHANGED <<count, localCount, scanned>>, Tallied' = Tallied
    PROVE  Counts'
<1>1. Cardinality(Tallied' \cap Matches) = Cardinality(Tallied \cap Matches)
  BY Zenon
<1> QED BY <1>1 DEF Counts

\* A claim takes a batch that no thread has, and leaves none behind.
LEMMA ClaimStep ==
    ASSUME IInv, NEW t \in Threads, Claim(t)
    PROVE  IInv'
<1> USE ScanAssumption DEF IInv
<1>1. TypeOK'
  <2>1. index + BatchSize \in Nat
    BY DEF TypeOK
  <2>2. last' \in [Threads -> Nat] /\ cur' \in [Threads -> Nat]
    BY <2>1 DEF TypeOK, Claim
  <2>3. pc' \in [Threads -> {"unborn", "claim", "scan", "add", "exit"}]
    BY DEF TypeOK, Claim
  <2> QED BY <2>1, <2>2, <2>3 DEF TypeOK, Claim
<1>2. Batches'
  BY DEF Batches, Claim, TypeOK
<1>3. Exhausted'
  BY DEF Exhausted, Claim, TypeOK
<1>4. MainThread'
  BY DEF MainThread, Claim, TypeOK
<1>5. /\ \A u \in Threads \ {t} : Pending(u)' = Pending(u) /\ Claimed(u)' = Claimed(u)
      /\ Pending(t) = {} /\ Claimed(t) = scanned[t]
      /\ Claimed(t)' = scanned[t] \cup Pending(t)'
      /\ scanned' = scanned
  BY DEF Claim, Pending, Claimed, TypeOK
<1>6. Pending(t)' = {e \in Elements : index <= e /\ e < index'}
  <2>1. CASE index >= N
    BY <2>1 DEF Claim, Pending, TypeOK, Elements
  <2>2. CASE index < N
    BY <2>2 DEF Claim, Pending, TypeOK, Elements
  <2> QED BY <2>1, <2>2 DEF TypeOK
<1>7. index' = index + BatchSize /\ index \in Nat
  BY DEF Claim, TypeOK
<1>8. ClaimsAreDisjoint'
  BY <1>5, <1>6, <1>7 DEF ClaimsAreDisjoint, NoneLost, Elements
<1>9. NoneLost'
  BY <1>5, <1>6, <1>7 DEF NoneLost, Elements
<1>10. Counts'
  <2>1. {u \in Threads : pc'[u] = "exit"} = {u \in Threads : pc[u] = "exit"}
    BY DEF Claim, TypeOK
  <2>2. Tallied' = Tallied
    BY <2>1 DEF Tallied, Claim
  <2> QED BY <2>2, CountsUnchanged DEF Claim
<1> QED BY <1>1, <1>2, <1>3, <1>4, <1>8, <1>9, <1>10

\* A thread that looks at an element counts it if it matches.
LEMMA ScanStep ==
    ASSUME IInv, NEW t \in Threads, Scan(t)
    PROVE  IInv'
<1> USE ScanAssumption DEF IInv
<1>1. cur[t] \in Elements /\ cur[t] < last[t] /\ cur[t] \in Nat /\ last[t] \in Nat
  BY DEF Batches, Scan, TypeOK, Elements
<1>2. TypeOK'
  BY <1>1 DEF TypeOK, Scan
<1>3. Batches'
  BY DEF Batches, Scan, TypeOK
<1>4. Exhausted'
  BY DEF Exhausted, Scan, TypeOK
<1>5. MainThread'
  BY DEF MainThread, Scan, TypeOK
<1>6. /\ \A u \in Threads \ {t} : Pending(u)' = Pending(u) /\ scanned'[u] = scanned[u]
      /\ Pending(t) = cur[t] .. last[t] - 1
      /\ scanned'[t] = scanned[t] \cup {cur[t]}
      /\ index' = index
  BY DEF Scan, Pending, TypeOK
<1>7. Pending(t)' = cur[t] + 1 .. last[t] - 1
  BY <1>1 DEF Scan, Pending, TypeOK
<1>8. Pending(t)' = Pending(t) \ {cur[t]} /\ cur[t] \in Pending(t)
  BY <1>1, <1>6, <1>7
<1>9. \A u \in Threads : Claimed(u)' = Claimed(u)
  BY <1>6, <1>8 DEF Claimed
<1>10. ClaimsAreDisjoint'
  BY <1>6, <1>8, <1>9 DEF ClaimsAreDisjoint
<1>11. NoneLost'
  BY <1>6, <1>9 DEF NoneLost
<1>12. Counts'
  <2>1. cur[t] \notin scanned[t]
    BY <1>8 DEF ClaimsAreDisjoint
  <2>2. Cardinality(scanned'[t] \cap Matches) =
          Cardinality(scanned[t] \cap Matches) + IF cur[t] \in Matches THEN 1 ELSE 0
    BY <1>6, <2>1, AddOne, Zenon
  <2>3. \A u \in Threads : localCount'[u] = Cardinality(scanned'[u] \cap Matches)
    BY <1>6, <2>2 DEF Scan, Counts, TypeOK
  <2>4. Tallied' = Tallied
    <3>1. {u \in Threads : pc'[u] = "exit"} = {u \in Threads : pc[u] = "exit"}
      BY DEF Scan, TypeOK
    <3> QED BY <1>6, <3>1 DEF Tallied, Scan
  <2>5. Cardinality(Tallied' \cap Matches) = Cardinality(Tallied \cap Matches)
    BY <2>4, Zenon
  <2> QED BY <2>3, <2>5 DEF Counts, Scan
<1> QED BY <1>2, <1>3, <1>4, <1>5, <1>10, <1>11, <1>12

\* A local count is added to the total once.
LEMMA AddCountStep ==
    ASSUME IInv, NEW t \in Threads, AddCount(t)
    PROVE  IInv'
<1> USE ScanAssumption DEF IInv
<1>1. TypeOK'
  BY DEF TypeOK, AddCount
<1>2. Batches' /\ Exhausted'
  BY DEF Batches, Exhausted, AddCount, TypeOK
<1>3. MainThread'
  <2>1. answer = None
    BY DEF MainThread, AddCount, TypeOK, Threads
  <2>2. \A u \in Threads : /\ pc'[u] = "unborn" <=> pc[u] = "unborn"
                          /\ pc[u] = "exit" => pc'[u] = "exit"
    BY DEF AddCount, TypeOK
  <2> QED BY <2>1, <2>2 DEF MainThread, AddCount
<1>4. scanned' = scanned /\ \A u \in Threads : Pending(u)' = Pending(u) /\ Claimed(u)' = Claimed(u)
  BY DEF AddCount, Pending, Claimed, TypeOK
<1>5. ClaimsAreDisjoint' /\ NoneLost'
  BY <1>4 DEF ClaimsAreDisjoint, NoneLost, AddCount
<1>6. Counts'
  <2>1. Tallied' = Tallied \cup scanned[t]
    BY DEF Tallied, AddCount, TypeOK
  <2>2. Tallied \cap scanned[t] = {}
    BY DEF Tallied, ClaimsAreDisjoint, Claimed, AddCount, TypeOK
  <2>3. Cardinality(Tallied' \cap Matches) =
          Cardinality(Tallied \cap Matches) + Cardinality(scanned[t] \cap Matches)
    BY <2>1, <2>2, AddDisjoint, Zenon
  <2> QED BY <2>3 DEF Counts, AddCount
<1> QED BY <1>1, <1>2, <1>3, <1>5, <1>6

\* The main thread spawns, joins and reads.
LEMMA MainStep ==
    ASSUME IInv, Main
    PROVE  IInv'
<1> USE ScanAssumption DEF IInv
<1>1. CASE Spawn
  <2>1. spawned + 1 \in Threads /\ pc[spawned + 1] = "unborn"
    BY <1>1 DEF Spawn, Threads, MainThread, TypeOK
  <2>2. TypeOK'
    <3>1. pc' \in [Threads -> {"unborn", "claim", "scan", "add", "exit"}]
      BY <1>1 DEF TypeOK, Spawn
    <3>2. spawned' \in 0 .. NumThreads
      BY <1>1 DEF TypeOK, Spawn
    <3> QED BY <1>1, <3>1, <3>2 DEF TypeOK, Spawn
  <2>3. Batches' /\ Exhausted'
    BY <1>1 DEF Batches, Exhausted, Spawn, TypeOK
  <2>4. MainThread'
    BY <1>1, <2>1 DEF MainThread, Spawn, TypeOK, Threads
  <2>5. scanned' = scanned /\ \A u \in Threads : Pending(u)' = Pending(u) /\ Claimed(u)' = Claimed(u)
    BY <1>1, <2>1 DEF Spawn, Pending, Claimed, TypeOK
  <2>6. ClaimsAreDisjoint' /\ NoneLost'
    BY <1>1, <2>5 DEF ClaimsAreDisjoint, NoneLost, Spawn
  <2>7. Tallied' = Tallied
    <3>1. {u \in Threads : pc'[u] = "exit"} = {u \in Threads : pc[u] = "exit"}
      BY <1>1, <2>1 DEF Spawn, TypeOK
    <3> QED BY <2>5, <3>1 DEF Tallied
  <2>8. Counts'
    BY <1>1, <2>7, CountsUnchanged DEF Spawn
  <2> QED BY <2>2, <2>3, <2>4, <2>6, <2>8
<1>2. CASE Join \/ Load
  <2>1. UNCHANGED <<spawned, index, count, pc, cur, last, localCount, scanned>>
    BY <1>2 DEF Join, Load
  <2>2. TypeOK'
    BY <1>2 DEF TypeOK, Join, Load
  <2>3. Batches' /\ Exhausted'
    BY <2>1 DEF Batches, Exhausted
  <2>4. MainThread'
    <3>1. CASE Join
      <4>1. answer = None /\ joined \in Nat
        BY <3>1 DEF Join, MainThread, TypeOK
      <4>2. \A t \in Threads : t <= joined' => t <= joined \/ t = joined + 1
        BY <3>1, <4>1 DEF Join, Threads
      <4> QED BY <3>1, <4>1, <4>2 DEF Join, MainThread
    <3>2. CASE Load
      BY <3>2 DEF Load, MainThread
    <3> QED BY <1>2, <3>1, <3>2
  <2>5. ClaimsAreDisjoint' /\ NoneLost'
    BY <2>1 DEF ClaimsAreDisjoint, NoneLost, Claimed, Pending
  <2>6. Counts'
    BY <2>1 DEF Counts, Tallied
  <2> QED BY <2>2, <2>3, <2>4, <2>5, <2>6
<1> QED BY <1>1, <1>2 DEF Main

\* The invariant is inductive.
LEMMA NextIInv == IInv /\ [Next]_vars => IInv'
<1> SUFFICES ASSUME IInv, [Next]_vars PROVE IInv'
  OBVIOUS
<1>1. CASE Main
  BY <1>1, MainStep
<1>2. ASSUME NEW t \in Threads, Worker(t) PROVE IInv'
  BY <1>2, ClaimStep, ScanStep, AddCountStep DEF Worker
<1>3. CASE UNCHANGED vars
  BY <1>3 DEF IInv, TypeOK, Batches, Exhausted, MainThread, ClaimsAreDisjoint, NoneLost,
              Claimed, Pending, Counts, Tallied, vars
<1> QED BY <1>1, <1>2, <1>3 DEF Next

\* The inductive invariant is an invariant of the scan.
THEOREM Invariance == Safety => []IInv
BY InitIInv, NextIInv, PTL DEF Safety

\* Types, disjoint claims and no lost batch are conjuncts of the invariant.
THEOREM TypeCorrect == Safety => []TypeOK
<1>1. IInv => TypeOK
  BY DEF IInv
<1> QED BY Invariance, <1>1, PTL

\* No element is ever worked on twice, neither by two workers nor by one.
THEOREM DisjointClaims == Safety => []ClaimsAreDisjoint
<1>1. IInv => ClaimsAreDisjoint
  BY DEF IInv
<1> QED BY Invariance, <1>1, PTL

\* What is below the shared index is exactly what the workers have claimed.
THEOREM NoElementLost == Safety => []NoneLost
<1>1. IInv => NoneLost
  BY DEF IInv
<1> QED BY Invariance, <1>1, PTL

-----------------------------------------------------------------------------
(* The result.                                                             *)

\* Once all workers are joined, every element has been tallied, so that the
\* total is the number of all matches.
LEMMA AllTallied ==
    ASSUME IInv, joined = NumThreads
    PROVE  count = Cardinality(Matches)
<1> USE ScanAssumption DEF IInv
<1>1. \A t \in Threads : pc[t] = "exit"
  BY DEF MainThread, Threads
<1>2. 1 \in Threads
  BY DEF Threads
<1>3. index >= N
  BY <1>1, <1>2 DEF Exhausted
<1>4. \A e \in Elements : \E t \in Threads : e \in scanned[t]
  <2>1. \A e \in Elements : e < index
    BY <1>3 DEF Elements, TypeOK
  <2>2. \A t \in Threads : Claimed(t) = scanned[t]
    BY <1>1 DEF Claimed, Pending
  <2> QED BY <2>1, <2>2 DEF NoneLost
<1>5. Elements \subseteq Tallied
  BY <1>1, <1>4 DEF Tallied
<1>6. Tallied \cap Matches = Matches
  BY <1>5 DEF Elements
<1>7. Cardinality(Tallied \cap Matches) = Cardinality(Matches)
  BY <1>6, Zenon
<1> QED BY <1>7 DEF Counts

\* The number that the scan returns is the number of elements that match.
THEOREM CountCorrect == Safety => []CountIsRight
<1>1. IInv => CountIsRight
  BY AllTallied DEF IInv, MainThread, CountIsRight
<1> QED BY Invariance, <1>1, PTL

\* No worker is still running, or still to add its count, at that moment.
THEOREM AllWorkersDone == Safety => []NoLateWorker
<1>1. IInv => NoLateWorker
  BY DEF IInv, MainThread, NoLateWorker, Threads
<1> QED BY Invariance, <1>1, PTL

\* The parallel scan implements the count of the matches in one step: every
\* step but the last one is a stutter of the abstract count.
THEOREM Refinement == Safety => Abstract!Safety
<1>1. Init => Abstract!Init
  BY DEF Init, Abstract!Init, None, Abstract!None
<1>2. IInv /\ [Next]_vars => [Abstract!Count]_answer
  <2> SUFFICES ASSUME IInv, [Next]_vars, answer' # answer
               PROVE  Abstract!Count
    OBVIOUS
  <2>1. Load
    BY DEF Next, Main, Worker, Claim, Scan, AddCount, Spawn, Join, vars
  <2>2. answer' = Cardinality(Matches)
    BY <2>1, AllTallied DEF Load
  <2> QED BY <2>1, <2>2 DEF Load, Abstract!Count, None, Abstract!None
<1> QED BY Invariance, <1>1, <1>2, PTL DEF Safety, Abstract!Safety
=============================================================================
