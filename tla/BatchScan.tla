------------------------------ MODULE BatchScan ------------------------------
(***************************************************************************)
(* The parallel scan of a column: the Run functions of                     *)
(* benchmark/measure_multithreaded.cpp, which are the same loop around     *)
(* four kinds of matcher, under runMultithreadedFunction.  Threads claim   *)
(* batches of elements from a shared atomic index, count the matches in    *)
(* them locally, and add their count to a shared atomic total when no      *)
(* element is left; the main thread starts them, joins them in order and   *)
(* reads the total.                                                        *)
(*                                                                         *)
(* One action is one access to shared data, or one element: matching an    *)
(* element only reads, so that it is one step.  scanned is a history       *)
(* variable: the elements each thread has matched so far.                  *)
(***************************************************************************)
EXTENDS Integers, FiniteSets

CONSTANTS
    NumThreads,  \* the template parameter numThreads
    BatchSize,   \* getBatchSize()
    N,           \* the number of elements of the column
    Matches      \* the elements for which the matcher's parse returns true

ASSUME ScanAssumption ==
    /\ NumThreads \in Nat \ {0}
    /\ BatchSize \in Nat \ {0}
    /\ N \in Nat
    /\ Matches \subseteq 0 .. N - 1

Threads == 1 .. NumThreads
Elements == 0 .. N - 1
None == -1

VARIABLES
    spawned, joined, answer,      \* the main thread
    index, count,                 \* the two atomics
    pc, cur, last, localCount,    \* per thread: control, i, end and localCount
    scanned

vars == <<spawned, joined, answer, index, count, pc, cur, last, localCount, scanned>>

Init ==
    /\ spawned = 0
    /\ joined = 0
    /\ answer = None
    /\ index = 0
    /\ count = 0
    /\ pc = [t \in Threads |-> "unborn"]
    /\ cur = [t \in Threads |-> 0]
    /\ last = [t \in Threads |-> 0]
    /\ localCount = [t \in Threads |-> 0]
    /\ scanned = [t \in Threads |-> {}]

-----------------------------------------------------------------------------
(* Deliberate mistakes, each of which one of the properties must reveal.   *)

\* The index is advanced by one element less than a batch holds.
ClaimOverlapping(t) ==
    /\ pc[t] = "claim"
    /\ index' = index + BatchSize - 1
    /\ \/ /\ index >= N
          /\ pc' = [pc EXCEPT ![t] = "add"]
          /\ UNCHANGED <<cur, last>>
       \/ /\ index < N
          /\ pc' = [pc EXCEPT ![t] = "scan"]
          /\ cur' = [cur EXCEPT ![t] = index]
          /\ last' = [last EXCEPT ![t] = IF index + BatchSize < N THEN index + BatchSize ELSE N]
    /\ UNCHANGED <<spawned, joined, answer, count, localCount, scanned>>

\* The loop is left when no full batch remains.
ClaimFullBatches(t) ==
    /\ pc[t] = "claim"
    /\ index' = index + BatchSize
    /\ \/ /\ index + BatchSize > N
          /\ pc' = [pc EXCEPT ![t] = "add"]
          /\ UNCHANGED <<cur, last>>
       \/ /\ index + BatchSize <= N
          /\ pc' = [pc EXCEPT ![t] = "scan"]
          /\ cur' = [cur EXCEPT ![t] = index]
          /\ last' = [last EXCEPT ![t] = index + BatchSize]
    /\ UNCHANGED <<spawned, joined, answer, count, localCount, scanned>>

\* The total is stored instead of added to.
AddCountByStore(t) ==
    /\ pc[t] = "add"
    /\ count' = localCount[t]
    /\ pc' = [pc EXCEPT ![t] = "exit"]
    /\ UNCHANGED <<spawned, joined, answer, index, cur, last, localCount, scanned>>

\* One thread too few, for which the main thread waits all the same.
SpawnOneFewer ==
    /\ spawned < NumThreads - 1
    /\ spawned' = spawned + 1
    /\ pc' = [pc EXCEPT ![spawned + 1] = "claim"]
    /\ UNCHANGED <<joined, answer, index, count, cur, last, localCount, scanned>>

\* The total is read while threads may still run.
LoadBeforeJoin ==
    /\ spawned = NumThreads
    /\ answer = None
    /\ answer' = count
    /\ UNCHANGED <<spawned, joined, index, count, pc, cur, last, localCount, scanned>>

-----------------------------------------------------------------------------
(* A worker.                                                               *)

\* index.fetch_add: take the next batch, or leave the loop.
Claim(t) ==
    /\ pc[t] = "claim"
    /\ index' = index + BatchSize
    /\ \/ /\ index >= N
          /\ pc' = [pc EXCEPT ![t] = "add"]
          /\ UNCHANGED <<cur, last>>
       \/ /\ index < N
          /\ pc' = [pc EXCEPT ![t] = "scan"]
          /\ cur' = [cur EXCEPT ![t] = index]
          /\ last' = [last EXCEPT ![t] = IF index + BatchSize < N THEN index + BatchSize ELSE N]
    /\ UNCHANGED <<spawned, joined, answer, count, localCount, scanned>>

\* One element of the batch.
Scan(t) ==
    /\ pc[t] = "scan"
    /\ localCount' = [localCount EXCEPT ![t] = @ + IF cur[t] \in Matches THEN 1 ELSE 0]
    /\ scanned' = [scanned EXCEPT ![t] = @ \cup {cur[t]}]
    /\ cur' = [cur EXCEPT ![t] = @ + 1]
    /\ pc' = [pc EXCEPT ![t] = IF cur[t] + 1 = last[t] THEN "claim" ELSE "scan"]
    /\ UNCHANGED <<spawned, joined, answer, index, count, last>>

\* count.fetch_add, the last thing a worker does.
AddCount(t) ==
    /\ pc[t] = "add"
    /\ count' = count + localCount[t]
    /\ pc' = [pc EXCEPT ![t] = "exit"]
    /\ UNCHANGED <<spawned, joined, answer, index, cur, last, localCount, scanned>>

Worker(t) == Claim(t) \/ Scan(t) \/ AddCount(t)

-----------------------------------------------------------------------------
(* runMultithreadedFunction, and count.load() behind it.                   *)

Spawn ==
    /\ spawned < NumThreads
    /\ spawned' = spawned + 1
    /\ pc' = [pc EXCEPT ![spawned + 1] = "claim"]
    /\ UNCHANGED <<joined, answer, index, count, cur, last, localCount, scanned>>

Join ==
    /\ spawned = NumThreads
    /\ joined < NumThreads
    /\ pc[joined + 1] = "exit"
    /\ joined' = joined + 1
    /\ UNCHANGED <<spawned, answer, index, count, pc, cur, last, localCount, scanned>>

Load ==
    /\ joined = NumThreads
    /\ answer = None
    /\ answer' = count
    /\ UNCHANGED <<spawned, joined, index, count, pc, cur, last, localCount, scanned>>

Main == Spawn \/ Join \/ Load

Next == Main \/ \E t \in Threads : Worker(t)

\* The operating system runs every thread that can run.
Fairness == WF_vars(Main) /\ \A t \in Threads : WF_vars(Worker(t))
Safety == Init /\ [][Next]_vars
Spec == Safety /\ Fairness

-----------------------------------------------------------------------------
TypeOK ==
    /\ spawned \in 0 .. NumThreads
    /\ joined \in 0 .. NumThreads
    /\ answer \in Nat \cup {None}
    /\ index \in Nat
    /\ count \in Nat
    /\ pc \in [Threads -> {"unborn", "claim", "scan", "add", "exit"}]
    /\ cur \in [Threads -> Nat]
    /\ last \in [Threads -> Nat]
    /\ localCount \in [Threads -> Nat]
    /\ scanned \in [Threads -> SUBSET Elements]

\* The elements a thread has claimed and not matched yet, and all it claimed.
Pending(t) == IF pc[t] = "scan" THEN cur[t] .. last[t] - 1 ELSE {}
Claimed(t) == scanned[t] \cup Pending(t)

\* Two threads never work on the same element, and no thread meets one twice.
ClaimsAreDisjoint ==
    /\ \A t, u \in Threads : t # u => Claimed(t) \cap Claimed(u) = {}
    /\ \A t \in Threads : scanned[t] \cap Pending(t) = {}

\* Every element below the index has been claimed by some thread and belongs
\* to the column: no batch is lost between two fetch_adds or cut short.
NoneLost ==
    /\ \A e \in Elements : e < index => \E t \in Threads : e \in Claimed(t)
    /\ \A t \in Threads : Claimed(t) \subseteq {e \in Elements : e < index}

\* The number the main thread reads is the number of elements that match: no
\* element is counted twice or not at all, and no local count is lost.
CountIsRight == answer # None => answer = Cardinality(Matches)

\* The main thread reads the total after the last worker added to it.
NoLateWorker == answer # None => \A t \in Threads : pc[t] = "exit"

\* The scan comes to an end.
Terminates == <>(answer # None)

\* The scan implements the abstract count of the matches.
Abstract == INSTANCE CountMatches WITH Total <- Cardinality(Matches)
CountsMatches == Abstract!Spec
=============================================================================
