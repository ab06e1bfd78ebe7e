-------------------------- MODULE CollectorProofs --------------------------
(***************************************************************************)
(* Proofs about the queue between receiver and store, for every set of     *)
(* items and workers and every capacity: ItemQueue and its refinement of   *)
(* BoundedHandoff, BlockingItemQueue, and the collector that is put        *)
(* together from them.  The inductive invariant IInv adds to the           *)
(* invariants of ItemQueue what each thread's local state says of the item *)
(* it holds (Hands, Attended) and what an exited worker has seen (Exits).  *)
(***************************************************************************)
EXTENDS Collector, FiniteSetTheorems, TLAPS

-----------------------------------------------------------------------------
(* The inductive invariant.                                                *)

\* A thread holds an item exactly from its poll until it lowers the gauge, or
\* died on it, and from "busy" on process has been called on that item.
Hands ==
  \A w \in Workers :
    /\ worker[w] \in {"polled", "active", "busy", "counted", "dead"} <=> taken[w] # NoItem
    /\ worker[w] \in {"busy", "counted", "dead"} => process[taken[w]] # "none"
    /\ worker[w] = "dead" => process[taken[w]] = "fatal"

\* What close and the exit of a worker leave behind: a worker leaves its loop
\* only when the queue is closed, and from then on none of the items enqueued
\* before close is in the queue.
Exits ==
  /\ running <=> closeFuture = "none"
  /\ running => beforeClose = {}
  /\ beforeClose \subseteq Accepted
  /\ \A w \in Workers : worker[w] = "exited" =>
       ~running /\ \A i \in beforeClose : i \notin Queued
  /\ closeFuture = "done" => \A w \in Workers : worker[w] = "exited"

\* process is only running in the thread that took the item.
Attended ==
  \A i \in Items : process[i] = "running" => \E w \in Busy : taken[w] = i

Shape == TypeOK /\ HandedOverOnce /\ Hands /\ Exits /\ AwaitedToTheEnd /\ Attended

\* Accounting, with the successes counted against the items that succeeded and
\* that no thread awaits any more.
LetGo == {i \in Items : process[i] = "succeeded" /\ \A w \in Busy : taken[w] # i}

Polled == At({"polled"})
InGauge == At({"active", "busy", "counted", "dead"})
Counted == At({"counted"})

\* The other side of the books: what Cardinality(Accepted) is compared with.
Books ==
  (Len(queue) + Cardinality(Polled)) + (activeWorkers - Cardinality(Counted))
    + (successes + failures)

Counting ==
  /\ activeWorkers = Cardinality(InGauge)
  /\ Cardinality(Accepted) = Books
  /\ successes <= Cardinality(LetGo)

IInv == Shape /\ Counting

-----------------------------------------------------------------------------
(* The sequence operations add and poll use.                               *)

LEMMA AppendFacts ==
  ASSUME NEW S, NEW s \in Seq(S), NEW e \in S
  PROVE  /\ Append(s, e) \in Seq(S)
         /\ Len(Append(s, e)) = Len(s) + 1
         /\ \A k \in 1 .. Len(s) : Append(s, e)[k] = s[k]
         /\ Append(s, e)[Len(s) + 1] = e
  OBVIOUS

LEMMA TailFacts ==
  ASSUME NEW S, NEW s \in Seq(S), s # <<>>
  PROVE  /\ Tail(s) \in Seq(S)
         /\ Len(s) \in Nat \ {0}
         /\ Len(Tail(s)) = Len(s) - 1
         /\ \A k \in 1 .. Len(s) - 1 : Tail(s)[k] = s[k + 1]
         /\ Head(s) = s[1] /\ Head(s) \in S
  OBVIOUS

\* What an accepted offer does to the set of queued items.
LEMMA QueuedAppend ==
  ASSUME NEW i \in Items, TypeOK, queue' = Append(queue, i)
  PROVE  Queued' = Queued \cup {i}
<1>1. /\ DOMAIN queue = 1 .. Len(queue) /\ Len(queue) \in Nat
      /\ DOMAIN queue' = 1 .. Len(queue) + 1
  BY AppendFacts DEF TypeOK
<1>2. /\ \A k \in 1 .. Len(queue) : queue'[k] = queue[k]
      /\ queue'[Len(queue) + 1] = i
  BY AppendFacts DEF TypeOK
<1> QED BY <1>1, <1>2 DEF Queued

\* What a successful poll does to it, the queue holding no item twice.
LEMMA QueuedTail ==
  ASSUME TypeOK, HandedOverOnce, queue # <<>>, queue' = Tail(queue)
  PROVE  /\ Head(queue) \in Queued
         /\ Queued' = Queued \ {Head(queue)}
<1>1. /\ DOMAIN queue = 1 .. Len(queue) /\ Len(queue) \in Nat \ {0}
      /\ DOMAIN queue' = 1 .. Len(queue) - 1
  BY TailFacts DEF TypeOK
<1>2. /\ \A k \in 1 .. Len(queue) - 1 : queue'[k] = queue[k + 1]
      /\ Head(queue) = queue[1]
  BY TailFacts DEF TypeOK
<1>3. \A k \in 2 .. Len(queue) : queue[k] # queue[1] /\ queue[k] = queue'[k - 1]
  BY <1>1, <1>2 DEF HandedOverOnce
<1>4. Head(queue) \in Queued
  BY <1>1, <1>2 DEF Queued
<1>5. ASSUME NEW e \in Queued' PROVE e \in Queued \ {Head(queue)}
  <2>1. PICK k \in 1 .. Len(queue) - 1 : e = queue'[k]
    BY <1>1, <1>5 DEF Queued
  <2>2. k + 1 \in 2 .. Len(queue) /\ k + 1 \in DOMAIN queue /\ e = queue[k + 1]
    BY <1>1, <1>2, <2>1
  <2> QED BY <1>2, <1>3, <2>2 DEF Queued
<1>6. ASSUME NEW e \in Queued, e # Head(queue) PROVE e \in Queued'
  <2>1. PICK k \in 1 .. Len(queue) : e = queue[k]
    BY <1>1 DEF Queued
  <2>2. k \in 2 .. Len(queue) /\ k - 1 \in DOMAIN queue' /\ e = queue'[k - 1]
    BY <1>1, <1>2, <1>3, <1>6, <2>1
  <2> QED BY <2>2 DEF Queued
<1> QED BY <1>4, <1>5, <1>6

\* A thread that neither takes an item out nor passes one on.
LEMMA CarriedKept ==
  ASSUME NEW w \in Workers, NEW s \in WorkerStates, TypeOK,
         worker' = [worker EXCEPT ![w] = s],
         worker[w] \in {"polled", "active"} <=> s \in {"polled", "active"},
         \A v \in Workers : worker[v] \in {"polled", "active"} => taken'[v] = taken[v]
  PROVE  Carried' = Carried
<1>1. Carrying' = Carrying
  BY DEF Carrying, At, TypeOK
<1>2. \A v \in Carrying : taken'[v] = taken[v]
  BY DEF Carrying, At
<1> QED BY <1>1, <1>2 DEF Carried

-----------------------------------------------------------------------------
(* IInv holds initially and every step preserves it.                       *)

LEMMA InitShape == Init => Shape
<1> SUFFICES ASSUME Init PROVE Shape
  OBVIOUS
<1> USE SizeAssumption DEF Init
<1>1. TypeOK
  BY DEF TypeOK, CallStates, WorkerStates, ProcessStates
<1>2. Queued = {} /\ Carried = {}
  BY DEF Queued, Carried, Carrying, At
<1>3. HandedOverOnce /\ Hands /\ Exits /\ AwaitedToTheEnd /\ Attended
  BY <1>2 DEF HandedOverOnce, Hands, Exits, AwaitedToTheEnd, Attended, Accepted
<1> QED BY <1>1, <1>3 DEF Shape

LEMMA AddStepShape ==
  ASSUME Shape, NEW i \in Items, AddStep(i)
  PROVE  Shape'
<1> USE DEF Shape, workerVars, closeVars
<1>0. Carried' = Carried /\ Busy' = Busy
  BY DEF AddStep, AddSeesClosed, AddSeesRunning, OfferAccepted, OfferRejected,
         Carried, Carrying, Busy, At
<1>1. CASE AddSeesClosed(i)
  <2>1. TypeOK'
    BY <1>1 DEF AddSeesClosed, TypeOK, CallStates
  <2>2. HandedOverOnce'
    BY <1>0, <1>1 DEF AddSeesClosed, HandedOverOnce, TypeOK, Queued
  <2>3. Hands' /\ Exits' /\ AwaitedToTheEnd' /\ Attended'
    BY <1>0, <1>1 DEF AddSeesClosed, Hands, Exits, AwaitedToTheEnd, Attended, Accepted, TypeOK,
                      Queued
  <2> QED BY <2>1, <2>2, <2>3
<1>2. CASE AddSeesRunning(i)
  <2>1. TypeOK'
    BY <1>2 DEF AddSeesRunning, TypeOK, CallStates
  <2>2. HandedOverOnce'
    BY <1>0, <1>2 DEF AddSeesRunning, HandedOverOnce, TypeOK, Queued
  <2>3. Hands' /\ Exits' /\ AwaitedToTheEnd' /\ Attended'
    BY <1>0, <1>2 DEF AddSeesRunning, Hands, Exits, AwaitedToTheEnd, Attended, Accepted, TypeOK,
                      Queued
  <2> QED BY <2>1, <2>2, <2>3
<1>3. CASE OfferAccepted(i)
  <2>0. /\ Queued' = Queued \cup {i} /\ i \notin Queued \cup Carried /\ process[i] = "none"
    BY <1>3, QueuedAppend DEF OfferAccepted, HandedOverOnce
  <2>1. TypeOK'
    BY <1>3, AppendFacts DEF OfferAccepted, TypeOK, CallStates
  <2>2. /\ Len(queue') <= MaxSize
        /\ \A j, k \in DOMAIN queue' : queue'[j] = queue'[k] => j = k
    <3>1. /\ DOMAIN queue = 1 .. Len(queue) /\ Len(queue) \in Nat
          /\ DOMAIN queue' = 1 .. Len(queue) + 1 /\ Len(queue') = Len(queue) + 1
          /\ \A k \in 1 .. Len(queue) : queue'[k] = queue[k]
          /\ queue'[Len(queue) + 1] = i
      BY <1>3, AppendFacts DEF OfferAccepted, TypeOK
    <3>2. \A k \in 1 .. Len(queue) : queue[k] # i
      BY <2>0, <3>1 DEF Queued
    <3>3. Len(queue') <= MaxSize
      BY <1>3, <3>1, SizeAssumption DEF OfferAccepted
    <3> QED BY <3>1, <3>2, <3>3 DEF HandedOverOnce
  <2>3. HandedOverOnce'
    BY <1>0, <1>3, <2>0, <2>2 DEF OfferAccepted, HandedOverOnce, TypeOK
  <2>4. Hands' /\ AwaitedToTheEnd' /\ Attended'
    BY <1>0, <1>3 DEF OfferAccepted, Hands, AwaitedToTheEnd, Attended, TypeOK
  <2>5. Exits'
    <3>1. i \notin beforeClose /\ Accepted \subseteq Accepted'
      BY <1>3 DEF OfferAccepted, Exits, Accepted, TypeOK
    <3> QED BY <1>3, <2>0, <3>1 DEF OfferAccepted, Exits
  <2> QED BY <2>1, <2>3, <2>4, <2>5
<1>4. CASE OfferRejected(i)
  <2>1. TypeOK'
    BY <1>4 DEF OfferRejected, TypeOK, CallStates
  <2>2. HandedOverOnce'
    BY <1>0, <1>4 DEF OfferRejected, HandedOverOnce, TypeOK, Queued
  <2>3. Hands' /\ Exits' /\ AwaitedToTheEnd' /\ Attended'
    BY <1>0, <1>4 DEF OfferRejected, Hands, Exits, AwaitedToTheEnd, Attended, Accepted, TypeOK,
                      Queued
  <2> QED BY <2>1, <2>2, <2>3
<1> QED BY <1>1, <1>2, <1>3, <1>4 DEF AddStep

\* The sets the counters are compared with are finite.
LEMMA FiniteCounts ==
  /\ IsFiniteSet(Polled) /\ Cardinality(Polled) \in Nat
  /\ IsFiniteSet(InGauge) /\ Cardinality(InGauge) \in Nat
  /\ IsFiniteSet(Counted) /\ Cardinality(Counted) \in Nat
  /\ IsFiniteSet(Accepted) /\ Cardinality(Accepted) \in Nat
  /\ IsFiniteSet(LetGo) /\ Cardinality(LetGo) \in Nat
<1>1. /\ Polled \subseteq Workers /\ InGauge \subseteq Workers /\ Counted \subseteq Workers
      /\ Accepted \subseteq Items /\ LetGo \subseteq Items
  BY DEF Polled, InGauge, Counted, At, Accepted, LetGo
<1> QED BY <1>1, FS_Subset, FS_CardinalityType, FiniteAssumption

\* Until a thread lowers the gauge it is positive.
LEMMA CountedInGauge ==
  ASSUME Counting, NEW w \in Workers, worker[w] = "counted"
  PROVE  activeWorkers \in Nat \ {0}
<1>1. w \in InGauge
  BY DEF InGauge, At
<1>2. Cardinality(InGauge) # 0
  BY <1>1, FiniteCounts, FS_EmptySet
<1> QED BY <1>2, FiniteCounts DEF Counting

LEMMA WorkerStepShape ==
  ASSUME IInv, NEW w \in Workers, WorkerStep(w)
  PROVE  Shape'
<1> USE NoItemAssumption DEF IInv, Shape, addVars, closeVars
<1>1. CASE LoopContinues(w)
  <2>1. TypeOK'
    BY <1>1 DEF LoopContinues, TypeOK, WorkerStates
  <2>2. Carried' = Carried /\ Busy' = Busy
    BY <1>1, CarriedKept DEF LoopContinues, WorkerStates, Busy, At, TypeOK
  <2>3. HandedOverOnce'
    BY <1>1, <2>2 DEF LoopContinues, HandedOverOnce, Queued
  <2>4. Hands' /\ Exits' /\ AwaitedToTheEnd' /\ Attended'
    BY <1>1, <2>2 DEF LoopContinues, Hands, Exits, AwaitedToTheEnd, Attended, Accepted, Queued,
                      TypeOK
  <2> QED BY <2>1, <2>3, <2>4
<1>2. CASE LoopExits(w)
  <2>1. TypeOK'
    BY <1>2 DEF LoopExits, TypeOK, WorkerStates
  <2>2. Carried' = Carried /\ Busy' = Busy
    BY <1>2, CarriedKept DEF LoopExits, WorkerStates, Busy, At, TypeOK
  <2>3. HandedOverOnce'
    BY <1>2, <2>2 DEF LoopExits, HandedOverOnce, Queued
  <2>4. Hands' /\ AwaitedToTheEnd' /\ Attended'
    BY <1>2, <2>2 DEF LoopExits, Hands, AwaitedToTheEnd, Attended, TypeOK
  <2>5. Queued = {} /\ Queued' = {}
    BY <1>2 DEF LoopExits, Queued
  <2>6. Exits'
    BY <1>2, <2>5 DEF LoopExits, Exits, Accepted, TypeOK
  <2> QED BY <2>1, <2>3, <2>4, <2>6
<1>3. CASE PollTimesOut(w)
  <2>1. TypeOK'
    BY <1>3 DEF PollTimesOut, TypeOK, WorkerStates
  <2>2. Carried' = Carried /\ Busy' = Busy
    BY <1>3, CarriedKept DEF PollTimesOut, WorkerStates, Busy, At, TypeOK
  <2>3. HandedOverOnce'
    BY <1>3, <2>2 DEF PollTimesOut, HandedOverOnce, Queued
  <2>4. Hands' /\ Exits' /\ AwaitedToTheEnd' /\ Attended'
    BY <1>3, <2>2 DEF PollTimesOut, Hands, Exits, AwaitedToTheEnd, Attended, Accepted, Queued,
                      TypeOK
  <2> QED BY <2>1, <2>3, <2>4
<1>4. CASE PollTakes(w)
  <2> DEFINE i == Head(queue)
  <2>0. /\ i \in Items /\ i \in Queued /\ Queued' = Queued \ {i}
        /\ call[i] = "accepted" /\ process[i] = "none" /\ taken[w] = NoItem
        /\ i \notin Carried
    BY <1>4, TailFacts, QueuedTail DEF PollTakes, TypeOK, HandedOverOnce, Hands
  <2> HIDE DEF i
  <2>1. TypeOK'
    BY <1>4, <2>0, TailFacts DEF PollTakes, TypeOK, WorkerStates, i
  <2>2. /\ Len(queue') <= MaxSize
        /\ \A j, k \in DOMAIN queue' : queue'[j] = queue'[k] => j = k
    <3>1. /\ DOMAIN queue = 1 .. Len(queue) /\ Len(queue) \in Nat \ {0}
          /\ DOMAIN queue' = 1 .. Len(queue) - 1 /\ Len(queue') = Len(queue) - 1
          /\ \A k \in 1 .. Len(queue) - 1 : queue'[k] = queue[k + 1]
      BY <1>4, TailFacts DEF PollTakes, TypeOK
    <3>2. Len(queue) <= MaxSize
      BY DEF HandedOverOnce
    <3>3. ASSUME NEW j \in DOMAIN queue', NEW k \in DOMAIN queue', queue'[j] = queue'[k]
          PROVE  j = k
      <4>1. /\ j + 1 \in DOMAIN queue /\ k + 1 \in DOMAIN queue
            /\ queue[j + 1] = queue[k + 1]
        BY <3>1, <3>3
      <4>2. j + 1 = k + 1
        BY <4>1 DEF HandedOverOnce
      <4> QED BY <3>1, <4>2
    <3> QED BY <3>1, <3>2, <3>3, SizeAssumption
  <2>3. /\ process' = process
        /\ taken' = [taken EXCEPT ![w] = i]
        /\ worker' = [worker EXCEPT ![w] = "polled"]
        /\ worker[w] = "poll" /\ call' = call
        /\ UNCHANGED <<running, closeFuture, beforeClose>>
    BY <1>4 DEF PollTakes, i
  <2>4. \A v \in Workers : taken[v] # i
    <3>1. ASSUME NEW v \in Workers, taken[v] = i PROVE FALSE
      <4>1. worker[v] \in {"polled", "active"}
        BY <2>0, <3>1 DEF Hands
      <4> QED BY <2>0, <3>1, <4>1 DEF Carried, Carrying, At
    <3> QED BY <3>1
  <2>5. Carried' = Carried \cup {i} /\ Busy' = Busy
    <3>1. Carrying' = Carrying \cup {w} /\ w \notin Carrying /\ Busy' = Busy
      BY <2>3 DEF Carrying, Busy, At, TypeOK
    <3>2. taken'[w] = i /\ \A v \in Carrying : taken'[v] = taken[v]
      BY <2>3, <3>1 DEF TypeOK, Carrying, At
    <3> QED BY <3>1, <3>2 DEF Carried
  <2>6. HandedOverOnce'
    <3>1. \A u, v \in Workers : taken'[u] = taken'[v] /\ taken'[u] # NoItem => u = v
      BY <2>0, <2>3, <2>4 DEF HandedOverOnce, TypeOK
    <3>2. Queued' \cup Carried' = Queued \cup Carried /\ Queued' \cap Carried' = {}
      BY <2>0, <2>5 DEF HandedOverOnce
    <3> QED BY <2>2, <2>3, <3>1, <3>2 DEF HandedOverOnce
  <2>7. Hands'
    BY <2>0, <2>3 DEF Hands, TypeOK
  <2>8. Exits'
    BY <2>0, <2>3 DEF Exits, Accepted, TypeOK
  <2>9. AwaitedToTheEnd' /\ Attended'
    BY <2>3, <2>5 DEF AwaitedToTheEnd, Attended, Busy, At, TypeOK
  <2> QED BY <2>1, <2>6, <2>7, <2>8, <2>9
<1>5. CASE RaisesGauge(w)
  <2>1. TypeOK'
    BY <1>5 DEF RaisesGauge, TypeOK, WorkerStates
  <2>2. Carried' = Carried /\ Busy' = Busy
    BY <1>5, CarriedKept DEF RaisesGauge, WorkerStates, Busy, At, TypeOK
  <2>3. HandedOverOnce'
    BY <1>5, <2>2 DEF RaisesGauge, HandedOverOnce, Queued
  <2>4. Hands' /\ Exits' /\ AwaitedToTheEnd' /\ Attended'
    BY <1>5, <2>2 DEF RaisesGauge, Hands, Exits, AwaitedToTheEnd, Attended, Accepted, Queued,
                      TypeOK
  <2> QED BY <2>1, <2>3, <2>4
<1>6. CASE CallsProcess(w)
  <2>0. PICK i \in Items : i = taken[w]
    BY <1>6 DEF CallsProcess, Hands, TypeOK
  <2>1. /\ process' = [process EXCEPT ![i] = "running"]
        /\ worker[w] = "active" /\ worker' = [worker EXCEPT ![w] = "busy"]
        /\ UNCHANGED <<queue, call, taken, running, closeFuture, beforeClose>>
    BY <1>6, <2>0 DEF CallsProcess
  <2>2. i \in Carried /\ call[i] = "accepted" /\ process[i] = "none" /\ i \notin Queued
    <3>1. i \in Carried
      BY <2>0, <2>1 DEF Carried, Carrying, At
    <3> QED BY <3>1 DEF HandedOverOnce
  <2>3. \A v \in Workers : v # w => taken[v] # i
    BY <2>0 DEF HandedOverOnce
  <2>4. TypeOK'
    BY <1>6, <2>1 DEF CallsProcess, TypeOK, WorkerStates, ProcessStates
  <2>5. Carried' = Carried \ {i} /\ Busy' = Busy \cup {w} /\ Queued' = Queued
    <3>1. Carrying' = Carrying \ {w} /\ w \in Carrying /\ Busy' = Busy \cup {w}
      BY <2>1 DEF Carrying, Busy, At, TypeOK
    <3>2. \A v \in Carrying \ {w} : taken[v] # i
      BY <2>3 DEF Carrying, At
    <3> QED BY <2>0, <2>1, <3>1, <3>2 DEF Carried, Queued
  <2>6. HandedOverOnce'
    BY <2>1, <2>2, <2>5 DEF HandedOverOnce, TypeOK
  <2>7. Hands'
    BY <2>0, <2>1, <2>2, <2>3 DEF Hands, TypeOK
  <2>8. Exits'
    BY <2>1, <2>5 DEF Exits, Accepted, TypeOK
  <2>9. AwaitedToTheEnd' /\ Attended'
    BY <2>0, <2>1, <2>5 DEF AwaitedToTheEnd, Attended, TypeOK
  <2> QED BY <2>4, <2>6, <2>7, <2>8, <2>9
<1>7. ASSUME worker[w] = "busy", AwaitEnds(w),
             successes' \in Nat, failures' \in Nat,
             process[taken[w]] # "running",
             HasTimeout \/ process[taken[w]] \in {"succeeded", "failed"}
      PROVE  Shape'
  <2>1. TypeOK'
    BY <1>7 DEF AwaitEnds, TypeOK, WorkerStates
  <2>2. Carried' = Carried /\ Busy' = Busy \ {w}
    BY <1>7, CarriedKept DEF AwaitEnds, WorkerStates, Busy, At, TypeOK
  <2>3. HandedOverOnce'
    BY <1>7, <2>2 DEF AwaitEnds, HandedOverOnce, Queued
  <2>4. Hands' /\ Exits'
    BY <1>7 DEF AwaitEnds, Hands, Exits, Accepted, Queued, TypeOK
  <2>5. AwaitedToTheEnd' /\ Attended'
    BY <1>7, <2>2 DEF AwaitEnds, AwaitedToTheEnd, Attended, TypeOK
  <2> QED BY <2>1, <2>3, <2>4, <2>5
<1>8. CASE WorkerDies(w)
  <2>1. TypeOK'
    BY <1>8 DEF WorkerDies, TypeOK, WorkerStates
  <2>2. Carried' = Carried /\ Busy' = Busy \ {w}
    BY <1>8, CarriedKept DEF WorkerDies, WorkerStates, Busy, At, TypeOK
  <2>3. HandedOverOnce'
    BY <1>8, <2>2 DEF WorkerDies, HandedOverOnce, Queued
  <2>4. Hands' /\ Exits' /\ AwaitedToTheEnd' /\ Attended'
    BY <1>8, <2>2 DEF WorkerDies, Hands, Exits, AwaitedToTheEnd, Attended, Accepted, Queued,
                      TypeOK
  <2> QED BY <2>1, <2>3, <2>4
<1>9. CASE LowersGauge(w)
  <2>0. activeWorkers' \in Nat
    BY <1>9, CountedInGauge DEF LowersGauge
  <2>1. TypeOK'
    BY <1>9, <2>0 DEF LowersGauge, TypeOK, WorkerStates
  <2>2. Carried' = Carried /\ Busy' = Busy
    BY <1>9, CarriedKept DEF LowersGauge, WorkerStates, Busy, At, TypeOK
  <2>3. HandedOverOnce'
    BY <1>9, <2>2 DEF LowersGauge, HandedOverOnce, Queued, TypeOK
  <2>4. Hands' /\ Exits'
    BY <1>9 DEF LowersGauge, Hands, Exits, Accepted, Queued, TypeOK
  <2>5. \A v \in Busy : taken'[v] = taken[v]
    BY <1>9 DEF LowersGauge, Busy, At, TypeOK
  <2>6. AwaitedToTheEnd' /\ Attended'
    BY <1>9, <2>2, <2>5 DEF LowersGauge, AwaitedToTheEnd, Attended, TypeOK
  <2> QED BY <2>1, <2>3, <2>4, <2>6
<1> QED BY <1>1, <1>2, <1>3, <1>4, <1>5, <1>6, <1>7, <1>8, <1>9
        DEF WorkerStep, AwaitReturns, AwaitThrows, AwaitTimesOut, TypeOK

LEMMA ProcessStepShape ==
  ASSUME Shape, NEW i \in Items, ProcessReturns(i) \/ ProcessCompletes(i)
  PROVE  Shape'
<1>1. PICK r \in ProcessStates \ {"none", "running"} :
        /\ process[i] \in {"running", "pending"}
        /\ process' = [process EXCEPT ![i] = r]
        /\ r = "pending" => process[i] = "running"
  BY DEF ProcessReturns, ProcessCompletes, ProcessStates, Outcomes
<1>2. UNCHANGED <<addVars, workerVars, closeVars>>
  BY DEF ProcessReturns, ProcessCompletes
<1> USE <1>1, <1>2 DEF Shape, addVars, workerVars, closeVars
<1>3. TypeOK'
  BY DEF TypeOK
<1>4. Carried' = Carried /\ Busy' = Busy /\ Queued' = Queued
  BY DEF Carried, Carrying, Busy, At, Queued
<1>5. HandedOverOnce'
  BY <1>4 DEF HandedOverOnce, TypeOK
<1>6. Hands'
  BY DEF Hands, TypeOK
<1>7. Exits' /\ AwaitedToTheEnd' /\ Attended'
  BY <1>4 DEF Exits, AwaitedToTheEnd, Attended, Accepted, TypeOK
<1> QED BY <1>3, <1>5, <1>6, <1>7

LEMMA CloseStepShape ==
  ASSUME Shape, CloseStep
  PROVE  Shape'
<1> USE DEF Shape, addVars, workerVars
<1>1. CASE Close
  <2>1. TypeOK'
    BY <1>1 DEF Close, TypeOK, Accepted
  <2>2. HandedOverOnce' /\ Hands' /\ AwaitedToTheEnd' /\ Attended'
    BY <1>1 DEF Close, HandedOverOnce, Hands, AwaitedToTheEnd, Attended, Queued, Carried, Carrying,
                     Busy, At
  <2>3. Exits'
    BY <1>1 DEF Close, Exits, Accepted, Queued, HandedOverOnce
  <2> QED BY <2>1, <2>2, <2>3
<1>2. CASE CloseCompletes
  <2>1. TypeOK'
    BY <1>2 DEF CloseCompletes, TypeOK
  <2>2. HandedOverOnce' /\ Hands' /\ AwaitedToTheEnd' /\ Attended'
    BY <1>2 DEF CloseCompletes, HandedOverOnce, Hands, AwaitedToTheEnd, Attended, Queued, Carried, Carrying,
                     Busy, At
  <2>3. Exits'
    BY <1>2 DEF CloseCompletes, Exits, Accepted, Queued
  <2> QED BY <2>1, <2>2, <2>3
<1>3. CASE CloseFails
  <2>1. TypeOK'
    BY <1>3 DEF CloseFails, TypeOK
  <2>2. HandedOverOnce' /\ Hands' /\ AwaitedToTheEnd' /\ Attended'
    BY <1>3 DEF CloseFails, HandedOverOnce, Hands, AwaitedToTheEnd, Attended, Queued, Carried, Carrying,
                     Busy, At
  <2>3. Exits'
    BY <1>3 DEF CloseFails, Exits, Accepted, Queued
  <2> QED BY <2>1, <2>2, <2>3
<1> QED BY <1>1, <1>2, <1>3 DEF CloseStep
-----------------------------------------------------------------------------
(* The counters.                                                           *)

LEMMA InitCounting == Init => Counting
<1> SUFFICES ASSUME Init PROVE Counting
  OBVIOUS
<1>1. Polled = {} /\ InGauge = {} /\ Counted = {} /\ Accepted = {}
  BY DEF Init, Polled, InGauge, Counted, At, Accepted
<1>2. Len(queue) = 0 /\ activeWorkers = 0 /\ successes = 0 /\ failures = 0
  BY DEF Init
<1> QED BY <1>1, <1>2, FS_EmptySet, FiniteCounts DEF Counting, Books

\* A step that changes neither the threads nor the counters nor what is
\* accepted, and lets no succeeded item disappear, keeps the books.
LEMMA CountingUnchanged ==
  ASSUME Counting,
         Polled' = Polled, InGauge' = InGauge, Counted' = Counted,
         Accepted' = Accepted, LetGo \subseteq LetGo',
         Len(queue') = Len(queue),
         UNCHANGED <<activeWorkers, successes, failures>>,
         successes \in Nat
  PROVE  Counting'
<1>1. IsFiniteSet(LetGo') /\ Cardinality(LetGo) <= Cardinality(LetGo')
  <2>1. LetGo' \subseteq Items
    BY DEF LetGo
  <2>2. IsFiniteSet(LetGo')
    BY <2>1, FS_Subset, FiniteAssumption
  <2> QED BY <2>2, FS_Subset
<1>2. Cardinality(LetGo) \in Nat /\ Cardinality(LetGo') \in Nat
  BY <1>1, FiniteCounts, FS_CardinalityType
<1>3. successes' <= Cardinality(LetGo')
  BY <1>1, <1>2 DEF Counting
<1> QED BY <1>3 DEF Counting, Books

\* The threads enter the counts through where they stand, and through what the
\* busy ones hold.
LEMMA CountedByPlace ==
  ASSUME UNCHANGED worker
  PROVE  Polled' = Polled /\ InGauge' = InGauge /\ Counted' = Counted /\ Busy' = Busy
BY DEF Polled, InGauge, Counted, Busy, At

LEMMA AddStepCounting ==
  ASSUME IInv, NEW i \in Items, AddStep(i)
  PROVE  Counting'
<1> USE DEF IInv, Shape, workerVars, closeVars
<1>1. Polled' = Polled /\ InGauge' = InGauge /\ Counted' = Counted /\ LetGo' = LetGo
  BY CountedByPlace DEF AddStep, AddSeesClosed, AddSeesRunning, OfferAccepted, OfferRejected,
         LetGo
<1>2. UNCHANGED <<activeWorkers, successes, failures>> /\ successes \in Nat
  BY DEF AddStep, AddSeesClosed, AddSeesRunning, OfferAccepted, OfferRejected, TypeOK
<1>3. CASE OfferAccepted(i)
  <2>1. i \notin Accepted /\ Accepted' = Accepted \cup {i}
    BY <1>3 DEF OfferAccepted, Accepted, TypeOK
  <2>2. Cardinality(Accepted') = Cardinality(Accepted) + 1
    BY <2>1, FS_AddElement, FiniteCounts
  <2>3. Len(queue') = Len(queue) + 1 /\ Len(queue) \in Nat
    BY <1>3, AppendFacts DEF OfferAccepted, TypeOK
  <2>4. /\ activeWorkers \in Nat /\ failures \in Nat
        /\ Cardinality(Accepted) \in Nat /\ Cardinality(Counted) \in Nat
        /\ Cardinality(Polled) \in Nat
    BY FiniteCounts DEF TypeOK
  <2>5. Books' = Books + 1
    BY <1>1, <1>2, <2>3, <2>4 DEF Books
  <2>6. Cardinality(Accepted') = Books'
    BY <2>2, <2>5 DEF Counting
  <2> QED BY <1>1, <1>2, <2>6 DEF Counting
<1>4. CASE ~OfferAccepted(i)
  <2>1. Accepted' = Accepted /\ queue' = queue
    BY <1>4 DEF AddStep, AddSeesClosed, AddSeesRunning, OfferRejected, Accepted, TypeOK
  <2> QED BY <1>1, <1>2, <2>1, CountingUnchanged
<1> QED BY <1>3, <1>4

\* The same when the changes cancel out.
LEMMA CountingBalanced ==
  ASSUME Counting, Books' = Books, Accepted' = Accepted,
         activeWorkers' = Cardinality(InGauge'),
         successes' <= Cardinality(LetGo')
  PROVE  Counting'
BY DEF Counting

LEMMA WorkerStepCounting ==
  ASSUME IInv, NEW w \in Workers, WorkerStep(w)
  PROVE  Counting'
<1> USE NoItemAssumption DEF IInv, Shape, addVars, closeVars
<1>0. /\ activeWorkers \in Nat /\ failures \in Nat /\ successes \in Nat
      /\ Len(queue) \in Nat
      /\ Cardinality(Polled) \in Nat /\ Cardinality(InGauge) \in Nat
      /\ Cardinality(Counted) \in Nat /\ Cardinality(LetGo) \in Nat
  BY FiniteCounts DEF TypeOK
<1>1. CASE LoopContinues(w) \/ LoopExits(w) \/ PollTimesOut(w)
  <2>1. /\ Polled' = Polled /\ InGauge' = InGauge /\ Counted' = Counted /\ Busy' = Busy
        /\ Accepted' = Accepted
    BY <1>1 DEF LoopContinues, LoopExits, PollTimesOut, Polled, InGauge, Counted, Busy, At,
                Accepted, TypeOK
  <2>2. UNCHANGED <<queue, activeWorkers, successes, failures, taken, process>>
    BY <1>1 DEF LoopContinues, LoopExits, PollTimesOut
  <2>3. LetGo' = LetGo
    BY <2>1, <2>2 DEF LetGo
  <2> QED BY <1>0, <2>1, <2>2, <2>3, CountingUnchanged
<1>2. CASE PollTakes(w)
  <2>1. /\ w \notin Polled /\ Polled' = Polled \cup {w}
        /\ InGauge' = InGauge /\ Counted' = Counted /\ Busy' = Busy
        /\ Accepted' = Accepted
    BY <1>2 DEF PollTakes, Polled, InGauge, Counted, Busy, At, Accepted, TypeOK
  <2>2. \A v \in Busy : taken'[v] = taken[v]
    BY <1>2 DEF PollTakes, Busy, At, TypeOK
  <2>3. LetGo' = LetGo
    BY <1>2, <2>1, <2>2 DEF PollTakes, LetGo
  <2>4. Cardinality(Polled') = Cardinality(Polled) + 1
    BY <2>1, FS_AddElement, FiniteCounts
  <2>5. Len(queue') = Len(queue) + (-1)
    BY <1>2, TailFacts DEF PollTakes, TypeOK
  <2>6. UNCHANGED <<activeWorkers, successes, failures>>
    BY <1>2 DEF PollTakes
  <2>7. Books' = Books
    BY <1>0, <2>1, <2>4, <2>5, <2>6 DEF Books
  <2> QED BY <2>1, <2>3, <2>6, <2>7, CountingBalanced DEF Counting
<1>3. CASE RaisesGauge(w)
  <2>1. /\ w \in Polled /\ Polled' = Polled \ {w}
        /\ w \notin InGauge /\ InGauge' = InGauge \cup {w}
        /\ Counted' = Counted /\ Busy' = Busy /\ Accepted' = Accepted
    BY <1>3 DEF RaisesGauge, Polled, InGauge, Counted, Busy, At, Accepted, TypeOK
  <2>2. /\ Cardinality(Polled') = Cardinality(Polled) + (-1)
        /\ Cardinality(InGauge') = Cardinality(InGauge) + 1
    BY <1>0, <2>1, FS_AddElement, FS_RemoveElement, FiniteCounts
  <2>3. /\ LetGo' = LetGo /\ activeWorkers' = activeWorkers + 1
        /\ UNCHANGED <<queue, successes, failures>>
    BY <1>3, <2>1 DEF RaisesGauge, LetGo
  <2>4. Books' = Books
    BY <1>0, <2>1, <2>2, <2>3 DEF Books
  <2> QED BY <2>1, <2>2, <2>3, <2>4, CountingBalanced DEF Counting
<1>4. CASE CallsProcess(w)
  <2>0. PICK i \in Items : i = taken[w]
    BY <1>4 DEF CallsProcess, Hands, TypeOK
  <2>1. /\ Polled' = Polled /\ InGauge' = InGauge /\ Counted' = Counted
        /\ Busy' = Busy \cup {w} /\ Accepted' = Accepted
    BY <1>4 DEF CallsProcess, Polled, InGauge, Counted, Busy, At, Accepted, TypeOK
  <2>2. process[i] = "none"
    <3>1. i \in Carried
      BY <1>4, <2>0 DEF CallsProcess, Carried, Carrying, At
    <3> QED BY <3>1 DEF HandedOverOnce
  <2>3. /\ UNCHANGED <<queue, activeWorkers, successes, failures, taken>>
        /\ process' = [process EXCEPT ![i] = "running"]
    BY <1>4, <2>0 DEF CallsProcess
  <2>4. LetGo' = LetGo
    BY <2>0, <2>1, <2>2, <2>3 DEF LetGo, TypeOK
  <2> QED BY <1>0, <2>1, <2>3, <2>4, CountingUnchanged
<1>5. ASSUME worker[w] = "busy", AwaitEnds(w)
      PROVE  /\ Cardinality(Counted') = Cardinality(Counted) + 1
             /\ Polled' = Polled /\ InGauge' = InGauge /\ Accepted' = Accepted
             /\ queue' = queue /\ activeWorkers' = activeWorkers
             /\ LetGo' = LetGo \cup (IF process[taken[w]] = "succeeded"
                                       THEN {taken[w]} ELSE {})
             /\ taken[w] \in Items /\ taken[w] \notin LetGo
  <2>1. /\ w \in Busy /\ Busy' = Busy \ {w}
        /\ w \notin Counted /\ Counted' = Counted \cup {w}
        /\ Polled' = Polled /\ InGauge' = InGauge /\ Accepted' = Accepted
    BY <1>5 DEF AwaitEnds, Busy, Counted, Polled, InGauge, At, Accepted, TypeOK
  <2>2. Cardinality(Counted') = Cardinality(Counted) + 1
    BY <2>1, FS_AddElement, FiniteCounts
  <2>3. taken[w] \in Items /\ taken[w] \notin LetGo
    BY <1>5, <2>1 DEF Hands, TypeOK, LetGo
  <2>4. \A v \in Workers : v # w => taken[v] # taken[w]
    BY <2>3 DEF HandedOverOnce
  <2>5. \A i \in Items : (\A v \in Busy' : taken[v] # i)
                           <=> (i = taken[w] \/ \A v \in Busy : taken[v] # i)
    BY <2>1, <2>3, <2>4 DEF Busy, At
  <2>6. UNCHANGED <<taken, process, queue, activeWorkers>>
    BY <1>5 DEF AwaitEnds
  <2>7. LetGo' = LetGo \cup (IF process[taken[w]] = "succeeded" THEN {taken[w]} ELSE {})
    BY <2>3, <2>5, <2>6 DEF LetGo
  <2> QED BY <2>1, <2>2, <2>3, <2>6, <2>7
<1>6. CASE AwaitReturns(w)
  <2>1. LetGo' = LetGo \cup {taken[w]} /\ taken[w] \notin LetGo
    BY <1>5, <1>6 DEF AwaitReturns
  <2>2. Cardinality(LetGo') = Cardinality(LetGo) + 1
    BY <2>1, FS_AddElement, FiniteCounts
  <2>3. successes' = successes + 1 /\ failures' = failures
    BY <1>6 DEF AwaitReturns
  <2>4. /\ Cardinality(Counted') = Cardinality(Counted) + 1
        /\ Polled' = Polled /\ InGauge' = InGauge
        /\ Accepted' = Accepted /\ queue' = queue /\ activeWorkers' = activeWorkers
    BY <1>5, <1>6 DEF AwaitReturns
  <2>5. Books' = Books
    BY <1>0, <2>3, <2>4 DEF Books
  <2>6. successes' <= Cardinality(LetGo')
    BY <1>0, <2>2, <2>3 DEF Counting
  <2> QED BY <2>4, <2>5, <2>6, CountingBalanced DEF Counting
<1>7. CASE AwaitThrows(w) \/ AwaitTimesOut(w)
  <2>1. LetGo' = LetGo
    BY <1>5, <1>7 DEF AwaitThrows, AwaitTimesOut
  <2>2. failures' = failures + 1 /\ successes' = successes
    BY <1>7 DEF AwaitThrows, AwaitTimesOut
  <2>3. /\ Cardinality(Counted') = Cardinality(Counted) + 1
        /\ Polled' = Polled /\ InGauge' = InGauge
        /\ Accepted' = Accepted /\ queue' = queue /\ activeWorkers' = activeWorkers
    BY <1>5, <1>7 DEF AwaitThrows, AwaitTimesOut
  <2>4. Books' = Books
    BY <1>0, <2>2, <2>3 DEF Books
  <2> QED BY <2>1, <2>2, <2>3, <2>4, CountingBalanced DEF Counting
<1>8. CASE WorkerDies(w)
  <2>1. /\ Busy' = Busy \ {w} /\ Polled' = Polled /\ InGauge' = InGauge /\ Counted' = Counted
        /\ Accepted' = Accepted
    BY <1>8 DEF WorkerDies, Busy, Polled, InGauge, Counted, At, Accepted, TypeOK
  <2>2. process[taken[w]] # "succeeded" /\ UNCHANGED <<queue, taken, process>>
    BY <1>8 DEF WorkerDies
  <2>3. LetGo' = LetGo
    BY <2>1, <2>2 DEF LetGo
  <2>4. UNCHANGED <<queue, activeWorkers, successes, failures>>
    BY <1>8 DEF WorkerDies
  <2> QED BY <1>0, <2>1, <2>3, <2>4, CountingUnchanged
<1>9. CASE LowersGauge(w)
  <2>1. /\ w \in Counted /\ Counted' = Counted \ {w}
        /\ w \in InGauge /\ InGauge' = InGauge \ {w}
        /\ Polled' = Polled /\ Busy' = Busy /\ Accepted' = Accepted
    BY <1>9 DEF LowersGauge, Polled, InGauge, Counted, Busy, At, Accepted, TypeOK
  <2>2. /\ Cardinality(Counted') = Cardinality(Counted) + (-1)
        /\ Cardinality(InGauge') = Cardinality(InGauge) + (-1)
    BY <1>0, <2>1, FS_RemoveElement, FiniteCounts
  <2>3. \A v \in Busy : taken'[v] = taken[v]
    BY <1>9 DEF LowersGauge, Busy, At, TypeOK
  <2>4. LetGo' = LetGo
    BY <1>9, <2>1, <2>3 DEF LowersGauge, LetGo
  <2>5. activeWorkers' = activeWorkers + (-1) /\ UNCHANGED <<queue, successes, failures>>
    BY <1>0, <1>9 DEF LowersGauge
  <2>6. Books' = Books
    BY <1>0, <2>1, <2>2, <2>5 DEF Books
  <2> QED BY <2>1, <2>2, <2>4, <2>5, <2>6, CountingBalanced DEF Counting
<1> QED BY <1>1, <1>2, <1>3, <1>4, <1>6, <1>7, <1>8, <1>9 DEF WorkerStep

LEMMA ProcessStepCounting ==
  ASSUME IInv, NEW i \in Items, ProcessReturns(i) \/ ProcessCompletes(i)
  PROVE  Counting'
<1> USE DEF IInv, Shape, addVars, workerVars, closeVars
<1>1. /\ Polled' = Polled /\ InGauge' = InGauge /\ Counted' = Counted /\ Busy' = Busy
      /\ Accepted' = Accepted
      /\ UNCHANGED <<queue, activeWorkers, successes, failures>>
  BY CountedByPlace DEF ProcessReturns, ProcessCompletes, Accepted
<1>2. LetGo \subseteq LetGo'
  BY <1>1 DEF ProcessReturns, ProcessCompletes, LetGo, TypeOK
<1> QED BY <1>1, <1>2, CountingUnchanged DEF TypeOK

LEMMA CloseStepCounting ==
  ASSUME IInv, CloseStep
  PROVE  Counting'
<1>1. UNCHANGED <<queue, call, worker, taken, process, activeWorkers, successes, failures>>
  BY DEF CloseStep, Close, CloseCompletes, CloseFails, addVars, workerVars
<1>2. /\ Polled' = Polled /\ InGauge' = InGauge /\ Counted' = Counted
      /\ Accepted' = Accepted /\ LetGo' = LetGo
  BY <1>1, CountedByPlace DEF Accepted, LetGo
<1> QED BY <1>1, <1>2, CountingUnchanged DEF IInv, Shape, TypeOK

LEMMA UnchangedIInv ==
  ASSUME IInv, UNCHANGED vars
  PROVE  IInv'
<1>1. /\ Queued' = Queued /\ Carried' = Carried /\ Busy' = Busy /\ Accepted' = Accepted
      /\ Polled' = Polled /\ InGauge' = InGauge /\ Counted' = Counted
  BY CountedByPlace DEF Queued, Carried, Carrying, At, Accepted, vars
<1>2. Shape'
  BY <1>1 DEF IInv, Shape, TypeOK, HandedOverOnce, Hands, Exits, AwaitedToTheEnd, Attended, vars
<1>3. LetGo' = LetGo
  BY <1>1 DEF LetGo, vars
<1>4. Counting'
  BY <1>1, <1>3 DEF IInv, Counting, Books, vars
<1> QED BY <1>2, <1>4 DEF IInv

-----------------------------------------------------------------------------
(* What IInv implies.                                                      *)

LEMMA DrainedByIInv ==
  ASSUME Workers # {}
  PROVE  IInv => DrainedOnClose
<1> SUFFICES ASSUME IInv, closeFuture = "done", NEW i \in beforeClose
             PROVE  process[i] # "none" /\ \A w \in Workers : taken[w] # i
  BY DEF DrainedOnClose
<1> USE NoItemAssumption DEF IInv, Shape
<1>1. \A w \in Workers : worker[w] = "exited" /\ taken[w] = NoItem
  BY DEF Exits, Hands
<1>2. i \in Items /\ call[i] = "accepted" /\ i \notin Queued
  BY <1>1 DEF Exits, Accepted
<1>3. Carried = {}
  BY <1>1 DEF Carried, Carrying, At
<1>4. process[i] # "none"
  BY <1>2, <1>3 DEF HandedOverOnce
<1> QED BY <1>1, <1>2, <1>4

LEMMA AccountingByIInv == IInv => Accounting
<1> SUFFICES ASSUME IInv PROVE Accounting
  OBVIOUS
<1> DEFINE S == {i \in Items : process[i] = "succeeded"}
<1>1. IsFiniteSet(S)
  BY FS_Subset, FiniteAssumption
<1>2. LetGo \subseteq S
  BY DEF LetGo
<1>3. Cardinality(LetGo) <= Cardinality(S) /\ Cardinality(S) \in Nat
  BY <1>1, <1>2, FS_Subset, FS_CardinalityType
<1>4. successes <= Cardinality(S)
  BY <1>3, FiniteCounts DEF IInv, Shape, Counting, TypeOK
<1>5. Cardinality(Accepted) + Cardinality(Counted) =
        Len(queue) + Cardinality(Polled) + activeWorkers + successes + failures
  <2>1. /\ activeWorkers \in Nat /\ failures \in Nat /\ successes \in Nat /\ Len(queue) \in Nat
        /\ Cardinality(Polled) \in Nat /\ Cardinality(Counted) \in Nat
    BY FiniteCounts DEF IInv, Shape, TypeOK
  <2>2. Cardinality(Accepted) = Books
    BY DEF IInv, Counting
  <2> QED BY <2>1, <2>2 DEF Books
<1> QED BY <1>4, <1>5 DEF IInv, Counting, Accounting, Polled, InGauge, Counted

-----------------------------------------------------------------------------
\* IInv is an invariant of ItemQueue.
THEOREM Invariance == Spec => []IInv
<1>1. Init => IInv
  BY InitShape, InitCounting DEF IInv
<1>2. IInv /\ [Next]_vars => IInv'
  <2> SUFFICES ASSUME IInv, [Next]_vars PROVE IInv'
    OBVIOUS
  <2>1. ASSUME NEW i \in Items, AddStep(i) PROVE IInv'
    BY <2>1, AddStepShape, AddStepCounting DEF IInv
  <2>2. ASSUME NEW i \in Items, ProcessReturns(i) \/ ProcessCompletes(i) PROVE IInv'
    BY <2>2, ProcessStepShape, ProcessStepCounting DEF IInv
  <2>3. ASSUME NEW w \in Workers, WorkerStep(w) PROVE IInv'
    BY <2>3, WorkerStepShape, WorkerStepCounting DEF IInv
  <2>4. CASE CloseStep
    BY <2>4, CloseStepShape, CloseStepCounting DEF IInv
  <2>5. CASE UNCHANGED vars
    BY <2>5, UnchangedIInv
  <2> QED BY <2>1, <2>2, <2>3, <2>4, <2>5 DEF Next
<1> QED BY <1>1, <1>2, PTL DEF Spec

\* The queue's state is well typed; in particular the activeWorkers gauge never
\* goes below zero.
THEOREM TypeCorrectness == Spec => []TypeOK
<1>1. IInv => TypeOK
  BY DEF IInv, Shape
<1> QED BY <1>1, Invariance, PTL

\* Nothing accepted is lost or handed over twice, for any number of callers,
\* workers and slots (ItemQueue.scala:61-95).
THEOREM HandOverIsOnce == Spec => []HandedOverOnce
<1>1. IInv => HandedOverOnce
  BY DEF IInv, Shape
<1> QED BY <1>1, Invariance, PTL

\* Without an await timeout a store call is always awaited by a live thread.
THEOREM AwaitsToTheEnd == Spec => []AwaitedToTheEnd
<1>1. IInv => AwaitedToTheEnd
  BY DEF IInv, Shape
<1> QED BY <1>1, Invariance, PTL

\* With at least one worker, close is done only when what was queued at close
\* time has been processed and let go of.  With none (ItemQueueTest.scala:69)
\* Future.join of no workers is done at once and this does not hold.
THEOREM CloseDrains ==
  ASSUME Workers # {}
  PROVE  Spec => []DrainedOnClose
<1>1. IInv => DrainedOnClose
  BY DrainedByIInv
<1> QED BY <1>1, Invariance, PTL

\* The counters and the gauge add up at every moment, but for the threads that
\* are between two of them: an item just polled is not in the gauge yet, and one
\* just counted is still in it (ItemQueue.scala:63-69).
THEOREM CountersAddUp == Spec => []Accounting
<1> QED BY AccountingByIInv, Invariance, PTL

\* With at least one worker, what a caller counts on holds at every moment.
THEOREM ItemsAreKept ==
  ASSUME Workers # {}
  PROVE  Spec => []ItemsKept
BY TypeCorrectness, HandOverIsOnce, CloseDrains, CountersAddUp, PTL DEF ItemsKept

\* A call a thread has given up on was counted as a failure, and only a timeout
\* makes a thread give up (ItemQueue.scala:66-68).
LEMMA AbandonedCounted ==
  ASSUME IInv, [Next]_vars, Cardinality(Abandoned) <= failures
  PROVE  Cardinality(Abandoned') <= failures'
<1>1. /\ IsFiniteSet(Abandoned) /\ IsFiniteSet(Abandoned')
      /\ Cardinality(Abandoned) \in Nat /\ Cardinality(Abandoned') \in Nat
  <2>1. Abandoned \subseteq Items /\ Abandoned' \subseteq Items
    BY DEF Abandoned
  <2> QED BY <2>1, FiniteAssumption, FS_Subset, FS_CardinalityType
<1>2. failures \in Nat
  BY DEF IInv, Shape, TypeOK
<1>3. SUFFICES \/ Abandoned' \subseteq Abandoned /\ failures' \in {failures, failures + 1}
               \/ \E i \in Items : Abandoned' \subseteq Abandoned \cup {i} /\ failures' = failures + 1
  <2>1. ASSUME Abandoned' \subseteq Abandoned, failures' \in {failures, failures + 1}
        PROVE  Cardinality(Abandoned') <= failures'
    <3>1. Cardinality(Abandoned') <= Cardinality(Abandoned)
      BY <1>1, <2>1, FS_Subset
    <3> QED BY <1>1, <1>2, <2>1, <3>1
  <2>2. ASSUME NEW i \in Items, Abandoned' \subseteq Abandoned \cup {i}, failures' = failures + 1
        PROVE  Cardinality(Abandoned') <= failures'
    <3>1. /\ IsFiniteSet(Abandoned \cup {i})
          /\ Cardinality(Abandoned \cup {i}) \in {Cardinality(Abandoned), Cardinality(Abandoned) + 1}
      BY <1>1, FS_AddElement
    <3>2. Cardinality(Abandoned') <= Cardinality(Abandoned \cup {i})
      BY <2>2, <3>1, FS_Subset
    <3> QED BY <1>1, <1>2, <2>2, <3>1, <3>2
  <2> QED BY <2>1, <2>2
<1> USE DEF IInv, Shape, addVars, workerVars, closeVars
<1>4. ASSUME NEW i \in Items, AddStep(i)
      PROVE  Abandoned' = Abandoned /\ failures' = failures
  BY <1>4 DEF AddStep, AddSeesClosed, AddSeesRunning, OfferAccepted, OfferRejected, Abandoned, Busy, At
<1>5. ASSUME NEW i \in Items, ProcessReturns(i) \/ ProcessCompletes(i)
      PROVE  Abandoned' \subseteq Abandoned /\ failures' = failures
  <2>1. process[i] \in {"running", "pending"} /\ UNCHANGED <<worker, taken, failures>>
    BY <1>5 DEF ProcessReturns, ProcessCompletes
  <2>2. \A j \in Items \ {i} : process'[j] = process[j]
    BY <1>5 DEF ProcessReturns, ProcessCompletes, TypeOK
  <2> QED BY <2>1, <2>2 DEF Abandoned, Busy, At
<1>6. ASSUME NEW w \in Workers, WorkerStep(w)
      PROVE  \/ Abandoned' \subseteq Abandoned /\ failures' \in {failures, failures + 1}
             \/ \E i \in Items : Abandoned' \subseteq Abandoned \cup {i} /\ failures' = failures + 1
  <2>1. CASE LoopContinues(w) \/ LoopExits(w) \/ PollTimesOut(w) \/ RaisesGauge(w)
    <3>1. Busy' = Busy /\ UNCHANGED <<taken, process, failures>>
      BY <2>1 DEF LoopContinues, LoopExits, PollTimesOut, RaisesGauge, Busy, At, TypeOK, WorkerStates
    <3> QED BY <3>1 DEF Abandoned
  <2>2. CASE PollTakes(w) \/ LowersGauge(w)
    <3>1. Busy' = Busy /\ UNCHANGED <<process, failures>>
      BY <2>2 DEF PollTakes, LowersGauge, Busy, At, TypeOK, WorkerStates
    <3>2. \A v \in Busy : taken'[v] = taken[v]
      BY <2>2 DEF PollTakes, LowersGauge, Busy, At, TypeOK
    <3> QED BY <3>1, <3>2 DEF Abandoned
  <2>3. CASE CallsProcess(w)
    <3>1. Busy' = Busy \cup {w} /\ UNCHANGED <<taken, failures>>
      BY <2>3 DEF CallsProcess, Busy, At, TypeOK, WorkerStates
    <3>2. \A j \in Items : j # taken[w] => process'[j] = process[j]
      BY <2>3 DEF CallsProcess, TypeOK
    <3> QED BY <3>1, <3>2 DEF Abandoned
  <2>4. ASSUME worker[w] = "busy", taken[w] \in Items, UNCHANGED <<taken, process>>,
               Busy' = Busy \ {w}
        PROVE  /\ Abandoned' \subseteq Abandoned \cup {taken[w]}
               /\ process[taken[w]] \notin {"running", "pending"} => Abandoned' \subseteq Abandoned
    BY <2>4 DEF Abandoned
  <2>5. worker[w] = "busy" => taken[w] \in Items
    BY DEF Hands, TypeOK
  <2>6. CASE AwaitReturns(w) \/ AwaitThrows(w) \/ AwaitTimesOut(w) \/ WorkerDies(w)
    <3>1. worker[w] = "busy" /\ Busy' = Busy \ {w} /\ UNCHANGED <<taken, process>>
      BY <2>6 DEF AwaitReturns, AwaitThrows, AwaitTimesOut, WorkerDies, AwaitEnds, Busy, At, TypeOK,
                  WorkerStates
    <3>2. \/ process[taken[w]] \notin {"running", "pending"} /\ failures' \in {failures, failures + 1}
          \/ failures' = failures + 1
      BY <2>6 DEF AwaitReturns, AwaitThrows, AwaitTimesOut, WorkerDies
    <3> QED BY <2>4, <2>5, <3>1, <3>2
  <2> QED BY <1>6, <2>1, <2>2, <2>3, <2>6 DEF WorkerStep
<1>7. CASE CloseStep
  BY <1>7 DEF CloseStep, Close, CloseCompletes, CloseFails, Abandoned, Busy, At
<1>8. CASE UNCHANGED vars
  BY <1>8 DEF vars, Abandoned, Busy, At
<1> QED BY <1>4, <1>5, <1>6, <1>7, <1>8 DEF Next

\* Without an await timeout there are never more store calls under way than
\* there are workers, each in the hands of one; with one, at most as many more as
\* failures were counted.
THEOREM StoreCallsAreLimited == Spec => []ConcurrencyLimited
<1>1. Init => Cardinality(Abandoned) <= failures
  <2>1. Init => Abandoned = {} /\ failures = 0
    BY DEF Init, Abandoned
  <2> QED BY <2>1, FS_EmptySet
<1>2. Spec => [](Cardinality(Abandoned) <= failures)
  <2> DEFINE Counts == Cardinality(Abandoned) <= failures
  <2>1. Init => Counts
    BY <1>1
  <2>2. IInv /\ Counts /\ [Next]_vars => Counts'
    BY AbandonedCounted
  <2> HIDE DEF Counts
  <2>3. Spec => []Counts
    BY <2>1, <2>2, Invariance, PTL DEF Spec
  <2> QED BY <2>3 DEF Counts
<1>3. TypeOK /\ AwaitedToTheEnd /\ Cardinality(Abandoned) <= failures => ConcurrencyLimited
  <2> SUFFICES ASSUME TypeOK, AwaitedToTheEnd, Cardinality(Abandoned) <= failures
               PROVE  ConcurrencyLimited
    OBVIOUS
  <2> DEFINE UnderWay == {i \in Items : process[i] \in {"running", "pending"}}
             Held == {taken[w] : w \in Workers}
  <2>1. UnderWay \subseteq Held \cup Abandoned /\ (~HasTimeout => Abandoned = {})
    BY DEF AwaitedToTheEnd, Abandoned, Busy, At
  <2>2. IsFiniteSet(Held) /\ Cardinality(Held) <= Cardinality(Workers)
    <3>1. taken \in Surjection(Workers, Held)
      BY DEF TypeOK, Surjection
    <3> QED BY <3>1, FiniteAssumption, FS_Surjection
  <2>3. IsFiniteSet(Abandoned)
    <3>1. Abandoned \subseteq Items
      BY DEF Abandoned
    <3> QED BY <3>1, FiniteAssumption, FS_Subset
  <2>4. /\ IsFiniteSet(Held \cup Abandoned)
        /\ Cardinality(Held \cup Abandoned) <= Cardinality(Held) + Cardinality(Abandoned)
    <3>1. /\ IsFiniteSet(Held \cup Abandoned)
          /\ Cardinality(Held \cup Abandoned) =
               Cardinality(Held) + Cardinality(Abandoned) - Cardinality(Held \cap Abandoned)
      BY <2>2, <2>3, FS_Union
    <3>2. /\ Cardinality(Held) \in Nat /\ Cardinality(Abandoned) \in Nat
          /\ Cardinality(Held \cap Abandoned) \in Nat
      BY <2>2, <2>3, FS_Intersection, FS_CardinalityType
    <3> QED BY <3>1, <3>2
  <2>5. IsFiniteSet(UnderWay) /\ Cardinality(UnderWay) <= Cardinality(Held \cup Abandoned)
    BY <2>1, <2>4, FS_Subset
  <2>6. /\ Cardinality(Workers) \in Nat /\ Cardinality(Held) \in Nat
        /\ Cardinality(Abandoned) \in Nat /\ Cardinality(Held \cup Abandoned) \in Nat
        /\ Cardinality(UnderWay) \in Nat /\ failures \in Nat
    BY <2>2, <2>3, <2>4, <2>5, FiniteAssumption, FS_CardinalityType DEF TypeOK
  <2>7. ~HasTimeout => Cardinality(Abandoned) = 0
    BY <2>1, FS_EmptySet
  <2>8. Cardinality(UnderWay) <= Cardinality(Workers) + Cardinality(Abandoned)
    BY <2>2, <2>4, <2>5, <2>6
  <2> QED BY <2>6, <2>7, <2>8 DEF ConcurrencyLimited
<1> QED BY <1>2, <1>3, TypeCorrectness, AwaitsToTheEnd, PTL

-----------------------------------------------------------------------------
(* The queue implements BoundedHandoff.                                    *)

\* No item is queued twice, so the queue is as long as its items are many.
LEMMA QueueCardinality ==
  ASSUME TypeOK, HandedOverOnce
  PROVE  /\ IsFiniteSet(Queued) /\ Cardinality(Queued) = Len(queue)
         /\ Len(queue) \in Nat
<1>1. queue \in [1 .. Len(queue) -> Queued] /\ Len(queue) \in Nat
  BY DEF TypeOK, Queued
<1>2. queue \in Bijection(1 .. Len(queue), Queued)
  <2>1. \A j, k \in 1 .. Len(queue) : queue[j] = queue[k] => j = k
    BY <1>1 DEF HandedOverOnce
  <2>2. \A e \in Queued : \E k \in 1 .. Len(queue) : queue[k] = e
    BY <1>1 DEF Queued
  <2> QED BY <1>1, <2>1, <2>2 DEF Bijection, Injection, Surjection, IsInjective
<1>3. ExistsBijection(1 .. Len(queue), Queued)
  BY <1>2 DEF ExistsBijection
<1> QED BY <1>1, <1>3, FS_CountingElements, FS_NatBijection

\* What the promise calls held is what is queued.
LEMMA HeldIsQueued ==
  ASSUME TypeOK, HandedOverOnce
  PROVE  Handoff!In("held") = Queued
<1>1. Queued \subseteq Items
  BY DEF Queued, TypeOK
<1>2. \A i \in Items : Stage(i) = "held" <=> i \in Queued
  BY DEF Stage, HandedOverOnce
<1> QED BY <1>1, <1>2 DEF Handoff!In, StageOf

\* The instance has its own name for the one Cardinality.
LEMMA SameCardinality ==
  ASSUME NEW S
  PROVE  Handoff!Cardinality(S) = Cardinality(S)
  BY DEF Cardinality, Handoff!Cardinality

\* A step that moves one item in the promise moves no other.
LEMMA MoveOne ==
  ASSUME NEW i \in Items, NEW from, NEW to, Stage(i) = from, Stage(i)' = to,
         \A j \in Items \ {i} : Stage(j)' = Stage(j)
  PROVE  Handoff!Move(i, from, to)
<1>1. StageOf' = [StageOf EXCEPT ![i] = to]
  BY DEF StageOf
<1> QED BY <1>1 DEF Handoff!Move, StageOf

LEMMA InitRefines == Init => Handoff!Init
<1> SUFFICES ASSUME Init PROVE Handoff!Init
  OBVIOUS
<1>1. StageOf = [i \in Items |-> "outside"]
  BY DEF Init, StageOf, Stage
<1>2. HandoffPhase = "open" /\ beforeClose = {}
  BY DEF Init, HandoffPhase
<1> QED BY <1>1, <1>2 DEF Handoff!Init
\* Steps that the promise cannot see.
LEMMA Unseen ==
  ASSUME \A i \in Items : Stage(i)' = Stage(i), HandoffPhase' = HandoffPhase,
         UNCHANGED beforeClose
  PROVE  UNCHANGED Handoff!vars
BY DEF Handoff!vars, StageOf

LEMMA AddStepRefines ==
  ASSUME IInv, NEW i \in Items, AddStep(i)
  PROVE  Handoff!Next
<1> USE DEF IInv, Shape, workerVars, closeVars
<1>1. HandoffPhase' = HandoffPhase /\ UNCHANGED beforeClose
  BY DEF AddStep, AddSeesClosed, AddSeesRunning, OfferAccepted, OfferRejected, HandoffPhase
<1>2. \A j \in Items \ {i} : Stage(j)' = Stage(j)
  <2>1. \A j \in Items \ {i} : j \in Queued' <=> j \in Queued
    <3>1. queue' = queue \/ queue' = Append(queue, i)
      BY DEF AddStep, AddSeesClosed, AddSeesRunning, OfferAccepted, OfferRejected
    <3>2. Queued' = Queued \/ Queued' = Queued \cup {i}
      BY <3>1, QueuedAppend DEF Queued
    <3> QED BY <3>2
  <2> QED BY <2>1 DEF AddStep, AddSeesClosed, AddSeesRunning, OfferAccepted, OfferRejected, Stage,
                      TypeOK
<1>3. Handoff!Cardinality(Handoff!In("held")) = Len(queue)
  BY QueueCardinality, HeldIsQueued, SameCardinality
<1>4. running <=> HandoffPhase = "open"
  BY DEF Exits, HandoffPhase
<1>5. CASE AddSeesClosed(i)
  <2>1. Stage(i) = "outside" /\ Stage(i)' = "refused"
    BY <1>5 DEF AddSeesClosed, Stage, TypeOK
  <2>2. Handoff!TurnAway(i)
    BY <1>1, <1>2, <1>4, <1>5, <2>1, MoveOne DEF AddSeesClosed, Handoff!TurnAway
  <2> QED BY <2>2 DEF Handoff!Next
<1>6. CASE AddSeesRunning(i)
  <2>1. Stage(i) = "outside" /\ Stage(i)' = "entering"
    BY <1>6 DEF AddSeesRunning, Stage, TypeOK
  <2>2. Handoff!Enter(i)
    BY <1>1, <1>2, <1>4, <1>6, <2>1, MoveOne DEF AddSeesRunning, Handoff!Enter
  <2> QED BY <2>2 DEF Handoff!Next
<1>7. CASE OfferAccepted(i)
  <2>0. i \in Queued'
    BY <1>7, QueuedAppend DEF OfferAccepted
  <2>1. Stage(i) = "entering" /\ Stage(i)' = "held"
    BY <1>7, <2>0 DEF OfferAccepted, Stage, TypeOK
  <2>2. Handoff!Move(i, "entering", "held")
    BY <1>2, <2>1, MoveOne
  <2>3. Handoff!Cardinality(Handoff!In("held")) < MaxSize
    BY <1>3, <1>7 DEF OfferAccepted
  <2>4. UNCHANGED <<HandoffPhase, beforeClose>>
    BY <1>1
  <2>5. Handoff!Hold(i)
    BY <2>2, <2>3, <2>4 DEF Handoff!Hold
  <2> QED BY <2>5 DEF Handoff!Next
<1>8. CASE OfferRejected(i)
  <2>1. Stage(i) = "entering" /\ Stage(i)' = "refused"
    BY <1>8 DEF OfferRejected, Stage, TypeOK
  <2>2. Handoff!Move(i, "entering", "refused")
    BY <1>2, <2>1, MoveOne
  <2>3. Handoff!Cardinality(Handoff!In("held")) >= MaxSize
    BY <1>3, <1>8 DEF OfferRejected
  <2>4. UNCHANGED <<HandoffPhase, beforeClose>>
    BY <1>1
  <2>5. Handoff!PushBack(i)
    BY <2>2, <2>3, <2>4 DEF Handoff!PushBack
  <2> QED BY <2>5 DEF Handoff!Next
<1> QED BY <1>5, <1>6, <1>7, <1>8 DEF AddStep

LEMMA WorkerStepRefines ==
  ASSUME IInv, NEW w \in Workers, WorkerStep(w)
  PROVE  [Handoff!Next]_(Handoff!vars)
<1> USE NoItemAssumption DEF IInv, Shape, addVars, closeVars
<1>1. HandoffPhase' = HandoffPhase /\ UNCHANGED <<call, beforeClose>>
  BY DEF WorkerStep, LoopContinues, LoopExits, PollTimesOut, PollTakes, RaisesGauge, CallsProcess,
         AwaitReturns, AwaitThrows, AwaitTimesOut, WorkerDies, AwaitEnds, LowersGauge, HandoffPhase
<1>2. CASE ~PollTakes(w) /\ ~LowersGauge(w)
  <2>1. UNCHANGED <<call, queue, taken>>
    BY <1>2 DEF WorkerStep, LoopContinues, LoopExits, PollTimesOut, RaisesGauge, CallsProcess,
         AwaitReturns, AwaitThrows, AwaitTimesOut, WorkerDies, AwaitEnds
  <2> QED BY <1>1, <2>1, Unseen DEF Stage, Queued
<1>3. CASE PollTakes(w)
  <2>0. PICK i \in Items : i = Head(queue)
    BY <1>3, TailFacts DEF PollTakes, TypeOK
  <2>1. /\ i \in Queued /\ Queued' = Queued \ {i} /\ call[i] = "accepted"
    BY <1>3, <2>0, QueuedTail DEF PollTakes, HandedOverOnce
  <2>2. taken' = [taken EXCEPT ![w] = i] /\ worker[w] = "poll" /\ taken[w] = NoItem
    BY <1>3, <2>0 DEF PollTakes, Hands
  <2>3. taken'[w] = i
    BY <2>2 DEF TypeOK
  <2>4. Stage(i) = "held" /\ Stage(i)' = "taken"
    BY <1>1, <2>1, <2>3 DEF Stage
  <2>5. \A j \in Items \ {i} : (\E v \in Workers : taken'[v] = j) <=> \E v \in Workers : taken[v] = j
    BY <2>2 DEF TypeOK
  <2>6. \A j \in Items \ {i} : Stage(j)' = Stage(j)
    BY <1>1, <2>1, <2>5 DEF Stage
  <2>7. HandoffPhase # "closed"
    BY <2>2 DEF HandoffPhase, Exits, TypeOK
  <2>8. Handoff!Take(i)
    BY <1>1, <2>4, <2>6, <2>7, MoveOne DEF Handoff!Take
  <2> QED BY <2>8 DEF Handoff!Next
<1>4. CASE LowersGauge(w)
  <2>0. PICK i \in Items : i = taken[w]
    BY <1>4 DEF LowersGauge, Hands, TypeOK
  <2>1. /\ process[i] # "none" /\ call[i] = "accepted" /\ i \notin Queued
        /\ \A v \in Workers : v # w => taken[v] # i
    BY <1>4, <2>0 DEF LowersGauge, Hands, HandedOverOnce
  <2>2. taken' = [taken EXCEPT ![w] = NoItem] /\ queue' = queue
    BY <1>4 DEF LowersGauge
  <2>3. Stage(i) = "taken"
    BY <2>0, <2>1 DEF Stage
  <2>4. \A v \in Workers : taken'[v] # i
    BY <2>0, <2>1, <2>2, NoItemAssumption DEF TypeOK
  <2>5. Stage(i)' = "settled"
    BY <1>1, <2>1, <2>2, <2>4 DEF Stage, Queued
  <2>6. \A j \in Items \ {i} : \A v \in Workers : taken'[v] = j <=> taken[v] = j
    BY <2>0, <2>2 DEF TypeOK
  <2>7. \A j \in Items \ {i} : Stage(j)' = Stage(j)
    BY <1>1, <2>2, <2>6 DEF Stage, Queued
  <2>8. HandoffPhase # "closed"
    BY <1>4 DEF LowersGauge, HandoffPhase, Exits, TypeOK
  <2>9. Handoff!Settle(i)
    BY <1>1, <2>1, <2>3, <2>5, <2>7, <2>8, MoveOne DEF Handoff!Settle
  <2> QED BY <2>1, <2>9 DEF Handoff!Next
<1> QED BY <1>2, <1>3, <1>4

LEMMA ProcessStepRefines ==
  ASSUME NEW i \in Items, ProcessReturns(i) \/ ProcessCompletes(i)
  PROVE  UNCHANGED Handoff!vars
<1>1. HandoffPhase' = HandoffPhase /\ UNCHANGED <<call, queue, taken, beforeClose>>
  BY DEF ProcessReturns, ProcessCompletes, addVars, workerVars, closeVars, HandoffPhase
<1>2. \A j \in Items : Stage(j)' = Stage(j)
  BY <1>1 DEF Stage, Queued
<1> QED BY <1>1, <1>2, Unseen

LEMMA CloseStepRefines ==
  ASSUME IInv, Workers # {}, CloseStep
  PROVE  [Handoff!Next]_(Handoff!vars)
<1> USE DEF IInv, Shape
<1>1. UNCHANGED <<call, queue, taken>>
  BY DEF CloseStep, Close, CloseCompletes, CloseFails, addVars, workerVars
<1>2. StageOf' = StageOf
  BY <1>1 DEF StageOf, Stage, Queued
<1>3. CASE Close
  <2>1. HandoffPhase = "open" /\ HandoffPhase' = "closing"
    BY <1>3 DEF Close, HandoffPhase
  <2>2. Accepted = Handoff!In("held") \cup Handoff!In("taken") \cup Handoff!In("settled")
    BY DEF Accepted, Handoff!In, StageOf, Stage
  <2>3. Handoff!Shut
    BY <1>2, <1>3, <2>1, <2>2 DEF Close, Handoff!Shut
  <2> QED BY <2>3 DEF Handoff!Next
<1>4. CASE CloseCompletes
  <2>1. HandoffPhase = "closing" /\ HandoffPhase' = "closed" /\ UNCHANGED beforeClose
    BY <1>4 DEF CloseCompletes, HandoffPhase
  <2>2. \A w \in Workers : taken[w] = NoItem
    BY <1>4 DEF CloseCompletes, Hands
  <2>3. Handoff!In("taken") = {}
    BY <2>2, NoItemAssumption DEF Handoff!In, StageOf, Stage
  <2>4. \A i \in beforeClose : i \in Items /\ call[i] = "accepted" /\ i \notin Queued
    BY <1>4 DEF CloseCompletes, Exits, Accepted
  <2>5. beforeClose \subseteq Handoff!In("settled")
    BY <2>2, <2>4, NoItemAssumption DEF Handoff!In, StageOf, Stage
  <2>6. Handoff!Finish
    BY <1>2, <2>1, <2>3, <2>5 DEF Handoff!Finish
  <2> QED BY <2>6 DEF Handoff!Next
<1>5. CASE CloseFails
  <2>1. HandoffPhase' = HandoffPhase /\ UNCHANGED beforeClose
    BY <1>5 DEF CloseFails, HandoffPhase
  <2> QED BY <1>2, <2>1 DEF Handoff!vars
<1> QED BY <1>3, <1>4, <1>5 DEF CloseStep

\* With at least one worker, ItemQueue implements BoundedHandoff: every step of
\* a caller, a thread, a store call or close is a step of the promise or leaves
\* what it speaks of unchanged.
THEOREM Refinement ==
  ASSUME Workers # {}
  PROVE  Spec => KeepsPromise
<1>1. IInv /\ [Next]_vars => [Handoff!Next]_(Handoff!vars)
  <2> SUFFICES ASSUME IInv, [Next]_vars PROVE [Handoff!Next]_(Handoff!vars)
    OBVIOUS
  <2>1. ASSUME NEW i \in Items, AddStep(i) PROVE Handoff!Next
    BY <2>1, AddStepRefines
  <2>2. ASSUME NEW i \in Items, ProcessReturns(i) \/ ProcessCompletes(i)
        PROVE  UNCHANGED Handoff!vars
    BY <2>2, ProcessStepRefines
  <2>3. ASSUME NEW w \in Workers, WorkerStep(w) PROVE [Handoff!Next]_(Handoff!vars)
    BY <2>3, WorkerStepRefines
  <2>4. CASE CloseStep
    BY <2>4, CloseStepRefines
  <2>5. CASE UNCHANGED vars
    BY <2>5 DEF vars, Handoff!vars, HandoffPhase, StageOf, Stage, Queued
  <2> QED BY <2>1, <2>2, <2>3, <2>4, <2>5 DEF Next
<1> QED BY <1>1, InitRefines, Invariance, PTL DEF Spec, KeepsPromise, Handoff!Spec

-----------------------------------------------------------------------------
(* BlockingItemQueue: the guarantees of the worker side survive the        *)
(* overridden add.  Only the three steps that are new need a proof.        *)

\* A step of the new add that does not enqueue changes where the call stands,
\* and perhaps the queueFull counter.
LEMMA CallMoves ==
  ASSUME IInv, NEW i \in Items, NEW to \in {"offering", "sleeping"},
         call[i] \in {"idle", "offering", "sleeping"},
         call' = [call EXCEPT ![i] = to],
         queueFull' \in Nat,
         UNCHANGED <<queue, process, workerVars, closeVars>>
  PROVE  IInv'
<1> USE DEF IInv, Shape, workerVars, closeVars
<1>1. TypeOK'
  BY DEF TypeOK, CallStates
<1>2. /\ Accepted' = Accepted /\ process[i] = "none" /\ i \notin Queued
      /\ Queued' = Queued /\ Carried' = Carried
  BY DEF Accepted, TypeOK, HandedOverOnce, Queued, Carried, Carrying, At
<1>3. HandedOverOnce'
  BY <1>2 DEF HandedOverOnce, TypeOK
<1>4. /\ Polled' = Polled /\ InGauge' = InGauge /\ Counted' = Counted /\ Busy' = Busy
      /\ LetGo' = LetGo
  BY CountedByPlace DEF LetGo
<1>5. Hands' /\ Exits' /\ AwaitedToTheEnd' /\ Attended'
  BY <1>2, <1>4 DEF Hands, Exits, AwaitedToTheEnd, Attended
<1>6. Counting'
  BY <1>2, <1>4, CountingUnchanged DEF TypeOK
<1> QED BY <1>1, <1>3, <1>5, <1>6

LEMMA BlockingAddStepIInv ==
  ASSUME IInv, NEW i \in Items, BlockingAddStep(i)
  PROVE  IInv'
<1>1. CASE AddEnters(i)
  BY <1>1, CallMoves DEF AddEnters, IInv, Shape, TypeOK
<1>2. CASE OfferAccepted(i)
  BY <1>2, AddStepShape, AddStepCounting DEF AddStep, IInv
<1>3. CASE OfferSleeps(i)
  <2>1. queueFull' \in Nat
    BY <1>3 DEF OfferSleeps, IInv, Shape, TypeOK
  <2> QED BY <1>3, <2>1, CallMoves DEF OfferSleeps
<1>4. CASE WakesUp(i)
  BY <1>4, CallMoves DEF WakesUp, IInv, Shape, TypeOK
<1> QED BY <1>1, <1>2, <1>3, <1>4 DEF BlockingAddStep

\* IInv is an invariant of BlockingItemQueue.
THEOREM BlockingInvariance == BlockingSpec => []IInv
<1>1. Init => IInv
  BY InitShape, InitCounting DEF IInv
<1>2. IInv /\ [BlockingNext]_vars => IInv'
  <2> SUFFICES ASSUME IInv, [BlockingNext]_vars PROVE IInv'
    OBVIOUS
  <2>1. ASSUME NEW i \in Items, BlockingAddStep(i) PROVE IInv'
    BY <2>1, BlockingAddStepIInv
  <2>2. ASSUME NEW i \in Items, ProcessReturns(i) \/ ProcessCompletes(i) PROVE IInv'
    BY <2>2, ProcessStepShape, ProcessStepCounting DEF IInv
  <2>3. ASSUME NEW w \in Workers, WorkerStep(w) PROVE IInv'
    BY <2>3, WorkerStepShape, WorkerStepCounting DEF IInv
  <2>4. CASE CloseStep
    BY <2>4, CloseStepShape, CloseStepCounting DEF IInv
  <2>5. CASE UNCHANGED vars
    BY <2>5, UnchangedIInv
  <2> QED BY <2>1, <2>2, <2>3, <2>4, <2>5 DEF BlockingNext
<1> QED BY <1>1, <1>2, PTL DEF BlockingSpec

\* Sleeping callers and calls that ignore close lose nothing and hand nothing
\* over twice (BlockingItemQueue.scala:23-34).
THEOREM BlockingHandOverIsOnce == BlockingSpec => []HandedOverOnce
<1>1. IInv => HandedOverOnce
  BY DEF IInv, Shape
<1> QED BY <1>1, BlockingInvariance, PTL

\* With at least one worker, what was queued at close time is processed before
\* close is done, whatever is added meanwhile.
THEOREM BlockingCloseDrains ==
  ASSUME Workers # {}
  PROVE  BlockingSpec => []DrainedOnClose
<1>1. IInv => DrainedOnClose
  BY DrainedByIInv
<1> QED BY <1>1, BlockingInvariance, PTL

\* The counters of the worker side add up in front of blocked callers too.
THEOREM BlockingCountersAddUp == BlockingSpec => []Accounting
<1>1. IInv => Accounting
  BY AccountingByIInv
<1> QED BY <1>1, BlockingInvariance, PTL

\* So what a caller counts on holds in front of blocked callers too.
THEOREM BlockingItemsAreKept ==
  ASSUME Workers # {}
  PROVE  BlockingSpec => []ItemsKept
<1>1. IInv => TypeOK
  BY DEF IInv, Shape
<1> QED BY <1>1, BlockingInvariance, BlockingHandOverIsOnce, BlockingCloseDrains,
           BlockingCountersAddUp, PTL DEF ItemsKept

-----------------------------------------------------------------------------
(* Collector: what holds of every collector, whatever its receiver, and    *)
(* what each of its steps may change.                                      *)

\* Without a queue nothing happens in it.
DirectInv ==
  /\ TypeOK
  /\ queue = <<>> /\ running /\ closeFuture = "none" /\ beforeClose = {}
  /\ \A w \in Workers : worker[w] = "loop" /\ taken[w] = NoItem
  /\ \A i \in Items : \/ call[i] = "idle" /\ process[i] = "none"
                      \/ call[i] = "accepted" /\ process[i] # "none"

\* How far the close has come, and what that says of the queue's Future.
PhaseInv ==
  /\ mode \in Modes /\ deadline \in Deadlines \cup {"none"} /\ phase \in Phases
  /\ phase = "up" <=> deadline = "none"
  /\ mode = "direct" => phase # "closingQueue"
  /\ mode # "direct" =>
       /\ phase \in {"up", "closingReceiver"} <=> closeFuture = "none"
       /\ phase = "closed" => closeFuture = "done"

CollectorInv ==
  /\ PhaseInv
  /\ IF mode = "direct" THEN DirectInv ELSE IInv
  /\ mode = "blocking" => \A i \in Items : call[i] \notin {"queueFull", "queueClosed"}

LEMMA CollectorTypes ==
  ASSUME CollectorInv
  PROVE  TypeOK /\ HandedOverOnce
<1>1. CASE mode = "direct"
  <2>1. Queued = {} /\ Carried = {}
    BY <1>1 DEF CollectorInv, DirectInv, Queued, Carried, Carrying, At
  <2>2. QED BY <1>1, <2>1, SizeAssumption DEF CollectorInv, DirectInv, HandedOverOnce
<1>2. CASE mode # "direct"
  BY <1>2 DEF CollectorInv, IInv, Shape
<1>3. QED BY <1>1, <1>2

LEMMA CollectorInitInv == CollectorInit => CollectorInv
<1> SUFFICES ASSUME CollectorInit PROVE CollectorInv
  OBVIOUS
<1>1. IInv
  BY InitShape, InitCounting DEF CollectorInit, IInv
<1>2. DirectInv
  <2>1. TypeOK
    BY <1>1 DEF IInv, Shape
  <2>2. QED BY <2>1 DEF CollectorInit, Init, DirectInv
<1>3. PhaseInv
  BY DEF CollectorInit, Init, PhaseInv, Deadlines, Phases
<1>4. QED BY <1>1, <1>2, <1>3 DEF CollectorInv, CollectorInit, Init

\* Handing an item over moves that item's call, and only in front of a store its
\* process; nothing that waits for the queue notices.
LEMMA HandOverFacts ==
  ASSUME CollectorInv, NEW i \in Items, HandOver(i), UNCHANGED collectorVars
  PROVE  /\ CollectorInv'
         /\ call[i] \in {"idle", "offering", "sleeping"} /\ process[i] = "none"
         /\ call'[i] # "idle"
         /\ \A j \in Items \ {i} : call'[j] = call[j] /\ process'[j] = process[j]
         /\ process'[i] = IF mode = "direct" THEN "running" ELSE "none"
         /\ queue' = queue \/ queue' = Append(queue, i)
         /\ UNCHANGED <<mode, deadline, phase, worker, taken, running, closeFuture, beforeClose>>
<1> USE DEF collectorVars, workerVars, closeVars
<1>0. TypeOK /\ HandedOverOnce
  BY CollectorTypes
<1>1. CASE mode = "direct"
  <2>1. StoreCalled(i)
    BY <1>1 DEF HandOver
  <2>2. DirectInv'
    <3>1. TypeOK'
      BY <1>0, <2>1 DEF StoreCalled, TypeOK, CallStates, ProcessStates
    <3>2. QED BY <1>1, <2>1, <3>1, <1>0 DEF StoreCalled, CollectorInv, DirectInv, TypeOK
  <2>3. PhaseInv'
    BY <2>1 DEF StoreCalled, CollectorInv, PhaseInv
  <2>4. QED BY <1>0, <1>1, <2>1, <2>2, <2>3 DEF StoreCalled, CollectorInv, DirectInv, TypeOK
<1>2. CASE mode # "direct"
  <2>1. IInv /\ (AddStep(i) \/ BlockingAddStep(i))
    BY <1>2 DEF HandOver, CollectorInv
  <2>2. IInv'
    BY <2>1, AddStepShape, AddStepCounting, BlockingAddStepIInv DEF IInv
  <2>3. /\ call[i] \in {"idle", "offering", "sleeping"}
        /\ \E to \in CallStates \ {"idle"} : call' = [call EXCEPT ![i] = to]
        /\ UNCHANGED <<process, worker, taken, running, closeFuture, beforeClose>>
        /\ queue' = queue \/ queue' = Append(queue, i)
    BY <2>1 DEF AddStep, AddSeesClosed, AddSeesRunning, OfferAccepted, OfferRejected,
                BlockingAddStep, AddEnters, OfferSleeps, WakesUp, CallStates
  <2>4. process[i] = "none"
    BY <1>0, <2>3 DEF HandedOverOnce
  <2>5. mode = "blocking" => \A j \in Items : call'[j] \notin {"queueFull", "queueClosed"}
    <3>1. mode = "blocking" => BlockingAddStep(i)
      BY <1>2 DEF HandOver
    <3>2. QED BY <1>0, <3>1 DEF BlockingAddStep, AddEnters, OfferAccepted, OfferSleeps, WakesUp,
                         CollectorInv, TypeOK
  <2>6. PhaseInv'
    BY <2>3 DEF CollectorInv, PhaseInv
  <2>7. QED BY <1>0, <1>2, <2>2, <2>3, <2>4, <2>5, <2>6 DEF CollectorInv, TypeOK
<1>3. QED BY <1>1, <1>2

\* Where a store call may go next.
ProcessMoves(i) ==
  \/ process[i] = "none" /\ process'[i] = "running"
  \/ process[i] = "running" /\ process'[i] \in {"pending"} \cup Outcomes
  \/ process[i] = "pending" /\ process'[i] \in Outcomes

\* The threads, the store and the queue's Future move no call.  The threads take
\* the head of the queue, and begin a store call only with what one of them took.
LEMMA BackgroundFacts ==
  ASSUME CollectorInv, BackgroundStep
  PROVE  /\ CollectorInv'
         /\ UNCHANGED <<call, mode, deadline, phase, running, beforeClose>>
         /\ \A i \in Items : process'[i] = process[i] \/ ProcessMoves(i)
         /\ mode = "direct" => \A i \in Items : process[i] = "none" => process'[i] = "none"
         /\ queue' = queue \/ (queue # <<>> /\ queue' = Tail(queue))
         /\ \A i \in Items : process[i] = "none" /\ process'[i] # "none" =>
              i \in Carried /\ i \notin Queued /\ call[i] = "accepted"
<1> USE DEF collectorVars
<1>0. TypeOK /\ HandedOverOnce /\ UNCHANGED <<mode, deadline, phase>>
  BY CollectorTypes DEF BackgroundStep
<1>1. ASSUME NEW w \in Workers, mode # "direct", WorkerStep(w)
      PROVE  /\ CollectorInv' /\ UNCHANGED <<call, running, beforeClose>>
             /\ \A i \in Items : process'[i] = process[i] \/ ProcessMoves(i)
             /\ queue' = queue \/ (queue # <<>> /\ queue' = Tail(queue))
             /\ \A i \in Items : process[i] = "none" /\ process'[i] # "none" =>
                  i \in Carried /\ i \notin Queued /\ call[i] = "accepted"
  <2>1. IInv /\ IInv'
    BY <1>1, WorkerStepShape, WorkerStepCounting DEF CollectorInv, IInv
  <2>2. /\ UNCHANGED <<call, running, closeFuture, beforeClose>>
        /\ queue' = queue \/ (queue # <<>> /\ queue' = Tail(queue))
        /\ process' = process \/ CallsProcess(w)
    BY <1>1 DEF WorkerStep, LoopContinues, LoopExits, PollTimesOut, PollTakes, RaisesGauge,
                AwaitReturns, AwaitThrows, AwaitTimesOut, WorkerDies, AwaitEnds, LowersGauge,
                CallsProcess, addVars, closeVars
  <2>3. CollectorInv'
    BY <1>0, <1>1, <2>1, <2>2 DEF CollectorInv, PhaseInv
  <2>4. CASE CallsProcess(w)
    <3>1. PICK i \in Items : i = taken[w]
      BY <2>1, <2>4 DEF CallsProcess, IInv, Shape, Hands, TypeOK
    <3>2. i \in Carried
      BY <2>4, <3>1 DEF CallsProcess, Carried, Carrying, At
    <3>3. process[i] = "none" /\ i \notin Queued /\ call[i] = "accepted"
      BY <1>0, <3>2 DEF HandedOverOnce
    <3>4. process' = [process EXCEPT ![i] = "running"]
      BY <2>4, <3>1 DEF CallsProcess
    <3>5. \A j \in Items : j # i => process'[j] = process[j]
      BY <1>0, <3>4 DEF TypeOK
    <3>6. process'[i] = "running"
      BY <1>0, <3>4 DEF TypeOK
    <3>7. QED BY <2>2, <2>3, <3>2, <3>3, <3>5, <3>6 DEF ProcessMoves
  <2>5. QED BY <2>2, <2>3, <2>4
<1>2. ASSUME NEW i \in Items, ProcessReturns(i) \/ ProcessCompletes(i)
      PROVE  /\ CollectorInv' /\ UNCHANGED <<queue, call, running, beforeClose>>
             /\ \A j \in Items : process'[j] = process[j] \/ ProcessMoves(j)
             /\ \A j \in Items : process[j] = "none" => process'[j] = "none"
  <2>1. /\ \E r \in ProcessStates \ {"none", "running"} : process' = [process EXCEPT ![i] = r]
        /\ process[i] \in {"running", "pending"}
        /\ UNCHANGED <<addVars, workerVars, closeVars>>
    BY <1>2 DEF ProcessReturns, ProcessCompletes, ProcessStates, Outcomes
  <2>2. \A j \in Items : process'[j] = process[j] \/ ProcessMoves(j)
    BY <1>0, <1>2 DEF ProcessReturns, ProcessCompletes, ProcessMoves, TypeOK
  <2>3. \A j \in Items : process[j] = "none" <=> process'[j] = "none"
    BY <1>0, <2>1 DEF TypeOK
  <2>4. CASE mode = "direct"
    <3>1. TypeOK'
      BY <1>0, <2>1 DEF TypeOK, addVars, workerVars, closeVars
    <3>2. DirectInv'
      BY <2>1, <2>3, <2>4, <3>1 DEF CollectorInv, DirectInv, addVars, workerVars, closeVars
    <3>3. QED BY <1>0, <2>1, <2>2, <2>3, <2>4, <3>2
              DEF CollectorInv, PhaseInv, addVars, workerVars, closeVars
  <2>5. CASE mode # "direct"
    <3>1. IInv'
      BY <1>2, <2>5, ProcessStepShape, ProcessStepCounting DEF CollectorInv, IInv
    <3>2. QED BY <1>0, <2>1, <2>2, <2>3, <2>5, <3>1
              DEF CollectorInv, PhaseInv, addVars, workerVars, closeVars
  <2>6. QED BY <2>4, <2>5
<1>3. ASSUME CloseCompletes \/ CloseFails
      PROVE  CollectorInv' /\ UNCHANGED <<queue, call, process, running, beforeClose>>
  <2>1. /\ closeFuture = "pending" /\ closeFuture' # "none"
        /\ UNCHANGED <<addVars, workerVars, process, running, beforeClose>>
    BY <1>3 DEF CloseCompletes, CloseFails
  <2>2. mode # "direct" /\ phase # "closed"
    BY <2>1 DEF CollectorInv, DirectInv, PhaseInv
  <2>3. IInv'
    BY <1>3, <2>2, CloseStepShape, CloseStepCounting DEF CollectorInv, IInv, CloseStep
  <2>4. QED BY <1>0, <2>1, <2>2, <2>3 DEF CollectorInv, PhaseInv, addVars
<1>4. QED BY <1>0, <1>1, <1>2, <1>3 DEF BackgroundStep

\* Closing moves neither calls nor store calls; the queue's close remembers what was
\* accepted.
LEMMA CloseFacts ==
  ASSUME CollectorInv, CollectorCloseStep(TRUE)
  PROVE  /\ CollectorInv'
         /\ UNCHANGED <<mode, queue, call, process, worker, taken>>
         /\ \/ phase = "up" /\ phase' = "closingReceiver"
            \/ phase = "closingReceiver" /\ phase' \in {"closingQueue", "closed"}
            \/ phase = "closingQueue" /\ phase' = "closed"
         /\ phase # "up" => deadline' = deadline
         /\ phase = "closingReceiver" /\ mode # "direct" => beforeClose' = Accepted
         /\ phase # "closingReceiver" => beforeClose' = beforeClose
<1> USE DEF addVars, workerVars
<1>1. CASE ReceiverCloseBegins
  <2>1. /\ phase = "up" /\ phase' = "closingReceiver" /\ deadline' \in Deadlines
        /\ UNCHANGED <<mode, vars>>
    BY <1>1 DEF ReceiverCloseBegins
  <2>2. IInv => IInv'
    BY <2>1, UnchangedIInv
  <2>3. DirectInv => DirectInv'
    BY <2>1 DEF DirectInv, TypeOK, vars
  <2>4. PhaseInv'
    BY <2>1 DEF CollectorInv, PhaseInv, Deadlines, Phases, vars
  <2>5. QED BY <2>1, <2>2, <2>3, <2>4 DEF CollectorInv, vars
<1>2. CASE QueueCloseBegins(TRUE) /\ mode = "direct"
  <2>1. /\ phase = "closingReceiver" /\ phase' = "closed"
        /\ UNCHANGED <<mode, deadline, vars>>
    BY <1>2 DEF QueueCloseBegins
  <2>2. DirectInv'
    BY <1>2, <2>1 DEF CollectorInv, DirectInv, TypeOK, vars
  <2>3. PhaseInv'
    BY <1>2, <2>1 DEF CollectorInv, PhaseInv, Deadlines, Phases, vars
  <2>4. QED BY <1>2, <2>1, <2>2, <2>3 DEF CollectorInv, vars
<1>3. CASE QueueCloseBegins(TRUE) /\ mode # "direct"
  <2>1. /\ phase = "closingReceiver" /\ phase' = "closingQueue" /\ Close
        /\ UNCHANGED <<mode, deadline>>
    BY <1>3 DEF QueueCloseBegins
  <2>2. IInv'
    BY <1>3, <2>1, CloseStepShape, CloseStepCounting DEF CollectorInv, IInv, CloseStep
  <2>3. PhaseInv'
    BY <1>3, <2>1 DEF CollectorInv, PhaseInv, Deadlines, Phases, Close
  <2>4. QED BY <1>3, <2>1, <2>2, <2>3 DEF CollectorInv, Close
<1>4. CASE StoreCloseBegins
  <2>1. /\ phase = "closingQueue" /\ phase' = "closed" /\ closeFuture = "done"
        /\ UNCHANGED <<mode, deadline, vars>>
    BY <1>4 DEF StoreCloseBegins
  <2>2. mode # "direct"
    BY <2>1 DEF CollectorInv, PhaseInv
  <2>3. IInv'
    BY <2>1, <2>2, UnchangedIInv DEF CollectorInv
  <2>4. PhaseInv'
    BY <2>1, <2>2 DEF CollectorInv, PhaseInv, Deadlines, Phases, vars
  <2>5. QED BY <2>1, <2>2, <2>3, <2>4 DEF CollectorInv, vars
<1>5. QED BY <1>1, <1>2, <1>3, <1>4 DEF CollectorCloseStep

LEMMA CollectorUnchanged ==
  ASSUME CollectorInv, UNCHANGED <<vars, collectorVars>>
  PROVE  CollectorInv'
<1>1. IInv => IInv'
  BY UnchangedIInv
<1>2. DirectInv => DirectInv'
  BY DEF DirectInv, TypeOK, vars
<1>3. PhaseInv'
  BY DEF CollectorInv, PhaseInv, vars, collectorVars
<1>4. QED BY <1>1, <1>2, <1>3 DEF CollectorInv, vars, collectorVars

\* A result the receiver has is final.
LEMMA ResultIsFinal ==
  ASSUME CollectorInv, NEW i \in Items, Result(i) # "unsatisfied",
         mode' = mode, call'[i] = call[i], process'[i] = process[i] \/ ProcessMoves(i)
  PROVE  Result(i)' = Result(i)
<1>1. call[i] \in CallStates /\ process[i] \in ProcessStates
  BY CollectorTypes DEF TypeOK
<1>2. CASE call[i] # "accepted" \/ mode # "direct"
  BY <1>1, <1>2 DEF Result
<1>3. CASE call[i] = "accepted" /\ mode = "direct"
  <2>1. process[i] \in {"succeeded", "failed", "fatal"}
    BY <1>3 DEF Result
  <2>2. process'[i] = process[i]
    BY <2>1 DEF ProcessMoves
  <2>3. QED BY <1>3, <2>2 DEF Result
<1>4. QED BY <1>2, <1>3

\* When the queue was closed with everything in it that was accepted, the store is
\* closed with nothing left to hand over, and with no store call under way but what
\* an await with a timeout gave up on.
LEMMA DrainedWhenClosed ==
  ASSUME CollectorInv, Workers # {}, mode # "direct", phase = "closed"
  PROVE  /\ \A i \in beforeClose : process[i] # "none" /\ \A w \in Workers : taken[w] # i
         /\ Accepted \subseteq beforeClose => Queued = {}
         /\ Carried = {}
         /\ \A i \in Items : /\ process[i] # "running"
                             /\ process[i] = "pending" => HasTimeout
<1>1. IInv /\ closeFuture = "done"
  BY DEF CollectorInv, PhaseInv
<1>2. \A i \in beforeClose : process[i] # "none" /\ \A w \in Workers : taken[w] # i
  BY <1>1, DrainedByIInv DEF DrainedOnClose
<1>3. Busy = {} /\ Carried = {}
  BY <1>1 DEF IInv, Shape, Exits, Busy, Carried, Carrying, At
<1>4. Queued \subseteq Accepted /\ \A i \in Queued : process[i] = "none"
  <2>1. Queued \subseteq Items
    BY <1>1 DEF IInv, Shape, TypeOK, Queued
  <2>2. QED BY <1>1, <2>1 DEF IInv, Shape, HandedOverOnce, Accepted
<1>5. QED BY <1>1, <1>2, <1>3, <1>4 DEF IInv, Shape, Attended, AwaitedToTheEnd
=============================================================================
