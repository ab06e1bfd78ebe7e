----------------------------- MODULE ItemQueue -----------------------------
(***************************************************************************)
(* The bounded queue between a span receiver and the span store            *)
(* (collector/ItemQueue.scala): callers of `add` put items in, a fixed     *)
(* pool of worker threads polls them out and awaits `process` on each,     *)
(* `close` stops the intake and completes when every worker has left its   *)
(* loop.  One item stands for one call of `add`; a retry is another item.  *)
(* Each statement of loop that another thread can see is a step.           *)
(***************************************************************************)
EXTENDS Naturals, Sequences, FiniteSets

CONSTANTS
  Items,        \* the items ever offered, one per call of add
  NoItem,       \* "no item": what an idle worker holds
  Workers,      \* the maxConcurrency threads started by the constructor
  MaxSize,      \* capacity of the ArrayBlockingQueue
  HasTimeout,   \* TRUE when `timeout` is finite, FALSE for Duration.Top
  FatalErrors   \* TRUE when process may end in a throwable Try does not catch

ASSUME NoItemAssumption == NoItem \notin Items
ASSUME SizeAssumption == MaxSize \in Nat \ {0}
ASSUME FlagAssumption == HasTimeout \in BOOLEAN /\ FatalErrors \in BOOLEAN
ASSUME FiniteAssumption == IsFiniteSet(Items) /\ IsFiniteSet(Workers)

VARIABLES
  running,        \* the volatile flag
  queue,          \* the ArrayBlockingQueue
  call,           \* where each call of add stands
  worker,         \* where each pool thread stands in loop()
  taken,          \* the local `item` of each pool thread
  process,        \* what became of process(item)
  queueFull,      \* the counters, and the activeWorkers gauge
  successes,
  failures,
  activeWorkers,
  closeFuture,    \* the Future that close returns
  beforeClose     \* history: the items enqueued when close was called

addVars == <<queue, call, queueFull>>
workerVars == <<worker, taken, successes, failures, activeWorkers>>
closeVars == <<running, closeFuture, beforeClose>>
vars == <<running, queue, call, worker, taken, process, queueFull, successes,
          failures, activeWorkers, closeFuture, beforeClose>>

-----------------------------------------------------------------------------
CallStates == {"idle", "offering", "sleeping", "accepted", "queueFull", "queueClosed"}
WorkerStates == {"loop", "poll", "polled", "active", "busy", "counted", "exited", "dead"}
Outcomes == {"succeeded", "failed"} \cup (IF FatalErrors THEN {"fatal"} ELSE {})
ProcessStates == {"none", "running", "pending"} \cup Outcomes

Queued == {queue[k] : k \in DOMAIN queue}
Accepted == {i \in Items : call[i] = "accepted"}
At(states) == {w \in Workers : worker[w] \in states}
Busy == At({"busy"})
Dead == At({"dead"})

\* Out of the queue, in a thread that has yet to call process.
Carrying == At({"polled", "active"})
Carried == {taken[w] : w \in Carrying}

Init ==
  /\ running = TRUE
  /\ queue = <<>>
  /\ call = [i \in Items |-> "idle"]
  /\ worker = [w \in Workers |-> "loop"]
  /\ taken = [w \in Workers |-> NoItem]
  /\ process = [i \in Items |-> "none"]
  /\ queueFull = 0
  /\ successes = 0
  /\ failures = 0
  /\ activeWorkers = 0
  /\ closeFuture = "none"
  /\ beforeClose = {}

-----------------------------------------------------------------------------
(* add(item).  The read of `running` and the offer are two steps: close    *)
(* and every worker can run in between.                                    *)

AddSeesClosed(i) ==
  /\ call[i] = "idle"
  /\ ~running
  /\ call' = [call EXCEPT ![i] = "queueClosed"]
  /\ UNCHANGED <<queue, queueFull, process, workerVars, closeVars>>

AddSeesRunning(i) ==
  /\ call[i] = "idle"
  /\ running
  /\ call' = [call EXCEPT ![i] = "offering"]
  /\ UNCHANGED <<queue, queueFull, process, workerVars, closeVars>>

\* Mutant: room for one more than maxSize.
OfferOneTooMany(i) ==
  /\ call[i] = "offering"
  /\ Len(queue) <= MaxSize
  /\ queue' = Append(queue, i)
  /\ call' = [call EXCEPT ![i] = "accepted"]
  /\ UNCHANGED <<queueFull, process, workerVars, closeVars>>

OfferAccepted(i) ==
  /\ call[i] = "offering"
  /\ Len(queue) < MaxSize
  /\ queue' = Append(queue, i)
  /\ call' = [call EXCEPT ![i] = "accepted"]
  /\ UNCHANGED <<queueFull, process, workerVars, closeVars>>

OfferRejected(i) ==
  /\ call[i] = "offering"
  /\ Len(queue) >= MaxSize
  /\ queueFull' = queueFull + 1
  /\ call' = [call EXCEPT ![i] = "queueFull"]
  /\ UNCHANGED <<queue, process, workerVars, closeVars>>

AddStep(i) ==
  AddSeesClosed(i) \/ AddSeesRunning(i) \/ OfferAccepted(i) \/ OfferRejected(i)

-----------------------------------------------------------------------------
(* loop(), run by each pool thread.  `running` never becomes TRUE again,   *)
(* so reading it just before the queue is one step.                        *)

LoopContinues(w) ==
  /\ worker[w] = "loop"
  /\ running \/ queue # <<>>
  /\ worker' = [worker EXCEPT ![w] = "poll"]
  /\ UNCHANGED <<addVars, taken, process, successes, failures, activeWorkers, closeVars>>

\* Mutant: `while (running)`, the queue not looked at.
LoopExitsUndrained(w) ==
  /\ worker[w] = "loop"
  /\ ~running
  /\ worker' = [worker EXCEPT ![w] = "exited"]
  /\ UNCHANGED <<addVars, taken, process, successes, failures, activeWorkers, closeVars>>

LoopExits(w) ==
  /\ worker[w] = "loop"
  /\ ~running /\ queue = <<>>
  /\ worker' = [worker EXCEPT ![w] = "exited"]
  /\ UNCHANGED <<addVars, taken, process, successes, failures, activeWorkers, closeVars>>

\* Mutant: a poll that returns null ends the loop.
PollTimesOutLeaving(w) ==
  /\ worker[w] = "poll"
  /\ queue = <<>>
  /\ worker' = [worker EXCEPT ![w] = "exited"]
  /\ UNCHANGED <<addVars, taken, process, successes, failures, activeWorkers, closeVars>>

\* The 500ms of poll pass with nothing to take.
PollTimesOut(w) ==
  /\ worker[w] = "poll"
  /\ queue = <<>>
  /\ worker' = [worker EXCEPT ![w] = "loop"]
  /\ UNCHANGED <<addVars, taken, process, successes, failures, activeWorkers, closeVars>>

\* Mutant: peek instead of poll.
PollTakesPeeking(w) ==
  /\ worker[w] = "poll"
  /\ queue # <<>>
  /\ taken' = [taken EXCEPT ![w] = Head(queue)]
  /\ worker' = [worker EXCEPT ![w] = "polled"]
  /\ UNCHANGED <<addVars, process, successes, failures, activeWorkers, closeVars>>

PollTakes(w) ==
  /\ worker[w] = "poll"
  /\ queue # <<>>
  /\ queue' = Tail(queue)
  /\ taken' = [taken EXCEPT ![w] = Head(queue)]
  /\ worker' = [worker EXCEPT ![w] = "polled"]
  /\ UNCHANGED <<call, queueFull, process, successes, failures, activeWorkers, closeVars>>

RaisesGauge(w) ==
  /\ worker[w] = "polled"
  /\ activeWorkers' = activeWorkers + 1
  /\ worker' = [worker EXCEPT ![w] = "active"]
  /\ UNCHANGED <<addVars, taken, process, successes, failures, closeVars>>

CallsProcess(w) ==
  /\ worker[w] = "active"
  /\ process' = [process EXCEPT ![taken[w]] = "running"]
  /\ worker' = [worker EXCEPT ![w] = "busy"]
  /\ UNCHANGED <<addVars, taken, successes, failures, activeWorkers, closeVars>>

AwaitEnds(w) ==
  /\ worker' = [worker EXCEPT ![w] = "counted"]
  /\ UNCHANGED <<addVars, taken, process, activeWorkers, closeVars>>

\* Mutant: the Future is not awaited, a call that returned one is a success.
AwaitSkipped(w) ==
  /\ worker[w] = "busy"
  /\ process[taken[w]] \in {"pending", "succeeded"}
  /\ successes' = successes + 1
  /\ AwaitEnds(w)
  /\ UNCHANGED failures

AwaitReturns(w) ==
  /\ worker[w] = "busy"
  /\ process[taken[w]] = "succeeded"
  /\ successes' = successes + 1
  /\ AwaitEnds(w)
  /\ UNCHANGED failures

AwaitThrows(w) ==
  /\ worker[w] = "busy"
  /\ process[taken[w]] = "failed"
  /\ failures' = failures + 1
  /\ AwaitEnds(w)
  /\ UNCHANGED successes

\* Await.result gives up; the Future of process stays pending.  While
\* process itself has not returned a Future there is nothing to time out.
AwaitTimesOut(w) ==
  /\ HasTimeout
  /\ worker[w] = "busy"
  /\ process[taken[w]] = "pending"
  /\ failures' = failures + 1
  /\ AwaitEnds(w)
  /\ UNCHANGED successes

\* Try catches only what NonFatal matches: anything else ends loop().
WorkerDies(w) ==
  /\ worker[w] = "busy"
  /\ process[taken[w]] = "fatal"
  /\ worker' = [worker EXCEPT ![w] = "dead"]
  /\ UNCHANGED <<addVars, taken, process, successes, failures, activeWorkers, closeVars>>

LowersGauge(w) ==
  /\ worker[w] = "counted"
  /\ activeWorkers' = activeWorkers - 1
  /\ taken' = [taken EXCEPT ![w] = NoItem]
  /\ worker' = [worker EXCEPT ![w] = "loop"]
  /\ UNCHANGED <<addVars, process, successes, failures, closeVars>>

WorkerStep(w) ==
  \/ LoopContinues(w) \/ LoopExits(w)
  \/ PollTimesOut(w) \/ PollTakes(w) \/ RaisesGauge(w) \/ CallsProcess(w)
  \/ AwaitReturns(w) \/ AwaitThrows(w) \/ AwaitTimesOut(w) \/ WorkerDies(w)
  \/ LowersGauge(w)

-----------------------------------------------------------------------------
(* The `process` function the queue was given.                             *)

ProcessReturns(i) ==
  /\ process[i] = "running"
  /\ \E r \in {"pending"} \cup Outcomes : process' = [process EXCEPT ![i] = r]
  /\ UNCHANGED <<addVars, workerVars, closeVars>>

ProcessCompletes(i) ==
  /\ process[i] = "pending"
  /\ \E r \in Outcomes : process' = [process EXCEPT ![i] = r]
  /\ UNCHANGED <<addVars, workerVars, closeVars>>

-----------------------------------------------------------------------------
(* close(deadline), at most once (closeAwaitably); the deadline is ignored. *)

\* Mutant: close forgets `running = false`.
CloseKeepsRunning ==
  /\ closeFuture = "none"
  /\ closeFuture' = "pending"
  /\ beforeClose' = Accepted
  /\ UNCHANGED <<running, addVars, workerVars, process>>

Close ==
  /\ closeFuture = "none"
  /\ closeFuture' = "pending"
  /\ running' = FALSE
  /\ beforeClose' = Accepted
  /\ UNCHANGED <<addVars, workerVars, process>>

\* Mutant: the close Future waits for an empty queue, not for the workers.
CloseCompletesOnEmpty ==
  /\ closeFuture = "pending"
  /\ queue = <<>>
  /\ closeFuture' = "done"
  /\ UNCHANGED <<addVars, workerVars, process, running, beforeClose>>

\* Future.join(workers): done when all are, failed as soon as one is.
CloseCompletes ==
  /\ closeFuture = "pending"
  /\ \A w \in Workers : worker[w] = "exited"
  /\ closeFuture' = "done"
  /\ UNCHANGED <<addVars, workerVars, process, running, beforeClose>>

CloseFails ==
  /\ closeFuture = "pending"
  /\ Dead # {}
  /\ closeFuture' = "failed"
  /\ UNCHANGED <<addVars, workerVars, process, running, beforeClose>>

CloseStep == Close \/ CloseCompletes \/ CloseFails

-----------------------------------------------------------------------------
Next ==
  \/ \E i \in Items : AddStep(i) \/ ProcessReturns(i) \/ ProcessCompletes(i)
  \/ \E w \in Workers : WorkerStep(w)
  \/ CloseStep

Spec == Init /\ [][Next]_vars

\* Threads are scheduled, process returns, and unless the await is bounded
\* its Future is completed.  Nobody is obliged to call add or close.
Fairness ==
  /\ \A w \in Workers : WF_vars(WorkerStep(w))
  /\ \A i \in Items : WF_vars(ProcessReturns(i))
  /\ HasTimeout \/ \A i \in Items : WF_vars(ProcessCompletes(i))
  /\ WF_vars(CloseCompletes \/ CloseFails)

FairSpec == Spec /\ Fairness

-----------------------------------------------------------------------------
\* Type correctness of the queue's state.
TypeOK ==
  /\ running \in BOOLEAN
  /\ queue \in Seq(Items)
  /\ call \in [Items -> CallStates]
  /\ worker \in [Workers -> WorkerStates]
  /\ taken \in [Workers -> Items \cup {NoItem}]
  /\ process \in [Items -> ProcessStates]
  /\ queueFull \in Nat /\ successes \in Nat /\ failures \in Nat
  /\ activeWorkers \in Nat
  /\ closeFuture \in {"none", "pending", "done", "failed"}
  /\ beforeClose \subseteq Items

\* Nothing is lost or handed over twice: the queue never exceeds maxSize and
\* holds no item twice; an accepted item is either still queued, or in the hands
\* of one thread that is about to call process, or was passed to process; and an
\* item whose add was refused gets to none of these (add, ItemQueue.scala:86,
\* and the poll of loop).
HandedOverOnce ==
  /\ Len(queue) <= MaxSize
  /\ \A j, k \in DOMAIN queue : queue[j] = queue[k] => j = k
  /\ \A i \in Items : (i \in Queued \cup Carried) <=> (call[i] = "accepted" /\ process[i] = "none")
  /\ \A i \in Items : process[i] # "none" => call[i] = "accepted"
  /\ Queued \cap Carried = {}
  /\ \A v, w \in Workers : taken[v] = taken[w] /\ taken[v] # NoItem => v = w

\* Every item that was in the queue when close was called has been passed to
\* process, and its thread has moved on, by the time the close Future is done
\* (ItemQueue.scala:35 "On close the queue will drain itelf before completing
\* the close Future").  It says nothing of items offered by a call of add that
\* had read `running` earlier.
DrainedOnClose ==
  closeFuture = "done" =>
    \A i \in beforeClose : process[i] # "none" /\ \A w \in Workers : taken[w] # i

\* Without a timeout "Workers will Await on process": an item a thread has let
\* go of is settled, and no more than maxConcurrency calls of process are ever
\* outstanding (ItemQueue.scala:31).
AwaitedToTheEnd ==
  ~HasTimeout =>
    \A i \in Items : process[i] \in {"running", "pending"} =>
      \E w \in Busy : taken[w] = i

\* What the statistics add up to, at every moment: the gauge is the number of
\* threads between its two updates, a dead thread among them, and what add
\* accepted is in the queue's size, in the gauge or counted as a success or a
\* failure, except that an item just polled is in none of these until its thread
\* raises the gauge, and one just counted is in two until its thread lowers it
\* (the four statements of loop, ItemQueue.scala:63-69).  No success is counted
\* that did not happen.
Accounting ==
  /\ activeWorkers = Cardinality(At({"active", "busy", "counted", "dead"}))
  /\ Cardinality(Accepted) + Cardinality(At({"counted"})) =
       Len(queue) + Cardinality(At({"polled"})) + activeWorkers + successes + failures
  /\ successes <= Cardinality({i \in Items : process[i] = "succeeded"})

\* What a caller of the queue counts on, of one well-typed state: every accepted
\* item is handed over once, close drains what it found, and the books balance
\* but for the threads that are about to write in them.
ItemsKept == TypeOK /\ HandedOverOnce /\ DrainedOnClose /\ Accounting

\* ItemQueue.scala:35 and :37 read literally: when the close Future is done
\* the queue is empty.
NothingLeftBehind == closeFuture = "done" => queue = <<>>

\* Calls of process the items of which no thread awaits any more.
Abandoned == {i \in Items : process[i] \in {"running", "pending"} /\ \A w \in Busy : taken[w] # i}

\* Items are processed "by a number of workers limited by maxConcurrency", which
\* "Await on process" (ItemQueue.scala:31): no more calls of process are ever
\* outstanding than there are workers.  A bounded await that gives up lets its
\* call go on while the worker starts the next (66-68): then as many more as
\* failures were counted, and without a timeout none.
ConcurrencyLimited ==
  Cardinality({i \in Items : process[i] \in {"running", "pending"}}) <=
    Cardinality(Workers) + (IF HasTimeout THEN failures ELSE 0)

-----------------------------------------------------------------------------
(* What the queue promises: a refinement of BoundedHandoff. *)

\* How far the queue itself can see an item, in the terms of the promise.
Stage(i) ==
  IF call[i] = "idle" THEN "outside"
  ELSE IF call[i] \in {"offering", "sleeping"} THEN "entering"
  ELSE IF call[i] # "accepted" THEN "refused"
  ELSE IF i \in Queued THEN "held"
  ELSE IF \E w \in Workers : taken[w] = i THEN "taken"
  ELSE "settled"

StageOf == [i \in Items |-> Stage(i)]

HandoffPhase ==
  CASE closeFuture = "none" -> "open"
    [] closeFuture = "done" -> "closed"
    [] OTHER -> "closing"

Handoff == INSTANCE BoundedHandoff WITH
  Capacity <- MaxSize,
  phase <- HandoffPhase,
  stage <- StageOf,
  promised <- beforeClose

\* The queue with its threads keeps the promise of BoundedHandoff, step by
\* step: every step of ItemQueue.scala is a step of the promise or is not
\* visible in it.
KeepsPromise == Handoff!Spec

\* Given fair threads, none of which dies, it also makes the progress that is
\* promised: what is held gets taken unless the shutdown is over first, what is
\* taken gets settled, and a shutdown ends.
KeepsPromiseFairly == [](Dead = {}) => Handoff!Fairness
=============================================================================
