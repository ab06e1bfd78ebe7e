----------------------------- MODULE Collector -----------------------------
(***************************************************************************)
(* A collector put together by ZipkinCollectorFactory: a receiver, the     *)
(* function it hands spans to, and the span store behind it.  `mode` says  *)
(* which of the three newCollector methods built it:                       *)
(*   "direct"    receiver -> store                                         *)
(*   "queued"    receiver -> ItemQueue -> store                            *)
(*   "blocking"  receiver -> BlockingItemQueue -> store                    *)
(* Closing goes through the parts in sequence.  The receivers themselves   *)
(* are ScribeCollector and KafkaCollector.                                 *)
(***************************************************************************)
EXTENDS BlockingItemQueue

CONSTANT
  Modes     \* the kinds of collector looked at

ASSUME ModesAssumption == Modes \subseteq {"direct", "queued", "blocking"}

VARIABLES
  mode,     \* the kind of this collector; never changes
  deadline, \* the argument of close: Time.Bottom, or one that leaves time
  phase     \* how far Closable.sequence(receiver, queue, store) has come

collectorVars == <<mode, deadline, phase>>

Deadlines == {"Bottom", "ample"}
Phases == {"up", "closingReceiver", "closingQueue", "closed"}

-----------------------------------------------------------------------------
(* The function given to newReceiver: what process(spans) does and returns. *)

\* Without a queue process(spans) is the store's apply.
StoreCalled(i) ==
  /\ call[i] = "idle"
  /\ call' = [call EXCEPT ![i] = "accepted"]
  /\ process' = [process EXCEPT ![i] = "running"]
  /\ UNCHANGED <<queue, queueFull, workerVars, closeVars>>

HandOver(i) ==
  \/ mode = "direct" /\ StoreCalled(i)
  \/ mode = "queued" /\ AddStep(i)
  \/ mode = "blocking" /\ BlockingAddStep(i)

\* What the Future returned to the receiver holds, once it is satisfied.
Result(i) ==
  CASE call[i] = "queueFull" -> "queueFull"
    [] call[i] = "queueClosed" -> "error"
    [] call[i] = "accepted" /\ mode # "direct" -> "ok"
    [] call[i] = "accepted" /\ mode = "direct" /\ process[i] = "succeeded" -> "ok"
    [] call[i] = "accepted" /\ mode = "direct" /\ process[i] = "failed" -> "error"
    [] call[i] = "accepted" /\ mode = "direct" /\ process[i] = "fatal" -> "fatal"
    [] OTHER -> "unsatisfied"

-----------------------------------------------------------------------------
(* close(deadline): each part is closed when the one before it is.  Store  *)
(* calls already made are not followed by the sequence.                    *)

ReceiverCloseBegins ==
  /\ phase = "up"
  /\ phase' = "closingReceiver"
  /\ \E d \in Deadlines : deadline' = d
  /\ UNCHANGED <<mode, vars>>

QueueCloseBegins(receiverClosed) ==
  /\ phase = "closingReceiver" /\ receiverClosed
  /\ IF mode = "direct"
       THEN phase' = "closed" /\ UNCHANGED vars
       ELSE phase' = "closingQueue" /\ Close
  /\ UNCHANGED <<mode, deadline>>

\* Mutant: the store is closed together with the queue.
StoreCloseEager ==
  /\ phase = "closingQueue"
  /\ phase' = "closed"
  /\ UNCHANGED <<mode, deadline, vars>>

\* The store is closed once the queue's Future is done; a failed one ends the
\* sequence.
StoreCloseBegins ==
  /\ phase = "closingQueue"
  /\ closeFuture = "done"
  /\ phase' = "closed"
  /\ UNCHANGED <<mode, deadline, vars>>

CollectorCloseStep(receiverClosed) ==
  ReceiverCloseBegins \/ QueueCloseBegins(receiverClosed) \/ StoreCloseBegins

\* The steps of the queue's own threads and of the store.
BackgroundStep ==
  /\ \/ \E w \in Workers : mode # "direct" /\ WorkerStep(w)
     \/ \E i \in Items : ProcessReturns(i) \/ ProcessCompletes(i)
     \/ CloseCompletes \/ CloseFails
  /\ UNCHANGED collectorVars

CollectorInit == Init /\ mode \in Modes /\ deadline = "none" /\ phase = "up"

CollectorFairness ==
  /\ \A w \in Workers :
       WF_<<vars, collectorVars>>(mode # "direct" /\ WorkerStep(w) /\ UNCHANGED collectorVars)
  /\ \A i \in Items :
       /\ WF_<<vars, collectorVars>>(ProcessReturns(i) /\ UNCHANGED collectorVars)
       /\ WF_<<vars, collectorVars>>(ProcessCompletes(i) /\ UNCHANGED collectorVars)
  /\ WF_<<vars, collectorVars>>((CloseCompletes \/ CloseFails) /\ UNCHANGED collectorVars)

-----------------------------------------------------------------------------
\* Work the collector still has to do for a call of process.
Outstanding(i) ==
  \/ i \in Queued \cup Carried
  \/ process[i] \in {"running", "pending"}

\* In the collector too, with threads that time out or die, with callers that
\* sleep, and with the queue closed while receivers still hand over: every item
\* the queue accepted is handed to the store once, close drains what it found,
\* and the statistics add up (ItemQueue.scala:61-95, BlockingItemQueue.scala:23-34).
QueueKept == mode # "direct" => ItemsKept
=============================================================================
