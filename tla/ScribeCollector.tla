-------------------------- MODULE ScribeCollector --------------------------
(***************************************************************************)
(* A collector whose receiver is the scribe thrift server                  *)
(* (receiver/scribe/ScribeSpanReceiver.scala).  Clients send batches of    *)
(* log entries and send a batch again when the answer is TryLater or does  *)
(* not arrive.  An item is one attempt: <<batch, number>>.                 *)
(***************************************************************************)
EXTENDS Collector

CONSTANTS
  Batches,      \* the batches clients have to log
  MaxAttempts,  \* bound: how often a client sends one batch
  Content,      \* Content[b]: the entries of batch b, [category, valid] records
  Categories    \* the whitelist, in lower case as are the categories of entries

BatchOf(i) == i[1]
Number(i) == i[2]
Previous(i) == <<BatchOf(i), Number(i) - 1>>

\* Attempts are numbered without gaps.
ASSUME AttemptsAssumption ==
  /\ MaxAttempts \in Nat \ {0} /\ Items \subseteq Batches \X (1 .. MaxAttempts)
  /\ \A i \in Items : Number(i) > 1 => Previous(i) \in Items

VARIABLES
  request,      \* where the server stands with each attempt
  seen          \* what the client knows of each attempt

scribeVars == <<request, seen>>
allVars == <<vars, collectorVars, scribeVars>>

Answers == {"Ok", "TryLater", "exception"}
RequestStates == {"unsent", "logging"} \cup Answers

-----------------------------------------------------------------------------
\* The entries that make it to process: category known, message decodable.
\* An undecodable message is swallowed.
Spans(b) == {e \in Content[b] : e.category \in Categories /\ e.valid}

\* Mutant: accepted spans are answered TryLater.
AnswerAlwaysTryLater(result) == "TryLater"

\* How log answers for each outcome of process: only a throwable NonFatal does
\* not match reaches the client as an exception.
Answer(result) ==
  CASE result = "ok" -> "Ok"
    [] result = "fatal" -> "exception"
    [] OTHER -> "TryLater"

ScribeInit ==
  /\ CollectorInit
  /\ request = [i \in Items |-> "unsent"]
  /\ seen = [i \in Items |-> "nothing"]

-----------------------------------------------------------------------------
(* The client (not part of the collector): at least once delivery.         *)

ClientSends(i) ==
  /\ phase = "up"
  /\ request[i] = "unsent"
  /\ Number(i) > 1 => seen[Previous(i)] \in {"TryLater", "exception", "lost"}
  /\ request' = [request EXCEPT ![i] = "logging"]
  /\ UNCHANGED <<vars, collectorVars, seen>>

\* The connection breaks; the server keeps working on the request.
ConnectionLost(i) ==
  /\ request[i] # "unsent" /\ seen[i] = "nothing"
  /\ seen' = [seen EXCEPT ![i] = "lost"]
  /\ UNCHANGED <<vars, collectorVars, request>>

AnswerArrives(i) ==
  /\ request[i] \in Answers /\ seen[i] = "nothing"
  /\ seen' = [seen EXCEPT ![i] = request[i]]
  /\ UNCHANGED <<vars, collectorVars, request>>

-----------------------------------------------------------------------------
(* ScribeReceiver.log                                                      *)

LogNothing(i) ==
  /\ request[i] = "logging"
  /\ Spans(BatchOf(i)) = {}
  /\ request' = [request EXCEPT ![i] = "Ok"]
  /\ UNCHANGED <<vars, collectorVars, seen>>

LogHandsOver(i) ==
  /\ request[i] = "logging"
  /\ Spans(BatchOf(i)) # {}
  /\ HandOver(i)
  /\ UNCHANGED <<collectorVars, scribeVars>>

LogAnswers(i) ==
  /\ request[i] = "logging"
  /\ Result(i) # "unsatisfied"
  /\ request' = [request EXCEPT ![i] = Answer(Result(i))]
  /\ UNCHANGED <<vars, collectorVars, seen>>

\* A store call that failed because the client cancelled its request is no
\* error; the answer has nobody to go to.
LogForgivesCancel(i) ==
  /\ request[i] = "logging" /\ seen[i] = "lost"
  /\ mode = "direct" /\ process[i] = "failed"
  /\ request' = [request EXCEPT ![i] = "Ok"]
  /\ UNCHANGED <<vars, collectorVars, seen>>

LogStep(i) ==
  LogNothing(i) \/ LogHandsOver(i) \/ LogAnswers(i) \/ LogForgivesCancel(i)

\* ThriftMux stops accepting and waits for the requests under way, at most
\* until the deadline.
ReceiverClosed == deadline = "ample" => \A i \in Items : request[i] # "logging"

-----------------------------------------------------------------------------
ScribeNext ==
  \/ \E i \in Items : ClientSends(i) \/ ConnectionLost(i) \/ AnswerArrives(i) \/ LogStep(i)
  \/ BackgroundStep /\ UNCHANGED scribeVars
  \/ CollectorCloseStep(ReceiverClosed) /\ UNCHANGED scribeVars

ScribeSpec == ScribeInit /\ [][ScribeNext]_allVars

ScribeFairSpec ==
  /\ ScribeSpec
  /\ CollectorFairness
  /\ \A i \in Items : WF_allVars(LogStep(i))
  /\ WF_allVars(QueueCloseBegins(ReceiverClosed) /\ UNCHANGED scribeVars)
  /\ WF_allVars(StoreCloseBegins /\ UNCHANGED scribeVars)

-----------------------------------------------------------------------------
\* Type correctness of what the scribe receiver adds.
ScribeTypeOK ==
  /\ TypeOK
  /\ mode \in Modes /\ deadline \in Deadlines \cup {"none"} /\ phase \in Phases
  /\ request \in [Items -> RequestStates]
  /\ seen \in [Items -> {"nothing", "lost"} \cup Answers]

\* A batch answered Ok is not lost in shutdown: when the store is closed, its
\* spans have been passed to the store and no queue thread still waits for
\* them.  Requests that outlive close's deadline are covered only when their
\* item was queued before the queue was closed
\* (Closable.sequence(receiver, queue, store), ZipkinCollectorFactory.scala:80).
AckedReachesStore ==
  phase = "closed" =>
    \A i \in Items :
      (request[i] = "Ok" /\ Spans(BatchOf(i)) # {} /\ (deadline = "ample" \/ i \in beforeClose)) =>
        process[i] # "none" /\ \A w \in Workers : taken[w] # i

\* TryLater is only said of spans that are not, and will not be, in the store:
\* an attempt answered TryLater never gets to process, or failed there
\* (ScribeSpanReceiver.scala:117-124).
PushedBackIsNotStored ==
  \A i \in Items : request[i] = "TryLater" =>
    i \notin Queued /\ process[i] \in {"none", "failed"}

\* A batch is passed on twice only when an answer went missing in between or,
\* without a queue, the store failed: the retries that TryLater asks for make no
\* duplicates.
NoDuplicateWithoutLoss ==
  \A i, j \in Items :
    (BatchOf(i) = BatchOf(j) /\ Number(i) < Number(j)
       /\ call[i] = "accepted" /\ call[j] = "accepted") =>
      \E k \in Items :
        /\ BatchOf(k) = BatchOf(i) /\ Number(k) \in Number(i) .. Number(j) - 1
        /\ seen[k] = "lost" \/ (mode = "direct" /\ process[k] \in {"failed", "fatal"})

\* Of one well-typed state: TryLater never asks for spans that were taken, so a
\* repeated batch is stored twice only after a loss (ScribeSpanReceiver.scala:110-128).
RepeatsAreHonest == ScribeTypeOK /\ PushedBackIsNotStored /\ NoDuplicateWithoutLoss

\* When the receiver had time for its requests the store is closed last: nothing
\* is queued, and the only store calls still under way are those an await with a
\* timeout gave up on (the order of Closable.sequence,
\* ZipkinCollectorFactory.scala:80; SpanStore.scala:83 "Close writes and await
\* possible draining of internal queues").
StoreClosedLast ==
  (phase = "closed" /\ deadline = "ample") =>
    \A i \in Items :
      /\ i \notin Queued /\ process[i] # "running"
      /\ process[i] = "pending" => HasTimeout /\ mode # "direct"

\* Every request is answered, whatever the state of the queue: full, closing, or
\* with callers asleep in it.  The one exception is a caller asleep in a blocking
\* queue whose threads have all gone, which takes either fatal errors or a close
\* that does not wait for the requests.
EveryRequestAnswered ==
  \A i \in Items : (request[i] = "logging") ~>
    \/ request[i] \in Answers
    \/ /\ mode = "blocking" /\ \A w \in Workers : worker[w] \in {"exited", "dead"}
       /\ Dead = Workers \/ deadline = "Bottom"

\* The whole collector closes once asked to, unless a thread of the queue died:
\* then the queue's Future fails and the store is left open, or callers asleep in
\* the queue keep the receiver from closing.
ShutdownCompletes ==
  (phase = "closingReceiver") ~> (phase = "closed" \/ Dead # {})
=============================================================================
