----------------------- MODULE ScribeCollectorProofs -----------------------
(***************************************************************************)
(* What the clients of a scribe collector may rely on, for any batches,    *)
(* attempts and losses, and in front of any queue or none.                 *)
(***************************************************************************)
EXTENDS ScribeCollector, CollectorProofs

-----------------------------------------------------------------------------
(* The inductive invariant.                                                *)

\* An attempt the server has not seen has left no trace; an answer that arrived is
\* the one that was given.
RequestInv ==
  /\ request \in [Items -> RequestStates]
  /\ seen \in [Items -> {"nothing", "lost"} \cup Answers]
  /\ \A i \in Items :
       /\ request[i] = "unsent" => call[i] = "idle" /\ seen[i] = "nothing"
       /\ seen[i] \in Answers => request[i] = seen[i]
       /\ Spans(BatchOf(i)) = {} => call[i] = "idle"

\* What each answer says of the call of process behind it, and that without a queue
\* the answer waits for the store.
AnswerInv ==
  \A i \in Items :
    /\ request[i] = "Ok" /\ Spans(BatchOf(i)) # {} => call[i] = "accepted"
    /\ request[i] = "TryLater" =>
         \/ call[i] \in {"queueFull", "queueClosed"}
         \/ mode = "direct" /\ call[i] = "accepted" /\ process[i] = "failed"
    /\ request[i] = "exception" => mode = "direct" /\ process[i] = "fatal"
    /\ mode = "direct" /\ process[i] \in {"running", "pending"} => request[i] = "logging"

\* A batch is sent again only once every earlier attempt has gone wrong for the client.
RetryInv ==
  \A i, j \in Items :
    BatchOf(i) = BatchOf(j) /\ Number(i) < Number(j) /\ request[j] # "unsent" =>
      seen[i] \in {"TryLater", "exception", "lost"}

\* Once a receiver that had time is closed no request is under way, and what was
\* accepted was accepted before the queue was closed.
QuietInv ==
  phase \in {"closingQueue", "closed"} /\ deadline = "ample" =>
    /\ \A i \in Items : request[i] # "logging"
    /\ mode # "direct" => Accepted \subseteq beforeClose

ScribeInv == CollectorInv /\ RequestInv /\ AnswerInv /\ RetryInv /\ QuietInv

-----------------------------------------------------------------------------
(* Steps of the client and of log that leave the collector alone.          *)

LEMMA ReceiverStepFacts ==
  ASSUME ScribeInv, UNCHANGED <<vars, collectorVars>>
  PROVE  /\ CollectorInv' /\ Accepted' = Accepted
         /\ UNCHANGED <<mode, phase, deadline, call, process, queue, beforeClose>>
  BY CollectorUnchanged DEF ScribeInv, vars, collectorVars, Accepted

LEMMA ClientSendsInv ==
  ASSUME ScribeInv, NEW i \in Items, ClientSends(i)
  PROVE  ScribeInv'
<1>1. /\ request' = [request EXCEPT ![i] = "logging"] /\ seen' = seen
      /\ UNCHANGED <<vars, collectorVars>>
      /\ request[i] = "unsent" /\ phase = "up"
      /\ Number(i) > 1 => seen[Previous(i)] \in {"TryLater", "exception", "lost"}
  BY DEF ClientSends
<1>2. /\ CollectorInv' /\ Accepted' = Accepted
      /\ UNCHANGED <<mode, phase, deadline, call, process, queue, beforeClose>>
  BY <1>1, ReceiverStepFacts
<1>3. RequestInv'
  BY <1>1, <1>2 DEF ScribeInv, RequestInv, RequestStates, Answers
<1>4. AnswerInv'
  BY <1>1, <1>2 DEF ScribeInv, RequestInv, AnswerInv
<1>5. ASSUME NEW k \in Items, BatchOf(k) = BatchOf(i), Number(k) < Number(i)
      PROVE  seen[k] \in {"TryLater", "exception", "lost"}
  <2>1. /\ Number(k) \in Nat /\ Number(i) \in Nat /\ Number(k) >= 1
        /\ k = <<BatchOf(k), Number(k)>> /\ i = <<BatchOf(i), Number(i)>>
    BY AttemptsAssumption DEF Number, BatchOf
  <2>2. /\ Previous(i) \in Items /\ seen[Previous(i)] \in {"TryLater", "exception", "lost"}
        /\ BatchOf(Previous(i)) = BatchOf(i) /\ Number(Previous(i)) = Number(i) - 1
    <3>1. Number(i) > 1
      BY <1>5, <2>1
    <3>2. Previous(i) \in Items
      BY <3>1, AttemptsAssumption
    <3>3. QED BY <1>1, <3>1, <3>2 DEF Previous, BatchOf, Number
  <2>3. CASE Number(k) = Number(i) - 1
    BY <1>5, <2>1, <2>2, <2>3 DEF Previous
  <2>4. CASE Number(k) < Number(i) - 1
    <3>1. request[Previous(i)] # "unsent"
      BY <2>2 DEF ScribeInv, RequestInv
    <3>2. QED BY <1>5, <2>2, <2>4, <3>1 DEF ScribeInv, RetryInv
  <2>5. QED BY <1>5, <2>1, <2>3, <2>4
<1>6. RetryInv'
  <2>1. request \in [Items -> RequestStates]
    BY DEF ScribeInv, RequestInv
  <2>2. QED BY <1>1, <1>5, <2>1 DEF ScribeInv, RetryInv
<1>7. QuietInv'
  BY <1>1, <1>2 DEF QuietInv
<1>8. QED BY <1>2, <1>3, <1>4, <1>6, <1>7 DEF ScribeInv

\* The client learns of an answer, or of a broken connection, once.
LEMMA ClientHearsInv ==
  ASSUME ScribeInv, NEW i \in Items, ConnectionLost(i) \/ AnswerArrives(i)
  PROVE  ScribeInv'
<1>1. /\ request' = request /\ UNCHANGED <<vars, collectorVars>>
      /\ request[i] # "unsent" /\ seen[i] = "nothing"
      /\ \/ seen' = [seen EXCEPT ![i] = "lost"]
         \/ request[i] \in Answers /\ seen' = [seen EXCEPT ![i] = request[i]]
  BY DEF ConnectionLost, AnswerArrives, Answers
<1>2. /\ CollectorInv' /\ Accepted' = Accepted
      /\ UNCHANGED <<mode, phase, deadline, call, process, queue, beforeClose>>
  BY <1>1, ReceiverStepFacts
<1>3. RequestInv'
  BY <1>1, <1>2 DEF ScribeInv, RequestInv, RequestStates, Answers
<1>4. AnswerInv' /\ QuietInv'
  BY <1>1, <1>2 DEF ScribeInv, AnswerInv, QuietInv
<1>5. RetryInv'
  <2>1. \A k \in Items : seen[k] \in {"TryLater", "exception", "lost"} => seen'[k] = seen[k]
    BY <1>1 DEF ScribeInv, RequestInv
  <2>2. QED BY <1>1, <2>1 DEF ScribeInv, RetryInv
<1>6. QED BY <1>2, <1>3, <1>4, <1>5 DEF ScribeInv

\* An answer is given to a request under way, whose call of process has an outcome.
LEMMA LogAnswersInv ==
  ASSUME ScribeInv, NEW i \in Items, LogNothing(i) \/ LogAnswers(i) \/ LogForgivesCancel(i)
  PROVE  ScribeInv'
<1>1. /\ request[i] = "logging" /\ seen' = seen /\ UNCHANGED <<vars, collectorVars>>
      /\ \E a \in Answers : request' = [request EXCEPT ![i] = a]
  BY DEF LogNothing, LogAnswers, LogForgivesCancel, Answer, Answers
<1>2. /\ CollectorInv' /\ Accepted' = Accepted
      /\ UNCHANGED <<mode, phase, deadline, call, process, queue, beforeClose>>
  BY <1>1, ReceiverStepFacts
<1>3. RequestInv'
  BY <1>1, <1>2 DEF ScribeInv, RequestInv, RequestStates, Answers
<1>4. /\ request'[i] = "Ok" /\ Spans(BatchOf(i)) # {} => call[i] = "accepted"
      /\ request'[i] = "TryLater" =>
           \/ call[i] \in {"queueFull", "queueClosed"}
           \/ mode = "direct" /\ call[i] = "accepted" /\ process[i] = "failed"
      /\ request'[i] = "exception" => mode = "direct" /\ process[i] = "fatal"
      /\ mode = "direct" => process[i] \notin {"running", "pending"}
  <2>0. mode = "direct" =>
          \/ call[i] = "idle" /\ process[i] = "none"
          \/ call[i] = "accepted" /\ process[i] # "none"
    BY DEF ScribeInv, CollectorInv, DirectInv
  <2>1. CASE LogNothing(i)
    BY <2>0, <2>1 DEF LogNothing, ScribeInv, RequestInv
  <2>2. CASE LogForgivesCancel(i)
    BY <2>0, <2>2 DEF LogForgivesCancel, ScribeInv, RequestInv
  <2>3. CASE LogAnswers(i)
    <3>1. request'[i] = Answer(Result(i)) /\ Result(i) # "unsatisfied"
      BY <2>3 DEF LogAnswers, ScribeInv, RequestInv
    <3>2. call[i] \in CallStates /\ process[i] \in ProcessStates
      BY CollectorTypes DEF ScribeInv, TypeOK
    <3>3. CASE call[i] # "accepted"
      BY <2>0, <3>1, <3>2, <3>3 DEF Result, Answer, CallStates
    <3>4. CASE call[i] = "accepted" /\ mode # "direct"
      BY <3>1, <3>4 DEF Result, Answer
    <3>5. CASE call[i] = "accepted" /\ mode = "direct"
      <4>1. \/ process[i] = "succeeded" /\ Result(i) = "ok"
            \/ process[i] = "failed" /\ Result(i) = "error"
            \/ process[i] = "fatal" /\ Result(i) = "fatal"
        BY <3>1, <3>5 DEF Result
      <4>2. QED BY <3>1, <3>5, <4>1 DEF Answer
    <3>6. QED BY <3>3, <3>4, <3>5
  <2>4. QED BY <2>1, <2>2, <2>3
<1>5. AnswerInv'
  BY <1>1, <1>2, <1>4 DEF ScribeInv, RequestInv, AnswerInv
<1>6. RetryInv' /\ QuietInv'
  BY <1>1, <1>2 DEF ScribeInv, RequestInv, RetryInv, QuietInv, Answers
<1>7. QED BY <1>2, <1>3, <1>5, <1>6 DEF ScribeInv

-----------------------------------------------------------------------------
(* Steps of the collector.                                                 *)

LEMMA LogHandsOverInv ==
  ASSUME ScribeInv, NEW i \in Items, LogHandsOver(i)
  PROVE  ScribeInv'
<1>1. /\ request[i] = "logging" /\ Spans(BatchOf(i)) # {} /\ HandOver(i)
      /\ UNCHANGED collectorVars /\ UNCHANGED <<request, seen>>
  BY DEF LogHandsOver, scribeVars
<1>2. /\ CollectorInv'
      /\ \A j \in Items \ {i} : call'[j] = call[j] /\ process'[j] = process[j]
      /\ UNCHANGED <<mode, phase, deadline, beforeClose>>
  BY <1>1, HandOverFacts DEF ScribeInv
<1>3. RequestInv'
  BY <1>1, <1>2 DEF ScribeInv, RequestInv
<1>4. AnswerInv'
  <2> SUFFICES ASSUME NEW j \in Items
               PROVE  /\ request'[j] = "Ok" /\ Spans(BatchOf(j)) # {} => call'[j] = "accepted"
                      /\ request'[j] = "TryLater" =>
                           \/ call'[j] \in {"queueFull", "queueClosed"}
                           \/ mode' = "direct" /\ call'[j] = "accepted" /\ process'[j] = "failed"
                      /\ request'[j] = "exception" => mode' = "direct" /\ process'[j] = "fatal"
                      /\ mode' = "direct" /\ process'[j] \in {"running", "pending"}
                           => request'[j] = "logging"
    BY DEF AnswerInv
  <2>1. CASE j = i
    BY <1>1, <2>1
  <2>2. CASE j # i
    BY <1>1, <1>2, <2>2 DEF ScribeInv, AnswerInv
  <2>3. QED BY <2>1, <2>2
<1>5. RetryInv' /\ QuietInv'
  BY <1>1, <1>2 DEF ScribeInv, RetryInv, QuietInv
<1>6. QED BY <1>2, <1>3, <1>4, <1>5 DEF ScribeInv

LEMMA BackgroundInv ==
  ASSUME ScribeInv, BackgroundStep, UNCHANGED scribeVars
  PROVE  ScribeInv'
<1>1. /\ CollectorInv'
      /\ UNCHANGED <<call, mode, deadline, phase, beforeClose, request, seen>>
      /\ \A i \in Items : process'[i] = process[i] \/ ProcessMoves(i)
      /\ mode = "direct" => \A i \in Items : process[i] = "none" => process'[i] = "none"
  BY BackgroundFacts DEF ScribeInv, scribeVars
<1>2. RequestInv' /\ RetryInv' /\ QuietInv'
  BY <1>1 DEF ScribeInv, RequestInv, RetryInv, QuietInv, Accepted
<1>3. ASSUME NEW i \in Items
      PROVE  /\ process[i] \in {"failed", "fatal"} => process'[i] = process[i]
             /\ mode = "direct" /\ process'[i] \in {"running", "pending"} =>
                  process[i] \in {"running", "pending"}
  BY <1>1 DEF ProcessMoves
<1>4. AnswerInv'
  BY <1>1, <1>3 DEF ScribeInv, AnswerInv
<1>5. QED BY <1>1, <1>2, <1>4 DEF ScribeInv

LEMMA CloseInv ==
  ASSUME ScribeInv, CollectorCloseStep(ReceiverClosed), UNCHANGED scribeVars
  PROVE  ScribeInv'
<1>1. CollectorCloseStep(TRUE) /\ (phase = "closingReceiver" => ReceiverClosed)
  BY DEF CollectorCloseStep, QueueCloseBegins, ReceiverCloseBegins, StoreCloseBegins
<1>2. /\ CollectorInv'
      /\ UNCHANGED <<mode, call, process, request, seen>>
      /\ \/ phase = "up" /\ phase' = "closingReceiver"
         \/ phase = "closingReceiver" /\ phase' \in {"closingQueue", "closed"}
         \/ phase = "closingQueue" /\ phase' = "closed"
      /\ phase # "up" => deadline' = deadline
      /\ phase = "closingReceiver" /\ mode # "direct" => beforeClose' = Accepted
      /\ phase # "closingReceiver" => beforeClose' = beforeClose
  BY <1>1, CloseFacts DEF ScribeInv, scribeVars
<1>3. RequestInv' /\ AnswerInv' /\ RetryInv' /\ Accepted' = Accepted
  BY <1>2 DEF ScribeInv, RequestInv, AnswerInv, RetryInv, Accepted
<1>4. QuietInv'
  BY <1>1, <1>2, <1>3 DEF ScribeInv, QuietInv, ReceiverClosed
<1>5. QED BY <1>2, <1>3, <1>4 DEF ScribeInv

-----------------------------------------------------------------------------
\* ScribeInv is an invariant of the scribe collector.
THEOREM ScribeInvariance == ScribeSpec => []ScribeInv
<1>1. ScribeInit => ScribeInv
  <2> SUFFICES ASSUME ScribeInit PROVE ScribeInv
    OBVIOUS
  <2>1. CollectorInv /\ \A i \in Items : call[i] = "idle" /\ process[i] = "none"
    BY CollectorInitInv DEF ScribeInit, CollectorInit, Init
  <2>2. phase = "up"
    BY DEF ScribeInit, CollectorInit
  <2>3. QED BY <2>1, <2>2
            DEF ScribeInit, ScribeInv, RequestInv, AnswerInv, RetryInv, QuietInv, RequestStates,
                Answers
<1>2. ScribeInv /\ [ScribeNext]_allVars => ScribeInv'
  <2> SUFFICES ASSUME ScribeInv, [ScribeNext]_allVars PROVE ScribeInv'
    OBVIOUS
  <2>1. ASSUME NEW i \in Items, ClientSends(i) \/ ConnectionLost(i) \/ AnswerArrives(i)
        PROVE  ScribeInv'
    BY <2>1, ClientSendsInv, ClientHearsInv
  <2>2. ASSUME NEW i \in Items, LogStep(i) PROVE ScribeInv'
    BY <2>2, LogAnswersInv, LogHandsOverInv DEF LogStep
  <2>3. CASE BackgroundStep /\ UNCHANGED scribeVars
    BY <2>3, BackgroundInv
  <2>4. CASE CollectorCloseStep(ReceiverClosed) /\ UNCHANGED scribeVars
    BY <2>4, CloseInv
  <2>5. CASE UNCHANGED allVars
    <3>1. UNCHANGED <<vars, collectorVars>> /\ UNCHANGED <<request, seen>>
      BY <2>5 DEF allVars, scribeVars
    <3>2. /\ CollectorInv' /\ Accepted' = Accepted
          /\ UNCHANGED <<mode, phase, deadline, call, process, beforeClose>>
      BY <3>1, ReceiverStepFacts
    <3>3. QED BY <3>1, <3>2 DEF ScribeInv, RequestInv, AnswerInv, RetryInv, QuietInv
  <2>6. QED BY <2>1, <2>2, <2>3, <2>4, <2>5 DEF ScribeNext
<1>3. QED BY <1>1, <1>2, PTL DEF ScribeSpec

\* With at least one worker, a batch answered Ok has been passed to the store when the
\* store is closed, if the receiver had time or the batch was queued by then.
THEOREM AckedAreStored ==
  ASSUME Workers # {}
  PROVE  ScribeSpec => []AckedReachesStore
<1>1. ScribeInv => AckedReachesStore
  <2> SUFFICES ASSUME ScribeInv, phase = "closed", NEW i \in Items, request[i] = "Ok",
                      Spans(BatchOf(i)) # {}, deadline = "ample" \/ i \in beforeClose
               PROVE  process[i] # "none" /\ \A w \in Workers : taken[w] # i
    BY DEF AckedReachesStore
  <2>1. call[i] = "accepted"
    BY DEF ScribeInv, AnswerInv
  <2>2. CASE mode = "direct"
    BY <2>1, <2>2, NoItemAssumption DEF ScribeInv, CollectorInv, DirectInv
  <2>3. CASE mode # "direct"
    <3>1. i \in beforeClose
      BY <2>1, <2>3 DEF ScribeInv, QuietInv, Accepted
    <3>2. QED BY <2>3, <3>1, DrainedWhenClosed DEF ScribeInv
  <2>4. QED BY <2>2, <2>3
<1>2. QED BY <1>1, ScribeInvariance, PTL

\* TryLater is never said of spans that were taken: what a client repeats because of
\* it is not stored twice.
THEOREM TryLaterIsHonest == ScribeSpec => []RepeatsAreHonest
<1>1. ScribeInv => RepeatsAreHonest
  <2> SUFFICES ASSUME ScribeInv PROVE RepeatsAreHonest
    OBVIOUS
  <2>0. TypeOK /\ HandedOverOnce
    BY CollectorTypes DEF ScribeInv
  <2>1. ScribeTypeOK
    BY <2>0 DEF ScribeInv, CollectorInv, PhaseInv, RequestInv, ScribeTypeOK
  <2>2. PushedBackIsNotStored
    <3> SUFFICES ASSUME NEW i \in Items, request[i] = "TryLater"
                 PROVE  i \notin Queued /\ process[i] \in {"none", "failed"}
      BY DEF PushedBackIsNotStored
    <3>1. CASE call[i] \in {"queueFull", "queueClosed"}
      BY <2>0, <3>1 DEF HandedOverOnce
    <3>2. CASE mode = "direct" /\ call[i] = "accepted" /\ process[i] = "failed"
      BY <3>2 DEF ScribeInv, CollectorInv, DirectInv, Queued
    <3>3. QED BY <3>1, <3>2 DEF ScribeInv, AnswerInv
  <2>3. NoDuplicateWithoutLoss
    <3> SUFFICES ASSUME NEW i \in Items, NEW j \in Items, BatchOf(i) = BatchOf(j),
                        Number(i) < Number(j), call[i] = "accepted", call[j] = "accepted"
                 PROVE  \E k \in Items :
                          /\ BatchOf(k) = BatchOf(i) /\ Number(k) \in Number(i) .. Number(j) - 1
                          /\ \/ seen[k] = "lost"
                             \/ mode = "direct" /\ process[k] \in {"failed", "fatal"}
      BY DEF NoDuplicateWithoutLoss
    <3>1. Number(i) \in Number(i) .. Number(j) - 1
      BY AttemptsAssumption DEF Number
    <3>2. seen[i] \in {"TryLater", "exception", "lost"}
      BY DEF ScribeInv, RequestInv, RetryInv
    <3>3. seen[i] # "lost" => mode = "direct" /\ process[i] \in {"failed", "fatal"}
      <4>1. seen[i] # "lost" => request[i] = seen[i]
        BY <3>2 DEF ScribeInv, RequestInv, Answers
      <4>2. QED BY <3>2, <4>1 DEF ScribeInv, AnswerInv
    <3>4. QED BY <3>1, <3>3
  <2>4. QED BY <2>1, <2>2, <2>3 DEF RepeatsAreHonest
<1>2. QED BY <1>1, ScribeInvariance, PTL

\* With at least one worker and a close that leaves time, the store is closed last.
THEOREM StoreIsClosedLast ==
  ASSUME Workers # {}
  PROVE  ScribeSpec => []StoreClosedLast
<1>1. ScribeInv => StoreClosedLast
  <2> SUFFICES ASSUME ScribeInv, phase = "closed", deadline = "ample", NEW i \in Items
               PROVE  /\ i \notin Queued /\ process[i] # "running"
                      /\ process[i] = "pending" => HasTimeout /\ mode # "direct"
    BY DEF StoreClosedLast
  <2>1. CASE mode = "direct"
    <3>1. Queued = {}
      BY <2>1 DEF ScribeInv, CollectorInv, DirectInv, Queued
    <3>2. process[i] \notin {"running", "pending"}
      BY <2>1 DEF ScribeInv, AnswerInv, QuietInv
    <3>3. QED BY <3>1, <3>2
  <2>2. CASE mode # "direct"
    BY <2>2, DrainedWhenClosed DEF ScribeInv, QuietInv
  <2>3. QED BY <2>1, <2>2
<1>2. QED BY <1>1, ScribeInvariance, PTL
=============================================================================
