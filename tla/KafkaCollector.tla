-------------------------- MODULE KafkaCollector ---------------------------
(***************************************************************************)
(* A collector whose receiver reads a Kafka topic                          *)
(* (receiver/kafka/KafkaProcessor.scala, KafkaStreamProcessor.scala): one  *)
(* pool thread per stream hands each message over and awaits the result.   *)
(* Items are the messages of the topic.                                    *)
(***************************************************************************)
EXTENDS Collector

CONSTANTS
  Streams,     \* the streams of the topic, each read by one thread
  Topic,       \* Topic[s]: the messages of stream s, in order
  Decodable    \* the messages SpanCodec can decode

\* A message stands at one place of one stream.
ASSUME TopicAssumption ==
  /\ Topic \in [Streams -> Seq(Items)]
  /\ \A s, t \in Streams : \A j \in DOMAIN Topic[s], k \in DOMAIN Topic[t] :
       Topic[s][j] = Topic[t][k] => s = t /\ j = k
  /\ Decodable \subseteq Items

VARIABLES
  position,    \* how many messages each stream's iterator has returned
  stream       \* where each stream's thread stands

kafkaVars == <<position, stream>>
allVars == <<vars, collectorVars, kafkaVars>>

Current(s) == Topic[s][position[s]]

KafkaInit ==
  /\ CollectorInit
  /\ position = [s \in Streams |-> 0]
  /\ stream = [s \in Streams |-> "next"]

-----------------------------------------------------------------------------
(* KafkaStreamProcessor.run.  consumer.timeout.ms is -1: with no message    *)
(* the iterator blocks.                                                     *)

NextMessage(s) ==
  /\ stream[s] = "next"
  /\ position[s] < Len(Topic[s])
  /\ position' = [position EXCEPT ![s] = @ + 1]
  /\ stream' = [stream EXCEPT ![s] = "message"]
  /\ UNCHANGED <<vars, collectorVars>>

HandsOver(s) ==
  /\ stream[s] = "message"
  /\ Current(s) \in Decodable
  /\ HandOver(Current(s))
  /\ UNCHANGED <<collectorVars, kafkaVars>>

\* Mutant: the result of process is not awaited.
GoesOnUnawaited(s) ==
  /\ stream[s] = "message"
  /\ stream' = [stream EXCEPT ![s] = "next"]
  /\ UNCHANGED <<vars, collectorVars, position>>

GoesOn(s) ==
  /\ stream[s] = "message"
  /\ Result(Current(s)) = "ok"
  /\ stream' = [stream EXCEPT ![s] = "next"]
  /\ UNCHANGED <<vars, collectorVars, position>>

\* The try is around the whole foreach: any exception ends the thread, be it
\* from the decoder, from a full or closed queue, or from the store.
StreamEnds(s) ==
  /\ stream[s] = "message"
  /\ \/ Current(s) \notin Decodable
     \/ Result(Current(s)) \in {"queueFull", "error", "fatal"}
  /\ stream' = [stream EXCEPT ![s] = "ended"]
  /\ UNCHANGED <<vars, collectorVars, position>>

StreamStep(s) == NextMessage(s) \/ HandsOver(s) \/ GoesOn(s) \/ StreamEnds(s)

\* Mutant: close does not wait for the pool.
ReceiverClosedAtOnce == TRUE

\* pool.shutdown interrupts nobody, and awaitTermination is given the deadline,
\* a point in time, as a duration: decades, or nothing at all for Time.Bottom.
ReceiverClosed == deadline # "Bottom" => \A s \in Streams : stream[s] = "ended"

-----------------------------------------------------------------------------
KafkaNext ==
  \/ \E s \in Streams : StreamStep(s)
  \/ BackgroundStep /\ UNCHANGED kafkaVars
  \/ CollectorCloseStep(ReceiverClosed) /\ UNCHANGED kafkaVars

KafkaSpec == KafkaInit /\ [][KafkaNext]_allVars

KafkaFairSpec ==
  /\ KafkaSpec
  /\ CollectorFairness
  /\ \A s \in Streams : WF_allVars(StreamStep(s))
  /\ WF_allVars(QueueCloseBegins(ReceiverClosed) /\ UNCHANGED kafkaVars)
  /\ WF_allVars(StoreCloseBegins /\ UNCHANGED kafkaVars)

-----------------------------------------------------------------------------
\* Type correctness of what the Kafka receiver adds.
KafkaTypeOK ==
  /\ TypeOK
  /\ mode \in Modes /\ deadline \in Deadlines \cup {"none"} /\ phase \in Phases
  /\ position \in [Streams -> Nat]
  /\ stream \in [Streams -> {"next", "message", "ended"}]

\* A stream loses at most the one message that ended it: every message its
\* iterator returned before the current one got through (foreach awaits each
\* result, KafkaStreamProcessor.scala:16-19).
OnlyTheLastIsLost ==
  \A s \in Streams : \A k \in 1 .. position[s] :
    k < position[s] \/ stream[s] = "next" => Result(Topic[s][k]) = "ok"

\* The messages of a stream reach the store in the order of the topic, but for
\* what the queue's threads have polled and not yet passed on: of two of them the
\* one with the later message may call process first (ItemQueue.scala:63-66).  A
\* message is overtaken by no other way, in no other place, and with one worker
\* or without a queue not at all.
TopicOrder ==
  \A s \in Streams : \A j, k \in DOMAIN Topic[s] :
    (j < k /\ process[Topic[s][k]] # "none") =>
      \/ process[Topic[s][j]] # "none"
      \/ Topic[s][j] \in Carried /\ mode # "direct" /\ Cardinality(Workers) > 1

\* Of one well-typed state: of what a stream has read only the message that ended
\* it is lost (KafkaStreamProcessor.scala:16-21), and the store gets the rest in
\* the order of the topic, but for what two threads of the queue hold at once.
StreamsKept == KafkaTypeOK /\ OnlyTheLastIsLost /\ TopicOrder

\* When close is given a deadline the queue is closed only after the last
\* stream has ended, so nothing slips into the queue behind the workers' backs
\* and the store is closed with nothing left to write but what a timed-out
\* await abandoned.
QuietStoreClose ==
  (phase = "closed" /\ deadline # "Bottom") =>
    /\ queue = <<>>
    /\ ~HasTimeout => \A i \in Items : ~Outstanding(i)

\* In front of a blocking queue a stream of decodable messages never ends:
\* backpressure, not loss.
BlockingKeepsReading ==
  mode = "blocking" =>
    \A s \in Streams : stream[s] = "ended" => Current(s) \notin Decodable

\* The same, as progress: while the collector is up every stream in front of a
\* blocking queue is handed over to its end, or to its first undecodable message.
TopicConsumed ==
  \A s \in Streams :
    (mode = "blocking" /\ phase = "up") ~>
      \/ phase # "up"
      \/ position[s] = Len(Topic[s]) /\ stream[s] = "next"
      \/ stream[s] = "ended" /\ Current(s) \notin Decodable

\* A close that is given any deadline gets past the receiver only if every stream
\* has ended, and then completes; with Time.Bottom it always completes
\* (KafkaProcessor.scala:45 passes a point in time where a duration is meant).
ClosesOnceStreamsEnd ==
  (phase = "closingReceiver" /\ (deadline = "Bottom" \/ \A s \in Streams : stream[s] = "ended"))
    ~> (phase = "closed")

=============================================================================
