------------------------ MODULE KafkaCollectorProofs ------------------------
(***************************************************************************)
(* What becomes of the messages of a topic, for any streams and messages,  *)
(* and in front of any queue or none.                                      *)
(***************************************************************************)
EXTENDS KafkaCollector, CollectorProofs

-----------------------------------------------------------------------------
(* The inductive invariant.                                                *)

\* A stream stands at a message of its own, and has handed over none it has not read.
StreamInv ==
  /\ position \in [Streams -> Nat]
  /\ stream \in [Streams -> {"next", "message", "ended"}]
  /\ \A s \in Streams :
       /\ position[s] <= Len(Topic[s])
       /\ stream[s] # "next" => position[s] >= 1
       /\ \A k \in DOMAIN Topic[s] : call[Topic[s][k]] # "idle" => k <= position[s]
  /\ \A i \in Items : call[i] # "idle" => i \in Decodable

\* The messages of a stream stand in the queue in the order of the topic.
QueueOrder ==
  \A s \in Streams : \A j, k \in DOMAIN Topic[s] : \A a, b \in DOMAIN queue :
    j < k /\ queue[a] = Topic[s][j] /\ queue[b] = Topic[s][k] => a < b

\* They leave it in that order too.
LeavesInOrder ==
  \A s \in Streams : \A j, k \in DOMAIN Topic[s] :
    (j < k /\ call[Topic[s][k]] = "accepted" /\ Topic[s][k] \notin Queued) =>
      Topic[s][j] \notin Queued

\* Without a queue a stream waits for the store with the message that it is at.
WaitsForStore ==
  mode = "direct" =>
    \A i \in Items : process[i] \in {"running", "pending"} =>
      \E s \in Streams : stream[s] = "message" /\ Current(s) = i

\* Once a receiver that was given a deadline is closed every stream has ended, and
\* what was accepted was accepted before the queue was closed.
QuietInv ==
  phase \in {"closingQueue", "closed"} /\ deadline # "Bottom" =>
    /\ \A s \in Streams : stream[s] = "ended"
    /\ mode # "direct" => Accepted \subseteq beforeClose

KafkaInv ==
  /\ CollectorInv /\ StreamInv /\ OnlyTheLastIsLost /\ TopicOrder /\ QueueOrder /\ LeavesInOrder
  /\ WaitsForStore /\ BlockingKeepsReading /\ QuietInv

-----------------------------------------------------------------------------
(* Where a stream stands in its topic, and what a result means.            *)

LEMMA TopicFacts ==
  ASSUME NEW s \in Streams
  PROVE  /\ Topic[s] \in Seq(Items) /\ Len(Topic[s]) \in Nat
         /\ DOMAIN Topic[s] = 1 .. Len(Topic[s])
         /\ \A k \in DOMAIN Topic[s] : Topic[s][k] \in Items
<1>1. Topic[s] \in Seq(Items)
  BY TopicAssumption
<1>2. QED BY <1>1

LEMMA CurrentFacts ==
  ASSUME StreamInv, NEW s \in Streams, stream[s] # "next"
  PROVE  /\ position[s] \in DOMAIN Topic[s] /\ Current(s) = Topic[s][position[s]]
         /\ Current(s) \in Items
<1>1. position[s] \in 1 .. Len(Topic[s])
  BY TopicFacts DEF StreamInv
<1>2. QED BY <1>1, TopicFacts DEF Current

\* "ok" means queued at least, or stored.
LEMMA OkMeans ==
  ASSUME CollectorInv, NEW i \in Items, Result(i) = "ok"
  PROVE  call[i] = "accepted" /\ (mode = "direct" => process[i] = "succeeded")
<1>1. call[i] = "accepted"
  BY DEF Result
<1>2. QED BY <1>1 DEF Result

\* An unhappy result means refused, or failed in the store; a blocking queue has none.
LEMMA FailureMeans ==
  ASSUME CollectorInv, NEW i \in Items, Result(i) \in {"queueFull", "error", "fatal"}
  PROVE  /\ mode # "blocking"
         /\ mode = "direct" => process[i] \notin {"running", "pending"}
<1>1. CASE mode = "direct"
  BY <1>1 DEF CollectorInv, DirectInv, Result
<1>2. CASE mode = "blocking"
  <2>1. call[i] \notin {"queueFull", "queueClosed"}
    BY <1>2 DEF CollectorInv
  <2>2. QED BY <1>2, <2>1 DEF Result
<1>3. QED BY <1>1, <1>2

\* What stands before a message that was read got through.
LEMMA EarlierOk ==
  ASSUME StreamInv, OnlyTheLastIsLost, NEW s \in Streams,
         NEW j \in DOMAIN Topic[s], NEW k \in DOMAIN Topic[s], j < k, k <= position[s]
  PROVE  Result(Topic[s][j]) = "ok"
<1>1. j \in 1 .. position[s] /\ j < position[s]
  BY TopicFacts DEF StreamInv
<1>2. QED BY <1>1 DEF OnlyTheLastIsLost

LEMMA EarlierAccepted ==
  ASSUME CollectorInv, StreamInv, OnlyTheLastIsLost, NEW s \in Streams,
         NEW j \in DOMAIN Topic[s], NEW k \in DOMAIN Topic[s], j < k,
         call[Topic[s][k]] # "idle"
  PROVE  call[Topic[s][j]] = "accepted"
<1>1. k <= position[s]
  BY DEF StreamInv
<1>2. Result(Topic[s][j]) = "ok" /\ Topic[s][j] \in Items
  BY <1>1, EarlierOk, TopicFacts
<1>3. QED BY <1>2, OkMeans

\* Two messages that are out of the queue and not passed on are in two hands.
LEMMA TwoHands ==
  ASSUME NEW x \in Carried, NEW y \in Carried, x # y
  PROVE  Cardinality(Workers) > 1
<1>1. PICK v \in Workers, w \in Workers : v # w
  BY DEF Carried, Carrying, At
<1>2. /\ Cardinality({v}) = 1 /\ IsFiniteSet({v})
      /\ Cardinality({v} \cup {w}) = Cardinality({v}) + 1
  BY <1>1, FS_Singleton, FS_AddElement
<1>3. /\ Cardinality({v} \cup {w}) <= Cardinality(Workers)
      /\ Cardinality(Workers) \in Nat
  BY FiniteAssumption, FS_Subset, FS_CardinalityType
<1>4. QED BY <1>2, <1>3

LEMMA QueuedFacts ==
  ASSUME CollectorInv, NEW a \in DOMAIN queue
  PROVE  queue[a] \in Items /\ call[queue[a]] = "accepted" /\ process[queue[a]] = "none"
<1>1. queue[a] \in Items /\ queue[a] \in Queued
  BY CollectorTypes DEF TypeOK, Queued
<1>2. QED BY <1>1, CollectorTypes DEF HandedOverOnce

-----------------------------------------------------------------------------
(* Steps of a stream that leave the collector alone.                       *)

LEMMA StreamStepFacts ==
  ASSUME KafkaInv, UNCHANGED <<vars, collectorVars>>
  PROVE  /\ CollectorInv' /\ Accepted' = Accepted
         /\ UNCHANGED <<mode, phase, deadline, call, process, queue, beforeClose>>
         /\ \A i \in Items : Result(i)' = Result(i)
         /\ TopicOrder' /\ QueueOrder' /\ LeavesInOrder'
<1>1. CollectorInv' /\ UNCHANGED <<mode, phase, deadline, call, process, queue, beforeClose>>
  BY CollectorUnchanged DEF KafkaInv, vars, collectorVars
<1>2. Queued' = Queued /\ Carried' = Carried
  BY DEF vars, Queued, Carried, Carrying, At
<1>3. TopicOrder' /\ QueueOrder' /\ LeavesInOrder'
  BY <1>1, <1>2 DEF KafkaInv, TopicOrder, QueueOrder, LeavesInOrder
<1>4. QED BY <1>1, <1>3 DEF Accepted, Result

LEMMA NextMessageInv ==
  ASSUME KafkaInv, NEW s \in Streams, NextMessage(s)
  PROVE  KafkaInv'
<1> USE DEF KafkaInv
<1>1. /\ stream[s] = "next" /\ position[s] < Len(Topic[s]) /\ UNCHANGED <<vars, collectorVars>>
      /\ position' = [position EXCEPT ![s] = @ + 1]
      /\ stream' = [stream EXCEPT ![s] = "message"]
  BY DEF NextMessage
<1>2. /\ CollectorInv' /\ Accepted' = Accepted /\ TopicOrder' /\ QueueOrder'
      /\ LeavesInOrder'
      /\ UNCHANGED <<mode, phase, deadline, call, process, queue, beforeClose>>
      /\ \A i \in Items : Result(i)' = Result(i)
  BY <1>1, StreamStepFacts
<1>3. /\ position[s] \in Nat /\ position'[s] = position[s] + 1 /\ stream'[s] = "message"
      /\ \A t \in Streams \ {s} : position'[t] = position[t] /\ stream'[t] = stream[t]
  BY <1>1 DEF StreamInv
<1>4. StreamInv'
  <2>1. position' \in [Streams -> Nat] /\ stream' \in [Streams -> {"next", "message", "ended"}]
    BY <1>1, <1>3 DEF StreamInv
  <2>2. ASSUME NEW t \in Streams
        PROVE  /\ position'[t] <= Len(Topic[t])
               /\ stream'[t] # "next" => position'[t] >= 1
               /\ \A k \in DOMAIN Topic[t] : call'[Topic[t][k]] # "idle" => k <= position'[t]
    <3>1. CASE t = s
      BY <1>1, <1>2, <1>3, <3>1, TopicFacts DEF StreamInv
    <3>2. CASE t # s
      BY <1>2, <1>3, <3>2 DEF StreamInv
    <3>3. QED BY <3>1, <3>2
  <2>3. QED BY <1>2, <2>1, <2>2 DEF StreamInv
<1>5. OnlyTheLastIsLost'
  <2> SUFFICES ASSUME NEW t \in Streams, NEW k \in 1 .. position'[t],
                      k < position'[t] \/ stream'[t] = "next"
               PROVE  Result(Topic[t][k])' = "ok"
    BY DEF OnlyTheLastIsLost
  <2>1. k \in 1 .. position[t] /\ (k < position[t] \/ stream[t] = "next")
    BY <1>1, <1>3 DEF StreamInv
  <2>2. k \in DOMAIN Topic[t]
    BY <2>1, TopicFacts DEF StreamInv
  <2>3. QED BY <1>2, <2>1, <2>2, TopicFacts DEF OnlyTheLastIsLost
<1>6. WaitsForStore' /\ BlockingKeepsReading'
  BY <1>1, <1>2, <1>3 DEF WaitsForStore, BlockingKeepsReading, Current
<1>7. QuietInv'
  BY <1>1, <1>2 DEF QuietInv
<1>8. QED BY <1>2, <1>4, <1>5, <1>6, <1>7

\* A stream goes on, or ends, with the message that it is at.
LEMMA StreamMovesInv ==
  ASSUME KafkaInv, NEW s \in Streams, GoesOn(s) \/ StreamEnds(s)
  PROVE  KafkaInv'
<1> USE DEF KafkaInv
<1>1. /\ stream[s] = "message" /\ position' = position /\ UNCHANGED <<vars, collectorVars>>
      /\ \/ Result(Current(s)) = "ok" /\ stream' = [stream EXCEPT ![s] = "next"]
         \/ /\ \/ Current(s) \notin Decodable
               \/ Result(Current(s)) \in {"queueFull", "error", "fatal"}
            /\ stream' = [stream EXCEPT ![s] = "ended"]
  BY DEF GoesOn, StreamEnds
<1>2. /\ CollectorInv' /\ Accepted' = Accepted /\ TopicOrder' /\ QueueOrder'
      /\ LeavesInOrder'
      /\ UNCHANGED <<mode, phase, deadline, call, process, queue, beforeClose>>
      /\ \A i \in Items : Result(i)' = Result(i)
  BY <1>1, StreamStepFacts
<1>3. Current(s) \in Items /\ Current(s) = Topic[s][position[s]] /\ position[s] \in DOMAIN Topic[s]
  BY <1>1, CurrentFacts
<1>4. \A t \in Streams : t # s => stream'[t] = stream[t]
  BY <1>1 DEF StreamInv
<1>5. StreamInv'
  BY <1>1, <1>2 DEF StreamInv
<1>6. OnlyTheLastIsLost'
  <2> SUFFICES ASSUME NEW t \in Streams, NEW k \in 1 .. position[t],
                      k < position[t] \/ stream'[t] = "next"
               PROVE  Result(Topic[t][k])' = "ok"
    BY <1>1 DEF OnlyTheLastIsLost
  <2>1. k \in DOMAIN Topic[t] /\ Topic[t][k] \in Items
    BY TopicFacts DEF StreamInv
  <2>2. CASE k < position[t] \/ stream[t] = "next"
    BY <1>2, <2>1, <2>2 DEF OnlyTheLastIsLost
  <2>3. CASE ~(k < position[t]) /\ stream[t] # "next"
    <3>1. t = s /\ stream'[s] = "next"
      BY <1>4, <2>3
    <3>2. Result(Current(s)) = "ok"
      BY <1>1, <3>1 DEF StreamInv
    <3>3. k = position[s]
      BY <2>3, <3>1 DEF StreamInv
    <3>4. QED BY <1>2, <1>3, <3>1, <3>2, <3>3
  <2>4. QED BY <2>2, <2>3
<1>7. WaitsForStore'
  <2> SUFFICES ASSUME mode = "direct", NEW i \in Items, process[i] \in {"running", "pending"}
               PROVE  \E t \in Streams : stream'[t] = "message" /\ Current(t)' = i
    BY <1>2 DEF WaitsForStore
  <2>1. process[Current(s)] \notin {"running", "pending"}
    <3>1. CASE Result(Current(s)) = "ok"
      BY <1>3, <3>1, OkMeans
    <3>2. CASE Current(s) \notin Decodable
      <4>1. call[Current(s)] = "idle"
        BY <1>3, <3>2 DEF StreamInv
      <4>2. QED BY <1>3, <4>1 DEF CollectorInv, DirectInv
    <3>3. CASE Result(Current(s)) \in {"queueFull", "error", "fatal"}
      BY <1>3, <3>3, FailureMeans
    <3>4. QED BY <1>1, <3>1, <3>2, <3>3
  <2>2. PICK t \in Streams : stream[t] = "message" /\ Current(t) = i
    BY DEF WaitsForStore
  <2>3. t # s
    BY <2>1, <2>2
  <2>4. QED BY <1>1, <1>4, <2>2, <2>3 DEF Current
<1>8. BlockingKeepsReading'
  <2> SUFFICES ASSUME mode = "blocking", NEW t \in Streams, stream'[t] = "ended"
               PROVE  Current(t) \notin Decodable
    BY <1>1, <1>2 DEF BlockingKeepsReading, Current
  <2>1. CASE t = s
    <3>1. Result(Current(s)) \notin {"queueFull", "error", "fatal"}
      BY <1>3, FailureMeans
    <3>2. stream'[s] # "next"
      BY <2>1
    <3>3. QED BY <1>1, <2>1, <3>1, <3>2 DEF StreamInv
  <2>2. CASE t # s
    BY <1>4, <2>2 DEF BlockingKeepsReading
  <2>3. QED BY <2>1, <2>2
<1>9. QuietInv'
  BY <1>1, <1>2 DEF QuietInv
<1>10. QED BY <1>2, <1>5, <1>6, <1>7, <1>8, <1>9

-----------------------------------------------------------------------------
(* Steps of the collector.                                                 *)

\* A message that is offered stands behind all that its stream has offered before.
LEMMA OfferKeepsOrder ==
  ASSUME KafkaInv, NEW s \in Streams, stream[s] = "message", queue' = Append(queue, Current(s))
  PROVE  QueueOrder'
<1> USE DEF KafkaInv
<1>1. /\ position[s] \in DOMAIN Topic[s] /\ Current(s) = Topic[s][position[s]]
      /\ Current(s) \in Items
  BY CurrentFacts
<1>2. queue \in Seq(Items) /\ Len(queue) \in Nat /\ DOMAIN queue = 1 .. Len(queue)
  BY CollectorTypes DEF TypeOK
<1>3. /\ DOMAIN queue' = 1 .. Len(queue) + 1
      /\ \A a \in 1 .. Len(queue) : queue'[a] = queue[a]
      /\ queue'[Len(queue) + 1] = Current(s)
  BY <1>1, <1>2, AppendFacts
<1> SUFFICES ASSUME NEW t \in Streams, NEW j \in DOMAIN Topic[t], NEW k \in DOMAIN Topic[t],
                    NEW a \in DOMAIN queue', NEW b \in DOMAIN queue',
                    j < k, queue'[a] = Topic[t][j], queue'[b] = Topic[t][k]
             PROVE  a < b
  BY DEF QueueOrder
<1>4. CASE a \in DOMAIN queue /\ b \in DOMAIN queue
  BY <1>2, <1>3, <1>4 DEF QueueOrder
<1>5. CASE a \in DOMAIN queue /\ b = Len(queue) + 1
  BY <1>2, <1>5
<1>6. CASE a = Len(queue) + 1 /\ b \in DOMAIN queue
  <2>1. t = s /\ j = position[s]
    BY <1>1, <1>3, <1>6, TopicAssumption
  <2>2. call[Topic[t][k]] = "accepted"
    BY <1>2, <1>3, <1>6, QueuedFacts
  <2>3. k <= position[s]
    BY <2>1, <2>2 DEF StreamInv
  <2>4. j \in Nat /\ k \in Nat
    BY TopicFacts
  <2>5. QED BY <2>1, <2>3, <2>4
<1>7. CASE a = Len(queue) + 1 /\ b = Len(queue) + 1
  <2>1. j = k
    BY <1>7, TopicAssumption
  <2>2. QED BY <2>1, TopicFacts
<1>8. QED BY <1>2, <1>3, <1>4, <1>5, <1>6, <1>7

LEMMA HandsOverInv ==
  ASSUME KafkaInv, NEW s \in Streams, HandsOver(s)
  PROVE  KafkaInv'
<1> USE DEF KafkaInv
<1>1. /\ stream[s] = "message" /\ Current(s) \in Decodable /\ HandOver(Current(s))
      /\ UNCHANGED collectorVars /\ UNCHANGED <<position, stream>>
  BY DEF HandsOver, kafkaVars
<1> DEFINE i == Current(s)
<1>2. i \in Items /\ i = Topic[s][position[s]] /\ position[s] \in DOMAIN Topic[s]
  BY <1>1, CurrentFacts
<1>3. /\ CollectorInv'
      /\ call[i] \in {"idle", "offering", "sleeping"} /\ process[i] = "none"
      /\ \A x \in Items \ {i} : call'[x] = call[x] /\ process'[x] = process[x]
      /\ process'[i] = IF mode = "direct" THEN "running" ELSE "none"
      /\ queue' = queue \/ queue' = Append(queue, i)
      /\ UNCHANGED <<mode, deadline, phase, worker, taken, beforeClose>>
  BY <1>1, <1>2, HandOverFacts
<1> HIDE DEF i
\* Only this message is the i-th item.
<1>4. \A t \in Streams : \A k \in DOMAIN Topic[t] :
        Topic[t][k] \in Items /\ (Topic[t][k] = i => t = s /\ k = position[s])
  BY <1>2, TopicAssumption, TopicFacts
<1>5. StreamInv'
  <2>1. \A t \in Streams : \A k \in DOMAIN Topic[t] : call'[Topic[t][k]] # "idle" => k <= position[t]
    <3> SUFFICES ASSUME NEW t \in Streams, NEW k \in DOMAIN Topic[t], call'[Topic[t][k]] # "idle"
                 PROVE  k <= position[t]
      OBVIOUS
    <3>1. CASE Topic[t][k] = i
      BY <1>4, <3>1, TopicFacts
    <3>2. CASE Topic[t][k] # i
      BY <1>3, <1>4, <3>2 DEF StreamInv
    <3>3. QED BY <3>1, <3>2
  <2>2. \A x \in Items : call'[x] # "idle" => x \in Decodable
    BY <1>1, <1>3 DEF StreamInv, i
  <2>3. QED BY <1>1, <2>1, <2>2 DEF StreamInv
<1>6. OnlyTheLastIsLost'
  <2> SUFFICES ASSUME NEW t \in Streams, NEW k \in 1 .. position[t],
                      k < position[t] \/ stream[t] = "next"
               PROVE  Result(Topic[t][k])' = "ok"
    BY <1>1 DEF OnlyTheLastIsLost
  <2>1. Topic[t][k] \in Items /\ Result(Topic[t][k]) = "ok"
    BY TopicFacts DEF StreamInv, OnlyTheLastIsLost
  <2>2. Topic[t][k] # i
    <3>1. call[Topic[t][k]] = "accepted"
      BY <2>1, OkMeans
    <3>2. QED BY <1>3, <3>1
  <2>3. QED BY <1>3, <2>1, <2>2, ResultIsFinal
<1>70. Carried' = Carried /\ i \notin Carried
  BY <1>2, <1>3, CollectorTypes DEF Carried, Carrying, At, HandedOverOnce
<1>7. TopicOrder'
  <2> SUFFICES ASSUME NEW t \in Streams, NEW j \in DOMAIN Topic[t], NEW k \in DOMAIN Topic[t],
                      j < k, process'[Topic[t][k]] # "none"
               PROVE  \/ process'[Topic[t][j]] # "none"
                      \/ /\ Topic[t][j] \in Carried' /\ mode' # "direct"
                         /\ Cardinality(Workers) > 1
    BY DEF TopicOrder
  <2>1. CASE Topic[t][k] = i
    <3>1. t = s /\ k = position[s] /\ mode = "direct"
      BY <1>3, <1>4, <2>1
    <3>2. Result(Topic[t][j]) = "ok"
      BY <3>1, TopicFacts, EarlierOk
    <3>3. process[Topic[t][j]] = "succeeded"
      BY <1>4, <3>1, <3>2, OkMeans
    <3>4. QED BY <1>3, <1>4, <3>3
  <2>2. CASE Topic[t][k] # i
    <3>1. process[Topic[t][k]] # "none"
      BY <1>3, <1>4, <2>2
    <3>2. CASE process[Topic[t][j]] # "none"
      BY <1>3, <1>4, <3>2
    <3>3. CASE process[Topic[t][j]] = "none"
      BY <1>3, <1>70, <3>1, <3>3 DEF TopicOrder
    <3>4. QED BY <3>2, <3>3
  <2>3. QED BY <2>1, <2>2
<1>71. LeavesInOrder'
  <2>1. mode = "direct" => Queued' = {}
    BY <1>3 DEF CollectorInv, DirectInv, Queued
  <2>2. Queued' = Queued \/ Queued' = Queued \cup {i}
    BY <1>2, <1>3, CollectorTypes, QueuedAppend DEF Queued
  <2>3. (mode # "direct" /\ call'[i] = "accepted") => i \in Queued'
    BY <1>2, <1>3, <1>70, CollectorTypes DEF CollectorInv, IInv, Shape, HandedOverOnce
  <2> SUFFICES ASSUME mode # "direct", NEW t \in Streams,
                      NEW j \in DOMAIN Topic[t], NEW k \in DOMAIN Topic[t], j < k,
                      call'[Topic[t][k]] = "accepted", Topic[t][k] \notin Queued',
                      Topic[t][j] \in Queued'
               PROVE  FALSE
    BY <2>1 DEF LeavesInOrder
  <2>4. Topic[t][k] # i
    BY <2>3
  <2>5. call[Topic[t][k]] = "accepted" /\ Topic[t][k] \notin Queued
    BY <1>3, <1>4, <2>2, <2>4
  <2>6. Topic[t][j] \notin Queued
    BY <2>5 DEF LeavesInOrder
  <2>7. t = s /\ j = position[s]
    BY <1>4, <2>2, <2>6
  <2>8. k <= position[s] /\ position[s] \in Nat /\ k \in Nat
    BY <2>5, <2>7, TopicFacts DEF StreamInv
  <2>9. QED BY <2>7, <2>8
<1>8. QueueOrder'
  <2>1. CASE queue' = queue
    BY <2>1 DEF QueueOrder
  <2>2. CASE queue' = Append(queue, i)
    BY <1>1, <2>2, OfferKeepsOrder DEF i
  <2>3. QED BY <1>3, <2>1, <2>2
<1>9. WaitsForStore'
  <2> SUFFICES ASSUME mode = "direct", NEW x \in Items, process'[x] \in {"running", "pending"}
               PROVE  \E t \in Streams : stream[t] = "message" /\ Current(t) = x
    BY <1>1, <1>3 DEF WaitsForStore, Current
  <2>1. CASE x = i
    BY <1>1, <2>1 DEF i
  <2>2. CASE x # i
    BY <1>3, <2>2 DEF WaitsForStore
  <2>3. QED BY <2>1, <2>2
<1>10. BlockingKeepsReading' /\ QuietInv'
  BY <1>1, <1>3 DEF BlockingKeepsReading, QuietInv, Current
<1>11. QED BY <1>3, <1>5, <1>6, <1>7, <1>71, <1>8, <1>9, <1>10

\* Taking the head keeps the order: what stands before it in its stream has gone.
LEMMA TakeKeepsOrder ==
  ASSUME KafkaInv, queue # <<>>, queue' = Tail(queue), call' = call
  PROVE  QueueOrder' /\ LeavesInOrder'
<1> USE DEF KafkaInv
<1>1. /\ queue \in Seq(Items) /\ Len(queue) \in Nat \ {0} /\ DOMAIN queue = 1 .. Len(queue)
  BY CollectorTypes, TailFacts DEF TypeOK
<1>2. /\ DOMAIN queue' = 1 .. Len(queue) - 1
      /\ \A a \in 1 .. Len(queue) - 1 : queue'[a] = queue[a + 1]
      /\ Head(queue) = queue[1] /\ 1 \in DOMAIN queue
  BY <1>1, TailFacts
<1>3. QueueOrder'
  <2> SUFFICES ASSUME NEW t \in Streams, NEW j \in DOMAIN Topic[t], NEW k \in DOMAIN Topic[t],
                      NEW a \in DOMAIN queue', NEW b \in DOMAIN queue',
                      j < k, queue'[a] = Topic[t][j], queue'[b] = Topic[t][k]
               PROVE  a < b
    BY DEF QueueOrder
  <2>1. /\ a + 1 \in DOMAIN queue /\ b + 1 \in DOMAIN queue
        /\ queue[a + 1] = Topic[t][j] /\ queue[b + 1] = Topic[t][k]
    BY <1>1, <1>2
  <2>2. a + 1 < b + 1
    BY <2>1 DEF QueueOrder
  <2>3. QED BY <1>1, <1>2, <2>2
<1>4. LeavesInOrder'
  <2> SUFFICES ASSUME NEW t \in Streams, NEW j \in DOMAIN Topic[t], NEW k \in DOMAIN Topic[t],
                      j < k, call[Topic[t][k]] = "accepted", Topic[t][k] \notin Queued',
                      Topic[t][j] \in Queued'
               PROVE  FALSE
    BY DEF LeavesInOrder
  <2>1. Queued' = Queued \ {queue[1]}
    BY <1>2, CollectorTypes, QueuedTail
  <2>2. CASE Topic[t][k] \notin Queued
    BY <2>1, <2>2 DEF LeavesInOrder
  <2>3. CASE Topic[t][k] = queue[1]
    <3>1. PICK a \in DOMAIN queue : queue[a] = Topic[t][j]
      BY <2>1 DEF Queued
    <3>2. a < 1
      BY <1>2, <2>3, <3>1 DEF QueueOrder
    <3>3. QED BY <1>1, <3>2
  <2>4. QED BY <2>1, <2>2, <2>3
<1>5. QED BY <1>3, <1>4

\* A message in the hands of a thread stays there until it is passed on.
LEMMA StaysCarried ==
  ASSUME KafkaInv, CollectorInv', NEW i \in Carried, i \in Items, process'[i] = "none",
         call' = call, queue' = queue \/ (queue # <<>> /\ queue' = Tail(queue))
  PROVE  i \in Carried'
<1> USE DEF KafkaInv
<1>1. call[i] = "accepted" /\ i \notin Queued
  BY CollectorTypes DEF HandedOverOnce
<1>2. Queued' \subseteq Queued
  BY CollectorTypes, QueuedTail DEF Queued
<1>3. HandedOverOnce'
  BY CollectorTypes, PTL DEF CollectorInv, IInv, Shape
<1>4. QED BY <1>1, <1>2, <1>3 DEF HandedOverOnce

LEMMA BackgroundInv ==
  ASSUME KafkaInv, BackgroundStep, UNCHANGED kafkaVars
  PROVE  KafkaInv'
<1> USE DEF KafkaInv
<1>1. /\ CollectorInv'
      /\ UNCHANGED <<call, mode, deadline, phase, beforeClose, position, stream>>
      /\ \A i \in Items : process'[i] = process[i] \/ ProcessMoves(i)
      /\ mode = "direct" => \A i \in Items : process[i] = "none" => process'[i] = "none"
      /\ queue' = queue \/ (queue # <<>> /\ queue' = Tail(queue))
      /\ \A i \in Items : process[i] = "none" /\ process'[i] # "none" =>
           i \in Carried /\ i \notin Queued /\ call[i] = "accepted"
  BY BackgroundFacts DEF kafkaVars
<1>2. StreamInv' /\ BlockingKeepsReading' /\ QuietInv'
  BY <1>1 DEF StreamInv, BlockingKeepsReading, QuietInv, Current, Accepted
<1>3. OnlyTheLastIsLost'
  <2> SUFFICES ASSUME NEW t \in Streams, NEW k \in 1 .. position[t],
                      k < position[t] \/ stream[t] = "next"
               PROVE  Result(Topic[t][k])' = "ok"
    BY <1>1 DEF OnlyTheLastIsLost
  <2>1. Topic[t][k] \in Items /\ Result(Topic[t][k]) = "ok"
    BY TopicFacts DEF StreamInv, OnlyTheLastIsLost
  <2>2. QED BY <1>1, <2>1, ResultIsFinal
<1>4. QueueOrder' /\ LeavesInOrder'
  <2>1. CASE queue' = queue
    BY <1>1, <2>1 DEF QueueOrder, LeavesInOrder, Queued
  <2>2. CASE queue # <<>> /\ queue' = Tail(queue)
    BY <1>1, <2>2, TakeKeepsOrder
  <2>3. QED BY <1>1, <2>1, <2>2
<1>40. TopicOrder'
  <2> SUFFICES ASSUME NEW t \in Streams, NEW j \in DOMAIN Topic[t], NEW k \in DOMAIN Topic[t],
                      j < k, process'[Topic[t][k]] # "none", process'[Topic[t][j]] = "none"
               PROVE  /\ Topic[t][j] \in Carried' /\ mode' # "direct"
                      /\ Cardinality(Workers) > 1
    BY DEF TopicOrder
  <2>1. Topic[t][j] \in Items /\ Topic[t][k] \in Items /\ Topic[t][j] # Topic[t][k]
    BY TopicFacts, TopicAssumption
  <2>2. process[Topic[t][j]] = "none"
    BY <1>1, <2>1 DEF ProcessMoves, Outcomes
  <2>3. CASE process[Topic[t][k]] # "none"
    <3>1. Topic[t][j] \in Carried /\ mode # "direct" /\ Cardinality(Workers) > 1
      BY <2>2, <2>3 DEF TopicOrder
    <3>2. QED BY <1>1, <2>1, <3>1, StaysCarried
  <2>4. CASE process[Topic[t][k]] = "none"
    <3>1. /\ mode # "direct" /\ Topic[t][k] \in Carried
          /\ Topic[t][k] \notin Queued /\ call[Topic[t][k]] = "accepted"
      BY <1>1, <2>1, <2>4
    <3>2. Topic[t][j] \notin Queued
      BY <3>1 DEF LeavesInOrder
    <3>3. call[Topic[t][j]] = "accepted"
      BY <3>1, EarlierAccepted
    <3>4. Topic[t][j] \in Carried
      BY <2>1, <2>2, <3>2, <3>3, CollectorTypes DEF HandedOverOnce
    <3>5. Cardinality(Workers) > 1
      BY <2>1, <3>1, <3>4, TwoHands
    <3>6. QED BY <1>1, <2>1, <3>1, <3>4, <3>5, StaysCarried
  <2>5. QED BY <2>3, <2>4
<1>5. WaitsForStore'
  <2> SUFFICES ASSUME mode = "direct", NEW i \in Items, process'[i] \in {"running", "pending"}
               PROVE  \E t \in Streams : stream[t] = "message" /\ Current(t) = i
    BY <1>1 DEF WaitsForStore, Current
  <2>1. process[i] \in {"running", "pending"}
    BY <1>1 DEF ProcessMoves
  <2>2. QED BY <2>1 DEF WaitsForStore
<1>6. QED BY <1>1, <1>2, <1>3, <1>4, <1>40, <1>5

LEMMA CloseInv ==
  ASSUME KafkaInv, CollectorCloseStep(ReceiverClosed), UNCHANGED kafkaVars
  PROVE  KafkaInv'
<1> USE DEF KafkaInv
<1>1. CollectorCloseStep(TRUE) /\ (phase = "closingReceiver" => ReceiverClosed)
  BY DEF CollectorCloseStep, QueueCloseBegins, ReceiverCloseBegins, StoreCloseBegins
<1>2. /\ CollectorInv'
      /\ UNCHANGED <<mode, queue, call, process, worker, taken, position, stream>>
      /\ \/ phase = "up" /\ phase' = "closingReceiver"
         \/ phase = "closingReceiver" /\ phase' \in {"closingQueue", "closed"}
         \/ phase = "closingQueue" /\ phase' = "closed"
      /\ phase # "up" => deadline' = deadline
      /\ phase = "closingReceiver" /\ mode # "direct" => beforeClose' = Accepted
      /\ phase # "closingReceiver" => beforeClose' = beforeClose
  BY <1>1, CloseFacts DEF kafkaVars
<1>30. Queued' = Queued /\ Carried' = Carried
  BY <1>2 DEF Queued, Carried, Carrying, At
<1>3. /\ StreamInv' /\ OnlyTheLastIsLost' /\ TopicOrder' /\ QueueOrder' /\ LeavesInOrder'
      /\ WaitsForStore' /\ BlockingKeepsReading' /\ Accepted' = Accepted
  BY <1>2, <1>30 DEF StreamInv, OnlyTheLastIsLost, Result, TopicOrder, QueueOrder, LeavesInOrder,
              WaitsForStore, BlockingKeepsReading, Current, Accepted
<1>4. QuietInv'
  BY <1>1, <1>2, <1>3 DEF QuietInv, ReceiverClosed
<1>5. QED BY <1>2, <1>3, <1>4

-----------------------------------------------------------------------------
\* KafkaInv is an invariant of the Kafka collector.
THEOREM KafkaInvariance == KafkaSpec => []KafkaInv
<1>1. KafkaInit => KafkaInv
  <2> SUFFICES ASSUME KafkaInit PROVE KafkaInv
    OBVIOUS
  <2>1. /\ CollectorInv /\ phase = "up" /\ queue = <<>>
        /\ \A i \in Items : call[i] = "idle" /\ process[i] = "none"
    BY CollectorInitInv DEF KafkaInit, CollectorInit, Init
  <2>2. position = [s \in Streams |-> 0] /\ stream = [s \in Streams |-> "next"]
    BY DEF KafkaInit
  <2>3. StreamInv
    BY <2>1, <2>2, TopicFacts DEF StreamInv
  <2>4. OnlyTheLastIsLost /\ BlockingKeepsReading /\ QuietInv
    BY <2>1, <2>2 DEF OnlyTheLastIsLost, BlockingKeepsReading, QuietInv
  <2>5. TopicOrder /\ QueueOrder /\ LeavesInOrder /\ WaitsForStore
    BY <2>1, TopicFacts DEF TopicOrder, QueueOrder, LeavesInOrder, WaitsForStore
  <2>6. QED BY <2>1, <2>3, <2>4, <2>5 DEF KafkaInv
<1>2. KafkaInv /\ [KafkaNext]_allVars => KafkaInv'
  <2> SUFFICES ASSUME KafkaInv, [KafkaNext]_allVars PROVE KafkaInv'
    OBVIOUS
  <2>1. ASSUME NEW s \in Streams, StreamStep(s) PROVE KafkaInv'
    BY <2>1, NextMessageInv, HandsOverInv, StreamMovesInv DEF StreamStep
  <2>2. CASE BackgroundStep /\ UNCHANGED kafkaVars
    BY <2>2, BackgroundInv
  <2>3. CASE CollectorCloseStep(ReceiverClosed) /\ UNCHANGED kafkaVars
    BY <2>3, CloseInv
  <2>4. CASE UNCHANGED allVars
    <3>1. UNCHANGED <<vars, collectorVars>> /\ UNCHANGED <<position, stream>>
      BY <2>4 DEF allVars, kafkaVars
    <3>2. /\ CollectorInv' /\ Accepted' = Accepted /\ TopicOrder' /\ QueueOrder'
          /\ LeavesInOrder'
          /\ UNCHANGED <<mode, phase, deadline, call, process, queue, beforeClose>>
      BY <3>1, StreamStepFacts
    <3>3. QED BY <3>1, <3>2
              DEF KafkaInv, StreamInv, OnlyTheLastIsLost, Result, WaitsForStore,
                  BlockingKeepsReading, QuietInv, Current
  <2>5. QED BY <2>1, <2>2, <2>3, <2>4 DEF KafkaNext
<1>3. QED BY <1>1, <1>2, PTL DEF KafkaSpec

\* A stream loses at most the message that ended it, and its messages reach the store
\* in the order of the topic but for those that a thread of the queue still holds: with
\* one worker, or without a queue, in that order exactly.
THEOREM StreamsAreKept == KafkaSpec => []StreamsKept
<1>1. KafkaInv => StreamsKept
  BY CollectorTypes DEF KafkaInv, CollectorInv, PhaseInv, StreamInv, KafkaTypeOK, StreamsKept
<1>2. QED BY <1>1, KafkaInvariance, PTL

\* Only a message that cannot be decoded ends a stream in front of a blocking queue.
THEOREM BlockingReadsOn == KafkaSpec => []BlockingKeepsReading
<1>1. KafkaInv => BlockingKeepsReading
  BY DEF KafkaInv
<1>2. QED BY <1>1, KafkaInvariance, PTL

\* With at least one worker, a store that was closed with a deadline has nothing left
\* to write but what an await with a timeout gave up on.
THEOREM StoreClosesQuietly ==
  ASSUME Workers # {}
  PROVE  KafkaSpec => []QuietStoreClose
<1>1. KafkaInv => QuietStoreClose
  <2> SUFFICES ASSUME KafkaInv, phase = "closed", deadline # "Bottom"
               PROVE  queue = <<>> /\ (~HasTimeout => \A i \in Items : ~Outstanding(i))
    BY DEF QuietStoreClose
  <2>1. (\A s \in Streams : stream[s] = "ended") /\ (mode # "direct" => Accepted \subseteq beforeClose)
    BY DEF KafkaInv, QuietInv
  <2>2. CASE mode = "direct"
    <3>1. queue = <<>> /\ Queued = {} /\ Carried = {}
      BY <2>2 DEF KafkaInv, CollectorInv, DirectInv, Queued, Carried, Carrying, At
    <3>2. \A i \in Items : process[i] \notin {"running", "pending"}
      BY <2>1, <2>2 DEF KafkaInv, WaitsForStore
    <3>3. QED BY <3>1, <3>2 DEF Outstanding
  <2>3. CASE mode # "direct"
    <3>1. /\ Queued = {} /\ Carried = {}
          /\ \A i \in Items : /\ process[i] # "running"
                              /\ process[i] = "pending" => HasTimeout
      BY <2>1, <2>3, DrainedWhenClosed DEF KafkaInv
    <3>2. queue = <<>>
      <4>1. queue \in Seq(Items)
        BY CollectorTypes DEF KafkaInv, TypeOK
      <4>2. \A k \in DOMAIN queue : queue[k] \in Queued
        BY DEF Queued
      <4>3. CASE queue = <<>>
        BY <4>3
      <4>4. CASE queue # <<>>
        <5>1. 1 \in DOMAIN queue
          BY <4>1, <4>4
        <5>2. QED BY <3>1, <4>2, <5>1
      <4>5. QED BY <4>3, <4>4
    <3>3. ASSUME ~HasTimeout, NEW i \in Items PROVE ~Outstanding(i)
      <4>1. Queued = {} /\ Carried = {}
        BY <3>1
      <4>2. process[i] # "running" /\ process[i] # "pending"
        BY <3>1, <3>3
      <4>3. QED BY <4>1, <4>2 DEF Outstanding
    <3>4. QED BY <3>2, <3>3
  <2>4. QED BY <2>2, <2>3
<1>2. QED BY <1>1, KafkaInvariance, PTL
=============================================================================
