--------------------------- MODULE CassandraStore ---------------------------
(***************************************************************************)
(* Storing spans in Cassandra (CassandraSpanStore.scala, Repository.java): *)
(* a call of apply becomes a set of statements that are sent at once, land *)
(* in any order and may fail one by one; each thread remembers the names   *)
(* it has written in the present hour.  What the queries find is defined   *)
(* over the tables and their primary keys.  The expiry of spans and of the *)
(* index is left out, that of the names is kept; a call of apply falls     *)
(* within one hour.                                                        *)
(***************************************************************************)
EXTENDS Naturals, SequencesExt

CONSTANTS
  Calls,         \* calls of apply
  Batch,         \* the spans of each call, in order: records with the fields
                 \* trace, time, services, name ("" for none) and annotations (the
                 \* keys of those that are not core); services come from annotations,
                 \* so that a span with a service has the time it is indexed by
  Lower,         \* toLowerCase on the names of spans
  Threads,
  Buckets,
  NameTtl,       \* indexTtl, in hours (WRITTEN_NAMES_TTL)
  MaxHour,       \* bound: the last hour
  MaxFailures,   \* bound: statements that fail
  Never

ASSUME CassandraAssumption ==
  /\ \A c \in Calls : Batch[c] \in Seq(UNION {Range(Batch[d]) : d \in Calls})
  /\ 0 \in Buckets /\ NameTtl \in Nat \ {0} /\ MaxHour \in Nat /\ MaxFailures \in Nat
  /\ Never \notin Nat

VARIABLES
  traces,        \* table traces: the spans
  names,         \* tables service_names and span_names: the hour of the last write
  index,         \* the three index tables: row to trace id
  hour,
  interval,      \* cacheInterval, one field for all threads and not volatile,
  seen,          \* and what each thread saw in it last
  written,       \* writtenNames: the hour in which a thread added each name
  outcome,       \* the Future of each call
  sent,          \* the statements of each call that are under way
  submitted,     \* history: the hour of each call
  failures,
  lost           \* history: names whose statement failed, or was left out on the
                 \* strength of an hour gone by

tables == <<traces, names, index>>
cache == <<interval, seen, written>>
vars == <<tables, hour, cache, outcome, sent, submitted, failures, lost>>

Spans == UNION {Range(Batch[c]) : c \in Calls}

\* The rows of service_names and span_names.
Names(span) ==
  {<<s>> : s \in span.services \ {""}}
    \cup {<<s, Lower[span.name]>> : s \in IF span.name = "" THEN {} ELSE span.services \ {""}}

NameKeys == UNION {Names(span) : span \in Spans}

\* What a trace is indexed by.
Keys(span) ==
  {<<"service", s>> : s \in span.services}
    \cup {<<"span", s, span.name>> : s \in IF span.name = "" THEN {} ELSE span.services}
    \cup {<<"annotation", a>> : a \in span.annotations}

\* A span that is indexed has a time, in microseconds.
ASSUME TimeAssumption == \A span \in Spans : Keys(span) # {} => span.time \in Nat

Statements(span) ==
  {<<"span", span>>} \cup {<<"name", n>> : n \in Names(span)}
    \cup {<<"index", key, span>> : key \in Keys(span)}

Init ==
  /\ traces = {} /\ index = {}
  /\ names = [n \in NameKeys |-> Never]
  /\ hour = 0
  /\ interval = 0 /\ seen = [t \in Threads |-> 0]
  /\ written = [t \in Threads |-> [n \in NameKeys |-> Never]]
  /\ outcome = [c \in Calls |-> "idle"]
  /\ sent = [c \in Calls |-> {}]
  /\ submitted = [c \in Calls |-> Never]
  /\ failures = 0
  /\ lost = {}

Fault == failures < MaxFailures /\ failures' = failures + 1

-----------------------------------------------------------------------------
(* apply(spans)                                                            *)

\* writtenNames.get(): the thread that notices a new hour starts with an empty
\* set; the others find the hour noticed already.
MyNames(t, noticed) ==
  IF noticed = hour THEN written[t] ELSE [n \in NameKeys |-> Never]

\* Mutant: names are marked as written before it is known what will be sent.
SendsMarkingAll(c, t, mine, wanted, result) ==
  /\ written' = [written EXCEPT ![t] =
       [n \in NameKeys |-> IF mine[n] = Never /\ \E s \in Range(Batch[c]) : n \in Names(s)
                             THEN hour ELSE mine[n]]]
  /\ sent' = [sent EXCEPT ![c] = {st \in wanted : st[1] = "name" => mine[st[2]] = Never}]
  /\ lost' = lost \cup {n \in NameKeys : <<"name", n>> \in wanted /\ mine[n] \notin {Never, hour}}
  /\ interval' = hour /\ seen' = [seen EXCEPT ![t] = hour]
  /\ outcome' = [outcome EXCEPT ![c] = result]
  /\ submitted' = [submitted EXCEPT ![c] = hour]
  /\ UNCHANGED <<tables, hour>>

\* Everything wanted is sent, except the names that this thread has marked.
Sends(c, t, mine, wanted, result) ==
  /\ written' = [written EXCEPT ![t] =
       [n \in NameKeys |-> IF mine[n] = Never /\ <<"name", n>> \in wanted THEN hour ELSE mine[n]]]
  /\ sent' = [sent EXCEPT ![c] = {st \in wanted : st[1] = "name" => mine[st[2]] = Never}]
  /\ lost' = lost \cup {n \in NameKeys : <<"name", n>> \in wanted /\ mine[n] \notin {Never, hour}}
  /\ interval' = hour /\ seen' = [seen EXCEPT ![t] = hour]
  /\ outcome' = [outcome EXCEPT ![c] = result]
  /\ submitted' = [submitted EXCEPT ![c] = hour]
  /\ UNCHANGED <<tables, hour>>

Throwing(span) == "" \in span.services

Apply(c, t) ==
  /\ outcome[c] = "idle"
  /\ \A span \in Range(Batch[c]) : ~Throwing(span)
  /\ \E noticed \in {interval, seen[t]} :
       Sends(c, t, MyNames(t, noticed), UNION {Statements(s) : s \in Range(Batch[c])}, "storing")
  /\ UNCHANGED failures

\* executeAsync throws and the exception becomes a failed Future; the name of a
\* span is not marked then.
ApplyRefused(c, t) ==
  /\ Fault
  /\ outcome[c] = "idle"
  /\ \A span \in Range(Batch[c]) : ~Throwing(span)
  /\ LET all == UNION {Statements(s) : s \in Range(Batch[c])} IN
     \E noticed \in {interval, seen[t]}, refused \in all :
       /\ refused[1] = "name" => Len(refused[2]) = 2 /\ MyNames(t, noticed)[refused[2]] = Never
       /\ Sends(c, t, MyNames(t, noticed), all \ {refused}, "failed")

\* storeSpanName, or storeTraceIdByServiceName for a span without a name, refuses a
\* service without a name, and apply throws: the spans before are sent, and of this
\* one what comes before the blank service.
ApplyThrows(c, t) ==
  /\ outcome[c] = "idle"
  /\ \E k \in 1 .. Len(Batch[c]), noticed \in {interval, seen[t]} :
       LET span == Batch[c][k]
           services == span.services \ {""}
       IN /\ Throwing(span) /\ \A j \in 1 .. k - 1 : ~Throwing(Batch[c][j])
          /\ \E reached \in SUBSET services :
               Sends(c, t, MyNames(t, noticed),
                     {<<"span", span>>} \cup {<<"name", <<s>>>> : s \in services}
                       \cup {IF span.name = "" THEN <<"index", <<"service", s>>, span>>
                                               ELSE <<"name", <<s, Lower[span.name]>>>> : s \in reached}
                       \cup UNION {Statements(Batch[c][j]) : j \in 1 .. k - 1}, "threw")
  /\ UNCHANGED failures

\* storeServiceName passes on what executeAsync throws.
ApplyBreaks(c, t) ==
  /\ Fault
  /\ outcome[c] = "idle"
  /\ \E k \in 1 .. Len(Batch[c]), noticed \in {interval, seen[t]} :
       /\ \A j \in 1 .. k : ~Throwing(Batch[c][j])
       /\ \E part \in SUBSET {<<"name", <<s>>>> : s \in Batch[c][k].services} :
            LET wanted == part \cup {<<"span", Batch[c][k]>>}
                            \cup UNION {Statements(Batch[c][j]) : j \in 1 .. k - 1}
            IN /\ \E s \in Batch[c][k].services :
                    <<"name", <<s>>>> \notin wanted /\ MyNames(t, noticed)[<<s>>] = Never
               /\ Sends(c, t, MyNames(t, noticed), wanted, "threw")

-----------------------------------------------------------------------------
(* The statements, and what they leave in the tables.                      *)

\* The primary key of an index row is key, bucket and time: the last writer of a
\* row takes it.  Only the span names' index has no buckets.
IndexRow(key, span, b) ==
  {r \in index : ~(r.key = key /\ r.bucket = b /\ r.time = span.time)}
    \cup {[key |-> key, bucket |-> b, time |-> span.time, trace |-> span.trace]}

\* Mutant: the hour of expiry is stored.
WrittenUntil(st) ==
  CASE st[1] = "span"  -> traces' = traces \cup {st[2]} /\ UNCHANGED <<names, index>>
    [] st[1] = "name"  -> names' = [names EXCEPT ![st[2]] = hour + NameTtl] /\ UNCHANGED <<traces, index>>
    [] st[1] = "index" -> UNCHANGED tables

Written(st) ==
  CASE st[1] = "span"  -> traces' = traces \cup {st[2]} /\ UNCHANGED <<names, index>>
    [] st[1] = "name"  -> names' = [names EXCEPT ![st[2]] = hour] /\ UNCHANGED <<traces, index>>
    [] st[1] = "index" -> /\ \E b \in IF st[2][1] = "span" THEN {0} ELSE Buckets :
                               index' = IndexRow(st[2], st[3], b)
                          /\ UNCHANGED <<traces, names>>

NamesIn(st) == IF st[1] = "name" THEN {st[2]} ELSE {}

Lands(c, st) ==
  /\ st \in sent[c]
  /\ Written(st)
  /\ sent' = [sent EXCEPT ![c] = @ \ {st}]
  /\ outcome' = [outcome EXCEPT ![c] = IF @ = "storing" /\ sent[c] = {st} THEN "ok" ELSE @]
  /\ lost' = lost \ NamesIn(st)
  /\ UNCHANGED <<hour, cache, submitted, failures>>

\* Mutant: the index statements are not joined into the Future of the call.
FailsUnjoined(c, st) ==
  /\ Fault
  /\ st \in sent[c]
  /\ Written(st) \/ UNCHANGED tables
  /\ sent' = [sent EXCEPT ![c] = @ \ {st}]
  /\ outcome' = [outcome EXCEPT ![c] = IF @ = "storing" /\ st[1] # "index" THEN "failed" ELSE @]
  /\ lost' = lost \cup NamesIn(st)
  /\ UNCHANGED <<hour, cache, submitted>>

\* The name stays marked.  A statement that fails may have been carried out; one
\* that times out is retried until it does not (ZipkinRetryPolicy).
Fails(c, st) ==
  /\ Fault
  /\ st \in sent[c]
  /\ Written(st) \/ UNCHANGED tables
  /\ sent' = [sent EXCEPT ![c] = @ \ {st}]
  /\ outcome' = [outcome EXCEPT ![c] = IF @ = "storing" THEN "failed" ELSE @]
  /\ lost' = lost \cup NamesIn(st)
  /\ UNCHANGED <<hour, cache, submitted>>

HourPasses ==
  /\ hour < MaxHour
  /\ hour' = hour + 1
  /\ UNCHANGED <<tables, cache, outcome, sent, submitted, failures, lost>>

Answered(c) == \E st \in sent[c] : Lands(c, st) \/ Fails(c, st)

Next ==
  \/ \E c \in Calls, t \in Threads : Apply(c, t) \/ ApplyRefused(c, t)
                                 \/ ApplyThrows(c, t) \/ ApplyBreaks(c, t)
  \/ \E c \in Calls : Answered(c)
  \/ HourPasses

Spec == Init /\ [][Next]_vars

-----------------------------------------------------------------------------
(* What the queries find, but for their limits.                            *)

TraceIds(key, endTime) == {r.trace : r \in {q \in index : q.key = key /\ q.time <= endTime}}
Listed(n) == names[n] # Never /\ hour - names[n] < NameTtl

-----------------------------------------------------------------------------
\* Type correctness of the tables and of the caches.
CassandraTypeOK ==
  /\ traces \subseteq Spans
  /\ hour \in 0 .. MaxHour /\ interval \in 0 .. hour
  /\ names \in [NameKeys -> 0 .. hour \cup {Never}]
  /\ seen \in [Threads -> 0 .. interval]
  /\ written \in [Threads -> [NameKeys -> 0 .. hour \cup {Never}]]
  /\ outcome \in [Calls -> {"idle", "storing", "ok", "failed", "threw"}]
  /\ DOMAIN sent = Calls
  /\ \A c \in Calls : sent[c] \subseteq UNION {Statements(s) : s \in Range(Batch[c])}
  /\ submitted \in [Calls -> 0 .. hour \cup {Never}]
  /\ failures \in 0 .. MaxFailures /\ lost \subseteq NameKeys

\* A call that ended well left each of its spans in the traces, and each query it
\* answers finds its trace, unless another trace has a span of the same
\* microsecond under the same key (CassandraSpanStore.scala:206-226; the primary
\* keys of the index tables end with ts).
AckedIsFound ==
  \A c \in Calls : outcome[c] = "ok" =>
    \A span \in Range(Batch[c]) :
      /\ span \in traces
      /\ \A key \in Keys(span) :
           \/ span.trace \in TraceIds(key, span.time)
           \/ \E other \in Spans : /\ other.trace # span.trace /\ other.time = span.time
                                   /\ key \in Keys(other)

OnTheWay(n) == \E c \in Calls : <<"name", n>> \in sent[c]

NamesOf(c) == UNION {Names(span) : span \in Range(Batch[c])}
Recent(c) == outcome[c] = "ok" /\ hour - submitted[c] < NameTtl

\* The names of a call that ended well are listed until their time is over, or
\* about to be, except for the two ways in which the cache of written names goes
\* wrong: a statement that failed stays marked, and the set of a thread outlives
\* its hour when another thread notices first (Repository.java:72-91, 385).
NamesListedUnlessLost ==
  \A c \in Calls : Recent(c) =>
    \A n \in NamesOf(c) : Listed(n) \/ OnTheWay(n) \/ n \in lost
=============================================================================
