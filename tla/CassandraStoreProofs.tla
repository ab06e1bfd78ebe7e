------------------------ MODULE CassandraStoreProofs ------------------------
(***************************************************************************)
(* What a call of apply leaves in the tables, for any calls, threads,      *)
(* buckets and hours, and any statements that fail: the invariant follows  *)
(* each statement from the call to its row, and each name that a thread    *)
(* has marked as written.                                                  *)
(***************************************************************************)
EXTENDS CassandraStore, TLAPS

-----------------------------------------------------------------------------
(* The inductive invariant.                                                *)

Acked(c) == outcome[c] \in {"storing", "ok"}

\* A call that has not begun, or that is over, has nothing under way.
SentInv == \A c \in Calls : outcome[c] \in {"idle", "ok"} => sent[c] = {}

\* Another trace may take the row: the primary key has no trace id.
Taken(key, span) ==
  \E other \in Spans : other.trace # span.trace /\ other.time = span.time /\ key \in Keys(other)

\* The row of the span's own time, not just any that the query would find: a row of
\* an earlier span of the trace may still go to another trace.
Indexed(key, span) ==
  (\E r \in index : r.key = key /\ r.time = span.time /\ r.trace = span.trace) \/ Taken(key, span)

\* Each span of a call that may yet end well is stored and indexed, or about to be.
FoundInv ==
  \A c \in Calls : Acked(c) =>
    \A span \in Range(Batch[c]) :
      /\ <<"span", span>> \in sent[c] \/ span \in traces
      /\ \A key \in Keys(span) : <<"index", key, span>> \in sent[c] \/ Indexed(key, span)

NamedSince(n, since) ==
  OnTheWay(n) \/ n \in lost \/ (names[n] # Never /\ names[n] >= since)

\* A name that a thread has marked is listed from the hour of the mark on.
MarkedInv ==
  \A t \in Threads, n \in NameKeys :
    written[t][n] # Never => NamedSince(n, written[t][n])

\* So is each name of a call that may yet end well, from the hour of the call on.
NamedInv ==
  \A c \in Calls : Acked(c) =>
    submitted[c] # Never /\ \A n \in NamesOf(c) : NamedSince(n, submitted[c])

CassandraInv == CassandraTypeOK /\ SentInv /\ FoundInv /\ MarkedInv /\ NamedInv

-----------------------------------------------------------------------------
(* Statements.                                                             *)

AllOf(c) == UNION {Statements(s) : s \in Range(Batch[c])}

Results == {"storing", "failed", "threw"}

\* The three kinds of statements of a span, and what their parts are.
LEMMA StatementKinds ==
  ASSUME NEW span, NEW st \in Statements(span)
  PROVE  \/ st = <<"span", span>> /\ st[1] = "span" /\ st[2] = span
         \/ \E n \in Names(span) : st = <<"name", n>> /\ st[1] = "name" /\ st[2] = n
         \/ \E key \in Keys(span) :
              /\ st = <<"index", key, span>>
              /\ st[1] = "index" /\ st[2] = key /\ st[3] = span
  BY DEF Statements

\* The same of what a call has under way.
LEMMA SentKinds ==
  ASSUME CassandraTypeOK, NEW c \in Calls, NEW st \in sent[c]
  PROVE  \E span \in Range(Batch[c]) :
           \/ st = <<"span", span>> /\ st[1] = "span" /\ st[2] = span
           \/ \E n \in Names(span) : st = <<"name", n>> /\ st[1] = "name" /\ st[2] = n
           \/ \E key \in Keys(span) :
                /\ st = <<"index", key, span>>
                /\ st[1] = "index" /\ st[2] = key /\ st[3] = span
<1>1. PICK span \in Range(Batch[c]) : st \in Statements(span)
  BY DEF CassandraTypeOK
<1>2. QED BY <1>1, StatementKinds

LEMMA NamesAreKeys ==
  ASSUME NEW c \in Calls, NEW span \in Range(Batch[c])
  PROVE  span \in Spans /\ Names(span) \subseteq NameKeys
<1>1. span \in Spans
  BY DEF Spans
<1>2. QED BY <1>1 DEF NameKeys

\* What a thread takes for written is a part of what it has marked.
LEMMA MyNamesFacts ==
  ASSUME CassandraTypeOK, NEW t \in Threads, NEW noticed
  PROVE  /\ MyNames(t, noticed) \in [NameKeys -> (0 .. hour) \cup {Never}]
         /\ \A n \in NameKeys : MyNames(t, noticed)[n] \in {written[t][n], Never}
  BY DEF MyNames, CassandraTypeOK

-----------------------------------------------------------------------------
(* The steps of apply, which differ in what they want to send.             *)

\* The state in which a call of apply starts to send.
Starts(c, t, mine, wanted, result) ==
  /\ c \in Calls /\ t \in Threads /\ outcome[c] = "idle"
  /\ mine \in [NameKeys -> (0 .. hour) \cup {Never}]
  /\ \A n \in NameKeys : mine[n] \in {written[t][n], Never}
  /\ wanted \subseteq AllOf(c)
  /\ result \in Results
  /\ result = "storing" => wanted = AllOf(c)

LEMMA SendsTypeOK ==
  ASSUME CassandraTypeOK, NEW c, NEW t, NEW mine, NEW wanted, NEW result,
         Starts(c, t, mine, wanted, result), Sends(c, t, mine, wanted, result),
         failures' \in 0 .. MaxFailures
  PROVE  CassandraTypeOK'
<1> USE DEF Starts, Sends, tables
<1>1. hour \in Nat /\ hour \in 0 .. hour
  BY CassandraAssumption DEF CassandraTypeOK
<1>2. interval' \in 0 .. hour' /\ seen' \in [Threads -> 0 .. interval']
  BY <1>1 DEF CassandraTypeOK
<1>3. written' \in [Threads -> [NameKeys -> (0 .. hour') \cup {Never}]]
  BY <1>1 DEF CassandraTypeOK
<1>4. /\ outcome' \in [Calls -> {"idle", "storing", "ok", "failed", "threw"}]
      /\ submitted' \in [Calls -> (0 .. hour') \cup {Never}]
  BY <1>1 DEF CassandraTypeOK, Results
<1>5. DOMAIN sent' = Calls /\ \A d \in Calls : sent'[d] \subseteq AllOf(d)
  BY DEF CassandraTypeOK, AllOf
<1>6. lost' \subseteq NameKeys
  BY DEF CassandraTypeOK
<1>7. QED BY <1>2, <1>3, <1>4, <1>5, <1>6 DEF CassandraTypeOK, AllOf

\* The promises about names and rows once the call has sent.
LEMMA SendsInv ==
  ASSUME CassandraInv, NEW c, NEW t, NEW mine, NEW wanted, NEW result,
         Starts(c, t, mine, wanted, result), Sends(c, t, mine, wanted, result)
  PROVE  SentInv' /\ FoundInv' /\ MarkedInv' /\ NamedInv'
<1> USE DEF CassandraInv
<1>1. /\ c \in Calls /\ t \in Threads /\ sent[c] = {}
      /\ wanted \subseteq AllOf(c) /\ result \in Results
      /\ result = "storing" => wanted = AllOf(c)
      /\ hour \in Nat
  BY CassandraAssumption DEF Starts, SentInv, CassandraTypeOK
<1>2. /\ UNCHANGED <<traces, names, index, hour>>
      /\ outcome' = [outcome EXCEPT ![c] = result]
      /\ submitted' = [submitted EXCEPT ![c] = hour]
      /\ sent' = [sent EXCEPT ![c] = {st \in wanted : st[1] = "name" => mine[st[2]] = Never}]
      /\ lost' = lost \cup {n \in NameKeys : <<"name", n>> \in wanted /\ mine[n] \notin {Never, hour}}
      /\ written' = [written EXCEPT ![t] =
           [n \in NameKeys |-> IF mine[n] = Never /\ <<"name", n>> \in wanted THEN hour ELSE mine[n]]]
  BY DEF Sends, tables
<1>3. SentInv'
  BY <1>1, <1>2 DEF SentInv, CassandraTypeOK, Results
<1>4. \A n \in NameKeys : \A since : NamedSince(n, since) => NamedSince(n, since)'
  <2>1. \A n \in NameKeys : OnTheWay(n) => OnTheWay(n)'
    BY <1>1, <1>2 DEF OnTheWay, CassandraTypeOK
  <2>2. QED BY <1>2, <2>1 DEF NamedSince
\* A wanted name that the thread has not marked is sent.
<1>5. \A n \in NameKeys : mine[n] = Never /\ <<"name", n>> \in wanted => OnTheWay(n)'
  <2> SUFFICES ASSUME NEW n \in NameKeys, mine[n] = Never, <<"name", n>> \in wanted
               PROVE  OnTheWay(n)'
    OBVIOUS
  <2>1. <<"name", n>> \in {st \in wanted : st[1] = "name" => mine[st[2]] = Never}
    OBVIOUS
  <2>2. <<"name", n>> \in sent'[c]
    BY <1>1, <1>2, <2>1 DEF CassandraTypeOK
  <2>3. QED BY <1>1, <2>2 DEF OnTheWay
<1>6. FoundInv'
  <2> SUFFICES ASSUME NEW d \in Calls, Acked(d)', NEW span \in Range(Batch[d])
               PROVE  /\ <<"span", span>> \in sent'[d] \/ span \in traces'
                      /\ \A key \in Keys(span) :
                           <<"index", key, span>> \in sent'[d] \/ Indexed(key, span)'
    BY DEF FoundInv
  <2>1. CASE d # c
    BY <1>2, <2>1 DEF FoundInv, Acked, Indexed, CassandraTypeOK
  <2>2. CASE d = c
    <3>1. wanted = AllOf(c)
      BY <1>1, <1>2, <2>2 DEF Acked, Results, CassandraTypeOK
    <3>2. Statements(span) \subseteq wanted
      BY <2>2, <3>1 DEF AllOf
    <3>3. <<"span", span>> \in wanted /\ \A key \in Keys(span) : <<"index", key, span>> \in wanted
      BY <3>2 DEF Statements
    <3>4. QED BY <1>1, <1>2, <2>2, <3>3 DEF CassandraTypeOK
  <2>3. QED BY <2>1, <2>2
<1>7. MarkedInv'
  <2> SUFFICES ASSUME NEW u \in Threads, NEW n \in NameKeys, written'[u][n] # Never
               PROVE  NamedSince(n, written[u][n])'
    BY DEF MarkedInv
  <2>1. CASE u = t /\ mine[n] = Never
    <3>1. <<"name", n>> \in wanted
      BY <1>1, <1>2, <2>1 DEF CassandraTypeOK
    <3>2. OnTheWay(n)'
      BY <1>5, <2>1, <3>1
    <3>3. QED BY <3>2 DEF NamedSince
  <2>2. CASE u # t \/ mine[n] # Never
    <3>1. written'[u][n] = written[u][n]
      BY <1>1, <1>2, <2>2 DEF CassandraTypeOK, Starts
    <3>2. NamedSince(n, written[u][n])
      BY <3>1 DEF MarkedInv
    <3>3. PICK since : since = written[u][n]
      OBVIOUS
    <3>4. NamedSince(n, since)'
      BY <1>4, <3>2, <3>3
    <3>5. QED BY <3>1, <3>3, <3>4 DEF NamedSince
  <2>3. QED BY <2>1, <2>2
<1>8. NamedInv'
  <2> SUFFICES ASSUME NEW d \in Calls, Acked(d)'
               PROVE  submitted'[d] # Never /\ \A n \in NamesOf(d) : NamedSince(n, submitted[d])'
    BY DEF NamedInv
  <2>0. NamesOf(d) \subseteq NameKeys
    BY NamesAreKeys DEF NamesOf
  <2>1. CASE d # c
    <3>1. submitted'[d] = submitted[d] /\ Acked(d)
      BY <1>1, <1>2, <2>1 DEF Acked, CassandraTypeOK
    <3>2. PICK since : since = submitted[d]
      OBVIOUS
    <3>3. \A n \in NamesOf(d) : NamedSince(n, since)'
      BY <1>4, <2>0, <3>1, <3>2 DEF NamedInv
    <3>4. QED BY <3>1, <3>2, <3>3 DEF NamedSince, NamedInv
  <2>2. CASE d = c
    <3>1. submitted'[c] = hour /\ hour # Never /\ wanted = AllOf(c)
      BY <1>1, <1>2, <2>2, CassandraAssumption DEF Acked, Results, CassandraTypeOK
    <3>2. ASSUME NEW n \in NamesOf(c) PROVE NamedSince(n, submitted[c])'
      <4>1. n \in NameKeys /\ <<"name", n>> \in wanted
        BY <2>0, <2>2, <3>1 DEF AllOf, NamesOf, Statements
      <4>2. CASE mine[n] = Never
        <5>1. OnTheWay(n)'
          BY <1>5, <4>1, <4>2
        <5>2. QED BY <5>1 DEF NamedSince
      <4>3. CASE mine[n] = hour
        <5>1. written[t][n] = hour
          BY <3>1, <4>1, <4>3 DEF Starts
        <5>2. NamedSince(n, hour)
          BY <1>1, <3>1, <4>1, <5>1 DEF MarkedInv
        <5>3. PICK since : since = hour
          OBVIOUS
        <5>4. NamedSince(n, since)'
          BY <1>4, <4>1, <5>2, <5>3
        <5>5. QED BY <3>1, <5>3, <5>4 DEF NamedSince
      <4>4. CASE mine[n] \notin {Never, hour}
        <5>1. n \in lost'
          BY <1>2, <4>1, <4>4
        <5>2. QED BY <5>1 DEF NamedSince
      <4>5. QED BY <4>2, <4>3, <4>4
    <3>3. QED BY <2>2, <3>1, <3>2
  <2>3. QED BY <2>1, <2>2
<1>9. QED BY <1>3, <1>6, <1>7, <1>8

\* Each way in which apply may go is such a sending.
LEMMA ApplySteps ==
  ASSUME CassandraTypeOK, NEW c \in Calls, NEW t \in Threads,
         Apply(c, t) \/ ApplyRefused(c, t) \/ ApplyThrows(c, t) \/ ApplyBreaks(c, t)
  PROVE  /\ \E mine, wanted, result : Starts(c, t, mine, wanted, result)
                                      /\ Sends(c, t, mine, wanted, result)
         /\ failures' \in 0 .. MaxFailures
<1> DEFINE Sending(mine, wanted, result) ==
             Starts(c, t, mine, wanted, result) /\ Sends(c, t, mine, wanted, result)
<1>1. failures' \in 0 .. MaxFailures
  <2>1. failures \in 0 .. MaxFailures /\ MaxFailures \in Nat
    BY CassandraAssumption DEF CassandraTypeOK
  <2>2. UNCHANGED failures \/ Fault
    BY DEF Apply, ApplyRefused, ApplyThrows, ApplyBreaks
  <2>3. QED BY <2>1, <2>2 DEF Fault
<1>2. outcome[c] = "idle"
  BY DEF Apply, ApplyRefused, ApplyThrows, ApplyBreaks
<1>3. ASSUME NEW noticed, NEW wanted, NEW result \in Results, wanted \subseteq AllOf(c),
             result = "storing" => wanted = AllOf(c),
             Sends(c, t, MyNames(t, noticed), wanted, result)
      PROVE  \E m, w, r : Sending(m, w, r)
  <2>1. Starts(c, t, MyNames(t, noticed), wanted, result)
    BY <1>2, <1>3, MyNamesFacts DEF Starts
  <2>2. QED BY <1>1, <1>3, <2>1
<1>4. /\ Len(Batch[c]) \in Nat
      /\ \A k \in 1 .. Len(Batch[c]) : Batch[c][k] \in Range(Batch[c])
      /\ \A k \in 1 .. Len(Batch[c]) :
           /\ Statements(Batch[c][k]) \subseteq AllOf(c)
           /\ UNION {Statements(Batch[c][j]) : j \in 1 .. k - 1} \subseteq AllOf(c)
  <2>1. DOMAIN Batch[c] = 1 .. Len(Batch[c]) /\ Len(Batch[c]) \in Nat
    BY CassandraAssumption
  <2>2. \A k \in 1 .. Len(Batch[c]) : Statements(Batch[c][k]) \subseteq AllOf(c)
    BY <2>1 DEF Range, AllOf
  <2>3. \A k \in 1 .. Len(Batch[c]) : \A j \in 1 .. k - 1 : j \in 1 .. Len(Batch[c])
    BY <2>1
  <2>4. QED BY <2>1, <2>2, <2>3 DEF Range
<1>5. CASE Apply(c, t)
  BY <1>1, <1>3, <1>5 DEF Apply, AllOf, Results
<1>6. CASE ApplyRefused(c, t)
  <2>1. PICK noticed, refused :
          Sends(c, t, MyNames(t, noticed), AllOf(c) \ {refused}, "failed")
    BY <1>6 DEF ApplyRefused, AllOf
  <2>2. "failed" \in Results /\ "failed" # "storing"
    BY DEF Results
  <2>3. QED BY <1>1, <1>3, <2>1, <2>2
<1>7. CASE ApplyThrows(c, t)
  <2>1. PICK k \in 1 .. Len(Batch[c]), noticed \in {interval, seen[t]} :
          LET span == Batch[c][k]
              services == span.services \ {""}
          IN /\ Throwing(span) /\ \A j \in 1 .. k - 1 : ~Throwing(Batch[c][j])
             /\ \E reached \in SUBSET services :
                  Sends(c, t, MyNames(t, noticed),
                     {<<"span", span>>} \cup {<<"name", <<s>>>> : s \in services}
                       \cup {IF span.name = "" THEN <<"index", <<"service", s>>, span>>
                                               ELSE <<"name", <<s, Lower[span.name]>>>> : s \in reached}
                       \cup UNION {Statements(Batch[c][j]) : j \in 1 .. k - 1}, "threw")
    BY <1>7 DEF ApplyThrows
  <2> DEFINE span == Batch[c][k]
             services == span.services \ {""}
  <2>2. PICK reached \in SUBSET services :
          Sends(c, t, MyNames(t, noticed),
             {<<"span", span>>} \cup {<<"name", <<s>>>> : s \in services}
               \cup {IF span.name = "" THEN <<"index", <<"service", s>>, span>>
                                       ELSE <<"name", <<s, Lower[span.name]>>>> : s \in reached}
               \cup UNION {Statements(Batch[c][j]) : j \in 1 .. k - 1}, "threw")
    BY <2>1
  <2> DEFINE lasts == {IF span.name = "" THEN <<"index", <<"service", s>>, span>>
                                         ELSE <<"name", <<s, Lower[span.name]>>>> : s \in reached}
             before == UNION {Statements(Batch[c][j]) : j \in 1 .. k - 1}
  <2>3. before \subseteq AllOf(c)
    BY <1>4
  <2>4. {<<"span", span>>} \subseteq Statements(span)
    BY DEF Statements
  <2>5. {<<"name", <<s>>>> : s \in services} \subseteq Statements(span)
    BY DEF Statements, Names
  <2>6. lasts \subseteq Statements(span)
    <3>1. ASSUME NEW s \in reached
          PROVE  (IF span.name = "" THEN <<"index", <<"service", s>>, span>>
                                    ELSE <<"name", <<s, Lower[span.name]>>>>) \in Statements(span)
      <4>1. CASE span.name = ""
        <5>1. <<"service", s>> \in Keys(span)
          BY DEF Keys
        <5>2. QED BY <4>1, <5>1 DEF Statements
      <4>2. CASE span.name # ""
        <5>1. <<s, Lower[span.name]>> \in Names(span)
          BY <4>2 DEF Names
        <5>2. QED BY <4>2, <5>1 DEF Statements
      <4>3. QED BY <4>1, <4>2
    <3>2. QED BY <3>1
  <2>7. Statements(span) \subseteq AllOf(c)
    BY <1>4
  <2> HIDE DEF span, services, lasts, before
  <2>8. {<<"span", span>>} \cup {<<"name", <<s>>>> : s \in services} \cup lasts \cup before
          \subseteq AllOf(c)
    BY <2>3, <2>4, <2>5, <2>6, <2>7
  <2>9. "threw" \in Results /\ "threw" # "storing"
    BY DEF Results
  <2>10. QED BY <1>1, <1>3, <2>2, <2>8, <2>9 DEF span, services, lasts, before
<1>8. CASE ApplyBreaks(c, t)
  <2>1. PICK k \in 1 .. Len(Batch[c]), noticed \in {interval, seen[t]} :
          /\ \A j \in 1 .. k : ~Throwing(Batch[c][j])
          /\ \E part \in SUBSET {<<"name", <<s>>>> : s \in Batch[c][k].services} :
               Sends(c, t, MyNames(t, noticed),
                     part \cup {<<"span", Batch[c][k]>>}
                       \cup UNION {Statements(Batch[c][j]) : j \in 1 .. k - 1}, "threw")
    BY <1>8 DEF ApplyBreaks
  <2> DEFINE span == Batch[c][k]
             before == UNION {Statements(Batch[c][j]) : j \in 1 .. k - 1}
  <2>2. PICK part \in SUBSET {<<"name", <<s>>>> : s \in span.services} :
          Sends(c, t, MyNames(t, noticed), part \cup {<<"span", span>>} \cup before, "threw")
    BY <2>1
  <2>3. before \subseteq AllOf(c)
    BY <1>4
  <2>4. "" \notin span.services
    <3>1. k \in 1 .. k
      BY <1>4
    <3>2. QED BY <2>1, <3>1 DEF Throwing
  <2>5. part \cup {<<"span", span>>} \subseteq Statements(span)
    <3>1. \A s \in span.services : <<s>> \in Names(span)
      BY <2>4 DEF Names
    <3>2. QED BY <3>1 DEF Statements
  <2>6. Statements(span) \subseteq AllOf(c)
    BY <1>4
  <2> HIDE DEF span, before
  <2>7. part \cup {<<"span", span>>} \cup before \subseteq AllOf(c)
    BY <2>3, <2>5, <2>6
  <2>8. "threw" \in Results /\ "threw" # "storing"
    BY DEF Results
  <2>9. QED BY <1>1, <1>3, <2>2, <2>7, <2>8
<1>9. QED BY <1>1, <1>5, <1>6, <1>7, <1>8

-----------------------------------------------------------------------------
(* A statement that reaches the tables.                                    *)

\* A row is there once it is written, and goes only to another trace.
LEMMA RowsStay ==
  ASSUME NEW key, NEW span \in Spans, NEW other \in Spans, NEW k \in Keys(other), NEW b,
         index' = IndexRow(k, other, b)
  PROVE  /\ Indexed(key, span) => Indexed(key, span)'
         /\ Indexed(k, other)'
<1> DEFINE row == [key |-> k, bucket |-> b, time |-> other.time, trace |-> other.trace]
<1>1. /\ row \in index' /\ row.key = k /\ row.time = other.time /\ row.trace = other.trace
      /\ \A r \in index : r \in index' \/ (r.key = k /\ r.time = other.time)
  BY DEF IndexRow
<1>2. Indexed(k, other)'
  BY <1>1 DEF Indexed
<1>3. ASSUME Indexed(key, span) PROVE Indexed(key, span)'
  <2>1. CASE Taken(key, span)
    BY <2>1 DEF Indexed, Taken
  <2>2. ASSUME NEW r \in index, r.key = key, r.time = span.time, r.trace = span.trace
        PROVE  Indexed(key, span)'
    <3>1. CASE r \in index'
      BY <2>2, <3>1 DEF Indexed
    <3>2. CASE r \notin index' /\ other.trace = span.trace
      BY <1>1, <2>2, <3>2 DEF Indexed
    <3>3. CASE r \notin index' /\ other.trace # span.trace
      BY <1>1, <2>2, <3>3 DEF Indexed, Taken
    <3>4. QED BY <3>1, <3>2, <3>3
  <2>3. QED BY <1>1, <1>3, <2>1, <2>2 DEF Indexed
<1>4. QED BY <1>2, <1>3

\* What a statement that is carried out leaves behind, and what it leaves alone.
LEMMA WrittenFacts ==
  ASSUME CassandraTypeOK, NEW c \in Calls, NEW st \in sent[c], Written(st)
  PROVE  /\ traces \subseteq traces' /\ traces' \subseteq Spans
         /\ names' \in [NameKeys -> (0 .. hour) \cup {Never}]
         /\ \A n \in NameKeys : names'[n] \in {names[n], hour}
         /\ \A key : \A span \in Spans : Indexed(key, span) => Indexed(key, span)'
         /\ st[1] = "span" => st[2] \in traces'
         /\ st[1] = "name" => names'[st[2]] = hour
         /\ st[1] = "index" => Indexed(st[2], st[3])'
<1>1. PICK span \in Range(Batch[c]) :
        \/ st = <<"span", span>> /\ st[1] = "span" /\ st[2] = span
        \/ \E n \in Names(span) : st = <<"name", n>> /\ st[1] = "name" /\ st[2] = n
        \/ \E key \in Keys(span) :
             /\ st = <<"index", key, span>>
             /\ st[1] = "index" /\ st[2] = key /\ st[3] = span
  BY SentKinds
<1>2. span \in Spans /\ Names(span) \subseteq NameKeys
  BY NamesAreKeys
<1>3. hour \in 0 .. hour
  BY CassandraAssumption DEF CassandraTypeOK
<1>4. CASE st[1] = "span"
  <2>1. traces' = traces \cup {span} /\ UNCHANGED <<names, index>> /\ st[2] = span
    BY <1>1, <1>4 DEF Written
  <2>2. QED BY <1>2, <1>4, <2>1 DEF Indexed, Taken, CassandraTypeOK
<1>5. CASE st[1] = "name"
  <2>1. /\ names' = [names EXCEPT ![st[2]] = hour] /\ UNCHANGED <<traces, index>>
        /\ st[2] \in NameKeys
    BY <1>1, <1>2, <1>5 DEF Written
  <2>2. QED BY <1>3, <1>5, <2>1 DEF Indexed, Taken, CassandraTypeOK
<1>6. CASE st[1] = "index"
  <2>1. /\ UNCHANGED <<traces, names>> /\ st[3] = span /\ st[2] \in Keys(span)
        /\ \E b : index' = IndexRow(st[2], st[3], b)
    BY <1>1, <1>6 DEF Written
  <2>2. \A key : \A s \in Spans : Indexed(key, s) => Indexed(key, s)'
    BY <1>2, <2>1, RowsStay
  <2>3. Indexed(st[2], st[3])'
    BY <1>2, <2>1, RowsStay
  <2>4. QED BY <1>6, <2>1, <2>2, <2>3 DEF CassandraTypeOK
<1>7. QED BY <1>1, <1>4, <1>5, <1>6

LEMMA AnswerTypeOK ==
  ASSUME CassandraTypeOK, NEW c \in Calls, NEW st \in sent[c], Lands(c, st) \/ Fails(c, st)
  PROVE  CassandraTypeOK'
<1>1. /\ UNCHANGED <<hour, cache, submitted>>
      /\ sent' = [sent EXCEPT ![c] = @ \ {st}]
  BY DEF Lands, Fails
<1>2. traces' \subseteq Spans /\ names' \in [NameKeys -> (0 .. hour') \cup {Never}]
  BY <1>1, WrittenFacts DEF Lands, Fails, tables, CassandraTypeOK
<1>3. failures' \in 0 .. MaxFailures
  <2>1. failures \in 0 .. MaxFailures /\ MaxFailures \in Nat
    BY CassandraAssumption DEF CassandraTypeOK
  <2>2. QED BY <2>1 DEF Lands, Fails, Fault
<1>4. lost' \subseteq NameKeys
  <2>1. NamesIn(st) \subseteq NameKeys
    BY SentKinds, NamesAreKeys DEF NamesIn
  <2>2. QED BY <2>1 DEF Lands, Fails, CassandraTypeOK
<1>5. outcome' \in [Calls -> {"idle", "storing", "ok", "failed", "threw"}]
  BY DEF Lands, Fails, CassandraTypeOK
<1>6. DOMAIN sent' = Calls /\ \A d \in Calls : sent'[d] \subseteq sent[d]
  BY <1>1 DEF CassandraTypeOK
<1>7. QED BY <1>1, <1>2, <1>3, <1>4, <1>5, <1>6 DEF CassandraTypeOK, cache

\* What the answer to a statement does to the promise about a name.
LEMMA AnswerKeepsNames ==
  ASSUME CassandraTypeOK, NEW c \in Calls, NEW st \in sent[c], Lands(c, st) \/ Fails(c, st),
         NEW n \in NameKeys, NEW since \in 0 .. hour, NamedSince(n, since)
  PROVE  NamedSince(n, since)'
<1>0. since \in Nat /\ hour \in Nat /\ hour # Never /\ since <= hour
  BY CassandraAssumption DEF CassandraTypeOK
<1>1. sent' = [sent EXCEPT ![c] = @ \ {st}] /\ (Written(st) \/ UNCHANGED tables)
  BY DEF Lands, Fails
<1>2. names'[n] \in {names[n], hour}
  BY <1>1, WrittenFacts DEF tables
<1>3. CASE st = <<"name", n>>
  <2>1. st[1] = "name" /\ st[2] = n
    BY <1>3
  <2>2. CASE Lands(c, st)
    <3>1. names'[n] = hour
      BY <2>1, <2>2, WrittenFacts DEF Lands
    <3>2. QED BY <1>0, <3>1 DEF NamedSince
  <2>3. CASE Fails(c, st)
    BY <2>1, <2>3 DEF Fails, NamesIn, NamedSince
  <2>4. QED BY <2>2, <2>3
<1>4. CASE st # <<"name", n>>
  <2>1. OnTheWay(n) => OnTheWay(n)'
    BY <1>1, <1>4 DEF OnTheWay, CassandraTypeOK
  <2>2. n \notin NamesIn(st)
    <3>1. ASSUME st[1] = "name", st[2] = n PROVE FALSE
      BY <1>4, <3>1, SentKinds
    <3>2. QED BY <3>1 DEF NamesIn
  <2>3. n \in lost => n \in lost'
    BY <2>2 DEF Lands, Fails
  <2>4. names[n] # Never /\ names[n] >= since => names'[n] # Never /\ names'[n] >= since
    BY <1>0, <1>2
  <2>5. QED BY <2>1, <2>3, <2>4 DEF NamedSince
<1>5. QED BY <1>3, <1>4

LEMMA AnswerInv ==
  ASSUME CassandraInv, NEW c \in Calls, NEW st \in sent[c], Lands(c, st) \/ Fails(c, st)
  PROVE  SentInv' /\ FoundInv' /\ MarkedInv' /\ NamedInv'
<1> USE DEF CassandraInv
<1>1. /\ sent' = [sent EXCEPT ![c] = @ \ {st}] /\ (Written(st) \/ UNCHANGED tables)
      /\ UNCHANGED <<hour, written, submitted>>
      /\ \/ outcome' = [outcome EXCEPT ![c] = IF @ = "storing" THEN "failed" ELSE @]
         \/ /\ Written(st)
            /\ outcome' = [outcome EXCEPT ![c] = IF @ = "storing" /\ sent[c] = {st}
                                                   THEN "ok" ELSE @]
  BY DEF Lands, Fails, cache
<1>2. outcome[c] \notin {"idle", "ok"}
  BY DEF SentInv
<1>3. SentInv'
  BY <1>1, <1>2 DEF SentInv, CassandraTypeOK
<1>4. /\ traces \subseteq traces'
      /\ \A key : \A span \in Spans : Indexed(key, span) => Indexed(key, span)'
  BY <1>1, WrittenFacts DEF tables, Indexed, Taken
<1>5. \A d \in Calls : Acked(d)' => Acked(d) /\ (d = c => Written(st))
  BY <1>1, <1>2 DEF Acked, CassandraTypeOK
<1>6. FoundInv'
  <2> SUFFICES ASSUME NEW d \in Calls, Acked(d)', NEW span \in Range(Batch[d])
               PROVE  /\ <<"span", span>> \in sent'[d] \/ span \in traces'
                      /\ \A key \in Keys(span) :
                           <<"index", key, span>> \in sent'[d] \/ Indexed(key, span)'
    BY DEF FoundInv
  <2>0. span \in Spans
    BY NamesAreKeys
  <2>1. CASE d # c
    BY <1>1, <1>4, <1>5, <2>0, <2>1 DEF FoundInv, CassandraTypeOK
  <2>2. CASE d = c
    <3>1. Acked(c) /\ Written(st) /\ sent'[c] = sent[c] \ {st}
      BY <1>1, <1>5, <2>2 DEF CassandraTypeOK
    <3>2. /\ st[1] = "span" => st[2] \in traces'
          /\ st[1] = "index" => Indexed(st[2], st[3])'
      BY <3>1, WrittenFacts
    <3>3. <<"span", span>> \in sent'[c] \/ span \in traces'
      BY <1>4, <2>2, <3>1, <3>2 DEF FoundInv
    <3>4. ASSUME NEW key \in Keys(span)
          PROVE  <<"index", key, span>> \in sent'[c] \/ Indexed(key, span)'
      <4>1. CASE st = <<"index", key, span>>
        <5>1. st[1] = "index" /\ st[2] = key /\ st[3] = span
          BY <4>1
        <5>2. QED BY <3>2, <5>1
      <4>2. CASE st # <<"index", key, span>>
        BY <1>4, <2>0, <2>2, <3>1, <4>2 DEF FoundInv
      <4>3. QED BY <4>1, <4>2
    <3>5. QED BY <2>2, <3>3, <3>4
  <2>3. QED BY <2>1, <2>2
<1>7. MarkedInv'
  <2> SUFFICES ASSUME NEW t \in Threads, NEW n \in NameKeys, written[t][n] # Never
               PROVE  NamedSince(n, written[t][n])'
    BY <1>1 DEF MarkedInv
  <2>1. PICK since \in 0 .. hour : since = written[t][n]
    BY DEF CassandraTypeOK
  <2>2. NamedSince(n, since)
    BY <2>1 DEF MarkedInv
  <2>3. NamedSince(n, since)'
    BY <2>2, AnswerKeepsNames
  <2>4. QED BY <1>1, <2>1, <2>3 DEF NamedSince
<1>8. NamedInv'
  <2> SUFFICES ASSUME NEW d \in Calls, Acked(d)'
               PROVE  submitted'[d] # Never /\ \A n \in NamesOf(d) : NamedSince(n, submitted[d])'
    BY DEF NamedInv
  <2>1. Acked(d) /\ submitted[d] # Never /\ submitted[d] \in (0 .. hour) \cup {Never}
    BY <1>5 DEF NamedInv, CassandraTypeOK
  <2>2. PICK since \in 0 .. hour : since = submitted[d]
    BY <2>1
  <2>3. NamesOf(d) \subseteq NameKeys
    BY NamesAreKeys DEF NamesOf
  <2>4. \A n \in NamesOf(d) : NamedSince(n, since)
    BY <2>1, <2>2 DEF NamedInv
  <2>5. \A n \in NamesOf(d) : NamedSince(n, since)'
    BY <2>3, <2>4, AnswerKeepsNames
  <2>6. QED BY <1>1, <2>1, <2>2, <2>5 DEF NamedSince
<1>9. QED BY <1>3, <1>6, <1>7, <1>8

-----------------------------------------------------------------------------
(* The invariant and what it implies.                                      *)

LEMMA InitInv == Init => CassandraInv
<1> SUFFICES ASSUME Init PROVE CassandraInv
  OBVIOUS
<1>1. CassandraTypeOK
  BY CassandraAssumption DEF Init, CassandraTypeOK
<1>2. SentInv /\ FoundInv /\ NamedInv
  BY DEF Init, SentInv, FoundInv, NamedInv, Acked
<1>3. MarkedInv
  BY DEF Init, MarkedInv
<1>4. QED BY <1>1, <1>2, <1>3 DEF CassandraInv

LEMMA NextInv == CassandraInv /\ [Next]_vars => CassandraInv'
<1> SUFFICES ASSUME CassandraInv, [Next]_vars PROVE CassandraInv'
  OBVIOUS
<1>0. CassandraTypeOK
  BY DEF CassandraInv
<1>1. ASSUME NEW c \in Calls, NEW t \in Threads,
             Apply(c, t) \/ ApplyRefused(c, t) \/ ApplyThrows(c, t) \/ ApplyBreaks(c, t)
      PROVE  CassandraInv'
  <2>1. PICK mine, wanted, result :
          Starts(c, t, mine, wanted, result) /\ Sends(c, t, mine, wanted, result)
    BY <1>0, <1>1, ApplySteps
  <2>2. failures' \in 0 .. MaxFailures
    BY <1>0, <1>1, ApplySteps
  <2>3. CassandraTypeOK'
    BY <1>0, <2>1, <2>2, SendsTypeOK
  <2>4. QED BY <2>1, <2>3, SendsInv DEF CassandraInv
<1>2. ASSUME NEW c \in Calls, NEW st \in sent[c], Lands(c, st) \/ Fails(c, st)
      PROVE  CassandraInv'
  BY <1>0, <1>2, AnswerTypeOK, AnswerInv DEF CassandraInv
<1>3. CASE HourPasses
  <2>1. hour' = hour + 1 /\ hour < MaxHour
        /\ UNCHANGED <<tables, cache, outcome, sent, submitted, failures, lost>>
    BY <1>3 DEF HourPasses
  <2>2. hour \in Nat /\ MaxHour \in Nat /\ 0 .. hour \subseteq 0 .. hour' /\ hour' \in 0 .. MaxHour
    BY <1>0, <2>1, CassandraAssumption DEF CassandraTypeOK
  <2>3. CassandraTypeOK'
    BY <1>0, <2>1, <2>2 DEF CassandraTypeOK, tables, cache
  <2>4. SentInv' /\ FoundInv' /\ MarkedInv' /\ NamedInv'
    BY <2>1 DEF CassandraInv, SentInv, FoundInv, MarkedInv, NamedInv, Acked, Indexed, Taken,
                NamedSince, OnTheWay, tables, cache
  <2>5. QED BY <2>3, <2>4 DEF CassandraInv
<1>4. CASE UNCHANGED vars
  BY <1>4 DEF vars, tables, cache, CassandraInv, CassandraTypeOK, SentInv, FoundInv, MarkedInv,
              NamedInv, Acked, Indexed, Taken, NamedSince, OnTheWay
<1>5. QED BY <1>1, <1>2, <1>3, <1>4 DEF Next, Answered

\* Each statement under way, row and name is accounted for.
THEOREM CassandraInvariance == Spec => []CassandraInv
  BY InitInv, NextInv, PTL DEF Spec

\* The tables and the caches of written names are well typed.
THEOREM CassandraTypeCorrectness == Spec => []CassandraTypeOK
<1>1. CassandraInv => CassandraTypeOK
  BY DEF CassandraInv
<1>2. QED BY <1>1, CassandraInvariance, PTL

\* What a call that ended well has stored can be found, whatever the order in which
\* its statements and those of others land, unless another trace took its row.
THEOREM AckedCallsAreFound == Spec => []AckedIsFound
<1>1. CassandraInv => AckedIsFound
  <2> SUFFICES ASSUME CassandraInv, NEW c \in Calls, outcome[c] = "ok",
                      NEW span \in Range(Batch[c])
               PROVE  /\ span \in traces
                      /\ \A key \in Keys(span) :
                           span.trace \in TraceIds(key, span.time) \/ Taken(key, span)
    BY DEF AckedIsFound, Taken
  <2>1. sent[c] = {} /\ Acked(c)
    BY DEF CassandraInv, SentInv, Acked
  <2>2. span \in traces /\ \A key \in Keys(span) : Indexed(key, span)
    BY <2>1 DEF CassandraInv, FoundInv
  <2>3. ASSUME NEW key \in Keys(span), NEW r \in index,
               r.key = key, r.time = span.time, r.trace = span.trace
        PROVE  span.trace \in TraceIds(key, span.time)
    <3>1. span.time \in Nat
      BY NamesAreKeys, TimeAssumption
    <3>2. r.time <= span.time
      BY <2>3, <3>1
    <3>3. QED BY <2>3, <3>2 DEF TraceIds
  <2>4. QED BY <2>2, <2>3 DEF Indexed
<1>2. QED BY <1>1, CassandraInvariance, PTL

\* The names of a call that ended well are listed for indexTtl hours, but for the
\* ones that were lost: to a statement that failed, or to a set of written names that
\* outlived its hour.
THEOREM NamesAreListed == Spec => []NamesListedUnlessLost
<1>1. CassandraInv => NamesListedUnlessLost
  <2> SUFFICES ASSUME CassandraInv, NEW c \in Calls, Recent(c), NEW n \in NamesOf(c)
               PROVE  Listed(n) \/ OnTheWay(n) \/ n \in lost
    BY DEF NamesListedUnlessLost
  <2>1. submitted[c] # Never /\ NamedSince(n, submitted[c])
    BY DEF CassandraInv, NamedInv, Acked, Recent
  <2>2. n \in NameKeys
    BY NamesAreKeys DEF NamesOf
  <2>3. /\ submitted[c] \in 0 .. hour /\ hour \in Nat /\ NameTtl \in Nat
        /\ names[n] \in (0 .. hour) \cup {Never}
    BY <2>1, <2>2, CassandraAssumption DEF CassandraInv, CassandraTypeOK
  <2>4. hour - submitted[c] < NameTtl
    BY DEF Recent
  <2>5. names[n] # Never /\ names[n] >= submitted[c] => Listed(n)
    BY <2>3, <2>4 DEF Listed
  <2>6. QED BY <2>1, <2>5 DEF NamedSince
<1>2. QED BY <1>1, CassandraInvariance, PTL
=============================================================================
