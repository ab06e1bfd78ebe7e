# Formal models of zipkin

TLA+ models, TLC runs and TLAPS proofs for the program in `src/`. Paths are
relative to `src/`; `collector/` abbreviates
`zipkin-collector/src/main/scala/com/twitter/zipkin/collector/`. `PROJECT.json`
maps every definition that models code to its lines.

## 1. Inventory

| part | state it keeps | operations | talks to | what makes it correct |
|---|---|---|---|---|
| Item queue (`collector/ItemQueue.scala`) | bounded queue, `running`, worker threads, gauge and counters, close Future | `add`, the worker `loop`, `close` | its callers; `process` | nothing accepted is lost or processed twice; the bound holds; close drains; the statistics add up, but for the threads between two of them |
| Blocking queue (`collector/BlockingItemQueue.scala`) | the same, plus callers asleep | `add` overridden | as above | back-pressure instead of refusal, no caller stuck |
| Collector factories (`collector/ZipkinCollectorFactory.scala`) | how far closing has come | `newCollector`, `close` | receiver, queue, store | closed in order, store last, nothing outstanding |
| Scribe receiver (`zipkin-receiver-scribe`) | requests under way | `log`, `close` | thrift clients; `process` | an answer tells the truth about the batch; retries make no duplicates |
| Kafka receiver (`zipkin-receiver-kafka`) | stream positions, stream threads | `run`, `close` | Kafka; `process` | order, no loss before the last message, progress |
| ZooKeeper client (`zipkin-sampler/.../ZooKeeperClient.scala`) | nodes, watches, memberships, leadership | `ensurePath`, `create`, `setData`, `createEphemeral`, `watchData`, `joinGroup`, `groupData`, `offerLeadership` | ZooKeeper | a write that reports success is in the node; a watch converges; one leader |
| Adaptive sampler (`AdaptiveSampler.scala`) | request-rate buffer, leader flag, cooldown permit, local copies of two nodes | one update per period, the operator's two HTTP endpoints | ZooKeeper client, the other collectors | the operator's rate wins; rate 0 stays; adjustments are spaced |
| Configured samplers (`zipkin-collector-service`) | an adjustable rate | read and set over HTTP, sample a trace | request handlers | a trace is sampled alike everywhere |
| Span and trace assembly (`zipkin-common/.../common`, `query/Trace.scala`) | none (functions) | merge spans, span tree, depths, duration | query service | independent of arrival order; terminates |
| Clock-skew adjustment (`zipkin-query/.../TimeSkewAdjuster.scala`) | none | shift a subtree | trace | causality inside the adjusted tree |
| Trace-id queries (`zipkin-query/.../QueryTraceIds.scala`) | none | slice queries, intersection, padding | span store | agrees with the query's conjunction |
| Span stores: in memory, Cassandra, Redis, SQL | stored spans and indexes | `apply`, `getTracesByIds`, name and id lookups | databases | the contract of `SpanStore.scala` |
| SQL connection pool (`zipkin-anormdb/.../DBPool.scala`, `AnormThreads.scala`) | connections, transactions, a thread pool | borrow, commit, roll back | SQL store | a transaction is one client's own |
| Dependencies (`Dependencies.scala`, the three `DependencyStore`s) | links per period | merge, store, read | stores | a commutative, associative sum |
| Web server (`zipkin-web`, Scala) | none | HTTP handlers | query service, Zookeeper | requests answered from what the query service says |
| Trace page (`js/component_ui/trace.js` with the labels, buttons, spinner, panel and zoom) | counters per span, filters, pending callbacks, the selection | filter, expand, collapse, zoom, click | DOM events; timers | a span is visible while a filter, a child or a parent asks for it; labels and buttons say so |
| Index and dependency pages (`js/component_ui`, `js/component_data`) | selected service, tags, order; modals and marks | select, filter, sort, click, point | HTTP requests, DOM events | what is shown is the answer to what is chosen now |
| flight (`libs/flight/lib`) | instances, listeners, a registry; timers; log filters | attach, teardown, on, off, trigger; debounce, throttle | every page script | listeners live exactly as long as their component |
| Date picker (`libs/bootstrap-datepicker`, `timeStamp.js`) | selected, shown and focused date, mode, the fields | clicks, keys, typing | the search form | picker, field and timestamp agree; calendar arithmetic |
| Module loader (`libs/requirejs/require.js`) | registry, definitions, scripts under way, clock of time-outs | require, define, script loaded or failed, check | the browser | modules run once, after what they need; nobody waits silently |
| Graph layout (`libs/dagre-d3`: graphlib, dagre) | the graph and its indexes; ranks, orders, positions | edit a graph; the passes of a layout | dependency graph | the indexes agree; edges lead down, nodes stay apart, the graph comes back |
| Drawing and gestures (`libs/d3`) | elements, transitions, the timer queue; the view; a brush | draw, interrupt, a frame; drag, wheel, touch; brush | dagre-d3's Renderer, the browser | what was drawn last is there in the end; what is held stays under the hand |
| Thrift and JSON conversions, trace generator, mustache, server bootstrap, build and documentation | none | | | |

What is hard here, in the order of weight: threads and Futures that interleave
around a flag and a queue (`running` is read, then the queue is used);
shutdown, which passes through three components each of which can outlive its
deadline; retries of clients that cannot tell a refused batch from a lost
answer; awaits that give up on work that goes on; threads that die of what
nobody catches; several collectors acting on stale copies of shared ZooKeeper
nodes; database writes that succeed in part; in the browser, callbacks, answers,
frames and timers that come after the user has gone on, handlers that change
what is calling them, and counters that many clicks must keep in step; in the
libraries, indexes that must follow each other through every edit.
`PROJECT.json` lists each hazard at its line.

## 2. Modules

```
BoundedHandoff            the promise of the queue, without threads
      ^ implemented by
ItemQueue  <-- BlockingItemQueue <-- Collector <-- ScribeCollector <-- MCScribeCollector
                                     ^         <-- KafkaCollector  <-- MCKafkaCollector
                              CollectorProofs  <-- ScribeCollectorProofs   KafkaCollectorProofs
                              (which extend ScribeCollector and KafkaCollector)

ZkClient <-- ZkClientProofs
AdaptiveSampler <-- MCAdaptiveSampler
       ^------- AdaptiveSamplerProofs
CassandraStore <-- MCCassandraStore
       ^------ CassandraStoreProofs

IndexPage, DependencyPage <-- SearchPages
TracePage   SearchPages   FlightComponents   FlightUtilities
Calendar <-- DatePicker   ModuleLoader   ModuleNames     all of these <-- MCWebPages
TracePage, SearchPages, FlightUtilities <-- WebPagesProofs

GraphAlgorithms <-- DagreRank <-- DagreOrder <-- DagreLayout
                        ^-- DagreConstraints
D3Redraw   D3Gestures   D3Drags
RedBlackTree   QuadTree   GraphStore     all of these <-- MCWebLibs
GraphStore, D3Drags <-- WebLibsProofs
```
(an arrow points to the module that is extended)

**ItemQueue.** `running`, `queue`, the counters and the gauge are the class's
fields; `call[i]` is the program counter of the call of `add` that offers item
`i`; `worker[w]` and `taken[w]` are the program counter and the local `item` of a
pool thread; `process[i]` is what became of the Future `process(i)` returned.
`add` is two steps (`AddSees...`, `Offer...`) because the flag and the queue are
two shared objects. Each iteration of `loop` is six, one for each statement that
other threads can see the effect of: the loop condition, `poll` (`PollTakes`),
`activeWorkers.incrementAndGet` (`RaisesGauge`), the call of `process`
(`CallsProcess`), the end of the await with its counter (`Await...`) and
`activeWorkers.decrementAndGet` (`LowersGauge`). Between the second and the third
an item is in none of the statistics, between the last two it is in two of them, and
of two threads that have polled the one with the later item may call `process` first. `Await.result` ends in one of `AwaitReturns`, `AwaitThrows`,
`AwaitTimesOut` (only if the timeout is finite, only once `process` has returned
a Future, and without stopping that Future), or `WorkerDies` (a throwable that
`Try` does not catch). `beforeClose` is the one history variable: what had been
enqueued when `close` was called.

**BoundedHandoff** forgets threads and order: an item enters, is held within a
capacity or refused, is taken once, is settled; a shutdown ends when everything
held at its start is settled and nothing is in anybody's hands. `ItemQueue` maps to it by
`Stage(i)` and `HandoffPhase`.

**BlockingItemQueue** overrides `add`: it does not refuse after `close` (the
value `QueueClosed` is computed and discarded) and sleeps while the queue is
full.

**Collector** is `ZipkinCollectorFactory` and its two queued variants: `mode`
chooses among them in the initial state, `HandOver` is the `process` function
the receiver is given, `Result` its Future, and `phase` how far
`Closable.sequence(receiver, queue, store)` has come. `deadline` is the argument
of `close`: `Time.Bottom`, which waits for nothing, or one that leaves time.

**ScribeCollector** adds the thrift service. One item is one attempt of a
client to log a batch; `request` is the server's side of it and `seen` the
client's, so that a lost connection separates the two and the client tries
again. Decoding is abstracted to which entries of a batch have a known category
and decode (`Spans`).

**KafkaCollector** adds the stream threads. The `try` is around the whole
`foreach`, so any exception ends a stream (`StreamEnds`); `close` passes a point
in time where a duration is expected, so the receiver is closed at once
(`Time.Bottom`) or when every stream has ended.

**ZkClient** is the data-node part of the ZooKeeper client, request by request,
for several calls on one path. `pc[c]` says which request of a call is
outstanding, `level[c]` which component `ensurePath` is at; `created` and `data`
are ZooKeeper's nodes, `armed` the one-shot watches it will fire and `local` the
`Var` of each `ZkWatch`. `setData` becomes `SetDataCalled`, then one of
`SetDataReturns`, `SetDataNoNode` (which goes through `ensurePath` to
`CreateLeafReturns`), `SetDataRetries` and `SetDataFails`. `ensurePath` is two
requests per component (`ExistsReturns`, `CreateReturns`), so that others come
in between. `watchData` is a loop of `GetDataReturns` and `WatchFires` that ends
when closed or when a request fails. A request that fails may have been carried
out; a write carries the name of its call so that it can be recognised.

**AdaptiveSampler** puts several collectors around the two shared nodes. Each
has what its process has: copies of the nodes that lag behind (`rateRead` is what
the watch has read and not yet put into `rateSeen`), the flow it measured, the
ring buffer, the cooldown permit, the leader flag, and whether its `groupData`
loop still runs. `Pulls` is one round: read the members, push the sum, pass the
chain of checks, and send the new rate, which arrives later (`WriteLands`) or
never (`WriteFails`). A round of which a request fails is the last one of the process
(`PullFails`). The four checks are kept exactly; the arithmetic is kept as
far as 0 and not 0 go (`NewRates`), since the properties tell no other rates
apart. `LosesSession` and `Restarts` are the two ways a collector departs; either
can stop the pulling of those who are reading the group just then (`MidPull`).
The data nodes are taken as linearizable here; `ZkClient` is what happens inside.

**CassandraStore** turns each call of `apply` into a set of statements that are
sent at once (`Sends`), land in any order (`Lands`) and fail one by one
(`Fails`, which may have been carried out). `outcome[c]` is the joined Future.
`interval` is the one field `cacheInterval` of the `ThreadLocal`, `written[t]`
the thread's own set of names, `seen[t]` the value of the field the thread saw
last, since the field is not volatile. A batch with a blank service name makes
`apply` throw half way (`ApplyThrows`), so does a refused service-name
statement (`ApplyBreaks`); any other refused statement is a failed Future
(`ApplyRefused`). `IndexRow` is an upsert under the primary keys of the schema.
The history `lost` names what the cache has kept out of the tables.

**TracePage** is the page of one trace. `span[id]` holds the counters of
`spans[id]` (`openParents`, `openChildren`, `inFilters`) and how the element looks;
`looked` are the services whose list of ids was turned into elements;
`timers` is the queue of what `showSpinnerAround` puts off by 100 ms. A trigger
runs every listener before it returns, so a click is one action
(`UserActs`) and what it puts off another (`TimerFires`), which may come after
other clicks. Dragging on the time axis is its three mouse events; a selection of
exactly the whole trace is left out (`RangeAssumption`), as its labels say what those of
none say.

**IndexPage** and **DependencyPage** are the other two pages: a request per
selected service whose answers come in any order or not at all, the list of
traces with tags and sort order; the graph of links, its marks under the
pointer and the modals that walk along it. **SearchPages** puts the two together and
states what both owe to the user.

**FlightComponents** maps one record to the next, since a listener may call
`attachTo`, `teardown`, `off` or `trigger` while the event that called it is still
being delivered. **FlightUtilities** is what flight lends to others: `debounce` and
`throttle` with timers that fire late, and the log filters, which go through the
browser's storage as text.

**DatePicker** keeps which of the shown, the focused and the last selected date
are one object (`viewIsLast`, `focusIsView`), because JavaScript's dates are
changed in place; **Calendar** has its arithmetic as functions, checked for
every end of a month of a leap year, of another one and of 1900. The module ends with
DateRangePicker (`RangeSpec`), a row of pickers whose dates are kept in order (`DateUpdated` moves the others along).

**ModuleLoader** is one context of require.js: what one browser event sets off
runs to its end through a stack of calls (`Do`), which an uncaught error cuts
short. The scripts, factories, shims and fallback paths are the constant
`Worlds`. **ModuleNames** is the way from a name to an id and a url while the
configuration changes.

**GraphStore** is graphlib's graph with its indexes and its hierarchy, one action
per method; a method that throws halfway leaves `broken` set and ends the use of
the object. **GraphAlgorithms** has graphlib's algorithms and binary heap,
and at its end what they should compute, by definition. `FilterNodes` runs
whenever the search for kept ancestors ends (`SearchEnds`), and fails where it would
make a node its own parent.

**DagreRank**, **DagreOrder**, **DagreLayout** are the layout, an action per pass
and one per exchange of network simplex and per sweep of the ordering
(`phase` names the last one done). The spanning tree keeps `low` and `lim` as the
code does: `computeLowLim` writes those of the nodes its root leads to, the others
keep the numbers of an earlier tree, or have none, and `inSubtree` compares
whatever it finds. An exchange without an edge that can enter throws (`failed`), and so
does one whose edge closes a cycle in the tree, in which `redirect` or the numbering
recurs until the stack ends. **DagreConstraints** ranks under the wishes
`min`, `max` and `same`. Barycenters are exact fractions, coordinates quarters.

**D3Redraw** draws again and again, with the data join (`Bind`, `Enter`), transitions
in and out, over the one queue of `d3.timer` (`Frame` is a frame of the browser,
`Elapse` the clock). **D3Gestures** is the zoom behaviour with a mouse and three
fingers. **D3Drags** is what else the pointer takes hold of: the brush with its
keys, the program's calls and its transition, where `arrays` are the arrays of two
numbers that `xExtent`, `__chart__` and a transition refer to and may share; and
nodes that are dragged while the force layout runs: the bits of `fixed`, the drags
that listen, and how often the tick is in the timers' queue.
**RedBlackTree** is the tree below the Voronoi sweep, **QuadTree** the quadtree,
one insertion a step.

### External code

Not in `src/`, and modelled from how `src/` uses it: `Future.join` is done when
all parts are and fails when one does; `Closable.sequence` goes to the next part
when the one before has succeeded and stops at a failure; closing a ThriftMux
server lets requests under way finish until the deadline; a Kafka stream's
iterator blocks while there is no message (`consumer.timeout.ms` is -1);
`ArrayBlockingQueue` is linearizable. Cassandra carries out a statement, fails it
or does both. ZooKeeper is linearizable, a watch is armed
together with the read and fires once, an ephemeral node goes with its session;
twitter-commons' `Candidate` elects at most one session at a time and tells
each process of its election and its defeat some time after; `Group` rejoins
with the data its supplier gives. The clients of scribe and the store behind
`process` (which may succeed, fail, never complete when an await is bounded, or
throw) are the environment. For the scripts it is the browser: events are
delivered one at a time and bubble, timers fire no earlier than asked,
`$.ajax` answers or does not, a script tag loads or fails.

## 3. Runs

A property of a run is usually a conjunction of named parts, each stated and
commented on its own in the component's module: `ItemsKept` is `TypeOK`,
`HandedOverOnce`, `DrainedOnClose` and `Accounting`; `PagesShowAnswers` joins
the two pages of `SearchPages`, `GesturesRight` the brush and the drags of nodes,
`PictureRight` redrawing and zooming, `PagesAreAssembled` flight's components, the
loader and its names. `WebPages` and `WebLibs` hold several components which do not interact:
`part`, chosen in the initial state, says which one moves, and a conjunct speaks of
its own part. In the same way `mode` chooses among the collectors' variants.

| run | instance | question |
|---|---|---|
| ItemQueue | 3 calls, 2 workers, 2 slots; await timeouts, fatal errors | conservation, draining, bookkeeping; store calls limited by workers and failures; refinement of BoundedHandoff, with its liveness as long as no thread dies |
| ItemQueueStranded | 2 calls, 1 worker | violation: an accepted item outlives a completed close |
| Scribe | 2 batches, one sent twice, 1 slot; all modes, timeouts, fatal errors, both kinds of close | what the queue keeps, answers, duplicates, order of closing |
| ScribeLive | 3 batches, one of them with nothing to store | every request is answered, the collector closes |
| Kafka | 2 streams of 2 messages, one undecodable, 1 worker | order, loss, back-pressure, closing; the topic is consumed and close completes |
| ZkClient | 2 writes, 2 watches, path of 2 components, 2 faults | who succeeds, what an answer means, what a watch comes to show, termination |
| ZkLostWrite | 2 writes, 1 watch, no faults | violation: a write to a missing node is reported and not made |
| Sampler | 2 collectors, window of 2, 3 events | who leads and writes, when a rate is calculated, 0 stays |
| Cassandra | 3 calls, 2 threads, 2 hours, 1 failure | what an acknowledged span leaves; which names are listed |
| WebPages | eleven parts, see below | the pages show what was asked for, flight's listeners, dates, names and the loading of modules, spinners and loads that end |
| WebLibs | nine parts, see below | the graph store, the layout, rank constraints, the two trees, redrawing with transitions, gestures, drags and the brush |
| SimplexRanks | 7 graphs of 6 to 8 nodes, with simplex and without | violation: network simplex leaves an edge within a rank |

**Bounds of the server side.** Three callers already fill a queue of two slots,
two workers already overlap (a worker polls while the other holds an item, one
dies while the other drains), and a third call is one that finds the queue full
while another is between the flag and the offer. `ItemQueue` awaits with a
timeout, which only adds steps; without one awaits are part of `ScribeLive` and `Kafka`.
With the blocking queue its invariant is checked in `Scribe` (`QueueKept`). `Kafka` has one worker: the order of the topic is strict then. That
with several only a message between `poll` and `process` is overtaken is proved
(`StreamsAreKept`), not run, since the liveness of two workers and four messages is
beyond the time of a run. `FullCap`, zero in the runs, stops the `queueFull`
counter of the blocking queue, which counts every wake-up and would otherwise
make the state space infinite; nothing reads it. `MaxAttempts` bounds a client's
retries at two: a duplicate needs two. In `ZkClient` a path of two components has an
inner node and a leaf, and two faults let one request fail while another is
repeated (`MaxFaults`); a third of either adds length and no new case. In the
sampler `MaxEvents` bounds what comes from outside (flow reports, operators'
settings, sessions lost, restarts, failed rounds of pulling) at three: a flow must be reported before
anything is calculated, an operator's change then meets a write under way, and a
departure meets both. Rates are 0 and 1, flows 0 and 1; one target suffices,
because a copy that is not read yet already stands for a target of 0. A window of
two is full one pull after `SufficientWindow` is reached. In `Cassandra` one
failure meets every statement at every moment, one hour more outlives both an
interval and the names, and one bucket is the worst case for rows that overwrite
each other; a third call finds what the first two left. The proofs need none of
these bounds.

**Bounds of the browser side.** The trace is a root, a child and a grandchild that
is of the root's service again, so that filters, expanders and parents all count
for the same span; `MaxActs` of four lets two late callbacks meet two more clicks.
The index page has three traces, two services with the same id and four filter or
sort events (`MaxTags`), and two changes of the service (`MaxChanges`), enough for
answers in the wrong order. flight has three objects, two elements inside each
other, and handlers that take down or attach during the event (`MaxObjects`,
`MaxBinds`, `MaxOffs`); a timer is up to two units late (`MaxLate`) with an
interval of three and a clock of 14 (`MaxTime`), so that a call falls before, on
and after every edge. The picker has three kinds of options and four dates at the
ends of months; a range has three dates of four days, with limits that differ; the loader's worlds are the application in small, two cycles, two
modules of which scripts, factories and paths fail, and scripts that define a
module twice; `MaxStamps` and `MaxModules` bound the names that are under way.

The layouts are those of every graph of three nodes with at most three of the nine
edges, loops and opposite edges included, of four nodes and two to six edges of
six, of two ranks of three with six crossing edges, of seven numberings of
a graph that needs exchanges of network simplex, and of the seven graphs of `Misled`,
each with simplex and without; graphlib's algorithms are compared with their
definitions on the graphs below six nodes. The graphs of `Misled` are those on which
simplex works with a tree its root leads to a part of: with nodes that have no number
(`Partial`), numbers of an earlier tree (`Stale`), an edge that ends leading up
(`Upward`) or within a rank (`Beside`), a cycle in the tree (`Closing`), no edge to
enter (`Lacking`), and exchanges that repeat for ever (`Endless`). `MaxExchanges` ends
the last one at four; no other input makes more. The store has two ids (`MaxId` bounds those it draws): a node can be the
parent of the other, of itself, and both of each other. The constraints are all
wishes of three nodes in or outside of a fourth. The tree has up to eight nodes
(`MaxTreeNodes`), which reach every case of the removal. Redrawing has two elements and
three draws or interrupts (`MaxDraws`), which is one drawn, leaving, and drawn again;
`MaxGestures` of two overlap a mouse and two touches in any way, with a third finger;
`MaxBrushings`, `MaxCalls` and `MaxInputs` let the program set the extent
between the steps of a gesture and of a transition, and the pointer stops (`Stops`)
in the brush's range and beside it; five `References` are as many as can be kept,
and one for a new array. The force layout has two nodes, a
mouse and two fingers, three drags (`MaxDrags`), two stops (`MaxStops`) and cools down
in two ticks (`Heat`): two drags of one node overlap in any way, and the timer can be
queued three times. The quadtree is made from up to two of six places (`MaxData`) and
grows to four (`MaxPoints`): places that are close, that need several quarterings, and
outside of the square.

**Fairness.** Threads run: weak fairness of each worker's step, of each caller
that has begun `add`, of each request being served and of each stream thread.
`process` returns, and when the await is unbounded the Future it returned is
completed (with a bounded await no such assumption is made in `ItemQueue`). Nobody
is obliged to call `add` or `close`, clients need not send, and connections need not
break. In `ZkClient` ZooKeeper answers each request and delivers each event of a
watch, and faults come to an end (`MaxFaults`); nobody is obliged to call or close.
In the browser timers that are due fire (`SpinnersFire`, `TicksCome`,
`WatchesFire`), a script that was asked for loads or fails (`ScriptsEnd`), the clock
goes on (`TimeElapses`) and frames come (`FramesCome`); no user is obliged to act.
The properties of the sampler and of the Cassandra store are safety properties
and assume no fairness.

Deadlock checking is off in every run: a collector whose clients are done, or
which is closed, stops, and so does a page nobody uses.

**Violations.** `ItemQueueStranded`: the flag is checked before the offer, so an
item can be accepted after the last worker has gone. `ZkLostWrite`:
`ensurePath` has already created the leaf, empty, when `create` with the data is
called, and `create` forgives `NodeExistsException`; the first `newRate` sent to a
fresh installation is answered with "Rate changed" and written nowhere, unless
somebody's watch has created the node before. `SimplexRanks`: `dagre-d3.js:2510-2512` has the
ranks respect `minLen`; with `rankSimplex`, which is off by default (1349) and which the
pages do not set, an edge ends within a rank. Tight edges found from their
target lead towards the root of the tree, so that the root may lead to some nodes only,
and the numbering, the cut values and `adjustRanks` follow the tree's edges downwards.

### Found on the way

These are behaviours of the code as it is, which the properties have to name as
exceptions or which the models show. The collectors:

- `add` after `close` is not refused by a blocking queue, whatever `QueueClosed`
  says. With a finite await timeout (the default of 30 seconds) a worker gives up on
  a store call that goes on, so more than `maxConcurrency` calls can be outstanding
  (one more for each failure counted, says `ConcurrencyLimited`) and the store
  can be closed under one (the exception in `StoreClosedLast`). A caller asleep in
  a blocking queue whose threads have gone is never woken for good (the exception
  in `EveryRequestAnswered`).
- A `QueueFullException` of an `ItemQueue` that is full for a moment ends a Kafka
  stream for good (`KafkaStreamProcessor.scala:17-20`). With idle streams a Kafka
  collector closed with a deadline does not close (`ClosesOnceStreamsEnd` says
  when it does).
- A request of a round of `groupData` that fails, or a member that leaves between the
  listing of the group and the reading of its data, makes the round's Future fail, and
  the loop that pulls the flows is not started again (`ZooKeeperClient.scala:249-258`).
  A leader keeps leading after that, and the rate is adjusted by nobody.
- The five statements of `ItemQueue.loop` (63-69) run among those of other threads: the
  statistics do not add up while one is between two of them (the terms of `Accounting`
  that count `polled` and `counted` threads), and a stream's messages can reach the store out of order
  when several workers take them (the exception in `TopicOrder`).
- In the Cassandra store a name whose write failed stays marked as written, and
  the set of a thread that never is the first to notice a new hour is never
  emptied: its names expire although spans with them keep coming.
  `NamesListedUnlessLost` says that nothing else loses a name; `SpanStore.scala:64`
  promises all of them. Two traces with a span of the same service and microsecond
  share an index row, and the last one keeps it (the exception in `AckedIsFound`).

The scripts (paths below `zipkin-web/src/main/resources/app/`):

- Trace page: Expand All before every service was filtered throws at an assignment
  to a list of ids and leaves `actingOnAll` set, so that filters do nothing
  until Collapse All (`js/component_ui/trace.js:277-313`).
- Index page: tags are looked up by an id made of the service's name, and `find('#...')`
  finds the first one only (`js/component_ui/traceFilters.js:39`). Of two services
  with one id the other's tag may go, and a tag stays whose filter is gone; clicking
  its x removes nothing more (the exception in `TagsNameFilters`).
- flight: `off` takes the first bound version of a function, whatever element and
  type it was bound for (`base.js:156-167`); `off` by the original leaves a stale entry
  in the registry, whose loops also skip the element after each one they remove
  (`registry.js:98-105`, `189-203`); a second `initialize` loses the first's entry.
- Date picker: the shown date is the selected one after Enter, Escape or Tab
  (`bootstrap-datepicker.js:1126`, `1198`, `1209`), and a click on a month or a year
  changes it in place without `changeDate`; arrow keys test the selected date
  against the limits and move the focused one; Enter tests nothing.
- require.js: after a time-out (682-687) `inCheckLoaded` stays set; an errback of
  one request keeps the error of another from the console; modules of a cycle with
  errbacks pass an error around until the stack overflows (746-750, 1154-1164);
  ids with dots that leave the root stay unresolved, so that one script has
  several ids; a package configured after its module was asked for is fetched twice.
- graphlib: `delEdge` of the only loop of an undirected graph throws halfway
  (`dagre-d3.js:4159-4162`), so does `delNode` where two nodes are each other's
  parent (4794-4806). dagre: `reverse = false` stays after a loop edge (2766-2769,
  2794-2797), so a later edge of a constrained node is not turned; an edge inside a
  merged node leaves a dummy without edges. With `rankSimplex` ranks can be wrong as in
  `SimplexRanks`, `enterEdge` can throw "No edge found", the recursion over the tree can
  be endless, or the loop of exchanges (3064-3069); the id of a tree's edge is compared with
  those of the graph's (3247, 3257), though the two count on their own; `reversed` is
  set and not toggled (2614, 2667), so an edge that acyclic turns and `reorientEdges`
  turns again after a simplex ends the wrong way round (what `NoneTurned` sets aside).
- d3: a transition that waits longer than one begun later keeps the element from
  being removed (`d3.js:8077-8082`); `interrupt` twice cancels the next
  transition; a listener that throws in a frame stops all timers (2064-2076). The zoom
  behaviour: a second button takes the listeners of the first drag, which
  never ends; of three fingers one lifted leaves the distance of the other two stale
  (1402-1436). The brush: an alt-key move leaves the origin at the end it was;
  with the space bar afterwards the extent leaves its range in spite of clamping.
- d3's drags: lifting any finger ends the drags of all (`d3.js:1162-1168` asks for no
  identifier); of two that overlap the one that ends last can put back the style it
  found during the other, and the page's text stays unselectable; a second mouse
  button takes the listeners of the first drag, whose node stays fixed. `stop` and
  `resume` within a frame leave two timers of the layout (5776-5789), which then
  runs twice as fast and says "start" and "end" twice. The quadtree: two points
  beyond the extent on the same side are never parted, and the insertion ends with
  the stack (5031-5058).
- Date range: `new Date(undefined)` is an object, so that pickers without a date are
  never filled (`bootstrap-datepicker.js:1291-1294`), and a date picked while
  another is missing may leave the row out of order; a date that is deleted by
  hand is not heard of, and can come back.

## 4. Proofs

`CollectorProofs` proves about the queue and the blocking queue, for any finite
sets of items and workers and any capacity:

- `Invariance`: `Spec => []IInv`, where `IInv == TypeOK /\ Shape /\ Counting`.
  The properties are not inductive alone. `Shape` ties the program counters to
  the data: a thread holds an item exactly from `poll` until it lowers the gauge, or for ever
  if it dies; a held item was accepted, and has been passed to `process` unless its thread
  is between `poll` and `process`; an item is in at most one place; everything enqueued before close is still queued, held or settled, a thread leaves its
  loop only when the queue is closed and empties of the early items. `Counting`
  counts with cardinalities: the gauge is the number of threads between its two updates,
  the dead among them, and what was accepted is what is queued, polled, in the
  gauge and counted, less what is counted and still in the gauge.
- `TypeCorrectness`, `HandOverIsOnce`, `AwaitsToTheEnd`, `CountersAddUp` follow;
  `CloseDrains` also needs `Workers # {}`: with no worker the close Future is
  done at once and nothing is drained. `ItemsAreKept` joins them into the
  property of the run.
- `StoreCallsAreLimited`: an item being processed is held by a worker of its own or
  was given up on; without a timeout (`AwaitsToTheEnd`) there are none of the latter,
  with one each was counted as a failure (`AbandonedCounted`, by induction).
- `Refinement`: with at least one worker `Spec => KeepsPromise`; initial states
  map to initial states and each action to a step of `BoundedHandoff` or a
  stutter.
- `Blocking...`: the same invariant, and from it the same theorems, under the
  overridden `add`.

The same module then takes the invariant through the three collectors
(`CollectorInv`): in front of a queue it is `IInv` with `PhaseInv`, which ties how
far the closing sequence has come to the queue's Future; in a collector without a
queue it is `DirectInv`, that nothing is ever queued, held or counted. Each
action of `Collector` keeps it (`HandOverFacts`, `ProcessMoves`, `BackgroundFacts`,
`CloseFacts`), `ResultIsFinal` says that the Future a receiver waits for does not
change once it is done, and `DrainedWhenClosed` what a closed queue owes to what
was accepted before. The attempt to prove `ResultIsFinal` showed that two arms of the
CASE in `Result` overlapped for a queued item whose store call failed, which TLC had
decided by taking the first; the last three arms now ask for the direct mode.

`ScribeCollectorProofs`, for any number of batches, attempts, workers and slots; the
attempts at a batch are numbered without gaps (`AttemptsAssumption`):

- `AckedAreStored`, `TryLaterIsHonest`, `StoreIsClosedLast`. `ScribeInv` adds to
  `CollectorInv` that an answer a client has seen was given (`RequestInv`), what each
  answer says of the `process` call behind it (`AnswerInv`), that an attempt is
  made only after all earlier ones went wrong for the client (`RetryInv`), and that
  after a receiver that had time no request is under way and everything accepted was
  accepted before the queue closed (`QuietInv`). Without `RetryInv` a batch could
  be accepted twice with no answer lost: nothing else says why a client tries again.
  The first and the last need `Workers # {}`, as `CloseDrains` does.

`KafkaCollectorProofs`, for any streams; a message stands at one place of one
stream (`TopicAssumption`):

- `StreamsAreKept`, `BlockingReadsOn` and, with at least one worker,
  `StoreClosesQuietly`. That messages reach the store in the order of the topic
  but for what a thread holds between `poll` and `process` is inductive only together with
  `QueueOrder`, that they stand in the queue in that order and behind what was polled,
  `StreamInv`, that nothing beyond a stream's position was handed on, and
  `WaitsForStore`, that a stream without a queue waits for the store.

`CassandraStoreProofs`, for any number of calls, spans and threads and any times;
the time of a span that is indexed is a natural number (`TimeAssumption`):

- `CassandraTypeCorrectness`, `AckedCallsAreFound`, `NamesAreListed`. `FoundInv` and
  `NamedInv` say of a call that may yet end well, and not just of one that has, that
  each row and name is there or on its way; `FoundInv` looks for the row of the
  span's own time, because another row that the query would find may still go to
  another trace; `MarkedInv` says the same of every name a thread has marked, which is what
  a call that skips the write relies on; `SentInv` says that a call that is over has
  nothing under way.

`ZkClientProofs`, for any number of calls, depth and number of faults:

- `ZkInvariance`: type correctness, that a call of `setData` is in `ensurePath` or
  `create` only after it met a missing node (`MissedOnTheWay`), and the two
  properties below; without `MissedOnTheWay` the answer of a call on that way is
  not accounted for.
- `CreatorsSucceed`, `AckedWritesAreMade` follow; `EnsuringIsHarmless` is the
  action property, step by step.

`AdaptiveSamplerProofs`, for any number of collectors, any window, flows and
targets:

- `SamplerInvariance`: until a departure, whoever takes itself for the leader or
  has a rate under way is the one elected (`ElectedAlone`); without `elected` the
  agreement of two leaders is not inductive.
- `OneLeader` follows. `ZeroRateStays` is an action property: it needs from the
  invariant that copies are rates, and from `CalculatedRates` that a collector
  that has seen 0 calculates nothing.
- `ShortWindowsAreInvalid`: a buffer that is not full still ends with the 0 it began
  with (`BufferInv`), because a sum goes in front and only a full buffer drops its
  oldest; the check for valid data wants every element positive.
- `SamplerTypeCorrectness`: what is pushed is a natural number, because the group is
  finite at any time (`SamplerInv`) even if there are infinitely many collectors.
  The sum is a fold over a set, and nothing says of itself that such a recursive
  function exists and what it ranges over: `SumExists` and `SumIsNumber` prove both,
  by induction over the number of members (see below).

`WebPagesProofs`, for every trace and any sequence of the user's actions and late
callbacks:

- `WantedSpansAreShown`: a span that a filter, a child or a parent wants is
  shown. `SpanInv` adds only that the counters are integers; the work is in the
  operations, each of which changes the counters of a whole list of spans and then
  looks at them: a lemma says of each that it keeps `SpanInv` whatever list it is
  given, an Expand All that throws and the reset of Collapse All included.
- `TraceIsShown`: all of `TraceShowsChoices`. Five invariants carry it. `LateInv`: the
  spinner counts what waits, and what waits is a filter of the page or a range.
  `ZoomInv`: the last zoom that waits draws what the labels say, unless one overtook it.
  `FilterInv`: the count of the button is the number of labels, so that in a list
  of additions the total is passed exactly when the last label is tagged; and while
  Expand All is stuck some service was never looked up. `SpanInv` as above. `TidyInv`, for
  pages where filters are only added when absent and removed when present: the
  callbacks of one service take turns, each undoing the one before it, and the last one
  leads to what its label says (`Alternate`); the counters of a span are the number of
  times the filters in force touch it, its parent and its descendants (`ViewOf`, where
  `Count` is the cardinality of a set of touches, so that a service found twice counts
  twice, and the span the page opens with is one filter more). The view alone is not
  inductive: that a callback finds its filter in the opposite state is what the turns
  say. `BarsClip` is the arithmetic of the eight cases of a bar.
- `SearchPagesShowAnswers`: both of the other pages, for any services, traces and links,
  and answers in any order. `NamesInv`: as long as the answers come in the order of the
  requests, the requests that wait are exactly the newest ones, after the one whose
  names are listed; that none waits, of which the property speaks, says nothing of the
  steps before. `ListInv`: no filter is twice in the list, or taking one off
  (`SplicedList`) would leave it there. `TagsNameFilters` counts tags of one id against
  filters of that id, because a click takes the first tag of the id off, whichever it is. `WalkInv`: a modal shows a link or a service
  of the present answer, at most one modal at a time; `MarksInv`: the marks are all of
  one service or all of one link. The widths of the links need a least and a greatest
  count of calls to exist (`LeastNumber`, `GreatestNumber`).
- `FlightUtilitiesHold`: for any interval and timers as late as they like.
  `ThrottleInv`: the quiet timer is never due before the later one, neither is due
  within the interval after a run, and a call that was put off has armed the later
  one; so that however late both are, the later one fires first and arms the other
  anew. `DebounceInv` has one timer, due an
  interval after the last call. `LogInv`: what is stored is what `Written` makes of
  the filter, and writing twice is writing once (`WrittenOnce`), so that a second reload
  loses nothing more than the first.

`WebLibsProofs`, for any ids, stops, nodes and fingers, and a range of any length:

- `StoreStaysConsistent`: the indexes of edges by their ends, the edges and the
  hierarchy agree after any sequence of calls. The invariant is `StoreTypeOK` and the
  property itself; `filterNodes` runs whenever its search for kept ancestors ends (in a cycle of
  which none is kept the code does not return), and then gives every
  node that is kept one parent that is kept or the root.
- `DragsHoldTheirOwn`: the brush and the drags of nodes. The extent is an array that
  others may refer to and that a move changes in place, so `BrushInv` speaks of all
  that is kept: `RangeInv`, that not only the extent but what `__chart__` keeps and
  what a transition starts from and goes to are in the range; `GlideKept`, that a
  transition goes to what `__chart__` keeps; `HeldInv`, what a gesture holds is an end
  of the extent or its size; `DomainInv`, that the numbers a transition will give back
  are those of where it goes. The attempt found the history `meddled` too weak: it
  was forgotten at the next `brush.extent`, though `__chart__` could keep what
  came of it, and a later transition would begin there; and four references were one
  too few, since four can be in use when a new array is made (`FreshIs`). `ForceInv`: a layout that has cooled down has
  at most as many places in the timers' queue as there were calls of `stop` (`TicksInv`),
  one less than a hot one may have, which is why `resume` can add one; and a
  drag that was alone all the time keeps the style to put back (`SelectInv`).

Induction. The library's theorems of induction take the property as an operator, which
these provers do not instantiate; but the theorem that a well-founded relation has a
minimal element takes it as a set. `Induct` is derived from that (`BelowIsWellFounded`,
`MinimalMember`), in `WebPagesProofs` and in `AdaptiveSamplerProofs`, and proves what
needs only the naturals: that finite sets of numbers have bounds, and flows a sum.

Constants carry the assumptions named in their modules (`SizeAssumption`,
`ZkAssumption`, `TraceAssumption` and the like), which TLC evaluates in the runs.

Only model-checked: everything about fairness (`KeepsPromiseFairly`,
`EveryRequestAnswered`, `ShutdownCompletes`, `TopicConsumed`, `ClosesOnceStreamsEnd`,
`WatchConverges`, `SetDataTerminates`, `SpinnerGoesAway`, `LoaderAnswers`,
`TransitionsEnd`), since the prover has no rules for `ENABLED`; and what recursive
operators and folds over sequences compute: `LayoutRight` (the passes of the layout),
`StructuresRight` (graphlib's algorithms and the two trees), `DatesAgree` (the
calendar under the pickers), `PagesAreAssembled` (flight's listeners, which are removed
while they are called, and the loader's stack of calls) and `PictureRight`
(`RedrawRight`: a frame folds the steps of all transitions; `GesturesHold`: scales are
powers of two, of which the prover knows nothing, and places are exact only on the
grid of the run). `TopicConsumed` and `ShutdownCompletes` stay with TLC although the invariants they need are proved.

## 5. What is not modelled

- ZooKeeper client: `createEphemeral` is called by nothing in `src/`. Closing a
  leadership, a group membership or the group's data, and with it the race of
  `close` and `onElected`.
- Adaptive sampler: positive rates and the discounted average are left open, no
  property depends on their values; so are the comparison of the sum of all
  collectors with one flow in the outlier check (`AdaptiveSampler.scala:432`), a
  leader that has not read the target yet (404) and the permit that is used up by a
  write that fails.
- Kafka: offsets are committed on a timer by the library
  (`KafkaReceiver.scala:60`), so a crash loses what is queued.
- Samplers and filters by trace id, the collector service's bootstrap and the
  HTTP handlers: comparisons and wiring. The clock-skew adjustment (one subtree
  at a time, `TimeSkewAdjuster.scala:157`), the trace tree (`Trace.scala:76`), the
  trace-id queries (`QueryController.scala:50`) and the dependency sums are functions
  of their arguments without a state of their own.
- Stores: in memory, a synchronized map. Redis, single commands, though a late span
  moves the score of its trace back (`TraceIndex.scala:29`). SQL: what holds is decided
  by JDBC transactions and the database; a supplied connection is shared by all
  threads (`DBPool.scala:54`), the pool's queue is long before it grows
  (`AnormThreads.scala:26`), and repeated inserts (`AnormSpanStore.scala:42`,
  `AnormDependencyStore.scala:87`) repeat rows. The expiry of Cassandra's spans and the
  limits of its queries.
- Page scripts: `infoButton`, `infoPanel`, `goToTrace`, `backToTop`, and the `page/*.js`
  and `main.js` that attach the components; they hold no state. Styles and positions
  on the screen, but for the bars of the trace.
- flight: mixins and advice, which run once when a component is defined.
- Date picker: the clear button of a single picker, languages, the placing of the popup.
- require.js: loader plugins, several contexts, the interactive scripts of old
  browsers.
- dagre: the ordering of nodes in subgraphs, the paths of edges, conversions from and
  to other formats. The pages use no subgraphs and no constraints.
- d3: scales, layouts, geography, formats and the geometry around the tree of the
  Voronoi diagram: functions of their arguments. The brush, the drags, the force layout and the trees
  are used by no script of the pages; they are modelled as parts of the library.
- jQuery, bootstrap and the other libraries in `app/libs`, minified or general.
- Serialization, thrift and JSON conversions, HTTP parsing, page layout, statistics
  and logging have no state the properties speak of. The trace generator makes
  random data.
