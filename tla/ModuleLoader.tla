----------------------------- MODULE ModuleLoader -----------------------------
(***************************************************************************)
(* One context of require.js, the loader that starts the pages' scripts.   *)
(* What a browser's event sets off runs to its end, through calls that     *)
(* come back to the modules they started from: `c` is the whole context,   *)
(* and the operators take one and give the next.  An error that nobody     *)
(* listens for is thrown, which skips the rest of what the event set off.  *)
(***************************************************************************)
EXTENDS Integers, FiniteSets, SequencesExt

CONSTANTS
  Worlds,      \* what the scripts hold; the fields are explained below
  Anonymous,   \* the name of a define without one
  NoExports
(***************************************************************************)
(* defines[id]  what id's script calls define with: names and dependencies *)
(* calls[who]   the require calls of a factory, a callback or "script id"   *)
(* shim[id]     the dependencies a shim names                              *)
(* spare[id]    how many more paths the configuration has for id           *)
(* broken       the urls that give no script                               *)
(* throws       the modules and requests whose functions throw             *)
(* A url is a module's id and the number of the path it is made from.      *)
(***************************************************************************)

VARIABLES
  world,
  c          \* the context, and a log of what it did

loaderVars == <<world, c>>

Has(f, x) == x \in DOMAIN f
Or(f, x, default) == IF Has(f, x) THEN f[x] ELSE default
But(f, x) == [y \in DOMAIN f \ {x} |-> f[y]]

(* what is to be called next; o is a module's object, x what the call needs *)
Do(op, o, x) == [op |-> op, o |-> o, x |-> x]
Push(d, calls) == [d EXCEPT !.stack = calls \o @]
PushIf(d, cond, call) == IF cond THEN Push(d, <<call>>) ELSE d
Each(s, Op(_)) == [i \in DOMAIN s |-> Op(s[i])]

(* An error thrown ends what is called, up to the end of the script or event *)
Throw(d) ==
  LET i == SelectInSeq(d.stack, LAMBDA t : t.op = "event")
  IN [d EXCEPT !.reported = TRUE, !.stack = IF i = 0 THEN <<>> ELSE SubSeq(@, i, Len(@))]

(* A request's callback loads the script of a shim if `loads` names its object *)
Request(name, deps, errback) == [name |-> name, deps |-> deps, errback |-> errback, loads |-> 0]
NoRequest == Request("", <<>>, FALSE)

NewModule(d, id, request) ==
  LET events == Or(d.undefEvents, id, [onDefined |-> <<>>, onError |-> <<>>])
  IN [id |-> id, request |-> request, url |-> <<id, Or(d.path, id, 1)>>, deps |-> <<>>, args |-> <<>>,
      enabled |-> FALSE, enabling |-> FALSE, inited |-> FALSE, fetched |-> FALSE,
      defining |-> FALSE, defined |-> FALSE, emitted |-> FALSE, emitDone |-> FALSE,
      error |-> FALSE, errback |-> "none",
      onDefined |-> events.onDefined, onError |-> events.onError]

IsDefine(m) == m.request = NoRequest
Who(m) == IF IsDefine(m) THEN m.id ELSE m.request.name
Object(d, id) == d.registry[id]

Register(d, id, request) ==
  IF Has(d.registry, id) THEN d
  ELSE [d EXCEPT !.objs = Append(@, NewModule(d, id, request)),
                 !.registry = (id :> Len(d.objs) + 1) @@ @]
GetModule(d, id) == Register(d, id, NoRequest)

CleanRegistry(d, id) ==
  [d EXCEPT !.registry = But(@, id), !.enabledRegistry = Remove(@, id)]

Load(d, url) ==
  IF url \in d.urlFetched THEN d
  ELSE [d EXCEPT !.urlFetched = @ \cup {url}, !.net = @ \cup {url}]
-----------------------------------------------------------------------------
(* a listener: defineDep and check, the caller's errback, or emit on its own *)
Call(d, cb, value) ==
  CASE cb.kind = "dep" ->
         Push(IF Has(d.objs[cb.obj].args, cb.i) THEN d
              ELSE [d EXCEPT !.objs[cb.obj].args = (cb.i :> value) @@ @], <<Do("check", cb.obj, 0)>>)
    [] cb.kind = "user" -> [d EXCEPT !.failed = @ \cup {d.objs[cb.obj].request.name}]
    [] cb.kind = "emit" -> Push(d, <<Do("emitError", cb.obj, 0)>>)

(* emit.  The listeners are removed when all were called; modules that pass *)
(* errors on to each other in a cycle do so until the stack overflows.      *)
EmitError(d, o) ==
  LET calls == Each(d.objs[o].onError, LAMBDA cb : Do("call", 0, <<cb, NoExports>>))
  IN IF \E i \in DOMAIN d.stack : d.stack[i].op = "unlisten" /\ d.stack[i].o = o THEN Throw(d)
     ELSE Push(d, calls \o <<Do("unlisten", o, 0)>>)

EmitDefined(d, o) ==
  LET value == Or(d.defined, d.objs[o].id, NoExports)
      calls == Each(d.objs[o].onDefined, LAMBDA cb : Do("call", 0, <<cb, value>>))
  IN Push([d EXCEPT !.objs[o].emitted = TRUE], calls \o <<Do("emitDone", o, 0)>>)

(* onError: every module named is in error; without a listener it is thrown *)
Heard(d, ids) ==
  \E id \in ToSet(ids) : Has(d.registry, id) /\ d.objs[Object(d, id)].onError # <<>>

OnError(d, ids) ==
  Push(d, Each(ids, LAMBDA id : Do("tell", 0, id))
            \o (IF Heard(d, ids) THEN <<>> ELSE <<Do("throw", 0, 0)>>))

Tell(d, id) ==
  IF Has(d.registry, id)
    THEN Push([d EXCEPT !.objs[Object(d, id)].error = TRUE], <<Do("emitError", Object(d, id), 0)>>)
    ELSE d

(* on *)
Done(d, id) == Has(d.defined, id) /\ (Has(d.registry, id) => d.objs[Object(d, id)].emitDone)

OnDefined(d, id, cb) ==
  IF Done(d, id) THEN Push(d, <<Do("call", 0, <<cb, d.defined[id]>>)>>)
  ELSE LET got == GetModule(d, id)
       IN [got EXCEPT !.objs[Object(got, id)].onDefined = Append(@, cb)]

ListenForError(d, id, cb) ==
  LET got == GetModule(d, id)
  IN IF Done(d, id) THEN d
     ELSE IF got.objs[Object(got, id)].error THEN Push(got, <<Do("call", 0, <<cb, NoExports>>)>>)
     ELSE [got EXCEPT !.objs[Object(got, id)].onError = Append(@, cb)]
-----------------------------------------------------------------------------
(* init: the dependencies are known; what was enabled before goes on *)
Init(d, o, deps, errback, enabled) ==
  LET m == d.objs[o]
      kind == IF errback THEN "user" ELSE IF m.onError # <<>> THEN "emit" ELSE "none"
      known == [d EXCEPT !.objs[o] =
                 [@ EXCEPT !.inited = TRUE, !.deps = deps, !.errback = kind,
                           !.onError = IF errback THEN Append(@, [kind |-> "user", obj |-> o]) ELSE @]]
  IN IF m.inited THEN d ELSE PushIf(known, enabled \/ m.enabled, Do("enable", o, 0))

CallGetModule(d, def) ==
  LET got == GetModule(d, def.name)
  IN IF Has(d.defined, def.name) THEN d ELSE Init(got, Object(got, def.name), def.deps, FALSE, FALSE)

(* intakeDefines: an anonymous define is nobody's here *)
IntakeDefines(d) ==
  LET def == Head(d.defQueue)
      rest == [d EXCEPT !.defQueue = Tail(@), !.stack = <<Do("intake", 0, 0)>> \o @]
  IN IF d.defQueue = <<>> THEN d
     ELSE IF def.name = Anonymous THEN Throw(rest)
     ELSE CallGetModule(rest, def)

(* localRequire: defines first, the rest in a tick of its own *)
Require(request) == <<Do("intake", 0, 0), Do("ask", 0, request)>>
RequireAll(who) == FlattenSeq(Each(Or(world.calls, who, <<>>), Require))
AskFor(d, request) == [d EXCEPT !.ticks = Append(@, request), !.asked = @ \cup {request.name}]

\* Mutant: the script of a shim does not wait for what it depends on.
FetchAtOnce(d, o) ==
  IF d.objs[o].fetched THEN d
  ELSE Load([d EXCEPT !.objs[o].fetched = TRUE, !.clock = "running"], d.objs[o].url)

(* fetch: a shim's dependencies come before the script *)
Fetch(d, o) ==
  LET id == d.objs[o].id
      begun == [d EXCEPT !.objs[o].fetched = TRUE, !.clock = "running"]
  IN IF d.objs[o].fetched THEN d
     ELSE IF Has(world.shim, id)
       THEN Push(begun, Require([Request("shim " \o id, world.shim[id], FALSE) EXCEPT !.loads = o]))
     ELSE Load(begun, d.objs[o].url)

(* execCb, and what the function itself does: calls to require, or a load *)
Ready(m) == \A i \in DOMAIN m.deps : m.deps[i] # "exports" => Has(m.args, i)

Execute(d, o) ==
  LET m == d.objs[o]
      ran == [d EXCEPT !.runs = Append(@, [who |-> Who(m), deps |-> m.deps, args |-> m.args])]
      rest == <<Do("finish", o, 0), Do("announce", o, 0)>>
  IN IF m.request.loads # 0 THEN Push(Load(ran, d.objs[m.request.loads].url), rest)
     ELSE Push(ran, RequireAll(Who(m)) \o rest)

Finish(d, o) ==
  LET m == d.objs[o]
      given == IF IsDefine(m) THEN [d EXCEPT !.defined = (m.id :> m.id) @@ @] ELSE d
  IN CleanRegistry([given EXCEPT !.objs[o].defined = TRUE], m.id)

Announce(d, o) ==
  LET ended == [d EXCEPT !.objs[o].defining = FALSE]
  IN IF d.objs[o].defined /\ ~d.objs[o].emitted THEN EmitDefined(ended, o) ELSE ended

(* check: `defining` stays on after an error *)
Define(d, o) ==
  LET m == d.objs[o]
      begun == [d EXCEPT !.objs[o].defining = TRUE]
  IN IF m.defined \/ ~Ready(m) THEN Announce(begun, o)
     ELSE IF Who(m) \notin world.throws THEN Execute(begun, o)
     ELSE IF IsDefine(m) /\ m.onError # <<>>
       THEN OnError([begun EXCEPT !.objs[o].error = TRUE], <<m.id>>)
     ELSE Throw(begun)

Check(d, o) ==
  LET m == d.objs[o]
  IN IF ~m.enabled \/ m.enabling THEN d
     ELSE IF ~m.inited THEN Fetch(d, o)
     ELSE IF m.error THEN EmitError(d, o)
     ELSE IF m.defining THEN d
     ELSE Define(d, o)

(* enable: one dependency after the other is listened to and enabled.  The  *)
(* exports object of a module is what it is defined as before it is defined. *)
Enable(d, o) ==
  LET id == d.objs[o].id
      wires == [i \in DOMAIN d.objs[o].deps |-> Do("wire", o, i)]
  IN Push([d EXCEPT !.enabledRegistry = IF Contains(@, id) THEN @ ELSE Append(@, id),
                    !.objs[o].enabled = TRUE, !.objs[o].enabling = TRUE],
          wires \o <<Do("enabled", o, 0), Do("check", o, 0)>>)

Wire(d, o, i) ==
  LET dep == d.objs[o].deps[i]
  IN IF dep = "exports" THEN [d EXCEPT !.defined = (d.objs[o].id :> d.objs[o].id) @@ @]
     ELSE OnDefined(Push(d, <<Do("hear", o, dep), Do("start", 0, dep)>>), dep,
                    [kind |-> "dep", obj |-> o, i |-> i])

Hear(d, o, dep) ==
  IF d.objs[o].errback = "none" THEN d
  ELSE ListenForError(d, dep, [kind |-> d.objs[o].errback, obj |-> o])

StartModule(d, dep) ==
  IF Has(d.registry, dep) /\ ~d.objs[Object(d, dep)].enabled
    THEN Push(d, <<Do("enable", Object(d, dep), 0)>>) ELSE d
-----------------------------------------------------------------------------
(* undef, and hasPathFallback: the next path is tried by a request of its own *)
Undef(d, id) ==
  LET m == d.objs[Object(d, id)]
      forgotten == [d EXCEPT !.defined = But(@, id), !.urlFetched = @ \ {<<id, d.path[id]>>},
                             !.undefEvents = But(@, id),
                             !.defQueue = SelectSeq(@, LAMBDA def : def.name # id)]
      events == id :> [onDefined |-> m.onDefined, onError |-> m.onError]
  IN IF ~Has(d.registry, id) THEN forgotten
     ELSE CleanRegistry([forgotten EXCEPT !.undefEvents =
                           IF m.onDefined # <<>> THEN events @@ @ ELSE @], id)

HasFallback(d, id) == Or(d.path, id, 1) <= Or(world.spare, id, 0)
PathFallback(d, id) ==
  Push(Undef([d EXCEPT !.path = (id :> Or(@, id, 1) + 1) @@ @], id),
       Require(Request("retry " \o id, <<id>>, FALSE)))

(* breakCycle: what leads back to a module being traced is given as it is *)
BreakCycle(d, o) ==
  LET m == d.objs[o]
      follows == [i \in DOMAIN m.deps |-> Do("follow", o, i)]
  IN IF m.error THEN EmitError(d, o)
     ELSE Push([d EXCEPT !.traced = @ \cup {m.id}], follows \o <<Do("processed", 0, m.id)>>)

\* Mutant: a module met again on the way is left alone, so no cycle ends.
FollowOnce(d, o, i) ==
  LET dep == d.objs[o].deps[i]
  IN IF ~Has(d.registry, dep) \/ Has(d.objs[o].args, i) \/ dep \in d.processed \cup d.traced THEN d
     ELSE Push(d, <<Do("break", Object(d, dep), 0)>>)

Follow(d, o, i) ==
  LET dep == d.objs[o].deps[i]
  IN IF ~Has(d.registry, dep) \/ Has(d.objs[o].args, i) \/ dep \in d.processed THEN d
     ELSE IF dep \in d.traced
       THEN Call(d, [kind |-> "dep", obj |-> o, i |-> i], Or(d.defined, dep, NoExports))
     ELSE Push(d, <<Do("break", Object(d, dep), 0)>>)

(* checkLoaded: a scan of the modules enabled, to the first still loading *)
NoScan == [reqCalls |-> <<>>, noLoads |-> <<>>, stop |-> FALSE, loading |-> FALSE, again |-> FALSE]
Expired(d) == d.clock = "expired"

CheckLoaded(d) ==
  IF d.inCheck THEN d
  ELSE Push([d EXCEPT !.inCheck = TRUE, !.scan = NoScan],
            Each(d.enabledRegistry, LAMBDA id : Do("look", Expired(d), id))
              \o <<Do("decide", Expired(d), 0)>>)

Look(d, id, expired) ==
  LET m == d.objs[Object(d, id)]
      seen == IF IsDefine(m) THEN d ELSE [d EXCEPT !.scan.reqCalls = Append(@, Object(d, id))]
  IN IF d.scan.stop \/ ~Has(d.registry, id) THEN d
     ELSE IF m.error \/ m.inited THEN seen
     ELSE IF ~expired THEN [seen EXCEPT !.scan.loading = TRUE, !.scan.stop = TRUE]
     ELSE IF HasFallback(d, id)
       THEN PathFallback([seen EXCEPT !.scan.again = TRUE, !.scan.loading = TRUE], id)
     ELSE [seen EXCEPT !.scan.noLoads = Append(@, id)]

(* ... then cycles are broken; with a timeout to tell, inCheckLoaded stays on *)
Decide(d, expired) ==
  LET breaks == Each(d.scan.reqCalls, LAMBDA o : Do("trace", o, 0))
      waits == (~expired \/ d.scan.again) /\ d.scan.loading
  IN IF expired /\ d.scan.noLoads # <<>> THEN OnError(d, d.scan.noLoads)
     ELSE Push(d, (IF d.scan.stop THEN <<>> ELSE breaks) \o <<Do("leave", 0, waits)>>)

(* completeLoad: the first anonymous define is the script's, a second one is *)
(* lost and ends the loop; without any the shim tells the dependencies.      *)
TakeDefines(d, id, found) ==
  LET def == Head(d.defQueue)
      name == IF def.name = Anonymous THEN id ELSE def.name
      rest == [d EXCEPT !.defQueue = Tail(@)]
      last == Do("complete", found, id)
  IN IF d.defQueue = <<>> THEN Push(d, <<last>>)
     ELSE IF def.name = Anonymous /\ found THEN Push(rest, <<last>>)
     ELSE CallGetModule(Push(rest, <<Do("take", found \/ name = id, id)>>), [def EXCEPT !.name = name])

Complete(d, id, found) ==
  LET next == Push(d, <<Do("checkLoaded", 0, 0)>>)
  IN IF found \/ Has(d.defined, id) \/ ~Has(d.registry, id) \/ d.objs[Object(d, id)].inited THEN next
     ELSE CallGetModule(next, [name |-> id, deps |-> Or(world.shim, id, <<>>)])

(* the callback of localRequire's tick *)
Begin(d, request) ==
  LET id == "_@r" \o ToString(Len(d.objs))
      got == Register(d, id, request)
  IN Init(got, Object(got, id), request.deps, request.errback, TRUE)
-----------------------------------------------------------------------------
Perform(d, t) ==
  CASE t.op = "call"      -> Call(d, t.x[1], t.x[2])
    [] t.op = "emitError" -> EmitError(d, t.o)
    [] t.op = "unlisten"  -> [d EXCEPT !.objs[t.o].onError = <<>>]
    [] t.op = "emitDone"  -> [d EXCEPT !.objs[t.o].emitDone = TRUE]
    [] t.op = "tell"      -> Tell(d, t.x)
    [] t.op = "throw"     -> Throw(d)
    [] t.op = "event"     -> d
    [] t.op = "intake"    -> IntakeDefines(d)
    [] t.op = "ask"       -> AskFor(d, t.x)
    [] t.op = "finish"    -> Finish(d, t.o)
    [] t.op = "announce"  -> Announce(d, t.o)
    [] t.op = "check"     -> Check(d, t.o)
    [] t.op = "enable"    -> Enable(d, t.o)
    [] t.op = "enabled"   -> [d EXCEPT !.objs[t.o].enabling = FALSE]
    [] t.op = "wire"      -> Wire(d, t.o, t.x)
    [] t.op = "hear"      -> Hear(d, t.o, t.x)
    [] t.op = "start"     -> StartModule(d, t.x)
    [] t.op = "trace"     -> BreakCycle([d EXCEPT !.traced = {}, !.processed = {}], t.o)
    [] t.op = "break"     -> BreakCycle(d, t.o)
    [] t.op = "follow"    -> Follow(d, t.o, t.x)
    [] t.op = "processed" -> [d EXCEPT !.processed = @ \cup {t.x}]
    [] t.op = "checkLoaded" -> CheckLoaded(d)
    [] t.op = "look"      -> Look(d, t.x, t.o)
    [] t.op = "decide"    -> Decide(d, t.o)
    [] t.op = "leave"     -> [d EXCEPT !.inCheck = FALSE, !.timer = @ \/ t.x]
    [] t.op = "take"      -> TakeDefines(d, t.x, t.o)
    [] t.op = "complete"  -> Complete(d, t.x, t.o)
    [] t.op = "begin"     -> Begin(d, t.x)

(* an event of the browser, to the end of all it sets off *)
RECURSIVE Run(_)
Run(d) ==
  IF d.stack = <<>> THEN d
  ELSE CHOOSE r \in {Run(e) : e \in {Perform([d EXCEPT !.stack = Tail(@)], Head(d.stack))}} : TRUE

Event(d, calls) == c' = Run(Push(d, calls)) /\ UNCHANGED world

(* req(cfg), with the data-main script as what is required *)
LoaderInit ==
  /\ world \in Worlds
  /\ c = [objs |-> <<>>, registry |-> <<>>, enabledRegistry |-> <<>>, undefEvents |-> <<>>,
          defined |-> <<>>, defQueue |-> <<>>, urlFetched |-> {}, path |-> <<>>,
          ticks |-> <<Request("page", <<"main">>, FALSE)>>, net |-> {}, timer |-> FALSE, clock |-> "idle",
          inCheck |-> FALSE, scan |-> NoScan, traced |-> {}, processed |-> {}, stack |-> <<>>,
          runs |-> <<>>, asked |-> {"page"}, failed |-> {}, reported |-> FALSE]

LoaderTick ==
  /\ c.ticks # <<>>
  /\ Event([c EXCEPT !.ticks = Tail(@)],
           <<Do("intake", 0, 0), Do("begin", 0, Head(c.ticks)), Do("checkLoaded", 0, 0)>>)

(* a script runs, its defines and requires first, then its load event *)
ScriptLoads(url) ==
  /\ url \in c.net \ world.broken
  /\ Event([c EXCEPT !.net = @ \ {url}, !.defQueue = @ \o Or(world.defines, url[1], <<>>)],
           RequireAll("script " \o url[1]) \o <<Do("event", 0, 0), Do("take", FALSE, url[1])>>)

ScriptFails(url) ==
  /\ url \in c.net \cap world.broken
  /\ LET d == [c EXCEPT !.net = @ \ {url}]
     IN Event(IF HasFallback(d, url[1]) THEN PathFallback(d, url[1]) ELSE OnError(d, <<url[1]>>), <<>>)

(* the 50 ms timer of checkLoaded, and waitSeconds after the last fetch *)
WatchFires == c.timer /\ Event([c EXCEPT !.timer = FALSE], <<Do("checkLoaded", 0, 0)>>)
TimePasses == c.clock = "running" /\ Event([c EXCEPT !.clock = "expired"], <<>>)

LoaderNext ==
  \/ LoaderTick \/ WatchFires \/ TimePasses
  \/ \E url \in c.net : ScriptLoads(url) \/ ScriptFails(url)

LoaderSpec == LoaderInit /\ [][LoaderNext]_loaderVars
LoaderFairSpec ==
  /\ LoaderSpec /\ WF_loaderVars(LoaderTick) /\ WF_loaderVars(WatchFires)
  /\ WF_loaderVars(\E url \in c.net : ScriptLoads(url) \/ ScriptFails(url))
-----------------------------------------------------------------------------
Ran == {c.runs[i].who : i \in DOMAIN c.runs}
Needs(who) == (UNION {ToSet(c.runs[i].deps) : i \in {j \in DOMAIN c.runs : c.runs[j].who = who}}) \ {"exports"}

(* require.js: no function runs twice, not a factory defined by two scripts  *)
(* or found by a second path, nor a callback.                                *)
FunctionsRunOnce == Cardinality(Ran) = Len(c.runs)

(* require.js: a function runs after those it depends on, with what each     *)
(* gave; only one that depends, through others, on it may come later.        *)
RECURSIVE Leads(_, _, _)
Leads(from, to, tried) ==
  \/ to \in Needs(from)
  \/ \E n \in (Needs(from) \cap Ran) \ tried : Leads(n, to, tried \cup {n})
ArgumentsReady ==
  \A i \in DOMAIN c.runs : \A k \in DOMAIN c.runs[i].deps :
    LET run == c.runs[i]  dep == run.deps[k]
    IN dep # "exports" =>
         \/ run.args[k] = dep /\ \E j \in 1 .. i - 1 : c.runs[j].who = dep
         \/ dep \in Ran => Leads(dep, run.who, {})

(* require.js: the script of a shim is asked for when what it needs is there *)
ShimsComeLater ==
  \A url \in c.urlFetched : Has(world.shim, url[1]) => ToSet(world.shim[url[1]]) \subseteq Ran

LoadsInOrder == FunctionsRunOnce /\ ArgumentsReady /\ ShimsComeLater

(* require.js: cycles and shims keep nobody waiting: all that is asked for   *)
(* is called in the end, unless an errback or the console has told of an     *)
(* error.  (An errback keeps the console from telling those without one.)    *)
NobodyWaitsSilently == <>[](c.asked \subseteq Ran \/ c.failed # {} \/ c.reported)
=============================================================================
