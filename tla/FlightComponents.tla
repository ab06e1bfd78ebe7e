--------------------------- MODULE FlightComponents ---------------------------
(***************************************************************************)
(* flight's components: attachTo and teardown, the listeners an instance   *)
(* binds through jQuery, and the registry that is to know them all         *)
(* (libs/flight/lib/component.js, base.js and registry.js).                *)
(*                                                                         *)
(* The state is one record, so that what a handler calls while an event is *)
(* being delivered can be composed: every operation maps a state to the    *)
(* next one, and a call that throws ends what called it.                   *)
(***************************************************************************)
EXTENDS Integers, FiniteSets, SequencesExt

CONSTANTS
  Components,    \* the constructors that define made
  Nodes, Types,  \* elements and event types
  Handlers,      \* the functions that listeners call
  Bubbles,       \* Bubbles[n]: n and the elements around it, inside out
  OwnNode,           \* the element of a listener that names none: its instance's
  Listens,       \* Listens[c]: what c's initialize binds: <<element, type, function>>
  Effects,       \* Effects[f]: the call that f makes, <<operation, component>>
  Nobody,
  MaxObjects, MaxBinds, MaxOffs   \* bounds

VARIABLES
  f,             \* the registry, the listeners, and what is thrown
  again,         \* history: the objects that were initialized twice
  disturbed,     \* history: <<object, function>> whose listeners an off took
  offs           \* history: calls of off

flightVars == <<f, again, disturbed, offs>>

Places == Nodes \X Types

----------------------------------------------------------------------------
(* base.js and registry.js; s is the state record, o the index of an object *)

Id(s, o) == s.objs[o].id
Known(s, o) == Id(s, o) \in DOMAIN s.infos
InfoOf(s, component) == SelectInSeq(s.comps, LAMBDA k : k.component = component)
AttachedTo(s, component) == LET i == InfoOf(s, component) IN IF i = 0 THEN <<>> ELSE s.comps[i].attachedTo
Instances(s, component) == LET i == InfoOf(s, component) IN IF i = 0 THEN {} ELSE s.comps[i].instances

Steps(s, seq, Op(_, _)) == FoldLeft(LAMBDA r, x : IF r.thrown THEN r ELSE Op(r, x), s, seq)

MatchEvent(e, event) ==
  e.element = event.element /\ e.type = event.type /\ event.callback \in {Nobody, e.callback}

(* The loops splice the list they walk: what follows a match is not looked at. *)
RemoveBind(events, event) ==
  FoldLeft(LAMBDA r, e : IF ~r.skip /\ MatchEvent(e, event) THEN [r EXCEPT !.skip = TRUE]
                         ELSE [kept |-> Append(r.kept, e), skip |-> FALSE],
           [kept |-> <<>>, skip |-> FALSE], events).kept

(* on, as the registry's advice wraps it: an instance it does not know binds nothing. *)
On(s, o, listener) ==
  IF ~Known(s, o) THEN s
  ELSE LET element == IF listener[1] = OwnNode THEN s.objs[o].node ELSE listener[1]
           callback == [target |-> listener[3], context |-> o, guid |-> s.guid]
           event == [element |-> element, type |-> listener[2], callback |-> callback] IN
       [s EXCEPT !.guid = @ + 1,
                 !.on[element, listener[2]] = Append(@, callback),
                 !.bound[listener[3]] = Append(@, callback),
                 !.infos[Id(s, o)].events = Append(@, event),
                 !.events = Append(@, event)]

(* The version of a function to take off is the first that this instance     *)
(* bound, wherever that was; without a function all of the element's go.     *)
Target(given) == IF given \in Handlers THEN given ELSE given.target
Version(s, o, given) ==
  IF given = Nobody THEN Nobody
  ELSE LET i == SelectInSeq(s.bound[Target(given)], LAMBDA c : Id(s, c.context) = Id(s, o)) IN
       IF i = 0 THEN given ELSE s.bound[Target(given)][i]

Unbind(s, o, event) ==
  LET version == Version(s, o, event.callback)
      Fewer(info) == [info EXCEPT !.events = RemoveBind(@, event)] IN
  [s EXCEPT !.bound = IF version = Nobody THEN @
                      ELSE [@ EXCEPT ![Target(version)] = RemoveFirst(@, version)],
            !.on[event.element, event.type] =
               IF version = Nobody THEN <<>> ELSE SelectSeq(@, LAMBDA c : c # version),
            !.infos = IF Known(s, o) THEN [@ EXCEPT ![Id(s, o)] = Fewer(@)] ELSE @,
            !.events = RemoveBind(@, event)]

AddInstance(s, o) ==
  LET c == s.objs[o].component
      known == IF InfoOf(s, c) # 0 THEN s.comps
               ELSE Append(s.comps, [component |-> c, attachedTo |-> <<>>, instances |-> {}])
      i == SelectInSeq(known, LAMBDA k : k.component = c) IN
  [s EXCEPT !.comps = [known EXCEPT ![i].attachedTo = Append(@, s.objs[o].node), ![i].instances = @ \cup {Id(s, o)}],
            !.infos = [id \in DOMAIN @ \cup {Id(s, o)} |->
                         IF id = Id(s, o) THEN [object |-> o, events |-> <<>>] ELSE @[id]]]

RemoveInstance(s, o) ==
  LET i == InfoOf(s, s.objs[o].component)
      rest == [s.comps[i] EXCEPT !.attachedTo = RemoveFirst(@, s.objs[o].node), !.instances = @ \ {Id(s, o)}] IN
  [s EXCEPT !.comps = IF i = 0 THEN @ ELSE IF rest.instances = {} THEN RemoveAt(@, i) ELSE [@ EXCEPT ![i] = rest],
            !.infos = [id \in DOMAIN @ \ {Id(s, o)} |-> @[id]]]

(* Identity 0 counts as none: its instance gets another when initialized again. *)
Initialize(s, o) ==
  LET fresh == Id(s, o) \in {Nobody, 0}
      named == IF fresh THEN [s EXCEPT !.objs[o].id = s.next, !.next = @ + 1] ELSE s IN
  Steps(AddInstance(named, o), Listens[s.objs[o].component], LAMBDA r, l : On(r, o, l))

\* Mutant: the instance goes and its listeners stay.
TeardownLeavesListeners(s, o) ==
  IF ~Known(s, o) THEN [s EXCEPT !.thrown = TRUE] ELSE RemoveInstance(s, o)

Teardown(s, o) ==
  IF ~Known(s, o) THEN [s EXCEPT !.thrown = TRUE]
  ELSE RemoveInstance(Steps(s, s.infos[Id(s, o)].events, LAMBDA r, e : Unbind(r, o, e)), o)

(* component.js *)
AttachTo(s, component, nodes) ==
  Steps(s, SelectSeq(nodes, LAMBDA n : n \notin ToSet(AttachedTo(s, component))),
        LAMBDA r, n : Initialize([r EXCEPT !.objs = Append(@, [component |-> component, node |-> n, id |-> Nobody])],
                                 Len(r.objs) + 1))

TeardownAll(s, component) ==
  Steps(s, SetToSortSeq(Instances(s, component), <),
        LAMBDA r, id : IF id \in Instances(r, component) THEN Teardown(r, r.infos[id].object) ELSE r)

TeardownEverything(s) ==
  LET r == Steps(s, s.comps, LAMBDA q, k : TeardownAll(q, k.component)) IN
  IF r.thrown THEN r ELSE [r EXCEPT !.comps = <<>>, !.infos = <<>>, !.events = <<>>]

(* A handler tears down its instance, or a component, or attaches one. *)
RunHandler(s, callback) ==
  LET call == Effects[callback.target] IN
  CASE call[1] = "teardown"    -> Teardown(s, callback.context)
    [] call[1] = "teardownAll" -> TeardownAll(s, call[2])
    [] call[1] = "attachTo"    -> AttachTo(s, call[2], <<s.objs[callback.context].node>>)
    [] OTHER -> s

(* jQuery delivers to the handlers an element has when the event reaches it. *)
Trigger(s, node, type) ==
  Steps(s, Bubbles[node], LAMBDA r, n : Steps(r, r.on[n, type], RunHandler))

----------------------------------------------------------------------------
FlightInit ==
  /\ f = [objs |-> <<>>, next |-> 0, comps |-> <<>>, infos |-> <<>>, events |-> <<>>, guid |-> 0,
          bound |-> [h \in Handlers |-> <<>>], on |-> [p \in Places |-> <<>>], thrown |-> FALSE]
  /\ again = {} /\ disturbed = {} /\ offs = 0

(* What a page's script calls; an exception ends the call, not the page. *)
Calls(s) ==
  /\ Len(s.objs) <= MaxObjects /\ s.guid <= MaxBinds
  /\ f' = [s EXCEPT !.thrown = FALSE]

Attach(component, nodes) == Calls(AttachTo(f, component, nodes)) /\ UNCHANGED <<again, disturbed, offs>>
TearDown(o) == o \in DOMAIN f.objs /\ Calls(Teardown(f, o)) /\ UNCHANGED <<again, disturbed, offs>>
TearDownAll(component) == Calls(TeardownAll(f, component)) /\ UNCHANGED <<again, disturbed, offs>>
Reset == Calls(TeardownEverything(f)) /\ UNCHANGED <<again, disturbed, offs>>
Fire(node, type) == Calls(Trigger(f, node, type)) /\ UNCHANGED <<again, disturbed, offs>>
Bind(o, listener) == o \in DOMAIN f.objs /\ Calls(On(f, o, listener)) /\ UNCHANGED <<again, disturbed, offs>>
InitializeAgain(o) ==
  /\ o \in DOMAIN f.objs /\ Known(f, o)
  /\ Calls(Initialize(f, o)) /\ again' = again \cup {o} /\ UNCHANGED <<disturbed, offs>>

TakeOff(o, place, given) ==
  /\ o \in DOMAIN f.objs /\ offs < MaxOffs /\ offs' = offs + 1
  /\ Calls(Unbind(f, o, [element |-> place[1], type |-> place[2], callback |-> given]))
  /\ disturbed' = disturbed \cup (IF given # Nobody THEN {<<o, given>>}
                                 ELSE {<<c.context, c.target>> : c \in ToSet(f.on[place])})
  /\ UNCHANGED again

FlightNext ==
  \/ \E c \in Components :
       \/ \E n \in Nodes : Attach(c, <<n>>)
       \/ Attach(c, SetToSeq(Nodes)) \/ TearDownAll(c)
  \/ \E o \in 1..MaxObjects :
       \/ TearDown(o) \/ InitializeAgain(o)
       \/ \E p \in Places, h \in Handlers : Bind(o, <<p[1], p[2], h>>)
       \/ \E p \in Places, given \in Handlers \cup {Nobody} : TakeOff(o, p, given)
  \/ Reset
  \/ \E n \in Nodes, t \in Types : Fire(n, t)

FlightSpec == FlightInit /\ [][FlightNext]_flightVars

----------------------------------------------------------------------------
(* The registry's two indexes name the same instances, no component without  *)
(* instances stays, and a component is on an element at most once.           *)
RegistryAgrees ==
  /\ UNION {k.instances : k \in ToSet(f.comps)} = DOMAIN f.infos
  /\ \A i \in DOMAIN f.comps :
       /\ f.comps[i].instances # {}
       /\ \A id \in f.comps[i].instances : f.objs[f.infos[id].object].component = f.comps[i].component
       /\ again = {} => /\ IsInjective(f.comps[i].attachedTo)
                        /\ ToSet(f.comps[i].attachedTo) = {f.objs[f.infos[id].object].node : id \in f.comps[i].instances}

(* A listener that an element has belongs to an instance the registry knows, *)
(* which has it on its list: so teardown leaves no listener behind.  It may  *)
(* when the instance was initialized twice, and after an off: a later bind   *)
(* of the same function is then taken for the one that is gone.              *)
NoStrayListener ==
  \A p \in Places : \A c \in ToSet(f.on[p]) :
    \/ /\ Known(f, c.context)
       /\ [element |-> p[1], type |-> p[2], callback |-> c] \in ToSet(f.infos[Id(f, c.context)].events)
    \/ c.context \in again
    \/ <<c.context, c.target>> \in disturbed

ComponentsSound == RegistryAgrees /\ NoStrayListener
=============================================================================
