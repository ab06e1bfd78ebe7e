------------------------------ MODULE IndexPage ------------------------------
(***************************************************************************)
(* The scripts of the page that finds traces: the service and span name    *)
(* selects with the request that fills the second from the first, and,     *)
(* below them, the list of traces found with its service labels, filter    *)
(* tags and sort order.                                                    *)
(***************************************************************************)
EXTENDS Integers, Sequences, FiniteSets

CONSTANTS
  Found,         \* the traces the query found
  TraceServices, \* the services with a label on each trace
  Queried,       \* the service the query asked for
  IdOf,          \* idFromService: unlike names may get the same id
  SortKey,       \* [order -> [trace -> number]], smaller first
  Selectable,    \* the services #serviceName offers
  Undefined,     \* what $.cookie returns when there is no cookie
  Gone,          \* the cookie's service, when the select no longer offers it
  Nothing,       \* #serviceName with nothing selected
  MaxChanges,    \* bound: changes of the selected service
  MaxTags        \* bound: filter and sort events

ASSUME IndexAssumption ==
  /\ IsFiniteSet(Found)
  /\ \A t \in Found : Queried \in TraceServices[t]
  /\ {Undefined, Gone, Nothing} \cap Selectable = {}

VARIABLES
  selected,   \* the value of #serviceName
  cookie,     \* last-serviceName
  requested,  \* services whose span names were asked for, oldest first
  waiting,    \* positions of `requested` that are not answered
  listed,     \* the position whose span names #spanName offers, 0: the page's
  services,   \* traces.services, in the order they were added
  hidden,     \* traces hidden by updateTraces
  labelled,   \* services whose labels have the class service-tag-filtered
  tags,       \* removable tags in #trace-filters, `since` the event that put it last
  counted,    \* .filter-current
  order,      \* this.$traces
  sorted,     \* the sort order chosen last
  events,     \* filter and sort events so far
  inOrder     \* history: no answer overtook another one, and none failed

nameVars   == <<selected, cookie, requested, waiting, listed, inOrder>>
filterVars == <<services, hidden, labelled, tags, counted>>
indexVars  == <<nameVars, filterVars, order, sorted, events>>

LabelServices == UNION {TraceServices[t] : t \in Found}
Filters       == {services[i] : i \in DOMAIN services}
-----------------------------------------------------------------------------
(* serviceName.triggerChange, heard by spanNames.updateSpanNames: one GET,  *)
(* whatever requests are still under way                                    *)
Ask(svc) ==
  /\ requested' = Append(requested, svc)
  /\ waiting' = waiting \cup {Len(requested) + 1}

(* serviceName.onChange *)
ChangeService(svc) ==
  /\ Len(requested) < MaxChanges /\ svc # selected
  /\ selected' = svc /\ cookie' = svc
  /\ Ask(svc)
  /\ UNCHANGED <<listed, inOrder, filterVars, order, sorted, events>>

(* the success callback, and spanName.updateSpans; answers come in any order *)
Answer(i) ==
  /\ i \in waiting
  /\ waiting' = waiting \ {i}
  /\ listed' = i
  /\ inOrder' = (inOrder /\ \A j \in waiting : i <= j)
  /\ UNCHANGED <<selected, cookie, requested, filterVars, order, sorted, events>>

(* a request that fails has no callback *)
Unanswered(i) ==
  /\ i \in waiting
  /\ waiting' = waiting \ {i}
  /\ inOrder' = FALSE
  /\ UNCHANGED <<selected, cookie, requested, listed, filterVars, order, sorted, events>>
-----------------------------------------------------------------------------
(* traces.updateTraces with triggerUpdateTraces, and the count              *)
(* traceFilters.updateTraces shows                                          *)
UpdateTraces(svcs) ==
  LET Filtering == {svcs[i] : i \in DOMAIN svcs}
  IN /\ hidden' = {t \in Found : ~(Filtering \subseteq TraceServices[t])}
     /\ counted' = Cardinality(Found \ hidden')

(* uiAddServiceNameFilter, from a label without the class: filterLabel's,   *)
(* traceFilters' and traces' listeners                                      *)
AddFilter(svc) ==
  /\ events < MaxTags /\ events' = events + 1
  /\ svc \notin labelled /\ \E t \in Found \ hidden : svc \in TraceServices[t]
  /\ labelled' = labelled \cup {svc}
  /\ tags' = IF svc = Queried THEN tags
             ELSE tags \cup {[service |-> svc, since |-> events]}
  /\ IF svc \in Filters THEN UNCHANGED <<services, hidden, counted>>
     ELSE services' = Append(services, svc) /\ UpdateTraces(services')
  /\ UNCHANGED <<nameVars, order, sorted>>

(* $.inArray, and splice of one element *)
PlaceOf(svcs, svc) == CHOOSE i \in DOMAIN svcs : svcs[i] = svc /\ \A j \in 1 .. i - 1 : svcs[j] # svc
Spliced(svcs, i) == SubSeq(svcs, 1, i - 1) \o SubSeq(svcs, i + 1, Len(svcs))

Tagged(id) == {tag \in tags : IdOf[tag.service] = id}
FirstOf(tagged) == {tag \in tagged : \A other \in tagged : tag.since <= other.since}

(* uiRemoveServiceNameFilter, from a label with the class or from the x of  *)
(* a tag, whose filter another x may have removed before.  find('#...')     *)
(* looks an id up: the first tag of the id goes, whichever service it names.*)
RemoveFilter(svc) ==
  /\ events < MaxTags /\ events' = events + 1
  /\ \/ \E tag \in tags : tag.service = svc
     \/ svc \in labelled /\ \E t \in Found \ hidden : svc \in TraceServices[t]
  /\ labelled' = labelled \ {svc}
  /\ tags' = tags \ FirstOf(Tagged(IdOf[svc]))
  /\ IF svc \notin Filters THEN UNCHANGED <<services, hidden, counted>>
     ELSE /\ services' = Spliced(services, PlaceOf(services, svc))
          /\ UpdateTraces(services')
  /\ UNCHANGED <<nameVars, order, sorted>>

SortedBy(key) ==
  {p \in [1 .. Cardinality(Found) -> Found] :
     /\ \A i, j \in DOMAIN p : i < j => p[i] # p[j] /\ key[p[i]] <= key[p[j]]}

\* Mutant: the list put into the page anew shows every trace again.
SortShowsAll(by) ==
  /\ events < MaxTags /\ events' = events + 1
  /\ by # sorted
  /\ order' \in SortedBy(SortKey[by])
  /\ sorted' = by
  /\ hidden' = {}
  /\ counted' = Cardinality(Found)
  /\ UNCHANGED <<nameVars, services, labelled, tags>>

(* traces.updateSortOrder: the list is put into the page anew, which takes  *)
(* the handlers off its labels; teardownAll and attachTo bind them again,   *)
(* and each label keeps its class                                           *)
UpdateSortOrder(by) ==
  /\ events < MaxTags /\ events' = events + 1
  /\ by # sorted
  /\ order' \in SortedBy(SortKey[by])
  /\ sorted' = by
  /\ counted' = Cardinality(Found \ hidden)
  /\ UNCHANGED <<nameVars, services, hidden, labelled, tags>>
-----------------------------------------------------------------------------
(* The server marks the service of a query as selected and lists its span   *)
(* names; without one, serviceName's initialize selects the cookie's.       *)
IndexInit ==
  /\ cookie \in Selectable \cup {Undefined, Gone}
  /\ \/ /\ selected \in Selectable
        /\ requested = <<>> /\ waiting = {}
     \/ /\ selected = IF cookie \in Selectable THEN cookie ELSE Nothing
        /\ requested = <<cookie>> /\ waiting = {1}
  /\ listed = 0
  /\ services = <<>> /\ hidden = {} /\ labelled = {} /\ tags = {}
  /\ counted = Cardinality(Found)
  /\ sorted = "duration-desc" /\ order \in SortedBy(SortKey[sorted])
  /\ events = 0 /\ inOrder = TRUE

IndexNext ==
  \/ \E svc \in Selectable : ChangeService(svc)
  \/ \E i \in 1 .. MaxChanges : Answer(i) \/ Unanswered(i)
  \/ \E svc \in LabelServices : AddFilter(svc) \/ RemoveFilter(svc)
  \/ \E by \in DOMAIN SortKey : UpdateSortOrder(by)

IndexSpec == IndexInit /\ [][IndexNext]_indexVars
-----------------------------------------------------------------------------
(* component_ui/traces.js:25-58 with filterLabel.js and traceFilters.js: in *)
(* whatever order filters come and go and the list is sorted anew, a trace  *)
(* is on the page exactly when it has a label of every filter, the labels   *)
(* of exactly the filters are marked, and the count says how many there are.*)
FiltersSelectTraces ==
  /\ hidden = {t \in Found : \E svc \in labelled : svc \notin TraceServices[t]}
  /\ labelled = Filters
  /\ Len(services) = Cardinality(labelled)
  /\ counted = Cardinality(Found \ hidden)

(* The filters that have a tag of an id when they are added: the query's    *)
(* service has none.                                                        *)
Taggable(id) == {svc \in Filters \ {Queried} : IdOf[svc] = id}

(* traceFilters.js:13-40: in whatever order labels and tags are clicked, an *)
(* id never has more tags than filters, so that no tag outlives the last    *)
(* filter of its id; and a service that shares its id with no other has its *)
(* tag exactly while it is a filter.  Of services that share one, the tag   *)
(* may name the wrong one, or be missing.                                   *)
TagsNameFilters ==
  /\ \A svc \in LabelServices :
       Cardinality(Tagged(IdOf[svc])) <= Cardinality(Taggable(IdOf[svc]))
  /\ \A svc \in LabelServices \ {Queried} :
       (\A other \in LabelServices \ {svc} : IdOf[other] # IdOf[svc]) =>
         (svc \in Filters <=> \E tag \in tags : tag.service = svc)

(* component_data/spanNames.js:13-22: once every request is answered, and   *)
(* no answer overtook an older one, #spanName offers the span names of the  *)
(* service #serviceName shows.                                              *)
SpanNamesFollowSelection ==
  inOrder /\ waiting = {} /\ selected # Nothing =>
    IF requested = <<>> THEN listed = 0 ELSE listed # 0 /\ requested[listed] = selected
=============================================================================
