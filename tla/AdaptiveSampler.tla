-------------------------- MODULE AdaptiveSampler --------------------------
(***************************************************************************)
(* The collectors that adapt one global sample rate through ZooKeeper      *)
(* (sampler/AdaptiveSampler.scala, the group and election part of          *)
(* sampler/ZooKeeperClient.scala).  Every collector reports the flow it    *)
(* sees, pulls the flows of all, and the one that leads writes the sample  *)
(* rate.  All of them, and the operators, act on the same two nodes; all   *)
(* of them act on copies.  Time is left to chance: the period, the cooldown*)
(* and the delivery of news may take any time.  A round of groupData reads *)
(* its members in one step.                                                *)
(***************************************************************************)
EXTENDS Naturals, SequencesExt

CONSTANTS
  Collectors,
  Flows,              \* the request rates a collector may see
  Full,               \* sample rates are 0 .. Full; Full stands for 1.0
  Targets,            \* the target store rates an operator may set
  WindowSize,         \* windowSize, sufficientWindowSize and outlierThreshold,
  SufficientWindow,   \* in update periods
  OutlierPoints,
  None,               \* no leader, no new rate
  MaxEvents           \* bound: flow reports, operators' settings, sessions lost, restarts,
                      \* failed requests

ASSUME SamplerAssumption ==
  /\ Flows \subseteq Nat /\ 0 \in Flows /\ Targets \subseteq Nat
  /\ Full \in Nat \ {0} /\ None \notin Collectors /\ None \notin Nat
  /\ OutlierPoints \in Nat \ {0} /\ OutlierPoints <= SufficientWindow
  /\ MaxEvents \in Nat
  /\ SufficientWindow \in Nat /\ WindowSize \in Nat /\ SufficientWindow <= WindowSize

VARIABLES
  sampleRate,         \* the data of the two nodes; no data reads as 0
  targetStoreRate,
  rateRead,           \* what each collector's watch of sampleRate read last
  rateSeen,           \* each collector's copies
  targetSeen,
  curReqRate,         \* the flow each collector measured last
  members,            \* who is in the group at reporterPath
  memberData,         \* the flow that stands there for each
  elected,            \* who leads, as ZooKeeper has it
  isLeader,           \* who was told that it leads
  buffer,             \* the ring buffer, newest sum first
  pulling,            \* who still runs its groupData loop
  permit,             \* the cooldown's permit
  writing,            \* the rates on their way to ZooKeeper
  departed,           \* history: a collector lost its session
  events

nodes == <<sampleRate, targetStoreRate>>
copies == <<rateRead, rateSeen, targetSeen>>
flow == <<curReqRate, memberData>>
election == <<elected, isLeader, members, departed>>
update == <<buffer, pulling, permit>>
vars == <<nodes, copies, flow, election, update, writing, events>>

Rates == 0 .. Full

\* Mutant: the buffer starts empty.
InitUnnotified ==
  /\ sampleRate \in Rates /\ targetStoreRate \in Targets
  /\ rateRead = [c \in Collectors |-> 0]
  /\ rateSeen = rateRead /\ targetSeen = rateRead
  /\ curReqRate = rateRead /\ memberData = rateRead
  /\ members = {} /\ elected = None
  /\ isLeader = [c \in Collectors |-> FALSE]
  /\ buffer = [c \in Collectors |-> <<>>]
  /\ pulling = Collectors
  /\ permit = [c \in Collectors |-> TRUE]
  /\ writing = [c \in Collectors |-> {}]
  /\ departed = FALSE /\ events = 0

Init ==
  /\ sampleRate \in Rates /\ targetStoreRate \in Targets
  /\ rateRead = [c \in Collectors |-> 0]
  /\ rateSeen = [c \in Collectors |-> 0]
  /\ targetSeen = [c \in Collectors |-> 0]
  /\ curReqRate = [c \in Collectors |-> 0]
  /\ members = {}
  /\ memberData = [c \in Collectors |-> 0]
  /\ elected = None
  /\ isLeader = [c \in Collectors |-> FALSE]
  /\ buffer = [c \in Collectors |-> <<0>>]   \* register notifies of the empty Var
  /\ pulling = Collectors
  /\ permit = [c \in Collectors |-> TRUE]
  /\ writing = [c \in Collectors |-> {}]
  /\ departed = FALSE
  /\ events = 0

Event == events < MaxEvents /\ events' = events + 1

-----------------------------------------------------------------------------
(* What a collector reports.                                               *)

FlowReports(c, n) ==
  /\ Event
  /\ curReqRate' = [curReqRate EXCEPT ![c] = n]
  /\ UNCHANGED <<nodes, copies, memberData, election, update, writing>>

MemberDataUpdated(c) ==
  /\ c \in members
  /\ memberData' = [memberData EXCEPT ![c] = curReqRate[c]]
  /\ UNCHANGED <<nodes, copies, curReqRate, election, update, writing, events>>

-----------------------------------------------------------------------------
(* Membership, election, and the news of them.                             *)

\* The member's data comes from joinGroup's copy of the flow, which is empty
\* until the first join is done.
JoinsGroup(c) ==
  /\ c \notin members
  /\ members' = members \cup {c}
  /\ \E flow0 \in {0, curReqRate[c]} : memberData' = [memberData EXCEPT ![c] = flow0]
  /\ UNCHANGED <<nodes, copies, curReqRate, elected, isLeader, departed, update, writing, events>>

\* The collector's nodes are gone.
Departs(c) ==
  /\ c \in members \/ elected = c
  /\ members' = members \ {c}
  /\ elected' = IF elected = c THEN None ELSE elected
  /\ departed' = TRUE

\* Who may have listed this member and not have read it: their Future.collect
\* fails, and nothing starts their loops again.
MidPull(c) == IF c \in members THEN SUBSET pulling ELSE {{}}

\* The ZooKeeper session expires.
LosesSession(c) ==
  /\ Event
  /\ Departs(c)
  /\ \E stopped \in MidPull(c) : pulling' = pulling \ stopped
  /\ UNCHANGED <<nodes, copies, flow, isLeader, buffer, permit, writing>>

\* The process ends and comes back; what it has sent may still arrive.
Restarts(c) ==
  /\ Event
  /\ Departs(c)
  /\ \E stopped \in MidPull(c) : pulling' = (pulling \ stopped) \cup {c}
  /\ rateRead' = [rateRead EXCEPT ![c] = 0]
  /\ rateSeen' = [rateSeen EXCEPT ![c] = 0] /\ targetSeen' = [targetSeen EXCEPT ![c] = 0]
  /\ curReqRate' = [curReqRate EXCEPT ![c] = 0]
  /\ isLeader' = [isLeader EXCEPT ![c] = FALSE]
  /\ buffer' = [buffer EXCEPT ![c] = <<0>>]
  /\ permit' = [permit EXCEPT ![c] = TRUE]
  /\ UNCHANGED <<nodes, memberData, writing>>

\* The election is at a path of its own; every collector is a candidate.
Elected(c) ==
  /\ elected = None
  /\ elected' = c
  /\ UNCHANGED <<nodes, copies, flow, isLeader, members, departed, update, writing, events>>

\* Mutant: every candidate is told.
OnElectedAnyway(c) ==
  /\ ~isLeader[c]
  /\ isLeader' = [isLeader EXCEPT ![c] = TRUE]
  /\ UNCHANGED <<nodes, copies, flow, elected, members, departed, update, writing, events>>

OnElected(c) ==
  /\ elected = c /\ ~isLeader[c]
  /\ isLeader' = [isLeader EXCEPT ![c] = TRUE]
  /\ UNCHANGED <<nodes, copies, flow, elected, members, departed, update, writing, events>>

OnDefeated(c) ==
  /\ elected # c /\ isLeader[c]
  /\ isLeader' = [isLeader EXCEPT ![c] = FALSE]
  /\ UNCHANGED <<nodes, copies, flow, elected, members, departed, update, writing, events>>

-----------------------------------------------------------------------------
(* The two nodes.                                                          *)

OperatorSetsRate(r) ==
  /\ Event
  /\ sampleRate' = r
  /\ UNCHANGED <<targetStoreRate, copies, flow, election, update, writing>>

OperatorSetsTarget(t) ==
  /\ Event
  /\ targetStoreRate' = t
  /\ UNCHANGED <<sampleRate, copies, flow, election, update, writing>>

\* watchData: the node is read, and then the Var is updated.
ReadsRate(c) ==
  /\ rateRead[c] = rateSeen[c] /\ rateRead[c] # sampleRate
  /\ rateRead' = [rateRead EXCEPT ![c] = sampleRate]
  /\ UNCHANGED <<nodes, rateSeen, targetSeen, flow, election, update, writing, events>>

SeesRate(c) ==
  /\ rateSeen[c] # rateRead[c]
  /\ rateSeen' = [rateSeen EXCEPT ![c] = rateRead[c]]
  /\ UNCHANGED <<nodes, rateRead, targetSeen, flow, election, update, writing, events>>

\* The same for the other node, in one step: no property tells them apart.
SeesTarget(c) ==
  /\ targetSeen[c] # targetStoreRate
  /\ targetSeen' = [targetSeen EXCEPT ![c] = targetStoreRate]
  /\ UNCHANGED <<nodes, rateRead, rateSeen, flow, election, update, writing, events>>

-----------------------------------------------------------------------------
(* The calculation.                                                        *)

Push(buf, sum) == SubSeq(<<sum>> \o buf, 1, IF Len(buf) < WindowSize THEN Len(buf) + 1 ELSE WindowSize)

Distance(a, b) == IF a > b THEN a - b ELSE b - a
IsOut(cur, datum) == 100 * Distance(datum, cur) > 15 * cur

\* RequestRateCheck, SufficientDataCheck, ValidDataCheck and OutlierCheck: the
\* oldest points all differ from this collector's own flow.
Checks(c, buf) ==
  /\ curReqRate[c] > 0
  /\ Len(buf) >= SufficientWindow
  /\ \A k \in 1 .. Len(buf) : buf[k] > 0
  /\ \A k \in (Len(buf) - OutlierPoints + 1) .. Len(buf) : IsOut(curReqRate[c], buf[k])

\* Mutant: the new rate is not taken in proportion to the present one.
NewRatesAnew(c) ==
  IF targetSeen[c] = 0 THEN {0} ELSE {None} \cup (Rates \ {0, rateSeen[c]})

\* CalculateSampleRate: rate * target / flow, at most 1.0, or None when that is
\* close to the rate.  Which positive rate it comes to is left open.  From rate 0
\* the change is 0/0, which passes for close.
NewRates(c) ==
  IF rateSeen[c] = 0 THEN {None}
  ELSE IF targetSeen[c] = 0 THEN {0}
  ELSE {None} \cup (Rates \ {0, rateSeen[c]})

\* The whole chain, its last links the leader check and the cooldown.
Calculated(c, buf) ==
  IF Checks(c, buf)
    THEN {IF isLeader[c] /\ permit[c] THEN r ELSE None : r \in NewRates(c)}
    ELSE {None}

-----------------------------------------------------------------------------
(* One round of the groupData loop and of GlobalSampleRateUpdater.         *)

Sum(who) == FoldSet(LAMBDA c, total : memberData[c] + total, 0, who)

Pulls(c) ==
  /\ c \in pulling
  /\ buffer' = [buffer EXCEPT ![c] = Push(@, Sum(members))]
  /\ \E r \in Calculated(c, buffer'[c]) :
       IF r = None
         THEN UNCHANGED <<permit, writing>>
         ELSE /\ writing' = [writing EXCEPT ![c] = @ \cup {r}]
              /\ permit' = [permit EXCEPT ![c] = FALSE]
  /\ UNCHANGED <<nodes, copies, flow, election, pulling, events>>

\* groupData's ensurePath, getMemberIds or a getData fails: its Future fails, the
\* flatMap that would begin the next round is skipped, and nothing starts the loop
\* again.
PullFails(c) ==
  /\ Event
  /\ c \in pulling
  /\ pulling' = pulling \ {c}
  /\ UNCHANGED <<nodes, copies, flow, election, buffer, permit, writing>>

PermitReturns(c) ==
  /\ ~permit[c]
  /\ permit' = [permit EXCEPT ![c] = TRUE]
  /\ UNCHANGED <<nodes, copies, flow, election, buffer, pulling, writing, events>>

WriteLands(c, r) ==
  /\ r \in writing[c]
  /\ sampleRate' = r
  /\ writing' = [writing EXCEPT ![c] = @ \ {r}]
  /\ UNCHANGED <<targetStoreRate, copies, flow, election, update, events>>

WriteFails(c, r) ==
  /\ r \in writing[c]
  /\ writing' = [writing EXCEPT ![c] = @ \ {r}]
  /\ UNCHANGED <<nodes, copies, flow, election, update, events>>

-----------------------------------------------------------------------------
MembershipStep(c) ==
  \/ JoinsGroup(c) \/ LosesSession(c) \/ Restarts(c)
  \/ Elected(c) \/ OnElected(c) \/ OnDefeated(c)

WatchStep(c) == ReadsRate(c) \/ SeesRate(c) \/ SeesTarget(c)

UpdateStep(c) ==
  \/ Pulls(c) \/ PullFails(c) \/ PermitReturns(c)
  \/ \E r \in Rates : WriteLands(c, r) \/ WriteFails(c, r)

Next ==
  \/ \E c \in Collectors :
       \/ MemberDataUpdated(c) \/ WatchStep(c) \/ MembershipStep(c) \/ UpdateStep(c)
       \/ \E n \in Flows : FlowReports(c, n)
  \/ \E r \in Rates : OperatorSetsRate(r)
  \/ \E t \in Targets : OperatorSetsTarget(t)

Spec == Init /\ [][Next]_vars

-----------------------------------------------------------------------------
\* Type correctness of the two nodes, the group and each collector's state.
SamplerTypeOK ==
  /\ sampleRate \in Rates /\ targetStoreRate \in Targets
  /\ rateRead \in [Collectors -> Rates] /\ rateSeen \in [Collectors -> Rates]
  /\ targetSeen \in [Collectors -> Targets \cup {0}]
  /\ curReqRate \in [Collectors -> Flows] /\ memberData \in [Collectors -> Flows]
  /\ members \subseteq Collectors /\ elected \in Collectors \cup {None}
  /\ isLeader \in [Collectors -> BOOLEAN] /\ permit \in [Collectors -> BOOLEAN]
  /\ buffer \in [Collectors -> Seq(Nat)]
  /\ \A c \in Collectors : Len(buffer[c]) \in 1 .. WindowSize
  /\ pulling \subseteq Collectors
  /\ writing \in [Collectors -> SUBSET Rates]
  /\ departed \in BOOLEAN /\ events \in 0 .. MaxEvents

\* The rate is 0, every collector knows, and no write or older read is under way.
ZeroSettled ==
  /\ sampleRate = 0
  /\ \A c \in Collectors : rateRead[c] = 0 /\ rateSeen[c] = 0 /\ writing[c] = {}

\* "If this is set to 0 it will not adjust towards targetStoreRate"
\* (AdaptiveSampler.scala:125): once every collector has seen the 0 and the
\* writes calculated before are over, only an operator leaves it.
ZeroStays == [][ZeroSettled => ZeroSettled' \/ \E r \in Rates : OperatorSetsRate(r)]_vars

\* The 0 that stands in the buffer from the start, and any later one, keeps the
\* rate from being calculated until it has left the whole window, however short
\* sufficientWindowSize is (AdaptiveSampler.scala:295, 339-370).
ValidOnlyWhenFull ==
  \A c \in Collectors :
    (\A k \in 1 .. Len(buffer[c]) : buffer[c][k] > 0) => Len(buffer[c]) = WindowSize

\* Two collectors take themselves for the leader only after one has left the
\* group; so two write at a time only then (AdaptiveSampler.scala:262-273).
OneLeaderUntilDeparture ==
  \A c, d \in Collectors :
    (isLeader[c] \/ writing[c] # {}) /\ (isLeader[d] \/ writing[d] # {}) => c = d \/ departed

=============================================================================
