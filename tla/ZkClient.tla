------------------------------ MODULE ZkClient ------------------------------
(***************************************************************************)
(* The data node operations of the sampler's ZooKeeper client              *)
(* (sampler/ZooKeeperClient.scala): ensurePath, create, setData and        *)
(* watchData, on one path of Depth components, by several processes over   *)
(* connections that fail.  ZooKeeper itself is linearizable; its watches   *)
(* fire once.  A call of setData writes its own name.                      *)
(***************************************************************************)
EXTENDS Naturals

CONSTANTS
  Setters,     \* calls of setData
  Watches,     \* calls of watchData
  Depth,       \* how many components the path has
  Empty,       \* the data of a node that ensurePath created
  MaxFaults    \* bound: how many requests and connections fail

ASSUME ZkAssumption ==
  /\ Setters \cap Watches = {} /\ Empty \notin Setters
  /\ Depth \in Nat \ {0} /\ MaxFaults \in Nat

VARIABLES
  created,     \* how many components of the path exist
  data,        \* the data of the node at its end
  pc,          \* where each call stands
  level,       \* the component ensurePath is at
  armed,       \* the watches ZooKeeper will still fire
  local,       \* the Var of each watch
  closed,      \* the watches that were closed
  faults,
  applied,     \* history: the calls whose data got into the node
  missed       \* history: the calls that met a missing node

zkVars == <<created, data, armed>>
callVars == <<pc, level>>
vars == <<created, data, pc, level, armed, local, closed, faults, applied, missed>>

Calls == Setters \cup Watches
Ensuring == {"exists", "create"}
States == {"idle", "setData", "createLeaf", "getData", "watching", "done", "failed"} \cup Ensuring

Exists == created = Depth

Init ==
  /\ created = 0
  /\ data = Empty
  /\ pc = [c \in Calls |-> "idle"]
  /\ level = [c \in Calls |-> 1]
  /\ armed = {}
  /\ local = [w \in Watches |-> Empty]
  /\ closed = {}
  /\ faults = 0
  /\ applied = {} /\ missed = {}

Goto(c, state) == pc' = [pc EXCEPT ![c] = state]

-----------------------------------------------------------------------------
(* ensurePath(path): component by component, exists and then create.       *)

EnsureBegins(c) ==
  /\ Goto(c, "exists")
  /\ level' = [level EXCEPT ![c] = 1]

\* What setData and watchData do once the path is ensured.
Ensured(c) == IF c \in Setters THEN "createLeaf" ELSE "getData"

NextLevel(c) ==
  IF level[c] < Depth
    THEN Goto(c, "exists") /\ level' = [level EXCEPT ![c] = @ + 1]
    ELSE Goto(c, Ensured(c)) /\ UNCHANGED level

ExistsReturns(c) ==
  /\ pc[c] = "exists"
  /\ IF level[c] <= created
       THEN NextLevel(c)
       ELSE Goto(c, "create") /\ UNCHANGED level
  /\ UNCHANGED <<zkVars, local, closed, faults, applied, missed>>

\* Mutant: an existing node is replaced.
CreateNodeReplacing(c) ==
  /\ created' = IF level[c] <= created THEN created ELSE level[c]
  /\ data' = IF level[c] = Depth THEN Empty ELSE data
  /\ UNCHANGED armed

\* The node at the component, with no data; an existing one is left alone.
CreateNode(c) ==
  /\ created' = IF level[c] <= created THEN created ELSE level[c]
  /\ UNCHANGED <<data, armed>>

\* Mutant: NodeExistsException is not rescued.
CreateReturnsUnrescued(c) ==
  /\ pc[c] = "create"
  /\ CreateNode(c)
  /\ IF level[c] <= created THEN Goto(c, "failed") /\ UNCHANGED level ELSE NextLevel(c)
  /\ UNCHANGED <<local, closed, faults, applied, missed>>

\* NodeExistsException, when another process came first, is rescued.
CreateReturns(c) ==
  /\ pc[c] = "create"
  /\ CreateNode(c)
  /\ NextLevel(c)
  /\ UNCHANGED <<local, closed, faults, applied, missed>>

-----------------------------------------------------------------------------
(* setData(path, data)                                                     *)

SetDataCalled(s) ==
  /\ pc[s] = "idle"
  /\ Goto(s, "setData")
  /\ UNCHANGED <<zkVars, level, local, closed, faults, applied, missed>>

\* ZooKeeper takes the write and fires every watch on the node.
Applied(s) ==
  /\ Exists
  /\ data' = s
  /\ armed' = {}
  /\ applied' = applied \cup {s}
  /\ UNCHANGED created

SetDataReturns(s) ==
  /\ pc[s] = "setData"
  /\ Applied(s)
  /\ Goto(s, "done")
  /\ UNCHANGED <<level, local, closed, faults, missed>>

\* Mutant: tried again without ensuring the path.
SetDataNoNodeAgain(s) ==
  /\ pc[s] = "setData"
  /\ ~Exists
  /\ missed' = missed \cup {s}
  /\ UNCHANGED <<zkVars, callVars, local, closed, faults, applied>>

SetDataNoNode(s) ==
  /\ pc[s] = "setData"
  /\ ~Exists
  /\ missed' = missed \cup {s}
  /\ EnsureBegins(s)
  /\ UNCHANGED <<zkVars, local, closed, faults, applied>>

\* ensurePath before create(path, true, Some(data)): create rescues
\* NodeExistsException, so a node that is there by now keeps its data.
CreateLeafReturns(s) ==
  /\ pc[s] = "createLeaf"
  /\ created' = Depth
  /\ data' = IF Exists THEN data ELSE s
  /\ applied' = IF Exists THEN applied ELSE applied \cup {s}
  /\ Goto(s, "done")
  /\ UNCHANGED <<level, armed, local, closed, faults, missed>>

-----------------------------------------------------------------------------
(* watchData(path): read and watch, wait for the event, read again.        *)

WatchCalled(w) ==
  /\ pc[w] = "idle"
  /\ EnsureBegins(w)
  /\ UNCHANGED <<zkVars, local, closed, faults, applied, missed>>

GetDataReturns(w) ==
  /\ pc[w] = "getData"
  /\ w \notin closed
  /\ local' = [local EXCEPT ![w] = data]
  /\ armed' = armed \cup {w}
  /\ Goto(w, "watching")
  /\ UNCHANGED <<created, data, level, closed, faults, applied, missed>>

\* `case _`: the loop ends.
GetDataIgnored(w) ==
  /\ pc[w] = "getData"
  /\ w \in closed
  /\ Goto(w, "done")
  /\ UNCHANGED <<zkVars, level, local, closed, faults, applied, missed>>

\* Mutant: the loop does not go round.
WatchFiresOnce(w) ==
  /\ pc[w] = "watching" /\ w \notin armed
  /\ Goto(w, "done")
  /\ UNCHANGED <<zkVars, level, local, closed, faults, applied, missed>>

WatchFires(w) ==
  /\ pc[w] = "watching" /\ w \notin armed
  /\ Goto(w, "getData")
  /\ UNCHANGED <<zkVars, level, local, closed, faults, applied, missed>>

CloseWatch(w) ==
  /\ w \notin closed
  /\ closed' = closed \cup {w}
  /\ UNCHANGED <<zkVars, callVars, local, faults, applied, missed>>

-----------------------------------------------------------------------------
(* Faults.  A request that fails may have been carried out all the same.   *)

Fault == faults < MaxFaults /\ faults' = faults + 1

\* Mutant: an exception that can be retried counts as success.
SetDataRetriesNot(s) ==
  /\ Fault
  /\ pc[s] = "setData"
  /\ Goto(s, "done")
  /\ UNCHANGED <<zkVars, level, local, closed, applied, missed>>

\* shouldRetry(e): setData calls itself.
SetDataRetries(s) ==
  /\ Fault
  /\ pc[s] = "setData"
  /\ Applied(s) \/ UNCHANGED <<zkVars, applied>>
  /\ UNCHANGED <<callVars, local, closed, missed>>

SetDataFails(s) ==
  /\ Fault
  /\ pc[s] = "setData"
  /\ Applied(s) \/ UNCHANGED <<zkVars, applied>>
  /\ Goto(s, "failed")
  /\ UNCHANGED <<level, local, closed, missed>>

\* Nothing else is retried: ensurePath fails, and with it setData or the watch.
RequestFails(c) ==
  /\ Fault
  /\ pc[c] \in {"exists", "create", "createLeaf", "getData"}
  /\ \/ UNCHANGED zkVars
     \/ pc[c] = "create" /\ CreateNode(c)
  /\ Goto(c, "failed")
  /\ UNCHANGED <<level, local, closed, applied, missed>>

\* Disconnected or Expired: the watch fires without a change.
ConnectionEvent(w) ==
  /\ Fault
  /\ pc[w] = "watching" /\ w \in armed
  /\ armed' = armed \ {w}
  /\ UNCHANGED <<created, data, callVars, local, closed, applied, missed>>

-----------------------------------------------------------------------------
EnsureStep(c) == ExistsReturns(c) \/ CreateReturns(c)
SetDataStep(s) == SetDataReturns(s) \/ SetDataNoNode(s) \/ CreateLeafReturns(s)
WatchStep(w) == GetDataReturns(w) \/ GetDataIgnored(w) \/ WatchFires(w)

Next ==
  \/ \E c \in Calls : EnsureStep(c) \/ RequestFails(c)
  \/ \E s \in Setters :
       SetDataCalled(s) \/ SetDataStep(s) \/ SetDataRetries(s) \/ SetDataFails(s)
  \/ \E w \in Watches :
       WatchCalled(w) \/ WatchStep(w) \/ CloseWatch(w) \/ ConnectionEvent(w)

Spec == Init /\ [][Next]_vars

\* ZooKeeper answers, and events arrive.
FairSpec ==
  /\ Spec
  /\ \A c \in Calls : WF_vars(EnsureStep(c))
  /\ \A s \in Setters : WF_vars(SetDataStep(s))
  /\ \A w \in Watches : WF_vars(WatchStep(w))

-----------------------------------------------------------------------------
\* Type correctness of the client's and ZooKeeper's state.
ZkTypeOK ==
  /\ created \in 0 .. Depth
  /\ data \in Setters \cup {Empty}
  /\ pc \in [Calls -> States]
  /\ level \in [Calls -> 1 .. Depth]
  /\ armed \subseteq Watches /\ closed \subseteq Watches
  /\ local \in [Watches -> Setters \cup {Empty}]
  /\ faults \in 0 .. MaxFaults
  /\ applied \subseteq Setters /\ missed \subseteq Setters

\* Ensuring a path never takes away data somebody has written in between, however
\* the steps of several ensurePath and setData calls interleave
\* (ZooKeeperClient.scala:79-107).
EnsuringKeepsData == [][data # Empty => data' # Empty]_vars

\* Processes that create the same path at the same time all succeed: only a fault
\* makes a call fail ("Someone beat us to creation", ZooKeeperClient.scala:86).
RacingCreatorsSucceed == \A c \in Calls : pc[c] = "failed" => faults > 0

\* A setData that succeeded was in the node at some moment of the call, whatever
\* was lost and repeated, unless it met a missing node on its way
\* (ZooKeeperClient.scala:109-120).
AckedWriteWasMade ==
  \A s \in Setters : pc[s] = "done" => s \in applied \cup missed

\* Every watch that is not closed and whose loop has not failed comes to show the
\* node's data: no write falls between reading and watching
\* (ZooKeeperClient.scala:189-199).
WatchConverges ==
  \A w \in Watches, s \in Setters :
    (pc[w] # "idle" /\ data = s) ~>
      (local[w] = s \/ data # s \/ w \in closed \/ pc[w] = "failed")

\* A call of setData returns once the faults stop.
SetDataTerminates ==
  \A s \in Setters : (pc[s] = "setData") ~> (pc[s] \in {"done", "failed"})

\* What ZkPathUpdater.scala:26 answers for a setData that succeeded, "Rate
\* changed to": the data got into the node.
ReportedWriteWasMade ==
  \A s \in Setters : pc[s] = "done" => s \in applied
=============================================================================
