--------------------------- MODULE ZkClientProofs ---------------------------
(***************************************************************************)
(* What ensurePath and setData guarantee for any number of calls, any      *)
(* depth of the path and any number of faults.                             *)
(***************************************************************************)
EXTENDS ZkClient, TLAPS

\* A call of setData gets to ensurePath only through a missing node.
MissedOnTheWay ==
  \A s \in Setters : pc[s] \in {"exists", "create", "createLeaf"} => s \in missed

IInv == ZkTypeOK /\ RacingCreatorsSucceed /\ MissedOnTheWay /\ AckedWriteWasMade

LEMMA InitIInv == Init => IInv
  BY ZkAssumption
  DEF Init, IInv, ZkTypeOK, RacingCreatorsSucceed, MissedOnTheWay, AckedWriteWasMade,
      Calls, States, Ensuring

LEMMA EnsureKeepsIInv ==
  ASSUME IInv, NEW c \in Calls, EnsureStep(c) \/ RequestFails(c)
  PROVE  IInv'
<1> USE ZkAssumption DEF IInv, ZkTypeOK, RacingCreatorsSucceed, MissedOnTheWay,
        AckedWriteWasMade, Calls, States, Ensuring, Goto
<1>1. CASE ExistsReturns(c)
  BY <1>1 DEF ExistsReturns, NextLevel, Ensured, zkVars
<1>2. CASE CreateReturns(c)
  BY <1>2 DEF CreateReturns, CreateNode, NextLevel, Ensured
<1>3. CASE RequestFails(c)
  BY <1>3 DEF RequestFails, CreateNode, Fault, zkVars
<1>4. QED BY <1>1, <1>2, <1>3 DEF EnsureStep

LEMMA SetDataKeepsIInv ==
  ASSUME IInv, NEW s \in Setters,
         SetDataCalled(s) \/ SetDataStep(s) \/ SetDataRetries(s) \/ SetDataFails(s)
  PROVE  IInv'
<1> USE ZkAssumption DEF IInv, ZkTypeOK, RacingCreatorsSucceed, MissedOnTheWay,
        AckedWriteWasMade, Calls, States, Ensuring, Goto, Applied, zkVars, callVars, Exists
<1>1. CASE SetDataCalled(s)
  BY <1>1 DEF SetDataCalled
<1>2. CASE SetDataReturns(s)
  BY <1>2 DEF SetDataReturns
<1>3. CASE SetDataNoNode(s)
  BY <1>3 DEF SetDataNoNode, EnsureBegins
<1>4. CASE CreateLeafReturns(s)
  BY <1>4 DEF CreateLeafReturns
<1>5. CASE SetDataRetries(s)
  BY <1>5 DEF SetDataRetries, Fault
<1>6. CASE SetDataFails(s)
  BY <1>6 DEF SetDataFails, Fault
<1>7. QED BY <1>1, <1>2, <1>3, <1>4, <1>5, <1>6 DEF SetDataStep

LEMMA WatchKeepsIInv ==
  ASSUME IInv, NEW w \in Watches,
         WatchCalled(w) \/ WatchStep(w) \/ CloseWatch(w) \/ ConnectionEvent(w)
  PROVE  IInv'
<1> USE ZkAssumption DEF IInv, ZkTypeOK, RacingCreatorsSucceed, MissedOnTheWay,
        AckedWriteWasMade, Calls, States, Ensuring, Goto, zkVars, callVars
<1>1. CASE WatchCalled(w)
  BY <1>1 DEF WatchCalled, EnsureBegins
<1>2. CASE GetDataReturns(w)
  BY <1>2 DEF GetDataReturns
<1>3. CASE GetDataIgnored(w)
  BY <1>3 DEF GetDataIgnored
<1>4. CASE WatchFires(w)
  BY <1>4 DEF WatchFires
<1>5. CASE CloseWatch(w)
  BY <1>5 DEF CloseWatch
<1>6. CASE ConnectionEvent(w)
  BY <1>6 DEF ConnectionEvent, Fault
<1>7. QED BY <1>1, <1>2, <1>3, <1>4, <1>5, <1>6 DEF WatchStep

LEMMA NextIInv == IInv /\ [Next]_vars => IInv'
<1> SUFFICES ASSUME IInv, [Next]_vars PROVE IInv'
  OBVIOUS
<1>1. CASE Next
  BY <1>1, EnsureKeepsIInv, SetDataKeepsIInv, WatchKeepsIInv DEF Next
<1>2. CASE UNCHANGED vars
  BY <1>2 DEF vars, IInv, ZkTypeOK, RacingCreatorsSucceed, MissedOnTheWay, AckedWriteWasMade
<1>3. QED BY <1>1, <1>2

\* The state of the client and of ZooKeeper is well typed, and what is needed to
\* say so.
THEOREM ZkInvariance == Spec => []IInv
  BY InitIInv, NextIInv, PTL DEF Spec

\* Without a fault no call fails, however many processes create the same path
\* at the same time.
THEOREM CreatorsSucceed == Spec => []RacingCreatorsSucceed
<1>1. IInv => RacingCreatorsSucceed
  BY DEF IInv
<1>2. QED BY ZkInvariance, <1>1, PTL

\* A setData that succeeded without meeting a missing node was in the node.
THEOREM AckedWritesAreMade == Spec => []AckedWriteWasMade
<1>1. IInv => AckedWriteWasMade
  BY DEF IInv
<1>2. QED BY ZkInvariance, <1>1, PTL

LEMMA NextKeepsData == IInv /\ [Next]_vars => (data # Empty => data' # Empty)
<1> SUFFICES ASSUME IInv, [Next]_vars, data # Empty PROVE data' # Empty
  OBVIOUS
<1> USE ZkAssumption DEF zkVars, callVars
<1>1. ASSUME NEW c \in Calls, EnsureStep(c) \/ RequestFails(c) PROVE data' # Empty
  BY <1>1 DEF EnsureStep, ExistsReturns, CreateReturns, RequestFails, CreateNode
<1>2. ASSUME NEW s \in Setters,
             SetDataCalled(s) \/ SetDataStep(s) \/ SetDataRetries(s) \/ SetDataFails(s)
      PROVE  data' # Empty
  BY <1>2 DEF SetDataCalled, SetDataStep, SetDataReturns, SetDataNoNode,
              CreateLeafReturns, SetDataRetries, SetDataFails, Applied
<1>3. ASSUME NEW w \in Watches,
             WatchCalled(w) \/ WatchStep(w) \/ CloseWatch(w) \/ ConnectionEvent(w)
      PROVE  data' # Empty
  BY <1>3 DEF WatchCalled, WatchStep, GetDataReturns, GetDataIgnored, WatchFires,
              CloseWatch, ConnectionEvent
<1>4. CASE UNCHANGED vars
  BY <1>4 DEF vars
<1>5. QED BY <1>1, <1>2, <1>3, <1>4 DEF Next

\* No interleaving of ensurePath and setData replaces written data by the empty
\* data of a created node.
THEOREM EnsuringIsHarmless == Spec => EnsuringKeepsData
  BY ZkInvariance, NextKeepsData, PTL DEF Spec, EnsuringKeepsData
=============================================================================
