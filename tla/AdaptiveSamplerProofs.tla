----------------------- MODULE AdaptiveSamplerProofs -----------------------
(***************************************************************************)
(* The agreements of the collectors that adapt one sample rate, for any    *)
(* number of collectors, any window and any flows: who leads, that a rate  *)
(* of 0 stays, and what stands in the ring buffers.                        *)
(***************************************************************************)
EXTENDS AdaptiveSampler, FiniteSetTheorems, NaturalsInduction, TLAPS

\* Before anyone departs only the collector elected takes itself for the leader,
\* and only it has calculated rates.
ElectedAlone ==
  \A c \in Collectors :
    (isLeader[c] \/ writing[c] # {}) /\ ~departed => elected = c

IInv ==
  /\ isLeader \in [Collectors -> BOOLEAN]
  /\ writing \in [Collectors -> SUBSET Rates]
  /\ rateRead \in [Collectors -> Rates] /\ rateSeen \in [Collectors -> Rates]
  /\ sampleRate \in Rates
  /\ ElectedAlone

LEMMA InitIInv == Init => IInv
  BY SamplerAssumption DEF Init, IInv, ElectedAlone, Rates

\* A calculated rate is a rate, and only a collector that takes itself for the
\* leader, and that has seen a rate other than 0, gets one.
LEMMA CalculatedRates ==
  ASSUME IInv, NEW c \in Collectors, NEW buf, NEW r \in Calculated(c, buf), r # None
  PROVE  r \in Rates /\ isLeader[c] /\ rateSeen[c] # 0
<1>1. PICK q \in NewRates(c) : r = q /\ isLeader[c] /\ permit[c]
  BY DEF Calculated
<1>2. QED BY <1>1, SamplerAssumption DEF NewRates, Rates

LEMMA PullsKeepsIInv == ASSUME IInv, NEW c \in Collectors, Pulls(c) PROVE IInv'
<1>1. PICK r \in Calculated(c, buffer'[c]) :
        IF r = None
          THEN UNCHANGED <<permit, writing>>
          ELSE /\ writing' = [writing EXCEPT ![c] = @ \cup {r}]
               /\ permit' = [permit EXCEPT ![c] = FALSE]
  BY DEF Pulls
<1>2. UNCHANGED <<isLeader, rateRead, rateSeen, sampleRate, departed, elected>>
  BY DEF Pulls, nodes, copies, election
<1>3. CASE r = None
  BY <1>1, <1>2, <1>3 DEF IInv, ElectedAlone
<1>4. CASE r # None
  <2>1. r \in Rates /\ isLeader[c]
    BY <1>4, CalculatedRates
  <2>2. QED BY <1>1, <1>2, <1>4, <2>1 DEF IInv, ElectedAlone
<1>5. QED BY <1>3, <1>4

LEMMA NextIInv == IInv /\ [Next]_vars => IInv'
<1> SUFFICES ASSUME IInv, [Next]_vars PROVE IInv'
  OBVIOUS
<1> USE DEF nodes, copies, flow, election, update
<1>1. ASSUME NEW c \in Collectors, MemberDataUpdated(c) PROVE IInv'
  BY <1>1 DEF MemberDataUpdated, IInv, ElectedAlone
<1>3. ASSUME NEW c \in Collectors, WatchStep(c) PROVE IInv'
  BY <1>3 DEF WatchStep, ReadsRate, SeesRate, SeesTarget, IInv, ElectedAlone
<1>4. ASSUME NEW c \in Collectors, MembershipStep(c) PROVE IInv'
  <2>1. CASE JoinsGroup(c)
    BY <2>1 DEF JoinsGroup, IInv, ElectedAlone
  <2>2. CASE LosesSession(c)
    BY <2>2 DEF LosesSession, Departs, IInv, ElectedAlone
  <2>3. CASE Elected(c)
    BY <2>3, SamplerAssumption DEF Elected, IInv, ElectedAlone
  <2>4. CASE OnElected(c)
    BY <2>4 DEF OnElected, IInv, ElectedAlone
  <2>5. CASE OnDefeated(c)
    BY <2>5 DEF OnDefeated, IInv, ElectedAlone
  <2>6. CASE Restarts(c)
    BY <2>6, SamplerAssumption DEF Restarts, Departs, IInv, ElectedAlone, Rates
  <2>7. QED BY <1>4, <2>1, <2>2, <2>3, <2>4, <2>5, <2>6 DEF MembershipStep
<1>5. ASSUME NEW c \in Collectors, UpdateStep(c) PROVE IInv'
  <2>1. CASE Pulls(c)
    BY <2>1, PullsKeepsIInv
  <2>2. CASE PermitReturns(c)
    BY <2>2 DEF PermitReturns, IInv, ElectedAlone
  <2>3. ASSUME NEW r \in Rates, WriteLands(c, r) PROVE IInv'
    BY <2>3 DEF WriteLands, IInv, ElectedAlone
  <2>4. ASSUME NEW r \in Rates, WriteFails(c, r) PROVE IInv'
    BY <2>4 DEF WriteFails, IInv, ElectedAlone
  <2>5. CASE PullFails(c)
    BY <2>5 DEF PullFails, IInv, ElectedAlone
  <2>6. QED BY <1>5, <2>1, <2>2, <2>3, <2>4, <2>5 DEF UpdateStep
<1>6. ASSUME NEW c \in Collectors, NEW n \in Flows, FlowReports(c, n) PROVE IInv'
  BY <1>6 DEF FlowReports, IInv, ElectedAlone
<1>7. ASSUME NEW r \in Rates, OperatorSetsRate(r) PROVE IInv'
  BY <1>7 DEF OperatorSetsRate, IInv, ElectedAlone
<1>8. ASSUME NEW t \in Targets, OperatorSetsTarget(t) PROVE IInv'
  BY <1>8 DEF OperatorSetsTarget, IInv, ElectedAlone
<1>9. CASE UNCHANGED vars
  BY <1>9 DEF vars, IInv, ElectedAlone
<1>10. QED BY <1>1, <1>3, <1>4, <1>5, <1>6, <1>7, <1>8, <1>9 DEF Next

\* The invariant of the election and of the rates on their way.
THEOREM SamplerInvariance == Spec => []IInv
  BY InitIInv, NextIInv, PTL DEF Spec

\* As long as nobody has left the group, one collector at most takes itself for
\* the leader or has written.
THEOREM OneLeader == Spec => []OneLeaderUntilDeparture
<1>1. IInv => OneLeaderUntilDeparture
  BY DEF IInv, ElectedAlone, OneLeaderUntilDeparture
<1>2. QED BY SamplerInvariance, <1>1, PTL

\* A pull of a collector that has seen the 0 writes nothing.
LEMMA PullsKeepsZero == ASSUME IInv, NEW c \in Collectors, Pulls(c), rateSeen[c] = 0
                        PROVE  UNCHANGED writing
<1>1. PICK r \in Calculated(c, buffer'[c]) :
        IF r = None THEN UNCHANGED <<permit, writing>>
        ELSE /\ writing' = [writing EXCEPT ![c] = @ \cup {r}]
             /\ permit' = [permit EXCEPT ![c] = FALSE]
  BY DEF Pulls
<1>2. r = None
  BY CalculatedRates
<1>3. QED BY <1>1, <1>2

LEMMA NextKeepsZero ==
  IInv /\ ZeroSettled /\ [Next]_vars => ZeroSettled' \/ \E r \in Rates : OperatorSetsRate(r)
<1> SUFFICES ASSUME IInv, ZeroSettled, [Next]_vars,
                    ~ \E r \in Rates : OperatorSetsRate(r)
             PROVE  ZeroSettled'
  OBVIOUS
<1> USE DEF nodes, copies, flow, election, update
<1>1. ASSUME NEW c \in Collectors, MemberDataUpdated(c) PROVE ZeroSettled'
  BY <1>1 DEF MemberDataUpdated, ZeroSettled
<1>2. ASSUME NEW c \in Collectors, WatchStep(c) PROVE ZeroSettled'
  BY <1>2 DEF WatchStep, ReadsRate, SeesRate, SeesTarget, ZeroSettled
<1>3. ASSUME NEW c \in Collectors, MembershipStep(c) PROVE ZeroSettled'
  <2>1. CASE Restarts(c)
    BY <2>1 DEF Restarts, Departs, ZeroSettled, IInv
  <2>2. CASE ~Restarts(c)
    BY <1>3, <2>2
       DEF MembershipStep, JoinsGroup, LosesSession, Departs, Elected, OnElected, OnDefeated,
           ZeroSettled
  <2>3. QED BY <2>1, <2>2
<1>4. ASSUME NEW c \in Collectors, UpdateStep(c) PROVE ZeroSettled'
  <2>1. CASE Pulls(c)
    <3>1. UNCHANGED writing
      BY <2>1, PullsKeepsZero DEF ZeroSettled
    <3>2. QED BY <2>1, <3>1 DEF Pulls, ZeroSettled
  <2>2. CASE PermitReturns(c)
    BY <2>2 DEF PermitReturns, ZeroSettled
  <2>3. ASSUME NEW r \in Rates PROVE ~WriteLands(c, r) /\ ~WriteFails(c, r)
    BY DEF WriteLands, WriteFails, ZeroSettled
  <2>4. CASE PullFails(c)
    BY <2>4 DEF PullFails, ZeroSettled
  <2>5. QED BY <1>4, <2>1, <2>2, <2>3, <2>4 DEF UpdateStep
<1>5. ASSUME NEW c \in Collectors, NEW n \in Flows, FlowReports(c, n) PROVE ZeroSettled'
  BY <1>5 DEF FlowReports, ZeroSettled
<1>6. ASSUME NEW x \in Targets, OperatorSetsTarget(x) PROVE ZeroSettled'
  BY <1>6 DEF OperatorSetsTarget, ZeroSettled
<1>7. CASE UNCHANGED vars
  BY <1>7 DEF vars, ZeroSettled
<1>8. QED BY <1>1, <1>2, <1>3, <1>4, <1>5, <1>6, <1>7 DEF Next

\* A rate of 0 that has settled is left only by an operator.
THEOREM ZeroRateStays == Spec => ZeroStays
<1>1. IInv /\ [Next]_vars =>
        [ZeroSettled => ZeroSettled' \/ \E r \in Rates : OperatorSetsRate(r)]_vars
  BY NextKeepsZero
<1>2. QED BY <1>1, SamplerInvariance, PTL DEF Spec, ZeroStays

-----------------------------------------------------------------------------
(* What stands in the ring buffer.                                         *)

\* A buffer that is not full still ends with the 0 it began with.
BufferInv ==
  /\ DOMAIN buffer = Collectors
  /\ \A c \in Collectors :
       /\ buffer[c] \in Seq(Range(buffer[c]))
       /\ Len(buffer[c]) \in 1 .. WindowSize
       /\ Len(buffer[c]) < WindowSize => buffer[c][Len(buffer[c])] = 0

\* The newest sum goes in front; only a full buffer drops its oldest.
LEMMA PushFacts ==
  ASSUME NEW S, NEW buf \in Seq(S), NEW sum \in S, Len(buf) \in 1 .. WindowSize
  PROVE  /\ Push(buf, sum) \in Seq(S)
         /\ Len(Push(buf, sum)) = IF Len(buf) < WindowSize THEN Len(buf) + 1 ELSE WindowSize
         /\ Len(buf) < WindowSize => Push(buf, sum)[Len(buf) + 1] = buf[Len(buf)]
<1> DEFINE all == <<sum>> \o buf
           n == IF Len(buf) < WindowSize THEN Len(buf) + 1 ELSE WindowSize
<1>1. /\ all \in Seq(S) /\ Len(all) = Len(buf) + 1
      /\ \A k \in 1 .. Len(buf) : all[k + 1] = buf[k]
  OBVIOUS
<1>2. n \in 1 .. Len(all)
  BY <1>1, SamplerAssumption
<1>3. Push(buf, sum) = SubSeq(all, 1, n)
  BY DEF Push
<1> HIDE DEF all
<1>4. /\ SubSeq(all, 1, n) \in Seq(S) /\ Len(SubSeq(all, 1, n)) = n
      /\ \A k \in 1 .. n : SubSeq(all, 1, n)[k] = all[k]
  BY <1>1, <1>2
<1>5. Len(buf) < WindowSize => n = Len(buf) + 1 /\ all[n] = buf[Len(buf)]
  BY <1>1
<1>6. QED BY <1>2, <1>3, <1>4, <1>5

\* A sequence is one over its own elements, whatever they are.
LEMMA OverItsElements ==
  ASSUME NEW S, NEW s \in Seq(S)
  PROVE  s \in Seq(Range(s))
<1>1. s = [k \in 1 .. Len(s) |-> s[k]] /\ Len(s) \in Nat
  OBVIOUS
<1>2. \A k \in 1 .. Len(s) : s[k] \in Range(s)
  BY DEF Range
<1>3. QED BY <1>1, <1>2

LEMMA NextKeepsBuffer == BufferInv /\ [Next]_vars => BufferInv'
<1> SUFFICES ASSUME BufferInv, [Next]_vars PROVE BufferInv'
  OBVIOUS
<1>1. ASSUME NEW c \in Collectors, Pulls(c) PROVE BufferInv'
  <2> DEFINE total == Sum(members)
             S == Range(buffer[c]) \cup {total}
             b == Push(buffer[c], total)
  <2>1. buffer' = [buffer EXCEPT ![c] = b]
    BY <1>1 DEF Pulls
  <2>2. buffer[c] \in Seq(S) /\ total \in S /\ Len(buffer[c]) \in 1 .. WindowSize
    BY DEF BufferInv
  <2>3. b \in Seq(S)
    BY <2>2, PushFacts
  <2>4. Len(b) = IF Len(buffer[c]) < WindowSize THEN Len(buffer[c]) + 1 ELSE WindowSize
    BY <2>2, PushFacts
  <2>5. Len(buffer[c]) < WindowSize => b[Len(buffer[c]) + 1] = buffer[c][Len(buffer[c])]
    BY <2>2, PushFacts
  <2> HIDE DEF b, S, total
  <2>6. b \in Seq(Range(b))
    BY <2>3, OverItsElements
  <2>7. Len(b) \in 1 .. WindowSize
    BY <2>2, <2>4, SamplerAssumption
  <2>8. Len(b) < WindowSize => b[Len(b)] = 0
    BY <2>2, <2>4, <2>5, SamplerAssumption DEF BufferInv
  <2>9. QED BY <2>1, <2>6, <2>7, <2>8 DEF BufferInv
<1>2. ASSUME NEW c \in Collectors, Restarts(c) PROVE BufferInv'
  <2>1. buffer' = [buffer EXCEPT ![c] = <<0>>]
    BY <1>2 DEF Restarts
  <2>2. <<0>> \in Seq(Range(<<0>>)) /\ Len(<<0>>) = 1 /\ <<0>>[1] = 0
    BY DEF Range
  <2>3. WindowSize \in Nat \ {0}
    BY SamplerAssumption
  <2> DEFINE b == <<0>>
  <2>4. /\ buffer' = [buffer EXCEPT ![c] = b]
        /\ b \in Seq(Range(b)) /\ Len(b) \in 1 .. WindowSize
        /\ Len(b) < WindowSize => b[Len(b)] = 0
    BY <2>1, <2>2, <2>3
  <2> HIDE DEF b
  <2>5. QED BY <2>4 DEF BufferInv
<1>3. \/ UNCHANGED buffer
      \/ \E c \in Collectors : Pulls(c) \/ Restarts(c)
  BY DEF Next, vars, MemberDataUpdated, WatchStep, ReadsRate, SeesRate, SeesTarget,
         MembershipStep, JoinsGroup, LosesSession, Elected, OnElected, OnDefeated,
         UpdateStep, PullFails, PermitReturns, WriteLands, WriteFails, FlowReports,
         OperatorSetsRate, OperatorSetsTarget, nodes, copies, flow, election, update
<1>4. CASE UNCHANGED buffer
  BY <1>4 DEF BufferInv
<1>5. QED BY <1>1, <1>2, <1>3, <1>4

\* No window is calculated on before it is full: until then it ends with a 0,
\* which fails the check for valid data.
THEOREM ShortWindowsAreInvalid == Spec => []ValidOnlyWhenFull
<1>1. Init => BufferInv
  <2>1. <<0>> \in Seq(Range(<<0>>)) /\ Len(<<0>>) = 1 /\ <<0>>[1] = 0
    BY DEF Range
  <2>2. QED BY <2>1, SamplerAssumption DEF Init, BufferInv
<1>2. BufferInv => ValidOnlyWhenFull
  BY SamplerAssumption DEF BufferInv, ValidOnlyWhenFull
<1>3. QED BY <1>1, <1>2, NextKeepsBuffer, PTL DEF Spec
-----------------------------------------------------------------------------
(* The sum of finitely many flows is a natural number.                     *)

(* Induction over the naturals, with a set for the property: < is           *)
(* well-founded, so a set of naturals has a least element.                  *)
LEMMA BelowIsWellFounded ==
  \E R : IsWellFoundedOn(R, Nat) /\ \A m, n \in Nat : m < n => <<m, n>> \in R
<1>1. \A m, n \in Nat : m < n => <<m, n>> \in OpToRel(<, Nat)
  BY DEF OpToRel
<1>2. QED BY <1>1, NatLessThanWellFounded, Zenon

LEMMA MinimalMember ==
  ASSUME NEW R, NEW S, IsWellFoundedOn(R, S), NEW T, T \subseteq S, T # {}
  PROVE  \E n \in T : \A m \in T : ~(<<m, n>> \in R)
  BY WFMin

LEMMA Induct ==
  ASSUME NEW T, 0 \in T, \A n \in Nat : n \in T => n + 1 \in T
  PROVE  Nat \subseteq T
<1> SUFFICES ASSUME ~(Nat \subseteq T) PROVE FALSE
  OBVIOUS
<1> DEFINE U == {n \in Nat : n \notin T}
           S == Nat
<1>1. U \subseteq S /\ U # {}
  OBVIOUS
<1>2. PICK R : IsWellFoundedOn(R, S) /\ \A m, n \in Nat : m < n => <<m, n>> \in R
  BY BelowIsWellFounded
<1> HIDE DEF U, S
<1>3. PICK n \in U : \A m \in U : ~(<<m, n>> \in R)
  BY <1>1, <1>2, MinimalMember
<1>4. n \in Nat /\ n \notin T /\ n # 0
  BY <1>3 DEF U
<1>5. n - 1 \in Nat /\ n - 1 < n /\ (n - 1) + 1 = n
  BY <1>4
<1>6. n - 1 \notin U
  BY <1>2, <1>3, <1>4, <1>5
<1>7. n - 1 \in T
  BY <1>5, <1>6 DEF U
<1>8. QED BY <1>4, <1>5, <1>7

(* The subsets of who that have at most n members. *)
Small(who, n) == {s \in SUBSET who : Cardinality(s) <= n}
Chosen(s) == CHOOSE c \in s : TRUE

LEMMA SmallerOnes ==
  ASSUME NEW who, IsFiniteSet(who)
  PROVE  /\ Small(who, 0) = {{}}
         /\ \A n \in Nat : Small(who, n) \subseteq Small(who, n + 1)
         /\ \A n \in Nat : \A s \in Small(who, n + 1) :
              s # {} => Chosen(s) \in s /\ s \ {Chosen(s)} \in Small(who, n)
         /\ Small(who, Cardinality(who)) = SUBSET who
<1>1. \A s \in SUBSET who : IsFiniteSet(s) /\ Cardinality(s) \in Nat /\ Cardinality(s) <= Cardinality(who)
  BY FS_Subset, FS_CardinalityType
<1>2. \A s \in SUBSET who : Cardinality(s) = 0 <=> s = {}
  BY <1>1, FS_EmptySet
<1>3. Small(who, 0) = {{}}
  BY <1>1, <1>2 DEF Small
<1>4. \A n \in Nat : Small(who, n) \subseteq Small(who, n + 1)
  BY <1>1 DEF Small
<1>5. ASSUME NEW n \in Nat, NEW s \in Small(who, n + 1), s # {}
      PROVE  Chosen(s) \in s /\ s \ {Chosen(s)} \in Small(who, n)
  <2>1. s \in SUBSET who /\ Cardinality(s) <= n + 1
    BY DEF Small
  <2>2. Chosen(s) \in s
    BY <1>5 DEF Chosen
  <2>3. Cardinality(s \ {Chosen(s)}) = Cardinality(s) - 1
    BY <1>1, <2>1, <2>2, FS_RemoveElement
  <2>4. QED BY <1>1, <2>1, <2>2, <2>3 DEF Small
<1>6. Small(who, Cardinality(who)) = SUBSET who
  BY <1>1 DEF Small
<1>7. QED BY <1>3, <1>4, <1>5, <1>6

Total(f, s) == IF s = {} THEN 0 ELSE memberData[Chosen(s)] + f[s \ {Chosen(s)}]

LEMMA SumExists ==
  ASSUME NEW who, IsFiniteSet(who)
  PROVE  \E f : f = [s \in SUBSET who |-> Total(f, s)]
<1> DEFINE Sums(n, f) == f = [s \in Small(who, n) |-> Total(f, s)]
           P == {n \in Nat : \E f : Sums(n, f)}
<1>1. 0 \in P
  <2> DEFINE f == [s \in {{}} |-> 0]
  <2>1. f = [s \in {{}} |-> Total(f, s)]
    BY DEF Total
  <2>2. Sums(0, f)
    BY <2>1, SmallerOnes
  <2>3. QED BY <2>2
<1>2. ASSUME NEW n \in Nat, n \in P PROVE n + 1 \in P
  <2>1. PICK f : Sums(n, f)
    BY <1>2
  <2> DEFINE g == [s \in Small(who, n + 1) |-> Total(f, s)]
  <2>2. \A s \in Small(who, n) : f[s] = Total(f, s)
    BY <2>1
  <2>3. \A s \in Small(who, n) : g[s] = f[s]
    BY <2>2, SmallerOnes
  <2>4. \A s \in Small(who, n + 1) : s # {} => s \ {Chosen(s)} \in Small(who, n)
    BY SmallerOnes
  <2>5. \A s \in Small(who, n + 1) : Total(g, s) = Total(f, s)
    <3> HIDE DEF g
    <3> QED BY <2>3, <2>4 DEF Total
  <2>6. Sums(n + 1, g)
    BY <2>5
  <2> HIDE DEF g, Sums
  <2>7. QED BY <2>6
<1> HIDE DEF P
<1>3. Cardinality(who) \in P
  BY <1>1, <1>2, Induct, FS_CardinalityType
<1>4. QED BY <1>3, SmallerOnes DEF P

LEMMA SumIsNumber ==
  ASSUME NEW who, IsFiniteSet(who), \A c \in who : memberData[c] \in Nat
  PROVE  Sum(who) \in Nat
<1> DEFINE Body(f) == [s \in SUBSET who |-> Total(f, s)]
           total == CHOOSE f : f = Body(f)
           P == {n \in Nat : \A s \in Small(who, n) : total[s] \in Nat}
<1>1. Sum(who) = total[who]
  BY DEF Sum, FoldSet, MapThenFoldSet, Total, Chosen
<1>2. total = Body(total)
  BY SumExists
<1>3. \A s \in SUBSET who : total[s] = Total(total, s)
  BY <1>2
<1> HIDE DEF total
<1>4. 0 \in P
  <2>1. total[{}] = 0
    BY <1>3 DEF Total
  <2>2. Small(who, 0) = {{}}
    BY SmallerOnes
  <2>3. ASSUME NEW s \in Small(who, 0) PROVE total[s] \in Nat
    <3>1. s = {}
      BY <2>2
    <3>2. QED BY <2>1, <3>1
  <2>4. QED BY <2>3
<1>5. ASSUME NEW n \in Nat, n \in P PROVE n + 1 \in P
  <2> SUFFICES ASSUME NEW s \in Small(who, n + 1) PROVE total[s] \in Nat
    OBVIOUS
  <2>1. s \in SUBSET who
    BY DEF Small
  <2>2. CASE s = {}
    <3>1. total[s] = 0
      BY <1>3, <2>1, <2>2 DEF Total
    <3>2. QED BY <3>1
  <2>3. CASE s # {}
    <3>1. Chosen(s) \in s /\ s \ {Chosen(s)} \in Small(who, n)
      BY <2>3, SmallerOnes
    <3>2. total[s \ {Chosen(s)}] \in Nat /\ memberData[Chosen(s)] \in Nat
      BY <1>5, <2>1, <3>1
    <3>3. total[s] = memberData[Chosen(s)] + total[s \ {Chosen(s)}]
      BY <1>3, <2>1, <2>3 DEF Total
    <3>4. QED BY <3>2, <3>3
  <2>4. QED BY <2>2, <2>3
<1> HIDE DEF P
<1>6. Cardinality(who) \in P
  BY <1>4, <1>5, Induct, FS_CardinalityType
<1>7. QED BY <1>1, <1>6, SmallerOnes DEF P

(* The group stays finite, however many collectors there are, so that its   *)
(* flows have a sum.                                                         *)
SamplerInv == SamplerTypeOK /\ IsFiniteSet(members)

LEMMA PullsKeepsTypes == ASSUME SamplerInv, NEW c \in Collectors, Pulls(c) PROVE SamplerInv'
<1> DEFINE total == Sum(members)
<1>1. SamplerTypeOK /\ IsFiniteSet(members)
  BY DEF SamplerInv
<1>2. total \in Nat
  <2>1. \A d \in members : memberData[d] \in Nat
    BY <1>1, SamplerAssumption DEF SamplerTypeOK
  <2>2. QED BY <1>1, <2>1, SumIsNumber
<1>3. buffer[c] \in Seq(Nat) /\ Len(buffer[c]) \in 1 .. WindowSize
  BY <1>1 DEF SamplerTypeOK
<1>4. Push(buffer[c], total) \in Seq(Nat) /\ Len(Push(buffer[c], total)) \in 1 .. WindowSize
  <2> HIDE DEF total
  <2>1. Push(buffer[c], total) \in Seq(Nat)
    BY <1>2, <1>3, PushFacts
  <2>2. Len(Push(buffer[c], total)) = IF Len(buffer[c]) < WindowSize THEN Len(buffer[c]) + 1 ELSE WindowSize
    BY <1>2, <1>3, PushFacts
  <2>3. QED BY <1>3, <2>1, <2>2, SamplerAssumption
<1>5. buffer' = [buffer EXCEPT ![c] = Push(buffer[c], total)]
  BY DEF Pulls
<1> HIDE DEF total
<1>6. buffer' \in [Collectors -> Seq(Nat)] /\ \A d \in Collectors : Len(buffer'[d]) \in 1 .. WindowSize
  BY <1>1, <1>4, <1>5 DEF SamplerTypeOK
<1>7. permit' \in [Collectors -> BOOLEAN] /\ writing' \in [Collectors -> SUBSET Rates]
  <2>1. PICK r \in Calculated(c, buffer'[c]) :
          IF r = None
            THEN UNCHANGED <<permit, writing>>
            ELSE /\ writing' = [writing EXCEPT ![c] = @ \cup {r}]
                 /\ permit' = [permit EXCEPT ![c] = FALSE]
    BY DEF Pulls
  <2>2. r = None \/ r \in Rates
    BY SamplerAssumption DEF Calculated, NewRates, Rates
  <2>3. permit \in [Collectors -> BOOLEAN] /\ writing \in [Collectors -> SUBSET Rates]
    BY <1>1 DEF SamplerTypeOK
  <2>4. CASE r = None
    BY <2>1, <2>3, <2>4
  <2>5. CASE r # None
    <3>1. permit' = [permit EXCEPT ![c] = FALSE] /\ writing' = [writing EXCEPT ![c] = @ \cup {r}]
      BY <2>1, <2>5
    <3>2. QED BY <2>2, <2>3, <2>5, <3>1
  <2>6. QED BY <2>4, <2>5
<1>8. UNCHANGED <<nodes, copies, flow, election, pulling, events>>
  BY DEF Pulls
<1>9. QED BY <1>1, <1>6, <1>7, <1>8 DEF SamplerInv, SamplerTypeOK, nodes, copies, flow, election

LEMMA NextKeepsTypes == SamplerInv /\ [Next]_vars => SamplerInv'
<1> SUFFICES ASSUME SamplerInv, [Next]_vars PROVE SamplerInv'
  OBVIOUS
<1> USE SamplerAssumption DEF nodes, copies, flow, election, update
<1>1. SamplerTypeOK /\ IsFiniteSet(members)
  BY DEF SamplerInv
<1>2. ASSUME NEW c \in Collectors, MemberDataUpdated(c) PROVE SamplerInv'
  BY <1>1, <1>2 DEF MemberDataUpdated, SamplerInv, SamplerTypeOK
<1>3. ASSUME NEW c \in Collectors, WatchStep(c) PROVE SamplerInv'
  <2>1. CASE ReadsRate(c)
    BY <1>1, <2>1 DEF ReadsRate, SamplerInv, SamplerTypeOK
  <2>2. CASE SeesRate(c)
    BY <1>1, <2>2 DEF SeesRate, SamplerInv, SamplerTypeOK
  <2>3. CASE SeesTarget(c)
    BY <1>1, <2>3 DEF SeesTarget, SamplerInv, SamplerTypeOK
  <2>4. QED BY <1>3, <2>1, <2>2, <2>3 DEF WatchStep
<1>4. ASSUME NEW c \in Collectors, MembershipStep(c) PROVE SamplerInv'
  <2>1. CASE JoinsGroup(c)
    <3>1. members' = members \cup {c} /\ IsFiniteSet(members')
      BY <1>1, <2>1, FS_AddElement DEF JoinsGroup
    <3>2. QED BY <1>1, <2>1, <3>1 DEF JoinsGroup, SamplerInv, SamplerTypeOK
  <2>2. ASSUME Departs(c)
        PROVE  /\ IsFiniteSet(members') /\ members' \subseteq Collectors
               /\ elected' \in Collectors \cup {None} /\ departed' \in BOOLEAN
    <3>1. members' \subseteq members
      BY <2>2 DEF Departs
    <3>2. IsFiniteSet(members')
      BY <1>1, <3>1, FS_Subset
    <3>3. QED BY <1>1, <2>2, <3>1, <3>2 DEF Departs, SamplerTypeOK
  <2>3. Event => events' \in 0 .. MaxEvents
    BY <1>1 DEF Event, SamplerTypeOK
  <2>4. CASE LosesSession(c)
    <3>1. pulling' \subseteq Collectors
      BY <1>1, <2>4 DEF LosesSession, SamplerTypeOK
    <3>2. QED BY <1>1, <2>2, <2>3, <2>4, <3>1 DEF LosesSession, SamplerInv, SamplerTypeOK
  <2>5. CASE Restarts(c)
    <3>1. pulling' \subseteq Collectors
      BY <1>1, <2>5 DEF Restarts, SamplerTypeOK
    <3>2. buffer' \in [Collectors -> Seq(Nat)] /\ \A d \in Collectors : Len(buffer'[d]) \in 1 .. WindowSize
      <4> DEFINE b == <<0>>
      <4>1. b \in Seq(Nat) /\ Len(b) \in 1 .. WindowSize /\ buffer' = [buffer EXCEPT ![c] = b]
        BY <2>5 DEF Restarts
      <4> HIDE DEF b
      <4>2. QED BY <1>1, <4>1 DEF SamplerTypeOK
    <3>3. /\ rateRead' \in [Collectors -> Rates] /\ rateSeen' \in [Collectors -> Rates]
          /\ targetSeen' \in [Collectors -> Targets \cup {0}] /\ curReqRate' \in [Collectors -> Flows]
          /\ isLeader' \in [Collectors -> BOOLEAN] /\ permit' \in [Collectors -> BOOLEAN]
      BY <1>1, <2>5 DEF Restarts, SamplerTypeOK, Rates
    <3>4. UNCHANGED <<nodes, memberData, writing>> /\ Departs(c) /\ Event
      BY <2>5 DEF Restarts
    <3>5. QED BY <1>1, <2>2, <2>3, <3>1, <3>2, <3>3, <3>4 DEF SamplerInv, SamplerTypeOK
  <2>6. CASE Elected(c) \/ OnElected(c) \/ OnDefeated(c)
    BY <1>1, <2>6 DEF Elected, OnElected, OnDefeated, SamplerInv, SamplerTypeOK
  <2>7. QED BY <1>4, <2>1, <2>4, <2>5, <2>6 DEF MembershipStep
<1>5. ASSUME NEW c \in Collectors, UpdateStep(c) PROVE SamplerInv'
  <2>1. CASE Pulls(c)
    BY <2>1, PullsKeepsTypes
  <2>2. CASE PermitReturns(c)
    BY <1>1, <2>2 DEF PermitReturns, SamplerInv, SamplerTypeOK
  <2>3. ASSUME NEW r \in Rates, WriteLands(c, r) \/ WriteFails(c, r) PROVE SamplerInv'
    <3>1. CASE WriteLands(c, r)
      BY <1>1, <3>1 DEF WriteLands, SamplerInv, SamplerTypeOK
    <3>2. CASE WriteFails(c, r)
      BY <1>1, <3>2 DEF WriteFails, SamplerInv, SamplerTypeOK
    <3>3. QED BY <2>3, <3>1, <3>2
  <2>4. CASE PullFails(c)
    BY <1>1, <2>4 DEF PullFails, Event, SamplerInv, SamplerTypeOK
  <2>5. QED BY <1>5, <2>1, <2>2, <2>3, <2>4 DEF UpdateStep
<1>6. ASSUME NEW c \in Collectors, NEW n \in Flows, FlowReports(c, n) PROVE SamplerInv'
  BY <1>1, <1>6 DEF FlowReports, Event, SamplerInv, SamplerTypeOK
<1>7. ASSUME NEW r \in Rates, OperatorSetsRate(r) PROVE SamplerInv'
  BY <1>1, <1>7 DEF OperatorSetsRate, Event, SamplerInv, SamplerTypeOK
<1>8. ASSUME NEW t \in Targets, OperatorSetsTarget(t) PROVE SamplerInv'
  BY <1>1, <1>8 DEF OperatorSetsTarget, Event, SamplerInv, SamplerTypeOK
<1>9. CASE UNCHANGED vars
  BY <1>1, <1>9 DEF vars, SamplerInv, SamplerTypeOK
<1>10. QED BY <1>2, <1>3, <1>4, <1>5, <1>6, <1>7, <1>8, <1>9 DEF Next

(* Every collector's copies, buffer and permit stay of their types: what is *)
(* pushed into the ring buffer is a sum of flows, hence a natural number,   *)
(* and the buffer is neither empty nor longer than its window.              *)
THEOREM SamplerTypeCorrectness == Spec => []SamplerTypeOK
<1>1. Init => SamplerInv
  <2> SUFFICES ASSUME Init PROVE SamplerInv
    OBVIOUS
  <2>1. <<0>> \in Seq(Nat) /\ Len(<<0>>) \in 1 .. WindowSize
    BY SamplerAssumption
  <2>2. buffer \in [Collectors -> Seq(Nat)] /\ \A d \in Collectors : Len(buffer[d]) \in 1 .. WindowSize
    BY <2>1 DEF Init
  <2>3. IsFiniteSet(members)
    BY FS_EmptySet DEF Init
  <2>4. 0 \in Rates /\ 0 \in Flows /\ 0 \in 0 .. MaxEvents
    BY SamplerAssumption DEF Rates
  <2>5. /\ sampleRate \in Rates /\ targetStoreRate \in Targets
        /\ rateRead \in [Collectors -> Rates] /\ rateSeen \in [Collectors -> Rates]
        /\ targetSeen \in [Collectors -> Targets \cup {0}]
        /\ curReqRate \in [Collectors -> Flows] /\ memberData \in [Collectors -> Flows]
    BY <2>4 DEF Init
  <2>6. /\ members \subseteq Collectors /\ elected \in Collectors \cup {None}
        /\ isLeader \in [Collectors -> BOOLEAN] /\ permit \in [Collectors -> BOOLEAN]
        /\ pulling \subseteq Collectors /\ writing \in [Collectors -> SUBSET Rates]
        /\ departed \in BOOLEAN /\ events \in 0 .. MaxEvents
    BY <2>4 DEF Init
  <2>7. QED BY <2>2, <2>3, <2>5, <2>6 DEF SamplerInv, SamplerTypeOK
<1>2. SamplerInv => SamplerTypeOK
  BY DEF SamplerInv
<1>3. QED BY <1>1, <1>2, NextKeepsTypes, PTL DEF Spec
=============================================================================
