--------------------- MODULE OrchestratorAndAdvisoryProofs ---------------------
(* Proofs about Orchestrator: its types, the mutual exclusion of control    *)
(* plane cycles, and what a cycle may do, for any number of processes, any  *)
(* thresholds and any metrics; and about AiAdvisory, for any number of      *)
(* requests, sessions, contents and days and any caps: what the advisory    *)
(* spends, how many copies of an answer it keeps, and that a seller's       *)
(* decision stands.                                                        *)
EXTENDS Orchestrator, AiAdvisory, FiniteSetTheorems, TLAPS

(***************************************************************************)
(* Policy.                                                                 *)
(***************************************************************************)
(* Where dispatch is not throttled the queue is not overloaded, so that the *)
(* health evaluator does not call the metrics critical.                    *)
LEMMA UnthrottledIsNotCritical ==
    ASSUME NEW m \in Metrics, ~Throttled(m)
    PROVE  ~(m.pending > QueueOverload) /\ Severity(m) # "critical"
  BY DEF Throttled, Severity

(* The steps a plan can hold: an overload throttles, and is passed on to    *)
(* the decisions as a blackout; and what is left of the drift is too small *)
(* for a recovery of stuck jobs.                                           *)
Plannable == {"reset_stale_rebuild", "throttle_dispatch"}

LEMMA PlanIsNarrow ==
    ASSUME NEW m \in Metrics, NEW blackout \in BOOLEAN
    PROVE  Plan(m, blackout) \in Seq(Plannable)
  <1>1. CASE blackout \/ Throttled(m)
    BY <1>1 DEF Plan, Remedies
  <1>2. CASE ~(blackout \/ Throttled(m))
    <2>1. ~(m.pending > QueueOverload) /\ Severity(m) # "critical"
      BY <1>2, UnthrottledIsNotCritical
    <2>2. ~(Drift(m) >= 20)
      BY <2>1 DEF Drift
    <2>3. Plan(m, blackout) =
            If(m.running > MaxRebuildAttempts, "reset_stale_rebuild")
            \o <<>> \o <<>> \o <<>> \o If(HighRisk(m), "throttle_dispatch")
      BY <1>2, <2>1, <2>2, Zenon DEF Plan, Remedies, If
    <2>4. \A b, x : x \in Plannable => If(b, x) \in Seq(Plannable)
      BY DEF If
    <2>5. \A s, t \in Seq(Plannable) : s \o t \in Seq(Plannable)
      OBVIOUS
    <2>6. <<>> \in Seq(Plannable)
      OBVIOUS
    <2> DEFINE resets == If(m.running > MaxRebuildAttempts, "reset_stale_rebuild")
               throttles == If(HighRisk(m), "throttle_dispatch")
    <2>7. resets \in Seq(Plannable) /\ throttles \in Seq(Plannable)
      BY <2>4 DEF Plannable
    <2> HIDE DEF resets, throttles
    <2>8. resets \o <<>> \o <<>> \o <<>> \o throttles \in Seq(Plannable)
      BY <2>5, <2>6, <2>7
    <2>9. QED
      BY <2>3, <2>8 DEF resets, throttles
  <1>3. QED
    BY <1>1, <1>2

(* So the healer is run at most once for what remediation carries out.     *)
LEMMA RemediationRunsOnce ==
    ASSUME NEW m \in Metrics, NEW blackout \in BOOLEAN, NEW s
    PROVE  HealerRuns(s, Plan(m, blackout)) \in {0, 1}
  <1> DEFINE plan == Plan(m, blackout)
             ran == Executed(s, plan) \ {"throttle_dispatch"}
  <1>1. \A i \in 1..Len(plan) : plan[i] \in Plannable
    BY PlanIsNarrow
  <1>2. Len(plan) \in Nat /\ MaxActions \in Nat
    BY PlanIsNarrow, PolicyAssumption
  <1>3. 1..Least(Len(plan), MaxActions) \subseteq 1..Len(plan)
    BY <1>2 DEF Least
  <1>4. ran \subseteq {"reset_stale_rebuild"}
    BY <1>1, <1>3 DEF Executed, Plannable
  <1>5. ran = {} \/ ran = {"reset_stale_rebuild"}
    BY <1>4
  <1>6. QED
    BY <1>5, FS_EmptySet, FS_Singleton DEF HealerRuns

(***************************************************************************)
(* Types.                                                                  *)
(***************************************************************************)
LEMMA MetricsAreTyped ==
    ASSUME NEW m \in SomeMetrics PROVE m \in Metrics
  BY OrchestratorAssumption

LEMMA DownTyped == Down \in ProcType
  BY OrchestratorAssumption DEF Down, ProcType, ProcPcs, Views

LEMMA GoesTyped ==
    ASSUME OrchestratorTypeOK, NEW p \in Process, NEW pc \in ProcPcs
    PROVE  Goes(p, pc) \in [Process -> ProcType]
  BY DownTyped DEF Goes, ProcType, OrchestratorTypeOK

LEMMA ViewTyped == ASSUME NEW p PROVE View(p) \in Views
  BY DEF View, Views

LEMMA ReadTyped ==
    ASSUME OrchestratorTypeOK, NEW p \in Process, NEW pc \in ProcPcs
    PROVE  /\ [proc EXCEPT ![p].pc = pc, ![p].saw = View(p)] \in [Process -> ProcType]
           /\ [proc EXCEPT ![p].pc = pc, ![p].saw = View(p), ![p].age = 0] \in [Process -> ProcType]
  <1>1. View(p) \in Views /\ 0 \in 0..(TTL + 1)
    BY ViewTyped, OrchestratorAssumption
  <1>2. proc \in [Process -> ProcType]
    BY DEF OrchestratorTypeOK
  <1>3. QED
    BY <1>1, <1>2 DEF ProcType

LEMMA LeftTyped ==
    ASSUME OrchestratorTypeOK, NEW p \in Process
    PROVE  Left(p) \in 0..TTL
  BY OrchestratorAssumption DEF OrchestratorTypeOK, ProcType, Left

(* There is at most one row, before and after a write.                     *)
LeaseOK(L) == L = {} \/ \E l \in LeaseType : L = {l}

LEMMA WrittenTyped ==
    ASSUME OrchestratorTypeOK, NEW p \in Process, MayTake(p), WriteFits(p)
    PROVE  LeaseOK(Written(p))
  <1>1. Left(p) \in 0..TTL
    BY LeftTyped
  <1>2. CASE proc[p].saw = "mine"
    <2>1. PICK l \in LeaseType : lease = {l}
      BY <1>2 DEF OrchestratorTypeOK, WriteFits
    <2>2. Written(p) = {[l EXCEPT !.left = Left(p)]}
      BY <1>2, <2>1 DEF Written
    <2>3. [l EXCEPT !.left = Left(p)] \in LeaseType
      BY <1>1 DEF LeaseType
    <2>4. QED
      BY <2>2, <2>3 DEF LeaseOK
  <1>3. CASE proc[p].saw # "mine"
    <2>1. [holder |-> p, left |-> Left(p)] \in LeaseType
      BY <1>1 DEF LeaseType
    <2>2. QED
      BY <1>3, <2>1 DEF Written, LeaseOK
  <1>4. QED
    BY <1>2, <1>3

LEMMA BreakersTyped ==
    ASSUME NEW b \in BreakerType
    PROVE  /\ Asked(b) \in BreakerType
           /\ AfterFailure(b) \in BreakerType
           /\ AfterSuccess(b) \in BreakerType
           /\ Closed \in BreakerType
  BY OrchestratorAssumption DEF BreakerType, Asked, AfterFailure, AfterSuccess, Closed

LEMMA InitTyped == OrchestratorInit => OrchestratorTypeOK
  BY DownTyped, OrchestratorAssumption DEF OrchestratorInit, OrchestratorTypeOK, BreakerType, Closed

LEMMA AcquireTyped ==
    ASSUME OrchestratorTypeOK, NEW p \in Process, NEW from, NEW to \in ProcPcs,
           AcquireRead(p, from, to) \/ AcquireWrite(p, from, to) \/ AcquireFails(p, from, to)
    PROVE  OrchestratorTypeOK'
  <1>1. CASE AcquireRead(p, from, to)
    <2>1. proc' \in [Process -> ProcType]
      BY <1>1, ReadTyped DEF AcquireRead
    <2>2. QED
      BY <1>1, <2>1 DEF AcquireRead, OrchestratorTypeOK
  <1>2. CASE AcquireWrite(p, from, to)
    <2>1. LeaseOK(lease')
      BY <1>2, WrittenTyped DEF AcquireWrite
    <2>2. proc' \in [Process -> ProcType]
      BY <1>2, GoesTyped DEF AcquireWrite
    <2>3. late' \subseteq Process /\ overtaken' \subseteq Process
      BY <1>2 DEF AcquireWrite, OrchestratorTypeOK, Holders
    <2>4. QED
      BY <1>2, <2>1, <2>2, <2>3 DEF AcquireWrite, OrchestratorTypeOK, LeaseOK
  <1>3. CASE AcquireFails(p, from, to)
    BY <1>3, GoesTyped DEF AcquireFails, OrchestratorTypeOK
  <1>4. QED
    BY <1>1, <1>2, <1>3

LEMMA CycleTyped ==
    ASSUME OrchestratorTypeOK, NEW p \in Process,
           Heal(p) \/ Enterprise(p) \/ DispatchNothing(p) \/ Dispatch(p) \/ RebuildEnds(p)
             \/ CycleRaises(p)
    PROVE  OrchestratorTypeOK'
  <1> USE DEF ProcPcs, InCycle
  <1>1. CASE Heal(p)
    BY <1>1, ZenonT(60) DEF Heal, OrchestratorTypeOK, ProcType
  <1>2. CASE Enterprise(p)
    <2>1. PICK m \in SomeMetrics, blackout \in BOOLEAN :
            proc' = [proc EXCEPT
              ![p].pc = "dispatch",
              ![p].heals = IF settings.autonomy /\ settings.enterprise
                           THEN @ + HealerRuns(settings, Plan(m, blackout)) ELSE @]
      BY <1>2 DEF Enterprise
    <2>2. HealerRuns(settings, Plan(m, blackout)) \in {0, 1}
      BY RemediationRunsOnce, MetricsAreTyped
    <2>3. proc[p] \in ProcType /\ proc[p].heals + HealerRuns(settings, Plan(m, blackout)) \in Nat
      BY <2>2 DEF OrchestratorTypeOK, ProcType
    <2>4. \A h \in Nat : [proc[p] EXCEPT !.pc = "dispatch", !.heals = h] \in ProcType
      BY <2>3 DEF ProcType
    <2>5. \E h \in Nat : proc' = [proc EXCEPT ![p] = [proc[p] EXCEPT !.pc = "dispatch", !.heals = h]]
      <3>1. CASE settings.autonomy /\ settings.enterprise
        BY <2>1, <2>3, <3>1 DEF OrchestratorTypeOK, ProcType
      <3>2. CASE ~(settings.autonomy /\ settings.enterprise)
        BY <2>1, <2>3, <3>2 DEF OrchestratorTypeOK, ProcType
      <3>3. QED
        BY <3>1, <3>2
    <2>6. proc' \in [Process -> ProcType]
      BY <2>4, <2>5 DEF OrchestratorTypeOK
    <2>7. QED
      BY <1>2, <2>6 DEF Enterprise, OrchestratorTypeOK
  <1>3. CASE DispatchNothing(p)
    <2>1. breaker' \in [Process -> BreakerType]
      BY <1>3, BreakersTyped DEF DispatchNothing, OrchestratorTypeOK
    <2>2. QED
      BY <1>3, <2>1, GoesTyped DEF DispatchNothing, OrchestratorTypeOK
  <1>4. CASE Dispatch(p)
    <2>1. proc' \in [Process -> ProcType]
      <3>1. PICK m \in SomeMetrics :
              proc' = [proc EXCEPT ![p] = [Down EXCEPT !.pc = "rebuild", !.found = {m}]]
        BY <1>4 DEF Dispatch
      <3>2. [Down EXCEPT !.pc = "rebuild", !.found = {m}] \in ProcType
        BY DownTyped DEF ProcType
      <3>3. QED
        BY <3>1, <3>2 DEF OrchestratorTypeOK
    <2>2. breaker' \in [Process -> BreakerType]
      BY <1>4, BreakersTyped DEF Dispatch, OrchestratorTypeOK
    <2>3. QED
      BY <1>4, <2>1, <2>2 DEF Dispatch, OrchestratorTypeOK
  <1>5. CASE RebuildEnds(p)
    <2>1. breaker[p] \in BreakerType
      BY DEF OrchestratorTypeOK
    <2>2. \A b \in {AfterSuccess(breaker[p]), AfterSuccess(AfterFailure(breaker[p])),
                    AfterFailure(breaker[p]), breaker[p]} : b \in BreakerType
      BY <2>1, BreakersTyped
    <2>3. breaker' \in [Process -> BreakerType]
      BY <1>5, <2>2 DEF RebuildEnds, OrchestratorTypeOK
    <2>4. QED
      BY <1>5, <2>3, GoesTyped DEF RebuildEnds, OrchestratorTypeOK
  <1>6. CASE CycleRaises(p)
    BY <1>6, GoesTyped, OrchestratorAssumption DEF CycleRaises, OrchestratorTypeOK
  <1>7. QED
    BY <1>1, <1>2, <1>3, <1>4, <1>5, <1>6

LEMMA StopsTyped ==
    ASSUME OrchestratorTypeOK, NEW p \in Process, Release(p) \/ Released(p) \/ Crash(p)
    PROVE  OrchestratorTypeOK'
  <1> USE DEF ProcPcs
  <1>1. CASE Release(p)
    <2>1. proc' \in [Process -> ProcType]
      BY <1>1, ReadTyped DEF Release
    <2>2. QED
      BY <1>1, <2>1, OrchestratorAssumption DEF Release, OrchestratorTypeOK
  <1>2. breaker[p] \in BreakerType /\ Closed \in BreakerType
    BY BreakersTyped DEF OrchestratorTypeOK
  <1>3. CASE Released(p)
    <2>1. overtaken' \subseteq Process
      BY <1>3 DEF Released, OrchestratorTypeOK, Holders
    <2>2. QED
      BY <1>2, <1>3, <2>1, GoesTyped DEF Released, OrchestratorTypeOK
  <1>4. CASE Crash(p)
    <2>1. LeaseOK(lease')
      <3>1. CASE lease = {}
        BY <1>4, <3>1 DEF Crash, LeaseOK
      <3>2. CASE lease # {}
        <4>1. PICK l \in LeaseType : lease = {l}
          BY <3>2 DEF OrchestratorTypeOK
        <4>2. [l EXCEPT !.holder = IF @ = p THEN Gone ELSE @] \in LeaseType
          BY DEF LeaseType
        <4>3. QED
          BY <1>4, <4>1, <4>2 DEF Crash, LeaseOK
      <3>3. QED
        BY <3>1, <3>2
    <2>2. proc' \in [Process -> ProcType] /\ breaker' \in [Process -> BreakerType]
      BY <1>2, <1>4, GoesTyped DEF Crash, OrchestratorTypeOK
    <2>3. QED
      BY <1>4, <2>1, <2>2, OrchestratorAssumption DEF Crash, OrchestratorTypeOK, LeaseOK
  <1>5. QED
    BY <1>1, <1>3, <1>4

LEMMA TickTyped == ASSUME OrchestratorTypeOK, Tick PROVE OrchestratorTypeOK'
  <1>1. LeaseOK(lease')
    <2>1. CASE lease = {}
      BY <2>1 DEF Tick, LeaseOK
    <2>2. CASE lease # {}
      <3>1. PICK l \in LeaseType : lease = {l}
        BY <2>2 DEF OrchestratorTypeOK
      <3>2. [l EXCEPT !.left = IF @ > 0 THEN @ - 1 ELSE 0] \in LeaseType
        BY OrchestratorAssumption DEF LeaseType
      <3>3. QED
        BY <3>1, <3>2 DEF Tick, LeaseOK
    <2>3. QED
      BY <2>1, <2>2
  <1>2. proc' \in [Process -> ProcType]
    BY OrchestratorAssumption DEF Tick, OrchestratorTypeOK, Aged, ProcType
  <1>3. breaker' \in [Process -> BreakerType]
    BY OrchestratorAssumption DEF Tick, OrchestratorTypeOK, BreakerType
  <1>4. QED
    BY <1>1, <1>2, <1>3 DEF Tick, OrchestratorTypeOK, LeaseOK

LEMMA StepTyped == OrchestratorTypeOK /\ [OrchestratorNext]_orchestratorVars => OrchestratorTypeOK'
  <1> SUFFICES ASSUME OrchestratorTypeOK, [OrchestratorNext]_orchestratorVars PROVE OrchestratorTypeOK'
    OBVIOUS
  <1>1. ASSUME NEW p \in Process, Step(p) \/ Release(p) \/ Crash(p) \/ CycleRaises(p)
        PROVE  OrchestratorTypeOK'
    BY <1>1, AcquireTyped, CycleTyped, StopsTyped
       DEF Step, Start, Started, StartDenied, Renew, CycleBegins, CycleDenied, ProcPcs, InCycle
  <1>2. CASE Tick
    BY <1>2, TickTyped
  <1>3. CASE UNCHANGED orchestratorVars
    BY <1>3 DEF orchestratorVars, OrchestratorTypeOK
  <1>4. QED
    BY <1>1, <1>2, <1>3 DEF OrchestratorNext

(* Every state has its types: there is at most one lease row, and it never  *)
(* runs longer than the TTL (try_acquire of lease.py).                     *)
THEOREM OrchestratorTypeCorrect == OrchestratorSpec => []OrchestratorTypeOK
  BY InitTyped, StepTyped, PTL DEF OrchestratorSpec

(***************************************************************************)
(* Exclusion.  The inductive invariant says why two cycles cannot overlap:  *)
(* there is one row, and who is in a cycle and was neither late nor         *)
(* overtaken has his name on it and time left.  Without the two histories  *)
(* it is not an invariant: the code writes what it read before.            *)
(***************************************************************************)
Holds(p) == \E l \in lease : l.holder = p /\ l.left > 0
FreshHolds == \A p \in Process : Fresh(p) => Holds(p)

(* Needed for the write of a process that lost the row without knowing it:  *)
(* it must not make the cycle of the row's holder look fresh again.        *)
ExpiredIsLate ==
    \A p \in Process :
        proc[p].pc \in InCycle /\ (\E l \in lease : l.holder = p /\ l.left = 0) => p \in late

LEMMA OneRow ==
    ASSUME OrchestratorTypeOK, NEW k \in lease, NEW l \in lease PROVE k = l
  BY DEF OrchestratorTypeOK

(* A write: who loses the row by it is late or overtaken.                  *)
LEMMA WriteKeepsHolders ==
    ASSUME OrchestratorTypeOK, FreshHolds, ExpiredIsLate, NEW p \in Process, NEW from, NEW to,
           AcquireWrite(p, from, to)
    PROVE  FreshHolds'
  <1>1. SUFFICES ASSUME NEW q \in Process, Fresh(q)' PROVE Holds(q)'
    BY DEF FreshHolds
  <1>2. Left(p) \in 0..TTL
    BY LeftTyped
  <1>3. lease' = Written(p) /\ MayTake(p) /\ WriteFits(p)
    BY DEF AcquireWrite
  <1>4. q # p => Fresh(q) \/ q \in late \cup overtaken
    BY <1>1 DEF Fresh, AcquireWrite, Goes, OrchestratorTypeOK
  <1>5. q \notin late' /\ q \notin overtaken'
    BY <1>1 DEF Fresh
  <1>6. CASE q = p
    <2>1. Left(p) > 0
      BY <1>2, <1>5, <1>6 DEF AcquireWrite
    <2>2. CASE proc[p].saw = "mine"
      <3>1. PICK l \in lease : lease = {l}
        BY <1>3, <2>2 DEF WriteFits, OrchestratorTypeOK
      <3>2. lease' = {[l EXCEPT !.left = Left(p)]} /\ l \in LeaseType
        BY <1>3, <2>2, <3>1 DEF Written, OrchestratorTypeOK
      <3>3. l.holder = p
        <4>1. CASE Stale(p)
          <5>1. p \in {x.holder : x \in Written(p)}
            BY <1>5, <1>6, <4>1 DEF AcquireWrite
          <5>2. QED
            BY <1>3, <3>2, <5>1 DEF LeaseType
        <4>2. CASE ~Stale(p)
          BY <2>2, <3>1, <4>2 DEF Stale, View
        <4>3. QED
          BY <4>1, <4>2
      <3>4. QED
        BY <1>6, <2>1, <3>2, <3>3 DEF Holds, LeaseType
    <2>3. CASE proc[p].saw # "mine"
      BY <1>3, <1>6, <2>1, <2>3 DEF Written, Holds
    <2>4. QED
      BY <2>2, <2>3
  <1>7. CASE q # p
    <2>1. q \notin late
      BY <1>5, <1>7 DEF AcquireWrite
    <2>2. CASE q \in overtaken
      <3>1. Stale(p) /\ q \in {x.holder : x \in Written(p)}
        BY <1>5, <1>7, <2>2 DEF AcquireWrite
      <3>2. proc[p].saw = "mine"
        BY <1>7, <3>1 DEF Written
      <3>3. PICK l \in LeaseType : lease = {l}
        BY <1>3, <3>2 DEF WriteFits, OrchestratorTypeOK
      <3>4. lease' = {[l EXCEPT !.left = Left(p)]} /\ l.holder = q
        BY <1>3, <3>1, <3>2, <3>3 DEF Written, LeaseType
      <3>5. CASE Left(p) > 0
        BY <3>3, <3>4, <3>5 DEF Holds, LeaseType
      <3>6. CASE Left(p) = 0
        <4>1. ~(l.left > 0)
          BY <1>5, <3>3, <3>4, <3>6 DEF AcquireWrite, Holders
        <4>2. proc[q].pc \in InCycle
          BY <1>1, <1>7 DEF Fresh, AcquireWrite, Goes, OrchestratorTypeOK
        <4>3. QED
          BY <2>1, <3>3, <3>4, <4>1, <4>2 DEF ExpiredIsLate, LeaseType
      <3>7. QED
        BY <1>2, <3>5, <3>6
    <2>3. CASE q \notin overtaken
      <3>1. Fresh(q)
        BY <1>4, <1>7, <2>1, <2>3
      <3>2. PICK l \in lease : l.holder = q /\ l.left > 0
        BY <3>1 DEF FreshHolds, Holds
      <3>3. lease = {l} /\ l \in LeaseType /\ q \in Holders
        BY <3>2 DEF OrchestratorTypeOK, Holders
      <3>4. Left(p) > 0
        BY <1>2, <1>5, <3>3 DEF AcquireWrite
      <3>5. CASE proc[p].saw = "mine"
        <4>1. lease' = {[l EXCEPT !.left = Left(p)]}
          BY <1>3, <3>3, <3>5 DEF Written
        <4>2. QED
          BY <3>2, <3>3, <3>4, <4>1 DEF Holds, LeaseType
      <3>6. CASE proc[p].saw # "mine"
        <4>1. View(p) = "other"
          BY <1>7, <3>2, <3>3 DEF View
        <4>2. proc[p].saw # "none"
          BY <1>3, <3>3 DEF WriteFits
        <4>3. Stale(p)
          BY <1>3, <3>6, <4>1, <4>2 DEF MayTake, Stale
        <4>4. q \in {x.holder : x \in Written(p)}
          BY <1>5, <3>3, <4>3 DEF AcquireWrite
        <4>5. QED
          BY <1>7, <3>6, <4>4 DEF Written
      <3>7. QED
        BY <3>5, <3>6
    <2>4. QED
      BY <2>2, <2>3
  <1>8. QED
    BY <1>6, <1>7

LEMMA WriteKeepsLate ==
    ASSUME OrchestratorTypeOK, ExpiredIsLate, NEW p \in Process, NEW from, NEW to,
           AcquireWrite(p, from, to)
    PROVE  ExpiredIsLate'
  <1>1. SUFFICES ASSUME NEW q \in Process, proc'[q].pc \in InCycle,
                        NEW k \in lease', k.holder = q, k.left = 0
                 PROVE  q \in late'
    BY DEF ExpiredIsLate
  <1>2. Left(p) \in 0..TTL /\ lease' = Written(p) /\ WriteFits(p)
    BY LeftTyped DEF AcquireWrite
  <1>3. k.left = Left(p)
    <2>1. CASE proc[p].saw = "mine"
      <3>1. PICK l \in LeaseType : lease = {l}
        BY <1>2, <2>1 DEF WriteFits, OrchestratorTypeOK
      <3>2. k = [l EXCEPT !.left = Left(p)]
        BY <1>2, <2>1, <3>1 DEF Written
      <3>3. QED
        BY <3>1, <3>2 DEF LeaseType
    <2>2. CASE proc[p].saw # "mine"
      BY <1>2, <2>2 DEF Written
    <2>3. QED
      BY <2>1, <2>2
  <1>4. late' = late \cup {p} \cup Holders
    BY <1>1, <1>3 DEF AcquireWrite
  <1>5. CASE q # p
    <2>1. proc[p].saw = "mine"
      BY <1>1, <1>2, <1>5 DEF Written
    <2>2. PICK l \in LeaseType : lease = {l}
      BY <1>2, <2>1 DEF WriteFits, OrchestratorTypeOK
    <2>3. l.holder = q
      BY <1>1, <1>2, <2>1, <2>2 DEF Written, LeaseType
    <2>4. CASE l.left > 0
      BY <1>4, <2>2, <2>3, <2>4 DEF Holders
    <2>5. CASE l.left = 0
      <3>1. proc[q].pc \in InCycle
        BY <1>1, <1>5 DEF AcquireWrite, Goes, OrchestratorTypeOK
      <3>2. QED
        BY <1>4, <2>2, <2>3, <2>5, <3>1 DEF ExpiredIsLate
    <2>6. QED
      BY <2>2, <2>4, <2>5 DEF LeaseType
  <1>6. QED
    BY <1>4, <1>5

ExclusionInv == FreshHolds /\ ExpiredIsLate

(* Reads, failed writes and the steps of a cycle leave the row alone, and   *)
(* bring nobody into a cycle.                                              *)
LEMMA LeaseUntouched ==
    ASSUME OrchestratorTypeOK, ExclusionInv, lease' = lease, late' = late, overtaken' = overtaken,
           \A q \in Process : proc'[q].pc \in InCycle => proc[q].pc \in InCycle
    PROVE  ExclusionInv'
  BY DEF ExclusionInv, FreshHolds, ExpiredIsLate, Fresh, Holds

LEMMA ReleasedKeepsExclusion ==
    ASSUME OrchestratorTypeOK, ExclusionInv, NEW p \in Process, Released(p)
    PROVE  ExclusionInv'
  <1>1. \A q \in Process : proc'[q].pc \in InCycle => q # p /\ proc'[q] = proc[q]
    BY DEF Released, Goes, OrchestratorTypeOK, Down, InCycle
  <1>2. CASE proc[p].saw = "mine"
    <2>1. lease' = {} /\ late' = late
      BY <1>2 DEF Released
    <2>2. ExpiredIsLate'
      BY <2>1 DEF ExpiredIsLate
    <2>3. ASSUME NEW q \in Process, Fresh(q)' PROVE FALSE
      <3>1. q # p /\ Fresh(q)
        BY <1>1, <2>1, <2>3 DEF Fresh, Released
      <3>2. PICK l \in lease : l.holder = q /\ l.left > 0
        BY <3>1 DEF ExclusionInv, FreshHolds, Holds
      <3>3. lease = {l}
        BY <3>2 DEF OrchestratorTypeOK
      <3>4. View(p) # "mine"
        BY <3>1, <3>2, <3>3 DEF View
      <3>5. q \in overtaken'
        BY <1>2, <3>2, <3>4 DEF Released, Stale, Holders
      <3>6. QED
        BY <2>3, <3>5 DEF Fresh
    <2>4. QED
      BY <2>2, <2>3 DEF ExclusionInv, FreshHolds
  <1>3. CASE proc[p].saw # "mine"
    BY <1>1, <1>3, LeaseUntouched DEF Released
  <1>4. QED
    BY <1>2, <1>3

LEMMA CrashKeepsExclusion ==
    ASSUME OrchestratorTypeOK, ExclusionInv, NEW p \in Process, Crash(p)
    PROVE  ExclusionInv'
  <1>1. \A q \in Process : proc'[q].pc \in InCycle => q # p /\ proc'[q] = proc[q]
    BY DEF Crash, Goes, OrchestratorTypeOK, Down, InCycle
  <1>2. lease' = {[l EXCEPT !.holder = IF @ = p THEN Gone ELSE @] : l \in lease}
        /\ late' = late /\ overtaken' = overtaken
    BY DEF Crash
  <1>3. lease \subseteq LeaseType
    BY DEF OrchestratorTypeOK
  <1>4. ASSUME NEW q \in Process, q # p, NEW l \in lease, l.holder = q
        PROVE  l \in lease'
    <2>1. [l EXCEPT !.holder = IF @ = p THEN Gone ELSE @] = l
      BY <1>3, <1>4 DEF LeaseType
    <2>2. QED
      BY <1>2, <2>1
  <1>5. ASSUME NEW q \in Process, NEW k \in lease', k.holder = q
        PROVE  k \in lease
    <2>1. PICK l \in lease : k = [l EXCEPT !.holder = IF @ = p THEN Gone ELSE @]
      BY <1>2
    <2>2. l.holder # p
      BY <1>3, <1>5, <2>1, OrchestratorAssumption DEF LeaseType
    <2>3. QED
      BY <1>3, <2>1, <2>2 DEF LeaseType
  <1>6. FreshHolds'
    BY <1>1, <1>2, <1>4 DEF ExclusionInv, FreshHolds, Fresh, Holds
  <1>7. ExpiredIsLate'
    BY <1>1, <1>2, <1>5 DEF ExclusionInv, ExpiredIsLate
  <1>8. QED
    BY <1>6, <1>7 DEF ExclusionInv

LEMMA TickKeepsExclusion ==
    ASSUME OrchestratorTypeOK, ExclusionInv, Tick
    PROVE  ExclusionInv'
  <1>1. \A q \in Process : proc'[q].pc = proc[q].pc
    BY DEF Tick, Aged, OrchestratorTypeOK, ProcType
  <1>2. lease \subseteq LeaseType
    BY DEF OrchestratorTypeOK
  <1>3. lease' = {[l EXCEPT !.left = IF @ > 0 THEN @ - 1 ELSE 0] : l \in lease}
    BY DEF Tick
  <1>4. FreshHolds'
    <2>1. SUFFICES ASSUME NEW q \in Process, Fresh(q)' PROVE Holds(q)'
      BY DEF FreshHolds
    <2>2. Fresh(q)
      BY <1>1, <2>1 DEF Fresh, Tick
    <2>3. PICK l \in lease : l.holder = q /\ l.left > 0
      BY <2>2 DEF ExclusionInv, FreshHolds, Holds
    <2>4. l.left # 1
      BY <2>1, <2>2, <2>3 DEF Fresh, Tick
    <2>5. [l EXCEPT !.left = l.left - 1] \in lease'
      BY <1>3, <2>3
    <2>6. QED
      BY <1>2, <2>3, <2>4, <2>5 DEF Holds, LeaseType
  <1>5. ExpiredIsLate'
    <2>1. SUFFICES ASSUME NEW q \in Process, proc'[q].pc \in InCycle,
                          NEW k \in lease', k.holder = q, k.left = 0
                   PROVE  q \in late'
      BY DEF ExpiredIsLate
    <2>2. PICK l \in lease : k = [l EXCEPT !.left = IF @ > 0 THEN @ - 1 ELSE 0]
      BY <1>3
    <2>3. l.holder = q /\ (l.left = 0 \/ l.left = 1)
      BY <1>2, <2>1, <2>2 DEF LeaseType
    <2>4. QED
      BY <1>1, <2>1, <2>3 DEF ExclusionInv, ExpiredIsLate, Tick
  <1>6. QED
    BY <1>4, <1>5 DEF ExclusionInv

LEMMA ExclusionKept == OrchestratorTypeOK /\ ExclusionInv /\ [OrchestratorNext]_orchestratorVars => ExclusionInv'
  <1> SUFFICES ASSUME OrchestratorTypeOK, ExclusionInv, [OrchestratorNext]_orchestratorVars PROVE ExclusionInv'
    OBVIOUS
  <1>1. ASSUME NEW p \in Process, Started(p) \/ CycleBegins(p) PROVE ExclusionInv'
    BY <1>1, WriteKeepsHolders, WriteKeepsLate DEF Started, CycleBegins, ExclusionInv
  <1>2. ASSUME NEW p \in Process,
               Start(p) \/ StartDenied(p) \/ Renew(p) \/ CycleDenied(p) \/ Release(p)
        PROVE  ExclusionInv'
    <2>1. \A q \in Process : proc'[q].pc \in InCycle => proc[q].pc \in InCycle
      BY <1>2 DEF Start, StartDenied, Renew, CycleDenied, Release, AcquireRead, AcquireFails,
                  Goes, OrchestratorTypeOK, ProcType, InCycle, Down
    <2>2. QED
      BY <1>2, <2>1, LeaseUntouched
         DEF Start, StartDenied, Renew, CycleDenied, Release, AcquireRead, AcquireFails
  <1>3. ASSUME NEW p \in Process,
               Heal(p) \/ Enterprise(p) \/ DispatchNothing(p) \/ Dispatch(p)
                 \/ RebuildEnds(p) \/ CycleRaises(p)
        PROVE  ExclusionInv'
    <2>1. \A q \in Process : q # p => proc'[q] = proc[q]
      BY <1>3 DEF Heal, Enterprise, DispatchNothing, Dispatch, RebuildEnds, CycleRaises, Goes, OrchestratorTypeOK
    <2>2. proc'[p].pc \in InCycle => proc[p].pc \in InCycle
      BY <1>3 DEF Heal, Enterprise, DispatchNothing, Dispatch, RebuildEnds, CycleRaises, Goes,
                  OrchestratorTypeOK, InCycle, Down
    <2>3. QED
      BY <1>3, <2>1, <2>2, LeaseUntouched
         DEF Heal, Enterprise, DispatchNothing, Dispatch, RebuildEnds, CycleRaises
  <1>4. CASE UNCHANGED orchestratorVars
    BY <1>4, LeaseUntouched DEF orchestratorVars
  <1>5. QED
    BY <1>1, <1>2, <1>3, <1>4, ReleasedKeepsExclusion, CrashKeepsExclusion, TickKeepsExclusion
       DEF OrchestratorNext, Step

(* try_acquire of lease.py: two processes are in a cycle at once only if    *)
(* one outlasted its lease or lost it to a write based on an old read.     *)
THEOREM CyclesExclude == OrchestratorSpec => []OneCycle
  <1>1. OrchestratorInit => ExclusionInv
    BY DEF OrchestratorInit, ExclusionInv, FreshHolds, ExpiredIsLate, Fresh, Down, InCycle
  <1>2. OrchestratorSpec => []ExclusionInv
    BY <1>1, OrchestratorTypeCorrect, ExclusionKept, PTL DEF OrchestratorSpec
  <1>3. OrchestratorTypeOK /\ ExclusionInv => OneCycle
    BY OneRow DEF ExclusionInv, FreshHolds, Holds, OneCycle
  <1>4. QED
    BY <1>2, <1>3, OrchestratorTypeCorrect, PTL

(***************************************************************************)
(* What a cycle does.                                                      *)
(***************************************************************************)
Governed(c) ==
    /\ c.pc = "rebuild" => \A m \in c.found : m \in Metrics /\ ~Throttled(m)
    /\ c.pc = "enterprise" => c.heals <= 1
    /\ c.pc = "dispatch" => c.heals <= 2
    /\ c.pc \notin {"enterprise", "dispatch"} => c.heals = 0

PolicyInv == \A p \in Process : Governed(proc[p])

LEMMA GoesGoverned ==
    ASSUME NEW pc, pc \notin {"rebuild", "enterprise", "dispatch"}
    PROVE  Governed([Down EXCEPT !.pc = pc])
  BY DEF Governed, Down

(* One step of one process: the others stay as they were.                  *)
LEMMA GovernedByOne ==
    ASSUME OrchestratorTypeOK, PolicyInv, NEW p \in Process,
           \A q \in Process : q # p => proc'[q] = proc[q], Governed(proc'[p])
    PROVE  PolicyInv'
  <1>1. \A q \in Process : Governed(proc'[q])
    BY DEF PolicyInv
  <1>2. QED
    BY <1>1 DEF PolicyInv

LEMMA PolicyKept == OrchestratorTypeOK /\ PolicyInv /\ [OrchestratorNext]_orchestratorVars => PolicyInv'
  <1> SUFFICES ASSUME OrchestratorTypeOK, PolicyInv, [OrchestratorNext]_orchestratorVars PROVE PolicyInv'
    OBVIOUS
  <1>1. ASSUME NEW p \in Process, NEW from, NEW to, to \notin {"rebuild", "enterprise", "dispatch"},
               from \notin {"rebuild", "enterprise", "dispatch"},
               AcquireRead(p, from, to) \/ AcquireWrite(p, from, to) \/ AcquireFails(p, from, to)
        PROVE  PolicyInv'
    <2>1. \A q \in Process : q # p => proc'[q] = proc[q]
      BY <1>1 DEF AcquireRead, AcquireWrite, AcquireFails, Goes, OrchestratorTypeOK
    <2>2. CASE AcquireRead(p, from, to)
      <3>1. proc'[p] = [proc[p] EXCEPT !.pc = to, !.saw = View(p), !.age = 0] /\ proc[p] \in ProcType
        BY <2>2 DEF AcquireRead, OrchestratorTypeOK
      <3>2. proc[p].pc \notin {"rebuild", "enterprise", "dispatch"} /\ proc'[p].pc = to
            /\ proc'[p].heals = proc[p].heals
        BY <1>1, <2>2, <3>1 DEF AcquireRead, ProcType
      <3>3. Governed(proc'[p])
        BY <1>1, <3>2 DEF Governed, PolicyInv
      <3>4. QED
        BY <2>1, <3>3, GovernedByOne
    <2>3. CASE AcquireWrite(p, from, to) \/ AcquireFails(p, from, to)
      <3>1. proc'[p] = [Down EXCEPT !.pc = to]
        BY <2>3 DEF AcquireWrite, AcquireFails, Goes, OrchestratorTypeOK
      <3>2. QED
        BY <1>1, <2>1, <3>1, GoesGoverned, GovernedByOne
    <2>4. QED
      BY <1>1, <2>2, <2>3
  <1>2. ASSUME NEW p \in Process,
               DispatchNothing(p) \/ RebuildEnds(p) \/ CycleRaises(p) \/ Released(p) \/ Crash(p)
        PROVE  PolicyInv'
    <2>1. PICK pc \in {"ready", "down"} : proc' = Goes(p, pc)
      BY <1>2 DEF DispatchNothing, RebuildEnds, CycleRaises, Released, Crash
    <2>2. proc'[p] = [Down EXCEPT !.pc = pc] /\ \A q \in Process : q # p => proc'[q] = proc[q]
      BY <2>1 DEF Goes, OrchestratorTypeOK
    <2>3. QED
      BY <2>2, GoesGoverned, GovernedByOne
  <1>3. ASSUME NEW p \in Process, Release(p) PROVE PolicyInv'
    <2>1. /\ proc[p].pc = "ready" /\ proc'[p].pc = "release" /\ proc'[p].heals = proc[p].heals
          /\ \A q \in Process : q # p => proc'[q] = proc[q]
      BY <1>3 DEF Release, OrchestratorTypeOK, ProcType
    <2>2. Governed(proc'[p])
      BY <2>1 DEF Governed, PolicyInv
    <2>3. QED
      BY <2>1, <2>2, GovernedByOne
  <1>4. ASSUME NEW p \in Process, Heal(p) PROVE PolicyInv'
    <2>1. /\ proc'[p].pc = "enterprise" /\ proc'[p].heals \in {0, 1}
          /\ \A q \in Process : q # p => proc'[q] = proc[q]
      BY <1>4 DEF Heal, OrchestratorTypeOK, ProcType
    <2>2. Governed(proc'[p])
      BY <2>1 DEF Governed
    <2>3. QED
      BY <2>1, <2>2, GovernedByOne
  <1>5. ASSUME NEW p \in Process, Enterprise(p) PROVE PolicyInv'
    <2>1. PICK m \in SomeMetrics, blackout \in BOOLEAN :
            proc' = [proc EXCEPT
              ![p].pc = "dispatch",
              ![p].heals = IF settings.autonomy /\ settings.enterprise
                           THEN @ + HealerRuns(settings, Plan(m, blackout)) ELSE @]
      BY <1>5 DEF Enterprise
    <2>2. HealerRuns(settings, Plan(m, blackout)) \in {0, 1}
      BY RemediationRunsOnce, MetricsAreTyped
    <2>3. proc[p].heals \in {0, 1}
      <3>1. proc[p].pc = "enterprise" /\ Governed(proc[p])
        BY <1>5 DEF Enterprise, PolicyInv
      <3>2. proc[p].heals \in Nat
        BY DEF OrchestratorTypeOK, ProcType
      <3>3. QED
        BY <3>1, <3>2 DEF Governed
    <2>4. /\ proc'[p].pc = "dispatch" /\ proc'[p].heals \in 0..2
          /\ \A q \in Process : q # p => proc'[q] = proc[q]
      BY <2>1, <2>2, <2>3 DEF OrchestratorTypeOK, ProcType
    <2>5. Governed(proc'[p])
      BY <2>4 DEF Governed
    <2>6. QED
      BY <2>4, <2>5, GovernedByOne
  <1>6. ASSUME NEW p \in Process, Dispatch(p) PROVE PolicyInv'
    <2>1. PICK m \in SomeMetrics :
            MayDispatch(m) /\ proc' = [proc EXCEPT ![p] = [Down EXCEPT !.pc = "rebuild", !.found = {m}]]
      BY <1>6 DEF Dispatch
    <2>2. Governed([Down EXCEPT !.pc = "rebuild", !.found = {m}])
      BY <2>1, MetricsAreTyped DEF Governed, Down, MayDispatch
    <2>3. QED
      BY <2>1, <2>2, GovernedByOne DEF OrchestratorTypeOK
  <1>7. CASE Tick
    <2>1. \A q \in Process :
            proc'[q].pc = proc[q].pc /\ proc'[q].found = proc[q].found /\ proc'[q].heals = proc[q].heals
      BY <1>7 DEF Tick, Aged, OrchestratorTypeOK, ProcType
    <2>2. QED
      BY <2>1 DEF PolicyInv, Governed
  <1>8. CASE UNCHANGED orchestratorVars
    BY <1>8 DEF orchestratorVars, PolicyInv
  <1>9. QED
    BY <1>1, <1>2, <1>3, <1>4, <1>5, <1>6, <1>7, <1>8
       DEF OrchestratorNext, Step, Start, Started, StartDenied, Renew, CycleBegins, CycleDenied

(* Dispatch throttle and health thresholds agree (policy.py, health.py),    *)
(* and a cycle runs the healer at most twice, under every setting, every   *)
(* threshold and all metrics.                                              *)
THEOREM CyclesAreGoverned == OrchestratorSpec => []CyclesKeepPolicy
  <1>1. OrchestratorInit => PolicyInv
    BY DEF OrchestratorInit, PolicyInv, Governed, Down
  <1>2. OrchestratorSpec => []PolicyInv
    BY <1>1, OrchestratorTypeCorrect, PolicyKept, PTL DEF OrchestratorSpec
  <1>3. OrchestratorTypeOK /\ PolicyInv => CyclesKeepPolicy
    <2> SUFFICES ASSUME OrchestratorTypeOK, PolicyInv, NEW p \in Process
                 PROVE  /\ proc[p].pc = "rebuild" =>
                             \A m \in proc[p].found : Severity(m) # "critical"
                        /\ proc[p].heals <= 2
      BY DEF CyclesKeepPolicy
    <2>1. Governed(proc[p]) /\ proc[p].heals \in Nat
      BY DEF PolicyInv, OrchestratorTypeOK, ProcType
    <2>2. QED
      BY <2>1, UnthrottledIsNotCritical DEF Governed
  <1>4. QED
    BY <1>2, <1>3, OrchestratorTypeCorrect, PTL

-------------------------------------------------------------------------------
(***************************************************************************)
(* The advisory: types.                                                    *)
(***************************************************************************)
LEMMA IdleIsTyped == Idle \in SlotRecord
  BY AiAdvisoryAssumption DEF Idle, SlotRecord, SlotPcs, Days

LEMMA AwayIsTyped == Away \in ClientRecord
  BY DEF Away, ClientRecord, RowStates

(* What a step of a request leaves alone of the types: one slot changes,    *)
(* to a record of the type that is about a row there is.                    *)
LEMMA SlotTyped ==
    ASSUME TypeOK, NEW s \in Slot, NEW x \in SlotRecord, x.target \in {0} \cup DOMAIN recs,
           slot' = [slot EXCEPT ![s] = x], UNCHANGED <<recs, memory, client>>,
           day' \in Days, acts' \in Nat, spend' \in [Days -> Nat]
    PROVE  TypeOK'
  BY DEF TypeOK

LEMMA TypeInit == Init => TypeOK
  BY IdleIsTyped, AwayIsTyped, AiAdvisoryAssumption DEF Init, TypeOK, Days, Idle, Away

LEMMA RequestTyped ==
    ASSUME TypeOK, NEW s \in Slot, RequestStep(s)
    PROVE  TypeOK'
  <1>1. slot[s] \in SlotRecord /\ slot[s].target \in {0} \cup DOMAIN recs /\ day \in Days
        /\ acts \in Nat /\ spend \in [Days -> Nat] /\ Idle.target = 0
    BY DEF TypeOK, Idle
  <1>2. ASSUME NEW p \in SlotPcs, p \notin {"found", "fresh"}, Moves(s, p), OnlyRun, UNCHANGED <<acts, spend>> PROVE TypeOK'
    <2>1. [slot[s] EXCEPT !.pc = p] \in SlotRecord
      BY <1>1, <1>2 DEF SlotRecord
    <2>2. [slot[s] EXCEPT !.pc = p].target = slot[s].target
      BY <1>1 DEF SlotRecord
    <2>3. slot' = [slot EXCEPT ![s] = [slot[s] EXCEPT !.pc = p]]
      BY <1>2 DEF Moves
    <2>4. QED
      BY <1>1, <1>2, <2>1, <2>2, <2>3, SlotTyped DEF OnlyRun
  <1>3. ASSUME Ends(s), OnlyRun, acts' \in Nat, spend' \in [Days -> Nat] PROVE TypeOK'
    <2>1. slot' = [slot EXCEPT ![s] = Idle] /\ Idle.target \in {0} \cup DOMAIN recs
      BY <1>1, <1>3 DEF Ends
    <2>2. QED
      BY <1>1, <1>3, <2>1, IdleIsTyped, SlotTyped DEF OnlyRun
  <1>4. CASE Begin(s)
    <2>1. [slot[s] EXCEPT !.pc = "begun", !.born = day] \in SlotRecord
      BY <1>1 DEF SlotRecord, SlotPcs
    <2>2. [slot[s] EXCEPT !.pc = "begun", !.born = day].target = slot[s].target
      BY <1>1 DEF SlotRecord
    <2>3. slot' = [slot EXCEPT ![s] = [slot[s] EXCEPT !.pc = "begun", !.born = day]]
      BY <1>4 DEF Begin
    <2>4. acts' \in Nat
      BY <1>1, <1>4 DEF Begin
    <2>5. QED
      BY <1>1, <1>4, <2>1, <2>2, <2>3, <2>4, SlotTyped DEF Begin, OnlyRun
  <1>5. CASE CheckBudget(s)
    BY <1>1, <1>2, <1>3, <1>5 DEF CheckBudget, SlotPcs
  <1>6. CASE Call(s)
    <2>1. PICK k \in 0 .. MaxCost : slot' = [slot EXCEPT ![s].pc = "called", ![s].cost = k]
      BY <1>6 DEF Call
    <2>2. k \in Nat
      BY AiAdvisoryAssumption
    <2>3. [slot[s] EXCEPT !.pc = "called", !.cost = k] \in SlotRecord
      BY <1>1, <2>2 DEF SlotRecord, SlotPcs
    <2>4. [slot[s] EXCEPT !.pc = "called", !.cost = k].target = slot[s].target
      BY <1>1 DEF SlotRecord
    <2>5. slot' = [slot EXCEPT ![s] = [slot[s] EXCEPT !.pc = "called", !.cost = k]]
      BY <2>1
    <2>6. QED
      BY <1>1, <1>6, <2>3, <2>4, <2>5, SlotTyped DEF Call, OnlyRun
  <1>7. CASE Draft(s)
    BY <1>2, <1>7 DEF Draft, SlotPcs
  <1>8. CASE Fail(s) \/ Die(s) \/ Unbound(s)
    BY <1>1, <1>3, <1>8 DEF Fail, Die, Unbound
  <1>9. CASE Complete(s) \/ CompleteStream(s)
    <2>1. spend' \in [Days -> Nat] /\ acts' \in Nat
      BY <1>1, <1>9 DEF Complete, CompleteStream, SlotRecord
    <2>2. CASE Ends(s)
      BY <1>3, <1>9, <2>1, <2>2 DEF Complete, CompleteStream
    <2>3. CASE slot' = [slot EXCEPT ![s] = [Idle EXCEPT !.pc = "completed"]]
      <3>1. [Idle EXCEPT !.pc = "completed"] \in SlotRecord
            /\ [Idle EXCEPT !.pc = "completed"].target = 0
        BY IdleIsTyped DEF Idle, SlotRecord, SlotPcs
      <3>2. QED
        BY <1>1, <1>9, <2>1, <2>3, <3>1, SlotTyped DEF Complete, CompleteStream, OnlyRun
    <2>4. QED
      BY <1>9, <2>2, <2>3 DEF Complete, CompleteStream
  <1>10. CASE LookUp(s)
    <2>1. PICK c \in Contents :
            \/ CompareOf[c] = "data" /\ Moves(s, "loose")
            \/ /\ CompareOf[c] # "data"
               /\ \E i \in IF Targets(c) = {} THEN {0} ELSE Targets(c) :
                    slot' = [slot EXCEPT ![s].pc = "found", ![s].target = i, ![s].content = c]
      BY <1>10 DEF LookUp
    <2>2. CASE Moves(s, "loose")
      BY <1>2, <1>10, <2>2 DEF LookUp, SlotPcs
    <2>3. ASSUME NEW i \in IF Targets(c) = {} THEN {0} ELSE Targets(c),
                 slot' = [slot EXCEPT ![s].pc = "found", ![s].target = i, ![s].content = c]
          PROVE  TypeOK'
      <3>1. i \in {0} \cup DOMAIN recs
        BY <2>3 DEF Targets
      <3>2. i \in Nat
        BY <3>1 DEF TypeOK
      <3>3. [slot[s] EXCEPT !.pc = "found", !.target = i, !.content = c] \in SlotRecord
        BY <1>1, <3>2 DEF SlotRecord, SlotPcs
      <3>4. [slot[s] EXCEPT !.pc = "found", !.target = i, !.content = c].target = i
        BY <1>1 DEF SlotRecord
      <3>5. slot' = [slot EXCEPT ![s] = [slot[s] EXCEPT !.pc = "found", !.target = i, !.content = c]]
        BY <2>3
      <3>6. QED
        BY <1>1, <1>10, <3>1, <3>3, <3>4, <3>5, SlotTyped DEF LookUp, OnlyRun
    <2>4. QED
      BY <2>1, <2>2, <2>3
  <1>11. CASE Store(s)
    <2> DEFINE x == [Idle EXCEPT !.pc = "stored"]
    <2>1. x \in SlotRecord /\ x.target = 0
      BY IdleIsTyped DEF Idle, SlotRecord, SlotPcs
    <2>2. slot' = [slot EXCEPT ![s] = x] /\ UNCHANGED <<day, acts, spend, memory, client>>
      BY <1>11 DEF Store
    <2> HIDE DEF x
    <2>3. recs' \in Seq(RowRecord) /\ DOMAIN recs \subseteq DOMAIN recs'
      <3>1. recs \in Seq(RowRecord)
        BY DEF TypeOK
      <3>2. CASE slot[s].target # 0 /\ recs' = [recs EXCEPT ![slot[s].target] = Refreshed(@, slot[s].content)]
        <4> DEFINE i == slot[s].target
        <4>1. i \in DOMAIN recs /\ slot[s].content \in Contents
          BY <1>1, <1>11, <3>2 DEF Store, At, SlotRecord
        <4>2. recs[i] \in RowRecord
          BY <3>1, <4>1
        <4>3. Refreshed(recs[i], slot[s].content) \in RowRecord
          BY <4>1, <4>2 DEF Refreshed, RowRecord
        <4>4. recs' = [recs EXCEPT ![i] = Refreshed(recs[i], slot[s].content)]
          BY <3>2
        <4>5. QED
          BY <3>1, <4>1, <4>3, <4>4
      <3>3. CASE recs' = Append(recs, NewRow(slot[s].content))
        <4>1. NewRow(slot[s].content) \in RowRecord
          BY <1>1, <1>11, AiAdvisoryAssumption DEF NewRow, RowRecord, RowStates, Store, At, SlotRecord
        <4>2. QED
          BY <3>1, <3>3, <4>1
      <3>4. QED
        BY <1>11, <3>2, <3>3 DEF Store
    <2>4. QED
      BY <2>1, <2>2, <2>3 DEF TypeOK
  <1>12. CASE Recall(s)
    <2>1. PICK t \in Texts :
            \/ memory[t] = 0 /\ slot' = [slot EXCEPT ![s].pc = "fresh", ![s].text = t]
            \/ memory[t] > 0 /\ Ends(s)
      BY <1>12 DEF Recall
    <2>2. CASE Ends(s)
      BY <1>1, <1>3, <1>12, <2>2 DEF Recall
    <2>3. CASE slot' = [slot EXCEPT ![s].pc = "fresh", ![s].text = t]
      <3>1. [slot[s] EXCEPT !.pc = "fresh", !.text = t] \in SlotRecord
        BY <1>1 DEF SlotRecord, SlotPcs
      <3>2. [slot[s] EXCEPT !.pc = "fresh", !.text = t].target = slot[s].target
        BY <1>1 DEF SlotRecord
      <3>3. slot' = [slot EXCEPT ![s] = [slot[s] EXCEPT !.pc = "fresh", !.text = t]]
        BY <2>3
      <3>4. QED
        BY <1>1, <1>12, <3>1, <3>2, <3>3, SlotTyped DEF Recall, OnlyRun
    <2>4. QED
      BY <2>1, <2>2, <2>3
  <1>13. CASE Remember(s)
    <2>1. slot' = [slot EXCEPT ![s] = Idle] /\ UNCHANGED <<day, acts, spend, recs, client>>
      BY <1>13 DEF Remember, Ends
    <2>2. slot[s].text \in Texts
      BY <1>1, <1>13 DEF Remember, At, SlotRecord
    <2>3. memory' \in [Texts -> Nat]
      BY <1>13, <2>2 DEF Remember, TypeOK
    <2>4. QED
      BY <1>1, <2>1, <2>3, IdleIsTyped DEF TypeOK
  <1>14. QED
    BY <1>4, <1>5, <1>6, <1>7, <1>8, <1>9, <1>10, <1>11, <1>12, <1>13 DEF RequestStep

LEMMA DecidedIsState == \A act \in Decisions : DecidedState[act] \in RowStates
  BY AiAdvisoryAssumption DEF DecidedState, RowStates

(* What a step of the seller leaves alone: requests, memory, spend; the     *)
(* rows keep their places.                                                  *)
LEMMA SellerTyped ==
    ASSUME TypeOK, NEW c \in Client, SellerStep(c)
    PROVE  TypeOK'
  <1>1. client[c] \in ClientRecord /\ recs \in Seq(RowRecord) /\ acts \in Nat
        /\ {client[c].id} \cup client[c].due \subseteq {0} \cup DOMAIN recs
    BY DEF TypeOK
  <1>2. ASSUME OnlySeller, recs' \in Seq(RowRecord), DOMAIN recs' = DOMAIN recs, acts' \in Nat,
               client' \in [Client -> ClientRecord],
               \A k \in Client : {client'[k].id} \cup client'[k].due \subseteq {0} \cup DOMAIN recs
        PROVE  TypeOK'
    BY <1>2 DEF TypeOK, OnlySeller
  <1>3. ASSUME NEW ids \in SUBSET Nat, client' = Outdated(c, ids)
        PROVE  /\ client' \in [Client -> ClientRecord]
               /\ \A k \in Client : {client'[k].id} \cup client'[k].due \subseteq {0} \cup DOMAIN recs
    <2> SUFFICES ASSUME NEW k \in Client
                 PROVE  /\ client'[k] \in ClientRecord
                        /\ {client'[k].id} \cup client'[k].due \subseteq {0} \cup DOMAIN recs
      BY <1>3 DEF Outdated
    <2>1. CASE k = c
      BY <1>3, <2>1, AwayIsTyped DEF Outdated, Away
    <2>2. CASE k # c
      <3>1. client[k] \in ClientRecord /\ {client[k].id} \cup client[k].due \subseteq {0} \cup DOMAIN recs
        BY DEF TypeOK
      <3>2. client'[k] = [client[k] EXCEPT !.stale = @ \cup (ids \cap (client[k].due \cup {client[k].id}))]
        BY <1>3, <2>2 DEF Outdated
      <3>3. QED
        BY <3>1, <3>2 DEF ClientRecord
    <2>3. QED
      BY <2>1, <2>2
  <1>4. ASSUME NEW x \in ClientRecord, client' = [client EXCEPT ![c] = x],
               {x.id} \cup x.due \subseteq {0} \cup DOMAIN recs
        PROVE  /\ client' \in [Client -> ClientRecord]
               /\ \A k \in Client : {client'[k].id} \cup client'[k].due \subseteq {0} \cup DOMAIN recs
    BY <1>4 DEF TypeOK
  <1>5. CASE LoadToDecide(c)
    <2>1. PICK i \in DOMAIN recs, act \in Decisions :
            client' = [client EXCEPT ![c] =
               [pc |-> "decide", id |-> i, act |-> act, state |-> recs[i].state,
                dated |-> recs[i].until # "none", due |-> {}, stale |-> {}]]
      BY <1>5 DEF LoadToDecide
    <2> DEFINE x == [pc |-> "decide", id |-> i, act |-> act, state |-> recs[i].state,
                     dated |-> recs[i].until # "none", due |-> {}, stale |-> {}]
    <2>2. recs[i] \in RowRecord /\ i \in Nat /\ i # 0
      BY <1>1
    <2>3. x \in ClientRecord
      BY <2>2 DEF ClientRecord, RowRecord
    <2>4. {x.id} \cup x.due \subseteq {0} \cup DOMAIN recs
      OBVIOUS
    <2>5. client' = [client EXCEPT ![c] = x]
      BY <2>1
    <2> HIDE DEF x
    <2>6. UNCHANGED recs /\ OnlySeller /\ acts' \in Nat
      BY <1>1, <1>5 DEF LoadToDecide
    <2>7. recs' \in Seq(RowRecord) /\ DOMAIN recs' = DOMAIN recs
      BY <1>1, <2>6
    <2>8. QED
      BY <1>2, <1>4, <2>3, <2>4, <2>5, <2>6, <2>7
  <1>6. CASE Decide(c)
    <2> DEFINE k == client[c]
    <2>1. k.id \in DOMAIN recs /\ k.act \in Decisions
      BY <1>1, <1>6 DEF Decide, ClientRecord
    <2>2. DecidedState[k.act] \in RowStates
      BY <2>1, DecidedIsState
    <2>3. recs[k.id] \in RowRecord
      BY <1>1, <2>1
    <2>4. \A u \in {"none", "later", "due"} : DecidedUntil(k.act, k.dated, u) \in {"none", "later", "due"}
      BY DEF DecidedUntil
    <2>5. Decided(recs[k.id], k) \in RowRecord
      <3> DEFINE row == recs[k.id]
                 st == IF DecidedState[k.act] = k.state THEN row.state ELSE DecidedState[k.act]
                 un == DecidedUntil(k.act, k.dated, row.until)
                 cr == k.id \in k.stale
      <3>1. st \in RowStates /\ un \in {"none", "later", "due"} /\ cr \in BOOLEAN
        BY <2>2, <2>3, <2>4 DEF RowRecord
      <3>2. Decided(row, k) = [row EXCEPT !.state = st, !.until = un, !.last = k.act, !.crossed = cr]
        BY DEF Decided
      <3> HIDE DEF st, un, cr
      <3>3. [row EXCEPT !.state = st, !.until = un, !.last = k.act, !.crossed = cr] \in RowRecord
        BY <2>1, <2>3, <3>1 DEF RowRecord
      <3>4. QED
        BY <3>2, <3>3
    <2>6. recs' = [recs EXCEPT ![k.id] = Decided(recs[k.id], k)] /\ client' = Outdated(c, {k.id})
      BY <1>6 DEF Decide
    <2>7. recs' \in Seq(RowRecord) /\ DOMAIN recs' = DOMAIN recs
      BY <1>1, <2>1, <2>5, <2>6
    <2>8. {k.id} \in SUBSET Nat
      BY <1>1 DEF ClientRecord
    <2>9. QED
      BY <1>1, <1>2, <1>3, <1>6, <2>6, <2>7, <2>8 DEF Decide
  <1>7. CASE LoadToList(c)
    <2> DEFINE x == [Away EXCEPT !.pc = "list", !.due = {i \in DOMAIN recs : Due(i)}]
    <2>1. DOMAIN recs \subseteq Nat
      BY <1>1
    <2>2. x \in ClientRecord /\ {x.id} \cup x.due \subseteq {0} \cup DOMAIN recs
      BY <2>1, AwayIsTyped DEF Away, ClientRecord
    <2>3. client' = [client EXCEPT ![c] = x]
      BY <1>7 DEF LoadToList
    <2> HIDE DEF x
    <2>4. UNCHANGED recs /\ OnlySeller /\ acts' \in Nat
      BY <1>1, <1>7 DEF LoadToList
    <2>5. recs' \in Seq(RowRecord) /\ DOMAIN recs' = DOMAIN recs
      BY <1>1, <2>4
    <2>6. QED
      BY <1>2, <1>4, <2>2, <2>3, <2>4, <2>5
  <1>8. CASE List(c)
    <2>1. \A i \in DOMAIN recs :
            [recs[i] EXCEPT !.state = "active", !.until = "none",
                            !.crossed = @ \/ i \in client[c].stale] \in RowRecord
      <3> TAKE i \in DOMAIN recs
      <3>1. recs[i] \in RowRecord
        BY <1>1
      <3>2. QED
        BY <3>1 DEF RowRecord, RowStates
    <2>2. \A i \in DOMAIN recs : recs[i] \in RowRecord
      BY <1>1
    <2>3. DOMAIN recs = 1 .. Len(recs) /\ Len(recs) \in Nat
      BY <1>1
    <2>4. recs' = [i \in DOMAIN recs |->
                     IF i \in client[c].due
                     THEN [recs[i] EXCEPT !.state = "active", !.until = "none",
                                          !.crossed = @ \/ i \in client[c].stale]
                     ELSE recs[i]]
      BY <1>8 DEF List
    <2>5. recs' \in [1 .. Len(recs) -> RowRecord]
      BY <2>1, <2>2, <2>3, <2>4, Zenon
    <2>6. recs' \in Seq(RowRecord) /\ DOMAIN recs' = DOMAIN recs
      BY <2>3, <2>5
    <2>7. client' = Outdated(c, client[c].due) /\ client[c].due \in SUBSET Nat
      BY <1>1, <1>8 DEF List, ClientRecord
    <2>8. QED
      BY <1>1, <1>2, <1>3, <1>8, <2>6, <2>7 DEF List
  <1>9. QED
    BY <1>5, <1>6, <1>7, <1>8 DEF SellerStep

LEMMA TypeStep == TypeOK /\ [Next]_vars => TypeOK'
  <1> SUFFICES ASSUME TypeOK, [Next]_vars PROVE TypeOK'
    OBVIOUS
  <1>1. ASSUME NEW i \in DOMAIN recs, TimePasses(i) PROVE TypeOK'
    <2>1. recs[i] \in RowRecord /\ recs \in Seq(RowRecord)
      BY DEF TypeOK
    <2>2. [recs[i] EXCEPT !.until = "due"] \in RowRecord
      BY <2>1 DEF RowRecord
    <2>3. recs' \in Seq(RowRecord) /\ DOMAIN recs' = DOMAIN recs
      BY <1>1, <2>1, <2>2 DEF TimePasses
    <2>4. QED
      BY <1>1, <2>3 DEF TimePasses, OnlySeller, TypeOK
  <1>2. CASE Midnight
    <2>1. day' \in Days
      BY <1>2, AiAdvisoryAssumption DEF Midnight, TypeOK, Days
    <2>2. QED
      BY <1>2, <2>1 DEF Midnight, TypeOK
  <1>3. CASE UNCHANGED vars
    BY <1>3 DEF vars, TypeOK
  <1>4. QED
    BY <1>1, <1>2, <1>3, RequestTyped, SellerTyped DEF Next

(* Rows, requests and sessions are of their types.                          *)
THEOREM TypeCorrect == Spec => []TypeOK
  BY TypeInit, TypeStep, PTL DEF Spec

(***************************************************************************)
(* The seller's decisions.                                                 *)
(***************************************************************************)
(* What a session has loaded is what the row still says, as long as no      *)
(* other session has changed the row: this is what stale records.           *)
Loaded ==
    \A c \in Client :
      /\ client[c].pc = "decide" /\ client[c].id \notin client[c].stale =>
            client[c].state = recs[client[c].id].state
      /\ \A i \in client[c].due \ client[c].stale : i \in DOMAIN recs /\ recs[i].state = "snoozed"

Stands(row) ==
    ~row.crossed =>
      \/ row.last = "none" /\ row.state = "active"
      \/ row.last # "none" /\ row.state = DecidedState[row.last]
      \/ row.last = "snooze" /\ row.state = "active" /\ row.until = "none"

DecisionInv == Loaded /\ \A i \in DOMAIN recs : Stands(recs[i])

LEMMA DecidesSomething == \A c \in Client : TypeOK /\ client[c].pc = "decide" =>
        client[c].id \in DOMAIN recs /\ client[c].act \in Decisions
  BY DEF TypeOK, ClientRecord

LEMMA DecisionsAreNamed == "none" \notin Decisions
  BY AiAdvisoryAssumption

LEMMA RowsAreTyped == TypeOK => \A i \in DOMAIN recs : recs[i] \in RowRecord
  BY DEF TypeOK

(* A request adds a row nobody has decided about, and of the others changes *)
(* nothing but the content.                                                 *)
LEMMA RequestKeepsRows ==
    ASSUME TypeOK, NEW s \in Slot, RequestStep(s)
    PROVE  /\ client' = client
           /\ DOMAIN recs \subseteq DOMAIN recs'
           /\ \A i \in DOMAIN recs :
                 /\ recs'[i].state = recs[i].state /\ recs'[i].until = recs[i].until
                 /\ recs'[i].last = recs[i].last /\ recs'[i].crossed = recs[i].crossed
           /\ \A i \in DOMAIN recs' \ DOMAIN recs : recs'[i].last = "none" /\ recs'[i].state = "active"
  <1>1. CASE recs' = recs /\ client' = client
    BY <1>1
  <1>2. CASE Store(s)
    <2> DEFINE i == slot[s].target  c == slot[s].content
    <2>1. client' = client /\ recs \in Seq(RowRecord)
      BY <1>2 DEF Store, TypeOK
    <2>2. CASE i # 0 /\ recs' = [recs EXCEPT ![i] = Refreshed(@, c)]
      <3>1. i \in DOMAIN recs
        BY <2>2 DEF TypeOK
      <3>2. DOMAIN recs' = DOMAIN recs
            /\ \A j \in DOMAIN recs : recs'[j] = IF j = i THEN Refreshed(recs[i], c) ELSE recs[j]
        BY <2>1, <2>2, <3>1
      <3>3. recs[i] \in RowRecord
        BY <3>1, RowsAreTyped
      <3> DEFINE row == Refreshed(recs[i], c)
      <3>4. /\ row.state = recs[i].state /\ row.until = recs[i].until
            /\ row.last = recs[i].last /\ row.crossed = recs[i].crossed
        BY <3>3 DEF Refreshed, RowRecord
      <3> HIDE DEF row
      <3>5. QED
        BY <2>1, <3>2, <3>4 DEF row
    <2>3. CASE recs' = Append(recs, NewRow(c))
      <3>1. /\ DOMAIN recs' = DOMAIN recs \cup {Len(recs) + 1}
            /\ recs'[Len(recs) + 1] = NewRow(c)
            /\ \A j \in DOMAIN recs : recs'[j] = recs[j]
        BY <2>1, <2>3
      <3>2. NewRow(c).last = "none" /\ NewRow(c).state = "active"
        BY DEF NewRow
      <3>3. QED
        BY <2>1, <3>1, <3>2
    <2>4. QED
      BY <1>2, <2>2, <2>3 DEF Store
  <1>3. (recs' = recs /\ client' = client) \/ Store(s)
    BY DEF RequestStep, Begin, CheckBudget, Call, Draft, Fail, Complete, CompleteStream, Die,
           LookUp, Unbound, Recall, Remember, OnlyRun
  <1>4. QED
    BY <1>1, <1>2, <1>3

LEMMA DecisionOfRequest ==
    ASSUME TypeOK, DecisionInv, NEW s \in Slot, RequestStep(s)
    PROVE  DecisionInv'
  <1>1. Loaded'
    BY RequestKeepsRows, DecidesSomething DEF DecisionInv, Loaded
  <1>2. ASSUME NEW i \in DOMAIN recs' PROVE Stands(recs[i])'
    BY <1>2, RequestKeepsRows DEF DecisionInv, Stands
  <1>3. QED
    BY <1>1, <1>2 DEF DecisionInv

(* Who changes rows tells the other sessions that hold them.                *)
LEMMA OutdatedTells ==
    ASSUME TypeOK, Loaded, NEW c \in Client, NEW ids, client' = Outdated(c, ids),
           DOMAIN recs' = DOMAIN recs,
           \A i \in DOMAIN recs \ ids : recs'[i].state = recs[i].state
    PROVE  Loaded'
  <1> SUFFICES ASSUME NEW k \in Client
               PROVE  /\ client'[k].pc = "decide" /\ client'[k].id \notin client'[k].stale =>
                            client'[k].state = recs'[client'[k].id].state
                      /\ \A i \in client'[k].due \ client'[k].stale :
                            i \in DOMAIN recs' /\ recs'[i].state = "snoozed"
    BY DEF Loaded
  <1>1. CASE k = c
    BY <1>1 DEF Outdated, Away
  <1>2. CASE k # c
    <2>1. client[k] \in ClientRecord
      BY DEF TypeOK
    <2>2. client'[k] = [client[k] EXCEPT !.stale = @ \cup (ids \cap (client[k].due \cup {client[k].id}))]
      BY <1>2 DEF Outdated
    <2>3. /\ client'[k].pc = client[k].pc /\ client'[k].id = client[k].id
          /\ client'[k].state = client[k].state /\ client'[k].due = client[k].due
          /\ client'[k].stale = client[k].stale \cup (ids \cap (client[k].due \cup {client[k].id}))
      BY <2>1, <2>2 DEF ClientRecord
    <2>4. QED
      BY <2>3, DecidesSomething DEF Loaded
  <1>3. QED
    BY <1>1, <1>2

LEMMA DecisionOfSeller ==
    ASSUME TypeOK, DecisionInv, NEW c \in Client, SellerStep(c)
    PROVE  DecisionInv'
  <1>1. \A i \in DOMAIN recs : recs[i] \in RowRecord /\ Stands(recs[i])
    BY RowsAreTyped DEF DecisionInv
  <1>2. client \in [Client -> ClientRecord] /\ Loaded
    BY DEF TypeOK, DecisionInv
  <1>3. CASE LoadToDecide(c)
    <2>1. PICK i \in DOMAIN recs, act \in Decisions :
            client' = [client EXCEPT ![c] =
               [pc |-> "decide", id |-> i, act |-> act, state |-> recs[i].state,
                dated |-> recs[i].until # "none", due |-> {}, stale |-> {}]]
      BY <1>3 DEF LoadToDecide
    <2>2. recs' = recs
      BY <1>3 DEF LoadToDecide
    <2>3. Loaded'
      BY <1>2, <2>1, <2>2 DEF Loaded
    <2>4. QED
      BY <1>1, <2>2, <2>3 DEF DecisionInv, Stands
  <1>4. CASE LoadToList(c)
    <2> DEFINE x == [Away EXCEPT !.pc = "list", !.due = {i \in DOMAIN recs : Due(i)}]
    <2>1. recs' = recs /\ client' = [client EXCEPT ![c] = x]
      BY <1>4 DEF LoadToList
    <2>2. x.pc = "list" /\ \A i \in x.due : i \in DOMAIN recs /\ recs[i].state = "snoozed"
      BY DEF Away, Due
    <2> HIDE DEF x
    <2>3. Loaded'
      BY <1>2, <2>1, <2>2 DEF Loaded
    <2>4. QED
      BY <1>1, <2>1, <2>3 DEF DecisionInv, Stands
  <1>5. CASE Decide(c)
    <2> DEFINE k == client[c]
    <2>1. k.id \in DOMAIN recs /\ k.act \in Decisions /\ k.act # "none"
      BY <1>5, DecidesSomething, DecisionsAreNamed DEF Decide
    <2>2. /\ DOMAIN recs' = DOMAIN recs /\ recs'[k.id] = Decided(recs[k.id], k)
          /\ \A i \in DOMAIN recs \ {k.id} : recs'[i] = recs[i]
          /\ client' = Outdated(c, {k.id})
      BY <1>5, <2>1 DEF Decide
    <2>3. Loaded'
      BY <1>2, <2>2, OutdatedTells
    <2>4. Stands(Decided(recs[k.id], k))
      <3> DEFINE row == recs[k.id]
                 new == Decided(row, k)
      <3>1. row \in RowRecord
        BY <1>1, <2>1
      <3>2. /\ new.last = k.act /\ new.crossed = (k.id \in k.stale)
            /\ new.state = IF DecidedState[k.act] = k.state THEN row.state ELSE DecidedState[k.act]
        BY <3>1 DEF Decided, RowRecord
      <3>3. k.id \notin k.stale => k.state = row.state
        BY <1>2, <1>5 DEF Decide, Loaded
      <3> HIDE DEF new
      <3>4. Stands(new)
        BY <2>1, <3>2, <3>3 DEF Stands
      <3>5. QED
        BY <3>4 DEF new
    <2>5. \A i \in DOMAIN recs' : Stands(recs'[i])
      BY <1>1, <2>2, <2>4
    <2>6. QED
      BY <2>3, <2>5 DEF DecisionInv, Stands
  <1>6. CASE List(c)
    <2> DEFINE k == client[c]
               Woken(i) == [recs[i] EXCEPT !.state = "active", !.until = "none",
                                           !.crossed = @ \/ i \in k.stale]
    <2>1. /\ DOMAIN recs' = DOMAIN recs
          /\ \A i \in DOMAIN recs : recs'[i] = IF i \in k.due THEN Woken(i) ELSE recs[i]
          /\ client' = Outdated(c, k.due)
      BY <1>6 DEF List
    <2>2. Loaded'
      BY <1>2, <2>1, OutdatedTells
    <2>3. ASSUME NEW i \in DOMAIN recs, i \in k.due PROVE Stands(Woken(i))
      <3>1. recs[i] \in RowRecord /\ Stands(recs[i])
        BY <1>1
      <3>2. /\ Woken(i).state = "active" /\ Woken(i).until = "none" /\ Woken(i).last = recs[i].last
            /\ Woken(i).crossed = (recs[i].crossed \/ i \in k.stale)
        BY <3>1 DEF RowRecord
      <3>3. i \notin k.stale => recs[i].state = "snoozed"
        BY <1>2, <2>3 DEF Loaded
      <3>4. \A act \in Decisions : DecidedState[act] = "snoozed" => act = "snooze"
        BY AiAdvisoryAssumption DEF DecidedState
      <3>5. recs[i].last \in Decisions \cup {"none"}
        BY <3>1 DEF RowRecord
      <3> HIDE DEF Woken
      <3>6. QED
        BY <3>1, <3>2, <3>3, <3>4, <3>5 DEF Stands
    <2>4. \A i \in DOMAIN recs' : Stands(recs'[i])
      BY <1>1, <2>1, <2>3
    <2>5. QED
      BY <2>2, <2>4 DEF DecisionInv, Stands
  <1>7. QED
    BY <1>3, <1>4, <1>5, <1>6 DEF SellerStep

LEMMA DecisionStep == TypeOK /\ DecisionInv /\ [Next]_vars => DecisionInv'
  <1> SUFFICES ASSUME TypeOK, DecisionInv, [Next]_vars PROVE DecisionInv'
    OBVIOUS
  <1>1. ASSUME NEW i \in DOMAIN recs, TimePasses(i) PROVE DecisionInv'
    <2>1. recs[i] \in RowRecord /\ recs[i].until = "later"
      BY <1>1, RowsAreTyped DEF TimePasses
    <2>2. /\ client' = client /\ DOMAIN recs' = DOMAIN recs
          /\ recs'[i] = [recs[i] EXCEPT !.until = "due"]
          /\ \A j \in DOMAIN recs \ {i} : recs'[j] = recs[j]
      BY <1>1 DEF TimePasses
    <2>3. /\ recs'[i].state = recs[i].state /\ recs'[i].last = recs[i].last
          /\ recs'[i].crossed = recs[i].crossed
      BY <2>1, <2>2 DEF RowRecord
    <2>4. \A j \in DOMAIN recs : recs'[j].state = recs[j].state
      BY <2>2, <2>3
    <2>5. Loaded'
      BY <2>2, <2>4, DecidesSomething DEF DecisionInv, Loaded
    <2>6. Stands(recs'[i])
      BY <2>1, <2>3 DEF DecisionInv, Stands
    <2>7. \A j \in DOMAIN recs \ {i} : Stands(recs'[j])
      BY <2>2 DEF DecisionInv
    <2>8. \A j \in DOMAIN recs' : Stands(recs'[j])
      BY <2>2, <2>6, <2>7
    <2>9. QED
      BY <2>5, <2>8 DEF DecisionInv, Stands
  <1>2. CASE Midnight \/ UNCHANGED vars
    BY <1>2 DEF Midnight, vars, DecisionInv, Loaded, Stands
  <1>3. QED
    BY <1>1, <1>2, DecisionOfRequest, DecisionOfSeller DEF Next

(* What a recommendation shows is what the seller decided last -- through   *)
(* refreshes by later runs and through lists that wake what was snoozed --  *)
(* unless the last to write it had loaded it before another session changed *)
(* it: for any number of requests and sessions.                            *)
THEOREM DecisionsStand == Spec => []DecisionStands
  <1>1. Init => DecisionInv
    BY DEF Init, DecisionInv, Loaded, Away
  <1>2. DecisionInv => DecisionStands
    BY DEF DecisionInv, DecisionStands, Stands
  <1>3. QED
    BY <1>1, <1>2, DecisionStep, TypeCorrect, PTL DEF Spec

(***************************************************************************)
(* Counting requests.                                                      *)
(***************************************************************************)
LEMMA SlotsAreCounted ==
    ASSUME NEW S \in SUBSET Slot
    PROVE  IsFiniteSet(S) /\ Cardinality(S) \in Nat /\ Cardinality(S) <= Cardinality(Slot)
  BY FS_Subset, FS_CardinalityType, AiAdvisoryAssumption

LEMMA FewerAreCounted ==
    ASSUME NEW S \in SUBSET Slot, NEW T \in SUBSET S
    PROVE  Cardinality(T) <= Cardinality(S)
  BY SlotsAreCounted, FS_Subset

LEMMA OneLessIsCounted ==
    ASSUME NEW S \in SUBSET Slot, NEW s \in S, NEW T \in SUBSET (S \ {s})
    PROVE  Cardinality(T) + 1 <= Cardinality(S)
  <1>1. IsFiniteSet(S) /\ Cardinality(S) \in Nat /\ S \ {s} \in SUBSET Slot
    BY SlotsAreCounted
  <1>2. Cardinality(S \ {s}) = Cardinality(S) - 1
    BY <1>1, FS_RemoveElement
  <1>3. Cardinality(T) <= Cardinality(S \ {s}) /\ Cardinality(T) \in Nat
    BY <1>1, FewerAreCounted, SlotsAreCounted
  <1>4. QED
    BY <1>1, <1>2, <1>3

LEMMA RunCapTimes ==
    \A a, b \in Nat : /\ RunCap * a \in Nat
                      /\ a <= b => RunCap * a <= RunCap * b
                      /\ a + 1 <= b => RunCap * a + RunCap <= RunCap * b
  <1> SUFFICES ASSUME NEW a \in Nat, NEW b \in Nat
               PROVE  /\ RunCap * a \in Nat
                      /\ a <= b => RunCap * a <= RunCap * b
                      /\ a + 1 <= b => RunCap * a + RunCap <= RunCap * b
    OBVIOUS
  <1>1. RunCap \in Nat /\ RunCap * a \in Nat
    BY AiAdvisoryAssumption
  <1>2. \A d \in Nat : RunCap * (a + d) = RunCap * a + RunCap * d /\ RunCap * d \in Nat
    BY <1>1
  <1>3. ASSUME a <= b PROVE RunCap * a <= RunCap * b
    <2>1. b = a + (b - a) /\ b - a \in Nat
      BY <1>3
    <2>2. RunCap * b = RunCap * a + RunCap * (b - a) /\ RunCap * (b - a) \in Nat
      BY <1>2, <2>1
    <2>3. QED
      BY <1>1, <2>2
  <1>4. ASSUME a + 1 <= b PROVE RunCap * a + RunCap <= RunCap * b
    <2>1. b = (a + 1) + (b - a - 1) /\ b - a - 1 \in Nat
      BY <1>4
    <2>2. RunCap * (a + 1) = RunCap * a + RunCap
      BY <1>1
    <2>3. RunCap * b = RunCap * (a + 1) + RunCap * (b - a - 1) /\ RunCap * (b - a - 1) \in Nat
      BY <1>1, <2>1
    <2>4. QED
      BY <1>1, <2>2, <2>3
  <1>5. QED
    BY <1>1, <1>3, <1>4

(***************************************************************************)
(* Spend.                                                                  *)
(***************************************************************************)
Passes == {"checked", "called", "drafted", "streamed"}

(* Requests begun on day d that may still cost: all of them, and those that *)
(* have got past the cap.                                                   *)
Underway(d) == {s \in Slot : slot[s].born = d /\ slot[s].pc \in Passes \cup {"begun"}}
Passed(d) == {s \in Slot : slot[s].born = d /\ slot[s].pc \in Passes}

(* The money a day can still come to, if every request that has passed its  *)
(* cap costs a full run; on a past day those also that were begun on it and *)
(* will be held against the cap of a later day.                             *)
TodayIsBounded(d) ==
    spend[d] + RunCap * Cardinality(Passed(d)) <= (DayCap - 1) + RunCap * Cardinality(Slot)
PastIsBounded(d) ==
    spend[d] + RunCap * Cardinality(Underway(d))
      <= (DayCap - 1) + (RunCap * Cardinality(Slot) + RunCap * Cardinality(Slot))

SpendInv ==
    /\ \A s \in Slot : slot[s].born <= day
    /\ \A s \in Slot : slot[s].pc = "drafted" => slot[s].cost <= RunCap
    /\ \A d \in Days : IF d >= day THEN TodayIsBounded(d) ELSE PastIsBounded(d)

LEMMA DaysAreCounted ==
    ASSUME TypeOK, NEW d \in Days
    PROVE  /\ Passed(d) \subseteq Underway(d) /\ Underway(d) \subseteq Slot
           /\ Cardinality(Passed(d)) \in Nat /\ Cardinality(Underway(d)) \in Nat
           /\ Cardinality(Underway(d)) <= Cardinality(Slot) /\ Cardinality(Slot) \in Nat
           /\ spend[d] \in Nat /\ d \in Nat /\ day \in Nat
           /\ RunCap \in Nat /\ DayCap \in Nat /\ DayCap >= 1
  <1>1. Passed(d) \subseteq Underway(d) /\ Underway(d) \subseteq Slot
    BY DEF Passed, Underway
  <1>2. spend[d] \in Nat /\ d \in Nat /\ day \in Nat
    BY DEF TypeOK, Days
  <1>3. QED
    BY <1>1, <1>2, SlotsAreCounted, AiAdvisoryAssumption

(* Fewer requests that may cost, nothing spent.                             *)
LEMMA FewerMayCost ==
    ASSUME TypeOK, TypeOK', NEW d \in Days, spend'[d] = spend[d]
    PROVE  /\ Passed(d)' \subseteq Passed(d) /\ TodayIsBounded(d) => TodayIsBounded(d)'
           /\ Underway(d)' \subseteq Underway(d) /\ PastIsBounded(d) => PastIsBounded(d)'
  <1>1. ASSUME NEW S \in SUBSET Slot, NEW T \in SUBSET S
        PROVE  RunCap * Cardinality(T) <= RunCap * Cardinality(S) /\ RunCap * Cardinality(T) \in Nat
               /\ RunCap * Cardinality(S) \in Nat
    BY FewerAreCounted, SlotsAreCounted, RunCapTimes
  <1>2. spend[d] \in Nat /\ DayCap \in Nat /\ RunCap * Cardinality(Slot) \in Nat
    BY DaysAreCounted, RunCapTimes
  <1>3. ASSUME Passed(d)' \subseteq Passed(d), TodayIsBounded(d) PROVE TodayIsBounded(d)'
    <2>1. Passed(d) \in SUBSET Slot
      BY DEF Passed
    <2> DEFINE m == RunCap * Cardinality(Passed(d))
               n == RunCap * Cardinality(Passed(d)')
               k == RunCap * Cardinality(Slot)
    <2>2. n <= m /\ m \in Nat /\ n \in Nat /\ k \in Nat
      BY <1>1, <1>2, <1>3, <2>1
    <2>3. spend[d] + m <= (DayCap - 1) + k
      BY <1>3 DEF TodayIsBounded
    <2>4. TodayIsBounded(d)' <=> spend[d] + n <= (DayCap - 1) + k
      BY DEF TodayIsBounded
    <2> HIDE DEF m, n, k
    <2>5. QED
      BY <1>2, <2>2, <2>3, <2>4
  <1>4. ASSUME Underway(d)' \subseteq Underway(d), PastIsBounded(d) PROVE PastIsBounded(d)'
    <2>1. Underway(d) \in SUBSET Slot
      BY DEF Underway
    <2> DEFINE m == RunCap * Cardinality(Underway(d))
               n == RunCap * Cardinality(Underway(d)')
               k == RunCap * Cardinality(Slot)
    <2>2. n <= m /\ m \in Nat /\ n \in Nat /\ k \in Nat
      BY <1>1, <1>2, <1>4, <2>1
    <2>3. spend[d] + m <= (DayCap - 1) + (k + k)
      BY <1>4 DEF PastIsBounded
    <2>4. PastIsBounded(d)' <=> spend[d] + n <= (DayCap - 1) + (k + k)
      BY DEF PastIsBounded
    <2> HIDE DEF m, n, k
    <2>5. QED
      BY <1>2, <2>2, <2>3, <2>4
  <1>5. QED
    BY <1>3, <1>4

(* A request that is booked: it no longer may cost what it now has cost.    *)
LEMMA BookedIsBounded ==
    ASSUME TypeOK, NEW s \in Slot, NEW d \in Days, NEW cost \in Nat, cost <= RunCap,
           spend'[d] = spend[d] + cost
    PROVE  /\ s \in Passed(d) /\ Passed(d)' \subseteq Passed(d) \ {s} /\ TodayIsBounded(d)
                => TodayIsBounded(d)'
           /\ s \in Underway(d) /\ Underway(d)' \subseteq Underway(d) \ {s} /\ PastIsBounded(d)
                => PastIsBounded(d)'
  <1>1. ASSUME NEW S \in SUBSET Slot, s \in S, NEW T \in SUBSET (S \ {s})
        PROVE  RunCap * Cardinality(T) + RunCap <= RunCap * Cardinality(S)
               /\ RunCap * Cardinality(T) \in Nat /\ RunCap * Cardinality(S) \in Nat
    <2>1. Cardinality(T) + 1 <= Cardinality(S)
      BY <1>1, OneLessIsCounted
    <2>2. Cardinality(T) \in Nat /\ Cardinality(S) \in Nat
      BY <1>1, SlotsAreCounted
    <2>3. QED
      BY <2>1, <2>2, RunCapTimes
  <1>2. spend[d] \in Nat /\ DayCap \in Nat /\ RunCap \in Nat /\ RunCap * Cardinality(Slot) \in Nat
    BY DaysAreCounted, RunCapTimes
  <1>3. ASSUME s \in Passed(d), Passed(d)' \subseteq Passed(d) \ {s}, TodayIsBounded(d)
        PROVE  TodayIsBounded(d)'
    <2>1. Passed(d) \in SUBSET Slot
      BY DEF Passed
    <2> DEFINE m == RunCap * Cardinality(Passed(d))
               n == RunCap * Cardinality(Passed(d)')
               k == RunCap * Cardinality(Slot)
    <2>2. n + RunCap <= m /\ m \in Nat /\ n \in Nat /\ k \in Nat
      BY <1>1, <1>2, <1>3, <2>1
    <2>3. spend[d] + m <= (DayCap - 1) + k
      BY <1>3 DEF TodayIsBounded
    <2>4. TodayIsBounded(d)' <=> (spend[d] + cost) + n <= (DayCap - 1) + k
      BY DEF TodayIsBounded
    <2> HIDE DEF m, n, k
    <2>5. QED
      BY <1>2, <2>2, <2>3, <2>4
  <1>4. ASSUME s \in Underway(d), Underway(d)' \subseteq Underway(d) \ {s}, PastIsBounded(d)
        PROVE  PastIsBounded(d)'
    <2>1. Underway(d) \in SUBSET Slot
      BY DEF Underway
    <2> DEFINE m == RunCap * Cardinality(Underway(d))
               n == RunCap * Cardinality(Underway(d)')
               k == RunCap * Cardinality(Slot)
    <2>2. n + RunCap <= m /\ m \in Nat /\ n \in Nat /\ k \in Nat
      BY <1>1, <1>2, <1>4, <2>1
    <2>3. spend[d] + m <= (DayCap - 1) + (k + k)
      BY <1>4 DEF PastIsBounded
    <2>4. PastIsBounded(d)' <=> (spend[d] + cost) + n <= (DayCap - 1) + (k + k)
      BY DEF PastIsBounded
    <2> HIDE DEF m, n, k
    <2>5. QED
      BY <1>2, <2>2, <2>3, <2>4
  <1>5. QED
    BY <1>3, <1>4

(* What becomes of the request that moves; the others do not.               *)
LEMMA OneMoves ==
    ASSUME TypeOK, NEW s \in Slot, RequestStep(s)
    PROVE  /\ day' = day
           /\ \A t \in Slot \ {s} : slot'[t] = slot[t]
           /\ \E x : slot' = [slot EXCEPT ![s] = x]
  BY DEF RequestStep, Begin, CheckBudget, Call, Draft, Fail, Complete, CompleteStream, Die,
         LookUp, Unbound, Store, Recall, Remember, OnlyRun, Moves, Ends, TypeOK

(* Except where it looks at the cap and where it is booked, a request comes *)
(* no nearer to costing anything.                                           *)
LEMMA SpendOfOthers ==
    ASSUME TypeOK, TypeOK', SpendInv, NEW s \in Slot, RequestStep(s), spend' = spend,
           slot'[s].born <= day,
           slot'[s].pc = "drafted" => slot'[s].cost <= RunCap,
           slot'[s].pc \in Passes => slot[s].pc \in Passes /\ slot'[s].born = slot[s].born,
           slot'[s].pc = "begun" => slot'[s].born = day
    PROVE  SpendInv'
  <1>1. \A t \in Slot : slot'[t].born <= day' /\ (slot'[t].pc = "drafted" => slot'[t].cost <= RunCap)
    BY OneMoves DEF SpendInv
  <1>2. ASSUME NEW d \in Days, d >= day PROVE TodayIsBounded(d)'
    <2>1. Passed(d)' \subseteq Passed(d)
      BY OneMoves DEF Passed
    <2>2. TodayIsBounded(d)
      BY <1>2 DEF SpendInv
    <2>3. QED
      BY <2>1, <2>2, FewerMayCost
  <1>3. ASSUME NEW d \in Days, ~(d >= day) PROVE PastIsBounded(d)'
    <2>1. d # day
      BY <1>3 DEF TypeOK, Days
    <2>2. Underway(d)' \subseteq Underway(d)
      BY <2>1, OneMoves DEF Underway
    <2>3. PastIsBounded(d)
      BY <1>3 DEF SpendInv
    <2>4. QED
      BY <2>2, <2>3, FewerMayCost
  <1>4. day' = day
    BY OneMoves
  <1>5. QED
    BY <1>1, <1>2, <1>3, <1>4 DEF SpendInv

LEMMA SpendOfRequest ==
    ASSUME TypeOK, TypeOK', SpendInv, NEW s \in Slot, RequestStep(s)
    PROVE  SpendInv'
  <1>1. slot[s] \in SlotRecord /\ slot \in [Slot -> SlotRecord] /\ day \in Nat /\ slot[s].born <= day
        /\ day \in Days /\ day >= 1 /\ slot[s].born \in Days
    BY DEF TypeOK, SpendInv, Days, SlotRecord
  <1>2. ASSUME Ends(s), spend' = spend PROVE SpendInv'
    <2>1. slot'[s] = Idle
      BY <1>1, <1>2 DEF Ends
    <2>2. QED
      BY <1>1, <1>2, <2>1, SpendOfOthers DEF Idle, Passes
  <1>3. ASSUME NEW p, Moves(s, p), spend' = spend,
               p \in Passes => slot[s].pc \in Passes,
               p = "drafted" => slot[s].cost <= RunCap,
               p # "begun"
        PROVE  SpendInv'
    <2>1. slot'[s] = [slot[s] EXCEPT !.pc = p]
      BY <1>1, <1>3 DEF Moves
    <2>2. slot'[s].pc = p /\ slot'[s].born = slot[s].born /\ slot'[s].cost = slot[s].cost
      BY <1>1, <2>1 DEF SlotRecord
    <2>3. QED
      BY <1>1, <1>3, <2>2, SpendOfOthers
  <1>4. CASE Begin(s)
    <2>1. slot'[s] = [slot[s] EXCEPT !.pc = "begun", !.born = day] /\ spend' = spend
      BY <1>1, <1>4 DEF Begin
    <2>2. slot'[s].pc = "begun" /\ slot'[s].born = day
      BY <1>1, <2>1 DEF SlotRecord
    <2>3. slot'[s].born <= day /\ slot'[s].pc # "drafted" /\ slot'[s].pc \notin Passes
      BY <1>1, <2>2 DEF Passes
    <2>4. QED
      BY <2>1, <2>2, <2>3, SpendOfOthers
  <1>5. CASE CheckBudget(s)
    <2>1. spend' = spend /\ slot[s].pc = "begun"
      BY <1>5 DEF CheckBudget, At
    <2>2. CASE WithinDayCap /\ Moves(s, "checked")
      <3>1. slot'[s] = [slot[s] EXCEPT !.pc = "checked"]
        BY <1>1, <2>2 DEF Moves
      <3>2. slot'[s].pc = "checked" /\ slot'[s].born = slot[s].born
        BY <1>1, <3>1 DEF SlotRecord
      <3>3. \A t \in Slot : slot'[t].born <= day' /\ (slot'[t].pc = "drafted" => slot'[t].cost <= RunCap)
        BY <1>1, <3>2, OneMoves DEF SpendInv
      <3>4. ASSUME NEW d \in Days, d >= day PROVE TodayIsBounded(d)'
        <4>1. CASE d = day
          <5> DEFINE n == RunCap * Cardinality(Passed(day)')
                     k == RunCap * Cardinality(Slot)
          <5>1. Passed(day)' \in SUBSET Slot
            BY DEF Passed
          <5>2. Cardinality(Passed(day)') \in Nat /\ Cardinality(Slot) \in Nat
                /\ Cardinality(Passed(day)') <= Cardinality(Slot)
            BY <5>1, SlotsAreCounted
          <5>3. n <= k /\ n \in Nat /\ k \in Nat
            BY <5>2, RunCapTimes
          <5>4. spend[day] \in Nat /\ DayCap \in Nat /\ spend[day] <= DayCap - 1
            BY <1>1, <2>2, DaysAreCounted DEF WithinDayCap
          <5>5. TodayIsBounded(d)' <=> spend[day] + n <= (DayCap - 1) + k
            BY <2>1, <4>1, OneMoves DEF TodayIsBounded, Passed
          <5> HIDE DEF n, k
          <5>6. QED
            BY <5>3, <5>4, <5>5
        <4>2. CASE d # day
          <5>1. Passed(d)' \subseteq Passed(d)
            BY <1>1, <3>2, <3>4, <4>2, OneMoves DEF Passed, Days
          <5>2. TodayIsBounded(d)
            BY <3>4 DEF SpendInv
          <5>3. QED
            BY <2>1, <5>1, <5>2, FewerMayCost
        <4>3. QED
          BY <4>1, <4>2
      <3>5. ASSUME NEW d \in Days, ~(d >= day) PROVE PastIsBounded(d)'
        <4>1. Underway(d)' \subseteq Underway(d)
          BY <2>1, <3>2, OneMoves DEF Underway
        <4>2. PastIsBounded(d)
          BY <3>5 DEF SpendInv
        <4>3. QED
          BY <2>1, <4>1, <4>2, FewerMayCost
      <3>6. QED
        BY <3>3, <3>4, <3>5, OneMoves DEF SpendInv
    <2>3. QED
      BY <1>2, <1>5, <2>1, <2>2 DEF CheckBudget
  <1>6. CASE Call(s)
    <2>1. PICK k \in 0 .. MaxCost : slot' = [slot EXCEPT ![s].pc = "called", ![s].cost = k]
      BY <1>6 DEF Call
    <2>2. slot'[s] = [slot[s] EXCEPT !.pc = "called", !.cost = k]
      BY <1>1, <2>1
    <2>3. slot'[s].pc = "called" /\ slot'[s].born = slot[s].born /\ slot[s].pc = "checked" /\ spend' = spend
      BY <1>1, <1>6, <2>2 DEF SlotRecord, Call, At
    <2>4. QED
      BY <1>1, <2>3, SpendOfOthers DEF Passes
  <1>7. CASE Draft(s)
    BY <1>3, <1>7 DEF Draft, At, Passes, WithinRunCap
  <1>8. CASE Fail(s) \/ Die(s) \/ Unbound(s) \/ Remember(s)
    BY <1>2, <1>8 DEF Fail, Die, Unbound, Remember
  <1>9. CASE Complete(s) \/ CompleteStream(s)
    <2> DEFINE b == slot[s].born  cost == slot[s].cost
    <2>1. cost \in Nat /\ cost <= RunCap /\ slot[s].pc \in Passes
      BY <1>1, <1>9 DEF Complete, CompleteStream, At, Passes, WithinRunCap, SpendInv, SlotRecord
    <2>2. spend' = [spend EXCEPT ![b] = @ + cost] /\ spend \in [Days -> Nat]
      BY <1>9 DEF Complete, CompleteStream, TypeOK
    <2>3. slot'[s].born = 1 /\ slot'[s].pc \in {"idle", "completed"}
      BY <1>1, <1>9 DEF Complete, CompleteStream, Ends, Idle
    <2>4. \A t \in Slot : slot'[t].born <= day' /\ (slot'[t].pc = "drafted" => slot'[t].cost <= RunCap)
      BY <1>1, <2>3, OneMoves DEF SpendInv
    <2>5. \A d \in Days : Passed(d)' \subseteq Passed(d) \ {s} /\ Underway(d)' \subseteq Underway(d) \ {s}
      BY <2>3, OneMoves DEF Passed, Underway, Passes
    <2>6. s \in Passed(b) /\ s \in Underway(b)
      BY <2>1 DEF Passed, Underway
    <2>7. spend'[b] = spend[b] + cost /\ \A d \in Days \ {b} : spend'[d] = spend[d]
      BY <1>1, <2>2
    <2>8. ASSUME NEW d \in Days, d >= day PROVE TodayIsBounded(d)'
      <3>1. TodayIsBounded(d)
        BY <2>8 DEF SpendInv
      <3>2. CASE d = b
        BY <1>1, <2>1, <2>5, <2>6, <2>7, <3>1, <3>2, BookedIsBounded
      <3>3. CASE d # b
        <4>1. Passed(d)' \subseteq Passed(d) /\ spend'[d] = spend[d]
          BY <2>5, <2>7, <3>3
        <4>2. QED
          BY <3>1, <4>1, FewerMayCost
      <3>4. QED
        BY <3>2, <3>3
    <2>9. ASSUME NEW d \in Days, ~(d >= day) PROVE PastIsBounded(d)'
      <3>1. PastIsBounded(d)
        BY <2>9 DEF SpendInv
      <3>2. CASE d = b
        BY <1>1, <2>1, <2>5, <2>6, <2>7, <3>1, <3>2, BookedIsBounded
      <3>3. CASE d # b
        <4>1. Underway(d)' \subseteq Underway(d) /\ spend'[d] = spend[d]
          BY <2>5, <2>7, <3>3
        <4>2. QED
          BY <3>1, <4>1, FewerMayCost
      <3>4. QED
        BY <3>2, <3>3
    <2>10. QED
      BY <2>4, <2>8, <2>9, OneMoves DEF SpendInv
  <1>10. CASE LookUp(s)
    <2>1. PICK c \in Contents :
            \/ Moves(s, "loose")
            \/ \E i \in IF Targets(c) = {} THEN {0} ELSE Targets(c) :
                 slot' = [slot EXCEPT ![s].pc = "found", ![s].target = i, ![s].content = c]
      BY <1>10 DEF LookUp
    <2>2. CASE Moves(s, "loose")
      BY <1>3, <1>10, <2>2 DEF LookUp, Passes
    <2>3. ASSUME NEW i, slot' = [slot EXCEPT ![s].pc = "found", ![s].target = i, ![s].content = c]
           PROVE  SpendInv'
      <3>1. slot'[s].pc = "found" /\ slot'[s].born = slot[s].born
        BY <1>1, <2>3 DEF SlotRecord
      <3>2. spend' = spend
        BY <1>10 DEF LookUp
      <3>3. QED
        BY <1>1, <3>1, <3>2, SpendOfOthers DEF Passes
    <2>4. QED
      BY <2>1, <2>2, <2>3
  <1>11. CASE Store(s)
    <2>1. spend' = spend /\ slot'[s].pc = "stored" /\ slot'[s].born = 1
      BY <1>1, <1>11 DEF Store, Idle
    <2>2. QED
      BY <1>1, <2>1, SpendOfOthers DEF Passes
  <1>12. CASE Recall(s)
    <2>1. PICK t \in Texts :
            \/ memory[t] = 0 /\ slot' = [slot EXCEPT ![s].pc = "fresh", ![s].text = t]
            \/ memory[t] > 0 /\ Ends(s)
      BY <1>12 DEF Recall
    <2>2. spend' = spend
      BY <1>12 DEF Recall
    <2>3. CASE slot' = [slot EXCEPT ![s].pc = "fresh", ![s].text = t]
      <3>1. slot'[s].pc = "fresh" /\ slot'[s].born = slot[s].born
        BY <1>1, <2>3 DEF SlotRecord
      <3>2. QED
        BY <1>1, <2>2, <3>1, SpendOfOthers DEF Passes
    <2>4. QED
      BY <1>2, <2>1, <2>2, <2>3
  <1>13. QED
    BY <1>4, <1>5, <1>6, <1>7, <1>8, <1>9, <1>10, <1>11, <1>12 DEF RequestStep

LEMMA SpendStep == TypeOK /\ TypeOK' /\ SpendInv /\ [Next]_vars => SpendInv'
  <1> SUFFICES ASSUME TypeOK, TypeOK', SpendInv, [Next]_vars PROVE SpendInv'
    OBVIOUS
  <1>1. CASE UNCHANGED <<day, spend, slot>>
    BY <1>1 DEF SpendInv, TodayIsBounded, PastIsBounded, Passed, Underway
  <1>2. CASE Midnight
    <2>1. day' = day + 1 /\ spend' = spend /\ slot' = slot /\ day \in Nat
      BY <1>2 DEF Midnight, TypeOK, Days
    <2>2. \A s \in Slot : slot[s].born <= day + 1
      BY <2>1 DEF SpendInv, TypeOK, SlotRecord, Days
    <2>3. ASSUME NEW d \in Days PROVE IF d >= day + 1 THEN TodayIsBounded(d) ELSE PastIsBounded(d)
      <3>1. d \in Nat
        BY DEF Days
      <3>2. CASE d # day
        BY <2>1, <3>1, <3>2 DEF SpendInv
      <3>3. CASE d = day
        <4> DEFINE m == RunCap * Cardinality(Passed(d))
                   n == RunCap * Cardinality(Underway(d))
                   k == RunCap * Cardinality(Slot)
        <4>1. m \in Nat /\ n \in Nat /\ k \in Nat /\ n <= k
          BY DaysAreCounted, RunCapTimes
        <4>2. spend[d] + m <= (DayCap - 1) + k /\ spend[d] \in Nat /\ DayCap \in Nat
          BY <2>1, <3>3, DaysAreCounted DEF SpendInv, TodayIsBounded
        <4>3. PastIsBounded(d) <=> spend[d] + n <= (DayCap - 1) + (k + k)
          BY DEF PastIsBounded
        <4> HIDE DEF m, n, k
        <4>4. PastIsBounded(d)
          BY <4>1, <4>2, <4>3
        <4>5. QED
          BY <2>1, <3>3, <4>4
      <3>4. QED
        BY <3>2, <3>3
    <2>4. \A d \in Days : (TodayIsBounded(d)' <=> TodayIsBounded(d)) /\ (PastIsBounded(d)' <=> PastIsBounded(d))
      BY <2>1 DEF TodayIsBounded, PastIsBounded, Passed, Underway
    <2>5. QED
      BY <2>1, <2>2, <2>3, <2>4 DEF SpendInv
  <1>3. ASSUME NEW c \in Client, SellerStep(c) PROVE UNCHANGED <<day, spend, slot>>
    BY <1>3 DEF SellerStep, LoadToDecide, Decide, LoadToList, List, OnlySeller
  <1>4. QED
    BY <1>1, <1>2, <1>3, SpendOfRequest DEF Next, vars, TimePasses, OnlySeller

LEMMA SpendInit == Init => SpendInv
  <1> SUFFICES ASSUME Init PROVE SpendInv
    OBVIOUS
  <1>1. \A d \in Days : Passed(d) = {} /\ spend[d] = 0 /\ d >= day
    BY DEF Init, Passed, Passes, Idle, Days
  <1>2. Cardinality(Slot) \in Nat /\ Cardinality({}) = 0
    BY SlotsAreCounted, FS_EmptySet
  <1>3. RunCap * Cardinality(Slot) \in Nat /\ RunCap * 0 = 0
    BY <1>2, RunCapTimes, AiAdvisoryAssumption
  <1>4. ASSUME NEW d \in Days PROVE TodayIsBounded(d)
    <2> DEFINE k == RunCap * Cardinality(Slot)
    <2>1. spend[d] = 0 /\ RunCap * Cardinality(Passed(d)) = 0
      BY <1>1, <1>2, <1>3
    <2>2. k \in Nat /\ DayCap \in Nat /\ DayCap # 0
      BY <1>3, AiAdvisoryAssumption
    <2>3. TodayIsBounded(d) <=> spend[d] + RunCap * Cardinality(Passed(d)) <= (DayCap - 1) + k
      BY DEF TodayIsBounded
    <2> HIDE DEF k
    <2>4. QED
      BY <2>1, <2>2, <2>3
  <1>5. QED
    BY <1>1, <1>4 DEF SpendInv, Init, Idle

(* What is recorded for the present day passes the cap by at most a full    *)
(* run of every request served at a time, for a past day by at most two:    *)
(* for any caps, costs and number of requests.                             *)
THEOREM SpendStaysBounded == Spec => []SpendIsBounded
  <1>1. TypeOK /\ SpendInv => SpendIsBounded
    <2> SUFFICES ASSUME TypeOK, SpendInv, NEW d \in Days
                 PROVE  spend[d] <= (DayCap - 1)
                          + (IF d >= day THEN 1 ELSE 2) * Cardinality(Slot) * RunCap
      BY DEF SpendIsBounded
    <2> DEFINE m == RunCap * Cardinality(Passed(d))
               n == RunCap * Cardinality(Underway(d))
               k == RunCap * Cardinality(Slot)
    <2>1. m \in Nat /\ n \in Nat /\ k \in Nat /\ spend[d] \in Nat /\ DayCap \in Nat
      BY DaysAreCounted, RunCapTimes
    <2>2. 1 * Cardinality(Slot) * RunCap = k /\ 2 * Cardinality(Slot) * RunCap = k + k
      BY DaysAreCounted
    <2>3. IF d >= day THEN spend[d] + m <= (DayCap - 1) + k
                      ELSE spend[d] + n <= (DayCap - 1) + (k + k)
      BY DEF SpendInv, TodayIsBounded, PastIsBounded
    <2> HIDE DEF m, n, k
    <2>4. QED
      BY <2>1, <2>2, <2>3
  <1>2. QED
    BY <1>1, SpendInit, SpendStep, TypeCorrect, PTL DEF Spec

(***************************************************************************)
(* Copies.                                                                 *)
(***************************************************************************)
(* Requests that found nothing there and are about to write: a summary, a   *)
(* plain recommendation for the report c is about.                          *)
FreshOf(t) == {s \in Slot : slot[s].pc = "fresh" /\ slot[s].text = t}
Making(c) == {s \in Slot : /\ slot[s].pc = "found" /\ slot[s].target = 0
                           /\ CompareOf[slot[s].content] = "none"
                           /\ ReportOf[slot[s].content] = ReportOf[c]}
Plain(c) == {i \in DOMAIN recs : ~recs[i].compared /\ ReportOf[recs[i].content] = ReportOf[c]}

(* Who is about to refresh a row refreshes one of the same report; and the  *)
(* copies there are, with those about to be written, are no more than the   *)
(* requests that may have looked at one time.                               *)
Aims ==
    \A s \in Slot : slot[s].pc = "found" /\ slot[s].target # 0 =>
        ReportOf[recs[slot[s].target].content] = ReportOf[slot[s].content]

MemoryIsBounded == \A t \in Texts : memory[t] + Cardinality(FreshOf(t)) <= Cardinality(Slot)
RecsAreBounded == \A c \in Contents : Cardinality(Plain(c)) + Cardinality(Making(c)) <= Cardinality(Slot)

CopiesInv == Aims /\ MemoryIsBounded /\ RecsAreBounded

LEMMA CopiesAreCounted ==
    TypeOK => \A c : IsFiniteSet(Plain(c)) /\ Cardinality(Plain(c)) \in Nat
  <1> SUFFICES ASSUME TypeOK, NEW c PROVE IsFiniteSet(Plain(c)) /\ Cardinality(Plain(c)) \in Nat
    OBVIOUS
  <1>1. DOMAIN recs = 1 .. Len(recs) /\ Len(recs) \in Int /\ 1 \in Int
    BY DEF TypeOK
  <1>2. IsFiniteSet(DOMAIN recs) /\ Plain(c) \in SUBSET DOMAIN recs
    BY <1>1, FS_Interval DEF Plain
  <1>3. QED
    BY <1>2, FS_Subset, FS_CardinalityType

LEMMA WritersAreCounted ==
    \A x : /\ FreshOf(x) \in SUBSET Slot /\ Cardinality(FreshOf(x)) \in Nat
           /\ Making(x) \in SUBSET Slot /\ Cardinality(Making(x)) \in Nat
           /\ Cardinality(FreshOf(x)) <= Cardinality(Slot) /\ Cardinality(Making(x)) <= Cardinality(Slot)
           /\ Cardinality(Slot) \in Nat
  <1> SUFFICES ASSUME NEW x
               PROVE  /\ FreshOf(x) \in SUBSET Slot /\ Cardinality(FreshOf(x)) \in Nat
                      /\ Making(x) \in SUBSET Slot /\ Cardinality(Making(x)) \in Nat
                      /\ Cardinality(FreshOf(x)) <= Cardinality(Slot) /\ Cardinality(Making(x)) <= Cardinality(Slot)
                      /\ Cardinality(Slot) \in Nat
    OBVIOUS
  <1>1. FreshOf(x) \in SUBSET Slot /\ Making(x) \in SUBSET Slot /\ Slot \in SUBSET Slot
    BY DEF FreshOf, Making
  <1>2. QED
    BY <1>1, SlotsAreCounted

(* Fewer that are about to write, the same written.                         *)
LEMMA FewerToRemember ==
    ASSUME TypeOK, NEW t \in Texts, memory'[t] = memory[t], FreshOf(t)' \subseteq FreshOf(t),
           memory[t] + Cardinality(FreshOf(t)) <= Cardinality(Slot)
    PROVE  memory'[t] + Cardinality(FreshOf(t)') <= Cardinality(Slot)
  <1>1. Cardinality(FreshOf(t)') <= Cardinality(FreshOf(t)) /\ Cardinality(FreshOf(t)') \in Nat
    <2>1. FreshOf(t) \in SUBSET Slot /\ FreshOf(t)' \in SUBSET Slot
      BY WritersAreCounted
    <2>2. QED
      BY <2>1, FewerAreCounted, SlotsAreCounted
  <1>2. memory[t] \in Nat
    BY DEF TypeOK
  <1>3. QED
    BY <1>1, <1>2, WritersAreCounted

LEMMA FewerToStore ==
    ASSUME TypeOK, NEW c \in Contents, Plain(c)' = Plain(c), Making(c)' \subseteq Making(c),
           Cardinality(Plain(c)) + Cardinality(Making(c)) <= Cardinality(Slot)
    PROVE  Cardinality(Plain(c)') + Cardinality(Making(c)') <= Cardinality(Slot)
  <1>1. Cardinality(Making(c)') <= Cardinality(Making(c)) /\ Cardinality(Making(c)') \in Nat
    <2>1. Making(c) \in SUBSET Slot /\ Making(c)' \in SUBSET Slot
      BY WritersAreCounted
    <2>2. QED
      BY <2>1, FewerAreCounted, SlotsAreCounted
  <1>2. Cardinality(Plain(c)) \in Nat
    BY CopiesAreCounted
  <1>3. QED
    BY <1>1, <1>2, WritersAreCounted

(* A request that neither looks up nor stores a recommendation, and does    *)
(* not come to hold one to write.                                           *)
LEMMA CopiesOfOthers ==
    ASSUME TypeOK, CopiesInv, NEW s \in Slot, RequestStep(s), recs' = recs, memory' = memory,
           slot'[s].pc \notin {"found", "fresh"}
    PROVE  CopiesInv'
  <1>1. Aims'
    BY OneMoves DEF CopiesInv, Aims
  <1>2. ASSUME NEW t \in Texts PROVE memory'[t] + Cardinality(FreshOf(t)') <= Cardinality(Slot)
    <2>1. FreshOf(t)' \subseteq FreshOf(t)
      BY OneMoves DEF FreshOf
    <2>2. QED
      BY <2>1, FewerToRemember DEF CopiesInv, MemoryIsBounded
  <1>3. ASSUME NEW c \in Contents
        PROVE  Cardinality(Plain(c)') + Cardinality(Making(c)') <= Cardinality(Slot)
    <2>1. Making(c)' \subseteq Making(c) /\ Plain(c)' = Plain(c)
      BY OneMoves DEF Making, Plain
    <2>2. QED
      BY <2>1, FewerToStore DEF CopiesInv, RecsAreBounded
  <1>4. QED
    BY <1>1, <1>2, <1>3 DEF CopiesInv, MemoryIsBounded, RecsAreBounded

LEMMA CopiesOfLookUp ==
    ASSUME TypeOK, CopiesInv, NEW s \in Slot, LookUp(s)
    PROVE  CopiesInv'
  <1>1. slot[s] \in SlotRecord /\ slot \in [Slot -> SlotRecord] /\ recs' = recs /\ memory' = memory
        /\ slot[s].pc = "completed" /\ RequestStep(s)
    BY DEF TypeOK, LookUp, At, OnlyRun, RequestStep
  <1>2. PICK c \in Contents :
          \/ CompareOf[c] = "data" /\ Moves(s, "loose")
          \/ /\ CompareOf[c] # "data"
             /\ \E i \in IF Targets(c) = {} THEN {0} ELSE Targets(c) :
                  slot' = [slot EXCEPT ![s].pc = "found", ![s].target = i, ![s].content = c]
    BY DEF LookUp
  <1>3. CASE Moves(s, "loose")
    <2>1. slot'[s] = [slot[s] EXCEPT !.pc = "loose"]
      BY <1>1, <1>3 DEF Moves
    <2>2. slot'[s].pc = "loose"
      BY <1>1, <2>1 DEF SlotRecord
    <2>3. QED
      BY <1>1, <2>2, CopiesOfOthers
  <1>4. ASSUME NEW i \in IF Targets(c) = {} THEN {0} ELSE Targets(c),
               slot' = [slot EXCEPT ![s].pc = "found", ![s].target = i, ![s].content = c]
        PROVE  CopiesInv'
    <2>1. slot'[s].pc = "found" /\ slot'[s].target = i /\ slot'[s].content = c
      BY <1>1, <1>4 DEF SlotRecord
    <2>2. i # 0 => ReportOf[recs[i].content] = ReportOf[c]
      BY <1>4 DEF Targets, SameReport
    <2>3. i = 0 => Targets(c) = {}
      BY <1>4 DEF Targets, TypeOK
    <2>4. Aims'
      BY <1>1, <2>1, <2>2, OneMoves DEF CopiesInv, Aims
    <2>5. ASSUME NEW t \in Texts PROVE memory'[t] + Cardinality(FreshOf(t)') <= Cardinality(Slot)
      <3>1. FreshOf(t)' \subseteq FreshOf(t)
        BY <1>1, <2>1, OneMoves DEF FreshOf
      <3>2. QED
        BY <1>1, <3>1, FewerToRemember DEF CopiesInv, MemoryIsBounded
    <2>6. ASSUME NEW d \in Contents
          PROVE  Cardinality(Plain(d)') + Cardinality(Making(d)') <= Cardinality(Slot)
      <3>1. Plain(d)' = Plain(d)
        BY <1>1 DEF Plain
      <3>2. CASE i = 0 /\ CompareOf[c] = "none" /\ ReportOf[c] = ReportOf[d]
        <4>1. \A j \in DOMAIN recs : ReportOf[recs[j].content] # ReportOf[c]
          BY <2>3, <3>2 DEF Targets, SameReport
        <4>2. Plain(d) = {}
          BY <3>2, <4>1 DEF Plain
        <4>3. Cardinality(Plain(d)') = 0
          BY <3>1, <4>2, FS_EmptySet
        <4>4. Making(d)' \in SUBSET Slot
          BY DEF Making
        <4>5. Cardinality(Making(d)') \in Nat /\ Cardinality(Making(d)') <= Cardinality(Slot)
              /\ Cardinality(Slot) \in Nat
          BY <4>4, SlotsAreCounted, WritersAreCounted
        <4>6. QED
          BY <4>3, <4>5
      <3>3. CASE ~(i = 0 /\ CompareOf[c] = "none" /\ ReportOf[c] = ReportOf[d])
        <4>1. Making(d)' \subseteq Making(d)
          BY <1>1, <2>1, <3>3, OneMoves DEF Making
        <4>2. QED
          BY <3>1, <4>1, FewerToStore DEF CopiesInv, RecsAreBounded
      <3>4. QED
        BY <3>2, <3>3
    <2>7. QED
      BY <2>4, <2>5, <2>6 DEF CopiesInv, MemoryIsBounded, RecsAreBounded
  <1>5. QED
    BY <1>2, <1>3, <1>4

(* The rows a store leaves: none changes its report, and one is added for a *)
(* request that found none.                                                 *)
LEMMA CopiesOfStore ==
    ASSUME TypeOK, CopiesInv, NEW s \in Slot, Store(s)
    PROVE  CopiesInv'
  <1> DEFINE k == slot[s].target  e == slot[s].content
  <1>1. /\ RequestStep(s) /\ memory' = memory /\ slot[s].pc = "found" /\ e \in Contents
        /\ k \in {0} \cup DOMAIN recs /\ recs \in Seq(RowRecord) /\ slot[s] \in SlotRecord
    BY DEF Store, At, RequestStep, TypeOK, SlotRecord
  <1>2. slot'[s].pc = "stored"
    BY DEF Store, Idle, TypeOK
  <1>3. ASSUME NEW t \in Texts PROVE memory'[t] + Cardinality(FreshOf(t)') <= Cardinality(Slot)
    <2>1. FreshOf(t)' \subseteq FreshOf(t)
      BY <1>1, <1>2, OneMoves DEF FreshOf
    <2>2. QED
      BY <1>1, <2>1, FewerToRemember DEF CopiesInv, MemoryIsBounded
  <1>4. CASE k # 0 /\ recs' = [recs EXCEPT ![k] = Refreshed(@, e)]
    <2>1. k \in DOMAIN recs /\ recs[k] \in RowRecord
      BY <1>1, <1>4, RowsAreTyped
    <2>2. /\ DOMAIN recs' = DOMAIN recs
          /\ recs'[k] = Refreshed(recs[k], e) /\ \A i \in DOMAIN recs \ {k} : recs'[i] = recs[i]
      BY <1>1, <1>4, <2>1
    <2>3. Refreshed(recs[k], e).content = e /\ Refreshed(recs[k], e).compared = recs[k].compared
      BY <2>1 DEF Refreshed, RowRecord
    <2>4. ReportOf[recs[k].content] = ReportOf[e]
      BY <1>1, <1>4 DEF CopiesInv, Aims
    <2>5. \A i \in DOMAIN recs : /\ ReportOf[recs'[i].content] = ReportOf[recs[i].content]
                                 /\ recs'[i].compared = recs[i].compared
      BY <2>2, <2>3, <2>4
    <2>6. Aims'
      BY <1>1, <1>2, <2>5, OneMoves DEF CopiesInv, Aims, TypeOK
    <2>7. ASSUME NEW d \in Contents
          PROVE  Cardinality(Plain(d)') + Cardinality(Making(d)') <= Cardinality(Slot)
      <3>1. Plain(d)' = Plain(d)
        BY <2>2, <2>5 DEF Plain
      <3>2. Making(d)' \subseteq Making(d)
        BY <1>1, <1>2, OneMoves DEF Making
      <3>3. QED
        BY <3>1, <3>2, FewerToStore DEF CopiesInv, RecsAreBounded
    <2>8. QED
      BY <1>3, <2>6, <2>7 DEF CopiesInv, MemoryIsBounded, RecsAreBounded
  <1>5. CASE k = 0 /\ recs' = Append(recs, NewRow(e))
    <2> DEFINE n == Len(recs) + 1
    <2>1. /\ DOMAIN recs' = DOMAIN recs \cup {n} /\ n \notin DOMAIN recs
          /\ recs'[n] = NewRow(e) /\ \A i \in DOMAIN recs : recs'[i] = recs[i]
      BY <1>1, <1>5
    <2>2. NewRow(e).content = e /\ NewRow(e).compared = (CompareOf[e] # "none")
      BY DEF NewRow
    <2>3. Aims'
      BY <1>1, <1>2, <2>1, OneMoves DEF CopiesInv, Aims, TypeOK
    <2>4. ASSUME NEW d \in Contents
          PROVE  Cardinality(Plain(d)') + Cardinality(Making(d)') <= Cardinality(Slot)
      <3>1. CASE CompareOf[e] = "none" /\ ReportOf[e] = ReportOf[d]
        <4>1. Plain(d)' = Plain(d) \cup {n} /\ n \notin Plain(d)
          BY <2>1, <2>2, <3>1 DEF Plain
        <4>2. Cardinality(Plain(d)') = Cardinality(Plain(d)) + 1
          BY <4>1, CopiesAreCounted, FS_AddElement
        <4>3. s \in Making(d) /\ Making(d)' \in SUBSET (Making(d) \ {s}) /\ Making(d)' \in SUBSET Slot
          BY <1>1, <1>2, <1>5, <3>1, OneMoves DEF Making
        <4>4. Cardinality(Making(d)') + 1 <= Cardinality(Making(d)) /\ Cardinality(Making(d)') \in Nat
          BY <4>3, OneLessIsCounted, SlotsAreCounted, WritersAreCounted
        <4>5. Cardinality(Plain(d)) + Cardinality(Making(d)) <= Cardinality(Slot)
              /\ Cardinality(Plain(d)) \in Nat /\ Cardinality(Making(d)) \in Nat
              /\ Cardinality(Slot) \in Nat
          BY CopiesAreCounted, WritersAreCounted DEF CopiesInv, RecsAreBounded
        <4>6. QED
          BY <4>2, <4>4, <4>5
      <3>2. CASE ~(CompareOf[e] = "none" /\ ReportOf[e] = ReportOf[d])
        <4>1. Plain(d)' = Plain(d)
          <5>1. recs'[n].compared \/ ReportOf[recs'[n].content] # ReportOf[d]
            BY <2>1, <2>2, <3>2
          <5>2. \A i : i \in Plain(d)' <=> i \in Plain(d)
            BY <2>1, <5>1 DEF Plain
          <5>3. QED
            BY <5>2
        <4>2. Making(d)' \subseteq Making(d)
          BY <1>1, <1>2, OneMoves DEF Making
        <4>3. QED
          BY <4>1, <4>2, FewerToStore DEF CopiesInv, RecsAreBounded
      <3>3. QED
        BY <3>1, <3>2
    <2>5. QED
      BY <1>3, <2>3, <2>4 DEF CopiesInv, MemoryIsBounded, RecsAreBounded
  <1>6. QED
    BY <1>4, <1>5 DEF Store

LEMMA CopiesOfMemory ==
    ASSUME TypeOK, CopiesInv, NEW s \in Slot, Recall(s) \/ Remember(s)
    PROVE  CopiesInv'
  <1>1. /\ RequestStep(s) /\ recs' = recs /\ slot \in [Slot -> SlotRecord] /\ slot[s] \in SlotRecord
        /\ memory \in [Texts -> Nat]
    BY DEF Recall, Remember, OnlyRun, RequestStep, TypeOK
  <1>2. ASSUME slot'[s].pc # "found"
        PROVE  Aims' /\ RecsAreBounded'
    <2>1. Aims'
      BY <1>1, <1>2, OneMoves DEF CopiesInv, Aims
    <2>2. ASSUME NEW d \in Contents
          PROVE  Cardinality(Plain(d)') + Cardinality(Making(d)') <= Cardinality(Slot)
      <3>1. Plain(d)' = Plain(d) /\ Making(d)' \subseteq Making(d)
        BY <1>1, <1>2, OneMoves DEF Plain, Making
      <3>2. QED
        BY <3>1, FewerToStore DEF CopiesInv, RecsAreBounded
    <2>3. QED
      BY <2>1, <2>2 DEF RecsAreBounded
  <1>3. CASE Remember(s)
    <2> DEFINE u == slot[s].text
    <2>1. /\ memory' = [memory EXCEPT ![u] = @ + 1] /\ slot'[s].pc = "idle"
          /\ slot[s].pc = "fresh" /\ u \in Texts
      BY <1>1, <1>3 DEF Remember, Ends, Idle, At, SlotRecord
    <2>2. ASSUME NEW t \in Texts PROVE memory'[t] + Cardinality(FreshOf(t)') <= Cardinality(Slot)
      <3>1. memory[t] + Cardinality(FreshOf(t)) <= Cardinality(Slot) /\ memory[t] \in Nat
        BY <1>1 DEF CopiesInv, MemoryIsBounded
      <3>2. CASE t = u
        <4>1. s \in FreshOf(t) /\ FreshOf(t)' \in SUBSET (FreshOf(t) \ {s}) /\ FreshOf(t)' \in SUBSET Slot
          BY <1>1, <2>1, <3>2, OneMoves DEF FreshOf
        <4>2. Cardinality(FreshOf(t)') + 1 <= Cardinality(FreshOf(t)) /\ Cardinality(FreshOf(t)') \in Nat
          BY <4>1, OneLessIsCounted, SlotsAreCounted, WritersAreCounted
        <4>3. memory'[t] = memory[t] + 1
          BY <1>1, <2>1, <3>2
        <4>4. QED
          BY <3>1, <4>2, <4>3, WritersAreCounted
      <3>3. CASE t # u
        <4>1. FreshOf(t)' \subseteq FreshOf(t) /\ memory'[t] = memory[t]
          BY <1>1, <2>1, <3>3, OneMoves DEF FreshOf
        <4>2. QED
          BY <3>1, <4>1, FewerToRemember
      <3>4. QED
        BY <3>2, <3>3
    <2>3. QED
      BY <1>2, <2>1, <2>2 DEF CopiesInv, MemoryIsBounded
  <1>4. CASE Recall(s)
    <2>1. PICK u \in Texts :
            \/ memory[u] = 0 /\ slot' = [slot EXCEPT ![s].pc = "fresh", ![s].text = u]
            \/ memory[u] > 0 /\ Ends(s)
      BY <1>4 DEF Recall
    <2>2. memory' = memory /\ slot[s].pc = "stored"
      BY <1>4 DEF Recall, OnlyRun, At
    <2>3. CASE Ends(s)
      <3>1. slot'[s].pc = "idle"
        BY <1>1, <2>3 DEF Ends, Idle
      <3>2. QED
        BY <1>1, <2>2, <3>1, CopiesOfOthers
    <2>4. CASE memory[u] = 0 /\ slot' = [slot EXCEPT ![s].pc = "fresh", ![s].text = u]
      <3>1. slot'[s].pc = "fresh" /\ slot'[s].text = u
        BY <1>1, <2>4 DEF SlotRecord
      <3>2. ASSUME NEW t \in Texts PROVE memory'[t] + Cardinality(FreshOf(t)') <= Cardinality(Slot)
        <4>1. CASE t = u
          <5>1. memory'[t] = 0
            BY <2>2, <2>4, <4>1
          <5>2. FreshOf(t)' \in SUBSET Slot
            BY DEF FreshOf
          <5>3. Cardinality(FreshOf(t)') \in Nat /\ Cardinality(FreshOf(t)') <= Cardinality(Slot)
                /\ Cardinality(Slot) \in Nat
            BY <5>2, SlotsAreCounted, WritersAreCounted
          <5>4. QED
            BY <5>1, <5>3
        <4>2. CASE t # u
          <5>1. FreshOf(t)' \subseteq FreshOf(t) /\ memory'[t] = memory[t]
            BY <1>1, <2>2, <3>1, <4>2, OneMoves DEF FreshOf
          <5>2. QED
            BY <5>1, FewerToRemember DEF CopiesInv, MemoryIsBounded
        <4>3. QED
          BY <4>1, <4>2
      <3>3. QED
        BY <1>2, <3>1, <3>2 DEF CopiesInv, MemoryIsBounded
    <2>5. QED
      BY <2>1, <2>3, <2>4
  <1>5. QED
    BY <1>3, <1>4

LEMMA CopiesOfRequest ==
    ASSUME TypeOK, CopiesInv, NEW s \in Slot, RequestStep(s)
    PROVE  CopiesInv'
  <1>1. slot[s] \in SlotRecord /\ slot \in [Slot -> SlotRecord]
    BY DEF TypeOK
  <1>2. CASE /\ recs' = recs /\ memory' = memory
             /\ Ends(s) \/ \E p : p \notin {"found", "fresh"} /\ Moves(s, p)
    <2>1. slot'[s] = Idle \/ \E p : p \notin {"found", "fresh"} /\ slot'[s] = [slot[s] EXCEPT !.pc = p]
      BY <1>1, <1>2 DEF Ends, Moves
    <2>2. slot'[s].pc \notin {"found", "fresh"}
      <3>1. CASE slot'[s] = Idle
        BY <3>1 DEF Idle
      <3>2. ASSUME NEW p, p \notin {"found", "fresh"}, slot'[s] = [slot[s] EXCEPT !.pc = p]
            PROVE  slot'[s].pc = p
        BY <1>1, <3>2 DEF SlotRecord
      <3>3. QED
        BY <2>1, <3>1, <3>2
    <2>3. QED
      BY <1>2, <2>2, CopiesOfOthers
  <1>3. CASE Begin(s) \/ Call(s) \/ Complete(s) \/ CompleteStream(s)
    <2>1. recs' = recs /\ memory' = memory
      BY <1>3 DEF Begin, Call, Complete, CompleteStream, OnlyRun
    <2>2. slot'[s].pc \in {"begun", "called", "idle", "completed"}
      BY <1>1, <1>3 DEF Begin, Call, Complete, CompleteStream, Ends, Idle, SlotRecord
    <2>3. QED
      BY <2>1, <2>2, CopiesOfOthers
  <1>4. CASE CheckBudget(s) \/ Draft(s) \/ Fail(s) \/ Die(s) \/ Unbound(s)
    BY <1>2, <1>4 DEF CheckBudget, Draft, Fail, Die, Unbound, OnlyRun
  <1>5. QED
    BY <1>3, <1>4, CopiesOfLookUp, CopiesOfStore, CopiesOfMemory DEF RequestStep

(* The seller, and time, leave the contents of the rows alone.              *)
LEMMA CopiesOfSeller ==
    ASSUME TypeOK, CopiesInv, slot' = slot, memory' = memory, DOMAIN recs' = DOMAIN recs,
           \A i \in DOMAIN recs : /\ recs'[i].content = recs[i].content
                                  /\ recs'[i].compared = recs[i].compared
    PROVE  CopiesInv'
  <1>1. Aims'
    BY DEF CopiesInv, Aims, TypeOK
  <1>2. \A t \in Texts : FreshOf(t)' = FreshOf(t)
    BY DEF FreshOf
  <1>3. \A c \in Contents : Making(c)' = Making(c) /\ Plain(c)' = Plain(c)
    BY DEF Making, Plain
  <1>4. QED
    BY <1>1, <1>2, <1>3 DEF CopiesInv, MemoryIsBounded, RecsAreBounded

LEMMA SellerKeepsContents ==
    ASSUME TypeOK, NEW c \in Client, SellerStep(c)
    PROVE  /\ slot' = slot /\ memory' = memory /\ DOMAIN recs' = DOMAIN recs
           /\ \A i \in DOMAIN recs : /\ recs'[i].content = recs[i].content
                                     /\ recs'[i].compared = recs[i].compared
  <1>1. slot' = slot /\ memory' = memory
    BY DEF SellerStep, LoadToDecide, Decide, LoadToList, List, OnlySeller
  <1>2. \A i \in DOMAIN recs : recs[i] \in RowRecord
    BY RowsAreTyped
  <1>3. CASE LoadToDecide(c) \/ LoadToList(c)
    BY <1>1, <1>3 DEF LoadToDecide, LoadToList
  <1>4. CASE Decide(c)
    <2> DEFINE k == client[c]
    <2>1. k.id \in DOMAIN recs /\ recs' = [recs EXCEPT ![k.id] = Decided(recs[k.id], k)]
      BY <1>4, DecidesSomething DEF Decide
    <2>2. recs[k.id] \in RowRecord
      BY <1>2, <2>1
    <2>3. /\ Decided(recs[k.id], k).content = recs[k.id].content
          /\ Decided(recs[k.id], k).compared = recs[k.id].compared
      BY <2>2 DEF Decided, RowRecord
    <2>4. QED
      BY <1>1, <2>1, <2>3
  <1>5. CASE List(c)
    <2> DEFINE Woken(i) == [recs[i] EXCEPT !.state = "active", !.until = "none",
                                           !.crossed = @ \/ i \in client[c].stale]
    <2>1. /\ DOMAIN recs' = DOMAIN recs
          /\ \A i \in DOMAIN recs : recs'[i] = IF i \in client[c].due THEN Woken(i) ELSE recs[i]
      BY <1>5 DEF List
    <2>2. \A i \in DOMAIN recs : /\ Woken(i).content = recs[i].content
                                 /\ Woken(i).compared = recs[i].compared
      BY <1>2 DEF RowRecord
    <2> HIDE DEF Woken
    <2>3. QED
      BY <1>1, <2>1, <2>2
  <1>6. QED
    BY <1>3, <1>4, <1>5 DEF SellerStep

LEMMA CopiesStep == TypeOK /\ CopiesInv /\ [Next]_vars => CopiesInv'
  <1> SUFFICES ASSUME TypeOK, CopiesInv, [Next]_vars PROVE CopiesInv'
    OBVIOUS
  <1>1. ASSUME NEW i \in DOMAIN recs, TimePasses(i) PROVE CopiesInv'
    <2>1. recs[i] \in RowRecord /\ slot' = slot /\ memory' = memory
          /\ recs' = [recs EXCEPT ![i] = [recs[i] EXCEPT !.until = "due"]]
      BY <1>1, RowsAreTyped DEF TimePasses, OnlySeller
    <2>2. /\ [recs[i] EXCEPT !.until = "due"].content = recs[i].content
          /\ [recs[i] EXCEPT !.until = "due"].compared = recs[i].compared
      BY <2>1 DEF RowRecord
    <2>3. QED
      BY <2>1, <2>2, CopiesOfSeller
  <1>2. CASE Midnight \/ UNCHANGED vars
    BY <1>2, CopiesOfSeller DEF Midnight, vars
  <1>3. ASSUME NEW c \in Client, SellerStep(c) PROVE CopiesInv'
    BY <1>3, SellerKeepsContents, CopiesOfSeller
  <1>4. QED
    BY <1>1, <1>2, <1>3, CopiesOfRequest DEF Next

(* The copies of a summary, and the plain recommendations for one report,   *)
(* never pass the number of requests served at a time: for any number of    *)
(* requests and whatever the answers say.                                   *)
THEOREM CopiesStayBounded == Spec => []CopiesAreBounded
  <1>1. Init => CopiesInv
    <2> SUFFICES ASSUME Init PROVE CopiesInv
      OBVIOUS
    <2>1. /\ \A t : FreshOf(t) = {}
          /\ \A c : Making(c) = {} /\ Plain(c) = {}
      BY DEF Init, Idle, FreshOf, Making, Plain
    <2>2. Cardinality({}) = 0 /\ Cardinality(Slot) \in Nat
      BY FS_EmptySet, SlotsAreCounted
    <2>3. Aims
      BY DEF Init, Idle, Aims
    <2>4. \A t \in Texts : memory[t] + Cardinality(FreshOf(t)) = 0
      <3>1. \A t \in Texts : memory[t] = 0
        BY DEF Init
      <3>2. \A t : Cardinality(FreshOf(t)) = 0
        BY <2>1, <2>2
      <3>3. QED
        BY <3>1, <3>2
    <2>5. \A c \in Contents : Cardinality(Plain(c)) + Cardinality(Making(c)) = 0
      BY <2>1, <2>2
    <2>6. QED
      BY <2>2, <2>3, <2>4, <2>5 DEF CopiesInv, MemoryIsBounded, RecsAreBounded
  <1>2. TypeOK /\ CopiesInv => CopiesAreBounded
    <2> SUFFICES ASSUME TypeOK, CopiesInv PROVE CopiesAreBounded
      OBVIOUS
    <2>1. ASSUME NEW t \in Texts PROVE memory[t] <= Cardinality(Slot)
      <3>1. memory[t] \in Nat
        BY DEF TypeOK
      <3>2. QED
        BY <3>1, WritersAreCounted DEF CopiesInv, MemoryIsBounded
    <2>2. ASSUME NEW c \in Contents PROVE Cardinality(Plain(c)) <= Cardinality(Slot)
      BY CopiesAreCounted, WritersAreCounted DEF CopiesInv, RecsAreBounded
    <2>3. QED
      BY <2>1, <2>2 DEF CopiesAreBounded, Plain
  <1>3. QED
    BY <1>1, <1>2, CopiesStep, TypeCorrect, PTL DEF Spec
=============================================================================
