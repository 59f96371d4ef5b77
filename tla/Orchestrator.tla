----------------------------- MODULE Orchestrator -----------------------------
(***************************************************************************)
(* Orchestrator processes: the lease that is to leave one of them running, *)
(* and the control plane cycle each runs while it believes it holds it.    *)
(*                                                                         *)
(* try_acquire and release read the lease row and write it by primary key  *)
(* without a lock or a version check, so reading and writing are actions   *)
(* apart.  A process gets a new holder id whenever it is started: the row   *)
(* of a process that died belongs to nobody alive (Gone).                  *)
(*                                                                         *)
(* A cycle is cut where other processes can act: healing, the enterprise   *)
(* engine, dispatch.  What its sweeps and its rebuild do to jobs and       *)
(* requirements is in EtlQueue and RebuildDispatch; here is which of them  *)
(* run.  Each stage collects the metrics anew.                             *)
(*                                                                         *)
(* Time is counted in ticks of one clock: "left" is expires_at - now, 0     *)
(* once past; "age" is the time since a process read "now"; a breaker's    *)
(* "wait" is what is left of its recovery time.                            *)
(***************************************************************************)
EXTENDS ControlPolicy

CONSTANTS
    Process,
    Gone,               \* holder id of a process that no longer runs
    TTL,                \* settings.reliability_orchestrator_lease_ttl_seconds
    Threshold,          \* settings.reliability_circuit_failure_threshold
    Recovery,           \* settings.reliability_circuit_recovery_seconds
    MaxStops,           \* bound: crashes, shutdowns and cycles that raise
    SomeMetrics,        \* metrics a collection may return
    SomeSettings        \* environments the processes may be started in

ASSUME OrchestratorAssumption ==
    /\ Gone \notin Process
    /\ TTL \in Nat \ {0} /\ Threshold \in Nat \ {0} /\ Recovery \in Nat \ {0}
    /\ MaxStops \in Nat
    /\ SomeMetrics \subseteq Metrics /\ SomeSettings \subseteq Settings

VARIABLES
    settings,   \* read from the environment at start, the same for all
    lease,      \* the row of runtime_process_leases: {} or one record
    proc,       \* Process -> where it is and what it read
    breaker,    \* Process -> its circuit breaker "rebuild_dispatch"
    stops,
    late,       \* history: processes in a cycle that the lease did not outlast
    overtaken   \* history: processes that lost the row to a write based on a
                \* row that had changed since it was read

orchestratorVars == <<settings, lease, proc, breaker, stops, late, overtaken>>

InCycle == {"heal", "enterprise", "dispatch", "rebuild"}
ProcPcs == {"down", "start", "ready", "renew", "release"} \cup InCycle
Views == {"none", "mine", "expired", "other"}

Down == [pc |-> "down", saw |-> "none", age |-> 0, found |-> {}, heals |-> 0]
Closed == [state |-> "closed", failures |-> 0, wait |-> 0]

OrchestratorInit ==
    /\ settings \in SomeSettings
    /\ lease = {}
    /\ proc = [p \in Process |-> Down]
    /\ breaker = [p \in Process |-> Closed]
    /\ stops = 0 /\ late = {} /\ overtaken = {}

(***************************************************************************)
(* try_acquire.                                                            *)
(***************************************************************************)
(* Mutated: an expired lease is not seen to have expired. *)
ViewTimeless(p) ==
    CASE lease = {} -> "none"
      [] \E l \in lease : l.holder = p -> "mine"
      [] OTHER -> "other"
View(p) ==
    CASE lease = {} -> "none"
      [] \E l \in lease : l.holder = p -> "mine"
      [] \E l \in lease : l.holder # p /\ l.left = 0 -> "expired"
      [] OTHER -> "other"

(* Mutated: a lease is taken from its holder while it is running. *)
MayTakeAnyway(p) == TRUE
MayTake(p) == proc[p].saw \in {"none", "mine", "expired"}

(* The insert meets no row of the key, the update meets one. *)
WriteFits(p) == (proc[p].saw = "none") <=> (lease = {})

Stale(p) == proc[p].saw # View(p)

(* Holders of a running lease. *)
Holders == {l.holder : l \in {x \in lease : x.left > 0}} \cap Process

(* expires_at counts from the read. *)
Left(p) == IF proc[p].age > TTL THEN 0 ELSE TTL - proc[p].age

(* Only changed columns are written: a process that read its own id there   *)
(* does not write it again, whoever the row belongs to by now.             *)
Written(p) ==
    IF proc[p].saw = "mine" THEN {[l EXCEPT !.left = Left(p)] : l \in lease}
    ELSE {[holder |-> p, left |-> Left(p)]}

Goes(p, pc) == [proc EXCEPT ![p] = [Down EXCEPT !.pc = pc]]

AcquireRead(p, from, to) ==
    /\ proc[p].pc = from
    /\ proc' = [proc EXCEPT ![p].pc = to, ![p].saw = View(p), ![p].age = 0]
    /\ UNCHANGED <<settings, lease, breaker, stops, late, overtaken>>

(* A stale write may cut the lease of another one short: he is late, too. *)
AcquireWrite(p, from, to) ==
    /\ proc[p].pc = from /\ MayTake(p) /\ WriteFits(p)
    /\ lease' = Written(p)
    /\ late' = IF Left(p) = 0 THEN late \cup {p} \cup Holders ELSE late \ {p}
    /\ overtaken' = IF Stale(p) THEN (overtaken \cup Holders \cup {p}) \ {l.holder : l \in Written(p)}
                    ELSE overtaken \ {p}
    /\ proc' = Goes(p, to)
    /\ UNCHANGED <<settings, breaker, stops>>

(* Held by another process, or the row came or went since it was read: the  *)
(* lease is denied, or the write fails with an error.                      *)
AcquireFails(p, from, to) ==
    /\ proc[p].pc = from /\ (~MayTake(p) \/ ~WriteFits(p))
    /\ proc' = Goes(p, to)
    /\ UNCHANGED <<settings, lease, breaker, stops, late, overtaken>>

(* run_orchestrator: a process that is denied the lease exits, and its      *)
(* container starts it again.                                              *)
Start(p) == Allowed(settings, "orchestrator") /\ AcquireRead(p, "down", "start")
Started(p) == AcquireWrite(p, "start", "ready")
StartDenied(p) == AcquireFails(p, "start", "down")

(* run_cycle renews the lease or takes it back; denied, it sleeps. *)
Renew(p) == AcquireRead(p, "ready", "renew")
CycleBegins(p) == AcquireWrite(p, "renew", "heal")
CycleDenied(p) == AcquireFails(p, "renew", "ready")

(***************************************************************************)
(* One cycle of RuntimeControlPlane.  Its schedule registry is new, so      *)
(* every kind is due.                                                      *)
(***************************************************************************)
(* Maintenance and the healer. *)
Heal(p) ==
    /\ proc[p].pc = "heal"
    /\ proc' = [proc EXCEPT ![p].pc = "enterprise", ![p].heals = IF settings.autonomy THEN 1 ELSE 0]
    /\ UNCHANGED <<settings, lease, breaker, stops, late, overtaken>>

(* ENTERPRISE_OPERATIONS; the dry run of OPERATIONAL_FORECAST that follows  *)
(* changes nothing.                                                        *)
Enterprise(p) ==
    /\ proc[p].pc = "enterprise"
    /\ \E m \in SomeMetrics, blackout \in BOOLEAN :
         proc' = [proc EXCEPT
           ![p].pc = "dispatch",
           ![p].heals = IF settings.autonomy /\ settings.enterprise
                        THEN @ + HealerRuns(settings, Plan(m, blackout)) ELSE @]
    /\ UNCHANGED <<settings, lease, breaker, stops, late, overtaken>>

(* CircuitBreaker.allow_request. *)
Allows(b) == b.state # "open" \/ b.wait = 0
Asked(b) == IF b.state = "open" /\ b.wait = 0 THEN [b EXCEPT !.state = "half_open"] ELSE b

(* record_failure; an open breaker is not asked again, so that the count    *)
(* above the threshold does not matter.                                    *)
AfterFailure(b) ==
    IF b.failures + 1 >= Threshold
    THEN [state |-> "open", failures |-> Threshold, wait |-> Recovery]
    ELSE [b EXCEPT !.failures = @ + 1]

(* record_success: only a half open breaker forgets its failures. *)
AfterSuccess(b) == IF b.state = "half_open" THEN Closed ELSE b

MayDispatch(m) == Allowed(settings, "rebuild_dispatch") /\ ~Throttled(m)

(* Throttled, an open circuit, or nothing eligible. *)
DispatchNothing(p) ==
    /\ proc[p].pc = "dispatch"
    /\ \E m \in SomeMetrics :
         breaker' = IF MayDispatch(m) THEN [breaker EXCEPT ![p] = Asked(@)] ELSE breaker
    /\ proc' = Goes(p, "ready")
    /\ UNCHANGED <<settings, lease, stops, late, overtaken>>

Dispatch(p) ==
    /\ proc[p].pc = "dispatch" /\ Allows(breaker[p])
    /\ \E m \in {x \in SomeMetrics : MayDispatch(x)} :
         proc' = [proc EXCEPT ![p] = [Down EXCEPT !.pc = "rebuild", !.found = {m}]]
    /\ breaker' = [breaker EXCEPT ![p] = Asked(@)]
    /\ UNCHANGED <<settings, lease, stops, late, overtaken>>

(* A finished rebuild counts as a failure first when there were too many in *)
(* the last hour; a busy lock and an unsupported semantics version count   *)
(* as nothing.                                                             *)
RebuildEnds(p) ==
    /\ proc[p].pc = "rebuild"
    /\ breaker' \in {[breaker EXCEPT ![p] = b] :
                       b \in {AfterSuccess(breaker[p]), AfterSuccess(AfterFailure(breaker[p])),
                              AfterFailure(breaker[p]), breaker[p]}}
    /\ proc' = Goes(p, "ready")
    /\ UNCHANGED <<settings, lease, stops, late, overtaken>>

(* An exception of the renewal or of a stage ends the cycle, not the process. *)
CycleRaises(p) ==
    /\ proc[p].pc \in {"renew"} \cup InCycle /\ stops < MaxStops
    /\ stops' = stops + 1
    /\ proc' = Goes(p, "ready")
    /\ UNCHANGED <<settings, lease, breaker, late, overtaken>>

(***************************************************************************)
(* Stops and time.                                                         *)
(***************************************************************************)
(* A signal is seen between two cycles; release reads the row first. *)
Release(p) ==
    /\ proc[p].pc = "ready" /\ stops < MaxStops
    /\ stops' = stops + 1
    /\ proc' = [proc EXCEPT ![p].pc = "release", ![p].saw = View(p)]
    /\ UNCHANGED <<settings, lease, breaker, late, overtaken>>

(* The row is deleted by its name, whoever it belongs to by now. *)
Released(p) ==
    /\ proc[p].pc = "release"
    /\ lease' = IF proc[p].saw = "mine" THEN {} ELSE lease
    /\ overtaken' = IF proc[p].saw = "mine" /\ Stale(p) THEN overtaken \cup Holders ELSE overtaken
    /\ proc' = Goes(p, "down")
    /\ breaker' = [breaker EXCEPT ![p] = Closed]
    /\ UNCHANGED <<settings, stops, late>>

Crash(p) ==
    /\ proc[p].pc # "down" /\ stops < MaxStops
    /\ stops' = stops + 1
    /\ lease' = {[l EXCEPT !.holder = IF @ = p THEN Gone ELSE @] : l \in lease}
    /\ proc' = Goes(p, "down")
    /\ breaker' = [breaker EXCEPT ![p] = Closed]
    /\ UNCHANGED <<settings, late, overtaken>>

Aged(q) == IF proc[q].pc \in {"start", "renew"} /\ proc[q].age <= TTL
           THEN [proc[q] EXCEPT !.age = @ + 1] ELSE proc[q]

Tick ==
    /\ lease' = {[l EXCEPT !.left = IF @ > 0 THEN @ - 1 ELSE 0] : l \in lease}
    /\ late' = late \cup {q \in Process : proc[q].pc \in InCycle /\ \E l \in lease : l.holder = q /\ l.left = 1}
    /\ proc' = [q \in Process |-> Aged(q)]
    /\ breaker' = [q \in Process |-> [breaker[q] EXCEPT !.wait = IF @ > 0 THEN @ - 1 ELSE 0]]
    /\ UNCHANGED <<settings, stops, overtaken>>

Step(p) ==
    \/ Start(p) \/ Started(p) \/ StartDenied(p)
    \/ Renew(p) \/ CycleBegins(p) \/ CycleDenied(p)
    \/ Heal(p) \/ Enterprise(p) \/ DispatchNothing(p) \/ Dispatch(p) \/ RebuildEnds(p)
    \/ Released(p)

OrchestratorNext ==
    \/ \E p \in Process : Step(p) \/ Release(p) \/ Crash(p) \/ CycleRaises(p)
    \/ Tick

OrchestratorSpec == OrchestratorInit /\ [][OrchestratorNext]_orchestratorVars

(* Loops have no waits but timed ones, containers are restarted unless they *)
(* are stopped, and time passes.                                           *)
Fairness == WF_orchestratorVars(Tick) /\ \A p \in Process : WF_orchestratorVars(Step(p))

FairSpec == OrchestratorSpec /\ Fairness

(***************************************************************************)
(* Properties.                                                             *)
(***************************************************************************)
ProcType == [pc : ProcPcs, saw : Views, age : 0..(TTL + 1), found : SUBSET SomeMetrics, heals : Nat]
BreakerType == [state : {"closed", "open", "half_open"}, failures : 0..Threshold, wait : 0..Recovery]
LeaseType == [holder : Process \cup {Gone}, left : 0..TTL]

(* The state has its types: a lease never runs longer than the TTL, and a   *)
(* breaker never counts past its threshold or waits longer than its        *)
(* recovery time.                                                          *)
OrchestratorTypeOK ==
    /\ settings \in SomeSettings
    /\ lease = {} \/ \E l \in LeaseType : lease = {l}
    /\ proc \in [Process -> ProcType]
    /\ breaker \in [Process -> BreakerType]
    /\ stops \in 0..MaxStops
    /\ late \subseteq Process /\ overtaken \subseteq Process

Fresh(p) == proc[p].pc \in InCycle /\ p \notin late \cup overtaken

(* Two processes run control plane cycles at once only if one of them ran   *)
(* longer than its lease, or lost the row to a write of a process that had *)
(* read it before it changed: try_acquire of lease.py lets no other way.   *)
OneCycle ==
    \A p, q \in Process : Fresh(p) /\ Fresh(q) => p = q

(* A rebuild is dispatched only on metrics that the health evaluator would  *)
(* not call critical: the dispatch throttle of the policy and the health   *)
(* thresholds, kept apart in the code, agree.  And a cycle runs the healer  *)
(* at most twice, so that it acts at most twice the cap of actions: once   *)
(* on schedule and once for the only step remediation ever carries out, as *)
(* an overload, passed on to the decisions as a blackout, leaves them      *)
(* nothing to decide.                                                      *)
CyclesKeepPolicy ==
    \A p \in Process :
        /\ proc[p].pc = "rebuild" => \A m \in proc[p].found : Severity(m) # "critical"
        /\ proc[p].heals <= 2

(* Whatever dies or loses the lease, cycles go on being run: a lease nobody *)
(* renews expires and the next process to ask takes it.                    *)
LeaseIsRecovered ==
    Allowed(settings, "orchestrator") => []<>(\E p \in Process : proc[p].pc \in InCycle)
=============================================================================
