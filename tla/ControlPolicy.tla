---------------------------- MODULE ControlPolicy ----------------------------
(***************************************************************************)
(* What the control plane decides from the metrics of one collection:      *)
(* kill switches, throttling, health, and the enterprise engine's forecast,*)
(* decisions, plan and permissions.  Pure functions of the settings and    *)
(* the metrics; Orchestrator composes them into cycles.                    *)
(*                                                                         *)
(* Metrics are a record of counts; "lag" says that the oldest pending job  *)
(* is older than settings.ops_queue_lag_warn_seconds.  Scores that the code *)
(* computes in decimals are compared as products of integers.              *)
(***************************************************************************)
EXTENDS Integers, Sequences, FiniteSets

CONSTANTS
    QueueOverload,      \* settings.runtime_queue_overload_threshold
    BatchSize,          \* settings.orchestrator_dispatch_batch_size
    BacklogWarn,        \* settings.runtime_rebuild_backlog_warn
    MaxRunning,         \* settings.runtime_max_concurrent_rebuilds_global
    MaxRebuildAttempts, \* policy.max_rebuild_attempts_default
    MaxActions          \* settings.runtime_max_autonomous_actions_per_cycle

ASSUME PolicyAssumption ==
    /\ {QueueOverload, BatchSize} \subseteq Nat \ {0}
    /\ {BacklogWarn, MaxRunning, MaxRebuildAttempts, MaxActions} \subseteq Nat

Levels == {"off", "monitor", "limited", "standard"}
Metrics == [pending : Nat, processing : Nat, lag : BOOLEAN,
            queued : Nat, deferred : Nat, running : Nat, failed : Nat]
Settings == [maintenance : BOOLEAN, orchestrator : BOOLEAN, autonomy : BOOLEAN,
             enterprise : BOOLEAN, level : Levels]

Least(x, y) == IF x < y THEN x ELSE y
Backlog(m) == m.queued + m.deferred

(***************************************************************************)
(* Guards.                                                                 *)
(***************************************************************************)
(* RuntimeKillSwitches.check *)
Allowed(s, domain) ==
    /\ s.maintenance => domain = "maintenance"
    /\ domain \in {"orchestrator", "rebuild_dispatch"} => s.orchestrator
    /\ domain = "autonomy" => s.autonomy

(* should_throttle_dispatch; mutated: only the rebuilds' own backlog counts. *)
ThrottledByBacklog(m) == Backlog(m) > BatchSize * 10
Throttled(m) == m.pending > QueueOverload \/ Backlog(m) > BatchSize * 10

(* RuntimeHealthEvaluator.evaluate without the AI dimension, which the      *)
(* cycle leaves at its defaults.                                           *)
Severity(m) ==
    CASE m.pending > QueueOverload -> "critical"
      [] ~(m.pending > QueueOverload) /\ (m.lag \/ m.running > MaxRunning \/ Backlog(m) > BacklogWarn) -> "warn"
      [] OTHER -> "ok"

(***************************************************************************)
(* The enterprise engine.                                                  *)
(***************************************************************************)
(* forecast's overload risk is at least 60: six parts of how full the queue *)
(* is and four of the backlog, both cut off when full.                     *)
HighRisk(m) ==
    LET full == 5 * BatchSize
    IN  6 * Least(QueueOverload, m.pending) * full + 4 * Least(full, Backlog(m)) * QueueOverload
          >= 6 * QueueOverload * full

Drift(m) == (IF m.failed > 0 THEN 10 ELSE 0) + (IF Severity(m) = "critical" THEN 40 ELSE 0)

If(p, kind) == IF p THEN <<kind>> ELSE <<>>

(* OperationalDecisionEngine.decide, by falling priority; NO_ACTION is the  *)
(* empty plan.                                                             *)
Remedies(m, quiet) ==
    IF quiet THEN <<>>
    ELSE LET overload == m.pending > QueueOverload
         IN  If(m.running > MaxRebuildAttempts, "reset_stale_rebuild")
             \o If(overload, "defer_rebuild")
             \o If(overload, "heal_queue")
             \o If(m.processing > 0 /\ Drift(m) >= 20, "recover_stuck_jobs")
             \o If(~overload /\ HighRisk(m), "throttle_dispatch")

(* The strategy's throttle is passed on as a blackout; mutated: it is not.  *)
PlanInSpiteOfThrottle(m, blackout) == Remedies(m, blackout)
Plan(m, blackout) == Remedies(m, blackout \/ Throttled(m))

NeedsApproval == {"defer_rebuild", "throttle_dispatch"}

AllowedAt(level) ==
    CASE level = "off" -> {}
      [] level = "monitor" -> {}
      [] level = "limited" -> {"reset_stale_rebuild", "recover_stuck_jobs"}
      [] OTHER -> {"reset_stale_rebuild", "defer_rebuild", "heal_queue",
                   "recover_stuck_jobs", "throttle_dispatch"}

(* AutonomyPermissionMatrix.evaluate, and the executor's refusal of steps   *)
(* that need an approval.                                                  *)
Permitted(s, kind) ==
    Allowed(s, "autonomy") /\ kind \in AllowedAt(s.level) \ NeedsApproval

(* What GovernedRemediationExecutor carries out of a plan. *)
Executed(s, plan) ==
    {plan[i] : i \in {j \in 1..Least(Len(plan), MaxActions) : Permitted(s, plan[j])}}

(* Every executed kind but a throttle runs one whole healer cycle, capped   *)
(* on its own at MaxActions.                                               *)
HealerRuns(s, plan) == Cardinality(Executed(s, plan) \ {"throttle_dispatch"})
=============================================================================
