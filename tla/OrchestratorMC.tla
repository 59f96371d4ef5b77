--------------------------- MODULE OrchestratorMC ----------------------------
(* Instances of Orchestrator: small thresholds, metrics on both sides of    *)
(* each of them, and environments with one switch thrown each.             *)
EXTENDS Orchestrator, TLC

Quiet == [pending |-> 0, processing |-> 0, lag |-> FALSE,
          queued |-> 0, deferred |-> 0, running |-> 0, failed |-> 0]

MCMetrics ==
    {Quiet,
     [Quiet EXCEPT !.pending = QueueOverload, !.queued = 5 * BatchSize],
     [Quiet EXCEPT !.queued = 5 * BatchSize, !.deferred = 5 * BatchSize + 1],
     [Quiet EXCEPT !.running = MaxRebuildAttempts + 1, !.lag = TRUE],
     [Quiet EXCEPT !.pending = QueueOverload + 1, !.processing = 1, !.failed = 1,
                   !.running = MaxRebuildAttempts + 1]}

Usual == [maintenance |-> FALSE, orchestrator |-> TRUE, autonomy |-> TRUE,
          enterprise |-> TRUE, level |-> "standard"]

MCSettings ==
    {Usual, [Usual EXCEPT !.level = "limited"], [Usual EXCEPT !.level = "monitor"],
     [Usual EXCEPT !.autonomy = FALSE], [Usual EXCEPT !.maintenance = TRUE]}

Symmetric == Permutations(Process)
=============================================================================
