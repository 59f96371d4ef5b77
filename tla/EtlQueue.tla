------------------------------ MODULE EtlQueue ------------------------------
(***************************************************************************)
(* The ETL job queue on the etl_jobs table (app/core/queue), the worker    *)
(* loop that drains it (app/etl/worker.py), the services that end a job    *)
(* (ReportService.ack_job, fail_job), tenant recovery and the replay of a  *)
(* dead-lettered job.                                                      *)
(*                                                                         *)
(* One action is one database transaction, or one step of a process        *)
(* between two of them.  A claim hands the worker a detached snapshot      *)
(* (ClaimedJobRecord) and ack, fail and heartbeat later act on the row by  *)
(* its id alone, so a worker that outlived its claim still writes.         *)
(*                                                                         *)
(* Time: ages and remaining delays instead of timestamps.  "age" is now -  *)
(* last_heartbeat_at, saturating one above the visibility timeout; "wait"  *)
(* is processing_started_at - now when that lies in the future, else 0     *)
(* (the column doubles as the retry-eligible time of a PENDING row).       *)
(***************************************************************************)
EXTENDS Integers

CONSTANTS
    Job,                \* rows of etl_jobs, one per (user_id, idempotency_key)
    Worker,             \* ETL worker processes
    Operator,           \* requests POST /reports/{id}/retry in flight
    User,               \* tenants
    UserOf,             \* Job -> its tenant
    MaxAttempts,        \* settings.job_max_attempts
    VisibilityTimeout,  \* settings.job_visibility_timeout_seconds, in ticks
    RetryBase,          \* settings.job_retry_base_delay_seconds, in ticks
    RetryCap,           \* the cap of one hour, in ticks
    MaxReplays,         \* bound: replays the operators start
    NoJob               \* a worker or a request that holds no job

ASSUME ConstantsAssumption ==
    /\ MaxAttempts \in Nat \ {0}
    /\ VisibilityTimeout \in Nat \ {0}
    /\ RetryBase \in Nat /\ RetryCap \in Nat
    /\ MaxReplays \in Nat
    /\ NoJob \notin Job
    /\ UserOf \in [Job -> User]

VARIABLES
    job,        \* Job -> row of etl_jobs
    report,     \* Job -> column reports.status of the job's report
    persisted,  \* Job -> the report's business result is committed
    worker,     \* Worker -> pc, the claimed job and the attempt it was told
    operator,   \* Operator -> pc and the row as its session first loaded it
    replays     \* replays started so far

vars == <<job, report, persisted, worker, operator, replays>>

(* JobStatus.FAILED is left out: fail()'s last branch cannot be reached and   *)
(* nothing else writes it.                                                   *)
Statuses == {"absent", "pending", "processing", "completed", "dead_letter"}
ReportStatuses == {"pending", "processing", "processed", "failed"}

(* A claimed job is worked on in these places; "hook" follows the ack. *)
BusyPcs == {"guard", "parse", "persist", "fail"}
BeatingPcs == {"parse", "persist", "fail", "hook"}
WorkerPcs == {"idle", "claim", "hook"} \cup BusyPcs

JobRow == [status: Statuses, attempts: 0..MaxAttempts, claimed: BOOLEAN,
           age: 0..VisibilityTimeout + 1, wait: Nat]
WorkerState == [pc: WorkerPcs, job: Job \cup {NoJob}, attempt: 0..MaxAttempts]
OperatorState == [pc: {"idle", "read", "reset"}, job: Job \cup {NoJob},
                  attempts: 0..MaxAttempts, claimed: BOOLEAN]

IdleWorker == [pc |-> "idle", job |-> NoJob, attempt |-> 0]
IdleOperator == [pc |-> "idle", job |-> NoJob, attempts |-> 0, claimed |-> FALSE]
AbsentRow == [status |-> "absent", attempts |-> 0, claimed |-> FALSE,
              age |-> VisibilityTimeout + 1, wait |-> 0]

Init ==
    /\ job = [j \in Job |-> AbsentRow]
    /\ report = [j \in Job |-> "pending"]
    /\ persisted = [j \in Job |-> FALSE]
    /\ worker = [w \in Worker |-> IdleWorker]
    /\ operator = [o \in Operator |-> IdleOperator]
    /\ replays = 0

At(w, pc) == worker[w].pc = pc
Goto(w, pc) == worker' = [worker EXCEPT ![w].pc = pc]
Release(w) == worker' = [worker EXCEPT ![w] = IdleWorker]
Busy(w) == worker[w].pc \in BusyPcs

(***************************************************************************)
(* Row transitions.                                                        *)
(***************************************************************************)
Backoff(attempt) ==
    LET delay == RetryBase * 2^(IF attempt > 0 THEN attempt - 1 ELSE 0)
    IN  IF delay < RetryCap THEN delay ELSE RetryCap

ASSUME BackoffAssumption == \A k \in 0..MaxAttempts : Backoff(k) \in Nat

(* Mutated forms stand before the definition they replace: bugs the checks   *)
(* must notice.  Here: the table lost its COMPLETED entry.                   *)
ReportStatusOfIncomplete(status) ==
    CASE status = "processing"  -> "processing"
      [] status = "dead_letter" -> "failed"
      [] OTHER                  -> "pending"

ReportStatusOf(status) ==
    CASE status = "processing"  -> "processing"
      [] status = "completed"   -> "processed"
      [] status = "dead_letter" -> "failed"
      [] OTHER                  -> "pending"

(* Mutated: the budget of the claim query is off by one. *)
EligibleIgnoringBudget(j) == job[j].status = "pending" /\ job[j].wait = 0

EligibleOffByOne(j) ==
    EligibleIgnoringBudget(j) /\ job[j].attempts + 1 < MaxAttempts

Eligible(j) ==
    /\ job[j].status = "pending"
    /\ job[j].attempts < MaxAttempts
    /\ job[j].wait = 0

(* Mutated: stale already at the timeout. *)
StaleAtTimeout(j) ==
    /\ job[j].status = "processing" /\ job[j].claimed
    /\ job[j].age >= VisibilityTimeout

Stale(j) ==
    /\ job[j].status = "processing"
    /\ job[j].claimed
    /\ job[j].age > VisibilityTimeout

(* Mutated: the claim leaves attempt_count. *)
ClaimRowUncounted(row) ==
    [row EXCEPT !.status = "processing", !.claimed = TRUE, !.age = 0, !.wait = 0]

ClaimRow(row) ==
    [status |-> "processing", attempts |-> row.attempts + 1, claimed |-> TRUE,
     age |-> 0, wait |-> 0]

AckRow(row) == [row EXCEPT !.status = "completed", !.claimed = FALSE, !.age = 0]

(* The budget is the caller's: the attempt the worker was told, not the row's. *)
FailRow(row, attempt) ==
    IF attempt >= MaxAttempts
    THEN [row EXCEPT !.status = "dead_letter", !.claimed = FALSE, !.wait = 0]
    ELSE [row EXCEPT !.status = "pending", !.claimed = FALSE,
                     !.wait = Backoff(attempt)]

(* recover_stale: back to PENDING with a backoff; when the budget is spent    *)
(* DEAD_LETTER, leaving claimed_at and processing_started_at as they were.    *)
RecoverRow(row) ==
    IF row.attempts < MaxAttempts
    THEN [row EXCEPT !.status = "pending", !.claimed = FALSE,
                     !.wait = Backoff(row.attempts)]
    ELSE [row EXCEPT !.status = "dead_letter"]

(* recover_stuck_processing_jobs: the same, but claimable at once. *)
RecoverStuckRow(row) ==
    IF row.attempts < MaxAttempts
    THEN [row EXCEPT !.status = "pending", !.claimed = FALSE, !.wait = 0]
    ELSE [row EXCEPT !.status = "dead_letter"]

(* fail_job: fail() leaves its change unflushed and the session does not     *)
(* autoflush, so the SELECT of (report_id, status) that follows still reads  *)
(* the status the row had before, and that is what reports.status becomes.   *)
FailedReportStatus(row, attempt) == ReportStatusOf(row.status)

FailJob(j, attempt) ==
    /\ job' = [job EXCEPT ![j] = FailRow(@, attempt)]
    /\ report' = [report EXCEPT ![j] = FailedReportStatus(job[j], attempt)]

(***************************************************************************)
(* The upload path: enqueue.  A second enqueue of the key returns the      *)
(* active row, or is refused by uq_etl_job_tenant_idempotency.             *)
(***************************************************************************)
Enqueue(j) ==
    /\ job[j].status = "absent"
    /\ job' = [job EXCEPT ![j].status = "pending"]
    /\ UNCHANGED <<report, persisted, worker, operator, replays>>

(***************************************************************************)
(* A worker's loop.                                                        *)
(***************************************************************************)
(* Every poll first returns all stale claims, of any tenant. *)
PollRecover(w) ==
    /\ At(w, "idle")
    /\ job' = [j \in Job |-> IF Stale(j) THEN RecoverRow(job[j]) ELSE job[j]]
    /\ Goto(w, "claim")
    /\ UNCHANGED <<report, persisted, operator, replays>>

(* SKIP LOCKED passes over rows that other transactions hold, so any         *)
(* eligible row may be the first one left in (file size, age) order.         *)
Claim(w, j) ==
    /\ At(w, "claim")
    /\ Eligible(j)
    /\ job' = [job EXCEPT ![j] = ClaimRow(@)]
    /\ worker' = [worker EXCEPT
           ![w] = [pc |-> "guard", job |-> j, attempt |-> job[j].attempts + 1]]
    /\ UNCHANGED <<report, persisted, operator, replays>>

ClaimNothing(w) ==
    /\ At(w, "claim")
    /\ \A j \in Job : ~Eligible(j)
    /\ Release(w)
    /\ UNCHANGED <<job, report, persisted, operator, replays>>

GuardAllows(w) ==
    /\ At(w, "guard")
    /\ Goto(w, "parse")
    /\ UNCHANGED <<job, report, persisted, operator, replays>>

(* A contained tenant's job is failed at once, and an attempt is spent. *)
GuardRefuses(w) ==
    /\ At(w, "guard")
    /\ FailJob(worker[w].job, worker[w].attempt)
    /\ Release(w)
    /\ UNCHANGED <<persisted, operator, replays>>

ParseSucceeds(w) ==
    /\ At(w, "parse")
    /\ Goto(w, "persist")
    /\ UNCHANGED <<job, report, persisted, operator, replays>>

(* A parse or persist error, a retryable one, or a shutdown between phases. *)
PhaseFails(w) ==
    /\ worker[w].pc \in {"parse", "persist"}
    /\ Goto(w, "fail")
    /\ UNCHANGED <<job, report, persisted, operator, replays>>

(* Mutated: the result is rolled back while the ack commits. *)
PersistNothing(j) == UNCHANGED persisted

(* The business result and the ack are committed by one transaction. *)
PersistResult(j) == persisted' = [persisted EXCEPT ![j] = TRUE]

PersistAndAck(w) ==
    LET j == worker[w].job IN
    /\ At(w, "persist")
    /\ PersistResult(j)
    /\ job' = [job EXCEPT ![j] = AckRow(@)]
    /\ report' = [report EXCEPT ![j] = ReportStatusOf("completed")]
    /\ Goto(w, "hook")
    /\ UNCHANGED <<operator, replays>>

MarkFailed(w) ==
    /\ At(w, "fail")
    /\ FailJob(worker[w].job, worker[w].attempt)
    /\ Release(w)
    /\ UNCHANGED <<persisted, operator, replays>>

(* The post-report AI hook runs inside the heartbeat scope; its errors are swallowed. *)
HookEnds(w) ==
    /\ At(w, "hook")
    /\ Release(w)
    /\ UNCHANGED <<job, report, persisted, operator, replays>>

(* The heartbeat task of the scope: it asks for PROCESSING, not for an owner. *)
Heartbeat(w) ==
    /\ worker[w].pc \in BeatingPcs
    /\ job[worker[w].job].status = "processing"
    /\ job' = [job EXCEPT ![worker[w].job].age = 0]
    /\ UNCHANGED <<report, persisted, worker, operator, replays>>

(* The process dies and restarts, or an error escapes into run_worker's loop *)
(* (the guard or the transaction that marks the failure raised).             *)
Abandon(w) ==
    /\ ~At(w, "idle")
    /\ Release(w)
    /\ UNCHANGED <<job, report, persisted, operator, replays>>

(***************************************************************************)
(* Tenant recovery, run by orchestrator maintenance and the healer.        *)
(***************************************************************************)
RecoverStuck(u) ==
    /\ job' = [j \in Job |-> IF Stale(j) /\ UserOf[j] = u
                             THEN RecoverStuckRow(job[j]) ELSE job[j]]
    /\ UNCHANGED <<report, persisted, worker, operator, replays>>

(***************************************************************************)
(* retry_processing -> replay_dead_letter_job: three transactions of one   *)
(* session.  Rows stay in the session's identity map across its commits    *)
(* (expire_on_commit=False), so every check after the first load sees that *)
(* first load, and only attributes that differ from it are written.        *)
(***************************************************************************)
ReplayRead(o, j) ==
    /\ operator[o].pc = "idle"
    /\ replays < MaxReplays
    /\ job[j].status = "dead_letter"
    /\ operator' = [operator EXCEPT
           ![o] = [pc |-> "read", job |-> j,
                   attempts |-> job[j].attempts, claimed |-> job[j].claimed]]
    /\ replays' = replays + 1
    /\ UNCHANGED <<job, report, persisted, worker>>

ReplayReset(o) ==
    /\ operator[o].pc = "read"
    /\ job' = IF operator[o].attempts = 0 THEN job
              ELSE [job EXCEPT ![operator[o].job].attempts = 0]
    /\ operator' = [operator EXCEPT ![o].pc = "reset"]
    /\ UNCHANGED <<report, persisted, worker, replays>>

(* requeue's own checks (DEAD_LETTER, budget left) see the cached row, whose *)
(* counter was reset, and pass.  claimed_at and processing_started_at are    *)
(* cleared only if they were set when the row was loaded, which is when      *)
(* visibility recovery buried it.                                            *)
RequeueRow(row, snapshot) ==
    IF snapshot.claimed
    THEN [row EXCEPT !.status = "pending", !.claimed = FALSE, !.wait = 0]
    ELSE [row EXCEPT !.status = "pending"]

ReplayRequeue(o) ==
    /\ operator[o].pc = "reset"
    /\ job' = [job EXCEPT ![operator[o].job] = RequeueRow(@, operator[o])]
    /\ operator' = [operator EXCEPT ![o] = IdleOperator]
    /\ UNCHANGED <<report, persisted, worker, replays>>

(* The request dies between its transactions. *)
ReplayAbort(o) ==
    /\ operator[o].pc # "idle"
    /\ operator' = [operator EXCEPT ![o] = IdleOperator]
    /\ UNCHANGED <<job, report, persisted, worker, replays>>

(***************************************************************************)
(* Time.                                                                   *)
(***************************************************************************)
AgedRow(row) ==
    [row EXCEPT !.age = IF @ > VisibilityTimeout THEN @ ELSE @ + 1,
                !.wait = IF @ > 0 THEN @ - 1 ELSE 0]

Tick ==
    /\ job' = [j \in Job |-> AgedRow(job[j])]
    /\ UNCHANGED <<report, persisted, worker, operator, replays>>

(***************************************************************************)
(* Specifications.                                                         *)
(***************************************************************************)
(* What a live worker does next on its own. *)
WorkerStep(w) ==
    \/ PollRecover(w)
    \/ \E j \in Job : Claim(w, j)
    \/ ClaimNothing(w)
    \/ GuardAllows(w) \/ GuardRefuses(w)
    \/ ParseSucceeds(w) \/ PhaseFails(w)
    \/ PersistAndAck(w) \/ MarkFailed(w)
    \/ HookEnds(w)

OperatorStep(o) == ReplayReset(o) \/ ReplayRequeue(o) \/ ReplayAbort(o)

(* The steps whose effect does not depend on timing. *)
CommonNext ==
    \/ \E j \in Job : Enqueue(j)
    \/ \E w \in Worker : WorkerStep(w) \/ Heartbeat(w) \/ Abandon(w)
    \/ \E u \in User : RecoverStuck(u)
    \/ \E o \in Operator : OperatorStep(o)

(* Workers may stall past the visibility timeout, requests may overlap. *)
Next ==
    \/ CommonNext
    \/ \E o \in Operator, j \in Job : ReplayRead(o, j)
    \/ Tick

Spec == Init /\ [][Next]_vars

(* Punctual workers: one that lives heartbeats, or ends its phase, before    *)
(* its claim expires.  A claim goes stale only after its worker is gone.     *)
PunctualTick ==
    /\ \A w \in Worker : Busy(w) => job[worker[w].job].age < VisibilityTimeout
    /\ Tick

(* At most one retry request at a time works on a job. *)
LoneReplayRead(o, j) ==
    /\ \A o2 \in Operator : operator[o2].job # j
    /\ ReplayRead(o, j)

CalmNext ==
    \/ CommonNext
    \/ \E o \in Operator, j \in Job : LoneReplayRead(o, j)
    \/ PunctualTick

(* Workers poll and finish their phases, time passes.  Crashes, heartbeats,  *)
(* tenant recovery, uploads and operators are not promised.  A worker that   *)
(* keeps dying and restarting does not die every time between its sweep and  *)
(* its claim: that is the strong fairness.                                   *)
Fairness ==
    /\ \A w \in Worker : WF_vars(WorkerStep(w)) /\ SF_vars(\E j \in Job : Claim(w, j))
    /\ WF_vars(PunctualTick)

CalmSpec == Init /\ [][CalmNext]_vars /\ Fairness

(***************************************************************************)
(* Properties of every behaviour.                                          *)
(***************************************************************************)
(* Every variable keeps its type; in particular no row of etl_jobs counts    *)
(* more attempts than job_max_attempts.                                      *)
TypeOK ==
    /\ job \in [Job -> JobRow]
    /\ report \in [Job -> ReportStatuses]
    /\ persisted \in [Job -> BOOLEAN]
    /\ worker \in [Worker -> WorkerState]
    /\ operator \in [Operator -> OperatorState]
    /\ replays \in 0..MaxReplays
    /\ \A w \in Worker : worker[w].pc \in BusyPcs \cup {"hook"} =>
           worker[w].job \in Job /\ worker[w].attempt > 0
    /\ \A o \in Operator : operator[o].pc # "idle" => operator[o].job \in Job

(* A job marked COMPLETED, and a report shown as processed, has its business *)
(* result committed, whichever worker acknowledged it: persist_result and    *)
(* ack_job share one transaction (OPS-CPU-NO-TXN).                           *)
CompletedHasResult ==
    \A j \in Job : (job[j].status = "completed" \/ report[j] = "processed")
                       => persisted[j]

(* A PROCESSING row always carries claimed_at, so both recovery sweeps, which *)
(* filter on it, will find the row once its heartbeat is old.                *)
ProcessingIsRecoverable ==
    \A j \in Job : job[j].status = "processing" => job[j].claimed

(***************************************************************************)
(* Properties of calm behaviours.                                          *)
(***************************************************************************)
(* Two workers never work on the same job: the exclusivity Q-CLAIM-EXCL      *)
(* promises, although no call after the claim checks who holds the row.      *)
OneOwner ==
    \A w1, w2 \in Worker :
        Busy(w1) /\ Busy(w2) /\ worker[w1].job = worker[w2].job => w1 = w2

(* A busy worker's snapshot is the row's current claim, so that the attempt  *)
(* it passes to fail() is the attempt the row has.                           *)
ClaimIsCurrent ==
    \A w \in Worker : Busy(w) =>
        /\ job[worker[w].job].status = "processing"
        /\ job[worker[w].job].attempts = worker[w].attempt

(* Q-RETRY-BOUND: a job goes back to PENDING only with attempts left; one    *)
(* with none left would be PENDING and never claimed.                        *)
PendingHasBudget ==
    \A j \in Job : job[j].status = "pending" => job[j].attempts < MaxAttempts

(* A committed result is visible and final: its job is COMPLETED and the     *)
(* analytics' filter on reports.status sees it (Q-ACK-TERM).                 *)
ResultIsFinal ==
    \A j \in Job : persisted[j] =>
        job[j].status = "completed" /\ report[j] = "processed"

(* A job is buried only after it used its whole budget.                      *)
BuriedWhenExhausted ==
    [][\A j \in Job :
          job[j].status # "dead_letter" /\ job'[j].status = "dead_letter"
              => job[j].attempts = MaxAttempts]_vars

(* A busy worker's row is fresh, so that no recovery sweep touches it.       *)
ClaimIsFresh ==
    \A w \in Worker : Busy(w) => job[worker[w].job].age <= VisibilityTimeout

(* The row of a replay in progress stays DEAD_LETTER, known to that request  *)
(* alone, and its counter is reset once the first transaction is done.       *)
ReplayHoldsRow ==
    /\ \A o \in Operator :
        IF operator[o].pc = "idle" THEN operator[o].job = NoJob
        ELSE /\ job[operator[o].job].status = "dead_letter"
             /\ job[operator[o].job].attempts =
                    IF operator[o].pc = "reset" THEN 0 ELSE operator[o].attempts
    /\ \A o1, o2 \in Operator :
        operator[o1].pc # "idle" /\ operator[o1].job = operator[o2].job => o1 = o2

AbsentIsUnused ==
    \A j \in Job : job[j].status = "absent" => job[j].attempts = 0

(* The inductive invariant behind the properties of calm behaviours.         *)
CalmInv ==
    /\ TypeOK /\ CompletedHasResult
    /\ OneOwner /\ ClaimIsCurrent /\ ClaimIsFresh
    /\ PendingHasBudget /\ ResultIsFinal
    /\ ReplayHoldsRow /\ AbsentIsUnused

(* Every queued job is eventually completed or dead-lettered, whatever       *)
(* crashes in between.                                                       *)
EventuallySettled ==
    \A j \in Job : job[j].status = "pending" ~>
                       job[j].status \in {"completed", "dead_letter"}

(* The queue implements the lifecycle it promises.  An operator's counter    *)
(* reset is not visible until the job is requeued.                           *)
Lifecycle == INSTANCE EtlLifecycle WITH
    phase  <- [j \in Job |-> job[j].status],
    tries  <- [j \in Job |-> IF job[j].status = "dead_letter"
                             THEN MaxAttempts ELSE job[j].attempts],
    result <- persisted

LifecycleSpec == Lifecycle!Spec
=============================================================================
