--------------------------- MODULE RebuildDispatch ---------------------------
(***************************************************************************)
(* How stock snapshots follow the inventory ledger: the ETL persist phase  *)
(* rebuilds them inline, deleting a report queues a row of                 *)
(* snapshot_rebuild_requirements, and orchestrators dispatch these rows    *)
(* (RebuildDispatcherService), while their maintenance resets, schedules   *)
(* and defers them.  Both writers hold one advisory lock per tenant.       *)
(*                                                                         *)
(* One action is one database transaction, except for the two rebuilds,    *)
(* whose begin (lock taken, ledger read) and end are apart: ledger rows    *)
(* come and go between them without the lock.  The dispatcher's session    *)
(* keeps the row it peeked at, so what it marks RUNNING is that copy.      *)
(*                                                                         *)
(* Time: "age" is now - started_at of a RUNNING row, saturating one above  *)
(* StaleAfter; "wait" is next_eligible_at - now, 0 once that has passed,   *)
(* Unscheduled while the column is NULL.                                   *)
(***************************************************************************)
EXTENDS InventorySnapshot, FiniteSets

CONSTANTS
    Tenant,
    TenantOf,           \* Report -> its tenant
    Orchestrator,       \* orchestrator processes
    Anchor,             \* reports the anchored specification never deletes
    PersistAttempts,    \* Report -> attempts of its ETL job that reach phase 2
    MaxAttempts,        \* snapshot_rebuild_requirements.max_attempts
    RetryBase,          \* base delay of compute_next_eligible_at, in ticks
    RetryCap,           \* its cap of one hour, in ticks
    DeferBusy,          \* settings.orchestrator_defer_busy_seconds, in ticks
    StaleAfter,         \* settings.recovery_stale_running_seconds, in ticks
    EscalateAfter,      \* settings.runtime_incremental_to_full_after_attempts
    BatchSize,          \* settings.orchestrator_dispatch_batch_size
    NoReport            \* an orchestrator that holds no requirement

ASSUME DispatchAssumption ==
    /\ TenantOf \in [Report -> Tenant]
    /\ Anchor \subseteq Report
    /\ NoReport \notin Report
    /\ PersistAttempts \in [Report -> Nat]
    /\ {RetryBase, RetryCap, DeferBusy, StaleAfter, EscalateAfter} \subseteq Nat
    /\ MaxAttempts \in Nat \ {0} /\ BatchSize \in Nat \ {0}

VARIABLES
    report,     \* Report -> how far its ETL job got, and what its rebuild read
    snap,       \* Tenant -> its live snapshots
    req,        \* Report -> the requirement its deletion created
    created,    \* requirements created so far: created_at is the count before
    orch        \* Orchestrator -> pc, the requirement in hand and its copy

vars == <<report, snap, req, created, orch>>

Stages == {"new", "ledgered", "persisting", "live", "deleted"}
Statuses == {"absent", "pending", "running", "succeeded", "deferred", "failed"}
Waiting == {"pending", "deferred", "failed"}
OrchPcs == {"idle", "chosen", "peeked", "running", "rebuild", "failed", "busy"}
Unscheduled == -1

ReportState == [stage: Stages, tries: Nat, read: SUBSET Report]
Requirement == [status: Statuses, required: BOOLEAN, attempts: 0..MaxAttempts,
                wait: Nat \cup {Unscheduled}, age: 0..StaleAfter + 1,
                full: BOOLEAN, born: Nat]
OrchState == [pc: OrchPcs, req: Report \cup {NoReport}, attempts: 0..MaxAttempts,
              full: BOOLEAN, read: SUBSET Report]

AbsentReq == [status |-> "absent", required |-> FALSE, attempts |-> 0,
              wait |-> Unscheduled, age |-> 0, full |-> FALSE, born |-> 0]
IdleOrch == [pc |-> "idle", req |-> NoReport, attempts |-> 0, full |-> FALSE, read |-> {}]

Init ==
    /\ report = [p \in Report |-> [stage |-> "new", tries |-> 0, read |-> {}]]
    /\ snap = [t \in Tenant |-> NoSnapshot]
    /\ req = [p \in Report |-> AbsentReq]
    /\ created = 0
    /\ orch = [o \in Orchestrator |-> IdleOrch]

Of(t) == {p \in Report : TenantOf[p] = t}
Live(t) == {p \in Of(t) : report[p].stage = "live"}
Unfinished(t) == {p \in Of(t) : report[p].stage \in {"ledgered", "persisting"}}
Ledger(t) == Live(t) \cup Unfinished(t)

(* Mutated: the persist path and the dispatcher use different lock keys. *)
LockHeldByDispatch(t) ==
    \E o \in Orchestrator : orch[o].pc = "rebuild" /\ TenantOf[orch[o].req] = t

(* pg_try_advisory_xact_lock: held by the rebuilding transaction. *)
LockHeld(t) ==
    \/ \E p \in Of(t) : report[p].stage = "persisting"
    \/ \E o \in Orchestrator : orch[o].pc = "rebuild" /\ TenantOf[orch[o].req] = t

LockFree(t) == ~LockHeld(t)

(***************************************************************************)
(* Reports: ingest, the two ends of persist phase 2, deletion.             *)
(***************************************************************************)
Ingest(p) ==
    /\ report[p].stage = "new"
    /\ report' = [report EXCEPT ![p].stage = "ledgered"]
    /\ UNCHANGED <<snap, req, created, orch>>

(* A busy lock fails the attempt before it changed anything here. *)
PersistBegin(p) ==
    /\ report[p].stage = "ledgered"
    /\ report[p].tries < PersistAttempts[p]
    /\ LockFree(TenantOf[p])
    /\ report' = [report EXCEPT ![p] = [stage |-> "persisting", tries |-> @.tries + 1,
                                        read |-> Ledger(TenantOf[p])]]
    /\ UNCHANGED <<snap, req, created, orch>>

PersistCommit(p) ==
    LET t == TenantOf[p]
    IN  /\ report[p].stage = "persisting"
        /\ snap' = [snap EXCEPT ![t] = RebuildForReport(report[p].read, @, p)]
        /\ report' = [report EXCEPT ![p].stage = "live", ![p].read = {}]
        /\ UNCHANGED <<req, created, orch>>

(* Rolled back by an error, a shutdown or a crash: the job is retried or buried. *)
PersistAbort(p) ==
    /\ report[p].stage = "persisting"
    /\ report' = [report EXCEPT ![p].stage = "ledgered", ![p].read = {}]
    /\ UNCHANGED <<snap, req, created, orch>>

(* request_rebuild *)
NewReq ==
    [AbsentReq EXCEPT !.status = "pending", !.required = TRUE, !.born = created]

(* A report whose job is PROCESSING is refused. *)
Delete(p) ==
    /\ report[p].stage \in {"ledgered", "live"}
    /\ report' = [report EXCEPT ![p].stage = "deleted"]
    /\ req' = [req EXCEPT ![p] = NewReq]
    /\ created' = created + 1
    /\ UNCHANGED <<snap, orch>>

(***************************************************************************)
(* Row transitions.                                                        *)
(***************************************************************************)
Backoff(attempts) ==
    LET delay == RetryBase * 2^attempts
    IN  IF delay < RetryCap THEN delay ELSE RetryCap

ASSUME RebuildBackoffAssumption == \A k \in 0..MaxAttempts : Backoff(k) \in Nat

(* Mutated: a deferred row is never taken up again. *)
EligibleUnlessDeferred(row) ==
    /\ row.required /\ row.status \in {"pending", "failed"}
    /\ row.attempts < MaxAttempts /\ row.wait <= 0

Eligible(row) ==
    /\ row.required
    /\ row.status \in Waiting
    /\ row.attempts < MaxAttempts
    /\ row.wait <= 0

(* attempts and full come from the dispatcher's copy; an unchanged mode is not written. *)
RunningRow(row, attempts, full) ==
    [row EXCEPT !.status = "running", !.attempts = attempts, !.age = 0, !.full = @ \/ full]

SucceededRow(row) == [row EXCEPT !.status = "succeeded", !.required = FALSE]

FailedRow(row) ==
    IF row.attempts >= MaxAttempts
    THEN [row EXCEPT !.status = "failed"]
    ELSE [row EXCEPT !.status = "deferred", !.wait = Backoff(row.attempts)]

BusyRow(row, delay) ==
    [row EXCEPT !.status = "deferred", !.attempts = IF @ > 0 THEN @ - 1 ELSE @, !.wait = delay]

(* Mutated: the sweep looks at started_at and not at the status. *)
StaleIgnoringStatus(row) == row.age > StaleAfter

StaleRunning(row) == row.status = "running" /\ row.age > StaleAfter

AgedRow(row) ==
    [row EXCEPT !.age = IF row.status = "running" /\ @ <= StaleAfter THEN @ + 1 ELSE @,
                !.wait = IF @ > 0 THEN @ - 1 ELSE @]

(***************************************************************************)
(* One dispatch: select, peek, mark running, rebuild, record the outcome.  *)
(***************************************************************************)
At(o, pc) == orch[o].pc = pc
Goto(o, pc) == orch' = [orch EXCEPT ![o].pc = pc]
Finish(o) == orch' = [orch EXCEPT ![o] = IdleOrch]
InHand(o) == req[orch[o].req]

Older(q, p) == req[q].born < req[p].born
Queued == {p \in Report : req[p].required /\ req[p].status \in Waiting}

(* The oldest BatchSize rows are read, and eligibility is looked at after that. *)
Candidates ==
    {p \in Queued : /\ Cardinality({q \in Queued : Older(q, p)}) < BatchSize
                    /\ Eligible(req[p])}

Select(o) ==
    /\ At(o, "idle")
    /\ \E p \in Candidates :
           /\ \A q \in Candidates : ~Older(q, p)
           /\ orch' = [orch EXCEPT ![o].pc = "chosen", ![o].req = p]
    /\ UNCHANGED <<report, snap, req, created>>

Peek(o) ==
    /\ At(o, "chosen")
    /\ Eligible(InHand(o))
    /\ orch' = [orch EXCEPT ![o].pc = "peeked", ![o].attempts = InHand(o).attempts,
                            ![o].full = InHand(o).full]
    /\ UNCHANGED <<report, snap, req, created>>

Skip(o) ==
    /\ At(o, "chosen")
    /\ ~Eligible(InHand(o))
    /\ Finish(o)
    /\ UNCHANGED <<report, snap, req, created>>

(* The second eligibility check looks at the copy, which Peek found eligible. *)
MarkRunning(o) ==
    LET attempts == orch[o].attempts + 1
        full     == orch[o].full \/ attempts >= EscalateAfter
    IN  /\ At(o, "peeked")
        /\ req' = [req EXCEPT ![orch[o].req] = RunningRow(@, attempts, full)]
        /\ orch' = [orch EXCEPT ![o].pc = "running", ![o].attempts = attempts, ![o].full = full]
        /\ UNCHANGED <<report, snap, created>>

LockBusy(o) ==
    /\ At(o, "running")
    /\ ~LockFree(TenantOf[orch[o].req])
    /\ Goto(o, "busy")
    /\ UNCHANGED <<report, snap, req, created>>

BeginRebuild(o) ==
    LET t == TenantOf[orch[o].req]
    IN  /\ At(o, "running")
        /\ LockFree(t)
        /\ orch' = [orch EXCEPT ![o].pc = "rebuild", ![o].read = Ledger(t)]
        /\ UNCHANGED <<report, snap, req, created>>

RebuildCommits(o) ==
    LET t == TenantOf[orch[o].req]
        R == orch[o].read
    IN  /\ At(o, "rebuild")
        /\ snap' = [snap EXCEPT ![t] = IF orch[o].full THEN RebuildFull(R, @)
                                       ELSE RebuildIncremental(R, @)]
        /\ req' = [req EXCEPT ![orch[o].req] = SucceededRow(@)]
        /\ Finish(o)
        /\ UNCHANGED <<report, created>>

RebuildFails(o) ==
    /\ At(o, "rebuild")
    /\ orch' = [orch EXCEPT ![o].pc = "failed", ![o].read = {}]
    /\ UNCHANGED <<report, snap, req, created>>

(* The rollback expired the copy: the outcome is recorded on the row as it is. *)
MarkFailed(o) ==
    /\ At(o, "failed")
    /\ req' = [req EXCEPT ![orch[o].req] = FailedRow(@)]
    /\ Finish(o)
    /\ UNCHANGED <<report, snap, created>>

MarkBusy(o) ==
    /\ At(o, "busy")
    /\ req' = [req EXCEPT ![orch[o].req] = BusyRow(@, DeferBusy)]
    /\ Finish(o)
    /\ UNCHANGED <<report, snap, created>>

Crash(o) ==
    /\ ~At(o, "idle")
    /\ Finish(o)
    /\ UNCHANGED <<report, snap, req, created>>

(***************************************************************************)
(* Maintenance between dispatches, one transaction per tenant.             *)
(***************************************************************************)
StaleOf(t) == {p \in Of(t) : StaleRunning(req[p])}

(* reset_stale_running_rebuilds leaves the attempts as they are. *)
ResetStale(o, t) ==
    /\ At(o, "idle")
    /\ StaleOf(t) # {}
    /\ req' = [p \in Report |->
                 IF p \in StaleOf(t)
                 THEN [req[p] EXCEPT !.status = "deferred", !.wait = Backoff(req[p].attempts)]
                 ELSE req[p]]
    /\ UNCHANGED <<report, snap, created, orch>>

UnscheduledOf(t) ==
    {p \in Of(t) \cap Queued : req[p].attempts < MaxAttempts /\ req[p].wait = Unscheduled}

ApplyBackoff(o, t) ==
    /\ At(o, "idle")
    /\ UnscheduledOf(t) # {}
    /\ req' = [p \in Report |->
                 IF p \in UnscheduledOf(t)
                 THEN [req[p] EXCEPT !.status = IF @ = "failed" THEN "deferred" ELSE @,
                                     !.wait = Backoff(req[p].attempts)]
                 ELSE req[p]]
    /\ UNCHANGED <<report, snap, created, orch>>

(* At most two rows of a tenant whose ETL queue is overloaded (external here). *)
DeferOverloaded(o, t) ==
    LET pending == {p \in Of(t) \cap Queued : req[p].status = "pending"}
    IN  /\ At(o, "idle")
        /\ \E p, q \in pending :
               /\ p = q => pending = {p}
               /\ req' = [req EXCEPT ![p] = BusyRow(req[p], 2 * DeferBusy),
                                     ![q] = BusyRow(req[q], 2 * DeferBusy)]
        /\ UNCHANGED <<report, snap, created, orch>>

Tick ==
    /\ \E p \in Report : AgedRow(req[p]) # req[p]
    /\ req' = [p \in Report |-> AgedRow(req[p])]
    /\ UNCHANGED <<report, snap, created, orch>>

ReportStep == \E p \in Report : Ingest(p) \/ PersistBegin(p) \/ PersistCommit(p) \/ PersistAbort(p)

Dispatch(o) ==
    \/ Select(o) \/ Peek(o) \/ Skip(o) \/ MarkRunning(o)
    \/ LockBusy(o) \/ BeginRebuild(o) \/ RebuildCommits(o) \/ RebuildFails(o)
    \/ MarkFailed(o) \/ MarkBusy(o) \/ Crash(o)

Maintain(o) == \E t \in Tenant : ResetStale(o, t) \/ ApplyBackoff(o, t) \/ DeferOverloaded(o, t)

CommonStep == ReportStep \/ (\E o \in Orchestrator : Dispatch(o) \/ Maintain(o)) \/ Tick

Next == CommonStep \/ \E p \in Report : Delete(p)

Spec == Init /\ [][Next]_vars

(* Anchored deletions: a report that is never deleted starts no later, and    *)
(* is in the ledger.  What happens without is a run of its own.               *)
AnchoredBy(a, p) ==
    /\ TenantOf[a] = TenantOf[p]
    /\ First(DaysOf[a]) <= First(DaysOf[p])

AnchoredDelete(p) ==
    /\ p \notin Anchor
    /\ \E a \in Anchor : AnchoredBy(a, p) /\ a \in Ledger(TenantOf[p])
    /\ Delete(p)

AnchoredNext == CommonStep \/ \E p \in Report : AnchoredDelete(p)

AnchoredSpec == Init /\ [][AnchoredNext]_vars

(* The database keeps a transaction open only while its process lives, rows   *)
(* are swept and dispatched in every cycle of the orchestrator, and a crash   *)
(* does not hit each time at the same step.  Persist attempts are bounded.    *)
Fairness ==
    /\ WF_vars(Tick)
    /\ \A p \in Report : WF_vars(PersistCommit(p) \/ PersistAbort(p))
    /\ \A o \in Orchestrator :
           /\ SF_vars(Select(o)) /\ SF_vars(Peek(o)) /\ SF_vars(MarkRunning(o))
           /\ WF_vars(LockBusy(o) \/ BeginRebuild(o))
           /\ WF_vars(RebuildCommits(o) \/ RebuildFails(o) \/ Crash(o))
           /\ WF_vars(Skip(o) \/ MarkFailed(o) \/ MarkBusy(o))
           /\ \A t \in Tenant : SF_vars(ResetStale(o, t))

FairSpec == AnchoredSpec /\ Fairness

(***************************************************************************)
(* Properties.                                                             *)
(***************************************************************************)
(* Every variable has its type; in particular no attempt counter drops below  *)
(* zero when two dispatchers give an attempt back (mark_deferred_lock_busy).  *)
TypeOK ==
    /\ report \in [Report -> ReportState]
    /\ snap = [t \in Tenant |-> snap[t]] /\ \A t \in Tenant : IsSnapshot(snap[t])
    /\ req \in [Report -> Requirement]
    /\ created \in Nat
    /\ orch \in [Orchestrator -> OrchState]

(* Deleted reports whose requirement is still flagged requires_rebuild. *)
Ghosts(t) == {p \in Of(t) : report[p].stage = "deleted" /\ req[p].required}
Allowed(t) == Ledger(t) \cup Ghosts(t)

(* The snapshots of a tenant count every movement of its processed reports,   *)
(* whatever persists, dispatches and deletions overlap: no rebuild overwrites *)
(* another's result with what it read earlier (the advisory lock).            *)
NothingLost == \A t \in Tenant : Covers(snap[t], Live(t))

(* A movement of a deleted report is still counted only as long as the        *)
(* requirement its deletion queued is flagged: mark_succeeded clears the flag *)
(* only with a rebuild that read the ledger after the deletion.               *)
GhostsAreOwed == \A t \in Tenant : Within(snap[t], Allowed(t))

(* Once a tenant has neither unfinished reports nor flagged requirements, its *)
(* live snapshots are what a full replay of its ledger yields (LED-REPLAY-DET *)
(* and TST-REPLAY-EQ of docs/architecture/invariants.md).                     *)
QuiescentIsExact ==
    \A t \in Tenant :
        Unfinished(t) = {} /\ Ghosts(t) = {} => snap[t] = Replay(Ledger(t))

(* What makes the above inductive: what open rebuilds read is still a valid   *)
(* basis when they commit, because the lock keeps every other writer out.     *)
LockExcludes ==
    /\ \A p, q \in Report :
           /\ report[p].stage = "persisting" /\ report[q].stage = "persisting"
           /\ TenantOf[p] = TenantOf[q]
           => p = q
    /\ \A o \in Orchestrator : \A p \in Report :
           At(o, "rebuild") /\ report[p].stage = "persisting" => TenantOf[p] # TenantOf[orch[o].req]
    /\ \A o, n \in Orchestrator :
           At(o, "rebuild") /\ At(n, "rebuild") /\ o # n
           => TenantOf[orch[o].req] # TenantOf[orch[n].req]

HandsHoldRequirements ==
    \A o \in Orchestrator :
        ~At(o, "idle") => orch[o].req \in Report /\ req[orch[o].req].status # "absent"

CopiesHaveBudget ==
    \A o \in Orchestrator : At(o, "peeked") => orch[o].attempts < MaxAttempts

RequirementsFollowDeletion ==
    \A p \in Report :
        /\ req[p].status # "absent" <=> report[p].stage = "deleted"
        /\ report[p].stage = "deleted" =>
               \E a \in Anchor : AnchoredBy(a, p) /\ a \in Ledger(TenantOf[p])

Basis(R, t) == Live(t) \subseteq R /\ R \subseteq Allowed(t)

ReadsAreBases ==
    /\ \A p \in Report :
           report[p].stage = "persisting" => p \in report[p].read /\ Basis(report[p].read, TenantOf[p])
    /\ \A o \in Orchestrator :
           At(o, "rebuild") =>
               /\ Basis(orch[o].read, TenantOf[orch[o].req])
               /\ orch[o].req \notin orch[o].read
               /\ \E a \in orch[o].read : AnchoredBy(a, orch[o].req)

(* The inductive invariant of the anchored specification: snapshots lie       *)
(* between the processed and the still owed movements, the lock excludes, and *)
(* open rebuilds stand on a ledger that already lacks the deleted report.     *)
SnapshotInv ==
    /\ TypeOK
    /\ LockExcludes
    /\ HandsHoldRequirements
    /\ CopiesHaveBudget
    /\ RequirementsFollowDeletion
    /\ ReadsAreBases
    /\ NothingLost
    /\ GhostsAreOwed

(* A terminal requirement is never dispatched or swept again                  *)
(* (docs/runtime/orchestration_lifecycle.md:29 and :48).                      *)
SettledStays ==
    [][\A p \in Report : req[p].status \in {"succeeded", "failed"} => req'[p].status = req[p].status]_vars

(* A requirement with attempts left is not stranded: it is rebuilt, or ends   *)
(* with its budget spent, through crashes, failures and busy locks.           *)
EventuallyRebuilt ==
    \A p \in Report : req[p].required ~> (~req[p].required \/ req[p].attempts = MaxAttempts)
=============================================================================
