# A verification project for the marketplace analytics platform

The repository is a multi-tenant service: sellers upload marketplace reports, an
ETL worker turns each report into ledgers, projections and stock snapshots, and
an orchestrator keeps the derived data in step with later deletions. This
directory holds TLA+ models of the parts whose correctness depends on processes,
transactions, crashes and time, TLC runs that check them on small instances, and
TLAPS proofs of the main results for instances of every size.

Paths below are relative to the repository root; `etl/worker.py:103` stands for
`app/etl/worker.py`, line 103.

1. [Inventory](#inventory)
2. [Modules](#modules)
3. [What the models abstract from](#what-the-models-abstract-from)
4. [Runs](#runs)
5. [Fairness](#fairness)
6. [Proofs](#proofs)
7. [Where the code and its documents disagree](#where-the-code-and-its-documents-disagree)
8. [What is not modelled](#what-is-not-modelled)
9. [Plan](#plan)

## Inventory

### Processes and what they share

| process | entry point | what it does |
|---|---|---|
| API server | `app/api`, `app/services` | uploads, deletions, retries of failed reports, read-only queries |
| ETL worker (several) | `etl/worker.py` | polls `etl_jobs`, claims a job, parses, persists, acknowledges |
| Orchestrator (several, one meant to be active) | `runtime/orchestration_worker.py` | runs a control-plane cycle: maintenance, then at most one rebuild dispatch |

They share nothing but PostgreSQL: tables, row locks (`FOR UPDATE SKIP LOCKED`),
one advisory lock per tenant, and a lease row. Every process reads through
SQLAlchemy sessions built with `autoflush=False` and `expire_on_commit=False`
(`core/database.py:13-19`). Both settings matter: a pending change is not seen by a
query of the same transaction, and an object read in one transaction is still the
same, old object in the next transaction of that session. Only a rollback expires it.

### Components

| component | state | operations | hard behaviour | properties |
|---|---|---|---|---|
| ETL job queue, `core/queue/postgres_backend.py` | row of `etl_jobs`: status, attempt count, `claimed_at`, heartbeat, `processing_started_at` (also the retry delay) | enqueue, claim, ack, fail, requeue, heartbeat, recover_stale | workers act on a row by id after their claim may have expired; sweeps race slow workers | one owner per job, retry budget, every queued job settles |
| ETL worker, `etl/worker.py` | the claimed snapshot, the phase | poll, guard, parse, persist+ack, fail, AI hook, heartbeat task | crash between any two transactions; parsing blocks the heartbeat | result and acknowledgement commit together |
| Report job service, `services/report_service.py` | `reports.status` | ack_job, fail_job, retry_processing | status is a projection of another row, written in the same transaction | a processed report has a result and the reverse |
| Tenant recovery, `operations/recovery.py` | none | recover stuck jobs, replay a dead letter, reset stale rebuilds, backoff, staging cleanup | several transactions of one session over cached rows | a replay never disturbs a live claim |
| Rebuild requirements, `operations/rebuild_orchestration.py` | row of `snapshot_rebuild_requirements`: status, flag `requires_rebuild`, attempts, `next_eligible_at`, `started_at`, mode | request, mark running, succeeded, failed, deferred busy | two dispatchers on one row; lost attempts | status and flag agree; failed means budget spent; nothing is stranded |
| Rebuild dispatcher, `runtime/rebuild_dispatcher.py` | the requirement in hand | select, peek, mark, rebuild, record | second check uses a cached row; crash while RUNNING | a deletion's rebuild is recorded only when done |
| Advisory lock, `core/inventory_rebuild_lock.py` | one lock per tenant and transaction | try | non-blocking: contention is an outcome | rebuilds of one tenant exclude each other |
| Snapshot rebuild, `etl/wb/*inventory*`, `domain/inventory` | live snapshot rows per day | full replay, incremental window with carry-forward | window bounds, openings, rows ingested or deleted meanwhile | incremental equals full replay |
| Stock verification and pages, `domain/inventory`, `services/inventory_*` | none | verify, slow movers, dead stock, intelligence, economics, drilldown | keys with several cards or without a name; each page counts idle days itself | drift is seen; the pages name the same SKUs |
| Retry supervisor, healer, `runtime/retry_supervisor.py`, `runtime/autonomy/healer.py` | none | sweeps over both tables | sweep and dispatcher touch the same rows | see the rows above |
| Orchestrator lease, `runtime/resilience/lease.py` | one lease row with an expiry | try_acquire, release | read then write without a lock; cycles are not bounded by the lease | one process runs cycles; a lease left behind is taken |
| Control plane, `runtime/control_plane`, `scheduling`, `policy`, `health` | schedules, last metrics | run_cycle | stages with thresholds of their own over metrics collected anew | no dispatch on critical health, bounded healing |
| Reliability guards, `runtime/reliability` | breaker states, kill switches | allow, success, failure | one breaker per process, half-open probe | an open breaker holds rebuilds back |
| Enterprise engine, `runtime/enterprise` | none | forecast, decide, plan, execute | overload forbids what it asks for | at most one remediation, once |
| Upload and deletion, `api/reports.py`, `services/report_*_service.py` | report rows, files | create, store file, finalize, delete | crash between steps, repeated uploads, deletion racing a claim | an answered upload has its job and its file; a deletion leaves no trace |
| Persist phases, `etl/wb/persist*.py`, `etl/wb/processor.py` | ledgers, reconciliations, projections | chunks, phase 1, phases 2 and 3, redraw, maintenance script | retries from the first row; redraws without the lock | every row counts once; projections equal the ledger |
| Row semantics and calculators, `parsers/wb`, `domain` | none | classify, build entries and movements, reconcile, aggregate | two formulas for one figure; merging partial results | both agree; the parts add up to the whole |
| Costs, `services/cost_service.py`, `domain/costs` | `cost_history` | create, update, delete, import, look up, refresh | imports read row by row while others write; three look-ups; the refresh is a second transaction | an import twice adds nothing; the look-ups agree; no projection older than an answered change |
| Accounts, `services/auth_service.py`, `services/invite_service.py` | users, `registration_invites`, `password_reset_tokens`, `auth_audit_events` | register, invite, revoke, sign in, change, forget and reset a password | look-ups before inserts, one of them locked; stale rows; e-mails that leave before the commit | an invitation is accepted or revoked once; the audit explains the passwords |
| AI advisory, `ai`, `services/ai_service.py` | runs, insights, recommendations, memory | run, recommend, decide, list | look-up before insert, awaits in between, no lock | spend and copies are bounded; decisions stand |
| Dashboard and analytics, `services/analytics_service.py`, `dashboard_*.py`, `financial_integrity_service.py`, `domain/analytics` | memos of one request | summary, trend, finance, coverage, comparison, reconciliation | several SELECTs at READ COMMITTED between commits; branches share computations and connections; overlapping reports | no report counts twice; the figures of one page agree and add up; every request ends |
| API schemas, storage, frontend | caches, none | read-only or sequential | bounded staleness | - |

How they interact: an upload enqueues a job; a worker claims it, and its persist
phase 1 commits the ledger rows, phase 2 rebuilds the tenant's snapshots from the
report's first day under the advisory lock, phase 3 recomputes aggregates, and the
acknowledgement commits with the result. A deletion removes the ledger rows and
queues a rebuild requirement in one transaction. Orchestrators dispatch requirements
and sweep both tables. A deletion and a change of the costs redraw the projections
of the days they touch, in requests that do not take the tenant's lock. AI requests
read what all of this left and write only tables of their own; dashboards read it and
write nothing. `PROJECT.json` lists every component with its files and the
hazards with the line where each one bites.

## Modules

| module | role |
|---|---|
| `EtlLifecycle` | abstract specification: what the queue promises about one report's job |
| `EtlQueue` | the queue table, the worker loop, recovery, replay by operators; its refinement of `EtlLifecycle` |
| `QueueAndStockProofs` | of `EtlQueue`, theorems of every behaviour, the inductive invariant of calm ones and the refinement; of `StockBook`, shelves that equal a replay, drift that is seen, pages that agree |
| `InventorySnapshot` | pure operators: full replay, incremental window rebuild, bounds on what a snapshot counts |
| `RebuildDispatch` | reports, persist phase 2, deletions, requirements, dispatchers, maintenance; extends `InventorySnapshot` |
| `RebuildDispatchProofs` | what the two rebuilds guarantee for all inputs; the inductive invariant of the snapshots; settled requirements |
| `ReportLifecycle` | upload, a job's transactions, deletion and cost changes, and the projections they draw |
| `ReportsAndCostsProofs` | of `ReportLifecycle`, its inductive invariant in seven parts and what follows from it; of `CostBook`, imports that add nothing twice and readings that agree |
| `WbLedger` | pure operators: what a report row means, and the calculators |
| `WbLedgerProofs` | lemmas about these: the entries of a row are apart, sums over parts add up, profit is the sum over SKUs |
| `ReportLedger` | a tenant's tables with their contents, as streamed jobs, redraws and the maintenance script fill them; extends `WbLedger` |
| `ReportLedgerProofs` | the tables agree with the files, in five parts |
| `ControlPolicy` | pure operators: what the control plane decides from its metrics |
| `Orchestrator` | processes, lease, control-plane cycle, circuit breaker; extends `ControlPolicy` |
| `AiAdvisory` | runs, their spend, recommendations, strategic memory, and the seller who decides on them |
| `OrchestratorAndAdvisoryProofs` | of `Orchestrator`, exclusion of cycles and what a cycle may decide; of `AiAdvisory`, spend, copies and decisions |
| `SellerAdvice` | what the seller is told first: from a period's figures through bullets, ten analysts, the aggregator and the priority engine to three insights |
| `SellerReads` | dashboards and analytics requests between the commits of the others; extends `WbLedger` |
| `WbReading` | how a report file becomes rows: the upload's check, the worker's streaming reader, the second reading by the maintenance script; extends `WbLedger` |
| `CostBook` | the cost records of a tenant: imports line by line, edits, and the three readings of a SKU's cost |
| `Accounts` | registration, invitations and passwords, and what their audit tells |
| `AccountsAndReadsProofs` | of `Accounts`, invitations, passwords and their audit; of `SellerReads`, branches that agree, the selection of reports, numbers of two pages that add up and profits that are exact; of `WbReading`, chunks, readers and the upload's check |
| `FoldLemmas` | sums and largest elements of finite sets, for the proofs |
| `StockBook` | stock with its numbers: several SKUs, cards and warehouses, both rebuilds, the verification, the stock pages |
| `*MC` | instances for TLC |

The modules meet at the job and the requirement. `EtlQueue` has one job with all its
timing and nothing of its content; `ReportLifecycle` has jobs with one owner and
what their transactions leave, cut where requests without the lock can come between;
`ReportLedger` has those transactions whole and the rows in them; `RebuildDispatch`
has the stock side of the same persist phase. `Orchestrator` says when the steps that
`RebuildDispatch` (dispatch) and `EtlQueue` (sweeps) have may be taken, and by how
many processes at once: it justifies that `RebuildDispatch` is checked with two
dispatchers. `SellerReads` has the commits of `ReportLedger` in coarse form (a report is
loaded, finished, deleted; costs change and are redrawn) and takes the readers apart
instead; the sums its surfaces show are those of `WbLedger`. `CostBook` says what the
version of the costs in those modules stands for, and `StockBook` puts quantities and
keys to the snapshots whose concurrency `RebuildDispatch` has. `WbReading` ends where
`ReportLedger` begins: with chunks of rows whose columns are read.

### EtlQueue

State: `job` is the row of `etl_jobs` (`status`, `attempts`, `claimed` for
`claimed_at IS NOT NULL`, `age` = now - `last_heartbeat_at`, `wait` = what is left of
`processing_started_at` when it lies in the future), `report` the column
`reports.status`, `persisted` whether the business result is committed, `worker` the
phase of a worker process with its `ClaimedJobRecord`, `operator` a retry request
with the row as its session first loaded it.

| action | code |
|---|---|
| `Enqueue` | `PostgresQueueBackend.enqueue` |
| `PollRecover`, `Claim`, `ClaimNothing` | one poll of `process_next_job`: `recover_stale`, then `claim` |
| `GuardAllows`, `GuardRefuses` | the containment check after the claim |
| `ParseSucceeds`, `PhaseFails`, `PersistAndAck`, `MarkFailed`, `HookEnds` | the phases, `ack_job`, `_mark_job_failed_or_retry`, the AI hook |
| `Heartbeat`, `Abandon`, `Tick` | the heartbeat task, death of the process, time |
| `RecoverStuck` | `TenantRecoveryService.recover_stuck_processing_jobs` |
| `ReplayRead`, `ReplayReset`, `ReplayRequeue`, `ReplayAbort` | `retry_processing` and the three transactions of `replay_dead_letter_job` |

`ack`, `fail` and `heartbeat` find the row by its id and check no owner, so whether
a worker may outlive its claim is a question of timing. The module has two
specifications: `Spec` (anything may stall, requests may overlap) and `CalmSpec`
(a live worker heartbeats before its claim expires, one retry request per job at a
time). What survives all timing is stated for `Spec`; what depends on it for
`CalmSpec`. `PendingHasBudget` is what breaks between the two (item 2 below).

### InventorySnapshot and RebuildDispatch

A stock level is represented by the set of movements (report, day) it sums up: two
levels that the code computes agree for every choice of quantities exactly when
these sets agree. `Replay` is `FullInventoryRebuildService`, `Rewindow` is the
incremental service: delete the window, load the carried-forward opening from the
latest snapshot before it, replay the ledger over the window. `Covers(s, V)` says
that snapshot `s` counts at least the movements of the reports `V`, `Within(s, A)`
that it counts at most those of `A`.

State of `RebuildDispatch`: `report` says how far a report is (`new`, `ledgered`
after phase 1, `persisting` while phase 2 holds the lock, `live`, `deleted`) and
what its open rebuild read; `snap` is a tenant's live snapshot table; `req` is the
requirement a deletion created (`age` = now - `started_at`, `wait` =
`next_eligible_at` - now); `orch` is a dispatcher with the requirement in hand and
its session's copy of it.

| action | code |
|---|---|
| `Ingest` | persist phase 1 |
| `PersistBegin`, `PersistCommit`, `PersistAbort` | phase 2: lock and ledger read, commit, rollback |
| `Delete`, `AnchoredDelete` | `ReportDeletionService.delete_report`, `request_rebuild` |
| `Select`, `Peek`, `Skip`, `MarkRunning` | `_select_requirement_id`, the transactions of `_execute_requirement` |
| `LockBusy`, `BeginRebuild`, `RebuildCommits`, `RebuildFails` | the rebuild transaction |
| `MarkFailed`, `MarkBusy`, `Crash` | the outcome transactions; death of the process |
| `ResetStale`, `ApplyBackoff`, `DeferOverloaded`, `Tick` | `RetrySupervisor`, the healer, time |

The two rebuilds are the only transactions split into a beginning and an end,
because ledger rows of other reports appear and disappear while one is open. A
rebuild reads the ledger at its beginning.

Copies: the dispatcher's session keeps the row it peeked at, so what `MarkRunning`
writes (attempts, an escalation to a full rebuild) comes from that copy, while
`MarkFailed` and `MarkBusy` follow a rollback, which expires the copy, and act on
the row as it is.

### ReportLifecycle

State: `row`, `job` and `ledger` are a report's rows in `reports`, `etl_jobs` and the
financial ledger (as a number of chunks), `stored` the file store, `doomed` the
background deletions, `costs` a version of `cost_history`, `agg` what a day's
projection rows were drawn from. A projection is not a number here: it is the set of
chunks counted and the version of the costs.

| action | code |
|---|---|
| `UploadFind`, `UploadCheck`, `UploadCreate`, `UploadStore`, `UploadFinalize`, `UploadDies` | `POST /reports/upload`, one action per transaction |
| `Claim`, `StreamChunk`, `PersistBegin`, `PersistDraft`, `PersistCommit`, `JobFails` | a job: chunks, then the completing transaction, cut at its reads |
| `DeleteBegin`, `EditCosts`, `RefreshBegin`, `Purge`, `RefreshCommit`, `DeleteCommit`, `HandlerDies` | `delete_report`, cost changes, `rebuild_projections_for_dates` |
| `RemoveFile` | `_delete_report_file_best_effort` |

Rows deleted by `Purge` stay locked until the commit; a purge that found nothing to
delete locks nothing, and is overtaken. `raced` remembers the days whose last writer
was overtaken in this way: what is claimed of the other days is claimed without
exception.

### WbLedger and ReportLedger

`Entries` and `Movements` are `LedgerBuilder` and `InventoryMovementBuilder` on one
row, whose label stands for the alias tables it has a token of (the finance and the
stock side use different tables in different orders). `Calculate` and `Merge` are
`ReconciliationCalculator` and `_merge_reconciliation`; `Profit` and `UnitEconomics`
are the two day aggregations; `UnitCost` is the cost look-up. Columns that are empty
are told from columns that hold 0, as in the code.

| action of `ReportLedger` | code |
|---|---|
| `Begin`, `PersistChunk`, `ParseEnds`, `Stop` | `stream_process`, `_persist_phase1_chunk` |
| `Persist` | `_validate_before_persist`, `_persist_phases_2_3`, `ack_job` |
| `EditCosts`, `Refresh` | `cost_service`, `rebuild_all_financial_projections` |
| `ScriptReads`, `ScriptWrites`, `ScriptDies` | `scripts/rebuild_financial_projections.py` |

### ControlPolicy and Orchestrator

`lease` is the lease row with the time left, `proc` where a process is and what it
read there, `breaker` its circuit breaker.

| action | code |
|---|---|
| `Start`, `Started`, `StartDenied` | `run_orchestrator`: `try_acquire`, read and write apart |
| `Renew`, `CycleBegins`, `CycleDenied` | the renewal at the head of `run_cycle` |
| `Heal`, `Enterprise`, `DispatchNothing`, `Dispatch`, `RebuildEnds`, `CycleRaises` | the stages of `RuntimeControlPlane` |
| `Release`, `Released`, `Crash`, `Tick` | shutdown in its two steps, death, time |

A cycle may take any time: nothing in the code ties it to the lease. `late` and
`overtaken` remember which processes outlived their lease or lost the row to a write
that rested on an older reading.

### AiAdvisory

`slot` is a request being served, `spend` the recorded cost per day, `recs` the
rows of `ai_recommendations` in order of insertion, `memory` the copies of a summary
in `ai_strategic_memory`, `client` what a session of the seller has loaded.

| action | code |
|---|---|
| `Begin`, `CheckBudget`, `Call`, `Draft`, `Complete`, `CompleteStream`, `Fail`, `Die` | `AIOrchestrationService` around `AIAnalyticsEngine.execute` |
| `LookUp`, `Unbound`, `Store`, `Recall`, `Remember` | `AIIntelligenceEngine`, `StrategicMemoryStore.remember` |
| `LoadToDecide`, `Decide`, `LoadToList`, `List` | `update_recommendation_workflow`, `list_recommendations` |
| `TimePasses`, `Midnight` | time |

### SellerAdvice

One composition of advice, stage by stage: `figures` (what the tables hold, with the
signals computed from it), `told` (bullets and headline), `findings`, `insights` (the
findings that are left, by rank), `items`, `lead`.

| action | code |
|---|---|
| `Ask` | `AIService._build_period_insight_bundle`, the reads |
| `Tell` | `build_deep_period_insights` with `build_causal_comparison`, `build_governed_analyst_signals` (`Signals`), `build_inventory_intelligence` (`Warehouse`) |
| `Analyse` | `run_domain_analysts`: one operator for each analyst |
| `Aggregate` | `ExecutiveIntelligenceAggregator.aggregate` |
| `Collect`, `Pick` | `collect_structured_insights`, `pick_executive_lead` |

The code decides by looking for words in the sentences it has written. A sentence is
modelled as the set of the words it is asked about (`says`), and `TextOf` tells which
sentences are equal. `LeadIsBalanced` relates the two ends: what the figures are, and
which insights lead. It rests on the order of many weights (the confidence of a drop
against that of a headline, the points for its action, its own sentence, the eight
points stock must be ahead by), on the findings that come back after the aggregator
has suppressed them, and on the order of domains.

### SellerReads

`loaded`, `done`, `costs` and `drawn` are the tables a reader meets: reports whose
entries are committed, reports that count as processed, `cost_history`, and for each
projected day what its rows were drawn from (the sums follow from that). `page` is a
request with the connections the pool has left for it, `branch` what the SELECTs and
awaits of each part returned, `task` the computations that parts share.

| action | code |
|---|---|
| `Load`, `Finish`, `Delete`, `EditCosts`, `Refresh` | the commits of a streamed job, `delete_report`, a cost change and its redraw |
| `Ask`, `Connect` | `DashboardService.summary`, `_run`; or the handler of one analytics request |
| `SelectOwn` | a SELECT of `execute_with_rls` on the branch's own session |
| `StartTask`, `RunTask`, `Await` | `DashboardQueryCache`: `create_task` under the lock, its SELECTs, its awaiters |
| `Fail` | a SELECT that raises; `asyncio.gather` fails the request |

`Program` lists for each part its SELECTs and shared computations in the order of
the code: `revenue_summary`, `revenue_trend`, `financial_summary`, `coverage`,
`CostCoverageService.analyze`, `reconcile`, `period_compare`. The answers are computed
from what was read (`RevenueProfit`, `TrendProfit`, ...), so a property about them is
a property about reads at different times. `Delete` redraws from a ledger that still
holds the report (item 3 below), and the properties name what follows from that.

### WbReading

A file is its sheets of cells; `file` goes through three readers, one after the other.
`Holds` gives each name the aliases and markers it contains, so that scores are
computed as in the code, length of the alias included. `sums` is what
`WbStreamChunkIterator` carries from chunk to chunk.

| action or operator | code |
|---|---|
| `Upload`, `Accepted`, `FrameTable`, `FrameRows`, `Shift` | `validate_report_file`, `load_file_to_dataframe` with what `pd.read_csv` does of wide lines, the parser of frames |
| `Locate`, `Located`, `HeaderRow`, `Signature` | `locate_wb_table` and the scores of a header row |
| `ReadRow`, `HandOver`, `Ends`, `Stop`, `Added` | `iter_wb_normalized_rows`, `WbStreamChunkIterator`, `process_wb_streamed` with both looks for a shutdown, `merge_stream_state` |
| `Score`, `ColumnMap` | `_column_match_score`, `resolve_column_map` |
| `Reread` | `canonical_from_raw_payload`, which gets the row's keys in the order of JSONB |

The readers do not agree on every file, and the properties say field by field where they
may part. `ReadersAgree`, between stream and script: a field for which two columns tie
may be read from the other one (the export of `tests/` has such a pair, item 29 below),
and a date pandas reads the other way round, or a number in a column of dates, gives another
day; nothing else may differ. Between stream and frame: the same dates, and texts in a
column of numbers with gaps, where 7 becomes 7.0; and only if both find one header, its
names are distinct and no line of a .csv moves them. `UploadForetells` has two exceptions,
both of a .csv: one all of whose lines are blank cells is accepted and then refused by
the worker, and one with a line wider than its header may be turned away although the
worker could read it. Wide lines are modelled as pandas takes them: what the *first* line
has more than the header becomes the index and moves every name to the right (`Shift`),
which the parser allows if that is one column of numbers; a later line that is wider still
raises. Without any
one of the exceptions TLC finds the run violated; that both find one header is what makes
two tables comparable at all.

### CostBook

`book` holds the rows of `cost_history`, `session` a request being served: an import
with the line it is at and the objects it has added, or a read row about to be
deleted or edited. `Aliases` is the table of column names and `Column` its search;
`Read` is what one line turns into, blanks and all.

| action | code |
|---|---|
| `StartImport`, `ReadLine`, `CommitImport` | `bulk_import`, `bulk_import_v2` |
| `Create`, `GetCost`, `DeleteCost`, `UpdateCost` | `create_cost`, `delete_cost`, `update_cost` and the read before them |

`UnitCosts`, `CostsAsOf` and `ListedCosts` are the three ways to ask what a SKU costs
on a day: `build_cost_lookup` with `unit_cost_on_date` (projections),
`_unit_costs_as_of` (stock pages) and `filter_costs_as_of` (the list). Each returns
the set of answers the code may give. Both properties name conditions, and each
condition is necessary: without it TLC finds a counterexample (two rows of one SKU and
day, names that differ in case only, sums finer than the column that keeps them).

### Accounts

`account`, `invite`, `link` and `audit` are the rows of `users`, `registration_invites`,
`password_reset_tokens` and `auth_audit_events`; `mailed` holds the links that left by
e-mail, which need not be committed; `request` is a transaction with what it has read.

| action | code |
|---|---|
| `AskToRegister`, `Consume`, `FindAccount`, `Register` | `POST /register`: `consume_token` (`FOR UPDATE`), the look-up, the inserts |
| `AskToInvite`, `CheckNobody`, `CheckNoInvite`, `MintInvite` | `create_invite`, against the unique index of its table |
| `AskToRevoke`, `CheckPending`, `Revoke` | `revoke_invite`, against the check of its table |
| `SignIn`, `AskToChange`, `ChangePassword` | `authenticate`, `get_current_user`, `change_password` |
| `Forget`, `KeepLink`, `AskToReset`, `CheckLink`, `ResetPassword` | `request_password_reset`, `reset_password_with_token` |
| `Die`, `Tick` | a request that is rolled back; time |

Only the registration locks the invitation it looks at. That the other requests cannot
contradict it rests on two constraints of the schema (`Open`, `Spent`), which the
models of the application do not declare. `AuditExplainsPasswords` names what a reset
link does not keep: requests with one link that overlap (item 36 below).

### StockBook

`table` holds the rows of `warehouse_stock_snapshots`, `loaded` for every report the
act that loaded it (its movements' `created_at`), `owed` a rebuild that a deletion
requested, `gone` the reports deleted since. The order of the stream is that of
`Position`, the columns of its ORDER BY; `Ahead` compares them and `Groups` are what
`stream_grouped_by_key` yields of it: a card's movements as far as no movement of
another card is between them. `Draft` is `_rebuild_key`, `Written` the upsert (of two
rows of a place the one of the later group stays), `Carried` and `Kept` the
carry-forward, `Promotes` the constraint the promotion of the staging table meets.

| action | code |
|---|---|
| `Load` | persist phase 2: `InventorySnapshotRebuildService.rebuild` |
| `Delete` | `delete_report` on the stock side |
| `DispatchIncremental`, `DispatchFull` | `RebuildDispatcherService` in either mode |

`Drifted` is `verify_full`; `IdleFor`, `Intelligence`, `Overstocked` and `Drilldown` are
the pages. Names are `Null` in the ledger and empty in the snapshots, as in the code.

## What the models abstract from

* One transaction is one step, except as said above. The database is READ COMMITTED;
  rows that are written under conflict are locked until commit, so a later writer
  sees them.
* Timestamps are ages and waits that a `Tick` moves; ages saturate one above the
  timeout they are compared with. Both sweeps compare with `>`.
* `claim` may take any eligible row: `SKIP LOCKED` passes over rows that other
  transactions hold, so the (size, age) order promises nothing.
* Kill switches, the circuit breaker and the dispatch throttle only keep a cycle
  from starting; they are in `Orchestrator`, and a step not taken in
  `RebuildDispatch`. Tenant containment is a free choice in `EtlQueue` and left out
  elsewhere, where it too only skips a step.
* `JobStatus.FAILED` is never written (the branches of `fail` before it are
  exhaustive) and `RebuildOrchestrationStatus.QUEUED` is overwritten before it is
  flushed. Both are left out. `mark_failed` for unsupported semantics is the same
  transition as for a failed rebuild, and every requirement asks for the supported
  version "1.0".
* `replay_dead_letter_job` is modelled with `reset_attempt_counter=True`, as its only
  caller passes it.
* One stock key (sku, nm_id, warehouse) per tenant: the services treat keys one by
  one. A report with stock movements has financial ledger rows too; a deletion
  without any requests no rebuild and is left out (listed as a hazard).
* Requirements have one priority: there is one requester, the deletion. The oldest
  `BatchSize` flagged rows are read and eligibility is looked at after that, as in
  the code.
* Metrics are a free choice within a cycle (`SomeMetrics`): each stage collects them
  anew and other processes work between two collections.
* In `ReportLedger` amounts are integers and quotients (margin, rates, ROI) are left
  out; transactions that redraw are atomic, because `ReportLifecycle` takes them
  apart; two cost records of one SKU do not begin on the same day, as the code does
  not say which of the two would count (named in `LedgerAssumption`).
* In `AiAdvisory` money is counted in units, an answer is one of a few contents and
  texts, and gates that refuse a request before it has written anything are a request
  that does not begin.
* In `WbReading` texts are words and amounts numbers: how "1 234,50" becomes a number
  is left out, and so are .xls files. `ReportLedger` takes columns as read, and its
  script reads the same columns again.
* Of wording, `SellerAdvice` keeps the words the code searches for; the scoring is exact,
  in whole units. SKUs of equal figures, whose order the database does not tell, are
  ordered by number. Prompts are left out.

## Runs

| run | specification | instance | shows |
|---|---|---|---|
| `queue_calm` | `CalmSpec` | 2 jobs of 2 tenants, 2 workers, 2 retry requests, 2 attempts | with punctual workers and lone replays: one owner per job, results final, every queued job settles, and the queue implements `EtlLifecycle` |
| `queue_any` | `Spec` | the same, 1 request | whatever stalls or overlaps: a job is completed and a report shown as processed only with a result |
| `rebuild_any` | `AnchoredSpec` | 3 reports that overlap on 3 days, 2 orchestrators, 2 attempts | no movement is lost, a quiescent tenant equals the full replay |
| `rebuild_lone` | `FairSpec` | 2 deletions, 1 orchestrator, a report that persists twice | terminal rows stay, nothing with budget is stranded |
| `report_any` | `Spec` | 3 uploads (two of one file), 3 report identities, 2 workers, 1 handler, 2 days | jobs have their files, answered uploads have jobs, finished jobs stay; completed reports are counted in full and at current costs on every day whose last writer was not overtaken |
| `ledger_any` | `Spec` | 5 pairs of reports with rows of every kind, chunks of 2, 2 attempts, 1 cost change, 1 script run | each row counts once in the ledger, the movements and the sums; the builders agree; days are the sum of their SKUs; completed reports are drawn |
| `orchestrator_any` | `FairSpec` | 2 processes, TTL 2, 5 metrics, 5 settings, 1 stop | when two cycles overlap, what a cycle may dispatch and heal, the breaker, and that a lease left behind is taken |
| `advisory_any` | `BothSpec` | 2 requests and 2 seller sessions at a time, 4 contents of one report, 4 acts, 2 days; before that, one composition of advice from 2 664 sets of figures | how far spend passes its cap, how many copies there can be, when a decision is lost; that a fall of revenue or profit leads the advice, beside at most one insight about stock |
| `reads_any` | `Spec` | 4 reports that overlap, nest, repeat and adjoin, 2 cost tables, 6 requests of one or two parts, 2 commits or failures | canonical reports cover each candidate once; the parts of a page agree; trend, summary and reconciliation add up; a profit that is shown is exact under named conditions; every request ends |
| `costs_any` | `BothSpec` | 4 names, 4 files, 2 sessions, 3 requests; or 2 visitors, 2 addresses, 2 invitations, 1 link, 2 passwords, 5 requests | importing a file again adds nothing; projections, stock pages and list take the same cost; an invitation is accepted or revoked once and for its address; the audit explains the passwords |
| `stock_any` | `StockSpec` | 4 reports with 13 movements, 3 SKUs, 2 warehouses, 7 acts | shelves equal a replay, drift is seen, the pages name the same idle SKUs |
| `reading_any` | `ReadingSpec` | 7 tables in workbooks and .csv files of 16 shapes, and three of them without one or two of their columns; chunks of 2 | the chunks are invisible, the three readers agree up to named fields, the upload foretells what the worker does but for two kinds of .csv, no amount is entered twice |

### The bounds, and why they are enough

* `MaxAttempts = 2` has a first, a last and a spent attempt, and the boundary between
  them. The default of 3 adds a second middle attempt that behaves as the first.
* `VisibilityTimeout = 1`, `StaleAfter = 0`: one or no tick in which a claim is fresh
  and then the tick that makes it stale. `RetryBase = 1` with `RetryCap = 2` gives a
  delay below and one at the cap; in `rebuild_any` the cap is 1, because its
  properties do not depend on delays.
* Two workers and two requests: every hazard here is between a holder of a claim and
  one other actor. Two jobs show that the sweeps and the refinement keep rows apart.
* `MaxReplays` bounds the retries that operators start; without it a dead letter
  could be revived forever and nothing would be said about settling.
* In `rebuild_any` report `b` spans the days around `c` and starts with the anchor
  `a`, so windows start before, inside and after the others; `a` and `c` are
  anchors, `b` can be deleted at any time, and its requirement can be held by both
  dispatchers. Proofs (below) cover every other instance.
* `PersistAttempts` bounds how often a report's phase 2 begins, as the budget of its
  ETL job does.
* `created` grows by one per deletion and is bounded by the number of reports.
* `report_any`: three uploads are two that race for one file and one of a file that
  shares a day with it. Two workers and one handler have every pair of writers of a
  day; two handlers wait for each other's row locks. One chunk and one attempt are
  enough for a partly written ledger (none or all) and a failed job; `ReportLedger`
  has two of each. `MaxEdits = 1` tells old from new costs.
* `ledger_any`: `MCBooks` has rows of every kind that the builders tell apart,
  including columns that hold 0, missing SKUs and dates, a date that reads
  differently again, a SKU with an internal mapping, and reports of one and of two
  chunks. Two attempts repeat every chunk; one script run can fall before, between
  and after the chunks.
* `orchestrator_any`: TTL 2 has a fresh and an expiring lease; the metrics lie at and
  beyond every threshold; the settings throw one switch each. `Threshold = 1` opens
  the breaker at once, so that its whole cycle fits. One stop is a crash, a shutdown
  or a cycle that raises.
* `advisory_any`: `DayCap = RunCap = 1` makes the first cost reach the cap,
  `MaxCost = 2` passes that of a run. Two slots and four acts have two overlapping
  runs and a third one, or two runs and two sessions. Two days have one midnight.
  The figures of the advice are three SKUs that rose or fell in volume, price, margin,
  freight, commission or returns, against a period that was better, worse, smaller or
  empty, with every trust in the costs and six warehouses; every finding and every domain
  of a bullet occurs, drops are found together and apart, and findings are suppressed.
* `reads_any`: two commits are enough to tear any request (a report appears and one
  goes, costs change and are redrawn), and a failure and a commit to mix them. The
  four reports have every relation the selection tells apart; `next` has a row that
  belongs to a day of another report. Each page holds the parts that one of the
  properties compares, with one connection less than parts wherever that can block.
* `costs_any`: three requests are two overlapping imports and one writer, or an import
  repeated after another. The files differ from each other in one amount of a SKU and
  day, hold a SKU twice, blank cells of each kind, a name of the marketplace and sums
  with half a kopeck.
  The accounts share no row with the book, so a behaviour is one of the book or one of
  the accounts. Two visitors are the two sides of every race, five requests an
  invitation, two registrations and a new invitation, or a registration, a request for a
  link and two resets; two lifetimes and one tick have an invitation that expires while
  another is open.
* `stock_any`: the reports fall before, into and after each other's days, one has a
  second card of a SKU in the same warehouse, one rows without SKU or warehouse. Seven
  acts load all four, delete two and rebuild. The days 10, 40, 71 and 100 are a slow
  and a dead interval apart; the periods begin before, on and after sales.

* `reading_any`: the tables are the 25 columns of the export under `tests/` that a field
  could be read from, with the columns that contain each other's aliases and the two that
  tie, one with the names of the second format and one with English names, a name given
  twice, a number and an unclear day in a column of dates, a table of no format and one
  without rows. The shapes put titles, cover sheets, empty sheets, an active sheet that is
  not the first and blank rows around them, and make of the lines of a .csv, of the first,
  of the first and the last or of all, wider ones, by one cell or two, so that pandas
  raises, takes an index or leaves the names. The three headers come also without any one
  and without any two of their columns, since a field without its own column may be read
  from another's. Five rows in chunks of two have a full, a second and a last, partial
  chunk; four rows are searched for a header.

Deadlock is allowed where the system really stops: in the rebuild, report, ledger,
advisory, reads, costs, stock and reading runs inputs are finite, and once they are used up nothing is left to do. In
the queue and orchestrator runs time always passes, so deadlock is checked.

Every property of a passing run has a mutant in `PROJECT.json`: a form of a modelled
definition, with a bug such code could have, under which the run must report that
property violated. These forms stand before the definition they replace and are
marked "Mutated".

## Fairness

Queue (`CalmSpec`): a worker takes its next step (weak fairness of `WorkerStep`):
the loop of `run_worker` polls for ever and every phase ends. Time passes (weak
fairness of the punctual tick). `Claim` is strongly fair: a worker polls again after
each idle round, and one that keeps dying does not die every time between its sweep
and its claim. Nothing is promised of heartbeats, crashes, uploads, tenant recovery
or operators, and none of them is needed for a job to settle.

Rebuild (`FairSpec`): time passes, open persist transactions end, and a dispatcher
records its outcome (weak fairness: PostgreSQL rolls back the transaction of a dead
session). `Select`, `Peek`, `MarkRunning` and `ResetStale` are strongly fair: each
cycle runs the sweep and one dispatch, these steps are disabled again and again by
delays, by other requirements and by crashes, and a crash does not come every time
at the same step. `RebuildCommits`, `RebuildFails` and `Crash` share one weak
fairness: a rebuild ends in one of the three ways, and no success is assumed. What
holds is therefore that a requirement is rebuilt or ends with its budget spent.

Orchestrator (`FairSpec`): time passes and a process takes its next step (weak
fairness): its loop has only timed waits, and a container that ended is restarted
(`restart: unless-stopped` in `docker-compose.yml`). Nothing is promised of signals,
crashes and cycles that raise; their number is bounded by `MaxStops`, and after the
last of them a lease nobody renews runs out.

Reads (`Spec`): a request takes its next step (weak fairness of `Progress`): SELECTs
return or raise, a free connection is given to a waiting branch, and the event loop
resumes whoever awaited a finished task. Nothing is promised of the writers.

`ReportLifecycle`, `ReportLedger`, `AiAdvisory`, `CostBook`, `Accounts`, `StockBook` and `WbReading` state no
fairness: every request may die at every step, and nothing in the code takes its work up again except a
retry by its client.

## Proofs

All theorems are checked by TLAPS for any sets of jobs, workers, operators, tenants,
reports, files, movements, days, processes, requests, visitors and costs, and any
values of the numeric constants. What they assume of the constants stands as an `ASSUME` in the
module that declares them, and TLC evaluates it in the runs:

* limits and bounds are natural numbers, positive where the code divides or counts
  down by them; `None` and its like are not values of the kind they stand for
  (`ConstantsAssumption`, `DispatchAssumption`, `ReportAssumption`,
  `OrchestratorAssumption`, `PolicyAssumption`, `AiAdvisoryAssumption`,
  `AccountsAssumption`, `SummedAssumption`, `ReadsAssumption`);
* a non-empty set of days has a first and a last day, as every finite set of dates
  has (`SnapshotAssumption`; of the days of the cost book only the last,
  `CostBookAssumption`);
* a file is a sequence of lines, its dates are days where they parse
  (`FilesAssumption`), its amounts whole numbers of the smallest unit
  (`BooksAssumption`); in the tables of costs a SKU has one record for a first day
  (`LedgerAssumption`): no constraint of the schema says so, and which of two the code
  would take is left open there; twins are the subject of `CostBook`;
* the requests served at once are finitely many (`AiAdvisoryAssumption`), and so are
  the reports, no two of which were uploaded at one place in the order, and which have
  both ends of a period or none; days are integers, and a report holds finitely many
  entries of the shape that reading a row gives (`RowEntries` of `WbLedgerProofs` proves it of `Entries`: a
  revenue is above 0, a charge never is), without quantities, as the projections load
  them; a page is made of the seven parts there are, and only
  dashboards have more than one (`ReadsAssumption`);
* the movements are finitely many, have natural numbers for days and for the
  names in the order of the database, and are told apart by report and row
  (`StockBookAssumption`);
* a file is sheets of rows of cells, a cell that is a word has a name that is known,
  and the order of JSONB is a numbering of the names (`ReadingAssumption`); scores are
  natural numbers, as lengths are (`ScoresAssumption`: the provers know nothing of the
  length of a string);
* backoffs are natural numbers (`BackoffAssumption`, `RebuildBackoffAssumption`):
  exponentiation is outside the arithmetic of the provers.

| theorem | module | says |
|---|---|---|
| `TypeCorrect`, `CompletedJobsHaveResults`, `ProcessingJobsAreRecoverable` | `QueueAndStockProofs` | invariants of `Spec`, whatever overruns |
| `CalmInvariant` and its corollaries `CalmExclusive`, `CalmBudget`, `CalmFinal`, `CalmBuried` | `QueueAndStockProofs` | `CalmInv` is inductive; one owner, budget, finality, dead letters only after the whole budget |
| `CalmImplementsLifecycle` | `QueueAndStockProofs` | every calm behaviour is one of `EtlLifecycle` |
| `IncrementalAgreesWithReplay` | `RebuildDispatchProofs` | incremental and full rebuild of a ledger yield the same snapshots |
| `SnapshotsBounded`, `TypesKept`, `NothingIsLost`, `GhostsStayOwed`, `QuiescenceIsExact` | `RebuildDispatchProofs` | `SnapshotInv` is inductive, and what follows from it |
| `SettledRowsStay` | `RebuildDispatchProofs` | with one orchestrator, a settled requirement is left alone |
| `OrchestratorTypeCorrect`, `CyclesExclude`, `CyclesAreGoverned` | `OrchestratorAndAdvisoryProofs` | two cycles overlap only by an outlasted or overwritten lease; a cycle acts by the policy |
| `Invariance`, `TypeCorrect`, `AnsweredUploadsAreServed`, `FinishedStays`, `CompletedStaysCounted`, `CostStaysCurrent` | `ReportsAndCostsProofs` | `IInv` is inductive, and what follows for uploads, finished jobs, projections and costs |
| `TypeCorrect`, `LedgerStaysWhole`, `CompletedStaysDrawn`, `SumsStayWhole`, `BuildersStayAgreed` | `ReportLedgerProofs` | ledger, days, reconciliations and SKUs say what the files say |
| `TypeCorrect`, `DecisionsStand`, `SpendStaysBounded`, `CopiesStayBounded` | `OrchestratorAndAdvisoryProofs` | decisions are not overwritten; spend and copies are bounded by the requests served at once |
| `TypeCorrect`, `Invariance`, `InvitesStayHonest`, `PasswordsAreExplained` | `AccountsAndReadsProofs` | invitations are used once, the audit explains passwords |
| `BookTypes`, `ImportsAddOnce`, `SurfacesStayAgreed` | `ReportsAndCostsProofs` | the cost book: a file imported again adds nothing, three readings agree |
| `StockTypeCorrect`, `ShelvesStayReplayed` | `QueueAndStockProofs` | a shelf of one card that no deleted report touched has the snapshots of a replay, whichever rebuilds ran |
| `DriftIsAlwaysSeen`, `PagesAlwaysAgree` | `QueueAndStockProofs` | a table without drift is right on such shelves; four pages name the same idle SKUs |
| `OneTruth`, `SelectionCovers` | `AccountsAndReadsProofs` | the branches of a dashboard agree; the reports selected cover the candidates, each once |
| `SurfacesStayEqual` | `AccountsAndReadsProofs` | the trend adds up to the summary, the reconciliation's two sides to each other |
| `GovernedStaysExact` | `AccountsAndReadsProofs` | a profit that passes the gate is what processed reports and the costs of now say |
| `ChunksAreInvisible` | `AccountsAndReadsProofs` | no row is lost or held twice, and what is carried from chunk to chunk is what all rows at once would give |
| `UploadsForetell` | `AccountsAndReadsProofs` | the upload accepts what the worker can read, and nothing else, but for .csv files of blank cells and of wide lines |
| `ReadersStayAgreed` | `AccountsAndReadsProofs` | stream, frame and rereading give the same rows, but for the fields named above |

**The queue.** `OneOwner` is not inductive: a sweep could requeue the job of a busy
worker. `CalmInv` adds that the claim a busy worker holds is the row's current one
(`ClaimIsCurrent`) and still fresh (`ClaimIsFresh`), so no sweep finds it stale, and
that a replay in progress holds a DEAD_LETTER row alone (`ReplayHoldsRow`), so that
it never writes over a claim. The proof has one step per action. The refinement maps
the attempts of a dead letter to the full budget, which hides the counter reset that
a replay commits before it requeues.

**The snapshots.** `QuiescentIsExact` is far from inductive. `SnapshotInv` keeps a
tenant's snapshots between two bounds: they cover what processed reports moved
(`NothingLost`) and stay within what unfinished reports and flagged deletions may
still contribute (`GhostsAreOwed`). For the commits to respect the bounds, the
ledger an open rebuild read must still be a valid basis (`ReadsAreBases`), which is
what the advisory lock is for (`LockExcludes`), and the read of a dispatched rebuild
must lack the deleted report. `PersistBounds` and `DispatchBounds` then say what one
rebuild does to the bounds, from lemmas about `Rewindow`: its window reaches past
every snapshot (`RewindowShape`), its opening counts everything before it
(`OpeningCovers`) and nothing foreign (`OpeningSources`). When nothing is unfinished
or owed the bounds meet, and between equal bounds there is one snapshot
(`BoundsAreExact`).

*Anchored deletions.* The theorems about snapshots are about `AnchoredSpec`: a report
may be deleted while some report that starts no later stays in the ledger. Without
that the code does leave stock of deleted reports behind (item 5 below).

*Settled requirements.* `SettledInv` adds to the rows what the orchestrator has in
hand: a row it is about to mark still waits and one it works on is RUNNING
(`HandIsHeld`), and a row that failed has no attempt left (`RowIsSettled`), so no
sweep takes it up again. With two orchestrators `HandIsHeld` is false, and so is
`SettledStays`.

**The lease.** `FreshHolds`: whoever is in a cycle, and neither outlasted its lease
(`late`) nor lost it to a write made from an old read (`overtaken`), has its name on the
one row, with time left. It is not inductive alone: the write of a process that lost the
row without knowing it could make the cycle of the row's holder look fresh again, so
`ExpiredIsLate` adds that a holder whose lease ran out within its cycle is marked. `CyclesKeepPolicy` is proved for each
process alone (`Governed`), from lemmas on `ControlPolicy`: a plan made under an
overload heals nothing (`PlanIsNarrow`), so a cycle runs the healer once for the
drift and once for itself.

**The life of a report.** `IInv` has seven parts. `TypeOK`, `References`, `Identity`
and `Served` say that rows, jobs, files and ledgers refer to what is there; paths are
made of the report and the name, so no background delete takes the file of another
report away. `Ownership`: one worker has a job and one worker holds the projection
lock, unless the report is gone. `Counting` and `Costing` are about drafts, not about
tables: what a worker is about to write counts every completed report in full and has
the costs of now - or its holder is marked as overtaken (`raced`) - and the days that a
refresh of the costs will not write were drawn from costs as new as its change.
`CompletedIsCounted` and `CostIsCurrent` follow when a draft is written.

**The ledger and the tables.** Five parts, each proved upon the ones before. `Shapes`
are types. `LedgerInv`: every entry says what its stored row means, each stored row that no
script swept has all its entries, and what a running script has not seen is swept;
entries and movements are unique by the key their upsert conflicts on, which
tells the entries of one row apart (`Entries` makes no two with one key). The days:
what was last drawn holds every entry of a completed report. `IsSummed`: a job's
running sums are those of the rows it has read, and what it expects is short of the
compensations after the first chunk is merged, as in the code. `TablesInv`: each day was
written whole, by one drawing, from one set of entries with one set of costs, so that
`BuildersAgree` becomes a statement about the calculators: that the profit of a day is the
sum over its SKUs and the entries that have none (`SumGroups`).

**The advisory.** `Loaded`: what a session has loaded is what the row still says unless
another session has changed it since, which `stale` records; so `DecisionStands` fails
only on rows last written from a stale session. `SpendInv` charges to each
request past its cap a full run in advance; to a past day also the requests that were
begun on it and are held against the cap of a later one. `CopiesInv` counts with the
copies the requests that found none and are about to write one.

**Accounts.** `IInv` ties tables and audit together. Who registers with an invitation
holds its row, alone, and it is good (`Held`); the audit tells of every invitation used or
revoked, once, and of no other (`InvitesTold`); an address has one that is open
(`OneOpen`); the audit's last word on an account is its password
(`PasswordsSet`); and who read a link that was since used began before that
(`LinksSpent`), so only overlapping requests use one twice.

**Costs.** `ImportInv` follows an import of the file imported last while nobody else
writes: it stays alone, what it has read is in the book or among what it
will add, and every line of a file that was committed has a twin in the book, so
the same file finds nothing to add. `SurfacesAgree` is no matter of steps: it follows
from the types of the book for a SKU whose name is taken for no other's.

**Reads.** `ReadsInv`: a branch has of every shared task what the finished task has
(`Sharing`), which alone gives the agreement of the branches whatever is committed
between their SELECTs; and while nothing has been committed, what a branch read itself,
and what the tasks of KPIs and trust read, is what a SELECT would read now (`Current`),
so that the coverage page, which does not share, agrees as well. `Programs` says at which
place each part asks what.

**Numbers that add up.** By `Current`, `SurfacesAddUp` and `GovernedIsExact`
become statements about the tables (`TrendReads`,
`ReconcileReads`, `KpisAreNow`). `TablesInv` says what the tables hold: a projected day
was drawn from reports that exist and have entries on it, at costs of the costs' history
(`DaysAreDrawn`); every processed report with entries on a day is among the ones that
the day was drawn from (`DoneIsDrawn`); and unless a redraw is owed, days drawn from
processed reports alone were drawn at the costs of now (`CostsAreDrawn`). Here a
deletion is the hard step: it redraws from a ledger that still holds the report. What
remains are sums over one set of entries, parted in two ways: by days (`SumParts` with
`TotalByDay`, `PaidByDay`, `GoodsByDay`, `CogsByDay`) and, within a day, by SKUs
(`DayAddsUp`). The magnitudes `abs()` takes of charges are their amounts negated, because
no charge is above 0 (`MagnitudesSum`, `ChargesBelow`); were one a credit, the
reconciliation would not add up. The proof showed that `GovernedIsExact` needs no SKU to be
costed, a sale before its cost began counting at none on both sides (item 25 below), but
needs the reports whose goods were returned in the period to be counted as well: a report
with nothing but returns there has no projected day and counts for nothing.

**The selection.** `Before` is a strict total order of the reports with a period
(`BeforeOrders`), so a report's place is one more than the number of reports before it,
and the sorted list exists (`OrderExists`, by these places). The loop that keeps or
drops each report in turn exists as a function (`KeptExists`) and keeps
at every step a cover of what it has gone through, none of it within another
(`KeptIsCover`): a longer report comes before those within it, the last uploaded
before its copies.

**Shelves.** `ShelvesAreReplayed` is inductive with the types alone, because it
is about the ledger as it stands: a load moves the truth of a shelf from the first day
of the report on, and the rebuild rewrites the days from there. The stream is sorted by
SKU and warehouse before anything else, so movements of one card that have a shelf for
themselves are never parted and make one group, whatever else the ledger holds.
Its rows below the window are those of the ledger before the load, and the last of them
carries just the stock at which the window opens; where there is none, the movements
before the window are kept and replayed from nothing. A deletion moves the truth
without writing: it puts all shelves of the report into `gone`, out of the
statement, and only the full rebuild empties `gone`. Shelves of several cards are out
of it too: their groups may overwrite each other's rows (item 26 below). `DriftIsSeen` does not rest on
these invariants but on the replay of the verification, which groups by card.
`PagesAgree` is arithmetic on days: it needs that snapshots are of days from 0 on.

**The reading of files.** Every cut into chunks is another behaviour of `WbReading`, so
what holds of the sums after any of them holds of all. `ReadingInv` has three parts: the
reader stands below a header that is there (`Placing`), the rows it has read are
numbered from 0 on (`Numbering`), and `sums` tells of the rows handed over what
could be told of them at once (`Telling`). The step that matters is `HandOver`
(`AddedTells`): because rows are numbered apart, their entries are apart (`RowsJoin`),
so sums over both chunks add up (`SumsJoin`), and the first day of each shelf is the
earlier of two (`FirstsJoin`). What is expected to be paid is left out of `Telling`, as
`ChunkingIsInvisible` leaves it out: the code loses the compensations there. That no row
is lost comes from `Covering`: what was handed over and what is in the chunk are together
exactly the rows with data below the header that were passed, in their order.
`Foretelling` says that a file being read was accepted, and that as long as no row
was found there is none between the header and the place the reader is at.
`UploadsForetell` needs beside that what a .csv without wide lines is: its names do not
move (`UnshiftedIs`), so the upload accepts it (`NotShifted`).
`ReadersStayAgreed` has two halves. For the stored rows: a JSONB object comes back in
some order of its keys (`KeysAre`); in every order the column of a field has the highest
score among the same names, so it is its own or one that ties, and under each name the
cell is stored that the stream took (`RawIs`, `ReadAgain`). For the frame: by `Covering` the
stream has read exactly the rows with data, the lines of the frame can be numbered in
theirs (`FrameDataIs`), a row has in both the number of rows with data before it, and
without a shift distinct names are the frame's names too (`FrameIs`).

**Sums.** The library's induction takes its hypothesis as an operator, which the
provers here cannot instantiate. `FoldLemmas` has a smallest counterexample instead
(`Minimal`: among finite sets one has no other below it) and derives what a fold
computes: that it exists, unfolds at any element, splits, and sums by groups.

Only model-checked:

* the liveness properties `EventuallySettled`, `EventuallyRebuilt`,
  `LeaseIsRecovered` and `EveryoneIsAnswered`: reasoning about fairness and ENABLED
  is outside the installed provers;
* `SellerAdvice`, whose `LeadIsBalanced` is a statement about arithmetic on the
  weights of one long computation, which TLC evaluates over the inputs of the run;
* of `WbReading`, `NoAmountTwice`: it follows from no property of the code alone but
  from the names of the three headers and the aliases they contain, which TLC goes
  through, each header whole and without any one or two of its columns. Headers with
  other names, or with fewer of them, it says nothing of.

`ProcessingIsRecoverable`, `BuriedWhenExhausted`,
`PendingHasBudget` and `GhostsAreOwed`, which are proved, are in no run: the refinement and
`QuiescentIsExact` say more of what they are for. The type
invariants, `SnapshotInv` and the other inductive invariants are proved and not checked
again by a run.

## Where the code and its documents disagree

Met while modelling, each with the steps or lines that show it; no run is spent on
them, and the properties name as conditions what they need of them.

1. A snapshot exists only for a day its key moved on, and the stock pages and the
   advice read the rows of the latest day alone. Once any SKU has moved later, one that
   did not move is not among them, so stock unsold for sixty days is not counted as dead
   (`services/analytics_service.py:1212`, `domain/inventory/intelligence.py:109`),
   against "Stock units as of snapshot_date".
2. A worker that outlived its claim calls `fail` with its own attempt number and may
   leave the row PENDING with its budget spent; nothing picks it up again
   (`core/queue/postgres_backend.py:124`), against Q-RETRY-BOUND of
   `docs/architecture/invariants.md`.
3. `delete_report` redraws the days of the report before its deletion is flushed, so
   the projections keep its money (`services/report_deletion_service.py:56`), against
   `docs/archive/README_pre_v06.md:192`.
4. Two overlapping retry requests of one dead letter put two workers on its job: the
   second decides from the row as its session first loaded it
   (`operations/recovery.py:199`), against Q-CLAIM-EXCL. `LoneReplayRead` keeps it
   out of `CalmSpec`.
5. With an empty ledger both rebuilds return without writing and the requirement is
   marked SUCCEEDED (`etl/wb/inventory_snapshot_rebuild.py:145`), so the snapshots of
   the deleted reports stay. The rebuild runs keep a report in the ledger (`Anchor`).
6. The stale reset defers a row whose last attempt crashed; it is never eligible
   again and never FAILED (`operations/recovery.py:61`).
7. A second dispatcher that peeked earlier marks a SUCCEEDED row RUNNING and rebuilds
   again (`runtime/rebuild_dispatcher.py:173`). The snapshots stay right
   (`rebuild_any` has two dispatchers); the rebuild is wasted.
8. `fail_job` reads the status back before its change is flushed, so
   `reports.status` of a dead-lettered job stays PROCESSING
   (`services/report_service.py:302`).
9. `docs/runtime/runtime_resilience.md:11` says only the lease holder runs cycles.
   The lease is read and written without a lock, a cycle is not bounded by it, and
   release deletes the row whoever holds it by then. `OneCycle` says what is left.
10. Each executed remediation runs the whole healer again, which has the cap of
    actions to itself; `CyclesKeepPolicy` says how often. Of the five remediations only
    `reset_stale_rebuild` can ever be carried out: overload, which asks for the
    others, is passed to the engine as a blackout.
11. The schedule registry is rebuilt for each cycle, so every schedule is always due;
    successes do not reset the failures of a closed breaker; asking for the state of
    an AI provider's breaker half-opens it; `evaluate_and_apply_quarantine` is never
    called.
12. Projections are drawn from ledger entries loaded without their metadata
    (`etl/wb/persist_aggregates.py:184-202`), so every sale counts as one unit
    there, against `docs/archive/README_pre_v06.md:27`.
13. A return whose `return_wb` column holds 0 loses its return amount, and a
    voluntary compensation of 0 suppresses the payout it falls back to
    (`domain/finance/ledger.py:193-203`).
14. The maintenance script loses the entries of chunks that are committed between its
    reading and its deleting, redates rows without a date to today and redraws only
    the new days. The count that completes a job looks at the stored rows only.
15. Validating the opening balance runs, in the streamed path, after phase 1 was
    committed: a report it rejects leaves its rows in the ledger.
16. A refused or dead AI run stays RUNNING for ever, against
    `docs/ai/ai_lifecycle.md`; the cost of a failed run does not count against the
    cap; two copies of a memory make every later look-up raise, with the
    recommendation already stored; a plain run refreshes any row of the report, one
    of a comparison included; a list wakes snoozed recommendations without flushing,
    so that they are missing from that very list.
17. With figures to compare, `build_driver_bundle` reads outside any transaction. The
    session opens one that is not committed, and the recommendation is lost though
    the answer may be 201 (`Unbound`; `ai/drivers/bundle.py:181`,
    `core/security_context.py:27`).
18. `PATCH` of a cost is never stored: assigning to the record opens a transaction, so
    `_rls_transaction` neither binds the tenant nor commits
    (`services/cost_service.py`), against `docs/archive/README_pre_v06.md:2062`. An import
    does not see duplicates within itself, because nothing is flushed; a blank SKU
    cell is imported as the name "nan"; look-ups ignore the currency; and of the
    template the frontend offers (`frontend/src/views/costs/CostsPage.tsx:247`) three
    columns are dropped and one is read as packaging.
19. Merging the reconciliations of two chunks drops the compensation from what is
    expected to be paid (`etl/wb/processor.py:80`), so the result depends on where
    the file was cut; `SumsAreWhole` says when it does not.
20. Anomalies are persisted inside the business transaction and their error is
    swallowed (`etl/pipeline.py:225`): the aborted transaction fails later.
21. Costs of goods are taken from the projections of all reports, the payout from the
    canonical ones only, although nested reports "are excluded"
    (`services/analytics_service.py:371`); a report that sticks out of the period
    counts whole. `GovernedIsExact` names both as conditions.
22. `reports.status`, documented as deprecated (`models/report.py:53-54`), is what
    selects the canonical reports.
23. `sku_drilldown` shows a profit, and the reconciliation the costs, whatever the
    trust; `period_compare` and `sku_economics` read the trust again, so that the one
    they return may not be the one they hid figures by.
24. Trust follows a change of the costs at once, the costs of goods only after the
    redraw; `_unit_costs_as_of` heeds `effective_to`, the two other look-ups do not;
    slow movers that never sold count from the start of the period.
25. A SKU counts as covered if it has a cost on the last day of the period, and its
    sales before that cost began count at no cost
    (`services/financial_integrity_service.py:217`); the share of such SKUs is rounded to
    0.01 %, so that it is full with one in 20000 left out (line 219), against "Exact" in
    `docs/product/cost_trust_system.md:9`.
26. The stream of the ledger is ordered by SKU and warehouse but not by card, and the
    constraint on snapshots knows no card either: a SKU with two cards in a warehouse
    is replayed in pieces, its full rebuild may violate the constraint, and the
    verification, which replays card by card, reports drift for ever; against
    `docs/architecture/adr/ADR-005-streaming-replay.md:14`. `OneCard` names it.
27. Outgoing transfers count as sold; the economics page gives a SKU never sold in the
    period no idle days, the other pages count from the first day; no parser marks an
    opening balance.
28. A .csv whose header is not its first line is read by the stream
    (`tests/unit/test_wb_header_detection.py`, test_csv_with_preamble_header) but turned
    away or read by the title line in the upload's check (`etl/loaders.py:13`). A workbook
    in which no table is found is read from its first sheet by the upload and from its
    active one by the worker. A .csv whose lines begin with a number, the first below the
    header having one cell more than it, is read by the upload with each name moved to
    the next column, which pandas makes of an index, and by the worker as it stands; one
    all of whose lines are blank cells is accepted and then refused.
29. Of the columns of `tests/large_wb_report.xlsx` two tie for the commission, the one
    before the agent's services and the reward of Wildberries (VV); the first is taken
    (`parsers/wb/base.py:94`), against `docs/archive/README_pre_v06.md:19`, and by the
    maintenance script the one JSONB puts first (`parsers/wb/rehydrate.py:21`), which is
    the other. Without "Кол-во" the quantity is read from the number of returns or
    deliveries.
30. Findings whose sentence is in English are all shown with one and the same
    (`ai/presentation/seller_display.py:534`), so only the first of them reaches the
    seller; the name of a SKU is looked for with a pattern that also finds the words
    "с" and "и" (line 379).
31. The aggregator keeps one finding of each piece of evidence, but the engine takes the
    suppressed ones from the analysts' outputs again (`ai/insights/priority_engine.py:297`).
    The two drops reach the seller together only because of it.
32. The advice to move stock makes a bullet on freight one about the warehouse
    (`ai/insights/priority_engine.py:88`).
33. The bullets tell the profit of single SKUs without the gate of
    `domain/analytics/profit_trust.py:49`; a profit of exactly 0 lets the margin pass it;
    the margin is a percentage and compared with 0.15 (`ai/analysts/sales.py:42`).
34. Insights that rank among the first three and do not lead are left out of the list
    behind the lead (`ai/insights/composer.py:87`).
35. An address whose invitation expired gets no other: the look-up passes over expired
    invitations, the unique index does not, and revoking takes pending ones only
    (`services/invite_service.py:77`, `:130`). The request ends in an IntegrityError, as
    does a revocation that was overtaken by the registration.
36. Two requests with one reset link that overlap both set the password
    (`services/auth_service.py:223`), against "one-time" at line 153. The e-mail
    leaves before the link is committed (line 184).

## What is not modelled

* Of the AI layer, prompts, quality gates and evaluation: functions
  of their input that produce text. The provider's circuit breaker, the response
  cache, session turns, rate limits and feedback keep state, but none that another
  modelled component reads.
* Of the analytics: lists of SKUs, ABC, drilldown, financial trends, warnings and scores, and of the dashboard its AI parts: single
  queries, or quotients of what is modelled. Schemas, presentation and the caches
  with a bounded staleness (45 s for the report list).
* Expiry of access tokens, roles, and row-level security, which is the database's own.
* Parsing of single texts (numbers, dates), .xls files and the processing of files that
  are not streamed, the parser of stock reports, opening balances.
* Cost and price fields of movements, quotients, KPI formulas, simulations.
* The frontend, migrations, deployment, storage back ends: input and output.
* Starvation of eligible requirements by exhausted ones that fill the batch
  (`runtime/rebuild_dispatcher.py:123`): the runs take a batch that holds all.

What is left of the repository by lines is mostly of these kinds: text generation,
single queries, presentation, scripts and schemas make up well over half of it.
That is why the map covers more than a fifth of the lines although every component that
keeps shared state has a module.

## Plan

The modules are complete, and every safety property of the runs is proved but two: the
amounts of `NoAmountTwice` and the weights of `LeadIsBalanced` are about the very names
and numbers in the code, for which a run over them is the check to have. Should the code change:

1. a new SELECT of a page goes into `Program` and `Select`; `SurfacesStayEqual` then asks
   whether its answer is a sum over the same entries;
2. a new writer of the projections goes beside `Finish` and `Delete`, and has to keep
   `TablesInv`;
3. if `delete_report` is made to redraw after its deletion (item 3 above), `Delete` redraws
   from `loaded \ {r}`, and of the condition on `drawn` in `SurfacesAddUp` only the jobs
   that are not finished remain.
