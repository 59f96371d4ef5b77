--------------------------- MODULE ReportLifecycle ---------------------------
(***************************************************************************)
(* One tenant's reports from upload to deletion, and the day projections   *)
(* (daily_aggregates, sku_daily_metrics, sku_unit_economics_daily) drawn    *)
(* from their ledger rows and the unit costs.                              *)
(*                                                                         *)
(*   - Uploads run POST /reports/upload: four separate transactions and a  *)
(*     write to the file store, any of which may be the last.              *)
(*   - Workers run a claimed job: the ledger rows chunk by chunk, then one *)
(*     transaction that reads costs and ledger and writes the projections. *)
(*     Its phases hold the tenant's advisory lock.                         *)
(*   - Handlers run the requests that rebuild projections WITHOUT that     *)
(*     lock: deleting a report, and editing or importing costs.            *)
(*                                                                         *)
(* Claims, leases, retries by hand and stale jobs are EtlQueue's matter; a *)
(* job has here one owner and a bounded number of attempts.  A projection  *)
(* is what it was drawn from: the chunks counted and the costs' version.   *)
(***************************************************************************)
EXTENDS Integers, FiniteSets

CONSTANTS
    File,           \* contents that get uploaded: one checksum each
    Date,
    DatesOf,        \* File -> the operation dates of its rows
    Report,         \* identities that rows of "reports" may get
    Upload,         \* upload requests; each runs once
    FileOf,         \* Upload -> the contents it sends
    Name, NameOf,   \* Upload -> the file name it sends them under
    Worker,
    Handler,        \* requests that delete a report or change the costs
    Chunks,         \* chunks a file is streamed in
    MaxTries,       \* etl_jobs.max_attempts
    MaxEdits,       \* bound: changes of the costs
    None

ASSUME ReportAssumption ==
    /\ DatesOf \in [File -> SUBSET Date]
    /\ Chunks \in Nat \ {0} /\ MaxTries \in Nat \ {0} /\ MaxEdits \in Nat
    /\ FileOf \in [Upload -> File] /\ NameOf \in [Upload -> Name]
    /\ None \notin Report /\ None \notin File /\ None \notin Report \X Name

VARIABLES
    row,        \* Report -> its row: alive, the file's checksum, file_path
    job,        \* Report -> its row of etl_jobs
    stored,     \* paths with a file behind them
    doomed,     \* paths whose background delete has been started
    ledger,     \* Report -> chunks of its rows in the ledger
    costs,      \* version of cost_history: the changes committed so far
    agg,        \* Date -> what its projection rows were drawn from
    upload, worker, handler,
    answered,   \* newest version whose request was answered "done"
    raced       \* history: dates last written by a rebuild that was overtaken

vars == <<row, job, stored, doomed, ledger, costs, agg,
          upload, worker, handler, answered, raced>>

(* storage.save_stream: a key is made of tenant, report and file name; and *)
(* its mutated form that files an upload under its contents.               *)
PathByContents(r, u) == <<row[r].file, NameOf[u]>>
PathOf(r, u) == <<r, NameOf[u]>>

Paths == (Report \cup File) \X Name
Counts == [Report -> 0..Chunks]
Empty == [r \in Report |-> 0]
NoAgg == [rows |-> Empty, costs |-> 0]

UploadPcs == {"new", "create", "check", "store", "finalize", "ok", "ended"}
WorkerPcs == {"idle", "streaming", "persisting", "drafted"}
HandlerPcs == {"idle", "edited", "costs", "purged"}

NoRow == [alive |-> FALSE, file |-> None, path |-> None]
NoJob == [status |-> "none", path |-> None, tries |-> 0]
NewUpload == [pc |-> "new", report |-> None]
EndedUpload == [pc |-> "ended", report |-> None]
IdleWorker == [pc |-> "idle", report |-> None, costs |-> 0, rows |-> Empty, raced |-> FALSE]
IdleHandler == [pc |-> "idle", report |-> None, path |-> None, dates |-> {}, locked |-> {},
                edit |-> 0, costs |-> 0, rows |-> Empty, raced |-> FALSE]

Init ==
    /\ row = [r \in Report |-> NoRow] /\ job = [r \in Report |-> NoJob]
    /\ stored = {} /\ doomed = {}
    /\ ledger = Empty /\ costs = 0
    /\ agg = [d \in Date |-> NoAgg]
    /\ upload = [u \in Upload |-> NewUpload]
    /\ worker = [w \in Worker |-> IdleWorker]
    /\ handler = [h \in Handler |-> IdleHandler]
    /\ answered = 0 /\ raced = {}

Alive == {r \in Report : row[r].alive}
Dates(r) == IF row[r].file = None THEN {} ELSE DatesOf[row[r].file]
LedgerDates == UNION {Dates(r) : r \in {x \in Alive : ledger[x] > 0}}
HasRows(d) == agg[d].rows # Empty

(***************************************************************************)
(* POST /reports/upload.                                                   *)
(***************************************************************************)
(* find_by_checksum: a row without a file is resumed. *)
UploadFind(u) ==
    /\ upload[u].pc = "new"
    /\ \/ /\ \A r \in Alive : row[r].file # FileOf[u]
          /\ upload' = [upload EXCEPT ![u].pc = "create"]
       \/ \E r \in Alive :
            /\ row[r].file = FileOf[u]
            /\ upload' = [upload EXCEPT ![u] = [pc |-> IF row[r].path = None THEN "store" ELSE "check",
                                                report |-> r]]
    /\ UNCHANGED <<row, job, stored, doomed, ledger, costs, agg, worker, handler, answered, raced>>

(* get_report: 404 once it is deleted. *)
UploadCheck(u) ==
    /\ upload[u].pc = "check"
    /\ upload' = [upload EXCEPT ![u] = IF row[upload[u].report].alive THEN [@ EXCEPT !.pc = "ok"]
                                       ELSE EndedUpload]
    /\ UNCHANGED <<row, job, stored, doomed, ledger, costs, agg, worker, handler, answered, raced>>

(* create_report under uq_report_tenant_checksum. *)
UploadCreate(u) ==
    /\ upload[u].pc = "create"
    /\ IF \E r \in Alive : row[r].file = FileOf[u]
       THEN /\ upload' = [upload EXCEPT ![u] = EndedUpload]
            /\ UNCHANGED row
       ELSE \E r \in Report :
              /\ row[r] = NoRow
              /\ row' = [row EXCEPT ![r] = [alive |-> TRUE, file |-> FileOf[u], path |-> None]]
              /\ upload' = [upload EXCEPT ![u].pc = "store", ![u].report = r]
    /\ UNCHANGED <<job, stored, doomed, ledger, costs, agg, worker, handler, answered, raced>>

(* persist_report_file: no transaction. *)
UploadStore(u) ==
    /\ upload[u].pc = "store"
    /\ stored' = stored \cup {PathOf(upload[u].report, u)}
    /\ upload' = [upload EXCEPT ![u].pc = "finalize"]
    /\ UNCHANGED <<row, job, doomed, ledger, costs, agg, worker, handler, answered, raced>>

(* PostgresQueueBackend.enqueue: an active job of the key is returned as it *)
(* is, a finished one makes the insert fail; mutated: it is started again.  *)
EnqueueAgain(j, path) ==
    IF j.status \in {"pending", "processing"} THEN j
    ELSE [status |-> "pending", path |-> path, tries |-> 0]
Enqueue(j, path) ==
    CASE j.status \in {"pending", "processing"} -> j
      [] j.status = "none" -> [status |-> "pending", path |-> path, tries |-> 0]
      [] OTHER -> None

(* finalize_upload: the path and the job in one transaction; mutated: the  *)
(* path is committed first and the request may die before the job is there. *)
UploadFinalizeInTwo(u) ==
    LET r == upload[u].report
        p == PathOf(r, u)
    IN  /\ upload[u].pc = "finalize" /\ row[r].alive
        /\ IF row[r].path # p
           THEN /\ row' = [row EXCEPT ![r].path = p]
                /\ UNCHANGED <<job, upload>>
           ELSE /\ job' = [job EXCEPT ![r] = IF @.status = "none" THEN Enqueue(@, p) ELSE @]
                /\ upload' = [upload EXCEPT ![u].pc = "ok"]
                /\ UNCHANGED row
        /\ UNCHANGED <<stored, doomed, ledger, costs, agg, worker, handler, answered, raced>>

UploadFinalize(u) ==
    LET r == upload[u].report
        p == PathOf(r, u)
        j == Enqueue(job[r], p)
    IN  /\ upload[u].pc = "finalize"
        /\ IF row[r].alive /\ j # None
           THEN /\ row' = [row EXCEPT ![r].path = p]
                /\ job' = [job EXCEPT ![r] = j]
                /\ upload' = [upload EXCEPT ![u].pc = "ok"]
           ELSE /\ upload' = [upload EXCEPT ![u] = EndedUpload]
                /\ UNCHANGED <<row, job>>
        /\ UNCHANGED <<stored, doomed, ledger, costs, agg, worker, handler, answered, raced>>

(* The request dies on its way. *)
UploadDies(u) ==
    /\ upload[u].pc \notin {"ok", "ended"}
    /\ upload' = [upload EXCEPT ![u] = EndedUpload]
    /\ UNCHANGED <<row, job, stored, doomed, ledger, costs, agg, worker, handler, answered, raced>>

(***************************************************************************)
(* A worker and its job.  The costs read before the chunks are for their   *)
(* own figures only: the persist transaction reads them again.             *)
(***************************************************************************)
Claim(w, r) ==
    /\ worker[w].pc = "idle" /\ job[r].status = "pending"
    /\ job' = [job EXCEPT ![r].status = "processing", ![r].tries = @ + 1]
    /\ worker' = [worker EXCEPT ![w].pc = "streaming", ![w].report = r, ![w].costs = costs]
    /\ UNCHANGED <<row, stored, doomed, ledger, costs, agg, upload, handler, answered, raced>>

(* persist_phase1_chunk: its own transaction; a chunk that is there already *)
(* is left alone (ON CONFLICT DO NOTHING).                                 *)
StreamChunk(w) ==
    LET r == worker[w].report
    IN  /\ worker[w].pc = "streaming" /\ row[r].alive
        /\ ledger[r] < Chunks
        /\ ledger' = [ledger EXCEPT ![r] = @ + 1]
        /\ UNCHANGED <<row, job, stored, doomed, costs, agg, upload, worker, handler, answered, raced>>

(* pg_try_advisory_xact_lock of phase 2, held until the commit. *)
LockFree == \A w \in Worker : worker[w].pc \notin {"persisting", "drafted"}

(* The persist transaction reads the costs and takes the lock; mutated: it  *)
(* goes on with the costs the chunks were read with.                       *)
PersistBeginOldCosts(w) ==
    LET r == worker[w].report
    IN  /\ worker[w].pc = "streaming" /\ row[r].alive
        /\ ledger[r] = Chunks
        /\ LockFree
        /\ worker' = [worker EXCEPT ![w].pc = "persisting"]
        /\ UNCHANGED <<row, job, stored, doomed, ledger, costs, agg, upload, handler, answered, raced>>

PersistBegin(w) ==
    LET r == worker[w].report
    IN  /\ worker[w].pc = "streaming" /\ row[r].alive
        /\ ledger[r] = Chunks
        /\ LockFree
        /\ worker' = [worker EXCEPT ![w].pc = "persisting", ![w].costs = costs]
        /\ UNCHANGED <<row, job, stored, doomed, ledger, costs, agg, upload, handler, answered, raced>>

(* _rebuild_aggregates reads the ledger before it purges the old rows;      *)
(* mutated: it aggregates the report's own rows.                           *)
PersistDraftOwn(w) ==
    /\ worker[w].pc = "persisting"
    /\ worker' = [worker EXCEPT ![w].pc = "drafted",
                    ![w].rows = [Empty EXCEPT ![worker[w].report] = ledger[worker[w].report]]]
    /\ UNCHANGED <<row, job, stored, doomed, ledger, costs, agg, upload, handler, answered, raced>>

PersistDraft(w) ==
    /\ worker[w].pc = "persisting"
    /\ worker' = [worker EXCEPT ![w].pc = "drafted", ![w].rows = ledger]
    /\ UNCHANGED <<row, job, stored, doomed, ledger, costs, agg, upload, handler, answered, raced>>

(* What a rebuild leaves for one date. *)
Drawn(rows, version, d) ==
    [rows |-> [r \in Report |-> IF d \in Dates(r) THEN rows[r] ELSE 0], costs |-> version]

Locked(ds) == \E h \in Handler : handler[h].pc = "purged" /\ handler[h].locked \cap ds # {}

(* Purge, upsert, ack_job and the commit.  The purge waits for a handler    *)
(* that has deleted rows of these dates; a handler that found none to       *)
(* delete is overtaken instead.                                            *)
PersistCommit(w) ==
    LET r == worker[w].report
    IN  /\ worker[w].pc = "drafted" /\ ~Locked(Dates(r))
        /\ agg' = [d \in Date |-> IF d \in Dates(r) THEN Drawn(worker[w].rows, worker[w].costs, d)
                                  ELSE agg[d]]
        /\ job' = [job EXCEPT ![r].status = "completed"]
        /\ raced' = IF worker[w].raced THEN raced \cup Dates(r) ELSE raced \ Dates(r)
        /\ handler' = [h \in Handler |->
                        [handler[h] EXCEPT !.raced =
                            \/ @
                            \/ handler[h].pc = "purged" /\ handler[h].dates \cap Dates(r) # {}]]
        /\ worker' = [worker EXCEPT ![w] = IdleWorker]
        /\ UNCHANGED <<row, stored, doomed, ledger, costs, upload, answered>>

(* fail_job.  A job deleted meanwhile has no row to fail.                   *)
Failed(j) ==
    CASE j.status # "processing" -> j.status
      [] j.status = "processing" /\ j.tries < MaxTries -> "pending"
      [] OTHER -> "failed"

(* An error, a lock timeout, a shutdown or a crash: the transaction is      *)
(* rolled back, committed chunks stay.                                     *)
JobFails(w) ==
    LET r == worker[w].report
    IN  /\ worker[w].pc # "idle"
        /\ job' = [job EXCEPT ![r].status = Failed(job[r])]
        /\ worker' = [worker EXCEPT ![w] = IdleWorker]
        /\ UNCHANGED <<row, stored, doomed, ledger, costs, agg, upload, handler, answered, raced>>

(***************************************************************************)
(* DELETE /reports/{id} and the requests that change costs.                *)
(***************************************************************************)
(* delete_report up to the costs it rebuilds with; a report without ledger  *)
(* rows has no dates to rebuild.                                           *)
DeleteBegin(h, r) ==
    /\ handler[h].pc = "idle"
    /\ row[r].alive /\ job[r].status # "processing"
    /\ handler' = [handler EXCEPT ![h] = [IdleHandler EXCEPT
                     !.pc = "costs", !.report = r, !.path = row[r].path, !.costs = costs,
                     !.dates = IF ledger[r] > 0 THEN Dates(r) ELSE {}]]
    /\ UNCHANGED <<row, job, stored, doomed, ledger, costs, agg, upload, worker, answered, raced>>

(* A change of cost_history is committed before anything is rebuilt from it. *)
EditCosts(h) ==
    /\ handler[h].pc = "idle" /\ costs < MaxEdits
    /\ costs' = costs + 1
    /\ worker' = [w \in Worker |-> [worker[w] EXCEPT
                    !.raced = @ \/ worker[w].pc \in {"persisting", "drafted"}]]
    /\ handler' = [g \in Handler |->
                    IF g = h THEN [IdleHandler EXCEPT !.pc = "edited", !.edit = costs + 1]
                    ELSE [handler[g] EXCEPT !.raced = @ \/ handler[g].pc \in {"costs", "purged"}]]
    /\ UNCHANGED <<row, job, stored, doomed, ledger, agg, upload, answered, raced>>

(* _refresh_financial_projections: all dates of the ledger. *)
RefreshBegin(h) ==
    /\ handler[h].pc = "edited"
    /\ handler' = [handler EXCEPT ![h].pc = "costs", ![h].costs = costs, ![h].dates = LedgerDates]
    /\ UNCHANGED <<row, job, stored, doomed, ledger, costs, agg, upload, worker, answered, raced>>

(* rebuild_projections_for_dates: the rows it purges stay locked until it   *)
(* commits; the ledger is read after them.                                 *)
Purge(h) ==
    /\ handler[h].pc = "costs"
    /\ ~Locked(handler[h].dates)
    /\ handler' = [handler EXCEPT ![h].pc = "purged", ![h].rows = ledger,
                                  ![h].locked = {d \in handler[h].dates : HasRows(d)}]
    /\ UNCHANGED <<row, job, stored, doomed, ledger, costs, agg, upload, worker, answered, raced>>

Rewritten(h) ==
    [d \in Date |-> IF d \in handler[h].dates THEN Drawn(handler[h].rows, handler[h].costs, d)
                    ELSE agg[d]]

RacedAfter(h) ==
    IF handler[h].raced THEN raced \cup handler[h].dates ELSE raced \ handler[h].dates

(* A refreshed cost request is answered. *)
RefreshCommit(h) ==
    /\ handler[h].pc = "purged" /\ handler[h].report = None
    /\ agg' = Rewritten(h) /\ raced' = RacedAfter(h)
    /\ answered' = IF handler[h].edit > answered THEN handler[h].edit ELSE answered
    /\ handler' = [handler EXCEPT ![h] = IdleHandler]
    /\ UNCHANGED <<row, job, stored, doomed, ledger, costs, upload, worker>>

(* The DELETE of the row is flushed after the rebuild read the ledger; it   *)
(* cascades to job and ledger rows and waits for a persist transaction     *)
(* that refers to the row.  The file goes in a background task.            *)
DeleteCommit(h) ==
    LET r == handler[h].report
    IN  /\ handler[h].pc = "purged" /\ r # None
        /\ \A w \in Worker : worker[w].pc \in {"persisting", "drafted"} => worker[w].report # r
        /\ agg' = Rewritten(h) /\ raced' = RacedAfter(h)
        /\ row' = [row EXCEPT ![r].alive = FALSE]
        /\ job' = [job EXCEPT ![r] = NoJob]
        /\ ledger' = [ledger EXCEPT ![r] = 0]
        /\ doomed' = doomed \cup ({handler[h].path} \ {None})
        /\ handler' = [handler EXCEPT ![h] = IdleHandler]
        /\ UNCHANGED <<stored, costs, upload, worker, answered>>

(* An error or a crash rolls back what is open; a committed edit stays. *)
HandlerDies(h) ==
    /\ handler[h].pc # "idle"
    /\ handler' = [handler EXCEPT ![h] = IdleHandler]
    /\ UNCHANGED <<row, job, stored, doomed, ledger, costs, agg, upload, worker, answered, raced>>

(* _delete_report_file_best_effort, or the process dies before it ran. *)
RemoveFile(p) ==
    /\ p \in doomed
    /\ doomed' = doomed \ {p}
    /\ stored' \in {stored, stored \ {p}}
    /\ UNCHANGED <<row, job, ledger, costs, agg, upload, worker, handler, answered, raced>>

Next ==
    \/ \E u \in Upload :
         \/ UploadFind(u) \/ UploadCheck(u) \/ UploadCreate(u) \/ UploadStore(u)
         \/ UploadFinalize(u) \/ UploadDies(u)
    \/ \E w \in Worker :
         \/ \E r \in Report : Claim(w, r)
         \/ StreamChunk(w) \/ PersistBegin(w) \/ PersistDraft(w)
         \/ PersistCommit(w) \/ JobFails(w)
    \/ \E h \in Handler :
         \/ \E r \in Report : DeleteBegin(h, r)
         \/ EditCosts(h) \/ RefreshBegin(h) \/ Purge(h)
         \/ RefreshCommit(h) \/ DeleteCommit(h) \/ HandlerDies(h)
    \/ \E p \in Paths : RemoveFile(p)

Spec == Init /\ [][Next]_vars

(***************************************************************************)
(* Properties.                                                             *)
(***************************************************************************)
Versions == 0..MaxEdits
RowType == [alive : BOOLEAN, file : File \cup {None}, path : Paths \cup {None}]
JobType == [status : {"none", "pending", "processing", "completed", "failed"},
            path : Paths \cup {None}, tries : 0..MaxTries]
AggType == [rows : Counts, costs : Versions]
UploadType == [pc : UploadPcs, report : Report \cup {None}]
WorkerType == [pc : WorkerPcs, report : Report \cup {None},
               costs : Versions, rows : Counts, raced : BOOLEAN]
HandlerType == [pc : HandlerPcs, report : Report \cup {None},
                path : Paths \cup {None}, dates : SUBSET Date, locked : SUBSET Date,
                edit : Versions, costs : Versions, rows : Counts, raced : BOOLEAN]

TypeOK ==
    /\ row \in [Report -> RowType] /\ job \in [Report -> JobType]
    /\ stored \subseteq Paths /\ doomed \subseteq Paths
    /\ ledger \in Counts /\ costs \in Versions /\ answered \in Versions
    /\ agg \in [Date -> AggType] /\ raced \subseteq Date
    /\ upload \in [Upload -> UploadType] /\ worker \in [Worker -> WorkerType]
    /\ handler \in [Handler -> HandlerType]

(* An upload that was answered "queued" or "already uploaded" has a job, as *)
(* long as its report is not deleted, whichever of the requests for the    *)
(* same contents died between its transactions; and the file of an         *)
(* unfinished job is in the store: no late background delete of an earlier *)
(* report with the same contents and the same name, and no second upload   *)
(* that resumed the same report, takes it away.                            *)
UploadsAreServed ==
    /\ \A u \in Upload : upload[u].pc = "ok" =>
          (row[upload[u].report].alive => job[upload[u].report].status # "none")
    /\ \A r \in Report : job[r].status \in {"pending", "processing"} => job[r].path \in stored

(* A late resumption of an upload neither starts a finished job again nor  *)
(* points its report at another file (the unique key of etl_jobs makes it   *)
(* fail); only deletion touches the two.                                   *)
FinishedIsFinal ==
    [][\A r \in Report :
        (job[r].status \in {"completed", "failed"} /\ row'[r].alive)
            => (job'[r] = job[r] /\ row'[r] = row[r])]_vars

(* Whatever reports are deleted, retried or persisted around it, and when-  *)
(* ever costs change: a completed report is counted in full in the         *)
(* projections of its dates, unless a rebuild without the tenant's lock    *)
(* was overtaken by the worker on that date.                               *)
CompletedIsCounted ==
    \A r \in Alive : job[r].status = "completed" =>
        \A d \in Dates(r) \ raced : agg[d].rows[r] = Chunks

(* Once a change of the costs was answered, no projection of a completed    *)
(* report is older than that change, unless the costs changed under the    *)
(* rebuild that wrote it.                                                  *)
CostIsCurrent ==
    \A r \in Alive : job[r].status = "completed" =>
        \A d \in Dates(r) \ raced : agg[d].costs >= answered
==============================================================================
