------------------------ MODULE ReportsAndCostsProofs -------------------------
(* Proofs about ReportLifecycle, for any number of files, uploads, workers, *)
(* handlers, chunks, attempts and edits: what an upload is promised, that a *)
(* finished job is left alone, and what the projections hold; and about     *)
(* CostBook, for any files and requests: a file imported again adds         *)
(* nothing, and the readings of a cost agree.                              *)
EXTENDS ReportLifecycle, CostBook, FoldLemmas

-------------------------------------------------------------------------------
(***************************************************************************)
(* REPORTS.  The inductive invariant, in five parts.                       *)
(***************************************************************************)
(* 1. Types, the references between the rows and the processes, and that a  *)
(* job is pending only while it may be tried again.                        *)
Pathed(r) == {<<r, n>> : n \in Name}

References ==
    /\ \A u \in Upload : upload[u].pc \in {"check", "store", "finalize", "ok"} => upload[u].report \in Report
    /\ \A w \in Worker : worker[w].pc # "idle" => worker[w].report \in Report
    /\ \A r \in Report : job[r].status = "pending" => job[r].tries < MaxTries

(* 2. An identity is used once: its row names a file for good, its path is  *)
(* its own, it has a job only while it is alive, and what is deleted in the *)
(* background belonged to a row that is gone.                              *)
Identity ==
    /\ \A r \in Report : row[r] = NoRow \/ row[r].file \in File
    /\ \A r \in Report : row[r].path \in Pathed(r) \cup {None} /\ job[r].path \in Pathed(r) \cup {None}
    /\ \A r \in Report : job[r].status # "none" => row[r].alive
    /\ \A r \in Report : row[r].alive /\ row[r].path # None => job[r].status # "none"
    /\ \A h \in Handler : handler[h].report # None =>
          /\ handler[h].path \in Pathed(handler[h].report) \cup {None}
          /\ row[handler[h].report].file \in File
    /\ \A p \in doomed : \E r \in Report : p \in Pathed(r) /\ ~row[r].alive /\ row[r].file \in File

Served ==
    /\ \A u \in Upload : upload[u].pc \in {"check", "ok"} => row[upload[u].report].path # None
    /\ \A u \in Upload : upload[u].pc \in {"store", "finalize"} => row[upload[u].report].file \in File
    /\ \A u \in Upload : upload[u].pc = "finalize" /\ row[upload[u].report].alive =>
          PathOf(upload[u].report, u) \in stored
    /\ \A r \in Report : job[r].status \in {"pending", "processing"} => job[r].path \in stored

(* 3. Who works on what: a job is worked on by one worker, who has it to    *)
(* himself unless its report was deleted; one worker holds the lock; and a  *)
(* report is completed with all its rows.                                  *)
Persists(w) == worker[w].pc \in {"persisting", "drafted"}
Completed(r) == row[r].alive /\ job[r].status = "completed"

Ownership ==
    /\ \A w \in Worker : worker[w].pc # "idle" =>
          /\ row[worker[w].report].alive => job[worker[w].report].status = "processing"
          /\ row[worker[w].report].file \in File
    /\ \A v, w \in Worker : worker[v].pc # "idle" /\ worker[w].pc # "idle"
          /\ worker[v].report = worker[w].report => v = w
    /\ \A v, w \in Worker : Persists(v) /\ Persists(w) => v = w
    /\ \A w \in Worker : Persists(w) =>
          row[worker[w].report].alive /\ ledger[worker[w].report] = Chunks
    /\ \A r \in Report : Completed(r) => ledger[r] = Chunks

(* 4. What is about to be written counts every completed report.           *)
Counting ==
    /\ \A w \in Worker : worker[w].pc = "drafted" =>
          \A r \in Report : Completed(r) \/ r = worker[w].report => worker[w].rows[r] = Chunks
    /\ \A h \in Handler : handler[h].pc = "purged" /\ ~handler[h].raced =>
          \A r \in Report : Completed(r) /\ handler[h].dates \cap Dates(r) # {} =>
             handler[h].rows[r] = Chunks

(* 5. What is about to be written has the costs of now, unless they changed *)
(* under it; and the dates a refresh will not write were drawn, if at all,  *)
(* from costs as new as the change it is about.                            *)
Costing ==
    /\ answered <= costs
    /\ \A w \in Worker : Persists(w) /\ ~worker[w].raced => worker[w].costs = costs
    /\ \A h \in Handler : handler[h].pc # "idle" => handler[h].edit <= costs
    /\ \A h \in Handler : handler[h].pc \in {"costs", "purged"} /\ ~handler[h].raced =>
          handler[h].costs = costs
    /\ \A h \in Handler : handler[h].pc \in {"costs", "purged"} /\ handler[h].report = None =>
          \A r \in Report : Completed(r) =>
             \A d \in Dates(r) \ (raced \cup handler[h].dates) : agg[d].costs >= handler[h].edit

IInv == TypeOK /\ References /\ Identity /\ Served /\ Ownership /\ Counting /\ Costing

(***************************************************************************)
(* Types of the parts of the state, and facts about the operators.         *)
(***************************************************************************)
LEMMA ConstantsTyped ==
    /\ Empty \in Counts /\ 0 \in Versions /\ Chunks > 0
    /\ NoRow \in RowType /\ NoJob \in JobType
    /\ NewUpload \in UploadType /\ EndedUpload \in UploadType
    /\ IdleWorker \in WorkerType /\ IdleHandler \in HandlerType
  BY ReportAssumption
     DEF Empty, Counts, Versions, NoRow, RowType, NoJob, JobType, NewUpload, EndedUpload, UploadType,
         UploadPcs, IdleWorker, WorkerType, WorkerPcs, IdleHandler, HandlerType, HandlerPcs

LEMMA PathTyped ==
    ASSUME NEW r \in Report, NEW u \in Upload
    PROVE  PathOf(r, u) \in Paths /\ PathOf(r, u) \in Pathed(r)
  BY ReportAssumption DEF PathOf, Paths, Pathed

LEMMA DatesTyped ==
    ASSUME TypeOK, NEW r \in Report
    PROVE  Dates(r) \subseteq Date
  BY ReportAssumption DEF TypeOK, RowType, Dates

LEMMA DrawnTyped ==
    ASSUME NEW rows \in Counts, NEW version \in Versions, NEW d
    PROVE  Drawn(rows, version, d) \in AggType
  BY ReportAssumption DEF Drawn, Counts, AggType

LEMMA EnqueueTyped ==
    ASSUME NEW j \in JobType, NEW p \in Paths, Enqueue(j, p) # None
    PROVE  /\ Enqueue(j, p) \in JobType
           /\ \/ j.status \in {"pending", "processing"} /\ Enqueue(j, p) = j
              \/ j.status = "none" /\ Enqueue(j, p) = [status |-> "pending", path |-> p, tries |-> 0]
  BY ReportAssumption DEF Enqueue, JobType

LEMMA FailedTyped ==
    ASSUME NEW j \in JobType
    PROVE  /\ [j EXCEPT !.status = Failed(j)] \in JobType
           /\ j.status # "processing" => [j EXCEPT !.status = Failed(j)] = j
           /\ j.status = "processing" => Failed(j) \in {"pending", "failed"}
           /\ Failed(j) = "pending" /\ j.status # "pending" => j.tries < MaxTries
  <1>1. CASE j.status = "processing"
    BY <1>1 DEF Failed, JobType
  <1>2. CASE j.status # "processing"
    <2>1. Failed(j) = j.status
      BY <1>2 DEF Failed
    <2>2. [j EXCEPT !.status = j.status] = j
      BY DEF JobType
    <2>3. QED
      BY <1>2, <2>1, <2>2
  <1>3. QED
    BY <1>1, <1>2

(***************************************************************************)
(* 1. Types and references.                                                *)
(***************************************************************************)
LEMMA UploadsKeepTypes ==
    ASSUME TypeOK, References, NEW u \in Upload,
           UploadFind(u) \/ UploadCheck(u) \/ UploadCreate(u) \/ UploadStore(u)
             \/ UploadFinalize(u) \/ UploadDies(u)
    PROVE  TypeOK' /\ References'
  <1> USE ConstantsTyped DEF TypeOK, UploadPcs
  <1>1. CASE UploadFind(u)
    <2>1. \E x \in UploadType :
            /\ upload' = [upload EXCEPT ![u] = x]
            /\ x.pc \in {"check", "store", "finalize", "ok"} => x.report \in Report
      <3>1. CASE upload' = [upload EXCEPT ![u].pc = "create"]
        <4>1. upload' = [upload EXCEPT ![u] = [upload[u] EXCEPT !.pc = "create"]]
          BY <3>1
        <4>2. [upload[u] EXCEPT !.pc = "create"] \in UploadType
              /\ [upload[u] EXCEPT !.pc = "create"].pc = "create"
          BY DEF UploadType
        <4>3. QED
          BY <4>1, <4>2
      <3>2. CASE \E r \in Report :
                   upload' = [upload EXCEPT ![u] = [pc |-> IF row[r].path = None THEN "store" ELSE "check",
                                                   report |-> r]]
        <4>1. PICK r \in Report :
                upload' = [upload EXCEPT ![u] = [pc |-> IF row[r].path = None THEN "store" ELSE "check",
                                                report |-> r]]
          BY <3>2
        <4>2. [pc |-> IF row[r].path = None THEN "store" ELSE "check", report |-> r] \in UploadType
          BY DEF UploadType
        <4>3. QED
          BY <4>1, <4>2
      <3>3. QED
        BY <1>1, <3>1, <3>2 DEF UploadFind, Alive
    <2>2. upload' \in [Upload -> UploadType]
      BY <2>1
    <2>3. QED
      BY <1>1, <2>1, <2>2 DEF UploadFind, References
  <1>2. CASE UploadCheck(u)
    <2>1. upload' \in [Upload -> UploadType]
      BY <1>2 DEF UploadCheck, UploadType
    <2>2. \A v \in Upload : upload'[v].pc \in {"check", "store", "finalize", "ok"}
            => upload'[v].report \in Report
      BY <1>2 DEF UploadCheck, UploadType, EndedUpload, References
    <2>3. QED
      BY <1>2, <2>1, <2>2 DEF UploadCheck, References
  <1>3. CASE UploadCreate(u)
    <2>1. CASE \E r \in Alive : row[r].file = FileOf[u]
      BY <1>3, <2>1 DEF UploadCreate, References, EndedUpload
    <2>2. CASE ~ \E r \in Alive : row[r].file = FileOf[u]
      <3>1. PICK r \in Report :
              /\ row' = [row EXCEPT ![r] = [alive |-> TRUE, file |-> FileOf[u], path |-> None]]
              /\ upload' = [upload EXCEPT ![u].pc = "store", ![u].report = r]
        BY <1>3, <2>2 DEF UploadCreate
      <3>2. [alive |-> TRUE, file |-> FileOf[u], path |-> None] \in RowType
        BY ReportAssumption DEF RowType
      <3>3. upload' \in [Upload -> UploadType] /\ upload'[u].report \in Report
        BY <3>1 DEF UploadType
      <3>4. QED
        BY <1>3, <3>1, <3>2, <3>3 DEF UploadCreate, References
    <2>3. QED
      BY <2>1, <2>2
  <1>4. CASE UploadStore(u)
    <2>1. PathOf(upload[u].report, u) \in Paths
      BY <1>4, PathTyped DEF UploadStore, References
    <2>2. upload' \in [Upload -> UploadType]
      BY <1>4 DEF UploadStore, UploadType
    <2>3. \A v \in Upload : upload'[v].pc \in {"check", "store", "finalize", "ok"}
            => upload'[v].report \in Report
      BY <1>4 DEF UploadStore, UploadType, References
    <2>4. QED
      BY <1>4, <2>1, <2>2, <2>3 DEF UploadStore, References
  <1>5. CASE UploadFinalize(u)
    <2> DEFINE r == upload[u].report
               p == PathOf(r, u)
               j == Enqueue(job[r], p)
    <2>1. r \in Report /\ p \in Paths
      BY <1>5, PathTyped DEF UploadFinalize, References
    <2>2. CASE row[r].alive /\ j # None
      <3>1. /\ row' = [row EXCEPT ![r].path = p]
            /\ job' = [job EXCEPT ![r] = j]
            /\ upload' = [upload EXCEPT ![u].pc = "ok"]
        BY <1>5, <2>2 DEF UploadFinalize
      <3>2. j \in JobType /\ (j.status = "pending" => j = job[r] \/ j.tries = 0)
        BY <2>1, <2>2, EnqueueTyped DEF JobType
      <3>3. row' \in [Report -> RowType]
        BY <2>1, <3>1 DEF RowType
      <3>4. upload' \in [Upload -> UploadType]
        BY <3>1 DEF UploadType
      <3>5. \A v \in Upload : upload'[v].pc \in {"check", "store", "finalize", "ok"}
              => upload'[v].report \in Report
        BY <1>5, <3>1 DEF UploadFinalize, UploadType, References
      <3>6. \A q \in Report : job'[q].status = "pending" => job'[q].tries < MaxTries
        BY <2>1, <3>1, <3>2, ReportAssumption DEF References
      <3>7. job' \in [Report -> JobType]
        BY <2>1, <3>1, <3>2
      <3>8. QED
        BY <1>5, <3>3, <3>4, <3>5, <3>6, <3>7 DEF UploadFinalize, References
    <2>3. CASE ~(row[r].alive /\ j # None)
      BY <1>5, <2>3 DEF UploadFinalize, References, EndedUpload
    <2>4. QED
      BY <2>2, <2>3
  <1>6. CASE UploadDies(u)
    BY <1>6 DEF UploadDies, References, EndedUpload
  <1>7. QED
    BY <1>1, <1>2, <1>3, <1>4, <1>5, <1>6

LEMMA WorkersKeepTypes ==
    ASSUME TypeOK, References, Ownership, NEW w \in Worker,
           (\E r \in Report : Claim(w, r)) \/ StreamChunk(w) \/ PersistBegin(w) \/ PersistDraft(w)
             \/ PersistCommit(w) \/ JobFails(w)
    PROVE  TypeOK' /\ References'
  <1> USE ConstantsTyped DEF TypeOK, WorkerPcs
  <1> DEFINE r == worker[w].report
  <1>1. ASSUME NEW q \in Report, Claim(w, q) PROVE TypeOK' /\ References'
    <2>1. job[q].tries + 1 \in 0..MaxTries
      <3>1. job[q].tries < MaxTries
        BY <1>1 DEF Claim, References
      <3>2. job[q].tries \in 0..MaxTries
        BY DEF JobType
      <3>3. QED
        BY <3>1, <3>2, ReportAssumption
    <2>2. job' \in [Report -> JobType]
      BY <1>1, <2>1 DEF Claim, JobType
    <2>3. worker' \in [Worker -> WorkerType] /\ worker'[w].report \in Report
          /\ \A v \in Worker : v # w => worker'[v] = worker[v]
      BY <1>1 DEF Claim, WorkerType
    <2>4. \A p \in Report : job'[p].status = "pending" => job'[p] = job[p]
      BY <1>1 DEF Claim, JobType
    <2>5. QED
      BY <1>1, <2>2, <2>3, <2>4 DEF Claim, References
  <1>2. CASE StreamChunk(w)
    <2>1. r \in Report /\ ledger' \in Counts
      BY <1>2, ReportAssumption DEF StreamChunk, References, Counts
    <2>2. QED
      BY <1>2, <2>1 DEF StreamChunk, References
  <1>3. CASE PersistBegin(w)
    <2>1. worker' \in [Worker -> WorkerType]
      BY <1>3 DEF PersistBegin, WorkerType
    <2>2. \A v \in Worker : worker'[v].report = worker[v].report
             /\ (worker'[v].pc = "idle" <=> worker[v].pc = "idle")
      BY <1>3 DEF PersistBegin, WorkerType
    <2>3. QED
      BY <1>3, <2>1, <2>2 DEF PersistBegin, References
  <1>4. CASE PersistDraft(w)
    <2>1. worker' \in [Worker -> WorkerType]
      BY <1>4 DEF PersistDraft, WorkerType
    <2>2. \A v \in Worker : worker'[v].report = worker[v].report
             /\ (worker'[v].pc = "idle" <=> worker[v].pc = "idle")
      BY <1>4 DEF PersistDraft, WorkerType
    <2>3. QED
      BY <1>4, <2>1, <2>2 DEF PersistDraft, References
  <1>5. CASE PersistCommit(w)
    <2>1. r \in Report
      BY <1>5 DEF PersistCommit, References
    <2>2. job' \in [Report -> JobType]
      BY <1>5, <2>1 DEF PersistCommit, JobType
    <2>3. \A d \in Date : Drawn(worker[w].rows, worker[w].costs, d) \in AggType
      BY DrawnTyped DEF WorkerType
    <2>4. agg' \in [Date -> AggType]
      BY <1>5, <2>3 DEF PersistCommit
    <2>5. raced' \subseteq Date
      BY <1>5, <2>1, DatesTyped DEF PersistCommit
    <2>6. handler' \in [Handler -> HandlerType]
      BY <1>5 DEF PersistCommit, HandlerType
    <2>7. \A p \in Report : job'[p].status = "pending" => job'[p] = job[p]
      BY <1>5, <2>1 DEF PersistCommit, JobType
    <2>8. worker' = [worker EXCEPT ![w] = IdleWorker]
      BY <1>5 DEF PersistCommit
    <2>9. QED
      BY <1>5, <2>2, <2>4, <2>5, <2>6, <2>7, <2>8 DEF PersistCommit, References, IdleWorker
  <1>6. CASE JobFails(w)
    <2>1. r \in Report
      BY <1>6 DEF JobFails, References
    <2>2. job' = [job EXCEPT ![r] = [job[r] EXCEPT !.status = Failed(job[r])]]
      BY <1>6 DEF JobFails
    <2>3. job' \in [Report -> JobType]
      BY <2>1, <2>2, FailedTyped
    <2>4. \A p \in Report : job'[p].status = "pending" => job'[p].tries < MaxTries
      BY <2>1, <2>2, FailedTyped DEF References, JobType
    <2>5. worker' = [worker EXCEPT ![w] = IdleWorker]
      BY <1>6 DEF JobFails
    <2>6. QED
      BY <1>6, <2>3, <2>4, <2>5 DEF JobFails, References, IdleWorker
  <1>7. QED
    BY <1>1, <1>2, <1>3, <1>4, <1>5, <1>6

LEMMA HandlersKeepTypes ==
    ASSUME TypeOK, References, NEW h \in Handler,
           (\E r \in Report : DeleteBegin(h, r)) \/ EditCosts(h) \/ RefreshBegin(h) \/ Purge(h)
             \/ RefreshCommit(h) \/ DeleteCommit(h) \/ HandlerDies(h)
    PROVE  TypeOK' /\ References'
  <1> USE ConstantsTyped DEF TypeOK, HandlerPcs
  <1>1. ASSUME NEW r \in Report, DeleteBegin(h, r) PROVE TypeOK' /\ References'
    <2>1. [IdleHandler EXCEPT !.pc = "costs", !.report = r, !.path = row[r].path, !.costs = costs,
             !.dates = IF ledger[r] > 0 THEN Dates(r) ELSE {}] \in HandlerType
      BY DatesTyped DEF HandlerType, RowType
    <2>2. QED
      BY <1>1, <2>1 DEF DeleteBegin, References
  <1>2. CASE EditCosts(h)
    <2>1. costs + 1 \in Versions
      BY <1>2, ReportAssumption DEF EditCosts, Versions
    <2>2. [IdleHandler EXCEPT !.pc = "edited", !.edit = costs + 1] \in HandlerType
      BY <2>1 DEF HandlerType
    <2>3. handler' \in [Handler -> HandlerType]
      BY <1>2, <2>2 DEF EditCosts, HandlerType
    <2>4. worker' \in [Worker -> WorkerType]
          /\ \A v \in Worker : worker'[v].pc = worker[v].pc /\ worker'[v].report = worker[v].report
      BY <1>2 DEF EditCosts, WorkerType
    <2>5. QED
      BY <1>2, <2>1, <2>3, <2>4 DEF EditCosts, References
  <1>3. CASE RefreshBegin(h)
    <2>1. LedgerDates \subseteq Date
      BY DatesTyped DEF LedgerDates, Alive
    <2>2. [handler[h] EXCEPT !.pc = "costs", !.costs = costs, !.dates = LedgerDates] \in HandlerType
      BY <2>1 DEF HandlerType
    <2>3. handler' = [handler EXCEPT ![h] =
            [handler[h] EXCEPT !.pc = "costs", !.costs = costs, !.dates = LedgerDates]]
      BY <1>3 DEF RefreshBegin
    <2>4. handler' \in [Handler -> HandlerType]
      BY <2>2, <2>3
    <2>5. QED
      BY <1>3, <2>4 DEF RefreshBegin, References
  <1>4. CASE Purge(h)
    <2>1. {d \in handler[h].dates : HasRows(d)} \subseteq Date
      BY DEF HandlerType
    <2>2. [handler[h] EXCEPT !.pc = "purged", !.rows = ledger,
                             !.locked = {d \in handler[h].dates : HasRows(d)}] \in HandlerType
      BY <2>1 DEF HandlerType
    <2>3. handler' = [handler EXCEPT ![h] =
            [handler[h] EXCEPT !.pc = "purged", !.rows = ledger,
                               !.locked = {d \in handler[h].dates : HasRows(d)}]]
      BY <1>4 DEF Purge
    <2>4. handler' \in [Handler -> HandlerType]
      BY <2>2, <2>3
    <2>5. QED
      BY <1>4, <2>4 DEF Purge, References
  <1>5. Rewritten(h) \in [Date -> AggType] /\ RacedAfter(h) \subseteq Date
    BY DrawnTyped DEF Rewritten, RacedAfter, HandlerType
  <1>6. CASE RefreshCommit(h)
    <2>1. answered' \in Versions
      BY <1>6 DEF RefreshCommit, HandlerType
    <2>2. QED
      BY <1>5, <1>6, <2>1 DEF RefreshCommit, References
  <1>7. CASE DeleteCommit(h)
    <2> DEFINE r == handler[h].report
    <2>1. r \in Report /\ doomed' \subseteq Paths
      BY <1>7 DEF DeleteCommit, HandlerType
    <2>2. row' \in [Report -> RowType]
      BY <1>7, <2>1 DEF DeleteCommit, RowType
    <2>3. job' \in [Report -> JobType]
      BY <1>7, <2>1 DEF DeleteCommit
    <2>4. ledger' \in Counts
      BY <1>7, <2>1, ReportAssumption DEF DeleteCommit, Counts
    <2>5. \A p \in Report : job'[p].status = "pending" => job'[p] = job[p]
      BY <1>7, <2>1 DEF DeleteCommit, NoJob
    <2>6. QED
      BY <1>5, <1>7, <2>1, <2>2, <2>3, <2>4, <2>5 DEF DeleteCommit, References
  <1>8. CASE HandlerDies(h)
    BY <1>8 DEF HandlerDies, References
  <1>9. QED
    BY <1>1, <1>2, <1>3, <1>4, <1>6, <1>7, <1>8

LEMMA TypesKept ==
    TypeOK /\ References /\ Ownership /\ [Next]_vars => TypeOK' /\ References'
  <1> SUFFICES ASSUME TypeOK, References, Ownership, [Next]_vars PROVE TypeOK' /\ References'
    OBVIOUS
  <1>1. ASSUME NEW p \in Paths, RemoveFile(p) PROVE TypeOK' /\ References'
    BY <1>1 DEF RemoveFile, TypeOK, References
  <1>2. CASE UNCHANGED vars
    BY <1>2 DEF vars, TypeOK, References
  <1>3. QED
    BY <1>1, <1>2, UploadsKeepTypes, WorkersKeepTypes, HandlersKeepTypes DEF Next

(***************************************************************************)
(* 2. Identities and what uploads are promised.                            *)
(***************************************************************************)
LEMMA AliveHasFile ==
    ASSUME Identity, NEW r \in Report, row[r].alive
    PROVE  row[r].file \in File
  <1>1. NoRow.alive = FALSE
    BY DEF NoRow
  <1>2. row[r] # NoRow
    BY <1>1
  <1>3. QED
    BY <1>2 DEF Identity

LEMMA IdentityFrame ==
    ASSUME Identity, UNCHANGED <<row, job, doomed, handler>>
    PROVE  Identity'
  BY DEF Identity

(* A job changes its status, never from or to "none", and nothing else.    *)
LEMMA IdentityOfJobs ==
    ASSUME TypeOK, Identity, NEW r \in Report, NEW j \in JobType,
           job[r].status # "none", j.status # "none", j.path = job[r].path,
           job' = [job EXCEPT ![r] = j], UNCHANGED <<row, doomed>>,
           \A h \in Handler : handler'[h].report = handler[h].report /\ handler'[h].path = handler[h].path
    PROVE  Identity'
  <1>1. \A q \in Report : job'[q].path = job[q].path
            /\ (job'[q].status = "none" <=> job[q].status = "none")
    BY DEF TypeOK
  <1>2. QED
    BY <1>1 DEF Identity

LEMMA HandlersKeepRows ==
    ASSUME Identity, UNCHANGED <<row, job, doomed>>,
           \A h \in Handler : handler'[h].report # None =>
              \/ handler'[h].report = handler[h].report /\ handler'[h].path = handler[h].path
              \/ /\ handler'[h].path \in Pathed(handler'[h].report) \cup {None}
                 /\ row[handler'[h].report].file \in File
    PROVE  Identity'
  BY DEF Identity

LEMMA UploadsKeepIdentity ==
    ASSUME TypeOK, References, Identity, NEW u \in Upload,
           UploadFind(u) \/ UploadCheck(u) \/ UploadCreate(u) \/ UploadStore(u)
             \/ UploadFinalize(u) \/ UploadDies(u)
    PROVE  Identity'
  <1>1. CASE UploadFind(u) \/ UploadCheck(u) \/ UploadStore(u) \/ UploadDies(u)
    BY <1>1, IdentityFrame DEF UploadFind, UploadCheck, UploadStore, UploadDies
  <1>2. CASE UploadCreate(u)
    <2>1. CASE UNCHANGED row
      BY <1>2, <2>1, IdentityFrame DEF UploadCreate
    <2>2. CASE row' # row
      <3>1. PICK r \in Report :
              /\ row[r] = NoRow
              /\ row' = [row EXCEPT ![r] = [alive |-> TRUE, file |-> FileOf[u], path |-> None]]
        BY <1>2, <2>2 DEF UploadCreate
      <3>2. \A q \in Report : q # r => row'[q] = row[q]
        BY <3>1 DEF TypeOK
      <3>3. row'[r].alive /\ row'[r].file \in File /\ row'[r].path = None
        BY <3>1, ReportAssumption DEF TypeOK
      <3>4. row[r].file = None /\ ~row[r].alive /\ row[r].file \notin File
        BY <3>1, ReportAssumption DEF NoRow
      <3>5. UNCHANGED <<job, doomed, handler>>
        BY <1>2 DEF UploadCreate
      <3>6. \A h \in Handler : handler[h].report # None =>
              handler[h].report \in Report /\ handler[h].report # r
        BY <3>4 DEF Identity, TypeOK, HandlerType
      <3>7. \A q \in Report : row'[q] = NoRow \/ row'[q].file \in File
        BY <3>2, <3>3 DEF Identity
      <3>8. \A q \in Report : row'[q].path \in Pathed(q) \cup {None} /\ job'[q].path \in Pathed(q) \cup {None}
        BY <3>2, <3>3, <3>5 DEF Identity
      <3>9. \A q \in Report : job'[q].status # "none" => row'[q].alive
        BY <3>2, <3>3, <3>5 DEF Identity
      <3>10. \A q \in Report : row'[q].alive /\ row'[q].path # None => job'[q].status # "none"
        BY <3>2, <3>3, <3>5 DEF Identity
      <3>11. \A h \in Handler : handler'[h].report # None =>
               /\ handler'[h].path \in Pathed(handler'[h].report) \cup {None}
               /\ row'[handler'[h].report].file \in File
        BY <3>2, <3>5, <3>6 DEF Identity
      <3>12. \A p \in doomed' : \E q \in Report : p \in Pathed(q) /\ ~row'[q].alive /\ row'[q].file \in File
        BY <3>2, <3>4, <3>5 DEF Identity
      <3>13. QED
        BY <3>7, <3>8, <3>9, <3>10, <3>11, <3>12 DEF Identity
    <2>3. QED
      BY <2>1, <2>2
  <1>3. CASE UploadFinalize(u)
    <2> DEFINE r == upload[u].report
               p == PathOf(r, u)
               j == Enqueue(job[r], p)
    <2>1. r \in Report /\ p \in Paths /\ p \in Pathed(r)
      BY <1>3, PathTyped DEF UploadFinalize, References
    <2>2. CASE row[r].alive /\ j # None
      <3>1. row' = [row EXCEPT ![r].path = p] /\ job' = [job EXCEPT ![r] = j]
            /\ UNCHANGED <<doomed, handler>>
        BY <1>3, <2>2 DEF UploadFinalize
      <3>2. j.status # "none" /\ (j.path = p \/ j.path = job[r].path)
        BY <2>1, <2>2, EnqueueTyped DEF TypeOK, JobType
      <3>3. \A q \in Report : row'[q].alive = row[q].alive /\ row'[q].file = row[q].file
              /\ (q # r => row'[q] = row[q] /\ job'[q] = job[q])
        BY <2>1, <3>1 DEF TypeOK, RowType
      <3>4. row'[r].path = p /\ job'[r] = j
        BY <2>1, <3>1 DEF TypeOK, RowType
      <3>5. \A q \in Report : row'[q] = NoRow \/ row'[q].file \in File
        BY <2>1, <2>2, <3>3, AliveHasFile DEF Identity
      <3>6. \A q \in Report : row'[q].path \in Pathed(q) \cup {None} /\ job'[q].path \in Pathed(q) \cup {None}
        BY <2>1, <3>2, <3>3, <3>4 DEF Identity
      <3>7. \A q \in Report : job'[q].status # "none" => row'[q].alive
        BY <2>2, <3>3 DEF Identity
      <3>8. \A q \in Report : row'[q].alive /\ row'[q].path # None => job'[q].status # "none"
        BY <3>2, <3>3, <3>4 DEF Identity
      <3>9. \A h \in Handler : handler'[h].report # None =>
               /\ handler'[h].path \in Pathed(handler'[h].report) \cup {None}
               /\ row'[handler'[h].report].file \in File
        BY <3>1, <3>3 DEF Identity, TypeOK, HandlerType
      <3>10. \A x \in doomed' : \E q \in Report : x \in Pathed(q) /\ ~row'[q].alive /\ row'[q].file \in File
        BY <3>1, <3>3 DEF Identity
      <3>11. QED
        BY <3>5, <3>6, <3>7, <3>8, <3>9, <3>10 DEF Identity
    <2>3. CASE ~(row[r].alive /\ j # None)
      BY <1>3, <2>3, IdentityFrame DEF UploadFinalize
    <2>4. QED
      BY <2>2, <2>3
  <1>4. QED
    BY <1>1, <1>2, <1>3

LEMMA WorkersKeepIdentity ==
    ASSUME TypeOK, References, Identity, Ownership, NEW w \in Worker,
           (\E r \in Report : Claim(w, r)) \/ StreamChunk(w) \/ PersistBegin(w) \/ PersistDraft(w)
             \/ PersistCommit(w) \/ JobFails(w)
    PROVE  Identity'
  <1> DEFINE r == worker[w].report
  <1>1. CASE StreamChunk(w) \/ PersistBegin(w) \/ PersistDraft(w)
    BY <1>1, IdentityFrame DEF StreamChunk, PersistBegin, PersistDraft
  <1>2. ASSUME NEW q \in Report, Claim(w, q) PROVE Identity'
    <2>1. [job[q] EXCEPT !.status = "processing", !.tries = @ + 1] \in JobType
      <3>1. job[q].tries < MaxTries /\ job[q].tries \in 0..MaxTries
        BY <1>2 DEF Claim, References, TypeOK, JobType
      <3>2. job[q].tries + 1 \in 0..MaxTries
        BY <3>1, ReportAssumption
      <3>3. QED
        BY <3>2 DEF TypeOK, JobType
    <2>2. job' = [job EXCEPT ![q] = [job[q] EXCEPT !.status = "processing", !.tries = @ + 1]]
          /\ job[q].status = "pending" /\ UNCHANGED <<row, doomed, handler>>
      BY <1>2 DEF Claim
    <2>3. QED
      BY <2>1, <2>2, IdentityOfJobs DEF TypeOK, JobType
  <1>3. CASE PersistCommit(w)
    <2>1. r \in Report /\ row[r].alive /\ job[r].status = "processing"
      BY <1>3 DEF PersistCommit, References, Ownership, Persists
    <2>2. job' = [job EXCEPT ![r] = [job[r] EXCEPT !.status = "completed"]]
          /\ UNCHANGED <<row, doomed>>
          /\ \A h \in Handler : handler'[h].report = handler[h].report /\ handler'[h].path = handler[h].path
      BY <1>3 DEF PersistCommit, TypeOK, HandlerType
    <2>3. [job[r] EXCEPT !.status = "completed"] \in JobType
      BY <2>1 DEF TypeOK, JobType
    <2>4. QED
      BY <2>1, <2>2, <2>3, IdentityOfJobs DEF TypeOK, JobType
  <1>4. CASE JobFails(w)
    <2>1. r \in Report /\ job' = [job EXCEPT ![r] = [job[r] EXCEPT !.status = Failed(job[r])]]
          /\ UNCHANGED <<row, doomed, handler>>
      BY <1>4 DEF JobFails, References
    <2>2. CASE job[r].status = "processing"
      <3>1. [job[r] EXCEPT !.status = Failed(job[r])] \in JobType
            /\ Failed(job[r]) # "none"
        BY <2>1, <2>2, FailedTyped DEF TypeOK
      <3>2. QED
        BY <2>1, <2>2, <3>1, IdentityOfJobs DEF TypeOK, JobType
    <2>3. CASE job[r].status # "processing"
      <3>1. job' = job
        BY <2>1, <2>3, FailedTyped DEF TypeOK
      <3>2. QED
        BY <2>1, <3>1, IdentityFrame
    <2>4. QED
      BY <2>2, <2>3
  <1>5. QED
    BY <1>1, <1>2, <1>3, <1>4

LEMMA HandlersKeepIdentity ==
    ASSUME TypeOK, References, Identity, NEW h \in Handler,
           (\E r \in Report : DeleteBegin(h, r)) \/ EditCosts(h) \/ RefreshBegin(h) \/ Purge(h)
             \/ RefreshCommit(h) \/ DeleteCommit(h) \/ HandlerDies(h)
    PROVE  Identity'
  <1>1. ASSUME NEW r \in Report, DeleteBegin(h, r) PROVE Identity'
    <2>1. row[r].file \in File /\ row[r].path \in Pathed(r) \cup {None}
      BY <1>1, AliveHasFile DEF DeleteBegin, Identity
    <2>2. handler'[h].report = r /\ handler'[h].path = row[r].path
          /\ \A g \in Handler : g # h => handler'[g] = handler[g]
      BY <1>1 DEF DeleteBegin, TypeOK, IdleHandler
    <2>3. QED
      BY <1>1, <2>1, <2>2, HandlersKeepRows DEF DeleteBegin
  <1>2. CASE EditCosts(h) \/ RefreshBegin(h) \/ Purge(h) \/ RefreshCommit(h) \/ HandlerDies(h)
    <2>1. \A g \in Handler :
            \/ handler'[g].report = None
            \/ handler'[g].report = handler[g].report /\ handler'[g].path = handler[g].path
      <3>1. CASE EditCosts(h)
        <4>1. handler'[h].report = None
          BY <3>1 DEF EditCosts, IdleHandler
        <4>2. \A g \in Handler : g # h =>
                handler'[g].report = handler[g].report /\ handler'[g].path = handler[g].path
          BY <3>1 DEF EditCosts, TypeOK, HandlerType
        <4>3. QED
          BY <4>1, <4>2
      <3>2. CASE RefreshBegin(h) \/ Purge(h)
        BY <3>2 DEF RefreshBegin, Purge, TypeOK, HandlerType
      <3>3. CASE RefreshCommit(h) \/ HandlerDies(h)
        <4>1. handler' = [handler EXCEPT ![h] = IdleHandler] /\ IdleHandler.report = None
          BY <3>3 DEF RefreshCommit, HandlerDies, IdleHandler
        <4>2. QED
          BY <4>1 DEF TypeOK
      <3>4. QED
        BY <1>2, <3>1, <3>2, <3>3
    <2>2. QED
      BY <1>2, <2>1, HandlersKeepRows DEF EditCosts, RefreshBegin, Purge, RefreshCommit, HandlerDies
  <1>3. CASE DeleteCommit(h)
    <2> DEFINE r == handler[h].report
    <2>1. /\ r \in Report /\ r # None
          /\ row' = [row EXCEPT ![r].alive = FALSE] /\ job' = [job EXCEPT ![r] = NoJob]
          /\ doomed' = doomed \cup ({handler[h].path} \ {None})
          /\ handler' = [handler EXCEPT ![h] = IdleHandler]
      BY <1>3 DEF DeleteCommit, TypeOK, HandlerType
    <2>2. handler[h].path \in Pathed(r) \cup {None} /\ row[r].file \in File
      BY <2>1 DEF Identity
    <2>3. /\ \A q \in Report : row'[q].file = row[q].file /\ row'[q].path = row[q].path
                                /\ (q # r => row'[q] = row[q] /\ job'[q] = job[q])
          /\ ~row'[r].alive /\ job'[r] = NoJob
      BY <2>1 DEF TypeOK, RowType
    <2>4. \A q \in Report : row'[q] = NoRow \/ row'[q].file \in File
      BY <2>2, <2>3 DEF Identity
    <2>5. \A q \in Report : row'[q].path \in Pathed(q) \cup {None} /\ job'[q].path \in Pathed(q) \cup {None}
      BY <2>3 DEF Identity, NoJob
    <2>6. \A q \in Report : job'[q].status # "none" => row'[q].alive
      BY <2>3 DEF Identity, NoJob
    <2>7. \A q \in Report : row'[q].alive /\ row'[q].path # None => job'[q].status # "none"
      BY <2>3 DEF Identity
    <2>8. \A g \in Handler : handler'[g].report # None =>
             /\ handler'[g].path \in Pathed(handler'[g].report) \cup {None}
             /\ row'[handler'[g].report].file \in File
      BY <2>1, <2>3 DEF Identity, TypeOK, HandlerType, IdleHandler
    <2>9. \A x \in doomed' : \E q \in Report : x \in Pathed(q) /\ ~row'[q].alive /\ row'[q].file \in File
      BY <2>1, <2>2, <2>3 DEF Identity
    <2>10. QED
      BY <2>4, <2>5, <2>6, <2>7, <2>8, <2>9 DEF Identity
  <1>4. QED
    BY <1>1, <1>2, <1>3

LEMMA IdentityKept ==
    TypeOK /\ References /\ Identity /\ Ownership /\ [Next]_vars => Identity'
  <1> SUFFICES ASSUME TypeOK, References, Identity, Ownership, [Next]_vars PROVE Identity'
    OBVIOUS
  <1>1. ASSUME NEW p \in Paths, RemoveFile(p) PROVE Identity'
    BY <1>1 DEF RemoveFile, Identity
  <1>2. CASE UNCHANGED vars
    BY <1>2, IdentityFrame DEF vars
  <1>3. QED
    BY <1>1, <1>2, UploadsKeepIdentity, WorkersKeepIdentity, HandlersKeepIdentity DEF Next

(* The files of unfinished jobs and of uploads on their way stay.          *)
LEMMA ServedFrame ==
    ASSUME Served, UNCHANGED <<row, job, stored, upload>>
    PROVE  Served'
  BY DEF Served

LEMMA UploadsKeepServed ==
    ASSUME TypeOK, References, Identity, Served, NEW u \in Upload,
           UploadFind(u) \/ UploadCheck(u) \/ UploadCreate(u) \/ UploadStore(u)
             \/ UploadFinalize(u) \/ UploadDies(u)
    PROVE  Served'
  <1> DEFINE r == upload[u].report
  <1> USE DEF TypeOK
  <1>1. CASE UploadFind(u)
    <2>1. upload'[u].pc # "finalize" /\ upload'[u].pc # "ok"
          /\ (upload'[u].pc = "check" => row[upload'[u].report].path # None)
          /\ (upload'[u].pc = "store" => row[upload'[u].report].file \in File)
          /\ \A v \in Upload : v # u => upload'[v] = upload[v]
      <3>1. CASE upload' = [upload EXCEPT ![u].pc = "create"]
        BY <3>1 DEF UploadType
      <3>2. CASE \E q \in Alive :
                   /\ row[q].file = FileOf[u]
                   /\ upload' = [upload EXCEPT ![u] =
                                   [pc |-> IF row[q].path = None THEN "store" ELSE "check", report |-> q]]
        <4>1. PICK q \in Alive :
                /\ row[q].file = FileOf[u]
                /\ upload' = [upload EXCEPT ![u] =
                                [pc |-> IF row[q].path = None THEN "store" ELSE "check", report |-> q]]
          BY <3>2
        <4>2. upload'[u] = [pc |-> IF row[q].path = None THEN "store" ELSE "check", report |-> q]
          BY <4>1
        <4>3. row[q].file \in File
          BY <4>1, ReportAssumption
        <4>4. QED
          BY <4>1, <4>2, <4>3
      <3>3. QED
        BY <1>1, <3>1, <3>2 DEF UploadFind
    <2>2. UNCHANGED <<row, job, stored>>
      BY <1>1 DEF UploadFind
    <2>3. QED
      BY <2>1, <2>2 DEF Served
  <1>2. CASE UploadCheck(u) \/ UploadDies(u)
    <2>1. /\ \A v \in Upload : v # u => upload'[v] = upload[v]
          /\ \/ upload'[u] = EndedUpload
             \/ upload[u].pc = "check" /\ upload'[u].pc = "ok" /\ upload'[u].report = r
      BY <1>2 DEF UploadCheck, UploadDies, UploadType
    <2>2. UNCHANGED <<row, job, stored>>
      BY <1>2 DEF UploadCheck, UploadDies
    <2>3. QED
      BY <2>1, <2>2 DEF Served, EndedUpload
  <1>3. CASE UploadCreate(u)
    <2>1. CASE \E q \in Alive : row[q].file = FileOf[u]
      <3>1. upload' = [upload EXCEPT ![u] = EndedUpload] /\ UNCHANGED <<row, job, stored>>
        BY <1>3, <2>1 DEF UploadCreate
      <3>2. EndedUpload.pc = "ended"
        BY DEF EndedUpload
      <3>3. QED
        BY <3>1, <3>2 DEF Served
    <2>2. CASE ~ \E q \in Alive : row[q].file = FileOf[u]
      <3>1. PICK q \in Report :
              /\ row[q] = NoRow
              /\ row' = [row EXCEPT ![q] = [alive |-> TRUE, file |-> FileOf[u], path |-> None]]
              /\ upload' = [upload EXCEPT ![u].pc = "store", ![u].report = q]
        BY <1>3, <2>2 DEF UploadCreate
      <3>2. UNCHANGED <<job, stored>>
        BY <1>3 DEF UploadCreate
      <3>3. \A p \in Report : p # q => row'[p] = row[p]
        BY <3>1
      <3>4. row'[q].file \in File
        BY <3>1, ReportAssumption
      <3>5. row[q].file \notin File /\ row[q].path = None
        BY <3>1, ReportAssumption DEF NoRow
      <3>6. /\ upload'[u].pc = "store" /\ upload'[u].report = q
            /\ \A v \in Upload : v # u => upload'[v] = upload[v]
        BY <3>1 DEF UploadType
      <3>7. \A v \in Upload : v # u /\ upload[v].pc \in {"check", "ok", "store", "finalize"} =>
              upload[v].report # q /\ row'[upload[v].report] = row[upload[v].report]
        BY <3>3, <3>5 DEF Served, References
      <3>8. QED
        BY <3>2, <3>4, <3>6, <3>7 DEF Served
    <2>3. QED
      BY <2>1, <2>2
  <1>4. CASE UploadStore(u)
    <2>1. /\ upload[u].pc = "store" /\ upload'[u].pc = "finalize" /\ upload'[u].report = r
          /\ stored' = stored \cup {PathOf(r, u)} /\ UNCHANGED <<row, job>>
          /\ \A v \in Upload : v # u => upload'[v] = upload[v]
      BY <1>4 DEF UploadStore, UploadType
    <2>2. QED
      BY <2>1 DEF Served
  <1>5. CASE UploadFinalize(u)
    <2> DEFINE p == PathOf(r, u)
               j == Enqueue(job[r], p)
    <2>1. r \in Report /\ p \in Pathed(r) /\ p \in Paths
      BY <1>5, PathTyped DEF UploadFinalize, References
    <2>2. CASE row[r].alive /\ j # None
      <3>1. /\ row' = [row EXCEPT ![r].path = p] /\ job' = [job EXCEPT ![r] = j]
            /\ upload' = [upload EXCEPT ![u].pc = "ok"] /\ UNCHANGED stored
        BY <1>5, <2>2 DEF UploadFinalize
      <3>2. p # None
        BY <2>1, ReportAssumption DEF Pathed
      <3>3. \/ j.status \in {"pending", "processing"} /\ j = job[r]
            \/ j.status = "pending" /\ j.path = p
        BY <2>1, <2>2, EnqueueTyped
      <3>4. p \in stored
        BY <1>5, <2>2 DEF UploadFinalize, Served
      <3>5. /\ \A q \in Report : row'[q].alive = row[q].alive /\ row'[q].file = row[q].file
              /\ (row[q].path # None => row'[q].path # None)
              /\ (q # r => job'[q] = job[q])
            /\ row'[r].path # None /\ job'[r] = j
        BY <2>1, <3>1, <3>2 DEF RowType
      <3>6. /\ upload'[u].pc = "ok" /\ upload'[u].report = r
            /\ \A v \in Upload : v # u => upload'[v] = upload[v]
        BY <3>1 DEF UploadType
      <3>7. \A v \in Upload : upload'[v].pc \in {"check", "ok"} => row'[upload'[v].report].path # None
        BY <3>5, <3>6 DEF Served, References
      <3>8. \A v \in Upload : upload'[v].pc \in {"store", "finalize"} => row'[upload'[v].report].file \in File
        BY <3>5, <3>6 DEF Served, References
      <3>9. \A v \in Upload : upload'[v].pc = "finalize" /\ row'[upload'[v].report].alive =>
              PathOf(upload'[v].report, v) \in stored'
        BY <3>1, <3>5, <3>6 DEF Served, References
      <3>10. \A q \in Report : job'[q].status \in {"pending", "processing"} => job'[q].path \in stored'
        BY <3>1, <3>3, <3>4, <3>5 DEF Served
      <3>11. QED
        BY <3>7, <3>8, <3>9, <3>10 DEF Served
    <2>3. CASE ~(row[r].alive /\ j # None)
      <3>1. upload' = [upload EXCEPT ![u] = EndedUpload] /\ UNCHANGED <<row, job, stored>>
        BY <1>5, <2>3 DEF UploadFinalize
      <3>2. EndedUpload.pc = "ended"
        BY DEF EndedUpload
      <3>3. QED
        BY <3>1, <3>2 DEF Served
    <2>4. QED
      BY <2>2, <2>3
  <1>6. QED
    BY <1>1, <1>2, <1>3, <1>4, <1>5

(* Jobs that a worker moves: no job becomes active with another path.      *)
LEMMA ServedOfJobs ==
    ASSUME Served, UNCHANGED <<row, stored, upload>>,
           \A r \in Report : job'[r].status \in {"pending", "processing"} =>
              job[r].status \in {"pending", "processing"} /\ job'[r].path = job[r].path
    PROVE  Served'
  BY DEF Served

LEMMA WorkersKeepServed ==
    ASSUME TypeOK, References, Served, NEW w \in Worker,
           (\E r \in Report : Claim(w, r)) \/ StreamChunk(w) \/ PersistBegin(w) \/ PersistDraft(w)
             \/ PersistCommit(w) \/ JobFails(w)
    PROVE  Served'
  <1> DEFINE r == worker[w].report
  <1>1. CASE StreamChunk(w) \/ PersistBegin(w) \/ PersistDraft(w)
    BY <1>1, ServedFrame DEF StreamChunk, PersistBegin, PersistDraft
  <1>2. ASSUME NEW q \in Report, Claim(w, q) PROVE Served'
    <2>1. \A p \in Report : job'[p].status \in {"pending", "processing"} =>
            job[p].status \in {"pending", "processing"} /\ job'[p].path = job[p].path
      BY <1>2 DEF Claim, TypeOK, JobType
    <2>2. QED
      BY <1>2, <2>1, ServedOfJobs DEF Claim
  <1>3. CASE PersistCommit(w)
    <2>1. \A p \in Report : job'[p].status \in {"pending", "processing"} =>
            job[p].status \in {"pending", "processing"} /\ job'[p].path = job[p].path
      BY <1>3 DEF PersistCommit, References, TypeOK, JobType
    <2>2. QED
      BY <1>3, <2>1, ServedOfJobs DEF PersistCommit
  <1>4. CASE JobFails(w)
    <2>1. r \in Report /\ job' = [job EXCEPT ![r] = [job[r] EXCEPT !.status = Failed(job[r])]]
      BY <1>4 DEF JobFails, References
    <2>2. \A p \in Report : job'[p].status \in {"pending", "processing"} =>
            job[p].status \in {"pending", "processing"} /\ job'[p].path = job[p].path
      <3>1. CASE job[r].status = "processing"
        BY <2>1, <3>1 DEF TypeOK, JobType
      <3>2. CASE job[r].status # "processing"
        <4>1. job' = job
          BY <2>1, <3>2, FailedTyped DEF TypeOK
        <4>2. QED
          BY <4>1
      <3>3. QED
        BY <3>1, <3>2
    <2>3. QED
      BY <1>4, <2>2, ServedOfJobs DEF JobFails
  <1>5. QED
    BY <1>1, <1>2, <1>3, <1>4

LEMMA HandlersKeepServed ==
    ASSUME TypeOK, References, Served, NEW h \in Handler,
           (\E r \in Report : DeleteBegin(h, r)) \/ EditCosts(h) \/ RefreshBegin(h) \/ Purge(h)
             \/ RefreshCommit(h) \/ DeleteCommit(h) \/ HandlerDies(h)
    PROVE  Served'
  <1>1. CASE \/ \E r \in Report : DeleteBegin(h, r)
             \/ EditCosts(h) \/ RefreshBegin(h) \/ Purge(h) \/ RefreshCommit(h) \/ HandlerDies(h)
    BY <1>1, ServedFrame DEF DeleteBegin, EditCosts, RefreshBegin, Purge, RefreshCommit, HandlerDies
  <1>2. CASE DeleteCommit(h)
    <2> DEFINE r == handler[h].report
    <2>1. /\ r \in Report /\ row' = [row EXCEPT ![r].alive = FALSE] /\ job' = [job EXCEPT ![r] = NoJob]
          /\ UNCHANGED <<stored, upload>>
      BY <1>2 DEF DeleteCommit, TypeOK, HandlerType
    <2>2. /\ \A q \in Report : /\ row'[q].file = row[q].file /\ row'[q].path = row[q].path
                               /\ row'[q].alive => row[q].alive
                               /\ q # r => job'[q] = job[q]
          /\ job'[r].status = "none"
      BY <2>1 DEF TypeOK, RowType, NoJob
    <2>3. QED
      BY <2>1, <2>2 DEF Served, References
  <1>3. QED
    BY <1>1, <1>2

(* A background delete takes only files of reports that are gone.          *)
LEMMA RemovalsKeepServed ==
    ASSUME TypeOK, References, Identity, Served, NEW p \in Paths, RemoveFile(p)
    PROVE  Served'
  <1>1. PICK r \in Report : p \in Pathed(r) /\ ~row[r].alive
    BY DEF RemoveFile, Identity
  <1>2. UNCHANGED <<row, job, upload>> /\ \A x \in stored : x # p => x \in stored'
    BY DEF RemoveFile
  <1>3. ASSUME NEW q \in Report, NEW x \in Pathed(q), row[q].alive, x \in stored PROVE x \in stored'
    BY <1>1, <1>2, <1>3 DEF Pathed
  <1>4. \A v \in Upload : upload'[v].pc = "finalize" /\ row'[upload'[v].report].alive =>
          PathOf(upload'[v].report, v) \in stored'
    BY <1>2, <1>3, PathTyped DEF Served, References
  <1>5. ASSUME NEW q \in Report, job[q].status \in {"pending", "processing"}
        PROVE  job[q].path \in stored'
    <2>1. row[q].alive /\ job[q].path \in stored
      BY <1>5 DEF Identity, Served
    <2>2. CASE job[q].path \in Pathed(q)
      BY <1>3, <2>1, <2>2
    <2>3. CASE job[q].path = None
      BY <1>1, <1>2, <2>1, <2>3, ReportAssumption DEF Pathed
    <2>4. QED
      BY <2>2, <2>3 DEF Identity
  <1>6. QED
    BY <1>2, <1>4, <1>5 DEF Served

LEMMA ServedKept ==
    TypeOK /\ References /\ Identity /\ Served /\ [Next]_vars => Served'
  <1> SUFFICES ASSUME TypeOK, References, Identity, Served, [Next]_vars PROVE Served'
    OBVIOUS
  <1>1. CASE UNCHANGED vars
    BY <1>1, ServedFrame DEF vars
  <1>2. QED
    BY <1>1, UploadsKeepServed, WorkersKeepServed, HandlersKeepServed, RemovalsKeepServed DEF Next

(***************************************************************************)
(* 3. Ownership.                                                           *)
(***************************************************************************)
(* Steps that leave the workers alone, create or delete no row, and start   *)
(* no job but one that is not there.                                       *)
LEMMA OwnershipFrame ==
    ASSUME Ownership, References,
           \A w \in Worker : worker'[w].pc = worker[w].pc /\ worker'[w].report = worker[w].report,
           \A r \in Report :
              /\ row'[r].alive = row[r].alive /\ row'[r].file = row[r].file
              /\ ledger'[r] = ledger[r]
              /\ job[r].status = "processing" => job'[r].status = "processing"
              /\ job'[r].status = "completed" => job[r].status = "completed"
    PROVE  Ownership'
  <1>1. \A w \in Worker : Persists(w)' <=> Persists(w)
    BY DEF Persists
  <1>2. \A r \in Report : Completed(r)' => Completed(r)
    BY DEF Completed
  <1>3. \A w \in Worker : Persists(w) => worker[w].report \in Report
    BY DEF Persists, References
  <1>4. QED
    BY <1>1, <1>2, <1>3 DEF Ownership, References

LEMMA UploadsKeepOwnership ==
    ASSUME TypeOK, References, Identity, Ownership, NEW u \in Upload,
           UploadFind(u) \/ UploadCheck(u) \/ UploadCreate(u) \/ UploadStore(u)
             \/ UploadFinalize(u) \/ UploadDies(u)
    PROVE  Ownership'
  <1>1. CASE UploadFind(u) \/ UploadCheck(u) \/ UploadStore(u) \/ UploadDies(u)
    BY <1>1, OwnershipFrame DEF UploadFind, UploadCheck, UploadStore, UploadDies
  <1>2. CASE UploadCreate(u)
    <2>1. CASE UNCHANGED row
      BY <1>2, <2>1, OwnershipFrame DEF UploadCreate
    <2>2. CASE row' # row
      <3>1. PICK r \in Report :
              /\ row[r] = NoRow
              /\ row' = [row EXCEPT ![r] = [alive |-> TRUE, file |-> FileOf[u], path |-> None]]
        BY <1>2, <2>2 DEF UploadCreate
      <3>2. row[r].file \notin File /\ ~row[r].alive
        BY <3>1, ReportAssumption DEF NoRow
      <3>3. \A q \in Report : q # r => row'[q] = row[q]
        BY <3>1 DEF TypeOK
      <3>4. UNCHANGED <<job, worker, ledger>>
        BY <1>2 DEF UploadCreate
      <3>5. \A w \in Worker : worker[w].pc # "idle" =>
              worker[w].report # r /\ row'[worker[w].report] = row[worker[w].report]
        BY <3>2, <3>3 DEF Ownership, References
      <3>6. job[r].status = "none"
        BY <3>2 DEF Identity
      <3>7. \A q \in Report : Completed(q)' => Completed(q)
        BY <3>3, <3>4, <3>6 DEF Completed
      <3>8. \A w \in Worker : /\ Persists(w)' <=> Persists(w)
                              /\ Persists(w) => worker[w].pc # "idle"
        BY <3>4 DEF Persists
      <3>9. QED
        BY <3>4, <3>5, <3>7, <3>8 DEF Ownership
    <2>3. QED
      BY <2>1, <2>2
  <1>3. CASE UploadFinalize(u)
    <2> DEFINE r == upload[u].report
               p == PathOf(r, u)
               j == Enqueue(job[r], p)
    <2>1. r \in Report /\ p \in Paths
      BY <1>3, PathTyped DEF UploadFinalize, References
    <2>2. CASE row[r].alive /\ j # None
      <3>1. row' = [row EXCEPT ![r].path = p] /\ job' = [job EXCEPT ![r] = j]
            /\ UNCHANGED <<worker, ledger>>
        BY <1>3, <2>2 DEF UploadFinalize
      <3>2. j = job[r] \/ (job[r].status = "none" /\ j = [status |-> "pending", path |-> p, tries |-> 0])
        BY <2>1, <2>2, EnqueueTyped DEF TypeOK
      <3>3. \A q \in Report :
              /\ row'[q].alive = row[q].alive /\ row'[q].file = row[q].file
              /\ job[q].status = "processing" => job'[q].status = "processing"
              /\ job'[q].status = "completed" => job[q].status = "completed"
        BY <3>1, <3>2 DEF TypeOK, RowType
      <3>4. QED
        BY <3>1, <3>3, OwnershipFrame
    <2>3. CASE ~(row[r].alive /\ j # None)
      BY <1>3, <2>3, OwnershipFrame DEF UploadFinalize
    <2>4. QED
      BY <2>2, <2>3
  <1>4. QED
    BY <1>1, <1>2, <1>3

LEMMA WorkersKeepOwnership ==
    ASSUME TypeOK, References, Identity, Ownership, NEW w \in Worker,
           (\E r \in Report : Claim(w, r)) \/ StreamChunk(w) \/ PersistBegin(w) \/ PersistDraft(w)
             \/ PersistCommit(w) \/ JobFails(w)
    PROVE  Ownership'
  <1> DEFINE r == worker[w].report
  <1>1. ASSUME NEW q \in Report, Claim(w, q) PROVE Ownership'
    <2>1. job[q].status = "pending" /\ row[q].alive /\ row[q].file \in File
      BY <1>1, AliveHasFile DEF Claim, Identity
    <2>2. \A v \in Worker : worker[v].pc # "idle" => worker[v].report # q
      BY <2>1 DEF Ownership
    <2>3. /\ worker'[w].pc = "streaming" /\ worker'[w].report = q
          /\ \A v \in Worker : v # w => worker'[v] = worker[v]
      BY <1>1 DEF Claim, TypeOK, WorkerType
    <2>4. job'[q].status = "processing" /\ \A p \in Report : p # q => job'[p] = job[p]
      BY <1>1 DEF Claim, TypeOK, JobType
    <2>5. UNCHANGED <<row, ledger>>
      BY <1>1 DEF Claim
    <2>6. \A v \in Worker : Persists(v)' => Persists(v) /\ v # w /\ worker[v].pc # "idle"
      BY <2>3 DEF Persists
    <2>7. \A p \in Report : Completed(p)' => Completed(p)
      BY <2>4, <2>5 DEF Completed
    <2>8. QED
      BY <2>1, <2>2, <2>3, <2>4, <2>5, <2>6, <2>7 DEF Ownership, References
  <1>2. CASE StreamChunk(w)
    <2>1. \A q \in Report : ledger[q] = Chunks => ledger'[q] = ledger[q]
      BY <1>2 DEF StreamChunk, TypeOK, Counts
    <2>2. UNCHANGED <<row, job, worker>>
      BY <1>2 DEF StreamChunk
    <2>3. \A v \in Worker : Persists(v)' <=> Persists(v)
      BY <2>2 DEF Persists
    <2>4. \A q \in Report : Completed(q)' <=> Completed(q)
      BY <2>2 DEF Completed
    <2>5. \A v \in Worker : Persists(v) => worker[v].report \in Report
      BY DEF Persists, References
    <2>6. QED
      BY <2>1, <2>2, <2>3, <2>4, <2>5 DEF Ownership
  <1>3. CASE PersistBegin(w)
    <2>1. /\ \A v \in Worker : worker'[v].report = worker[v].report
                               /\ (worker'[v].pc = "idle" <=> worker[v].pc = "idle")
          /\ \A v \in Worker : v # w => worker'[v] = worker[v]
          /\ r \in Report /\ row[r].alive /\ ledger[r] = Chunks
      BY <1>3 DEF PersistBegin, References, TypeOK, WorkerType
    <2>2. UNCHANGED <<row, job, ledger>> /\ \A v \in Worker : ~Persists(v)
      BY <1>3 DEF PersistBegin, LockFree, Persists
    <2>3. \A v \in Worker : Persists(v)' => v = w
      BY <2>1, <2>2 DEF Persists
    <2>4. \A q \in Report : Completed(q)' <=> Completed(q)
      BY <2>2 DEF Completed
    <2>5. QED
      BY <2>1, <2>2, <2>3, <2>4 DEF Ownership
  <1>4. CASE PersistDraft(w)
    <2>1. /\ \A v \in Worker : worker'[v].report = worker[v].report
                               /\ (worker'[v].pc = "idle" <=> worker[v].pc = "idle")
          /\ \A v \in Worker : v # w => worker'[v] = worker[v]
          /\ Persists(w)
      BY <1>4 DEF PersistDraft, Persists, TypeOK, WorkerType
    <2>2. UNCHANGED <<row, job, ledger>>
      BY <1>4 DEF PersistDraft
    <2>3. \A v \in Worker : Persists(v)' => Persists(v)
      BY <2>1 DEF Persists
    <2>4. \A q \in Report : Completed(q)' <=> Completed(q)
      BY <2>2 DEF Completed
    <2>5. QED
      BY <2>1, <2>2, <2>3, <2>4 DEF Ownership
  <1>5. CASE PersistCommit(w) \/ JobFails(w)
    <2>1. /\ r \in Report /\ worker[w].pc # "idle"
          /\ worker' = [worker EXCEPT ![w] = IdleWorker] /\ UNCHANGED <<row, ledger>>
      BY <1>5 DEF PersistCommit, JobFails, References
    <2>2. \A q \in Report : q # r => job'[q] = job[q]
      BY <1>5, <2>1 DEF PersistCommit, JobFails, TypeOK
    <2>3. job'[r].status = "completed" =>
             job[r].status = "completed" \/ ledger[r] = Chunks
      <3>1. CASE PersistCommit(w)
        BY <3>1 DEF PersistCommit, Ownership, Persists
      <3>2. CASE JobFails(w)
        BY <2>1, <3>2 DEF JobFails, Failed, TypeOK, JobType
      <3>3. QED
        BY <1>5, <3>1, <3>2
    <2>4. worker'[w].pc = "idle" /\ \A v \in Worker : v # w => worker'[v] = worker[v]
      BY <2>1 DEF IdleWorker, TypeOK
    <2>5. \A v \in Worker : v # w /\ worker[v].pc # "idle" =>
            worker[v].report # r /\ job'[worker[v].report] = job[worker[v].report]
      BY <2>1, <2>2 DEF Ownership, References
    <2>6. \A v \in Worker : Persists(v)' => Persists(v) /\ v # w /\ worker[v].pc # "idle"
      BY <2>4 DEF Persists
    <2>7. \A q \in Report : Completed(q)' => ledger[q] = Chunks
      BY <2>1, <2>2, <2>3 DEF Completed, Ownership
    <2>8. QED
      BY <2>1, <2>4, <2>5, <2>6, <2>7 DEF Ownership
  <1>6. QED
    BY <1>1, <1>2, <1>3, <1>4, <1>5

LEMMA HandlersKeepOwnership ==
    ASSUME TypeOK, References, Ownership, NEW h \in Handler,
           (\E r \in Report : DeleteBegin(h, r)) \/ EditCosts(h) \/ RefreshBegin(h) \/ Purge(h)
             \/ RefreshCommit(h) \/ DeleteCommit(h) \/ HandlerDies(h)
    PROVE  Ownership'
  <1>1. CASE \/ \E r \in Report : DeleteBegin(h, r)
             \/ RefreshBegin(h) \/ Purge(h) \/ RefreshCommit(h) \/ HandlerDies(h)
    BY <1>1, OwnershipFrame DEF DeleteBegin, RefreshBegin, Purge, RefreshCommit, HandlerDies
  <1>2. CASE EditCosts(h)
    <2>1. \A v \in Worker : worker'[v].pc = worker[v].pc /\ worker'[v].report = worker[v].report
      BY <1>2 DEF EditCosts, TypeOK, WorkerType
    <2>2. QED
      BY <1>2, <2>1, OwnershipFrame DEF EditCosts
  <1>3. CASE DeleteCommit(h)
    <2> DEFINE r == handler[h].report
    <2>1. /\ r \in Report /\ row' = [row EXCEPT ![r].alive = FALSE] /\ job' = [job EXCEPT ![r] = NoJob]
          /\ ledger' = [ledger EXCEPT ![r] = 0] /\ UNCHANGED worker
          /\ \A w \in Worker : Persists(w) => worker[w].report # r
      BY <1>3 DEF DeleteCommit, Persists, TypeOK, HandlerType
    <2>2. \A q \in Report :
            /\ row'[q].file = row[q].file
            /\ row'[q].alive => q # r
            /\ q # r => job'[q] = job[q] /\ row'[q] = row[q] /\ ledger'[q] = ledger[q]
      BY <2>1 DEF TypeOK, RowType, Counts
    <2>3. \A v \in Worker : (Persists(v)' <=> Persists(v)) /\ (Persists(v) => worker[v].pc # "idle")
      BY <2>1 DEF Persists
    <2>4. \A q \in Report : Completed(q)' => Completed(q) /\ q # r
      BY <2>2 DEF Completed
    <2>5. QED
      BY <2>1, <2>2, <2>3, <2>4 DEF Ownership, References
  <1>4. QED
    BY <1>1, <1>2, <1>3

LEMMA OwnershipKept ==
    TypeOK /\ References /\ Identity /\ Ownership /\ [Next]_vars => Ownership'
  <1> SUFFICES ASSUME TypeOK, References, Identity, Ownership, [Next]_vars PROVE Ownership'
    OBVIOUS
  <1>1. ASSUME NEW p \in Paths, RemoveFile(p) PROVE Ownership'
    BY <1>1, OwnershipFrame DEF RemoveFile
  <1>2. CASE UNCHANGED vars
    BY <1>2, OwnershipFrame DEF vars
  <1>3. QED
    BY <1>1, <1>2, UploadsKeepOwnership, WorkersKeepOwnership, HandlersKeepOwnership DEF Next

(***************************************************************************)
(* What a step may do to a row, a worker and a handler.                    *)
(***************************************************************************)
(* A row names its file for good, and a report is completed by the commit   *)
(* of the worker that has it.                                              *)
LEMMA RowSteps ==
    ASSUME TypeOK, References, Identity, [Next]_vars, NEW r \in Report
    PROVE  /\ row[r].file \in File => Dates(r)' = Dates(r)
           /\ Completed(r)' => Completed(r) \/ \E w \in Worker : PersistCommit(w) /\ worker[w].report = r
  <1> DEFINE Moved == /\ row[r].file \in File => row'[r].file = row[r].file
                      /\ Completed(r)' => \/ Completed(r)
                                          \/ \E w \in Worker : PersistCommit(w) /\ worker[w].report = r
  <1> SUFFICES Moved
    BY DEF Dates
  <1>1. ASSUME NEW u \in Upload,
               UploadFind(u) \/ UploadCheck(u) \/ UploadStore(u) \/ UploadDies(u)
        PROVE  Moved
    BY <1>1 DEF UploadFind, UploadCheck, UploadStore, UploadDies, Completed
  <1>2. ASSUME NEW u \in Upload, UploadCreate(u) PROVE Moved
    <2>1. CASE row' = row
      BY <1>2, <2>1 DEF UploadCreate, Completed
    <2>2. CASE row' # row
      <3>1. PICK q \in Report :
              /\ row[q] = NoRow
              /\ row' = [row EXCEPT ![q] = [alive |-> TRUE, file |-> FileOf[u], path |-> None]]
        BY <1>2, <2>2 DEF UploadCreate
      <3>2. row[q].file \notin File /\ job[q].status = "none" /\ UNCHANGED job
        BY <1>2, <3>1, ReportAssumption DEF NoRow, Identity, UploadCreate
      <3>3. r # q => row'[r] = row[r]
        BY <3>1 DEF TypeOK
      <3>4. QED
        BY <3>2, <3>3 DEF Completed
    <2>3. QED
      BY <2>1, <2>2
  <1>3. ASSUME NEW u \in Upload, UploadFinalize(u) PROVE Moved
    <2> DEFINE q == upload[u].report
               p == PathOf(q, u)
               j == Enqueue(job[q], p)
    <2>1. q \in Report /\ p \in Paths
      BY <1>3, PathTyped DEF UploadFinalize, References
    <2>2. CASE row[q].alive /\ j # None
      <3>1. row' = [row EXCEPT ![q].path = p] /\ job' = [job EXCEPT ![q] = j]
        BY <1>3, <2>2 DEF UploadFinalize
      <3>2. j = job[q] \/ j = [status |-> "pending", path |-> p, tries |-> 0]
        BY <2>1, <2>2, EnqueueTyped DEF TypeOK
      <3>3. row'[r].file = row[r].file /\ row'[r].alive = row[r].alive
        BY <3>1 DEF TypeOK, RowType
      <3>4. job'[r].status = "completed" => job[r].status = "completed"
        BY <3>1, <3>2 DEF TypeOK
      <3>5. QED
        BY <3>3, <3>4 DEF Completed
    <2>3. CASE ~(row[q].alive /\ j # None)
      BY <1>3, <2>3 DEF UploadFinalize, Completed
    <2>4. QED
      BY <2>2, <2>3
  <1>4. ASSUME NEW w \in Worker, StreamChunk(w) \/ PersistBegin(w) \/ PersistDraft(w) PROVE Moved
    BY <1>4 DEF StreamChunk, PersistBegin, PersistDraft, Completed
  <1>5. ASSUME NEW w \in Worker, NEW q \in Report, Claim(w, q) PROVE Moved
    <2>1. job'[r].status = "completed" => job[r].status = "completed"
      BY <1>5 DEF Claim, TypeOK, JobType
    <2>2. QED
      BY <1>5, <2>1 DEF Claim, Completed
  <1>6. ASSUME NEW w \in Worker, PersistCommit(w) PROVE Moved
    <2>1. worker[w].report # r => job'[r] = job[r]
      BY <1>6 DEF PersistCommit, TypeOK, References
    <2>2. QED
      BY <1>6, <2>1 DEF PersistCommit, Completed
  <1>7. ASSUME NEW w \in Worker, JobFails(w) PROVE Moved
    <2>1. job'[r].status = "completed" => job[r].status = "completed"
      BY <1>7 DEF JobFails, Failed, References, TypeOK, JobType
    <2>2. QED
      BY <1>7, <2>1 DEF JobFails, Completed
  <1>8. ASSUME NEW h \in Handler,
               \/ \E q \in Report : DeleteBegin(h, q)
               \/ EditCosts(h) \/ RefreshBegin(h) \/ Purge(h) \/ RefreshCommit(h) \/ HandlerDies(h)
        PROVE  Moved
    BY <1>8 DEF DeleteBegin, EditCosts, RefreshBegin, Purge, RefreshCommit, HandlerDies, Completed
  <1>9. ASSUME NEW h \in Handler, DeleteCommit(h) PROVE Moved
    <2> DEFINE q == handler[h].report
    <2>1. q \in Report /\ row' = [row EXCEPT ![q].alive = FALSE] /\ job' = [job EXCEPT ![q] = NoJob]
      BY <1>9 DEF DeleteCommit, TypeOK, HandlerType
    <2>2. row'[r].file = row[r].file /\ (r # q => job'[r] = job[r] /\ row'[r] = row[r])
          /\ (r = q => ~row'[r].alive)
      BY <2>1 DEF TypeOK, RowType
    <2>3. QED
      BY <2>2 DEF Completed
  <1>10. ASSUME NEW p \in Paths, RemoveFile(p) PROVE Moved
    BY <1>10 DEF RemoveFile, Completed
  <1>11. CASE UNCHANGED vars
    BY <1>11 DEF vars, Completed
  <1>12. QED
    BY <1>1, <1>2, <1>3, <1>4, <1>5, <1>6, <1>7, <1>8, <1>9, <1>10, <1>11 DEF Next

(* A finished job and the row of its report are left alone.                *)
LEMMA FinishedSteps ==
    ASSUME TypeOK, References, Identity, Ownership, [Next]_vars, NEW r \in Report,
           job[r].status \in {"completed", "failed"}, row'[r].alive
    PROVE  job'[r] = job[r] /\ row'[r] = row[r]
  <1>1. row[r].alive /\ row[r] # NoRow
    BY DEF Identity, NoRow
  <1>2. ASSUME NEW u \in Upload,
               UploadFind(u) \/ UploadCheck(u) \/ UploadCreate(u) \/ UploadStore(u) \/ UploadDies(u)
        PROVE  job'[r] = job[r] /\ row'[r] = row[r]
    BY <1>1, <1>2 DEF UploadFind, UploadCheck, UploadCreate, UploadStore, UploadDies, TypeOK
  <1>3. ASSUME NEW u \in Upload, UploadFinalize(u) PROVE job'[r] = job[r] /\ row'[r] = row[r]
    <2> DEFINE q == upload[u].report
               p == PathOf(q, u)
    <2>1. q \in Report /\ p \in Paths
      BY <1>3, PathTyped DEF UploadFinalize, References
    <2>2. Enqueue(job[q], p) # None => job[q].status \in {"none", "pending", "processing"}
      BY <2>1, EnqueueTyped DEF TypeOK
    <2>3. QED
      BY <1>3, <2>1, <2>2 DEF UploadFinalize, TypeOK
  <1>4. ASSUME NEW w \in Worker, NEW q \in Report, Claim(w, q) PROVE job'[r] = job[r] /\ row'[r] = row[r]
    BY <1>4 DEF Claim, TypeOK
  <1>5. ASSUME NEW w \in Worker, StreamChunk(w) \/ PersistBegin(w) \/ PersistDraft(w)
        PROVE  job'[r] = job[r] /\ row'[r] = row[r]
    BY <1>5 DEF StreamChunk, PersistBegin, PersistDraft
  <1>6. ASSUME NEW w \in Worker, PersistCommit(w) \/ JobFails(w)
        PROVE  job'[r] = job[r] /\ row'[r] = row[r]
    <2>1. worker[w].pc # "idle" /\ worker[w].report \in Report /\ UNCHANGED row
      BY <1>6 DEF PersistCommit, JobFails, References
    <2>2. worker[w].report # r
      BY <1>1, <2>1 DEF Ownership
    <2>3. QED
      BY <1>6, <2>1, <2>2 DEF PersistCommit, JobFails, TypeOK
  <1>7. ASSUME NEW h \in Handler,
               \/ \E q \in Report : DeleteBegin(h, q)
               \/ EditCosts(h) \/ RefreshBegin(h) \/ Purge(h) \/ RefreshCommit(h) \/ HandlerDies(h)
        PROVE  job'[r] = job[r] /\ row'[r] = row[r]
    BY <1>7 DEF DeleteBegin, EditCosts, RefreshBegin, Purge, RefreshCommit, HandlerDies
  <1>8. ASSUME NEW h \in Handler, DeleteCommit(h) PROVE job'[r] = job[r] /\ row'[r] = row[r]
    <2>1. r # handler[h].report
      BY <1>8 DEF DeleteCommit, TypeOK, RowType
    <2>2. QED
      BY <1>8, <2>1 DEF DeleteCommit, TypeOK, HandlerType
  <1>9. CASE (\E p \in Paths : RemoveFile(p)) \/ UNCHANGED vars
    BY <1>9 DEF RemoveFile, vars
  <1>10. QED
    BY <1>2, <1>3, <1>4, <1>5, <1>6, <1>7, <1>8, <1>9 DEF Next

(* A worker that persists has just begun to, has just drafted, or goes on   *)
(* with what it read; he is marked if the costs change.                    *)
Goes(w) ==
    /\ worker'[w].pc = worker[w].pc /\ worker'[w].report = worker[w].report
    /\ worker'[w].costs = worker[w].costs /\ worker'[w].rows = worker[w].rows
    /\ worker[w].raced => worker'[w].raced
    /\ costs' = costs \/ worker'[w].raced

LEMMA WorkerSteps ==
    ASSUME TypeOK, [Next]_vars, NEW w \in Worker, Persists(w)'
    PROVE  PersistBegin(w) \/ PersistDraft(w) \/ Goes(w)
  <1>1. CASE UNCHANGED <<worker, costs>>
    BY <1>1 DEF Goes
  <1>2. ASSUME NEW v \in Worker, v # w,
               \/ \E r \in Report : Claim(v, r)
               \/ PersistBegin(v) \/ PersistDraft(v) \/ PersistCommit(v) \/ JobFails(v)
        PROVE  Goes(w)
    <2>1. worker'[w] = worker[w] /\ costs' = costs
      BY <1>2 DEF Claim, PersistBegin, PersistDraft, PersistCommit, JobFails, TypeOK
    <2>2. QED
      BY <2>1 DEF Goes
  <1>3. CASE (\E r \in Report : Claim(w, r)) \/ PersistCommit(w) \/ JobFails(w)
    <2>1. worker'[w].pc \in {"streaming", "idle"}
      <3>1. CASE \E r \in Report : Claim(w, r)
        BY <3>1 DEF Claim, TypeOK, WorkerType
      <3>2. CASE PersistCommit(w) \/ JobFails(w)
        BY <3>2 DEF PersistCommit, JobFails, TypeOK, IdleWorker
      <3>3. QED
        BY <1>3, <3>1, <3>2
    <2>2. QED
      BY <2>1 DEF Persists
  <1>4. ASSUME NEW h \in Handler, EditCosts(h) PROVE Goes(w)
    BY <1>4 DEF EditCosts, Goes, Persists, TypeOK, WorkerType
  <1>5. ASSUME NEW u \in Upload,
               \/ UploadFind(u) \/ UploadCheck(u) \/ UploadCreate(u) \/ UploadStore(u)
               \/ UploadFinalize(u) \/ UploadDies(u)
        PROVE  UNCHANGED <<worker, costs>>
    BY <1>5 DEF UploadFind, UploadCheck, UploadCreate, UploadStore, UploadFinalize, UploadDies
  <1>6. ASSUME NEW h \in Handler,
               \/ \E r \in Report : DeleteBegin(h, r)
               \/ RefreshBegin(h) \/ Purge(h) \/ RefreshCommit(h) \/ DeleteCommit(h) \/ HandlerDies(h)
        PROVE  UNCHANGED <<worker, costs>>
    BY <1>6 DEF DeleteBegin, RefreshBegin, Purge, RefreshCommit, DeleteCommit, HandlerDies
  <1>7. CASE (\E p \in Paths : RemoveFile(p)) \/ (\E v \in Worker : StreamChunk(v)) \/ UNCHANGED vars
    BY <1>1, <1>7 DEF RemoveFile, StreamChunk, vars
  <1>8. QED
    BY <1>1, <1>2, <1>3, <1>4, <1>5, <1>6, <1>7 DEF Next

(* A handler in its rebuild has just begun it, has just purged, or goes on   *)
(* with what it read; he is marked if the costs change.                    *)
Waits(h) ==
    /\ handler'[h].pc = handler[h].pc /\ handler'[h].report = handler[h].report
    /\ handler'[h].dates = handler[h].dates /\ handler'[h].rows = handler[h].rows
    /\ handler'[h].costs = handler[h].costs /\ handler'[h].edit = handler[h].edit
    /\ handler[h].raced => handler'[h].raced
    /\ costs' = costs \/ handler[h].pc \notin {"costs", "purged"} \/ handler'[h].raced

LEMMA HandlerSteps ==
    ASSUME TypeOK, [Next]_vars, NEW h \in Handler, handler'[h].pc # "idle"
    PROVE  \/ \E r \in Report : DeleteBegin(h, r)
           \/ EditCosts(h) \/ RefreshBegin(h) \/ Purge(h) \/ Waits(h)
  <1>1. CASE UNCHANGED <<handler, costs>>
    BY <1>1 DEF Waits
  <1>2. ASSUME NEW g \in Handler, g # h,
               \/ \E r \in Report : DeleteBegin(g, r)
               \/ RefreshBegin(g) \/ Purge(g) \/ RefreshCommit(g) \/ DeleteCommit(g) \/ HandlerDies(g)
        PROVE  Waits(h)
    <2>1. handler'[h] = handler[h] /\ costs' = costs
      BY <1>2 DEF DeleteBegin, RefreshBegin, Purge, RefreshCommit, DeleteCommit, HandlerDies, TypeOK
    <2>2. QED
      BY <2>1 DEF Waits
  <1>3. ASSUME NEW g \in Handler, g # h, EditCosts(g) PROVE Waits(h)
    BY <1>3 DEF EditCosts, Waits, TypeOK, HandlerType
  <1>4. CASE RefreshCommit(h) \/ DeleteCommit(h) \/ HandlerDies(h)
    BY <1>4 DEF RefreshCommit, DeleteCommit, HandlerDies, TypeOK, IdleHandler
  <1>5. ASSUME NEW w \in Worker, PersistCommit(w) PROVE Waits(h)
    BY <1>5 DEF PersistCommit, Waits, TypeOK, HandlerType
  <1>6. ASSUME NEW w \in Worker,
               \/ \E r \in Report : Claim(w, r)
               \/ StreamChunk(w) \/ PersistBegin(w) \/ PersistDraft(w) \/ JobFails(w)
        PROVE  UNCHANGED <<handler, costs>>
    BY <1>6 DEF Claim, StreamChunk, PersistBegin, PersistDraft, JobFails
  <1>7. ASSUME NEW u \in Upload,
               \/ UploadFind(u) \/ UploadCheck(u) \/ UploadCreate(u) \/ UploadStore(u)
               \/ UploadFinalize(u) \/ UploadDies(u)
        PROVE  UNCHANGED <<handler, costs>>
    BY <1>7 DEF UploadFind, UploadCheck, UploadCreate, UploadStore, UploadFinalize, UploadDies
  <1>8. CASE (\E p \in Paths : RemoveFile(p)) \/ UNCHANGED vars
    BY <1>1, <1>8 DEF RemoveFile, vars
  <1>9. QED
    BY <1>1, <1>2, <1>3, <1>4, <1>5, <1>6, <1>7, <1>8 DEF Next

(* Only three steps write projections.                                     *)
LEMMA Unwritten ==
    ASSUME [Next]_vars,
           \A w \in Worker : ~PersistCommit(w), \A h \in Handler : ~RefreshCommit(h) /\ ~DeleteCommit(h)
    PROVE  UNCHANGED <<agg, raced, answered>>
  <1>1. ASSUME NEW u \in Upload,
               \/ UploadFind(u) \/ UploadCheck(u) \/ UploadCreate(u) \/ UploadStore(u)
               \/ UploadFinalize(u) \/ UploadDies(u)
        PROVE  UNCHANGED <<agg, raced, answered>>
    BY <1>1 DEF UploadFind, UploadCheck, UploadCreate, UploadStore, UploadFinalize, UploadDies
  <1>2. ASSUME NEW w \in Worker,
               \/ \E r \in Report : Claim(w, r)
               \/ StreamChunk(w) \/ PersistBegin(w) \/ PersistDraft(w) \/ JobFails(w)
        PROVE  UNCHANGED <<agg, raced, answered>>
    BY <1>2 DEF Claim, StreamChunk, PersistBegin, PersistDraft, JobFails
  <1>3. ASSUME NEW h \in Handler,
               \/ \E r \in Report : DeleteBegin(h, r)
               \/ EditCosts(h) \/ RefreshBegin(h) \/ Purge(h) \/ HandlerDies(h)
        PROVE  UNCHANGED <<agg, raced, answered>>
    BY <1>3 DEF DeleteBegin, EditCosts, RefreshBegin, Purge, HandlerDies
  <1>4. CASE (\E p \in Paths : RemoveFile(p)) \/ UNCHANGED vars
    BY <1>4 DEF RemoveFile, vars
  <1>5. QED
    BY <1>1, <1>2, <1>3, <1>4 DEF Next

(***************************************************************************)
(* 4. Counting.                                                            *)
(***************************************************************************)
LEMMA CompletedDates ==
    ASSUME IInv, [Next]_vars, NEW r \in Report, Completed(r)'
    PROVE  /\ Dates(r)' = Dates(r) /\ Dates(r) \subseteq Date
           /\ Completed(r) \/ \E w \in Worker : PersistCommit(w) /\ worker[w].report = r
  <1> USE DEF IInv
  <1>1. Completed(r) \/ \E w \in Worker : PersistCommit(w) /\ worker[w].report = r
    BY RowSteps
  <1>2. row[r].file \in File
    <2>1. CASE Completed(r)
      BY <2>1, AliveHasFile DEF Completed
    <2>2. CASE \E w \in Worker : PersistCommit(w) /\ worker[w].report = r
      BY <2>2 DEF PersistCommit, Ownership
    <2>3. QED
      BY <1>1, <2>1, <2>2
  <1>3. QED
    BY <1>1, <1>2, RowSteps, DatesTyped

LEMMA WorkersKeepCounting ==
    ASSUME IInv, [Next]_vars, NEW w \in Worker, worker'[w].pc = "drafted",
           NEW r \in Report, Completed(r)' \/ r = worker'[w].report
    PROVE  worker'[w].rows[r] = Chunks
  <1> USE DEF IInv
  <1>1. Persists(w)'
    BY DEF Persists
  <1>2. Completed(r)' => Completed(r) \/ \E v \in Worker : PersistCommit(v) /\ worker[v].report = r
    BY RowSteps
  <1>3. CASE PersistBegin(w)
    BY <1>3 DEF PersistBegin, TypeOK
  <1>4. CASE PersistDraft(w)
    <2>1. worker'[w].rows = ledger /\ worker'[w].report = worker[w].report /\ Persists(w)
      BY <1>4 DEF PersistDraft, Persists, TypeOK, WorkerType
    <2>2. Completed(r)' => Completed(r)
      BY <1>4 DEF PersistDraft, Completed
    <2>3. QED
      BY <2>1, <2>2 DEF Ownership
  <1>5. CASE Goes(w)
    <2>1. worker[w].pc = "drafted" /\ worker'[w].report = worker[w].report /\ worker'[w].rows = worker[w].rows
      BY <1>5 DEF Goes
    <2>2. ASSUME NEW v \in Worker, PersistCommit(v) PROVE FALSE
      <3>1. v = w
        BY <2>1, <2>2 DEF Ownership, Persists, PersistCommit
      <3>2. worker'[w].pc = "idle"
        BY <2>2, <3>1 DEF PersistCommit, TypeOK, IdleWorker
      <3>3. QED
        BY <3>2
    <2>3. QED
      BY <1>2, <2>1, <2>2 DEF Counting
  <1>6. QED
    BY <1>1, <1>3, <1>4, <1>5, WorkerSteps

LEMMA HandlersKeepCounting ==
    ASSUME IInv, [Next]_vars, NEW h \in Handler, handler'[h].pc = "purged", ~handler'[h].raced,
           NEW r \in Report, Completed(r)', handler'[h].dates \cap Dates(r)' # {}
    PROVE  handler'[h].rows[r] = Chunks
  <1> USE DEF IInv
  <1>1. Completed(r) \/ \E w \in Worker : PersistCommit(w) /\ worker[w].report = r
    BY CompletedDates
  <1>2. Dates(r)' = Dates(r)
    BY CompletedDates
  <1>3. CASE Purge(h)
    <2>1. handler'[h].rows = ledger
      BY <1>3 DEF Purge, TypeOK, HandlerType
    <2>2. Completed(r)
      BY <1>3 DEF Purge, Completed
    <2>3. QED
      BY <2>1, <2>2 DEF Ownership
  <1>4. CASE Waits(h)
    <2>1. handler[h].pc = "purged" /\ ~handler[h].raced /\ handler'[h].dates = handler[h].dates
          /\ handler'[h].rows = handler[h].rows
      BY <1>4 DEF Waits
    <2>2. ASSUME NEW w \in Worker, PersistCommit(w), worker[w].report = r PROVE FALSE
      <3>1. handler[h].dates \cap Dates(r) # {}
        BY <1>2, <2>1
      <3>2. handler'[h].raced
        BY <2>1, <2>2, <3>1 DEF PersistCommit, TypeOK, HandlerType
      <3>3. QED
        BY <3>2
    <2>3. QED
      BY <1>1, <1>2, <2>1, <2>2 DEF Counting
  <1>5. CASE (\E q \in Report : DeleteBegin(h, q)) \/ EditCosts(h) \/ RefreshBegin(h)
    <2>1. CASE \E q \in Report : DeleteBegin(h, q)
      BY <2>1 DEF DeleteBegin, TypeOK, IdleHandler
    <2>2. CASE EditCosts(h)
      BY <2>2 DEF EditCosts, IdleHandler
    <2>3. CASE RefreshBegin(h)
      BY <2>3 DEF RefreshBegin, TypeOK, HandlerType
    <2>4. QED
      BY <1>5, <2>1, <2>2, <2>3
  <1>6. QED
    BY <1>3, <1>4, <1>5, HandlerSteps

LEMMA CountingKept == IInv /\ [Next]_vars => Counting'
  BY WorkersKeepCounting, HandlersKeepCounting DEF Counting

(* Every date a step writes counts every completed report, or is marked.    *)
LEMMA CountedKept ==
    ASSUME IInv, CompletedIsCounted, [Next]_vars
    PROVE  CompletedIsCounted'
  <1> USE DEF IInv
  <1>1. SUFFICES ASSUME NEW r \in Report, Completed(r)', NEW d \in Dates(r)', d \notin raced'
                 PROVE  agg'[d].rows[r] = Chunks
    BY DEF CompletedIsCounted, Alive, Completed
  <1>2. Completed(r) \/ \E w \in Worker : PersistCommit(w) /\ worker[w].report = r
    BY <1>1, CompletedDates
  <1>4. d \in Dates(r) /\ d \in Date
    BY <1>1, CompletedDates
  <1>5. CASE Completed(r) /\ agg'[d] = agg[d] /\ d \notin raced
    BY <1>4, <1>5 DEF CompletedIsCounted, Alive, Completed
  <1>6. ASSUME NEW w \in Worker, PersistCommit(w) PROVE agg'[d].rows[r] = Chunks
    <2> DEFINE q == worker[w].report
    <2>1. q \in Report /\ (Completed(r) \/ r = q)
      <3>1. ASSUME NEW v \in Worker, PersistCommit(v), worker[v].report = r PROVE r = q
        BY <1>6, <3>1 DEF PersistCommit, Ownership, Persists
      <3>2. QED
        BY <1>2, <1>6, <3>1 DEF PersistCommit, References
    <2>2. CASE d \in Dates(q)
      <3>1. worker[w].rows[r] = Chunks
        BY <1>6, <2>1 DEF PersistCommit, Counting
      <3>2. agg'[d] = Drawn(worker[w].rows, worker[w].costs, d)
        BY <1>4, <1>6, <2>2 DEF PersistCommit
      <3>3. QED
        BY <1>4, <3>1, <3>2 DEF Drawn
    <2>3. CASE d \notin Dates(q)
      <3>1. Completed(r)
        BY <1>4, <2>1, <2>3
      <3>2. agg'[d] = agg[d] /\ d \notin raced
        BY <1>1, <1>4, <1>6, <2>3 DEF PersistCommit
      <3>3. QED
        BY <1>5, <3>1, <3>2
    <2>4. QED
      BY <2>2, <2>3
  <1>7. ASSUME \A w \in Worker : ~PersistCommit(w) PROVE Completed(r)
    BY <1>2, <1>7
  <1>8. ASSUME NEW h \in Handler, RefreshCommit(h) \/ DeleteCommit(h), Completed(r)
        PROVE  agg'[d].rows[r] = Chunks
    <2>1. handler[h].pc = "purged" /\ agg' = Rewritten(h) /\ raced' = RacedAfter(h)
      BY <1>8 DEF RefreshCommit, DeleteCommit
    <2>2. CASE d \in handler[h].dates
      <3>1. ~handler[h].raced
        BY <1>1, <2>1, <2>2 DEF RacedAfter
      <3>2. handler[h].rows[r] = Chunks
        BY <1>4, <1>8, <2>1, <2>2, <3>1 DEF Counting
      <3>3. agg'[d] = Drawn(handler[h].rows, handler[h].costs, d)
        BY <1>4, <2>1, <2>2 DEF Rewritten
      <3>4. QED
        BY <1>4, <3>2, <3>3 DEF Drawn
    <2>3. CASE d \notin handler[h].dates
      <3>1. agg'[d] = agg[d] /\ d \notin raced
        BY <1>1, <1>4, <2>1, <2>3 DEF Rewritten, RacedAfter
      <3>2. QED
        BY <1>5, <1>8, <3>1
    <2>4. QED
      BY <2>2, <2>3
  <1>9. CASE /\ \A w \in Worker : ~PersistCommit(w)
             /\ \A h \in Handler : ~RefreshCommit(h) /\ ~DeleteCommit(h)
    BY <1>1, <1>5, <1>7, <1>9, Unwritten
  <1>10. QED
    BY <1>6, <1>7, <1>8, <1>9

(***************************************************************************)
(* 5. Costing.                                                             *)
(***************************************************************************)
(* A date that is not marked was drawn from the costs of now, or was left   *)
(* alone; and a step that should write it has.                             *)
LEMMA WritesAreCurrent ==
    ASSUME IInv, [Next]_vars, NEW d \in Date, d \notin raced'
    PROVE  /\ \/ agg'[d].costs = costs /\ costs' = costs
              \/ agg'[d] = agg[d] /\ d \notin raced
           /\ \A w \in Worker : PersistCommit(w) /\ d \in Dates(worker[w].report) =>
                 agg'[d].costs = costs /\ costs' = costs
           /\ \A h \in Handler : RefreshCommit(h) /\ d \in handler[h].dates =>
                 agg'[d].costs = costs /\ costs' = costs
  <1> USE DEF IInv
  <1>1. ASSUME NEW w \in Worker, PersistCommit(w)
        PROVE  /\ costs' = costs
               /\ d \in Dates(worker[w].report) => agg'[d].costs = costs
               /\ d \notin Dates(worker[w].report) => agg'[d] = agg[d] /\ d \notin raced
    <2>1. CASE d \in Dates(worker[w].report)
      <3>1. ~worker[w].raced /\ Persists(w)
        BY <1>1, <2>1 DEF PersistCommit, Persists
      <3>2. worker[w].costs = costs
        BY <3>1 DEF Costing
      <3>3. QED
        BY <1>1, <2>1, <3>2 DEF PersistCommit, Drawn
    <2>2. CASE d \notin Dates(worker[w].report)
      BY <1>1, <2>2 DEF PersistCommit
    <2>3. QED
      BY <1>1, <2>1, <2>2 DEF PersistCommit
  <1>2. ASSUME NEW h \in Handler, RefreshCommit(h) \/ DeleteCommit(h)
        PROVE  /\ costs' = costs
               /\ d \in handler[h].dates => agg'[d].costs = costs
               /\ d \notin handler[h].dates => agg'[d] = agg[d] /\ d \notin raced
    <2>1. handler[h].pc = "purged" /\ agg' = Rewritten(h) /\ raced' = RacedAfter(h) /\ costs' = costs
      BY <1>2 DEF RefreshCommit, DeleteCommit
    <2>2. CASE d \in handler[h].dates
      <3>1. ~handler[h].raced
        BY <2>1, <2>2 DEF RacedAfter
      <3>2. handler[h].costs = costs
        BY <2>1, <3>1 DEF Costing
      <3>3. QED
        BY <2>1, <2>2, <3>2 DEF Rewritten, Drawn
    <2>3. CASE d \notin handler[h].dates
      BY <2>1, <2>3 DEF Rewritten, RacedAfter
    <2>4. QED
      BY <2>1, <2>2, <2>3
  <1>3. CASE /\ \A w \in Worker : ~PersistCommit(w)
             /\ \A h \in Handler : ~RefreshCommit(h) /\ ~DeleteCommit(h)
    BY <1>3, Unwritten
  <1>4. QED
    BY <1>1, <1>2, <1>3

LEMMA CostSteps ==
    ASSUME [Next]_vars
    PROVE  costs' = costs \/ \E h \in Handler : EditCosts(h)
  <1>1. ASSUME NEW u \in Upload,
               \/ UploadFind(u) \/ UploadCheck(u) \/ UploadCreate(u) \/ UploadStore(u)
               \/ UploadFinalize(u) \/ UploadDies(u)
        PROVE  costs' = costs
    BY <1>1 DEF UploadFind, UploadCheck, UploadCreate, UploadStore, UploadFinalize, UploadDies
  <1>2. ASSUME NEW w \in Worker,
               \/ \E r \in Report : Claim(w, r)
               \/ StreamChunk(w) \/ PersistBegin(w) \/ PersistDraft(w) \/ PersistCommit(w) \/ JobFails(w)
        PROVE  costs' = costs
    BY <1>2 DEF Claim, StreamChunk, PersistBegin, PersistDraft, PersistCommit, JobFails
  <1>3. ASSUME NEW h \in Handler,
               \/ \E r \in Report : DeleteBegin(h, r)
               \/ RefreshBegin(h) \/ Purge(h) \/ RefreshCommit(h) \/ DeleteCommit(h) \/ HandlerDies(h)
        PROVE  costs' = costs
    BY <1>3 DEF DeleteBegin, RefreshBegin, Purge, RefreshCommit, DeleteCommit, HandlerDies
  <1>4. CASE (\E p \in Paths : RemoveFile(p)) \/ UNCHANGED vars
    BY <1>4 DEF RemoveFile, vars
  <1>5. QED
    BY <1>1, <1>2, <1>3, <1>4 DEF Next

(* No answer is given before its change is there, and changes only add up.  *)
LEMMA AnswersFollowCosts ==
    ASSUME IInv, [Next]_vars
    PROVE  /\ answered' <= costs' /\ costs <= costs'
           /\ answered' # answered => \E h \in Handler : RefreshCommit(h) /\ answered' = handler[h].edit
  <1> USE DEF IInv
  <1>1. costs \in Nat /\ answered \in Nat /\ answered <= costs
    BY ReportAssumption DEF TypeOK, Versions, Costing
  <1>2. costs' = costs \/ costs' = costs + 1
    BY CostSteps DEF EditCosts
  <1>3. ASSUME NEW h \in Handler, RefreshCommit(h)
        PROVE  answered' <= costs /\ (answered' = answered \/ answered' = handler[h].edit)
    <2>1. handler[h].edit <= costs
      BY <1>3 DEF RefreshCommit, Costing
    <2>2. QED
      BY <1>1, <1>3, <2>1 DEF RefreshCommit
  <1>4. CASE answered' = answered
    BY <1>1, <1>2, <1>4
  <1>5. CASE answered' # answered
    <2>1. \E h \in Handler : RefreshCommit(h)
      BY <1>5, Unwritten DEF PersistCommit, DeleteCommit
    <2>2. PICK h \in Handler : RefreshCommit(h)
      BY <2>1
    <2>3. answered' \in Nat
      BY <1>1, <2>2, ReportAssumption DEF RefreshCommit, TypeOK, HandlerType, Versions
    <2>4. QED
      BY <1>1, <1>2, <1>3, <1>5, <2>2, <2>3
  <1>6. QED
    BY <1>4, <1>5

LEMMA WorkersKeepCosting ==
    ASSUME IInv, [Next]_vars, NEW w \in Worker, Persists(w)', ~worker'[w].raced
    PROVE  worker'[w].costs = costs'
  <1> USE DEF IInv
  <1>1. CASE PersistBegin(w)
    BY <1>1 DEF PersistBegin, TypeOK, WorkerType
  <1>2. CASE PersistDraft(w)
    <2>1. /\ worker'[w].costs = worker[w].costs /\ worker'[w].raced = worker[w].raced
          /\ costs' = costs /\ Persists(w)
      BY <1>2 DEF PersistDraft, Persists, TypeOK, WorkerType
    <2>2. QED
      BY <2>1 DEF Costing
  <1>3. CASE Goes(w)
    BY <1>3 DEF Goes, Costing, Persists
  <1>4. QED
    BY <1>1, <1>2, <1>3, WorkerSteps

(* The first steps of a handler, seen from afar.                           *)
LEMMA HandlerBegins ==
    ASSUME TypeOK, NEW h \in Handler
    PROVE  /\ \A r \in Report : DeleteBegin(h, r) =>
                 /\ handler'[h].pc = "costs" /\ handler'[h].report = r /\ handler'[h].edit = 0
                 /\ handler'[h].costs = costs /\ costs' = costs
           /\ EditCosts(h) =>
                 handler'[h].pc = "edited" /\ handler'[h].edit = costs + 1 /\ costs' = costs + 1
           /\ RefreshBegin(h) =>
                 /\ handler[h].pc = "edited" /\ handler'[h].report = handler[h].report
                 /\ handler'[h].edit = handler[h].edit /\ handler'[h].dates = LedgerDates
                 /\ handler'[h].costs = costs /\ costs' = costs
           /\ Purge(h) =>
                 /\ handler[h].pc = "costs" /\ handler'[h].report = handler[h].report
                 /\ handler'[h].edit = handler[h].edit /\ handler'[h].dates = handler[h].dates
                 /\ handler'[h].costs = handler[h].costs /\ handler'[h].raced = handler[h].raced
                 /\ costs' = costs
  <1>1. ASSUME NEW r \in Report, DeleteBegin(h, r)
        PROVE  /\ handler'[h].pc = "costs" /\ handler'[h].report = r /\ handler'[h].edit = 0
               /\ handler'[h].costs = costs /\ costs' = costs
    BY <1>1 DEF DeleteBegin, TypeOK, IdleHandler
  <1>2. EditCosts(h) => handler'[h].pc = "edited" /\ handler'[h].edit = costs + 1 /\ costs' = costs + 1
    BY DEF EditCosts, IdleHandler
  <1>3. RefreshBegin(h) =>
          /\ handler[h].pc = "edited" /\ handler'[h].report = handler[h].report
          /\ handler'[h].edit = handler[h].edit /\ handler'[h].dates = LedgerDates
          /\ handler'[h].costs = costs /\ costs' = costs
    BY DEF RefreshBegin, TypeOK, HandlerType
  <1>4. Purge(h) =>
          /\ handler[h].pc = "costs" /\ handler'[h].report = handler[h].report
          /\ handler'[h].edit = handler[h].edit /\ handler'[h].dates = handler[h].dates
          /\ handler'[h].costs = handler[h].costs /\ handler'[h].raced = handler[h].raced
          /\ costs' = costs
    BY DEF Purge, TypeOK, HandlerType
  <1>5. QED
    BY <1>1, <1>2, <1>3, <1>4

LEMMA EditsKeepCosting ==
    ASSUME IInv, [Next]_vars, NEW h \in Handler, handler'[h].pc # "idle"
    PROVE  handler'[h].edit <= costs'
  <1> USE DEF IInv
  <1>1. costs \in Nat /\ handler[h].edit \in Nat /\ costs' \in Int /\ costs <= costs'
    BY CostSteps, AnswersFollowCosts, ReportAssumption DEF TypeOK, HandlerType, Versions, EditCosts
  <1>2. CASE \E r \in Report : DeleteBegin(h, r)
    BY <1>1, <1>2, HandlerBegins
  <1>3. CASE EditCosts(h)
    BY <1>1, <1>3, HandlerBegins
  <1>4. CASE RefreshBegin(h) \/ Purge(h)
    BY <1>1, <1>4, HandlerBegins DEF Costing
  <1>5. CASE Waits(h)
    BY <1>1, <1>5 DEF Waits, Costing
  <1>6. QED
    BY <1>2, <1>3, <1>4, <1>5, HandlerSteps

LEMMA HandlersKeepCosting ==
    ASSUME IInv, [Next]_vars, NEW h \in Handler, handler'[h].pc \in {"costs", "purged"}, ~handler'[h].raced
    PROVE  handler'[h].costs = costs'
  <1> USE DEF IInv
  <1>1. CASE (\E r \in Report : DeleteBegin(h, r)) \/ RefreshBegin(h) \/ EditCosts(h)
    BY <1>1, HandlerBegins
  <1>2. CASE Purge(h)
    BY <1>2, HandlerBegins DEF Costing
  <1>3. CASE Waits(h)
    BY <1>3 DEF Waits, Costing
  <1>4. QED
    BY <1>1, <1>2, <1>3, HandlerSteps

(* A refresh leaves out only dates that nobody draws from older costs.     *)
LEMMA LeftOutIsCurrent ==
    ASSUME IInv, [Next]_vars, NEW h \in Handler,
           handler'[h].pc \in {"costs", "purged"}, handler'[h].report = None,
           NEW r \in Report, Completed(r)',
           NEW d \in Dates(r)', d \notin raced', d \notin handler'[h].dates
    PROVE  agg'[d].costs >= handler'[h].edit
  <1> USE DEF IInv
  <1>1. d \in Dates(r) /\ d \in Date
        /\ (Completed(r) \/ \E w \in Worker : PersistCommit(w) /\ worker[w].report = r)
    BY CompletedDates
  <1>2. handler'[h].edit <= costs'
    BY EditsKeepCosting
  <1>3. costs \in Nat /\ costs' \in Nat /\ handler[h].edit \in Nat
    BY CostSteps, ReportAssumption DEF EditCosts, TypeOK, HandlerType, Versions
  <1>4. CASE agg'[d].costs = costs /\ costs' = costs
    <2>1. handler'[h].edit \in Int
      BY <1>3, HandlerSteps, HandlerBegins DEF Waits
    <2>2. QED
      BY <1>2, <1>3, <1>4, <2>1
  <1>5. CASE ~(agg'[d].costs = costs /\ costs' = costs)
    <2>1. agg'[d] = agg[d] /\ d \notin raced /\ Completed(r)
      BY <1>1, <1>5, WritesAreCurrent
    <2>2. CASE \E q \in Report : DeleteBegin(h, q)
      BY <2>2, HandlerBegins, ReportAssumption
    <2>3. CASE EditCosts(h)
      BY <2>3, HandlerBegins
    <2>4. CASE RefreshBegin(h)
      <3>1. ledger[r] > 0 /\ r \in Alive
        BY <2>1, ReportAssumption DEF Ownership, Completed, Alive
      <3>2. d \in LedgerDates
        BY <1>1, <3>1 DEF LedgerDates
      <3>3. QED
        BY <2>4, <3>2, HandlerBegins
    <2>5. CASE Purge(h)
      BY <1>1, <2>1, <2>5, HandlerBegins DEF Costing
    <2>6. CASE Waits(h)
      BY <1>1, <2>1, <2>6 DEF Waits, Costing
    <2>7. QED
      BY <2>2, <2>3, <2>4, <2>5, <2>6, HandlerSteps
  <1>6. QED
    BY <1>4, <1>5

LEMMA CostingKept == IInv /\ [Next]_vars => Costing'
  BY AnswersFollowCosts, WorkersKeepCosting, EditsKeepCosting, HandlersKeepCosting, LeftOutIsCurrent
     DEF Costing

LEMMA CurrentKept ==
    ASSUME IInv, CostIsCurrent, [Next]_vars
    PROVE  CostIsCurrent'
  <1> USE DEF IInv
  <1>1. SUFFICES ASSUME NEW r \in Report, Completed(r)', NEW d \in Dates(r)', d \notin raced'
                 PROVE  agg'[d].costs >= answered'
    BY DEF CostIsCurrent, Alive, Completed
  <1>2. d \in Dates(r) /\ d \in Date
        /\ (Completed(r) \/ \E w \in Worker : PersistCommit(w) /\ worker[w].report = r)
    BY <1>1, CompletedDates
  <1>3. costs \in Nat /\ answered \in Nat /\ agg[d].costs \in Nat
    BY <1>2, ReportAssumption DEF TypeOK, AggType, Versions
  <1>4. answered' <= costs' /\ answered' \in Nat
    <2>1. \A h \in Handler : handler[h].edit \in Nat
      BY ReportAssumption DEF TypeOK, HandlerType, Versions
    <2>2. QED
      BY <1>3, <2>1, AnswersFollowCosts
  <1>5. CASE agg'[d].costs = costs /\ costs' = costs
    BY <1>3, <1>4, <1>5
  <1>6. CASE ~(agg'[d].costs = costs /\ costs' = costs)
    <2>1. agg'[d] = agg[d] /\ d \notin raced /\ Completed(r)
      BY <1>1, <1>2, <1>6, WritesAreCurrent
    <2>2. agg[d].costs >= answered
      BY <1>2, <2>1 DEF CostIsCurrent, Alive, Completed
    <2>3. CASE answered' = answered
      BY <2>1, <2>2, <2>3
    <2>4. CASE answered' # answered
      <3>1. PICK h \in Handler : RefreshCommit(h) /\ answered' = handler[h].edit
        BY <2>4, AnswersFollowCosts
      <3>2. d \notin handler[h].dates
        BY <1>1, <1>2, <1>6, <3>1, WritesAreCurrent
      <3>3. handler[h].pc = "purged" /\ handler[h].report = None
        BY <3>1 DEF RefreshCommit
      <3>4. agg[d].costs >= handler[h].edit
        BY <1>2, <2>1, <3>2, <3>3 DEF Costing
      <3>5. QED
        BY <2>1, <3>1, <3>4
    <2>5. QED
      BY <2>3, <2>4
  <1>7. QED
    BY <1>5, <1>6

(***************************************************************************)
(* The theorems.                                                           *)
(***************************************************************************)
LEMMA InitInvariant == Init => IInv /\ CompletedIsCounted /\ CostIsCurrent
  <1> SUFFICES ASSUME Init PROVE IInv /\ CompletedIsCounted /\ CostIsCurrent
    OBVIOUS
  <1> USE ReportAssumption, ConstantsTyped DEF Init
  <1>1. TypeOK
    BY DEF TypeOK, NoAgg, AggType
  <1>2. /\ \A r \in Report : row[r] = NoRow /\ ~row[r].alive /\ row[r].path = None
                           /\ job[r].status = "none" /\ job[r].path = None
        /\ \A u \in Upload : upload[u].pc = "new"
        /\ \A w \in Worker : worker[w].pc = "idle"
        /\ \A h \in Handler : handler[h].pc = "idle" /\ handler[h].report = None
    BY DEF NoRow, NoJob, NewUpload, IdleWorker, IdleHandler
  <1>3. References /\ Identity /\ Served
    BY <1>2 DEF References, Identity, Served
  <1>4. Ownership /\ Counting /\ Costing
    BY <1>2 DEF Ownership, Counting, Costing, Persists, Completed
  <1>5. CompletedIsCounted /\ CostIsCurrent
    BY <1>2 DEF CompletedIsCounted, CostIsCurrent, Alive
  <1>6. QED
    BY <1>1, <1>3, <1>4, <1>5 DEF IInv

LEMMA InvariantKept == IInv /\ [Next]_vars => IInv'
  BY TypesKept, IdentityKept, ServedKept, OwnershipKept, CountingKept, CostingKept DEF IInv

(* The inductive invariant of uploads, workers and handlers holds.         *)
THEOREM Invariance == Spec => []IInv
  BY InitInvariant, InvariantKept, PTL DEF Spec

(* Every state has its types; a job is never tried more often than          *)
(* max_attempts, and no ledger has more chunks than its file.              *)
THEOREM TypeCorrect == Spec => []TypeOK
  BY Invariance, PTL DEF IInv

(* finalize_upload and delete_report: an answered upload has a job, and the  *)
(* file of an unfinished job is there.                                     *)
THEOREM AnsweredUploadsAreServed == Spec => []UploadsAreServed
  <1>1. IInv => UploadsAreServed
    BY DEF IInv, References, Identity, Served, UploadsAreServed
  <1>2. QED
    BY <1>1, Invariance, PTL

(* PostgresQueueBackend.enqueue: nothing but its deletion moves a finished   *)
(* job or the row of its report.                                           *)
THEOREM FinishedStays == Spec => FinishedIsFinal
  <1>1. IInv /\ [Next]_vars =>
          [\A r \in Report :
             (job[r].status \in {"completed", "failed"} /\ row'[r].alive)
                => (job'[r] = job[r] /\ row'[r] = row[r])]_vars
    BY FinishedSteps DEF IInv
  <1>2. QED
    BY <1>1, Invariance, PTL DEF Spec, FinishedIsFinal

(* _rebuild_aggregates and rebuild_projections_for_dates: a completed report *)
(* is counted in full wherever the lock was not passed by.                 *)
THEOREM CompletedStaysCounted == Spec => []CompletedIsCounted
  BY InitInvariant, Invariance, CountedKept, PTL DEF Spec

(* The cost requests: an answered change of costs is in every projection     *)
(* whose writer read the costs after it.                                   *)
THEOREM CostStaysCurrent == Spec => []CostIsCurrent
  BY InitInvariant, Invariance, CurrentKept, PTL DEF Spec

-------------------------------------------------------------------------------
(***************************************************************************)
(* THE BOOK OF COSTS.  Rows, and the parts of the invariant.               *)
(***************************************************************************)
(* A line an import does not skip names a day.                              *)
LEMMA PriceTypes ==
    ASSUME NEW f \in Files, NEW i \in DOMAIN f.lines, Legible(f, f.lines[i])
    PROVE  Read(f, f.lines[i]) \in Price /\ Read(f, f.lines[i]).day \in Day
<1>1. Read(f, f.lines[i]) \in Price
  BY DEF Price, Prices
<1>2. Cell(f, f.lines[i], "day") \in Day
  BY FilesAssumption DEF FilesAssumption, Legible
<1>. QED
  BY <1>1, <1>2 DEF Read

LEMMA DaysOfPrices == \A p \in Price : p.day \in Day
<1>1. ASSUME NEW p \in Price PROVE p.day \in Day
  <2>1. PICK f \in Files : p \in Prices(f)
    BY DEF Price
  <2>2. PICK i \in DOMAIN f.lines : Legible(f, f.lines[i]) /\ p = Read(f, f.lines[i])
    BY <2>1 DEF Prices
  <2>. QED
    BY <2>2, PriceTypes
<1>. QED
  BY <1>1

(* A row of the book keeps what its line says, and the rounded sum.         *)
LEMMA RowTypes ==
    ASSUME NEW r \in BookRow
    PROVE  /\ r.cost = Rounded(r.fine) /\ r.day \in Day /\ r.born \in 1..MaxActs /\ r.id \in Nat
           /\ \E p \in Price : r = Row(p, r.id, r.born)
<1>1. PICK p \in Price, id \in Nat, born \in 1..MaxActs : r = Row(p, id, born)
  BY DEF BookRow
<1>2. p.day \in Day
  BY DaysOfPrices
<1>. QED
  BY <1>1, <1>2 DEF Row

(* The identities of the rows stay bounded, so that there is a next one.    *)
IdsAreBounded == \E n \in Nat : \A r \in book : r.id <= n

Importing(s) == session[s].pc = "import"
Lone(s) == Importing(s) /\ session[s].alone
Legibles(f) == {i \in DOMAIN f.lines : Legible(f, f.lines[i])}
Said(f, i) == Read(f, f.lines[i])

(* An import has its file, a line to read next and a transaction's time.    *)
ImportsHaveFiles ==
    \A s \in Session : Importing(s) =>
        /\ session[s].file \in Files /\ session[s].born \in 1..acts
        /\ session[s].at \in 1..(Len(session[s].file.lines) + 1)

(* Who imports alone is the only one to import, and every row is older.     *)
AloneIsAlone == \A s, u \in Session : Lone(s) /\ Importing(u) => u = s
BookIsOlder ==
    /\ \A r \in book : r.born <= acts
    /\ \A s \in Session : Lone(s) => \A r \in book : r.born < session[s].born

(* Of the rows b, those of p's key created last say what p says.             *)
Alike(b, p) == {r \in b : r.sku = p.sku /\ r.day = p.day}
Booked(b, p) ==
    /\ Alike(b, p) # {}
    /\ \A r \in Alike(b, p) : (\A q \in Alike(b, p) : q.born <= r.born) => Same(r, p)

(* What an import is going to add stands in a line it has read; ...         *)
AddedIsRead ==
    \A s \in Session : Importing(s) =>
        \A j \in DOMAIN session[s].added : \E i \in Legibles(session[s].file) :
            i < session[s].at /\ session[s].added[j] = Said(session[s].file, i)

Undisturbed(s) == Lone(s) /\ session[s].checked /\ Plain(session[s].file) /\ NoTwins

(* ... what it has read and does not add stands in the book; ...            *)
ReadIsKept ==
    \A s \in Session : Undisturbed(s) =>
        \A i \in Legibles(session[s].file) : i < session[s].at =>
            \/ \E j \in DOMAIN session[s].added : session[s].added[j] = Said(session[s].file, i)
            \/ Booked(book, Said(session[s].file, i))

(* ... as does every line of the file imported last; ...                    *)
FreshIsBooked ==
    fresh # Null /\ Plain(fresh) /\ NoTwins =>
        \A i \in Legibles(fresh) : Booked(book, Said(fresh, i))

(* ... so that the same file has nothing to add.                            *)
AgainAddsNothing ==
    \A s \in Session : Undisturbed(s) /\ fresh = session[s].file => session[s].added = << >>

TypeInv == BookTyped /\ IdsAreBounded /\ ImportsHaveFiles
ImportInv ==
    /\ AloneIsAlone /\ BookIsOlder /\ AddedIsRead
    /\ ReadIsKept /\ FreshIsBooked /\ AgainAddsNothing

(* There is a next identity, and no row has it.                             *)
LEMMA NextIdType ==
    ASSUME book \subseteq BookRow, IdsAreBounded
    PROVE  NextId \in Nat /\ \A r \in book : r.id < NextId
<1> DEFINE ids == {0} \cup {r.id : r \in book}
<1>1. PICK n \in Nat : \A r \in book : r.id <= n
  BY DEF IdsAreBounded
<1>2. ids \in SUBSET Nat /\ ids # {} /\ \A x \in ids : x <= n
  BY <1>1, RowTypes
<1>3. Max(ids) \in ids /\ \A x \in ids : x <= Max(ids)
  <2> HIDE DEF ids
  <2>. QED BY <1>2, MaxExists
<1>4. NextId = Max(ids) + 1 /\ \A r \in book : r.id \in ids
  BY DEF NextId
<1>5. Max(ids) \in Nat /\ \A r \in book : r.id \in Nat /\ r.id <= Max(ids)
  <2> HIDE DEF ids
  <2>. QED BY <1>2, <1>3, <1>4
<1> HIDE DEF ids
<1>. QED
  BY <1>4, <1>5

LEMMA FileTypes ==
    ASSUME NEW f \in Files
    PROVE  /\ f # Null /\ Len(f.lines) \in Nat /\ DOMAIN f.lines = 1..Len(f.lines)
           /\ \A i \in Legibles(f) : Said(f, i) \in Price
BY FilesAssumption, PriceTypes DEF FilesAssumption, Legibles, Said

LEMMA IdleType == Null \notin Files /\ Idle \in Request /\ Idle.pc = "idle" /\ MaxActs \in Nat
BY FilesAssumption, CostBookAssumption DEF FilesAssumption, CostBookAssumption, Idle, Request

LEMMA InitHolds == BookInit => TypeInv /\ ImportInv
<1> SUFFICES ASSUME BookInit PROVE TypeInv /\ ImportInv
  OBVIOUS
<1>1. BookTyped /\ IdsAreBounded
  BY IdleType DEF BookInit, BookTyped, IdsAreBounded
<1>2. \A s \in Session : ~Importing(s)
  BY IdleType DEF BookInit, Importing
<1>. QED
  BY <1>1, <1>2 DEF BookInit, TypeInv, ImportsHaveFiles, ImportInv, AloneIsAlone, BookIsOlder, AddedIsRead,
       ReadIsKept, FreshIsBooked, AgainAddsNothing, Undisturbed, Lone

(***************************************************************************)
(* What the steps write.                                                   *)
(***************************************************************************)
Unalone(k) == [k EXCEPT !.alone = FALSE]

LEMMA UnaloneType ==
    ASSUME NEW k \in Request
    PROVE  /\ Unalone(k) \in Request /\ ~Unalone(k).alone
           /\ Unalone(k).pc = k.pc /\ Unalone(k).file = k.file /\ Unalone(k).born = k.born
           /\ Unalone(k).at = k.at /\ Unalone(k).added = k.added
BY DEF Unalone, Request

(* Whoever starts to write is alone or not, and nobody else is any more.    *)
LEMMA StartWrites ==
    ASSUME BookTyped, NEW s \in Session, NEW now \in Request, Starts(s, now)
    PROVE  /\ acts' \in 1..MaxActs /\ acts' = acts + 1 /\ session' \in [Session -> Request]
           /\ \E alone \in BOOLEAN :
                 /\ session'[s] = [now EXCEPT !.born = acts + 1, !.alone = alone]
                 /\ alone => \A u \in Session : ~Importing(u)
           /\ \A t \in Session \ {s} : session'[t] = Unalone(session[t])
<1>1. acts \in 0..MaxActs /\ acts < MaxActs /\ acts' = acts + 1 /\ MaxActs \in Nat
  BY IdleType DEF BookTyped, Starts
<1>2. PICK alone \in BOOLEAN : alone = ~\E u \in Session : Writing(u)
  OBVIOUS
<1>3. [now EXCEPT !.born = acts + 1, !.alone = alone] \in Request
  <2>1. acts + 1 \in 0..MaxActs
    BY <1>1
  <2>2. \A n \in 0..MaxActs : [now EXCEPT !.born = n, !.alone = alone] \in Request
    BY DEF Request
  <2>. QED
    BY <2>1, <2>2
<1>4. \A t \in Session : Unalone(session[t]) \in Request
  BY UnaloneType DEF BookTyped
<1>5. session' = [t \in Session |->
          IF t = s THEN [now EXCEPT !.born = acts + 1, !.alone = alone] ELSE Unalone(session[t])]
  BY <1>2 DEF Starts, Unalone
<1>6. alone => \A u \in Session : ~Importing(u)
  BY <1>2 DEF Writing, Importing
<1>7. session' \in [Session -> Request] /\ session'[s] = [now EXCEPT !.born = acts + 1, !.alone = alone]
      /\ \A t \in Session \ {s} : session'[t] = Unalone(session[t])
  BY <1>3, <1>4, <1>5
<1>8. acts' \in 1..MaxActs /\ acts' = acts + 1
  BY <1>1
<1>. QED
  BY <1>6, <1>7, <1>8, Zenon

LEMMA ImportWrites ==
    ASSUME BookTyped, NEW s \in Session, StartImport(s)
    PROVE  /\ acts' \in 1..MaxActs /\ acts' = acts + 1 /\ session' \in [Session -> Request]
           /\ session'[s].pc = "import" /\ session'[s].file \in Files
           /\ session'[s].at = 1 /\ session'[s].added = << >> /\ session'[s].born = acts + 1
           /\ session'[s].alone => \A u \in Session : ~Importing(u)
           /\ \A t \in Session \ {s} : session'[t] = Unalone(session[t])
           /\ book' = book /\ fresh' = fresh
<1>1. PICK f \in Files, c \in BOOLEAN :
          Starts(s, [Idle EXCEPT !.pc = "import", !.file = f, !.checked = c])
  BY DEF StartImport
<1> DEFINE now == [Idle EXCEPT !.pc = "import", !.file = f, !.checked = c]
<1>2. now \in Request /\ now.pc = "import" /\ now.file = f /\ now.at = 1 /\ now.added = << >>
  BY IdleType DEF Idle, Request
<1> HIDE DEF now
<1>3. Starts(s, now)
  BY <1>1 DEF now
<1>4. PICK alone \in BOOLEAN :
          /\ session'[s] = [now EXCEPT !.born = acts + 1, !.alone = alone]
          /\ alone => \A u \in Session : ~Importing(u)
  BY <1>2, <1>3, StartWrites
<1>5. /\ session'[s].pc = "import" /\ session'[s].file = f /\ session'[s].at = 1
      /\ session'[s].added = << >> /\ session'[s].born = acts + 1 /\ session'[s].alone = alone
  BY <1>2, <1>4 DEF Request
<1>6. /\ acts' \in 1..MaxActs /\ acts' = acts + 1 /\ session' \in [Session -> Request]
      /\ \A t \in Session \ {s} : session'[t] = Unalone(session[t])
  BY <1>2, <1>3, StartWrites
<1>. QED
  BY <1>4, <1>5, <1>6 DEF StartImport

LEMMA GetWrites ==
    ASSUME BookTyped, NEW s \in Session, GetCost(s)
    PROVE  /\ acts' \in 1..MaxActs /\ acts' = acts + 1 /\ session' \in [Session -> Request]
           /\ session'[s].pc # "import"
           /\ \A t \in Session \ {s} : session'[t] = Unalone(session[t])
           /\ book' = book /\ fresh' = fresh
<1>1. PICK r \in book, pc \in {"delete", "edit"} : Starts(s, [Idle EXCEPT !.pc = pc, !.row = r])
  BY DEF GetCost
<1> DEFINE now == [Idle EXCEPT !.pc = pc, !.row = r]
<1>2. now \in Request /\ now.pc = pc
  <2>1. r \in BookRow
    BY DEF BookTyped
  <2>. QED
    BY <2>1, IdleType DEF Idle, Request
<1> HIDE DEF now
<1>3. Starts(s, now)
  BY <1>1 DEF now
<1>4. PICK alone \in BOOLEAN : session'[s] = [now EXCEPT !.born = acts + 1, !.alone = alone]
  BY <1>2, <1>3, StartWrites
<1>5. session'[s].pc = pc
  BY <1>2, <1>4 DEF Request
<1>6. /\ acts' \in 1..MaxActs /\ acts' = acts + 1 /\ session' \in [Session -> Request]
      /\ \A t \in Session \ {s} : session'[t] = Unalone(session[t])
  BY <1>2, <1>3, StartWrites
<1>. QED
  BY <1>5, <1>6 DEF GetCost

LEMMA CreateWrites ==
    ASSUME BookTyped, NEW s \in Session, Create(s)
    PROVE  /\ acts' \in 1..MaxActs /\ acts' = acts + 1 /\ session' \in [Session -> Request]
           /\ session'[s].pc # "import"
           /\ \A t \in Session \ {s} : session'[t] = Unalone(session[t])
           /\ \E p \in Price : book' = book \cup {Row(p, NextId, acts + 1)}
           /\ fresh' = Null
<1>1. Starts(s, Idle)
  BY DEF Create
<1>2. PICK alone \in BOOLEAN : session'[s] = [Idle EXCEPT !.born = acts + 1, !.alone = alone]
  BY <1>1, IdleType, StartWrites
<1>3. session'[s].pc = "idle"
  BY <1>2, IdleType DEF Request
<1>4. \E p \in Price : book' = book \cup {Row(p, NextId, acts + 1)}
  <2>1. PICK f \in Files : \E i \in DOMAIN f.lines :
          Legible(f, f.lines[i]) /\ book' = book \cup {Row(Read(f, f.lines[i]), NextId, acts + 1)}
    BY DEF Create
  <2>. QED
    BY <2>1, PriceTypes
<1>5. /\ acts' \in 1..MaxActs /\ acts' = acts + 1 /\ session' \in [Session -> Request]
      /\ \A t \in Session \ {s} : session'[t] = Unalone(session[t])
  BY <1>1, IdleType, StartWrites
<1>. QED
  BY <1>3, <1>4, <1>5 DEF Create

LEMMA DeleteWrites ==
    ASSUME BookTyped, NEW s \in Session, DeleteCost(s)
    PROVE  /\ session' \in [Session -> Request] /\ session'[s].pc # "import"
           /\ \A t \in Session \ {s} : session'[t] = Unalone(session[t])
           /\ book' \subseteq book /\ fresh' = Null /\ acts' = acts
<1>1. session' = [t \in Session |-> IF t = s THEN Idle ELSE Unalone(session[t])]
  BY DEF DeleteCost, Unalone
<1>2. ASSUME NEW t \in Session PROVE Unalone(session[t]) \in Request
  BY UnaloneType DEF BookTyped
<1>. QED
  BY <1>1, <1>2, IdleType DEF DeleteCost

LEMMA UpdateWrites ==
    ASSUME BookTyped, NEW s \in Session, UpdateCost(s)
    PROVE  /\ session' \in [Session -> Request] /\ session'[s].pc # "import"
           /\ \A t \in Session \ {s} : session'[t] = session[t]
           /\ book' = book /\ fresh' = fresh /\ acts' = acts
BY IdleType DEF UpdateCost, BookTyped

LEMMA CommitWrites ==
    ASSUME BookTyped, NEW s \in Session, CommitImport(s)
    PROVE  /\ Importing(s) /\ session[s].at > Len(session[s].file.lines)
           /\ session' \in [Session -> Request] /\ session'[s].pc # "import"
           /\ \A t \in Session \ {s} : session'[t] = session[t]
           /\ book' = book \cup {Row(session[s].added[i], NextId + i, session[s].born) :
                                    i \in DOMAIN session[s].added}
           /\ fresh' = IF session[s].alone /\ session[s].checked THEN session[s].file ELSE Null
           /\ acts' = acts
BY IdleType DEF CommitImport, BookTyped, Importing

(* One line is skipped, or what it says added.                             *)
ReadsOn(s) ==
    LET k == session[s]  j == session'[s] IN
    /\ j.pc = k.pc /\ j.file = k.file /\ j.checked = k.checked
    /\ j.born = k.born /\ j.alone = k.alone /\ j.at = k.at + 1
Skips(s) ==
    LET k == session[s] IN
    /\ session'[s].added = k.added
    /\ k.at \in Legibles(k.file) =>
          k.checked /\ \E r \in LatestOf(Said(k.file, k.at)) : Same(r, Said(k.file, k.at))
Adds(s) ==
    LET k == session[s] IN
    /\ session'[s].added = Append(k.added, Said(k.file, k.at))
    /\ k.at \in Legibles(k.file)
    /\ \/ ~k.checked \/ OfKey(Said(k.file, k.at)) = {}
       \/ \E r \in LatestOf(Said(k.file, k.at)) : ~Same(r, Said(k.file, k.at))

(* A line a checked import skips has its match in the book, one it adds not. *)
LEMMA ReadWrites ==
    ASSUME BookTyped, ImportsHaveFiles, NEW s \in Session, ReadLine(s)
    PROVE  /\ Importing(s) /\ session[s].at \in 1..Len(session[s].file.lines)
           /\ session' \in [Session -> Request]
           /\ \A t \in Session \ {s} : session'[t] = session[t]
           /\ ReadsOn(s) /\ (Skips(s) \/ Adds(s))
           /\ book' = book /\ fresh' = fresh /\ acts' = acts
<1> DEFINE k == session[s]
           f == k.file
           p == Said(f, k.at)
<1>1. k \in Request /\ k.pc = "import" /\ f \in Files /\ k.at \in 1..Len(f.lines)
  <2>1. k.pc = "import" /\ k.at <= Len(f.lines)
    BY DEF ReadLine
  <2>2. f \in Files /\ k.at \in 1..(Len(f.lines) + 1)
    BY <2>1 DEF ImportsHaveFiles, Importing
  <2>3. Len(f.lines) \in Nat
    BY <2>2, FileTypes
  <2>. QED
    BY <2>1, <2>2, <2>3 DEF BookTyped
<1>2. k.at \in Nat /\ k.at + 1 \in Nat /\ k.added \in Seq(Price)
  BY <1>1 DEF Request
<1>3. k.at \in DOMAIN f.lines /\ (Legible(f, f.lines[k.at]) <=> k.at \in Legibles(f))
      /\ p = Read(f, f.lines[k.at])
  BY <1>1, FileTypes DEF Legibles, Said
<1>4. \/ /\ session' = [session EXCEPT ![s].at = @ + 1]
         /\ Legible(f, f.lines[k.at]) => k.checked /\ \E r \in LatestOf(p) : Same(r, p)
      \/ /\ session' = [session EXCEPT ![s].at = @ + 1, ![s].added = Append(@, p)]
         /\ Legible(f, f.lines[k.at])
         /\ ~k.checked \/ OfKey(p) = {} \/ \E r \in LatestOf(p) : ~Same(r, p)
  BY <1>3 DEF ReadLine
<1>5. CASE /\ session' = [session EXCEPT ![s].at = @ + 1]
           /\ Legible(f, f.lines[k.at]) => k.checked /\ \E r \in LatestOf(p) : Same(r, p)
  <2>1. session'[s] = [k EXCEPT !.at = @ + 1] /\ \A t \in Session \ {s} : session'[t] = session[t]
    BY <1>5 DEF BookTyped
  <2>2. [k EXCEPT !.at = @ + 1] \in Request
    BY <1>1, <1>2 DEF Request
  <2>3. ReadsOn(s) /\ session'[s].added = k.added
    BY <1>1, <2>1 DEF ReadsOn, Request
  <2>4. Skips(s)
    BY <1>3, <1>5, <2>3 DEF Skips
  <2>5. session' \in [Session -> Request]
    BY <1>5, <2>1, <2>2 DEF BookTyped
  <2>. QED
    BY <1>1, <2>1, <2>3, <2>4, <2>5 DEF ReadLine, Importing
<1>6. CASE /\ session' = [session EXCEPT ![s].at = @ + 1, ![s].added = Append(@, p)]
           /\ Legible(f, f.lines[k.at])
           /\ ~k.checked \/ OfKey(p) = {} \/ \E r \in LatestOf(p) : ~Same(r, p)
  <2>1. session'[s] = [k EXCEPT !.at = @ + 1, !.added = Append(@, p)]
        /\ \A t \in Session \ {s} : session'[t] = session[t]
    BY <1>6 DEF BookTyped
  <2>2. p \in Price
    BY <1>1, <1>3, <1>6, PriceTypes
  <2>3. [k EXCEPT !.at = @ + 1, !.added = Append(@, p)] \in Request
    <3>1. Append(k.added, p) \in Seq(Price)
      BY <1>2, <2>2
    <3> HIDE DEF p
    <3>. QED
      BY <1>1, <1>2, <3>1 DEF Request
  <2>4. ReadsOn(s) /\ session'[s].added = Append(k.added, p)
    BY <1>1, <2>1 DEF ReadsOn, Request
  <2>5. Adds(s)
    BY <1>3, <1>6, <2>4 DEF Adds
  <2>6. session' \in [Session -> Request]
    BY <1>6, <2>1, <2>3 DEF BookTyped
  <2>. QED
    BY <1>1, <2>1, <2>4, <2>5, <2>6 DEF ReadLine, Importing
<1>. QED
  BY <1>4, <1>5, <1>6

(***************************************************************************)
(* The invariant.                                                          *)
(***************************************************************************)
LEMMA TypeStep == TypeInv /\ [BookNext]_bookVars => TypeInv'
<1> SUFFICES ASSUME TypeInv, [BookNext]_bookVars PROVE TypeInv'
  OBVIOUS
<1>0. /\ BookTyped /\ IdsAreBounded /\ ImportsHaveFiles /\ MaxActs \in Nat
      /\ book \subseteq BookRow /\ acts \in 0..MaxActs /\ fresh \in Files \cup {Null}
      /\ session \in [Session -> Request]
  BY IdleType DEF TypeInv, BookTyped
<1>a. ASSUME NEW t \in Session, session'[t] = session[t] \/ session'[t] = Unalone(session[t]),
             Importing(t)', acts' \in Int, acts <= acts'
      PROVE  /\ session'[t].file \in Files /\ session'[t].born \in 1..acts'
             /\ session'[t].at \in 1..(Len(session'[t].file.lines) + 1)
  <2>1. /\ session'[t].pc = session[t].pc /\ session'[t].file = session[t].file
        /\ session'[t].born = session[t].born /\ session'[t].at = session[t].at
    BY <1>0, <1>a, UnaloneType
  <2>2. session[t].file \in Files /\ session[t].born \in 1..acts
        /\ session[t].at \in 1..(Len(session[t].file.lines) + 1)
    BY <1>0, <1>a, <2>1 DEF ImportsHaveFiles, Importing
  <2>. QED
    BY <1>0, <1>a, <2>1, <2>2
<1>b. book' \subseteq book => book' \subseteq BookRow /\ IdsAreBounded'
  BY <1>0 DEF IdsAreBounded
<1>c. ASSUME NEW p \in Price, NEW born \in 1..MaxActs, NEW n \in Nat,
             \A r \in book' : r \in book \/ \E i \in 0..n : \E q \in Price : r = Row(q, NextId + i, born)
      PROVE  book' \subseteq BookRow /\ IdsAreBounded'
  <2>1. NextId \in Nat /\ \A r \in book : r.id < NextId
    BY <1>0, NextIdType
  <2>2. ASSUME NEW r \in book' PROVE r \in BookRow /\ r.id <= NextId + n
    <3>1. CASE r \in book
      BY <1>0, <2>1, <3>1, RowTypes
    <3>2. CASE \E i \in 0..n : \E q \in Price : r = Row(q, NextId + i, born)
      <4>1. PICK i \in 0..n, q \in Price : r = Row(q, NextId + i, born)
        BY <3>2
      <4>2. NextId + i \in Nat /\ NextId + i <= NextId + n
        BY <2>1
      <4>. QED
        BY <4>1, <4>2 DEF BookRow, Row
    <3>. QED
      BY <1>c, <3>1, <3>2
  <2>3. NextId + n \in Nat
    BY <2>1
  <2>. QED
    BY <2>2, <2>3 DEF IdsAreBounded
<1>1. ASSUME NEW s \in Session, StartImport(s) PROVE TypeInv'
  <2>1. /\ acts' \in 1..MaxActs /\ acts' = acts + 1 /\ session' \in [Session -> Request]
        /\ session'[s].file \in Files /\ session'[s].at = 1 /\ session'[s].born = acts + 1
        /\ \A t \in Session \ {s} : session'[t] = Unalone(session[t])
        /\ book' = book /\ fresh' = fresh
    BY <1>0, <1>1, ImportWrites
  <2>2. ImportsHaveFiles'
    <3>1. ASSUME NEW t \in Session, Importing(t)'
          PROVE  /\ session'[t].file \in Files /\ session'[t].born \in 1..acts'
                 /\ session'[t].at \in 1..(Len(session'[t].file.lines) + 1)
      <4>1. CASE t = s
        BY <2>1, <4>1, FileTypes
      <4>2. CASE t # s
        BY <1>0, <1>a, <2>1, <3>1, <4>2
      <4>. QED
        BY <4>1, <4>2
    <3>. QED
      BY <3>1 DEF ImportsHaveFiles
  <2>. QED
    BY <1>0, <2>1, <2>2 DEF TypeInv, BookTyped, IdsAreBounded
<1>2. ASSUME NEW s \in Session, ReadLine(s) PROVE TypeInv'
  <2>1. /\ Importing(s) /\ session[s].at \in 1..Len(session[s].file.lines)
        /\ session' \in [Session -> Request] /\ ReadsOn(s)
        /\ \A t \in Session \ {s} : session'[t] = session[t]
        /\ book' = book /\ fresh' = fresh /\ acts' = acts
    BY <1>0, <1>2, ReadWrites
  <2>2. ImportsHaveFiles'
    <3>1. ASSUME NEW t \in Session, Importing(t)'
          PROVE  /\ session'[t].file \in Files /\ session'[t].born \in 1..acts'
                 /\ session'[t].at \in 1..(Len(session'[t].file.lines) + 1)
      <4>1. CASE t = s
        <5>1. session[s].file \in Files /\ session[s].born \in 1..acts
          BY <1>0, <2>1 DEF ImportsHaveFiles
        <5>2. Len(session[s].file.lines) \in Nat
          BY <5>1, FileTypes
        <5>. QED
          BY <2>1, <4>1, <5>1, <5>2 DEF ReadsOn
      <4>2. CASE t # s
        BY <1>0, <1>a, <2>1, <3>1, <4>2
      <4>. QED
        BY <4>1, <4>2
    <3>. QED
      BY <3>1 DEF ImportsHaveFiles
  <2>. QED
    BY <1>0, <2>1, <2>2 DEF TypeInv, BookTyped, IdsAreBounded
<1>3. ASSUME NEW s \in Session, CommitImport(s) PROVE TypeInv'
  <2> DEFINE k == session[s]
  <2>1. /\ Importing(s) /\ session' \in [Session -> Request] /\ session'[s].pc # "import"
        /\ \A t \in Session \ {s} : session'[t] = session[t]
        /\ book' = book \cup {Row(k.added[i], NextId + i, k.born) : i \in DOMAIN k.added}
        /\ fresh' = IF k.alone /\ k.checked THEN k.file ELSE Null
        /\ acts' = acts
    BY <1>0, <1>3, CommitWrites
  <2>2. k \in Request /\ k.file \in Files /\ k.born \in 1..acts
    BY <1>0, <2>1 DEF ImportsHaveFiles
  <2>3. k.added \in Seq(Price) /\ DOMAIN k.added = 1..Len(k.added) /\ Len(k.added) \in Nat
    BY <2>2 DEF Request
  <2>4. k.born \in 1..MaxActs
    BY <1>0, <2>2
  <2>5. book' \subseteq BookRow /\ IdsAreBounded'
    <3>1. CASE k.added = << >>
      <4>1. DOMAIN k.added = {}
        BY <3>1
      <4>2. book' \subseteq book
        BY <2>1, <4>1
      <4>. QED
        BY <1>b, <4>2
    <3>2. CASE k.added # << >>
      <4>1. \A i \in 1..Len(k.added) : k.added[i] \in Price /\ i \in 0..Len(k.added)
        BY <2>3
      <4>2. \A r \in book' : r \in book \/ \E i \in 0..Len(k.added) : \E q \in Price : r = Row(q, NextId + i, k.born)
        <5> HIDE DEF k
        <5>. QED BY <2>1, <2>3, <4>1
      <4>3. PICK p \in Price : TRUE
        BY <2>3, <3>2, <4>1
      <4> HIDE DEF k
      <4>. QED
        BY <1>c, <2>3, <2>4, <4>2, <4>3
    <3>. QED
      BY <3>1, <3>2
  <2>6. ImportsHaveFiles'
    BY <1>0, <1>a, <2>1 DEF ImportsHaveFiles, Importing
  <2>. QED
    BY <1>0, <2>1, <2>2, <2>5, <2>6 DEF TypeInv, BookTyped
<1>4. ASSUME NEW s \in Session, Create(s) PROVE TypeInv'
  <2>1. /\ acts' \in 1..MaxActs /\ acts' = acts + 1 /\ session' \in [Session -> Request]
        /\ session'[s].pc # "import"
        /\ \A t \in Session \ {s} : session'[t] = Unalone(session[t])
        /\ fresh' = Null
    BY <1>0, <1>4, CreateWrites
  <2>2. PICK p \in Price : book' = book \cup {Row(p, NextId, acts + 1)}
    BY <1>0, <1>4, CreateWrites
  <2>3. NextId \in Nat
    BY <1>0, NextIdType
  <2>4. \A r \in book' : r \in book \/ \E i \in 0..0 : \E q \in Price : r = Row(q, NextId + i, acts + 1)
    <3>1. 0 \in 0..0 /\ NextId + 0 = NextId
      BY <2>3
    <3>. QED
      BY <2>2, <3>1
  <2>5. book' \subseteq BookRow /\ IdsAreBounded'
    <3>1. acts + 1 \in 1..MaxActs
      BY <2>1
    <3>. QED
      BY <1>c, <2>4, <3>1
  <2>6. ImportsHaveFiles'
    <3>1. acts <= acts' /\ acts' \in Int
      BY <1>0, <2>1
    <3>. QED
      BY <1>a, <2>1, <3>1 DEF ImportsHaveFiles, Importing
  <2>. QED
    BY <1>0, <2>1, <2>5, <2>6 DEF TypeInv, BookTyped
<1>5. ASSUME NEW s \in Session, GetCost(s) PROVE TypeInv'
  <2>1. /\ acts' \in 1..MaxActs /\ acts' = acts + 1 /\ session' \in [Session -> Request]
        /\ session'[s].pc # "import"
        /\ \A t \in Session \ {s} : session'[t] = Unalone(session[t])
        /\ book' = book /\ fresh' = fresh
    BY <1>0, <1>5, GetWrites
  <2>2. ImportsHaveFiles'
    <3>1. acts <= acts' /\ acts' \in Int
      BY <1>0, <2>1
    <3>. QED
      BY <1>a, <2>1, <3>1 DEF ImportsHaveFiles, Importing
  <2>. QED
    BY <1>0, <2>1, <2>2 DEF TypeInv, BookTyped, IdsAreBounded
<1>6. ASSUME NEW s \in Session, DeleteCost(s) PROVE TypeInv'
  <2>1. /\ session' \in [Session -> Request] /\ session'[s].pc # "import"
        /\ \A t \in Session \ {s} : session'[t] = Unalone(session[t])
        /\ book' \subseteq book /\ fresh' = Null /\ acts' = acts
    BY <1>0, <1>6, DeleteWrites
  <2>2. ImportsHaveFiles'
    BY <1>0, <1>a, <2>1 DEF ImportsHaveFiles, Importing
  <2>. QED
    BY <1>0, <1>b, <2>1, <2>2 DEF TypeInv, BookTyped
<1>7. ASSUME NEW s \in Session, UpdateCost(s) PROVE TypeInv'
  <2>1. /\ session' \in [Session -> Request] /\ session'[s].pc # "import"
        /\ \A t \in Session \ {s} : session'[t] = session[t]
        /\ book' = book /\ fresh' = fresh /\ acts' = acts
    BY <1>0, <1>7, UpdateWrites
  <2>2. ImportsHaveFiles'
    BY <1>0, <1>a, <2>1 DEF ImportsHaveFiles, Importing
  <2>. QED
    BY <1>0, <2>1, <2>2 DEF TypeInv, BookTyped, IdsAreBounded
<1>8. ASSUME UNCHANGED bookVars PROVE TypeInv'
  BY <1>0, <1>8 DEF bookVars, TypeInv, BookTyped, IdsAreBounded, ImportsHaveFiles, Importing
<1>. QED
  BY <1>1, <1>2, <1>3, <1>4, <1>5, <1>6, <1>7, <1>8 DEF BookNext

(* Who imports alone after a step has just started or was alone before, and *)
(* nobody else has written.                                                *)
LEMMA LoneAfter ==
    ASSUME TypeInv, AloneIsAlone, [BookNext]_bookVars, NEW t \in Session, Lone(t)'
    PROVE  /\ book' = book /\ fresh' = fresh
           /\ \/ /\ session'[t].at = 1 /\ session'[t].added = << >>
                 /\ session'[t].born = acts + 1 /\ session'[t].file \in Files
                 /\ \A u \in Session \ {t} : ~Importing(u)'
              \/ /\ Lone(t) /\ \A u \in Session \ {t} : ~Importing(u) /\ ~Importing(u)'
                 /\ session'[t] = session[t] \/ (ReadsOn(t) /\ (Skips(t) \/ Adds(t)))
<1>0. /\ BookTyped /\ ImportsHaveFiles /\ session \in [Session -> Request]
      /\ session'[t].pc = "import" /\ session'[t].alone
  BY DEF TypeInv, BookTyped, Lone, Importing
<1>a. session'[t] # Unalone(session[t])
  BY <1>0, UnaloneType
<1>b. Lone(t) => \A u \in Session \ {t} : ~Importing(u)
  BY DEF AloneIsAlone
<1>1. ASSUME NEW s \in Session, StartImport(s), s = t
      PROVE  /\ book' = book /\ fresh' = fresh
             /\ session'[t].at = 1 /\ session'[t].added = << >>
             /\ session'[t].born = acts + 1 /\ session'[t].file \in Files
             /\ \A u \in Session \ {t} : ~Importing(u)'
  <2>1. /\ session'[s].at = 1 /\ session'[s].added = << >> /\ session'[s].born = acts + 1
        /\ session'[s].file \in Files
        /\ session'[s].alone => \A u \in Session : ~Importing(u)
        /\ \A u \in Session \ {s} : session'[u] = Unalone(session[u])
        /\ book' = book /\ fresh' = fresh
    BY <1>0, <1>1, ImportWrites
  <2>2. ASSUME NEW u \in Session \ {t} PROVE ~Importing(u)'
    <3>1. ~Importing(u) /\ session'[u].pc = session[u].pc
      BY <1>0, <1>1, <2>1, UnaloneType
    <3>. QED
      BY <3>1 DEF Importing
  <2>. QED
    BY <1>1, <2>1, <2>2
<1>2. ASSUME NEW s \in Session, ReadLine(s)
      PROVE  /\ book' = book /\ fresh' = fresh /\ Lone(t)
             /\ \A u \in Session \ {t} : ~Importing(u) /\ ~Importing(u)'
             /\ session'[t] = session[t] \/ (ReadsOn(t) /\ (Skips(t) \/ Adds(t)))
  <2>1. /\ Importing(s) /\ ReadsOn(s) /\ (Skips(s) \/ Adds(s))
        /\ \A u \in Session \ {s} : session'[u] = session[u]
        /\ book' = book /\ fresh' = fresh
    BY <1>0, <1>2, ReadWrites
  <2>2. Lone(t)
    BY <1>0, <2>1 DEF Lone, Importing, ReadsOn
  <2>3. \A u \in Session \ {t} : ~Importing(u)'
    BY <1>b, <2>1, <2>2 DEF Importing
  <2>. QED
    BY <1>b, <2>1, <2>2, <2>3
<1>3. ASSUME NEW s \in Session, CommitImport(s) PROVE FALSE
  <2>1. /\ Importing(s) /\ session'[s].pc # "import"
        /\ \A u \in Session \ {s} : session'[u] = session[u]
    BY <1>0, <1>3, CommitWrites
  <2>2. s # t /\ Lone(t)
    BY <1>0, <2>1 DEF Lone, Importing
  <2>. QED
    BY <1>b, <2>1, <2>2
<1>4. ASSUME NEW s \in Session, StartImport(s) \/ Create(s) \/ GetCost(s) \/ DeleteCost(s), s # t PROVE FALSE
  <2>1. session'[t] = Unalone(session[t])
    BY <1>0, <1>4, ImportWrites, CreateWrites, GetWrites, DeleteWrites
  <2>. QED
    BY <1>a, <2>1
<1>5. ASSUME NEW s \in Session, Create(s) \/ GetCost(s) \/ DeleteCost(s), s = t PROVE FALSE
  <2>1. session'[s].pc # "import"
    BY <1>0, <1>5, CreateWrites, GetWrites, DeleteWrites
  <2>. QED
    BY <1>0, <1>5, <2>1
<1>6. ASSUME NEW s \in Session, UpdateCost(s)
      PROVE  /\ book' = book /\ fresh' = fresh /\ Lone(t) /\ session'[t] = session[t]
             /\ \A u \in Session \ {t} : ~Importing(u) /\ ~Importing(u)'
  <2>1. /\ session'[s].pc # "import" /\ \A u \in Session \ {s} : session'[u] = session[u]
        /\ book' = book /\ fresh' = fresh
    BY <1>0, <1>6, UpdateWrites
  <2>2. Lone(t) /\ session'[t] = session[t]
    BY <1>0, <2>1 DEF Lone, Importing
  <2>3. \A u \in Session \ {t} : ~Importing(u)'
    BY <1>b, <2>1, <2>2 DEF Importing
  <2>. QED
    BY <1>b, <2>1, <2>2, <2>3
<1>7. ASSUME UNCHANGED bookVars
      PROVE  /\ book' = book /\ fresh' = fresh /\ Lone(t) /\ session'[t] = session[t]
             /\ \A u \in Session \ {t} : ~Importing(u) /\ ~Importing(u)'
  BY <1>0, <1>b, <1>7 DEF bookVars, Lone, Importing
<1>. QED
  BY <1>1, <1>2, <1>3, <1>4, <1>5, <1>6, <1>7 DEF BookNext

LEMMA SameTwins == ASSUME book' = book PROVE NoTwins' = NoTwins
BY DEF NoTwins

LEMMA AloneStep == TypeInv /\ AloneIsAlone /\ [BookNext]_bookVars => AloneIsAlone'
<1> SUFFICES ASSUME TypeInv, AloneIsAlone, [BookNext]_bookVars,
                    NEW s \in Session, NEW u \in Session, Lone(s)', Importing(u)'
             PROVE  u = s
  BY DEF AloneIsAlone
<1>. QED
  BY LoneAfter

LEMMA OlderStep == TypeInv /\ AloneIsAlone /\ BookIsOlder /\ [BookNext]_bookVars => BookIsOlder'
<1> SUFFICES ASSUME TypeInv, AloneIsAlone, BookIsOlder, [BookNext]_bookVars PROVE BookIsOlder'
  OBVIOUS
<1>0. /\ BookTyped /\ ImportsHaveFiles /\ acts \in Nat /\ MaxActs \in Nat
      /\ session \in [Session -> Request] /\ \A r \in book : r.born \in Nat /\ r.born <= acts
  BY IdleType, RowTypes DEF TypeInv, BookTyped, BookIsOlder
<1>1. \A r \in book' : r.born <= acts'
  <2>1. ASSUME NEW s \in Session, StartImport(s) \/ GetCost(s) PROVE \A r \in book' : r.born <= acts'
    <3>1. book' = book /\ acts' = acts + 1
      BY <1>0, <2>1, ImportWrites, GetWrites
    <3>. QED
      BY <1>0, <3>1
  <2>2. ASSUME NEW s \in Session, ReadLine(s) \/ UpdateCost(s) \/ DeleteCost(s)
        PROVE  \A r \in book' : r.born <= acts'
    <3>1. book' \subseteq book /\ acts' = acts
      BY <1>0, <2>2, ReadWrites, UpdateWrites, DeleteWrites
    <3>. QED
      BY <1>0, <3>1
  <2>3. ASSUME NEW s \in Session, CommitImport(s) PROVE \A r \in book' : r.born <= acts'
    <3> DEFINE k == session[s]
    <3>1. /\ Importing(s) /\ acts' = acts
          /\ book' = book \cup {Row(k.added[i], NextId + i, k.born) : i \in DOMAIN k.added}
      BY <1>0, <2>3, CommitWrites
    <3>2. k.born \in 1..acts
      BY <1>0, <3>1 DEF ImportsHaveFiles
    <3>3. \A r \in book' : r \in book \/ r.born = k.born
      BY <3>1 DEF Row
    <3> HIDE DEF k
    <3>. QED
      BY <1>0, <3>1, <3>2, <3>3
  <2>4. ASSUME NEW s \in Session, Create(s) PROVE \A r \in book' : r.born <= acts'
    <3>1. acts' = acts + 1 /\ \E p \in Price : book' = book \cup {Row(p, NextId, acts + 1)}
      BY <1>0, <2>4, CreateWrites
    <3>2. \A r \in book' : r \in book \/ r.born = acts + 1
      BY <3>1 DEF Row
    <3>. QED
      BY <1>0, <3>1, <3>2
  <2>5. ASSUME UNCHANGED bookVars PROVE \A r \in book' : r.born <= acts'
    BY <1>0, <2>5 DEF bookVars
  <2>. QED
    BY <2>1, <2>2, <2>3, <2>4, <2>5 DEF BookNext
<1>2. ASSUME NEW s \in Session, Lone(s)', NEW r \in book' PROVE r.born < session'[s].born
  <2>1. r \in book
    BY <1>2, LoneAfter
  <2>2. CASE session'[s].born = acts + 1
    BY <1>0, <2>1, <2>2
  <2>3. CASE Lone(s) /\ session'[s].born = session[s].born
    BY <2>1, <2>3 DEF BookIsOlder
  <2>4. (session'[s].born = acts + 1) \/ (Lone(s) /\ session'[s].born = session[s].born)
    BY <1>2, LoneAfter DEF ReadsOn
  <2>. QED
    BY <2>2, <2>3, <2>4
<1>. QED
  BY <1>1, <1>2 DEF BookIsOlder

LEMMA AddedStep == TypeInv /\ AddedIsRead /\ [BookNext]_bookVars => AddedIsRead'
<1> SUFFICES ASSUME TypeInv, AddedIsRead, [BookNext]_bookVars, NEW t \in Session, Importing(t)',
                    NEW j \in DOMAIN session'[t].added
             PROVE  \E i \in Legibles(session'[t].file) :
                       i < session'[t].at /\ session'[t].added[j] = Said(session'[t].file, i)
  BY DEF AddedIsRead
<1>0. BookTyped /\ ImportsHaveFiles /\ session \in [Session -> Request]
  BY DEF TypeInv, BookTyped
<1> DEFINE Kept == session'[t] = session[t] \/ session'[t] = Unalone(session[t])
<1>1. CASE Kept
  <2>1. /\ session'[t].pc = session[t].pc /\ session'[t].file = session[t].file
        /\ session'[t].added = session[t].added /\ session'[t].at = session[t].at
    BY <1>0, <1>1, UnaloneType
  <2>. QED
    BY <2>1 DEF AddedIsRead, Importing
<1>2. CASE ReadLine(t)
  <2> DEFINE k == session[t]
  <2>1. Importing(t) /\ ReadsOn(t) /\ (Skips(t) \/ Adds(t))
    BY <1>0, <1>2, ReadWrites
  <2>2. k.file \in Files /\ k.at \in Nat /\ k.added \in Seq(Price)
    BY <1>0, <2>1 DEF ImportsHaveFiles, Request
  <2>3. session'[t].file = k.file /\ session'[t].at = k.at + 1
    BY <2>1 DEF ReadsOn
  <2>4. \A i \in Legibles(k.file) : i \in Nat
    BY <2>2, FileTypes DEF Legibles
  <2>5. CASE j \in DOMAIN k.added /\ session'[t].added[j] = k.added[j]
    <3>1. PICK i \in Legibles(k.file) : i < k.at /\ k.added[j] = Said(k.file, i)
      BY <2>1, <2>5 DEF AddedIsRead
    <3>2. i < k.at + 1
      BY <2>2, <2>4, <3>1
    <3>. QED
      BY <2>3, <2>5, <3>1, <3>2
  <2>6. CASE Adds(t) /\ session'[t].added[j] = Said(k.file, k.at)
    <3>1. k.at \in Legibles(k.file) /\ k.at < k.at + 1
      BY <2>2, <2>6 DEF Adds
    <3>. QED
      BY <2>3, <2>6, <3>1
  <2>7. Skips(t) => session'[t].added = k.added
    BY DEF Skips
  <2>8. Adds(t) => session'[t].added = Append(k.added, Said(k.file, k.at))
    BY DEF Adds
  <2> HIDE DEF k
  <2>9. Adds(t) => \/ j \in DOMAIN k.added /\ session'[t].added[j] = k.added[j]
                   \/ session'[t].added[j] = Said(k.file, k.at)
    BY <2>2, <2>8
  <2>. QED
    BY <2>1, <2>5, <2>6, <2>7, <2>9
<1>3. CASE StartImport(t)
  BY <1>0, <1>3, ImportWrites
<1>4. Kept \/ ReadLine(t) \/ StartImport(t)
  <2>0. session'[t].pc = "import"
    BY DEF Importing
  <2>1. ASSUME NEW s \in Session, StartImport(s) \/ Create(s) \/ GetCost(s) \/ DeleteCost(s), s # t PROVE Kept
    BY <1>0, <2>1, ImportWrites, CreateWrites, GetWrites, DeleteWrites
  <2>2. ASSUME NEW s \in Session, Create(s) \/ GetCost(s) \/ DeleteCost(s) \/ UpdateCost(s) \/ CommitImport(s)
        PROVE  session'[s].pc # "import"
    BY <1>0, <2>2, CreateWrites, GetWrites, DeleteWrites, UpdateWrites, CommitWrites
  <2>3. ASSUME NEW s \in Session, ReadLine(s) \/ CommitImport(s) \/ UpdateCost(s), s # t PROVE Kept
    BY <1>0, <2>3, ReadWrites, CommitWrites, UpdateWrites
  <2>4. UNCHANGED bookVars => Kept
    BY DEF bookVars
  <2>. QED
    BY <2>0, <2>1, <2>2, <2>3, <2>4 DEF BookNext
<1>. QED
  BY <1>1, <1>2, <1>3, <1>4

(* Without twins, the row an import compares with is determined.            *)
LEMMA LatestIsOne ==
    ASSUME TypeInv, NoTwins, NEW p, NEW r \in LatestOf(p), NEW q \in LatestOf(p)
    PROVE  r = q
<1>1. r \in book /\ q \in book /\ r.sku = q.sku /\ r.day = q.day /\ r.born <= q.born /\ q.born <= r.born
  BY DEF LatestOf, OfKey
<1>2. r.born \in Int /\ q.born \in Int
  BY <1>1, RowTypes DEF TypeInv, BookTyped
<1>. QED
  BY <1>1, <1>2 DEF NoTwins

(* A line that is read is added, or the last row of its key says the same.  *)
LEMMA ReadStep == TypeInv /\ ImportInv /\ [BookNext]_bookVars => ReadIsKept'
<1> SUFFICES ASSUME TypeInv, ImportInv, [BookNext]_bookVars, NEW t \in Session, Undisturbed(t)',
                    NEW i \in Legibles(session'[t].file), i < session'[t].at
             PROVE  \/ \E j \in DOMAIN session'[t].added : session'[t].added[j] = Said(session'[t].file, i)
                    \/ Booked(book', Said(session'[t].file, i))
  BY DEF ReadIsKept
<1>0. /\ session \in [Session -> Request] /\ ImportsHaveFiles /\ AloneIsAlone
      /\ Lone(t)' /\ session'[t].checked /\ Plain(session'[t].file)
  BY DEF TypeInv, BookTyped, ImportInv, Undisturbed
<1>1. book' = book
  BY <1>0, LoneAfter
<1>2. NoTwins
  BY <1>1, SameTwins DEF Undisturbed
<1>3. CASE session'[t].at = 1 /\ session'[t].file \in Files
  <2>1. i \in 1..Len(session'[t].file.lines) /\ Len(session'[t].file.lines) \in Nat
    BY <1>3, FileTypes DEF Legibles
  <2>. QED
    BY <1>3, <2>1
<1>4. CASE Lone(t) /\ session'[t] = session[t]
  <2>1. Undisturbed(t)
    BY <1>0, <1>2, <1>4 DEF Undisturbed
  <2>. QED
    BY <1>1, <1>4, <2>1 DEF ImportInv, ReadIsKept
<1>5. CASE Lone(t) /\ ReadsOn(t) /\ (Skips(t) \/ Adds(t))
  <2> DEFINE k == session[t]
             p == Said(k.file, i)
  <2>1. session'[t].file = k.file /\ session'[t].at = k.at + 1 /\ session'[t].checked = k.checked
    BY <1>5 DEF ReadsOn
  <2>2. Undisturbed(t)
    BY <1>0, <1>2, <1>5, <2>1 DEF Undisturbed
  <2>3. k.file \in Files /\ k.at \in Nat /\ k.added \in Seq(Price)
    BY <1>0, <1>5 DEF ImportsHaveFiles, Request, Lone
  <2>4. i \in Nat /\ i \in Legibles(k.file)
    BY <2>1, <2>3, FileTypes DEF Legibles
  <2>5. \A j \in DOMAIN k.added : j \in DOMAIN session'[t].added /\ session'[t].added[j] = k.added[j]
    <3>1. Skips(t) => session'[t].added = k.added
      BY DEF Skips
    <3>2. Adds(t) => session'[t].added = Append(k.added, Said(k.file, k.at))
      BY DEF Adds
    <3> HIDE DEF k
    <3>. QED
      BY <1>5, <2>3, <3>1, <3>2
  <2>6. CASE i < k.at
    <3>1. (\E j \in DOMAIN k.added : k.added[j] = p) \/ Booked(book, p)
      BY <2>2, <2>4, <2>6 DEF ImportInv, ReadIsKept
    <3> HIDE DEF k
    <3>. QED
      BY <1>1, <2>1, <2>5, <3>1
  <2>7. CASE i = k.at /\ Adds(t)
    <3>1. session'[t].added = Append(k.added, p)
      BY <2>7 DEF Adds
    <3> HIDE DEF k, p
    <3>2. \E j \in DOMAIN session'[t].added : session'[t].added[j] = p
      <4>1. Len(k.added) + 1 \in DOMAIN Append(k.added, p)
            /\ Append(k.added, p)[Len(k.added) + 1] = p
        BY <2>3
      <4>. QED
        BY <3>1, <4>1
    <3>. QED
      BY <2>1, <3>2 DEF p
  <2>8. CASE i = k.at /\ Skips(t)
    <3>1. PICK r \in LatestOf(p) : Same(r, p)
      BY <2>4, <2>8 DEF Skips
    <3>2. OfKey(p) # {} /\ \A q \in LatestOf(p) : Same(q, p)
      <4>1. r \in OfKey(p)
        BY <3>1 DEF LatestOf
      <4>2. \A q \in LatestOf(p) : q = r
        BY <1>2, <3>1, LatestIsOne
      <4>. QED
        BY <3>1, <4>1, <4>2
    <3>. QED
      BY <1>1, <2>1, <3>2 DEF Booked, Alike, OfKey, LatestOf
  <2>9. i < k.at \/ i = k.at
    <3> HIDE DEF k
    <3>. QED BY <2>1, <2>3, <2>4
  <2>. QED
    BY <1>5, <2>6, <2>7, <2>8, <2>9
<1>. QED
  BY <1>0, <1>3, <1>4, <1>5, LoneAfter

(* What the file imported last says is found in the book, line by line.     *)
LEMMA AgainStep == TypeInv /\ ImportInv /\ [BookNext]_bookVars => AgainAddsNothing'
<1> SUFFICES ASSUME TypeInv, ImportInv, [BookNext]_bookVars, NEW t \in Session, Undisturbed(t)',
                    fresh' = session'[t].file
             PROVE  session'[t].added = << >>
  BY DEF AgainAddsNothing
<1>0. /\ ImportsHaveFiles /\ AloneIsAlone
      /\ Lone(t)' /\ session'[t].checked /\ Plain(session'[t].file)
  BY DEF TypeInv, ImportInv, Undisturbed
<1>1. book' = book /\ fresh' = fresh
  BY <1>0, LoneAfter
<1>2. NoTwins
  BY <1>1, SameTwins DEF Undisturbed
<1>3. CASE Lone(t) /\ session'[t] = session[t]
  BY <1>0, <1>1, <1>2, <1>3 DEF ImportInv, AgainAddsNothing, Undisturbed
<1>4. CASE Lone(t) /\ ReadsOn(t) /\ (Skips(t) \/ Adds(t))
  <2> DEFINE k == session[t]
             p == Said(k.file, k.at)
  <2>1. session'[t].file = k.file /\ session'[t].checked = k.checked
    BY <1>4 DEF ReadsOn
  <2>2. Undisturbed(t) /\ fresh = k.file /\ k.file \in Files
    BY <1>0, <1>1, <1>2, <1>4, <2>1 DEF Undisturbed, ImportsHaveFiles, Lone
  <2>3. k.added = << >>
    BY <2>2 DEF ImportInv, AgainAddsNothing
  <2>4. CASE Skips(t)
    BY <2>3, <2>4 DEF Skips
  <2>5. CASE Adds(t)
    <3>1. k.at \in Legibles(k.file)
      BY <2>5 DEF Adds
    <3>2. Booked(book, p)
      <4>1. fresh # Null /\ Plain(fresh)
        BY <1>0, <2>1, <2>2, FileTypes
      <4>. QED
        BY <1>2, <2>2, <3>1, <4>1 DEF ImportInv, FreshIsBooked
    <3>. QED
      BY <1>0, <2>1, <2>5, <3>2 DEF Adds, Booked, Alike, OfKey, LatestOf
  <2>. QED
    BY <1>4, <2>4, <2>5
<1>. QED
  BY <1>0, <1>3, <1>4, LoneAfter

(* The import that was alone leaves its whole file in the book.            *)
LEMMA CommitBooks ==
    ASSUME TypeInv, ImportInv, NEW s \in Session, CommitImport(s),
           Lone(s), session[s].checked, Plain(session[s].file), NoTwins',
           NEW i \in Legibles(session[s].file)
    PROVE  Booked(book', Said(session[s].file, i))
<1> DEFINE k == session[s]
           f == k.file
           p == Said(f, i)
           NewRow(j) == Row(k.added[j], NextId + j, k.born)
<1>0. /\ BookTyped /\ ImportsHaveFiles /\ k \in Request /\ k.at > Len(f.lines)
      /\ book' = book \cup {NewRow(j) : j \in DOMAIN k.added}
  BY CommitWrites DEF TypeInv, BookTyped
<1>1. f \in Files /\ Len(f.lines) \in Nat /\ i \in 1..Len(f.lines) /\ k.at \in Nat
  <2>1. f \in Files
    BY <1>0 DEF ImportsHaveFiles, Lone
  <2>. QED
    BY <1>0, <2>1, FileTypes DEF Legibles, Request
<1>2. i < k.at
  BY <1>0, <1>1
<1>3. NoTwins
  BY <1>0 DEF NoTwins
<1>4. Undisturbed(s)
  BY <1>3 DEF Undisturbed
<1>5. \A r \in book : r.born < k.born /\ r.born \in Nat /\ k.born \in Nat
  BY <1>0, RowTypes DEF ImportInv, BookIsOlder, BookTyped, Request
<1>6. ASSUME NEW j \in DOMAIN k.added, NewRow(j).sku = p.sku, NewRow(j).day = p.day
      PROVE  k.added[j] = p /\ Same(NewRow(j), p)
  <2>1. PICK m \in Legibles(f) : k.added[j] = Said(f, m)
    BY DEF ImportInv, AddedIsRead, Lone
  <2>2. Said(f, m).sku = p.sku /\ Said(f, m).day = p.day
    BY <1>6, <2>1 DEF Row
  <2>3. m = i
    <3>1. i \in DOMAIN f.lines /\ m \in DOMAIN f.lines /\ Legible(f, f.lines[i]) /\ Legible(f, f.lines[m])
      BY DEF Legibles
    <3>. QED
      BY <2>2, <3>1 DEF Plain, Said
  <2>4. Rounded(p.fine) = p.fine
    BY DEF Plain, Said, Legibles
  <2>. QED
    BY <2>1, <2>3, <2>4 DEF Same, Row
<1>7. CASE \E j \in DOMAIN k.added : k.added[j] = p
  <2>1. PICK j \in DOMAIN k.added : k.added[j] = p
    BY <1>7
  <2>2. NewRow(j) \in book' /\ NewRow(j).sku = p.sku /\ NewRow(j).day = p.day /\ NewRow(j).born = k.born
    BY <1>0, <2>1 DEF Row
  <2>3. NewRow(j) \in Alike(book', p)
    BY <2>2 DEF Alike
  <2>4. ASSUME NEW r \in Alike(book', p), k.born <= r.born PROVE Same(r, p)
    <3>1. r \in book' /\ r.sku = p.sku /\ r.day = p.day
      BY DEF Alike
    <3>2. r \notin book
      BY <1>5, <2>4
    <3>3. PICK l \in DOMAIN k.added : r = NewRow(l)
      BY <1>0, <3>1, <3>2
    <3>. QED
      BY <1>6, <3>1, <3>3
  <2> HIDE DEF NewRow
  <2>. QED
    BY <2>2, <2>3, <2>4 DEF Booked
<1>8. CASE ~\E j \in DOMAIN k.added : k.added[j] = p
  <2>1. Booked(book, p)
    BY <1>2, <1>4, <1>8 DEF ImportInv, ReadIsKept
  <2>2. Alike(book', p) = Alike(book, p)
    <3>1. \A r \in book' : r.sku = p.sku /\ r.day = p.day => r \in book
      BY <1>0, <1>6, <1>8
    <3>2. book \subseteq book'
      BY <1>0
    <3>. QED
      BY <3>1, <3>2 DEF Alike
  <2>. QED
    BY <2>1, <2>2 DEF Booked
<1>. QED
  BY <1>7, <1>8

LEMMA FreshStep == TypeInv /\ ImportInv /\ [BookNext]_bookVars => FreshIsBooked'
<1> SUFFICES ASSUME TypeInv, ImportInv, [BookNext]_bookVars, fresh' # Null, Plain(fresh'), NoTwins',
                    NEW i \in Legibles(fresh')
             PROVE  Booked(book', Said(fresh', i))
  BY DEF FreshIsBooked
<1>0. BookTyped /\ ImportsHaveFiles
  BY DEF TypeInv
<1>1. CASE book' = book /\ fresh' = fresh
  BY <1>1, SameTwins DEF ImportInv, FreshIsBooked
<1>2. ASSUME NEW s \in Session, CommitImport(s) PROVE Booked(book', Said(fresh', i))
  <2>1. /\ Importing(s)
        /\ fresh' = IF session[s].alone /\ session[s].checked THEN session[s].file ELSE Null
    BY <1>0, <1>2, CommitWrites
  <2>2. Lone(s) /\ session[s].checked /\ fresh' = session[s].file
    BY <2>1 DEF Lone
  <2>. QED
    BY <1>2, <2>2, CommitBooks
<1>3. ASSUME NEW s \in Session, StartImport(s) \/ GetCost(s) \/ ReadLine(s) \/ UpdateCost(s)
      PROVE  book' = book /\ fresh' = fresh
  BY <1>0, <1>3, ImportWrites, GetWrites, ReadWrites, UpdateWrites
<1>4. ASSUME NEW s \in Session, Create(s) \/ DeleteCost(s) PROVE fresh' = Null
  BY <1>0, <1>4, CreateWrites, DeleteWrites
<1>5. UNCHANGED bookVars => book' = book /\ fresh' = fresh
  BY DEF bookVars
<1>. QED
  BY <1>1, <1>2, <1>3, <1>4, <1>5 DEF BookNext

(***************************************************************************)
(* The theorems.                                                           *)
(***************************************************************************)
(* Every row of the book is what some line of a file says, with the sum of  *)
(* its components rounded to what the column keeps.                         *)
THEOREM BookTypes == BookSpec => []BookTyped
<1>. QED
  BY InitHolds, TypeStep, PTL DEF BookSpec, TypeInv

LEMMA ImportStep == TypeInv /\ ImportInv /\ [BookNext]_bookVars => ImportInv'
<1> SUFFICES ASSUME TypeInv, ImportInv, [BookNext]_bookVars PROVE ImportInv'
  OBVIOUS
<1>1. AloneIsAlone /\ BookIsOlder /\ AddedIsRead
  BY DEF ImportInv
<1>2. AloneIsAlone' /\ BookIsOlder' /\ AddedIsRead'
  BY <1>1, AloneStep, OlderStep, AddedStep
<1>3. ReadIsKept' /\ FreshIsBooked' /\ AgainAddsNothing'
  BY ReadStep, FreshStep, AgainStep
<1>. QED
  BY <1>2, <1>3 DEF ImportInv

LEMMA BookInvariance == BookSpec => [](TypeInv /\ ImportInv)
<1>. QED
  BY InitHolds, TypeStep, ImportStep, PTL DEF BookSpec

(* bulk_import_v2 of the file imported last, nobody else having written then*)
(* or since, leaves the book as it is -- if the file is plain and no        *)
(* transaction left two rows of one key.                                    *)
THEOREM ImportsAddOnce == BookSpec => ImportIsOnce
<1> DEFINE AddsNothing ==
      \A s \in Session :
         LET k == session[s] IN
           (/\ CommitImport(s) /\ k.checked /\ k.alone
            /\ fresh = k.file /\ Plain(k.file) /\ NoTwins) => book' = book
<1>1. ASSUME TypeInv, ImportInv, [BookNext]_bookVars PROVE [AddsNothing]_bookVars
  <2>1. SUFFICES ASSUME NEW s \in Session, CommitImport(s), session[s].checked, session[s].alone,
                        fresh = session[s].file, Plain(session[s].file), NoTwins
                 PROVE  book' = book
    BY Zenon
  <2>2. /\ Importing(s)
        /\ book' = book \cup {Row(session[s].added[i], NextId + i, session[s].born) : i \in DOMAIN session[s].added}
    BY <1>1, <2>1, CommitWrites DEF TypeInv
  <2>3. session[s].added = << >>
    BY <1>1, <2>1, <2>2 DEF ImportInv, AgainAddsNothing, Undisturbed, Lone
  <2>4. DOMAIN session[s].added = {}
    BY <2>3
  <2>. QED
    BY <2>2, <2>4
<1>. QED
  BY <1>1, BookInvariance, PTL DEF BookSpec, ImportIsOnce

(* An unmistakable name is resolved to itself alone.                        *)
LEMMA OneName ==
    ASSUME NEW sku \in Costed, Unmistakable(sku)
    PROVE  Resolved(sku) = {sku}
<1>1. Mapped(sku) \subseteq {sku}
  BY DEF Mapped, Unmistakable
<1>2. Entered(sku) = {sku}
  BY DEF Entered, Unmistakable
<1>3. Owners(sku) = {sku}
  BY <1>1, <1>2 DEF Owners
<1>. QED
  BY <1>3 DEF Resolved

(* The SQL of the stock pages and the filter of the cost list both keep the *)
(* rows of the last day not after the one asked for.                        *)
LEMMA StatementsAgree ==
    ASSUME book \subseteq BookRow, NEW sku \in Costed, NEW day \in Day
    PROVE  /\ CostsAsOf(sku, day) = {r.cost : r \in Applied(History(sku), day)}
           /\ ListedCosts(sku, day) = {r.cost : r \in Applied(History(sku), day)}
<1>1. Day \subseteq Nat /\ \A r \in History(sku) : r.day \in Day
  BY CostBookAssumption, RowTypes DEF CostBookAssumption, History
<1> DEFINE before == {r \in History(sku) : r.day <= day}
           days == {0} \cup {r.day : r \in before}
           eff == Max(days)
<1>2. eff \in days /\ eff \in Nat /\ \A d \in days : d <= eff
  <2>1. days \in SUBSET Nat /\ days # {} /\ day \in Nat /\ \A d \in days : d <= day
    <3>1. \A r \in before : r.day \in Nat /\ r.day <= day
      BY <1>1
    <3>2. day \in Nat /\ 0 <= day
      BY CostBookAssumption DEF CostBookAssumption
    <3> HIDE DEF before
    <3>. QED
      BY <3>1, <3>2
  <2> HIDE DEF days
  <2>. QED BY <2>1, MaxExists
<1>4. {q \in before : q.day = eff} = Applied(History(sku), day)
  <2>1. ASSUME NEW q \in before, q.day = eff PROVE q \in Applied(History(sku), day)
    <3>1. \A w \in History(sku) : w.day <= day => w.day \in days
      OBVIOUS
    <3> HIDE DEF eff, days
    <3>. QED
      BY <1>2, <2>1, <3>1 DEF Applied
  <2>2. ASSUME NEW q \in Applied(History(sku), day) PROVE q \in before /\ q.day = eff
    <3>1. q \in before /\ q.day \in days /\ q.day \in Nat /\ \A w \in before : w.day <= q.day
      BY <1>1 DEF Applied
    <3>2. eff <= q.day
      <4>1. CASE eff = 0
        <5> HIDE DEF eff, days, before
        <5>. QED BY <3>1, <4>1
      <4>2. CASE \E w \in before : eff = w.day
        <5> HIDE DEF eff, days, before
        <5>. QED BY <3>1, <4>2
      <4>3. eff = 0 \/ \E w \in before : eff = w.day
        <5> HIDE DEF eff, before
        <5>. QED BY <1>2
      <4>. QED
        BY <4>1, <4>2, <4>3
    <3>3. q.day <= eff
      <4> HIDE DEF eff, days, before
      <4>. QED BY <1>2, <3>1
    <3> HIDE DEF eff, days, before
    <3>. QED
      BY <1>2, <3>1, <3>2, <3>3
  <2>. QED
    BY <2>1, <2>2 DEF Applied
<1>5. CostsAsOf(sku, day) = {r.cost : r \in {q \in before : q.day = eff}}
  BY DEF CostsAsOf
<1>6. {q \in History(sku) : q.day <= day /\ ~\E w \in History(sku) : w.day <= day /\ w.day > q.day}
      = Applied(History(sku), day)
  <2>1. ASSUME NEW q \in History(sku), NEW w \in History(sku)
        PROVE  (w.day <= day => w.day <= q.day) <=> ~(w.day <= day /\ w.day > q.day)
    <3>1. q.day \in Nat /\ w.day \in Nat
      BY <1>1
    <3>. QED
      BY <3>1
  <2>. QED
    BY <2>1 DEF Applied
<1> HIDE DEF eff, before
<1>. QED
  BY <1>4, <1>5, <1>6 DEF ListedCosts

(* The projections, the stock pages and the cost list take one cost for an  *)
(* unmistakable SKU on any day, up to the rounding of the stored sum.       *)
THEOREM SurfacesStayAgreed == BookSpec => []SurfacesAgree
<1>1. BookTyped => SurfacesAgree
  <2> SUFFICES ASSUME BookTyped, NEW sku \in Costed, NEW day \in Day, Unmistakable(sku)
               PROVE  /\ CostsAsOf(sku, day) = {Rounded(n) : n \in UnitCosts(sku, day)}
                      /\ ListedCosts(sku, day) = CostsAsOf(sku, day)
    BY DEF SurfacesAgree
  <2>1. book \subseteq BookRow
    BY DEF BookTyped
  <2>2. UnitCosts(sku, day) = {r.fine : r \in Applied(History(sku), day)}
    BY OneName DEF UnitCosts
  <2>3. \A r \in Applied(History(sku), day) : r.cost = Rounded(r.fine)
    BY <2>1, RowTypes DEF Applied, History
  <2>4. {Rounded(n) : n \in UnitCosts(sku, day)} = {r.cost : r \in Applied(History(sku), day)}
    BY <2>2, <2>3
  <2>. QED
    BY <2>1, <2>4, StatementsAgree
<1>. QED
  BY <1>1, BookTypes, PTL
===============================================================================
