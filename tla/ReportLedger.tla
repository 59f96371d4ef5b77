---------------------------- MODULE ReportLedger ----------------------------
(***************************************************************************)
(* A tenant's financial ledger, inventory movements, reconciliations and   *)
(* day projections, as the streamed jobs of its reports fill them:         *)
(*                                                                         *)
(*   - a job parses its file chunk by chunk and commits the rows, entries  *)
(*     and movements of each chunk; it may be stopped or die anywhere and  *)
(*     then starts again from the first row;                               *)
(*   - once the file is read, one transaction compares the row counts,     *)
(*     stores the merged reconciliation, redraws the projections of the    *)
(*     report's days from the whole ledger and completes the job;          *)
(*   - a change of the costs redraws every day of the ledger;              *)
(*   - the maintenance script rebuilds the ledger from the stored rows.    *)
(*                                                                         *)
(* Transactions that redraw are atomic here; ReportLifecycle interleaves   *)
(* them.  Who runs a job, and how often, is EtlQueue's matter.             *)
(***************************************************************************)
EXTENDS WbLedger

CONSTANTS
    Report,
    Books,          \* the files: a set of functions Report -> sequence of rows
    CostTables,     \* contents cost_history may have
    CreatedOn,      \* Report -> the day it was uploaded
    Today,          \* the day the script runs
    ChunkSize,      \* PROCESS_CHUNK_SIZE
    MaxTries,       \* etl_jobs.max_attempts
    MaxEdits,       \* bound: changes of the costs
    MaxScripts      \* bound: runs of the script

ASSUME LedgerAssumption ==
    /\ \A b \in Books : DOMAIN b = Report
    /\ ChunkSize \in Nat \ {0} /\ MaxTries \in Nat \ {0}
    /\ MaxEdits \in Nat /\ MaxScripts \in Nat
    /\ \A T \in CostTables :
          /\ \A c, d \in T : c.sku = d.sku /\ c.from = d.from => c = d
          /\ IsCosts(T)

(* A file is a sequence of rows whose amounts are numbers.                  *)
ASSUME BooksAssumption ==
    \A b \in Books, r \in Report :
        /\ Len(b[r]) \in Nat /\ DOMAIN b[r] = 1..Len(b[r])
        /\ \A i \in DOMAIN b[r] : \A c \in DOMAIN b[r][i].cells : b[r][i].cells[c] \in Int

(* What a reconciliation sums up is not what stands for no reconciliation.  *)
ASSUME SummedAssumption == None \notin Summed

VARIABLES
    rows,           \* the files' rows; never changes
    normalized,     \* row ids <<report, index>> in normalized_report_rows
    ledger,         \* financial_ledger_entries, each with the attempt that wrote it
    moves,          \* inventory_ledger_entries, likewise
    recon,          \* Report -> its row of report_reconciliations
    econ,           \* sku_unit_economics_daily: <<day, sku>> -> row
    skus,           \* sku_daily_metrics: <<day, sku>> -> row
    daily,          \* daily_aggregates: day -> row
    costs,          \* cost_history
    run,            \* Report -> its job's progress
    tries,          \* Report -> attempts made
    edits, owed,    \* changes of the costs; a redraw still to follow the last one
    script, scripts,
    drawn,          \* history: day -> the entries it was last drawn from
    swept           \* history: rows committed after the script had read the rows

tables == <<recon, econ, skus, daily, drawn>>
store == <<normalized, ledger, moves, swept>>
vars == <<rows, store, tables, costs, run, tries, edits, owed, script, scripts>>

NoResult == [sums |-> None, expected |-> 0, difference |-> 0]
Idle == [pc |-> "idle", next |-> 1, acc |-> NoResult]
NoScript == [pc |-> "idle", seen |-> {}]
NoTable == [k \in {} |-> 0]

Init ==
    /\ rows \in Books /\ costs \in CostTables
    /\ normalized = {} /\ ledger = {} /\ moves = {}
    /\ recon = [r \in Report |-> NoResult]
    /\ econ = NoTable /\ skus = NoTable /\ daily = NoTable
    /\ run = [r \in Report |-> Idle] /\ tries = [r \in Report |-> 0]
    /\ edits = 0 /\ owed = FALSE
    /\ script = NoScript /\ scripts = 0
    /\ drawn = NoTable /\ swept = {}

Row(id) == rows[id[1]][id[2]]
RowIds(r) == {r} \X DOMAIN rows[r]

(* operation_date or default_date; and what rebuild_ledger_from_normalized_rows *)
(* makes of the stored row: its text read again, else the stored date, else today. *)
DayOf(id) == IF Row(id).day = None THEN CreatedOn[id[1]] ELSE Row(id).day
DayAgain(id) ==
    IF Row(id).again # None THEN Row(id).again
    ELSE IF Row(id).day # None THEN Row(id).day ELSE Today

EntriesOf(ids) == UNION {Entries(id, Row(id), DayOf(id)) : id \in ids}
EntriesAgain(ids) == UNION {Entries(id, Row(id), DayAgain(id)) : id \in ids}
MovesOf(ids) == UNION {Movements(id, Row(id), DayOf(id)) : id \in ids}

By(E, n) == {[x \in DOMAIN e \cup {"by"} |-> IF x = "by" THEN n ELSE e[x]] : e \in E}

(* INSERT .. ON CONFLICT DO NOTHING: one row per report, source row and    *)
(* operation; and an INSERT without the clause.                            *)
Key(e) == <<e.row, e.key>>
InsertAll(T, E) == T \cup E
Insert(T, E) ==
    T \cup {CHOOSE e \in E : Key(e) = k : k \in {Key(e) : e \in E} \ {Key(t) : t \in T}}

(***************************************************************************)
(* The projections.                                                        *)
(***************************************************************************)
(* _load_ledger_drafts_for_dates: entry_metadata is not loaded. *)
Drafts(L) == {[e EXCEPT !.qty = 0] : e \in L}
On(E, d) == {e \in E : e.day = d}
For(E, k) == {e \in E : e.day = k[1] /\ e.sku = k[2]}
Days(E) == {e.day : e \in E}
Keys(E) == {<<e.day, e.sku>> : e \in {x \in E : x.sku # None}}

(* _purge_sku_aggregates_for_dates; and leaving the purge out. *)
Unpurged(f, D) == DOMAIN f
Kept(f, D) == {k \in DOMAIN f : k[1] \notin D}

(* _rebuild_aggregates, rebuild_projections_for_dates: purge the days, then *)
(* write what the ledger L and the costs give for them.                    *)
Redraw(D, L) ==
    LET E == {e \in Drafts(L) : e.day \in D}
    IN  /\ econ' = [k \in Kept(econ, D) \cup Keys(E) |->
                      IF k \in Keys(E) THEN UnitEconomics(For(E, k), costs, k[2], k[1]) ELSE econ[k]]
        /\ skus' = [k \in Kept(skus, D) \cup Keys(E) |->
                      IF k \in Keys(E) THEN Profit(For(E, k), costs) ELSE skus[k]]
        /\ daily' = [d \in (DOMAIN daily \ D) \cup Days(E) |->
                      IF d \in D THEN Profit(On(E, d), costs) ELSE daily[d]]
        /\ drawn' = [d \in (DOMAIN drawn \ D) \cup Days(E) |->
                      IF d \in D THEN On(L, d) ELSE drawn[d]]

(***************************************************************************)
(* A job.                                                                  *)
(***************************************************************************)
(* Claimed, first or again. *)
Claimable(r) == run[r].pc = "idle" /\ tries[r] < MaxTries

Begin(r) ==
    /\ Claimable(r)
    /\ run' = [run EXCEPT ![r] = [Idle EXCEPT !.pc = "parsing"]]
    /\ tries' = [tries EXCEPT ![r] = @ + 1]
    /\ UNCHANGED <<rows, store, tables, costs, edits, owed, script, scripts>>

ChunkAt(r) == {id \in RowIds(r) : run[r].next <= id[2] /\ id[2] < run[r].next + ChunkSize}

(* merge_stream_state's reconciliation; and, mutated, the last chunk's. *)
LastChunk(r) == Calculate(EntriesOf(ChunkAt(r)))
Accumulated(r) ==
    LET partial == Calculate(EntriesOf(ChunkAt(r)))
    IN  IF run[r].acc = NoResult THEN partial ELSE Merge(run[r].acc, partial)

(* persist_phase1_chunk, one transaction. *)
PersistChunk(r) ==
    LET ids == ChunkAt(r)
    IN  /\ run[r].pc = "parsing" /\ ids # {}
        /\ normalized' = normalized \cup ids
        /\ ledger' = Insert(ledger, By(EntriesOf(ids), tries[r]))
        /\ moves' = Insert(moves, By(MovesOf(ids), tries[r]))
        /\ swept' = IF script.pc = "read" THEN swept \cup (ids \ script.seen) ELSE swept \ ids
        /\ run' = [run EXCEPT ![r].next = @ + ChunkSize, ![r].acc = Accumulated(r)]
        /\ UNCHANGED <<rows, tables, costs, tries, edits, owed, script, scripts>>

(* The file is read; a file without rows raises instead. *)
ParseEnds(r) ==
    /\ run[r].pc = "parsing" /\ ChunkAt(r) = {} /\ run[r].next > 1
    /\ run' = [run EXCEPT ![r].pc = "parsed"]
    /\ UNCHANGED <<rows, store, tables, costs, tries, edits, owed, script, scripts>>

(* Shutdown between chunks, an error, a dead worker; nothing is undone. *)
Stop(r) ==
    /\ run[r].pc \in {"parsing", "parsed"}
    /\ run' = [run EXCEPT ![r] = Idle]
    /\ UNCHANGED <<rows, store, tables, costs, tries, edits, owed, script, scripts>>

(* The days of a report are drawn from every report's entries; and, mutated, *)
(* from its own.                                                            *)
OwnEntries(r) == {e \in ledger : e.row[1] = r}
DrawnFrom(r) == ledger

(* _validate_before_persist, _persist_phases_2_3 and ack_job. *)
Persist(r) ==
    /\ run[r].pc = "parsed"
    /\ Cardinality({id \in normalized : id[1] = r}) = Len(rows[r])
    /\ recon' = [recon EXCEPT ![r] = run[r].acc]
    /\ Redraw(Days(OwnEntries(r)), DrawnFrom(r))
    /\ run' = [run EXCEPT ![r].pc = "done"]
    /\ UNCHANGED <<rows, store, costs, tries, edits, owed, script, scripts>>

(***************************************************************************)
(* Costs and maintenance.                                                  *)
(***************************************************************************)
(* create, update, delete or import of costs, committed on its own ... *)
EditCosts ==
    /\ edits < MaxEdits
    /\ \E T \in CostTables \ {costs} : costs' = T
    /\ edits' = edits + 1 /\ owed' = TRUE
    /\ UNCHANGED <<rows, store, tables, run, tries, script, scripts>>

(* ... before rebuild_all_financial_projections, in a second transaction. *)
Refresh ==
    /\ owed
    /\ owed' = FALSE
    /\ Redraw(Days(ledger), ledger)
    /\ UNCHANGED <<rows, store, recon, costs, run, tries, edits, script, scripts>>

(* rebuild_ledger_from_normalized_rows: the stored rows are read first; *)
ScriptReads ==
    /\ script.pc = "idle" /\ scripts < MaxScripts /\ normalized # {}
    /\ script' = [pc |-> "read", seen |-> normalized]
    /\ scripts' = scripts + 1
    /\ UNCHANGED <<rows, store, tables, costs, run, tries, edits, owed>>

(* every entry committed by now is deleted, those of the rows it read are  *)
(* written again, and the days of the new entries are redrawn.             *)
ScriptWrites ==
    LET E == By(EntriesAgain(script.seen), 0)
    IN  /\ script.pc = "read"
        /\ ledger' = Insert({}, E)
        /\ swept' = swept \ script.seen
        /\ Redraw(Days(E), ledger')
        /\ script' = NoScript
        /\ UNCHANGED <<rows, normalized, moves, recon, costs, run, tries, edits, owed, scripts>>

ScriptDies ==
    /\ script.pc = "read"
    /\ script' = NoScript
    /\ UNCHANGED <<rows, store, tables, costs, run, tries, edits, owed, scripts>>

Next ==
    \/ \E r \in Report :
         \/ Begin(r) \/ PersistChunk(r) \/ ParseEnds(r) \/ Stop(r) \/ Persist(r)
    \/ EditCosts \/ Refresh
    \/ ScriptReads \/ ScriptWrites \/ ScriptDies

Spec == Init /\ [][Next]_vars

(***************************************************************************)
(* Properties.                                                             *)
(***************************************************************************)
AllRows == UNION {RowIds(r) : r \in Report}
Result == {NoResult} \cup Reconciliation

(* Every table holds rows of its kind, and the ledger and the movements     *)
(* rows of files whose normalized rows are stored.                         *)
TypeOK ==
    /\ rows \in Books /\ costs \in CostTables
    /\ normalized \subseteq AllRows /\ swept \subseteq normalized
    /\ {e.row : e \in ledger} \subseteq normalized
    /\ {m.row : m \in moves} \subseteq normalized
    /\ recon \in [Report -> Result]
    /\ DOMAIN daily = DOMAIN drawn
    /\ \A r \in Report : /\ run[r].pc \in {"idle", "parsing", "parsed", "done"}
                         /\ run[r].next \in Nat /\ run[r].acc \in Result
    /\ tries \in [Report -> 0..MaxTries]
    /\ edits \in 0..MaxEdits /\ owed \in BOOLEAN /\ scripts \in 0..MaxScripts
    /\ script.pc \in {"idle", "read"} /\ script.seen \subseteq normalized

Same(e) == [f \in {"key", "op", "amount", "sku", "qty"} |-> e[f]]

(* However often a job starts again, the ledger and the movements hold what *)
(* every stored row means exactly once, except for rows whose chunk was     *)
(* committed between the maintenance script's reading and its deleting:     *)
(* the count that completes a job looks at the stored rows only.           *)
LedgerIsWhole ==
    \A id \in normalized :
        /\ id \notin swept =>
              LET have == {e \in ledger : e.row = id}
                  want == Entries(id, Row(id), DayOf(id))
              IN  /\ {Same(e) : e \in have} = {Same(e) : e \in want}
                  /\ Cardinality(have) = Cardinality(want)
        /\ LET have == {m \in moves : m.row = id}
               want == Movements(id, Row(id), DayOf(id))
           IN  {m.delta : m \in have} = {m.delta : m \in want} /\ Cardinality(have) = Cardinality(want)

Whole(r) == EntriesOf(RowIds(r))

(* Whatever chunks and attempts a report took, its reconciliation sums up   *)
(* each of its rows once; when it has one chunk or no compensation, what it *)
(* expects to be paid is also what the aggregation calls the net amount.   *)
SumsAreWhole ==
    \A r \in Report : recon[r] # NoResult =>
        /\ recon[r].sums = Sums(Whole(r))
        /\ Len(rows[r]) <= ChunkSize \/ Total(Whole(r), {"compensation"}) = 0 =>
              recon[r].expected = NetAmount(Whole(r))

(* The two tables of a day's SKU, computed by two builders along different  *)
(* formulas, hold the same SKUs, revenues, units and profits; and a day's   *)
(* profit is the sum of its SKUs' profits and of the entries without SKU it *)
(* was drawn from: no SKU row of an earlier drawing is left over.           *)
BuildersAgree ==
    /\ econ = skus
    /\ \A d \in DOMAIN daily :
          LET own == {k \in DOMAIN skus : k[1] = d}
              rest == {e \in drawn[d] : e.sku = None}
          IN  /\ daily[d].profit = MapThenSumSet(LAMBDA k : skus[k].profit, own) + NetAmount(rest)
              /\ daily[d].units = MapThenSumSet(LAMBDA k : skus[k].units, own) + Units(Drafts(rest))

(* No entry of a completed report is missing from what its day was last     *)
(* drawn from, whichever job, cost edit or script drew it.                 *)
CompletedIsDrawn ==
    \A e \in ledger : run[e.row[1]].pc = "done" =>
        e.day \in DOMAIN drawn /\ e \in drawn[e.day]
=============================================================================
