-------------------------- MODULE ReportLedgerProofs --------------------------
(***************************************************************************)
(* Proofs about ReportLedger, for any reports, files, costs, chunk sizes   *)
(* and numbers of attempts.                                                *)
(*                                                                         *)
(* What a row means, and what the calculators make of it, is the matter of *)
(* WbLedgerProofs; here, that it means the same whatever day it is read for *)
(* (AnotherDay), and an invariant in five parts: types (Shapes); the ledger *)
(* and the movements say what the stored rows say (LedgerInv); what a day   *)
(* was drawn from; what a job has summed up so far (IsSummed); and that one *)
(* drawing wrote all of a day (TablesInv).                                 *)
(***************************************************************************)
EXTENDS ReportLedger, WbLedgerProofs

(* Read on another day, a row means the same but for the day. *)
LEMMA AnotherDay ==
    ASSUME NEW id, NEW r, IsRow(r), NEW d, NEW n, NEW w \in Entries(id, r, d)
    PROVE  \E v \in Entries(id, r, n) : Same(v) = Same(w) /\ Key(v) = Key(w)
<1> DEFINE kind == Classify(r.label)
           typed == {op \in OpsOf(kind) : Amount(r, op) # 0}
           qty(op) == IF op = "sale" THEN SaleQuantity(r) ELSE 0
           Entry(day, key, op, amount, q) ==
              [row |-> id, key |-> key, op |-> op, amount |-> amount,
               sku |-> r.sku, day |-> day, qty |-> q]
<1>1. \A day : Entries(id, r, day) =
          {Entry(day, op, op, Amount(r, op), qty(op)) : op \in typed}
          \cup {Entry(day, c[1], "compensation", c[2], 0) : c \in Compensations(r, kind)}
  BY DEF Entries
<1>2. \A key, op, amount, q :
          /\ Same(Entry(d, key, op, amount, q)) = Same(Entry(n, key, op, amount, q))
          /\ Key(Entry(d, key, op, amount, q)) = Key(Entry(n, key, op, amount, q))
  BY DEF Same, Key
<1> HIDE DEF kind, typed, qty, Entry
<1>. QED
  BY <1>1, <1>2

(* What the row id of the files bs means. *)
Meant(bs, id) ==
    LET r == bs[id[1]][id[2]]
    IN  Entries(id, r, IF r.day = None THEN CreatedOn[id[1]] ELSE r.day)
MeantMoves(bs, id) ==
    LET r == bs[id[1]][id[2]]
    IN  Movements(id, r, IF r.day = None THEN CreatedOn[id[1]] ELSE r.day)

LEMMA MeantHere ==
    \A id : /\ Entries(id, Row(id), DayOf(id)) = Meant(rows, id)
            /\ Movements(id, Row(id), DayOf(id)) = MeantMoves(rows, id)
BY DEF Meant, MeantMoves, Row, DayOf

LEMMA RowTypes ==
    ASSUME rows \in Books, NEW id \in AllRows
    PROVE  IsRow(Row(id)) /\ id[1] \in Report /\ id[2] \in 1..Len(rows[id[1]])
<1>1. PICK r \in Report : id \in {r} \X DOMAIN rows[r]
  BY DEF AllRows, RowIds
<1>2. id[1] = r /\ id[2] \in DOMAIN rows[r] /\ DOMAIN rows[r] = 1..Len(rows[r])
  BY <1>1, BooksAssumption DEF BooksAssumption
<1>3. IsRow(rows[r][id[2]])
  BY <1>2, BooksAssumption DEF BooksAssumption, IsRow
<1>. QED
  BY <1>2, <1>3 DEF Row

(* Entries tagged with the attempt that writes them. *)
LEMMA Tagged ==
    ASSUME NEW E, \A e \in E : IsEntry(e), NEW n
    PROVE  /\ \A x \in By(E, n) : IsEntry(x) /\ \E e \in E : Same(x) = Same(e) /\ Key(x) = Key(e)
                                                          /\ x.row = e.row /\ x.day = e.day
           /\ \A e \in E : \E x \in By(E, n) : Key(x) = Key(e) /\ x.day = e.day
<1> DEFINE Tag(e) == [x \in DOMAIN e \cup {"by"} |-> IF x = "by" THEN n ELSE e[x]]
<1>1. ASSUME NEW e \in E
      PROVE  /\ IsEntry(Tag(e)) /\ Same(Tag(e)) = Same(e) /\ Key(Tag(e)) = Key(e)
             /\ Tag(e).row = e.row /\ Tag(e).day = e.day
  <2>1. EntryFields \subseteq DOMAIN e /\ EntryFields \subseteq DOMAIN Tag(e)
        /\ \A f \in EntryFields : Tag(e)[f] = e[f]
    BY DEF IsEntry, EntryFields
  <2> HIDE DEF Tag
  <2>. QED
    BY <2>1 DEF IsEntry, EntryFields, Same, Key
<1>2. By(E, n) = {Tag(e) : e \in E}
  BY DEF By
<1> HIDE DEF Tag
<1>. QED
  BY <1>1, <1>2

(* INSERT .. ON CONFLICT DO NOTHING. *)
Unique(T) == \A e, f \in T : Key(e) = Key(f) => e = f

LEMMA Inserted ==
    ASSUME NEW T, NEW E
    PROVE  /\ T \subseteq Insert(T, E) /\ Insert(T, E) \subseteq T \cup E
           /\ \A e \in E : \E x \in Insert(T, E) : Key(x) = Key(e)
           /\ Unique(T) => Unique(Insert(T, E))
<1> DEFINE new == {Key(e) : e \in E} \ {Key(t) : t \in T}
           One(k) == CHOOSE e \in E : Key(e) = k
<1>1. Insert(T, E) = T \cup {One(k) : k \in new}
  BY DEF Insert
<1>2. \A k \in new : One(k) \in E /\ Key(One(k)) = k
  OBVIOUS
<1>3. \A t \in T : Key(t) \notin new
  OBVIOUS
<1>4. \A e \in E : Key(e) \in new \/ \E t \in T : Key(t) = Key(e)
  OBVIOUS
<1> HIDE DEF new, One
<1>5. Unique(T) => Unique(Insert(T, E))
  BY <1>1, <1>2, <1>3 DEF Unique
<1>. QED
  BY <1>1, <1>2, <1>4, <1>5

(***************************************************************************)
(* The rows of a file and what they become.                                *)
(***************************************************************************)
LEMMA EntriesRead ==
    ASSUME rows \in Books, NEW ids \in SUBSET AllRows
    PROVE  /\ EntriesOf(ids) = UNION {Meant(rows, id) : id \in ids}
           /\ \A e \in EntriesOf(ids) : IsEntry(e) /\ e.row \in ids /\ e \in Meant(rows, e.row)
           /\ \A id \in ids : Meant(rows, id) \subseteq EntriesOf(ids) /\ IsFiniteSet(Meant(rows, id))
<1>1. EntriesOf(ids) = UNION {Meant(rows, id) : id \in ids}
  BY MeantHere DEF EntriesOf
<1>2. ASSUME NEW id \in ids
      PROVE  /\ \A e \in Meant(rows, id) : IsEntry(e) /\ e.row = id
             /\ IsFiniteSet(Meant(rows, id))
  <2>1. IsRow(Row(id)) /\ Meant(rows, id) = Entries(id, Row(id), DayOf(id))
    BY RowTypes, MeantHere
  <2>. QED
    BY <2>1, RowEntries
<1>. QED
  BY <1>1, <1>2

LEMMA EntriesReadAgain ==
    ASSUME rows \in Books, NEW ids \in SUBSET AllRows
    PROVE  /\ \A e \in EntriesAgain(ids) :
                  /\ IsEntry(e) /\ e.row \in ids
                  /\ \E w \in Meant(rows, e.row) : Same(w) = Same(e) /\ Key(w) = Key(e)
           /\ \A id \in ids : \A w \in Meant(rows, id) : \E e \in EntriesAgain(ids) : Key(e) = Key(w)
<1> DEFINE Again(id) == Entries(id, Row(id), DayAgain(id))
<1>1. EntriesAgain(ids) = UNION {Again(id) : id \in ids}
  BY DEF EntriesAgain
<1>2. ASSUME NEW id \in ids
      PROVE  /\ \A e \in Again(id) : /\ IsEntry(e) /\ e.row = id
                                     /\ \E w \in Meant(rows, id) : Same(w) = Same(e) /\ Key(w) = Key(e)
             /\ \A w \in Meant(rows, id) : \E e \in Again(id) : Key(e) = Key(w)
  <2>1. IsRow(Row(id)) /\ Meant(rows, id) = Entries(id, Row(id), DayOf(id))
    BY RowTypes, MeantHere
  <2>2. \A e \in Again(id) : IsEntry(e) /\ e.row = id
    BY <2>1, RowEntries
  <2>3. ASSUME NEW e \in Again(id)
        PROVE  \E w \in Meant(rows, id) : Same(w) = Same(e) /\ Key(w) = Key(e)
    BY <2>1, AnotherDay
  <2>4. ASSUME NEW w \in Meant(rows, id) PROVE \E e \in Again(id) : Key(e) = Key(w)
    BY <2>1, AnotherDay
  <2>. QED
    BY <2>2, <2>3, <2>4
<1> HIDE DEF Again
<1>. QED
  BY <1>1, <1>2

LEMMA RowsFinite ==
    ASSUME rows \in Books, NEW r \in Report
    PROVE  IsFiniteSet(RowIds(r)) /\ RowIds(r) \subseteq AllRows
<1>1. Len(rows[r]) \in Nat /\ DOMAIN rows[r] = 1..Len(rows[r])
  BY BooksAssumption DEF BooksAssumption
<1>2. IsFiniteSet(1..Len(rows[r]))
  BY <1>1, FS_Interval
<1> DEFINE f == [id \in RowIds(r) |-> id[2]]
<1>3. f \in Injection(RowIds(r), 1..Len(rows[r]))
  BY <1>1 DEF Injection, IsInjective, RowIds
<1> HIDE DEF f
<1>4. IsFiniteSet(RowIds(r))
  BY <1>2, <1>3, FS_Injection
<1>. QED
  BY <1>4 DEF AllRows

LEMMA EntriesFinite ==
    ASSUME rows \in Books, NEW r \in Report, NEW ids \in SUBSET RowIds(r)
    PROVE  AreEntries(EntriesOf(ids))
<1>1. ids \subseteq AllRows /\ IsFiniteSet(ids)
  BY RowsFinite, FS_Subset
<1> DEFINE F == {Meant(rows, id) : id \in ids}
           f == [id \in ids |-> Meant(rows, id)]
<1>2. f \in Surjection(ids, F)
  BY DEF Surjection
<1>3. IsFiniteSet(F)
  <2> HIDE DEF f, F
  <2>. QED BY <1>1, <1>2, FS_Surjection
<1>4. EntriesOf(ids) = UNION F /\ \A T \in F : IsFiniteSet(T)
  BY <1>1, EntriesRead
<1>5. \A e \in EntriesOf(ids) : IsEntry(e)
  BY <1>1, EntriesRead
<1> HIDE DEF F
<1>. QED
  BY <1>3, <1>4, <1>5, FS_UNION DEF AreEntries

(***************************************************************************)
(* Movements.                                                              *)
(***************************************************************************)
LEMMA MovesRead ==
    ASSUME NEW ids, NEW n
    PROVE  LET M == By(MovesOf(ids), n)
           IN  /\ \A x \in M : x.row \in ids /\ \E m \in MeantMoves(rows, x.row) : x.delta = m.delta /\ Key(x) = Key(m)
               /\ \A id \in ids : \A m \in MeantMoves(rows, id) : \E x \in M : Key(x) = Key(m)
<1> DEFINE Tag(e) == [x \in DOMAIN e \cup {"by"} |-> IF x = "by" THEN n ELSE e[x]]
           M == By(MovesOf(ids), n)
<1>1. MovesOf(ids) = UNION {MeantMoves(rows, id) : id \in ids}
  BY MeantHere DEF MovesOf
<1>2. ASSUME NEW id, NEW m \in MeantMoves(rows, id)
      PROVE  m.row = id /\ Tag(m).row = m.row /\ Tag(m).delta = m.delta /\ Key(Tag(m)) = Key(m)
  <2>1. {"row", "key", "delta"} \subseteq DOMAIN m /\ m.row = id
    BY RowMoves DEF MeantMoves
  <2>2. /\ {"row", "key", "delta"} \subseteq DOMAIN Tag(m)
        /\ Tag(m)["row"] = m["row"] /\ Tag(m)["key"] = m["key"] /\ Tag(m)["delta"] = m["delta"]
    BY <2>1
  <2> HIDE DEF Tag
  <2>. QED
    BY <2>1, <2>2 DEF Key
<1>3. M = {Tag(m) : m \in MovesOf(ids)}
  BY DEF By
<1> HIDE DEF Tag, M
<1>4. \A x \in M : x.row \in ids /\ \E m \in MeantMoves(rows, x.row) : x.delta = m.delta /\ Key(x) = Key(m)
  BY <1>1, <1>2, <1>3
<1>5. \A id \in ids : \A m \in MeantMoves(rows, id) : \E x \in M : Key(x) = Key(m)
  BY <1>1, <1>2, <1>3
<1>. QED
  BY <1>4, <1>5 DEF M

(***************************************************************************)
(* The invariant, part 1: types.                                           *)
(***************************************************************************)
Runs == [pc : {"idle", "parsing", "parsed", "done"}, next : Nat \ {0}, acc : Result]
Scripts == [pc : {"idle", "read"}, seen : SUBSET (Report \X Nat)]

Shapes ==
    /\ rows \in Books /\ costs \in CostTables
    /\ normalized \subseteq AllRows /\ swept \subseteq normalized
    /\ recon \in [Report -> Result] /\ run \in [Report -> Runs]
    /\ DOMAIN daily = DOMAIN drawn
    /\ tries \in [Report -> 0..MaxTries]
    /\ edits \in 0..MaxEdits /\ owed \in BOOLEAN /\ scripts \in 0..MaxScripts
    /\ script \in Scripts /\ script.seen \subseteq normalized

LEMMA ConstantTypes ==
    /\ ChunkSize \in Nat \ {0} /\ MaxTries \in Nat \ {0} /\ MaxEdits \in Nat /\ MaxScripts \in Nat
    /\ NoResult \in Result /\ Idle \in Runs /\ NoScript \in Scripts
    /\ NoResult \notin Reconciliation
<1>1. NoResult \in Result
  BY DEF Result
<1>2. Idle \in Runs /\ NoScript \in Scripts
  BY <1>1 DEF Idle, Runs, NoScript, Scripts
<1>3. NoResult \notin Reconciliation
  BY SummedAssumption DEF SummedAssumption, NoResult, Reconciliation
<1>. QED
  BY <1>1, <1>2, <1>3, LedgerAssumption DEF LedgerAssumption

LEMMA RowPairs == rows \in Books => AllRows \subseteq Report \X Nat
<1> SUFFICES ASSUME rows \in Books, NEW id \in AllRows PROVE id \in Report \X Nat
  OBVIOUS
<1>1. PICK r \in Report : id \in {r} \X DOMAIN rows[r]
  BY DEF AllRows, RowIds
<1>2. DOMAIN rows[r] = 1..Len(rows[r]) /\ Len(rows[r]) \in Nat
  BY BooksAssumption DEF BooksAssumption
<1>. QED
  BY <1>1, <1>2

LEMMA SameRows == ASSUME rows' = rows PROVE AllRows' = AllRows /\ \A r : RowIds(r)' = RowIds(r)
BY DEF AllRows, RowIds

(* What a chunk holds. *)
LEMMA ChunkRows ==
    ASSUME rows \in Books, NEW r \in Report
    PROVE  /\ ChunkAt(r) \subseteq RowIds(r) /\ ChunkAt(r) \subseteq AllRows
           /\ \A id \in ChunkAt(r) : id[1] = r
           /\ AreEntries(EntriesOf(ChunkAt(r)))
<1>1. ChunkAt(r) \subseteq RowIds(r) /\ \A id \in RowIds(r) : id[1] = r
  BY DEF ChunkAt, RowIds
<1>. QED
  BY <1>1, RowsFinite, EntriesFinite

LEMMA AccumulatedTypes ==
    ASSUME Shapes, NEW r \in Report
    PROVE  Accumulated(r) \in Reconciliation
<1> DEFINE E == EntriesOf(ChunkAt(r))
           a == run[r].acc
<1>1. AreEntries(E) /\ a \in Result
  BY ChunkRows DEF Shapes, Runs
<1>2. Accumulated(r) = IF a = NoResult THEN Calculate(E) ELSE Merge(a, Calculate(E))
  BY DEF Accumulated
<1> HIDE DEF E, a
<1>3. Calculate(E) \in Reconciliation
  <2>1. Total(E, {"compensation"}) \in Int
    BY <1>1, TotalIs
  <2>. QED
    BY <1>1, <2>1, ExpectedIsNet DEF Calculate
<1>4. a # NoResult => Merge(a, Calculate(E)) \in Reconciliation
  BY <1>1, MergeTypes DEF Result
<1>. QED
  BY <1>2, <1>3, <1>4

(* A step leaves the files, and the costs outside EditCosts. *)
LEMMA RunTypes ==
    ASSUME Shapes, NEW r \in Report, NEW k \in Runs, run' = [run EXCEPT ![r] = k]
    PROVE  run' \in [Report -> Runs] /\ run'[r] = k /\ \A q \in Report \ {r} : run'[q] = run[q]
BY DEF Shapes

LEMMA RedrawTypes ==
    ASSUME NEW D, NEW L, Redraw(D, L), DOMAIN daily = DOMAIN drawn
    PROVE  DOMAIN daily' = DOMAIN drawn'
BY DEF Redraw

LEMMA InitShapes == Init => Shapes
<1> SUFFICES ASSUME Init PROVE Shapes
  OBVIOUS
<1>1. recon \in [Report -> Result] /\ run \in [Report -> Runs] /\ tries \in [Report -> 0..MaxTries]
  BY ConstantTypes DEF Init
<1>2. script \in Scripts /\ script.seen = {}
  BY ConstantTypes DEF Init, NoScript
<1>3. edits \in 0..MaxEdits /\ scripts \in 0..MaxScripts /\ owed \in BOOLEAN
  <2>1. edits = 0 /\ scripts = 0 /\ owed = FALSE
    BY DEF Init
  <2>2. MaxEdits \in Nat /\ MaxScripts \in Nat
    BY ConstantTypes
  <2>3. edits \in 0..MaxEdits /\ scripts \in 0..MaxScripts
    BY <2>1, <2>2
  <2>4. owed \in BOOLEAN
    BY <2>1, Zenon
  <2>. QED
    BY <2>3, <2>4
<1>4. rows \in Books /\ costs \in CostTables /\ normalized = {} /\ swept = {} /\ daily = drawn
  BY DEF Init
<1>. QED
  BY <1>1, <1>2, <1>3, <1>4 DEF Shapes

LEMMA ShapesStep == Shapes /\ [Next]_vars => Shapes'
<1> SUFFICES ASSUME Shapes, [Next]_vars PROVE Shapes'
  OBVIOUS
<1>0. /\ rows \in Books /\ costs \in CostTables
      /\ normalized \subseteq AllRows /\ swept \subseteq normalized
      /\ recon \in [Report -> Result] /\ run \in [Report -> Runs] /\ DOMAIN daily = DOMAIN drawn
      /\ tries \in [Report -> 0..MaxTries]
      /\ edits \in 0..MaxEdits /\ owed \in BOOLEAN /\ scripts \in 0..MaxScripts
      /\ script \in Scripts /\ script.seen \subseteq normalized
  BY DEF Shapes
<1>1. ASSUME NEW r \in Report, Begin(r) PROVE Shapes'
  <2> DEFINE k == [Idle EXCEPT !.pc = "parsing"]
  <2>1. k \in Runs
    BY ConstantTypes DEF Runs
  <2>2. run' = [run EXCEPT ![r] = k]
    BY <1>1 DEF Begin
  <2> HIDE DEF k
  <2>3. run' \in [Report -> Runs]
    BY <2>1, <2>2, RunTypes
  <2>4. tries' \in [Report -> 0..MaxTries]
    <3>1. tries[r] + 1 \in 0..MaxTries
      BY <1>0, <1>1, ConstantTypes DEF Begin, Claimable
    <3>. QED
      BY <1>0, <1>1, <3>1 DEF Begin
  <2>. QED
    BY <1>0, <1>1, <2>3, <2>4 DEF Begin, store, tables, Shapes, AllRows, RowIds
<1>2. ASSUME NEW r \in Report, PersistChunk(r) PROVE Shapes'
  <2> DEFINE k == [run[r] EXCEPT !.next = @ + ChunkSize, !.acc = Accumulated(r)]
             ids == ChunkAt(r)
  <2>1. k \in Runs
    <3>1. Accumulated(r) \in Result
      BY AccumulatedTypes DEF Result
    <3>2. run[r] \in Runs /\ run[r].next + ChunkSize \in Nat \ {0}
      BY <1>0, ConstantTypes DEF Runs
    <3>. QED
      BY <3>1, <3>2 DEF Runs
  <2>2. run' = [run EXCEPT ![r] = k]
    BY <1>2 DEF PersistChunk
  <2> HIDE DEF k
  <2>3. run' \in [Report -> Runs]
    BY <2>1, <2>2, RunTypes
  <2>4. ids \subseteq AllRows
    BY <1>0, ChunkRows
  <2>5. normalized' = normalized \cup ids
        /\ swept' = IF script.pc = "read" THEN swept \cup (ids \ script.seen) ELSE swept \ ids
    BY <1>2 DEF PersistChunk
  <2>6. rows' = rows /\ AllRows' = AllRows
    BY <1>2, SameRows DEF PersistChunk
  <2> HIDE DEF ids
  <2>7. normalized' \subseteq AllRows' /\ swept' \subseteq normalized' /\ script.seen \subseteq normalized'
    BY <1>0, <2>4, <2>5, <2>6
  <2>. QED
    BY <1>0, <1>2, <2>3, <2>6, <2>7 DEF PersistChunk, tables, Shapes
<1>3. ASSUME NEW r \in Report, ParseEnds(r) \/ Stop(r) PROVE Shapes'
  <2>1. run[r] \in Runs
    BY <1>0
  <2>2. [run[r] EXCEPT !.pc = "parsed"] \in Runs
    BY <2>1 DEF Runs
  <2>3. run' \in [Report -> Runs]
    BY <1>0, <1>3, <2>2, ConstantTypes DEF ParseEnds, Stop
  <2>. QED
    BY <1>0, <1>3, <2>3 DEF ParseEnds, Stop, store, tables, Shapes, AllRows, RowIds
<1>4. ASSUME NEW r \in Report, Persist(r) PROVE Shapes'
  <2>1. run[r] \in Runs /\ run[r].acc \in Result
    BY <1>0 DEF Runs
  <2>2. [run[r] EXCEPT !.pc = "done"] \in Runs
    BY <2>1 DEF Runs
  <2>3. run' \in [Report -> Runs] /\ recon' \in [Report -> Result]
    BY <1>0, <1>4, <2>1, <2>2 DEF Persist
  <2>4. DOMAIN daily' = DOMAIN drawn'
    BY <1>0, <1>4, RedrawTypes DEF Persist
  <2>. QED
    BY <1>0, <1>4, <2>3, <2>4 DEF Persist, store, Shapes, AllRows, RowIds
<1>5. ASSUME EditCosts PROVE Shapes'
  <2>1. edits + 1 \in 0..MaxEdits
    BY <1>0, <1>5, ConstantTypes DEF EditCosts
  <2>. QED
    BY <1>0, <1>5, <2>1 DEF EditCosts, store, tables, Shapes, AllRows, RowIds
<1>6. ASSUME Refresh PROVE Shapes'
  <2>1. DOMAIN daily' = DOMAIN drawn'
    BY <1>0, <1>6, RedrawTypes DEF Refresh
  <2>. QED
    BY <1>0, <1>6, <2>1 DEF Refresh, store, Shapes, AllRows, RowIds
<1>7. ASSUME ScriptReads PROVE Shapes'
  <2>1. scripts + 1 \in 0..MaxScripts
    BY <1>0, <1>7, ConstantTypes DEF ScriptReads
  <2>2. [pc |-> "read", seen |-> normalized] \in Scripts
    BY <1>0, RowPairs DEF Scripts
  <2>. QED
    BY <1>0, <1>7, <2>1, <2>2 DEF ScriptReads, store, tables, Shapes, AllRows, RowIds
<1>8. ASSUME ScriptWrites PROVE Shapes'
  <2>1. DOMAIN daily' = DOMAIN drawn'
    BY <1>0, <1>8, RedrawTypes DEF ScriptWrites
  <2>2. NoScript.seen = {} /\ script' = NoScript /\ swept' \subseteq swept
    BY <1>8 DEF ScriptWrites, NoScript
  <2>. QED
    BY <1>0, <1>8, <2>1, <2>2, ConstantTypes DEF ScriptWrites, Shapes, AllRows, RowIds
<1>9. ASSUME ScriptDies PROVE Shapes'
  <2>1. NoScript.seen = {} /\ script' = NoScript
    BY <1>9 DEF ScriptDies, NoScript
  <2>. QED
    BY <1>0, <1>9, <2>1, ConstantTypes DEF ScriptDies, store, tables, Shapes, AllRows, RowIds
<1>10. ASSUME UNCHANGED vars PROVE Shapes'
  BY <1>0, <1>10 DEF vars, store, tables, Shapes, AllRows, RowIds
<1>. QED
  BY <1>1, <1>2, <1>3, <1>4, <1>5, <1>6, <1>7, <1>8, <1>9, <1>10 DEF Next

(***************************************************************************)
(* Part 2: the ledger says what the stored rows say.                       *)
(***************************************************************************)
(* Every entry is what its row, which is stored, means; ...                *)
Says(bs, x) == \E w \in Meant(bs, x.row) : Same(w) = Same(x) /\ Key(w) = Key(x)
EntriesAreRead == \A e \in ledger : IsEntry(e) /\ e.row \in normalized /\ Says(rows, e)

(* ... every row that is stored, and not swept, has its entries; ...       *)
Written(bs, L, id) == \A w \in Meant(bs, id) : \E e \in L : Key(e) = Key(w)
RowsAreWritten == \A id \in normalized \ swept : Written(rows, ledger, id)

(* ... what the script has not read meanwhile is swept; ...                *)
SweepsAreKnown == script.pc = "read" => normalized \ script.seen \subseteq swept

(* ... and the movements likewise, which no script touches.                *)
Moved(bs, m) == \E w \in MeantMoves(bs, m.row) : m.delta = w.delta /\ Key(m) = Key(w)
Moves(bs, M, id) == \A w \in MeantMoves(bs, id) : \E m \in M : Key(m) = Key(w)
MovesAreRead == \A m \in moves : m.row \in normalized /\ Moved(rows, m)
MovesAreWritten == \A id \in normalized : Moves(rows, moves, id)

LedgerInv ==
    /\ EntriesAreRead /\ RowsAreWritten /\ SweepsAreKnown /\ MovesAreRead /\ MovesAreWritten
    /\ Unique(ledger) /\ Unique(moves)

LEMMA InitLedger == Init => LedgerInv
BY DEF Init, LedgerInv, EntriesAreRead, RowsAreWritten, SweepsAreKnown, MovesAreRead, MovesAreWritten,
       Unique, NoScript

LEMMA LedgerStep == Shapes /\ LedgerInv /\ [Next]_vars => LedgerInv'
<1> SUFFICES ASSUME Shapes, LedgerInv, [Next]_vars PROVE LedgerInv'
  OBVIOUS
<1>0. /\ EntriesAreRead /\ RowsAreWritten /\ SweepsAreKnown /\ MovesAreRead /\ MovesAreWritten
      /\ Unique(ledger) /\ Unique(moves) /\ rows \in Books /\ normalized \subseteq AllRows
      /\ script.seen \subseteq normalized /\ swept \subseteq normalized
  BY DEF LedgerInv, Shapes
<1>1. ASSUME NEW r \in Report, PersistChunk(r) PROVE LedgerInv'
  <2> DEFINE ids == ChunkAt(r)
             E == By(EntriesOf(ids), tries[r])
             M == By(MovesOf(ids), tries[r])
  <2>1. /\ rows' = rows /\ normalized' = normalized \cup ids /\ script' = script
        /\ ledger' = Insert(ledger, E) /\ moves' = Insert(moves, M)
        /\ swept' = IF script.pc = "read" THEN swept \cup (ids \ script.seen) ELSE swept \ ids
    BY <1>1 DEF PersistChunk
  <2>2. ids \subseteq AllRows
    BY <1>0, ChunkRows
  <2>3. \A x \in E : IsEntry(x) /\ x.row \in ids /\ Says(rows, x)
    <3>1. \A e \in EntriesOf(ids) : IsEntry(e) /\ e.row \in ids /\ e \in Meant(rows, e.row)
      <4> HIDE DEF ids
      <4>. QED BY <1>0, <2>2, EntriesRead
    <3>. QED
      BY <3>1, Tagged DEF Says
  <2>4. \A id \in ids : \A w \in Meant(rows, id) : \E x \in E : Key(x) = Key(w)
    <3>1. \A e \in EntriesOf(ids) : IsEntry(e)
      <4> HIDE DEF ids
      <4>. QED BY <1>0, <2>2, EntriesRead
    <3>2. \A id \in ids : Meant(rows, id) \subseteq EntriesOf(ids)
      <4> HIDE DEF ids
      <4>. QED BY <1>0, <2>2, EntriesRead
    <3> HIDE DEF ids
    <3>. QED
      BY <3>1, <3>2, Tagged
  <2>5. /\ \A x \in M : x.row \in ids /\ Moved(rows, x)
        /\ \A id \in ids : Moves(rows, M, id)
    BY MovesRead DEF Moved, Moves
  <2> HIDE DEF ids, E, M
  <2>6. EntriesAreRead'
    <3>1. ledger' \subseteq ledger \cup E
      BY <2>1, Inserted
    <3>. QED
      BY <1>0, <2>1, <2>3, <3>1 DEF EntriesAreRead
  <2>7. RowsAreWritten'
    <3>1. ledger \subseteq ledger' /\ \A x \in E : \E y \in ledger' : Key(y) = Key(x)
      BY <2>1, Inserted
    <3>2. ASSUME NEW id \in normalized' \ swept' PROVE Written(rows, ledger', id)
      <4>1. CASE id \in ids
        BY <2>4, <3>1, <4>1 DEF Written
      <4>2. CASE id \notin ids
        <5>1. id \in normalized \ swept
          BY <2>1, <3>2, <4>2
        <5>. QED
          BY <1>0, <3>1, <5>1 DEF RowsAreWritten, Written
      <4>. QED
        BY <4>1, <4>2
    <3>. QED
      BY <2>1, <3>2 DEF RowsAreWritten
  <2>8. SweepsAreKnown'
    BY <1>0, <2>1 DEF SweepsAreKnown
  <2>9. MovesAreRead'
    <3>1. moves' \subseteq moves \cup M
      BY <2>1, Inserted
    <3>. QED
      BY <1>0, <2>1, <2>5, <3>1 DEF MovesAreRead
  <2>10. MovesAreWritten'
    <3>1. moves \subseteq moves' /\ \A x \in M : \E y \in moves' : Key(y) = Key(x)
      BY <2>1, Inserted
    <3>2. ASSUME NEW id \in normalized' PROVE Moves(rows, moves', id)
      BY <1>0, <2>1, <2>5, <3>1 DEF MovesAreWritten, Moves
    <3>. QED
      BY <2>1, <3>2 DEF MovesAreWritten
  <2>11. Unique(ledger') /\ Unique(moves')
    BY <1>0, <2>1, Inserted
  <2>. QED
    BY <2>6, <2>7, <2>8, <2>9, <2>10, <2>11 DEF LedgerInv
<1>2. ASSUME ScriptWrites PROVE LedgerInv'
  <2> DEFINE seen == script.seen
             E == By(EntriesAgain(seen), 0)
  <2>1. /\ rows' = rows /\ normalized' = normalized /\ moves' = moves
        /\ script.pc = "read" /\ script' = NoScript
        /\ ledger' = Insert({}, E) /\ swept' = swept \ seen
    BY <1>2 DEF ScriptWrites
  <2>2. /\ \A x \in E : IsEntry(x) /\ x.row \in seen /\ Says(rows, x)
        /\ \A id \in seen : \A w \in Meant(rows, id) : \E x \in E : Key(x) = Key(w)
    <3>0. seen \subseteq AllRows
      BY <1>0
    <3> HIDE DEF seen
    <3>1. /\ \A e \in EntriesAgain(seen) :
                /\ IsEntry(e) /\ e.row \in seen
                /\ \E w \in Meant(rows, e.row) : Same(w) = Same(e) /\ Key(w) = Key(e)
          /\ \A id \in seen : \A w \in Meant(rows, id) : \E e \in EntriesAgain(seen) : Key(e) = Key(w)
      BY <1>0, <3>0, EntriesReadAgain
    <3>2. \A x \in E : IsEntry(x) /\ \E e \in EntriesAgain(seen) : Same(x) = Same(e) /\ Key(x) = Key(e)
                                                                  /\ x.row = e.row /\ x.day = e.day
      BY <3>1, Tagged
    <3>3. \A e \in EntriesAgain(seen) : \E x \in E : Key(x) = Key(e)
      BY <3>1, Tagged
    <3> HIDE DEF E
    <3>4. \A x \in E : IsEntry(x) /\ x.row \in seen /\ Says(rows, x)
      BY <3>1, <3>2 DEF Says
    <3>5. \A id \in seen : \A w \in Meant(rows, id) : \E x \in E : Key(x) = Key(w)
      BY <3>1, <3>3
    <3>. QED
      BY <3>4, <3>5
  <2>3. /\ ledger' \subseteq E /\ Unique(ledger')
        /\ \A x \in E : \E y \in ledger' : Key(y) = Key(x)
    <3> HIDE DEF E
    <3>1. Unique({})
      BY DEF Unique
    <3>. QED
      BY <2>1, <3>1, Inserted
  <2>4. EntriesAreRead'
    <3>1. seen \subseteq normalized
      BY <1>0
    <3> HIDE DEF seen, E
    <3>. QED
      BY <2>1, <2>2, <2>3, <3>1 DEF EntriesAreRead
  <2>5. RowsAreWritten'
    <3>1. normalized \ swept' \subseteq seen
      BY <1>0, <2>1 DEF SweepsAreKnown
    <3> HIDE DEF seen, E
    <3>2. \A id \in seen : Written(rows, ledger', id)
      BY <2>2, <2>3 DEF Written
    <3>. QED
      BY <2>1, <3>1, <3>2 DEF RowsAreWritten
  <2>6. SweepsAreKnown'
    BY <2>1 DEF SweepsAreKnown, NoScript
  <2>7. MovesAreRead' /\ MovesAreWritten' /\ Unique(moves')
    BY <1>0, <2>1 DEF MovesAreRead, MovesAreWritten
  <2>. QED
    BY <2>3, <2>4, <2>5, <2>6, <2>7 DEF LedgerInv
<1>3. ASSUME UNCHANGED <<rows, store>>, SweepsAreKnown' PROVE LedgerInv'
  BY <1>0, <1>3 DEF store, LedgerInv, EntriesAreRead, RowsAreWritten, MovesAreRead, MovesAreWritten
<1>4. UNCHANGED <<rows, store, script>> => SweepsAreKnown'
  BY <1>0 DEF store, SweepsAreKnown
<1>5. ScriptReads \/ ScriptDies => UNCHANGED <<rows, store>> /\ SweepsAreKnown'
  BY DEF ScriptReads, ScriptDies, SweepsAreKnown, NoScript, store
<1>6. ASSUME NEW r \in Report, Begin(r) \/ ParseEnds(r) \/ Stop(r) \/ Persist(r)
      PROVE  UNCHANGED <<rows, store, script>>
  BY <1>6 DEF Begin, ParseEnds, Stop, Persist
<1>7. EditCosts \/ Refresh \/ UNCHANGED vars => UNCHANGED <<rows, store, script>>
  BY DEF EditCosts, Refresh, vars
<1>. QED
  BY <1>1, <1>2, <1>3, <1>4, <1>5, <1>6, <1>7 DEF Next

LEMMA LedgerInvariance == Spec => [](Shapes /\ LedgerInv)
<1>. QED
  BY InitShapes, InitLedger, ShapesStep, LedgerStep, PTL DEF Spec

(* Every table keeps rows of its kind, and no entry or movement outlives or *)
(* precedes the normalized row it was built from.                          *)
THEOREM TypeCorrect == Spec => []TypeOK
<1>1. Shapes /\ LedgerInv => TypeOK
  <2> SUFFICES ASSUME Shapes, LedgerInv PROVE TypeOK
    OBVIOUS
  <2>1. {e.row : e \in ledger} \subseteq normalized /\ {m.row : m \in moves} \subseteq normalized
    BY DEF LedgerInv, EntriesAreRead, MovesAreRead
  <2>2. \A r \in Report : /\ run[r].pc \in {"idle", "parsing", "parsed", "done"}
                          /\ run[r].next \in Nat /\ run[r].acc \in Result
    BY DEF Shapes, Runs
  <2>3. script.pc \in {"idle", "read"}
    BY DEF Shapes, Scripts
  <2>. QED
    BY <2>1, <2>2, <2>3 DEF Shapes, TypeOK
<1>. QED
  BY <1>1, LedgerInvariance, PTL

(* The ledger and the movements hold what every stored row means exactly    *)
(* once (LedgerIsWhole), however often persist_phase1_chunk wrote a chunk   *)
(* and whenever the script rebuilt the ledger: entries are unique by key,   *)
(* each is one that its row means, and each that a row means is there       *)
(* unless the script swept the row.                                        *)
THEOREM LedgerStaysWhole == Spec => []LedgerIsWhole
<1>1. ASSUME Shapes, LedgerInv, NEW id \in normalized, id \notin swept
      PROVE  LET have == {e \in ledger : e.row = id}
                 want == Entries(id, Row(id), DayOf(id))
             IN  /\ {Same(e) : e \in have} = {Same(e) : e \in want}
                 /\ Cardinality(have) = Cardinality(want)
  <2> DEFINE have == {e \in ledger : e.row = id}
             want == Entries(id, Row(id), DayOf(id))
             PartnerOf(e) == CHOOSE w \in want : Same(w) = Same(e) /\ Key(w) = Key(e)
             partner == [e \in have |-> PartnerOf(e)]
  <2>1. IsRow(Row(id)) /\ want = Meant(rows, id)
    BY <1>1, RowTypes, MeantHere DEF Shapes
  <2>2. IsFiniteSet(want) /\ \A v, w \in want : Key(v) = Key(w) => v = w
    BY <2>1, RowEntries DEF Key
  <2>3. \A e \in have : \E w \in want : Same(w) = Same(e) /\ Key(w) = Key(e)
    BY <1>1, <2>1 DEF LedgerInv, EntriesAreRead, Says
  <2>4. \A w \in want : \E e \in have : Key(e) = Key(w)
    <3>1. ASSUME NEW w \in want PROVE w.row = id
      BY <2>1, RowEntries
    <3>2. ASSUME NEW w \in want PROVE \E e \in ledger : Key(e) = Key(w)
      BY <1>1, <2>1 DEF LedgerInv, RowsAreWritten, Written
    <3>. QED
      BY <3>1, <3>2 DEF Key
  <2>5. \A e, f \in have : Key(e) = Key(f) => e = f
    BY <1>1 DEF LedgerInv, Unique
  <2> HIDE DEF have, want
  <2>6. {Same(e) : e \in have} = {Same(w) : w \in want}
    BY <2>2, <2>3, <2>4
  <2>7. \A e \in have : PartnerOf(e) \in want /\ Key(PartnerOf(e)) = Key(e)
    BY <2>3
  <2>8. partner \in Injection(have, want)
    BY <2>5, <2>7 DEF Injection, IsInjective
  <2>9. partner \in Surjection(have, want)
    <3> HIDE DEF PartnerOf
    <3>1. partner \in [have -> want]
      BY <2>7
    <3>2. ASSUME NEW w \in want PROVE \E e \in have : partner[e] = w
      BY <2>2, <2>4, <2>7
    <3>. QED
      BY <3>1, <3>2 DEF Surjection
  <2>10. Cardinality(have) = Cardinality(want)
    <3> HIDE DEF partner
    <3>. QED BY <2>2, <2>8, <2>9, FS_Injection
  <2>. QED
    BY <2>6, <2>10 DEF have, want
<1>2. ASSUME Shapes, LedgerInv, NEW id \in normalized
      PROVE  LET have == {m \in moves : m.row = id}
                 want == Movements(id, Row(id), DayOf(id))
             IN  {m.delta : m \in have} = {m.delta : m \in want} /\ Cardinality(have) = Cardinality(want)
  <2> DEFINE have == {m \in moves : m.row = id}
             want == Movements(id, Row(id), DayOf(id))
  <2>1. want = MeantMoves(rows, id)
    BY MeantHere
  <2>2. (\A m, n \in want : m = n) /\ \A m \in want : m.row = id
    BY RowMoves
  <2>3. \A m \in have : \E w \in want : m.delta = w.delta /\ Key(m) = Key(w)
    BY <1>2, <2>1 DEF LedgerInv, MovesAreRead, Moved
  <2>4. \A w \in want : \E m \in have : Key(m) = Key(w)
    BY <1>2, <2>1, <2>2 DEF LedgerInv, MovesAreWritten, Moves, Key
  <2>5. \A m, n \in have : Key(m) = Key(n) => m = n
    BY <1>2 DEF LedgerInv, Unique
  <2> HIDE DEF have, want
  <2>6. {m.delta : m \in have} = {m.delta : m \in want}
    BY <2>2, <2>3, <2>4
  <2>7. CASE want = {}
    <3>1. have = want
      BY <2>3, <2>7
    <3>. QED
      BY <2>6, <3>1 DEF have, want
  <2>8. CASE want # {}
    <3>1. PICK w \in want : want = {w}
      BY <2>2, <2>8
    <3>2. PICK m \in have : have = {m}
      BY <2>3, <2>4, <2>5, <3>1
    <3>3. Cardinality({w}) = 1 /\ Cardinality({m}) = 1
      BY FS_Singleton
    <3>. QED
      BY <2>6, <3>1, <3>2, <3>3 DEF have, want
  <2>. QED
    BY <2>6, <2>7, <2>8 DEF have, want
<1>3. Shapes /\ LedgerInv => LedgerIsWhole
  <2> SUFFICES ASSUME Shapes, LedgerInv PROVE LedgerIsWhole
    OBVIOUS
  <2>. QED
    BY <1>1, <1>2 DEF LedgerIsWhole
<1>. QED
  BY <1>3, LedgerInvariance, PTL

(***************************************************************************)
(* Part 3: what a day was last drawn from.                                 *)
(***************************************************************************)
(* Whoever redraws the days D from L leaves every entry of L on these days  *)
(* drawn, and the other days as they were.                                 *)
LEMMA RedrawDraws ==
    ASSUME NEW D, NEW L, \A e \in L : IsEntry(e), Redraw(D, L)
    PROVE  /\ \A e \in L : e.day \in D => e.day \in DOMAIN drawn' /\ e \in drawn'[e.day]
           /\ \A d \in DOMAIN drawn \ D : d \in DOMAIN drawn' /\ drawn'[d] = drawn[d]
<1> DEFINE E == {e \in Drafts(L) : e.day \in D}
<1>1. drawn' = [d \in (DOMAIN drawn \ D) \cup Days(E) |-> IF d \in D THEN On(L, d) ELSE drawn[d]]
  BY DEF Redraw
<1>2. ASSUME NEW e \in L, e.day \in D PROVE e.day \in Days(E) /\ e \in On(L, e.day)
  <2>1. [e EXCEPT !.qty = 0].day = e.day
    BY DEF IsEntry, EntryFields
  <2>. QED
    BY <1>2, <2>1 DEF Days, Drafts, On
<1> HIDE DEF E
<1>. QED
  BY <1>1, <1>2

(* No entry of a completed report is missing from what its day was last     *)
(* drawn from (CompletedIsDrawn): a job completes in the transaction that   *)
(* draws its days, and nobody draws a day from less than the whole ledger. *)
THEOREM CompletedStaysDrawn == Spec => []CompletedIsDrawn
<1>1. Init => CompletedIsDrawn
  BY DEF Init, CompletedIsDrawn
<1>2. Shapes /\ LedgerInv /\ LedgerInv' /\ CompletedIsDrawn /\ [Next]_vars => CompletedIsDrawn'
  <2> SUFFICES ASSUME Shapes, LedgerInv, LedgerInv', CompletedIsDrawn, [Next]_vars,
                      NEW e \in ledger', run'[e.row[1]].pc = "done"
               PROVE  e.day \in DOMAIN drawn' /\ e \in drawn'[e.day]
    BY DEF CompletedIsDrawn
  <2>0. /\ \A x \in ledger : IsEntry(x) /\ x.row \in normalized
        /\ \A x \in ledger' : IsEntry(x)
        /\ rows \in Books /\ normalized \subseteq AllRows /\ run \in [Report -> Runs]
    BY DEF Shapes, LedgerInv, EntriesAreRead
  <2>1. ASSUME e \in ledger, run[e.row[1]].pc = "done" PROVE e.day \in DOMAIN drawn /\ e \in drawn[e.day]
    BY <2>1 DEF CompletedIsDrawn
  <2>2. ASSUME NEW r \in Report, Begin(r) \/ ParseEnds(r) \/ Stop(r)
        PROVE  ledger' = ledger /\ drawn' = drawn /\ run[e.row[1]].pc = "done"
    <3>1. ledger' = ledger /\ drawn' = drawn
      BY <2>2 DEF Begin, ParseEnds, Stop, store, tables
    <3>2. e.row[1] \in Report
      BY <2>0, <3>1, RowTypes
    <3>3. run'[r].pc # "done" /\ \A q \in Report \ {r} : run'[q] = run[q]
      BY <2>0, <2>2 DEF Begin, ParseEnds, Stop, Idle, Runs
    <3>. QED
      BY <3>1, <3>2, <3>3
  <2>3. ASSUME NEW r \in Report, PersistChunk(r)
        PROVE  e \in ledger /\ drawn' = drawn /\ run[e.row[1]].pc = "done"
    <3> DEFINE E == By(EntriesOf(ChunkAt(r)), tries[r])
    <3>1. /\ ledger' = Insert(ledger, E) /\ drawn' = drawn /\ run[r].pc = "parsing"
          /\ run' = [run EXCEPT ![r].next = @ + ChunkSize, ![r].acc = Accumulated(r)]
      BY <2>3 DEF PersistChunk, tables
    <3>2. run'[r].pc # "done" /\ \A q \in Report \ {r} : run'[q] = run[q]
      BY <2>0, <3>1 DEF Runs
    <3>3. \A x \in E : x.row[1] = r
      <4>1. \A x \in EntriesOf(ChunkAt(r)) : IsEntry(x) /\ x.row[1] = r
        BY <2>0, ChunkRows, EntriesRead
      <4>. QED
        BY <4>1, Tagged
    <3>4. e \in ledger \/ e \in E
      <4> HIDE DEF E
      <4>. QED BY <3>1, Inserted
    <3>5. e.row[1] # r
      BY <3>2
    <3>6. e \in ledger /\ e.row[1] \in Report
      BY <2>0, <3>3, <3>4, <3>5, RowTypes
    <3>. QED
      BY <3>1, <3>2, <3>5, <3>6
  <2>4. ASSUME NEW r \in Report, Persist(r) PROVE e.day \in DOMAIN drawn' /\ e \in drawn'[e.day]
    <3>1. /\ ledger' = ledger /\ Redraw(Days(OwnEntries(r)), ledger)
          /\ run' = [run EXCEPT ![r].pc = "done"]
      BY <2>4 DEF Persist, store, DrawnFrom
    <3>2. e.row[1] \in Report
      BY <2>0, <3>1, RowTypes
    <3>3. e.row[1] = r => e.day \in Days(OwnEntries(r))
      BY <3>1 DEF OwnEntries, Days
    <3>4. e.row[1] # r => run[e.row[1]].pc = "done"
      BY <2>0, <3>1, <3>2
    <3>. QED
      BY <2>0, <2>1, <3>1, <3>3, <3>4, RedrawDraws
  <2>5. ASSUME Refresh PROVE e.day \in DOMAIN drawn' /\ e \in drawn'[e.day]
    <3>1. ledger' = ledger /\ Redraw(Days(ledger), ledger) /\ e.day \in Days(ledger)
      BY <2>5 DEF Refresh, store, Days
    <3>. QED
      BY <2>0, <3>1, RedrawDraws
  <2>6. ASSUME ScriptWrites PROVE e.day \in DOMAIN drawn' /\ e \in drawn'[e.day]
    <3> DEFINE E == By(EntriesAgain(script.seen), 0)
    <3>1. ledger' = Insert({}, E) /\ Redraw(Days(E), ledger')
      BY <2>6 DEF ScriptWrites
    <3> HIDE DEF E
    <3>2. e \in E
      BY <3>1, Inserted
    <3>3. e.day \in Days(E)
      BY <3>2 DEF Days
    <3>. QED
      BY <2>0, <3>1, <3>3, RedrawDraws
  <2>7. ASSUME EditCosts \/ ScriptReads \/ ScriptDies \/ UNCHANGED vars
        PROVE  ledger' = ledger /\ drawn' = drawn /\ run' = run
    BY <2>7 DEF EditCosts, ScriptReads, ScriptDies, vars, store, tables
  <2>. QED
    BY <2>1, <2>2, <2>3, <2>4, <2>5, <2>6, <2>7 DEF Next
<1>. QED
  BY <1>1, <1>2, LedgerInvariance, PTL DEF Spec

(***************************************************************************)
(* Part 4: what a job has summed up.                                       *)
(***************************************************************************)
(* The entries of the rows of file r of bs before row n. *)
Sofar(bs, r, n) == UNION {Meant(bs, id) : id \in {i \in {r} \X DOMAIN bs[r] : i[2] < n}}

(* The job's sums are those of the rows it has read; what it expects leaves *)
(* the compensations out once there is a second chunk to merge.            *)
IsSummed(bs, r, k) ==
    k.pc \in {"parsing", "parsed"} =>
        /\ k.next = 1 => k.acc = NoResult
        /\ k.next > 1 =>
              /\ k.acc \in Reconciliation /\ k.acc.sums = Sums(Sofar(bs, r, k.next))
              /\ k.acc.expected = NetAmount(Sofar(bs, r, k.next))
                    - (IF k.next = 1 + ChunkSize THEN 0
                       ELSE Total(Sofar(bs, r, k.next), {"compensation"}))
        /\ k.next = 1 \/ k.next = 1 + ChunkSize \/ Len(bs[r]) > ChunkSize
        /\ k.pc = "parsed" => k.next > 1 /\ k.next > Len(bs[r])
JobsAreSummed == \A r \in Report : IsSummed(rows, r, run[r])

(* What SumsAreWhole says of the reconciliation x of the file r of bs.      *)
IsWhole(bs, r, x) ==
    LET E == Sofar(bs, r, Len(bs[r]) + 1)
    IN  x # NoResult =>
          /\ x.sums = Sums(E)
          /\ Len(bs[r]) <= ChunkSize \/ Total(E, {"compensation"}) = 0 => x.expected = NetAmount(E)
AreWhole == \A r \in Report : IsWhole(rows, r, recon[r])

LEMMA SofarTypes ==
    ASSUME rows \in Books, NEW r \in Report, NEW n \in Nat
    PROVE  /\ AreEntries(Sofar(rows, r, n))
           /\ \A e \in Sofar(rows, r, n) : e.row[1] = r /\ e.row[2] < n
           /\ Sofar(rows, r, 1) = {}
           /\ n > Len(rows[r]) => Sofar(rows, r, n) = Whole(r)
<1>1. Len(rows[r]) \in Nat /\ DOMAIN rows[r] = 1..Len(rows[r])
  BY BooksAssumption DEF BooksAssumption
<1> DEFINE ids == {i \in {r} \X DOMAIN rows[r] : i[2] < n}
<1>2. ids \subseteq RowIds(r) /\ ids \subseteq AllRows /\ \A i \in ids : i[1] = r /\ i[2] < n
  <2>1. ids \subseteq RowIds(r) /\ \A i \in ids : i[1] = r /\ i[2] < n
    BY DEF RowIds
  <2>. QED
    BY <2>1, RowsFinite
<1>3. {i \in {r} \X DOMAIN rows[r] : i[2] < 1} = {}
  BY <1>1
<1>4. n > Len(rows[r]) => ids = RowIds(r)
  BY <1>1 DEF RowIds
<1>5. Sofar(rows, r, n) = UNION {Meant(rows, id) : id \in ids}
  BY DEF Sofar
<1> HIDE DEF ids
<1>6. Sofar(rows, r, n) = EntriesOf(ids) /\ \A e \in EntriesOf(ids) : e.row \in ids
  BY <1>2, <1>5, EntriesRead
<1>7. AreEntries(EntriesOf(ids))
  BY <1>2, EntriesFinite
<1>8. Sofar(rows, r, 1) = {}
  BY <1>3 DEF Sofar
<1>. QED
  BY <1>2, <1>4, <1>6, <1>7, <1>8 DEF Whole

LEMMA SofarGrows ==
    ASSUME Shapes, NEW r \in Report
    PROVE  LET n == run[r].next
               F == EntriesOf(ChunkAt(r))
           IN  /\ Sofar(rows, r, n + ChunkSize) = Sofar(rows, r, n) \cup F
               /\ Sofar(rows, r, n) \cap F = {} /\ AreEntries(F)
<1> DEFINE n == run[r].next
           F == EntriesOf(ChunkAt(r))
           Before(m) == {i \in {r} \X DOMAIN rows[r] : i[2] < m}
<1>1. n \in Nat \ {0} /\ ChunkSize \in Nat \ {0} /\ rows \in Books
  BY ConstantTypes DEF Shapes, Runs
<1>2. Len(rows[r]) \in Nat /\ DOMAIN rows[r] = 1..Len(rows[r])
  BY <1>1, BooksAssumption DEF BooksAssumption
<1>3. ChunkAt(r) \subseteq AllRows /\ AreEntries(F)
  BY <1>1, ChunkRows
<1>4. Before(n + ChunkSize) = Before(n) \cup ChunkAt(r) /\ \A id \in ChunkAt(r) : ~(id[2] < n)
  <2>1. \A i \in {r} \X DOMAIN rows[r] : i[2] \in Nat
    BY <1>2
  <2>. QED
    BY <1>1, <2>1 DEF ChunkAt, RowIds
<1>5. F = UNION {Meant(rows, id) : id \in ChunkAt(r)} /\ \A e \in F : e.row \in ChunkAt(r)
  BY <1>1, <1>3, EntriesRead
<1>6. \A m : Sofar(rows, r, m) = UNION {Meant(rows, id) : id \in Before(m)}
  BY DEF Sofar
<1>7. \A e \in Sofar(rows, r, n) : e.row[2] < n
  BY <1>1, SofarTypes
<1> HIDE DEF n, F, Before
<1>8. Sofar(rows, r, n + ChunkSize) = Sofar(rows, r, n) \cup F
  BY <1>4, <1>5, <1>6
<1>9. Sofar(rows, r, n) \cap F = {}
  BY <1>4, <1>5, <1>7
<1>. QED
  BY <1>3, <1>8, <1>9 DEF n, F

(* One more chunk is summed up. *)
LEMMA ChunkIsSummed ==
    ASSUME Shapes, NEW r \in Report, PersistChunk(r), IsSummed(rows, r, run[r])
    PROVE  IsSummed(rows, r, run'[r])
<1> DEFINE n == run[r].next
           m == n + ChunkSize
           acc == run[r].acc
           E == Sofar(rows, r, n)
           F == EntriesOf(ChunkAt(r))
           G == Sofar(rows, r, m)
<1>1. /\ run[r].pc = "parsing" /\ ChunkAt(r) # {} /\ run[r] \in Runs
      /\ run' = [run EXCEPT ![r].next = @ + ChunkSize, ![r].acc = Accumulated(r)]
      /\ rows \in Books /\ run \in [Report -> Runs]
  BY DEF PersistChunk, Shapes
<1>2. n \in Nat \ {0} /\ ChunkSize \in Nat \ {0} /\ m \in Nat
  BY <1>1, ConstantTypes DEF Runs
<1>3. run'[r].pc = "parsing" /\ run'[r].next = m /\ run'[r].acc = Accumulated(r)
  BY <1>1 DEF Runs
<1>4. Accumulated(r) \in Reconciliation
      /\ Accumulated(r) = IF acc = NoResult THEN Calculate(F) ELSE Merge(acc, Calculate(F))
  BY AccumulatedTypes DEF Accumulated
<1>5. G = E \cup F /\ E \cap F = {} /\ AreEntries(F)
  BY SofarGrows
<1>6. AreEntries(E) /\ AreEntries(G) /\ (n = 1 => E = {})
  BY <1>1, <1>2, SofarTypes
<1>7. n = 1 \/ n = 1 + ChunkSize \/ Len(rows[r]) > ChunkSize
  BY <1>1 DEF IsSummed
<1>8. n # 1 => acc \in Reconciliation /\ acc.sums = Sums(E)
  BY <1>1, <1>2 DEF IsSummed
<1>9. n = 1 => acc = NoResult
  BY <1>1 DEF IsSummed
<1>10. n # 1 => Len(rows[r]) > ChunkSize
  <2>1. PICK id \in RowIds(r) : n <= id[2]
    BY <1>1 DEF ChunkAt
  <2>2. Len(rows[r]) \in Nat /\ id[2] \in 1..Len(rows[r])
    BY <1>1, BooksAssumption DEF BooksAssumption, RowIds
  <2> HIDE DEF n
  <2>. QED
    BY <1>2, <1>7, <2>1, <2>2
<1> DEFINE comp == Total(G, {"compensation"})
<1>11. comp \in Int /\ NetAmount(G) \in Int
  <2>1. comp \in Int
    BY <1>6, TotalIs
  <2>. QED
    BY <1>6, <2>1, ExpectedIsNet
<1> HIDE DEF n, m, acc, E, F, G, comp
<1>12. CASE n = 1
  <2>1. Accumulated(r) = Calculate(G) /\ m = 1 + ChunkSize
    BY <1>4, <1>5, <1>6, <1>9, <1>12 DEF m
  <2>2. Calculate(G).sums = Sums(G) /\ Calculate(G).expected = NetAmount(G) - comp + comp
    BY <1>6, <1>11, ExpectedIsNet DEF Calculate, comp
  <2>3. Calculate(G).expected = NetAmount(G) - 0
    BY <1>11, <2>2
  <2>. QED
    BY <1>2, <1>3, <1>4, <2>1, <2>2, <2>3 DEF IsSummed, G, m
<1>13. CASE n # 1
  <2>1. acc # NoResult
    BY <1>8, <1>13, ConstantTypes
  <2>2. Accumulated(r) = Reconciled([f \in DOMAIN acc.sums |-> acc.sums[f] + Sums(F)[f]], 0)
    BY <1>4, <1>5, <1>8, <1>13, <2>1, MergeTypes
  <2>3. Sums(G) = [f \in DOMAIN Sums(E) |-> Sums(E)[f] + Sums(F)[f]]
    BY <1>5, <1>6, SumsJoin
  <2>4. Accumulated(r) = Reconciled(Sums(G), 0)
    BY <1>8, <1>13, <2>2, <2>3
  <2>5. Reconciled(Sums(G), 0).sums = Sums(G)
        /\ Reconciled(Sums(G), 0).expected = NetAmount(G) - comp + 0
    BY <1>6, ExpectedIsNet DEF comp
  <2>6. m # 1 + ChunkSize /\ m # 1 /\ NetAmount(G) - comp + 0 = NetAmount(G) - comp
    BY <1>2, <1>11, <1>13 DEF m
  <2>. QED
    BY <1>2, <1>3, <1>4, <1>10, <1>13, <2>4, <2>5, <2>6 DEF IsSummed, G, m, comp
<1>. QED
  BY <1>12, <1>13

LEMMA SumsStep ==
    Shapes /\ JobsAreSummed /\ AreWhole /\ [Next]_vars => JobsAreSummed' /\ AreWhole'
<1> SUFFICES ASSUME Shapes, JobsAreSummed, AreWhole, [Next]_vars PROVE JobsAreSummed' /\ AreWhole'
  OBVIOUS
<1>0. rows \in Books /\ run \in [Report -> Runs] /\ recon \in [Report -> Result]
  BY DEF Shapes
<1>1. rows' = rows
  BY DEF Next, Begin, PersistChunk, ParseEnds, Stop, Persist, EditCosts, Refresh, ScriptReads,
         ScriptWrites, ScriptDies, vars
<1>a. (\A r \in Report : IsSummed(rows, r, run'[r])) => JobsAreSummed'
  BY <1>1 DEF JobsAreSummed
<1>b. (\A r \in Report : IsWhole(rows, r, recon'[r])) => AreWhole'
  BY <1>1 DEF AreWhole
<1>c. ASSUME NEW r \in Report, IsSummed(rows, r, run'[r]), \A q \in Report \ {r} : run'[q] = run[q]
      PROVE  JobsAreSummed'
  BY <1>a, <1>c DEF JobsAreSummed
<1>d. recon' = recon => AreWhole'
  BY <1>b DEF AreWhole
<1>2. ASSUME NEW r \in Report, Begin(r) PROVE JobsAreSummed' /\ AreWhole'
  <2>1. /\ run'[r] = [Idle EXCEPT !.pc = "parsing"] /\ \A q \in Report \ {r} : run'[q] = run[q]
        /\ recon' = recon
    BY <1>0, <1>2 DEF Begin, tables
  <2>2. run'[r].next = 1 /\ run'[r].acc = NoResult /\ run'[r].pc = "parsing"
    BY <2>1 DEF Idle
  <2>3. IsSummed(rows, r, run'[r])
    BY <2>2 DEF IsSummed
  <2>. QED
    BY <1>c, <1>d, <2>1, <2>3
<1>3. ASSUME NEW r \in Report, PersistChunk(r) PROVE JobsAreSummed' /\ AreWhole'
  <2>1. (\A q \in Report \ {r} : run'[q] = run[q]) /\ recon' = recon
    BY <1>0, <1>3 DEF PersistChunk, tables
  <2>2. IsSummed(rows, r, run'[r])
    BY <1>3, ChunkIsSummed DEF JobsAreSummed
  <2>. QED
    BY <1>c, <1>d, <2>1, <2>2
<1>4. ASSUME NEW r \in Report, ParseEnds(r) PROVE JobsAreSummed' /\ AreWhole'
  <2>1. /\ run[r].pc = "parsing" /\ ChunkAt(r) = {} /\ run[r].next > 1 /\ run[r] \in Runs
        /\ run' = [run EXCEPT ![r].pc = "parsed"] /\ recon' = recon
    BY <1>0, <1>4 DEF ParseEnds, tables
  <2>2. /\ run'[r].pc = "parsed" /\ run'[r].next = run[r].next /\ run'[r].acc = run[r].acc
        /\ \A q \in Report \ {r} : run'[q] = run[q]
    BY <1>0, <2>1 DEF Runs
  <2>3. run[r].next > Len(rows[r])
    <3>1. /\ Len(rows[r]) \in Nat /\ DOMAIN rows[r] = 1..Len(rows[r])
          /\ run[r].next \in Nat \ {0} /\ ChunkSize \in Nat \ {0}
      BY <1>0, <2>1, BooksAssumption, ConstantTypes DEF BooksAssumption, Runs
    <3>2. ASSUME run[r].next <= Len(rows[r]) PROVE <<r, run[r].next>> \in ChunkAt(r)
      BY <3>1, <3>2 DEF ChunkAt, RowIds
    <3>. QED
      BY <2>1, <3>1, <3>2
  <2>4. IsSummed(rows, r, run[r])
    BY DEF JobsAreSummed
  <2>5. IsSummed(rows, r, run'[r])
    BY <2>1, <2>2, <2>3, <2>4 DEF IsSummed
  <2>. QED
    BY <1>c, <1>d, <2>1, <2>2, <2>5
<1>5. ASSUME NEW r \in Report, Stop(r) PROVE JobsAreSummed' /\ AreWhole'
  <2>1. run'[r] = Idle /\ (\A q \in Report \ {r} : run'[q] = run[q]) /\ recon' = recon
    BY <1>0, <1>5 DEF Stop, tables
  <2>2. IsSummed(rows, r, run'[r])
    BY <2>1 DEF IsSummed, Idle
  <2>. QED
    BY <1>c, <1>d, <2>1, <2>2
<1>6. ASSUME NEW r \in Report, Persist(r) PROVE JobsAreSummed' /\ AreWhole'
  <2>1. /\ run[r].pc = "parsed" /\ run[r] \in Runs
        /\ run'[r].pc = "done" /\ \A q \in Report \ {r} : run'[q] = run[q]
        /\ recon' = [recon EXCEPT ![r] = run[r].acc]
    BY <1>0, <1>6 DEF Persist, Runs
  <2>2. IsSummed(rows, r, run'[r])
    BY <2>1 DEF IsSummed
  <2>3. IsWhole(rows, r, run[r].acc)
    <3> DEFINE n == run[r].next
               E == Sofar(rows, r, n)
               comp == Total(E, {"compensation"})
    <3>1. /\ n > 1 /\ n > Len(rows[r]) /\ run[r].acc.sums = Sums(E)
          /\ run[r].acc.expected = NetAmount(E) - (IF n = 1 + ChunkSize THEN 0 ELSE comp)
          /\ n = 1 \/ n = 1 + ChunkSize \/ Len(rows[r]) > ChunkSize
      BY <2>1 DEF JobsAreSummed, IsSummed
    <3>2. n \in Nat /\ Len(rows[r]) \in Nat /\ Len(rows[r]) + 1 > Len(rows[r]) /\ ChunkSize \in Nat
      BY <1>0, <2>1, BooksAssumption, ConstantTypes DEF BooksAssumption, Runs
    <3>3. E = Whole(r) /\ Sofar(rows, r, Len(rows[r]) + 1) = Whole(r)
      <4> HIDE DEF n
      <4>. QED BY <1>0, <3>1, <3>2, SofarTypes
    <3>4. NetAmount(E) \in Int
      <4>1. AreEntries(E)
        BY <1>0, <3>2, SofarTypes
      <4> HIDE DEF E
      <4>. QED
        BY <4>1, ExpectedIsNet
    <3>5. Len(rows[r]) <= ChunkSize \/ comp = 0 => run[r].acc.expected = NetAmount(E)
      <4> HIDE DEF n, E, comp
      <4>1. n = 1 + ChunkSize \/ comp = 0 => run[r].acc.expected = NetAmount(E) - 0
        BY <3>1
      <4>. QED
        BY <3>1, <3>2, <3>4, <4>1
    <3>. QED
      BY <3>1, <3>3, <3>5 DEF IsWhole
  <2>4. AreWhole'
    BY <1>0, <1>b, <2>1, <2>3 DEF AreWhole
  <2>. QED
    BY <1>c, <2>1, <2>2, <2>4
<1>7. EditCosts \/ Refresh \/ ScriptReads \/ ScriptWrites \/ ScriptDies \/ UNCHANGED vars
        => run' = run /\ recon' = recon
  BY DEF EditCosts, Refresh, ScriptReads, ScriptWrites, ScriptDies, vars, tables
<1>8. run' = run => JobsAreSummed'
  BY <1>a DEF JobsAreSummed
<1>. QED
  BY <1>d, <1>2, <1>3, <1>4, <1>5, <1>6, <1>7, <1>8 DEF Next

(* A stored reconciliation sums up every row of its file once, in however   *)
(* many chunks and attempts the file was read (SumsAreWhole).              *)
THEOREM SumsStayWhole == Spec => []SumsAreWhole
<1>1. Init => JobsAreSummed /\ AreWhole
  BY DEF Init, JobsAreSummed, AreWhole, IsSummed, IsWhole, Idle
<1>2. Shapes /\ AreWhole => SumsAreWhole
  <2> SUFFICES ASSUME Shapes, AreWhole, NEW r \in Report, recon[r] # NoResult
               PROVE  /\ recon[r].sums = Sums(Whole(r))
                      /\ Len(rows[r]) <= ChunkSize \/ Total(Whole(r), {"compensation"}) = 0 =>
                            recon[r].expected = NetAmount(Whole(r))
    BY DEF SumsAreWhole
  <2>1. Sofar(rows, r, Len(rows[r]) + 1) = Whole(r)
    <3>1. rows \in Books /\ Len(rows[r]) \in Nat
      BY BooksAssumption DEF BooksAssumption, Shapes
    <3>. QED
      BY <3>1, SofarTypes
  <2>. QED
    BY <2>1 DEF AreWhole, IsWhole
<1>. QED
  BY <1>1, <1>2, SumsStep, LedgerInvariance, PTL DEF Spec

(***************************************************************************)
(* Part 5: the two builders and the day they agree on.                     *)
(***************************************************************************)
LEMMA CostTypes == \A T \in CostTables : IsCosts(T)
BY LedgerAssumption DEF LedgerAssumption, IsCosts

(* The sums over the SKUs of a day are sums of functions.                   *)
LEMMA SkuSums ==
    ASSUME NEW f, NEW S
    PROVE  /\ MapThenSumSet(LAMBDA k : f[k].profit, S) = Sum([k \in S |-> f[k].profit], S)
           /\ MapThenSumSet(LAMBDA k : f[k].units, S) = Sum([k \in S |-> f[k].units], S)
<1> DEFINE v == [k \in S |-> f[k].profit]
           w == [k \in S |-> f[k].units]
           A(g) == [s \in SUBSET S |-> IF s = {} THEN 0
                      ELSE f[CHOOSE x \in s : TRUE].profit + g[s \ {CHOOSE x \in s : TRUE}]]
           B(g) == [s \in SUBSET S |-> IF s = {} THEN 0
                      ELSE v[CHOOSE x \in s : TRUE] + g[s \ {CHOOSE x \in s : TRUE}]]
           C(g) == [s \in SUBSET S |-> IF s = {} THEN 0
                      ELSE f[CHOOSE x \in s : TRUE].units + g[s \ {CHOOSE x \in s : TRUE}]]
           D(g) == [s \in SUBSET S |-> IF s = {} THEN 0
                      ELSE w[CHOOSE x \in s : TRUE] + g[s \ {CHOOSE x \in s : TRUE}]]
<1>1. ASSUME NEW g PROVE A(g) = B(g) /\ C(g) = D(g)
  OBVIOUS
<1>2. /\ MapThenSumSet(LAMBDA k : f[k].profit, S) = (CHOOSE g : g = A(g))[S]
      /\ MapThenSumSet(LAMBDA k : f[k].units, S) = (CHOOSE g : g = C(g))[S]
  BY DEF MapThenSumSet, MapThenFoldSet
<1>3. Sum(v, S) = (CHOOSE g : g = B(g))[S] /\ Sum(w, S) = (CHOOSE g : g = D(g))[S]
  BY DEF Sum, MapThenSumSet, MapThenFoldSet
<1>4. (CHOOSE g : g = A(g)) = (CHOOSE g : g = B(g)) /\ (CHOOSE g : g = C(g)) = (CHOOSE g : g = D(g))
  <2> HIDE DEF A, B, C, D
  <2>. QED BY <1>1
<1>. QED
  BY <1>2, <1>3, <1>4

(* A day is the sum of its SKUs and of what has no SKU.                     *)
LEMMA DayIsSkus ==
    ASSUME NEW F, AreDrafts(F), NEW T \in CostTables, NEW day, \A e \in F : e.day = day, NEW P,
           \A k \in Keys(F) : P[k] = Profit(For(F, k), T)
    PROVE  LET rest == {e \in F : e.sku = None}
           IN  /\ Profit(F, T).profit = Sum([k \in Keys(F) |-> P[k].profit], Keys(F)) + NetAmount(rest)
               /\ Profit(F, T).units = Sum([k \in Keys(F) |-> P[k].units], Keys(F)) + Units(rest)
<1> DEFINE rest == {e \in F : e.sku = None}
           sold == {e \in F : e.sku # None}
           N == NetOf(F)
           C == GoodsOf(F, T)
           U == UnitsOf(F)
           W == [e \in F |-> N[e] - C[e]]
           g == [e \in sold |-> <<e.day, e.sku>>]
           profits == [k \in Keys(F) |-> P[k].profit]
           units == [k \in Keys(F) |-> P[k].units]
<1>0. IsCosts(T)
  BY CostTypes
<1>1. /\ \A e \in F : N[e] \in Int /\ C[e] \in Int /\ U[e] \in Int /\ W[e] = N[e] - C[e] /\ W[e] \in Int
      /\ IsFiniteSet(F)
  <2>1. \A e \in F : N[e] \in Int /\ C[e] \in Int /\ U[e] \in Int
    BY <1>0, Weighed
  <2>2. IsFiniteSet(F)
    BY DEF AreDrafts, AreEntries
  <2> HIDE DEF N, C, U
  <2>. QED
    BY <2>1, <2>2
<1>2. ASSUME NEW E \in SUBSET F
      PROVE  /\ Profit(E, T).profit = Sum(W, E) /\ Profit(E, T).units = Sum(U, E)
             /\ NetAmount(E) = Sum(N, E) /\ Cogs(E, T) = Sum(C, E) /\ Units(E) = Sum(U, E)
             /\ IsFiniteSet(E)
  <2>1. NetAmount(E) = Sum(N, E) /\ Cogs(E, T) = Sum(C, E) /\ Units(E) = Sum(U, E)
    BY <1>0, Weighed
  <2>2. IsFiniteSet(E)
    BY <1>1, FS_Subset
  <2> HIDE DEF N, C, U, W
  <2>3. Sum(W, E) = Sum(N, E) - Sum(C, E)
    BY <1>1, <2>2, SumMinus
  <2>. QED
    BY <2>1, <2>2, <2>3 DEF Profit
<1>3. Keys(F) = {g[e] : e \in sold}
  BY DEF Keys
<1>4. \A k \in Keys(F) : {e \in sold : g[e] = k} = For(F, k) /\ For(F, k) \in SUBSET F
  BY DEF Keys, For
<1>5. sold \cup rest = F /\ sold \cap rest = {} /\ sold \in SUBSET F /\ rest \in SUBSET F
  OBVIOUS
<1>6. \A e \in rest : C[e] = 0
  BY DEF GoodsOf
<1> HIDE DEF rest, sold, N, C, U, W, g
<1>7. IsFiniteSet(sold) /\ IsFiniteSet(rest)
  BY <1>2, <1>5
<1>8. Sum(W, F) = Sum(W, sold) + Sum(W, rest) /\ Sum(U, F) = Sum(U, sold) + Sum(U, rest)
  <2>1. \A e \in sold \cup rest : W[e] \in Int /\ U[e] \in Int
    BY <1>1, <1>5
  <2>2. /\ Sum(W, sold \cup rest) = Sum(W, sold) + Sum(W, rest)
        /\ Sum(U, sold \cup rest) = Sum(U, sold) + Sum(U, rest)
    BY <1>5, <1>7, <2>1, SumSplit
  <2>. QED
    BY <1>5, <2>2
<1>9. Sum(W, rest) = Sum(N, rest)
  <2>1. Sum(W, rest) = Sum(N, rest) - Sum(C, rest)
    <3>1. \A e \in rest : N[e] \in Int /\ C[e] \in Int /\ W[e] = N[e] - C[e]
      BY <1>1, <1>5
    <3>. QED
      BY <1>7, <3>1, SumMinus
  <2>2. Sum(C, rest) = 0
    BY <1>6, <1>7, SumZero
  <2>3. Sum(N, rest) \in Int
    BY <1>1, <1>5, <1>7, SumType
  <2>. QED
    BY <2>1, <2>2, <2>3
<1>10. \A k \in Keys(F) : profits[k] = Sum(W, For(F, k)) /\ units[k] = Sum(U, For(F, k))
  BY <1>2, <1>4
<1>11. Sum(profits, Keys(F)) = Sum(W, sold) /\ Sum(units, Keys(F)) = Sum(U, sold)
  <2>1. \A e \in sold : W[e] \in Int /\ U[e] \in Int
    BY <1>1, <1>5
  <2> DEFINE G == [k \in Keys(F) |-> For(F, k)]
  <2>2. \A k \in Keys(F) : G[k] = {e \in sold : g[e] = k} /\ G[k] = For(F, k)
    BY <1>4
  <2> HIDE DEF profits, units, G
  <2>3. IsGrouped(sold, g, Keys(F), G)
    BY <1>3, <2>2 DEF IsGrouped
  <2>4. Sum(profits, Keys(F)) = Sum(W, sold)
    <3>1. \A k \in Keys(F) : profits[k] = Sum(W, G[k])
      BY <1>10, <2>2
    <3>. QED
      BY <1>7, <2>1, <2>3, <3>1, SumGroups
  <2>5. Sum(units, Keys(F)) = Sum(U, sold)
    <3>1. \A k \in Keys(F) : units[k] = Sum(U, G[k])
      BY <1>10, <2>2
    <3>. QED
      BY <1>7, <2>1, <2>3, <3>1, SumGroups
  <2>. QED
    BY <2>4, <2>5
<1>12. /\ Profit(F, T).profit = Sum(profits, Keys(F)) + NetAmount(rest)
       /\ Profit(F, T).units = Sum(units, Keys(F)) + Units(rest)
  <2> HIDE DEF profits, units
  <2>1. /\ Profit(F, T).profit = Sum(W, F) /\ Profit(F, T).units = Sum(U, F)
        /\ NetAmount(rest) = Sum(N, rest) /\ Units(rest) = Sum(U, rest)
    BY <1>2, <1>5
  <2>. QED
    BY <1>8, <1>9, <1>11, <2>1
<1>. QED
  BY <1>12 DEF rest

(* Reading a set of entries without their quantities keeps all but these.   *)
Draft(e) == [e EXCEPT !.qty = 0]

LEMMA DraftTypes ==
    ASSUME NEW e, IsEntry(e)
    PROVE  /\ IsEntry(Draft(e)) /\ Quantity(Draft(e)) = 1 /\ Key(Draft(e)) = Key(e)
           /\ Draft(e).day = e.day /\ Draft(e).sku = e.sku /\ Draft(e).op = e.op
           /\ Draft(e).amount = e.amount
<1>1. /\ DOMAIN Draft(e) = DOMAIN e /\ Draft(e).qty = 0
      /\ \A f \in EntryFields \ {"qty"} : Draft(e)[f] = e[f]
  BY DEF IsEntry, EntryFields, Draft
<1>2. /\ Draft(e).day = e.day /\ Draft(e).sku = e.sku /\ Draft(e).op = e.op
      /\ Draft(e).amount = e.amount /\ Draft(e).row = e.row /\ Draft(e).key = e.key
  BY <1>1 DEF EntryFields
<1> HIDE DEF Draft
<1>. QED
  BY <1>1, <1>2 DEF IsEntry, Quantity, Key

LEMMA DraftsAre ==
    ASSUME NEW G, AreEntries(G), Unique(G)
    PROVE  /\ AreDrafts(Drafts(G)) /\ Drafts(G) = {Draft(e) : e \in G}
           /\ NetAmount(Drafts(G)) = NetAmount(G)
<1> DEFINE f == [e \in G |-> Draft(e)]
           v == NetOf(G)
           w == NetOf(Drafts(G))
<1>1. Drafts(G) = {Draft(e) : e \in G} /\ Drafts(G) = {f[e] : e \in G}
  BY DEF Drafts, Draft
<1>2. \A e \in G : /\ IsEntry(e) /\ IsEntry(f[e]) /\ Quantity(f[e]) = 1 /\ Key(f[e]) = Key(e)
                   /\ f[e].op = e.op /\ f[e].amount = e.amount /\ f[e] \in Drafts(G)
  BY <1>1, DraftTypes DEF AreEntries
<1>3. \A d, e \in G : f[d] = f[e] => d = e
  BY <1>2 DEF Unique
<1>4. \A e \in G : v[e] \in Int /\ w[f[e]] = v[e]
  BY <1>2 DEF NetOf, IsEntry
<1> HIDE DEF f
<1>5. Sum(w, Drafts(G)) = Sum(v, G) /\ IsFiniteSet(Drafts(G))
  <2> HIDE DEF v, w
  <2>1. IsFiniteSet(G)
    BY DEF AreEntries
  <2>2. (\A e \in G : f[e] \in Drafts(G)) /\ \A y \in Drafts(G) : \E e \in G : y = f[e]
    BY <1>1
  <2>. QED
    BY <1>3, <1>4, <2>1, <2>2, SumImage
<1>6. AreDrafts(Drafts(G))
  BY <1>1, <1>2, <1>5 DEF AreDrafts, AreEntries
<1>7. NetAmount(Drafts(G)) = Sum(w, Drafts(G)) /\ NetAmount(G) = Sum(v, G)
  BY <1>6, NetIs DEF AreDrafts
<1>. QED
  BY <1>1, <1>5, <1>6, <1>7

(* The day d was drawn from the entries G with the costs T, for the daily   *)
(* row x and for the SKU rows f.                                           *)
IsDrawn(G, x, f, T, d) ==
    /\ AreEntries(G) /\ Unique(G) /\ \A e \in G : e.day = d
    /\ x = Profit(Drafts(G), T)
    /\ \A k \in DOMAIN f : k[1] = d => k \in Keys(Drafts(G)) /\ f[k] = Profit(For(Drafts(G), k), T)
    /\ Keys(Drafts(G)) \subseteq DOMAIN f
DaysAreDrawn == \A d \in DOMAIN daily : \E T \in CostTables : IsDrawn(drawn[d], daily[d], skus, T, d)

TablesInv == econ = skus /\ DaysAreDrawn /\ IsFiniteSet(normalized) /\ IsFiniteSet(ledger)

LEMMA RedrawBuilds ==
    ASSUME Shapes, econ = skus, DaysAreDrawn, NEW L, AreEntries(L), Unique(L), NEW D, Redraw(D, L)
    PROVE  (econ = skus)' /\ DaysAreDrawn'
<1> DEFINE E == {e \in Drafts(L) : e.day \in D}
<1>1. /\ econ' = [k \in Kept(econ, D) \cup Keys(E) |->
                    IF k \in Keys(E) THEN UnitEconomics(For(E, k), costs, k[2], k[1]) ELSE econ[k]]
      /\ skus' = [k \in Kept(skus, D) \cup Keys(E) |->
                    IF k \in Keys(E) THEN Profit(For(E, k), costs) ELSE skus[k]]
      /\ daily' = [d \in (DOMAIN daily \ D) \cup Days(E) |->
                    IF d \in D THEN Profit(On(E, d), costs) ELSE daily[d]]
      /\ drawn' = [d \in (DOMAIN drawn \ D) \cup Days(E) |->
                    IF d \in D THEN On(L, d) ELSE drawn[d]]
  BY DEF Redraw
<1>2. costs \in CostTables /\ DOMAIN daily = DOMAIN drawn
  BY DEF Shapes
<1>3. /\ AreDrafts(Drafts(L)) /\ Drafts(L) = {Draft(e) : e \in L}
      /\ \A e \in L : IsEntry(e) /\ Draft(e).day = e.day /\ Draft(e).sku = e.sku
  BY DraftsAre, DraftTypes DEF AreEntries
<1>4. E \subseteq Drafts(L) /\ \A e \in E : e.day \in D
  OBVIOUS
<1>5. \A k \in Keys(E) : k[1] \in D /\ k[2] # None
  BY <1>4 DEF Keys
<1>6. Days(E) \subseteq D
  BY <1>4 DEF Days
<1>7. (econ = skus)'
  <2>1. ASSUME NEW k \in Keys(E)
        PROVE  UnitEconomics(For(E, k), costs, k[2], k[1]) = Profit(For(E, k), costs)
    <3>1. For(E, k) \in SUBSET Drafts(L) /\ \A e \in For(E, k) : e.sku = k[2] /\ e.day = k[1]
      BY DEF For
    <3>2. AreDrafts(For(E, k))
      BY <1>2, <1>3, <3>1, CostTypes, Weighed
    <3> HIDE DEF E
    <3>. QED
      BY <1>2, <1>5, <3>1, <3>2, CostTypes, EconomicsIsProfit
  <2> HIDE DEF E
  <2>2. Kept(econ, D) = Kept(skus, D)
    OBVIOUS
  <2>. QED
    BY <1>1, <2>1, <2>2
<1>8. ASSUME NEW d \in DOMAIN daily', d \in D
      PROVE  IsDrawn(drawn'[d], daily'[d], skus', costs, d)
  <2> DEFINE G == On(L, d)
  <2>1. drawn'[d] = G /\ daily'[d] = Profit(On(E, d), costs)
    <3> HIDE DEF E, G
    <3>1. d \in Days(E)
      BY <1>1, <1>8
    <3>. QED
      BY <1>1, <1>8, <3>1 DEF G
  <2>2. AreEntries(G) /\ Unique(G) /\ \A e \in G : e.day = d
    <3>1. G \subseteq L /\ \A e \in G : e.day = d
      BY DEF On
    <3>. QED
      BY <3>1, FS_Subset DEF AreEntries, Unique
  <2>3. Drafts(G) = {Draft(e) : e \in G}
    BY <2>2, DraftsAre
  <2>4. On(E, d) = Drafts(G)
    BY <1>3, <1>8, <2>3 DEF On
  <2>5. \A k : k[1] = d => For(E, k) = For(Drafts(G), k)
    BY <2>4 DEF For, On
  <2>6. ASSUME NEW k, k[1] = d PROVE k \in Keys(E) => k \in Keys(Drafts(G))
    <3>1. SUFFICES ASSUME NEW e \in E, e.sku # None, k = <<e.day, e.sku>> PROVE k \in Keys(Drafts(G))
      BY DEF Keys
    <3>2. e \in On(E, d)
      BY <2>6, <3>1 DEF On
    <3>. QED
      BY <2>4, <3>1, <3>2 DEF Keys
  <2>7. Keys(Drafts(G)) \subseteq Keys(E)
    <3>1. Drafts(G) \subseteq E
      BY <2>4 DEF On
    <3> HIDE DEF E, G
    <3>. QED
      BY <3>1 DEF Keys
  <2> HIDE DEF E, G
  <2>8. ASSUME NEW k \in DOMAIN skus', k[1] = d
        PROVE  k \in Keys(Drafts(G)) /\ skus'[k] = Profit(For(Drafts(G), k), costs)
    <3>1. k \notin Kept(skus, D)
      BY <1>8, <2>8 DEF Kept
    <3>2. k \in Keys(E) /\ skus'[k] = Profit(For(E, k), costs)
      BY <1>1, <2>8, <3>1
    <3>. QED
      BY <2>5, <2>6, <2>8, <3>2
  <2>9. Keys(Drafts(G)) \subseteq DOMAIN skus'
    BY <1>1, <2>7
  <2>. QED
    BY <2>1, <2>2, <2>4, <2>8, <2>9 DEF IsDrawn
<1>9. ASSUME NEW d \in DOMAIN daily', d \notin D
      PROVE  \E T \in CostTables : IsDrawn(drawn'[d], daily'[d], skus', T, d)
  <2> HIDE DEF E
  <2>1. d \in DOMAIN daily /\ d \in DOMAIN drawn /\ daily'[d] = daily[d] /\ drawn'[d] = drawn[d]
    BY <1>1, <1>2, <1>6, <1>9
  <2>2. PICK T \in CostTables : IsDrawn(drawn[d], daily[d], skus, T, d)
    BY <2>1 DEF DaysAreDrawn
  <2> DEFINE G == drawn[d]
             K == Keys(Drafts(G))
  <2>3. /\ AreEntries(G) /\ Unique(G) /\ \A e \in G : e.day = d
        /\ daily[d] = Profit(Drafts(G), T)
        /\ \A k \in DOMAIN skus : k[1] = d => k \in K /\ skus[k] = Profit(For(Drafts(G), k), T)
        /\ K \subseteq DOMAIN skus
    BY <2>2 DEF IsDrawn
  <2>4. \A k \in K : k[1] = d
    <3>1. \A e \in Drafts(G) : e.day = d
      BY <2>3, DraftsAre, DraftTypes DEF AreEntries
    <3>. QED
      BY <3>1 DEF Keys
  <2> HIDE DEF G, K
  <2>5. ASSUME NEW k \in DOMAIN skus', k[1] = d PROVE k \in DOMAIN skus /\ skus'[k] = skus[k]
    <3>1. k \notin Keys(E)
      BY <1>5, <1>9, <2>5
    <3>. QED
      BY <1>1, <2>5, <3>1 DEF Kept
  <2>6. K \subseteq DOMAIN skus'
    BY <1>1, <1>9, <2>3, <2>4 DEF Kept
  <2>7. IsDrawn(G, daily[d], skus', T, d)
    BY <2>3, <2>5, <2>6 DEF IsDrawn, K
  <2>. QED
    BY <2>1, <2>7 DEF G
<1>. QED
  BY <1>2, <1>7, <1>8, <1>9 DEF DaysAreDrawn

(* The stored rows and the ledger are finitely many. *)
LEMMA ByFinite ==
    ASSUME NEW E, IsFiniteSet(E), NEW n
    PROVE  IsFiniteSet(By(E, n))
<1> DEFINE f == [e \in E |-> [x \in DOMAIN e \cup {"by"} |-> IF x = "by" THEN n ELSE e[x]]]
<1>1. f \in Surjection(E, By(E, n))
  BY DEF Surjection, By
<1> HIDE DEF f
<1>. QED
  BY <1>1, FS_Surjection

LEMMA AgainFinite ==
    ASSUME rows \in Books, NEW ids \in SUBSET AllRows, IsFiniteSet(ids)
    PROVE  IsFiniteSet(EntriesAgain(ids))
<1> DEFINE Again(id) == Entries(id, Row(id), DayAgain(id))
           F == {Again(id) : id \in ids}
           f == [id \in ids |-> Again(id)]
<1>1. f \in Surjection(ids, F)
  <2> HIDE DEF Again
  <2>. QED BY DEF Surjection
<1>2. IsFiniteSet(F)
  <2> HIDE DEF f, F
  <2>. QED BY <1>1, FS_Surjection
<1>3. \A id \in ids : IsFiniteSet(Again(id))
  BY RowTypes, RowEntries
<1>4. EntriesAgain(ids) = UNION F
  BY DEF EntriesAgain
<1> HIDE DEF Again
<1>5. \A A \in F : IsFiniteSet(A)
  BY <1>3
<1> HIDE DEF F
<1>. QED
  BY <1>2, <1>4, <1>5, FS_UNION

LEMMA FiniteStep ==
    ASSUME Shapes, IsFiniteSet(normalized), IsFiniteSet(ledger), [Next]_vars
    PROVE  IsFiniteSet(normalized') /\ IsFiniteSet(ledger')
<1>0. rows \in Books /\ normalized \subseteq AllRows /\ script.seen \subseteq normalized
  BY DEF Shapes
<1>1. ASSUME NEW r \in Report, PersistChunk(r) PROVE IsFiniteSet(normalized') /\ IsFiniteSet(ledger')
  <2> DEFINE ids == ChunkAt(r)
             E == By(EntriesOf(ids), tries[r])
  <2>1. normalized' = normalized \cup ids /\ ledger' = Insert(ledger, E)
    BY <1>1 DEF PersistChunk
  <2>2. IsFiniteSet(ids)
    <3>1. ids \subseteq RowIds(r) /\ IsFiniteSet(RowIds(r))
      BY <1>0, ChunkRows, RowsFinite
    <3>. QED
      BY <3>1, FS_Subset
  <2>3. IsFiniteSet(E)
    <3>1. IsFiniteSet(EntriesOf(ids))
      BY <1>0, ChunkRows DEF AreEntries
    <3> HIDE DEF ids
    <3>. QED
      BY <3>1, ByFinite
  <2> HIDE DEF ids, E
  <2>4. Insert(ledger, E) \subseteq ledger \cup E
    BY Inserted
  <2>. QED
    BY <2>1, <2>2, <2>3, <2>4, FS_Union, FS_Subset
<1>2. ASSUME ScriptWrites PROVE IsFiniteSet(normalized') /\ IsFiniteSet(ledger')
  <2> DEFINE seen == script.seen
             E == By(EntriesAgain(seen), 0)
  <2>1. normalized' = normalized /\ ledger' = Insert({}, E)
    BY <1>2 DEF ScriptWrites
  <2>2. seen \subseteq AllRows /\ IsFiniteSet(seen)
    BY <1>0, FS_Subset
  <2> HIDE DEF seen
  <2>3. IsFiniteSet(E)
    BY <1>0, <2>2, AgainFinite, ByFinite
  <2> HIDE DEF E
  <2>4. Insert({}, E) \subseteq E
    BY Inserted
  <2>. QED
    BY <2>1, <2>3, <2>4, FS_Subset
<1>3. ASSUME NEW r \in Report, Begin(r) \/ ParseEnds(r) \/ Stop(r) \/ Persist(r)
      PROVE  normalized' = normalized /\ ledger' = ledger
  BY <1>3 DEF Begin, ParseEnds, Stop, Persist, store
<1>4. EditCosts \/ Refresh \/ ScriptReads \/ ScriptDies \/ UNCHANGED vars
        => normalized' = normalized /\ ledger' = ledger
  BY DEF EditCosts, Refresh, ScriptReads, ScriptDies, vars, store
<1>. QED
  BY <1>1, <1>2, <1>3, <1>4 DEF Next

LEMMA TablesStep ==
    ASSUME Shapes, LedgerInv, LedgerInv', TablesInv, [Next]_vars
    PROVE  TablesInv'
<1>1. IsFiniteSet(normalized') /\ IsFiniteSet(ledger')
  BY FiniteStep DEF TablesInv
<1>2. /\ AreEntries(ledger) /\ Unique(ledger) /\ AreEntries(ledger') /\ Unique(ledger')
      /\ econ = skus /\ DaysAreDrawn
  BY <1>1 DEF TablesInv, LedgerInv, EntriesAreRead, AreEntries, Unique
<1>3. ASSUME tables' = tables PROVE (econ = skus)' /\ DaysAreDrawn'
  BY <1>2, <1>3 DEF tables, DaysAreDrawn
<1>4. ASSUME UNCHANGED <<econ, skus, daily, drawn>> PROVE (econ = skus)' /\ DaysAreDrawn'
  BY <1>2, <1>4 DEF DaysAreDrawn
<1>5. ASSUME NEW r \in Report, Begin(r) \/ PersistChunk(r) \/ ParseEnds(r) \/ Stop(r)
      PROVE  (econ = skus)' /\ DaysAreDrawn'
  <2>1. tables' = tables
    BY <1>5 DEF Begin, PersistChunk, ParseEnds, Stop
  <2>. QED
    BY <1>3, <2>1
<1>6. ASSUME NEW r \in Report, Persist(r) PROVE (econ = skus)' /\ DaysAreDrawn'
  <2>1. Redraw(Days(OwnEntries(r)), ledger)
    BY <1>6 DEF Persist, DrawnFrom
  <2>. QED
    BY <1>2, <2>1, RedrawBuilds
<1>7. ASSUME Refresh PROVE (econ = skus)' /\ DaysAreDrawn'
  <2>1. Redraw(Days(ledger), ledger)
    BY <1>7 DEF Refresh
  <2>. QED
    BY <1>2, <2>1, RedrawBuilds
<1>8. ASSUME ScriptWrites PROVE (econ = skus)' /\ DaysAreDrawn'
  <2> DEFINE E == By(EntriesAgain(script.seen), 0)
  <2>1. Redraw(Days(E), ledger')
    BY <1>8 DEF ScriptWrites
  <2> HIDE DEF E
  <2>. QED
    BY <1>2, <2>1, RedrawBuilds
<1>9. EditCosts \/ ScriptReads \/ ScriptDies \/ UNCHANGED vars => tables' = tables
  BY DEF EditCosts, ScriptReads, ScriptDies, vars, tables
<1>. QED
  BY <1>1, <1>3, <1>5, <1>6, <1>7, <1>8, <1>9 DEF Next, TablesInv

(* AggregationEngine and SkuUnitEconomicsBuilder, which compute a SKU's day  *)
(* by different formulas, never disagree, and a day is the sum of its SKUs  *)
(* and of the entries without one (BuildersAgree): each day's rows were     *)
(* written by one drawing, from one set of entries with one set of costs.  *)
THEOREM BuildersStayAgreed == Spec => []BuildersAgree
<1>1. Init => TablesInv
  BY FS_EmptySet DEF Init, TablesInv, DaysAreDrawn, NoTable
<1>2. Shapes /\ TablesInv => BuildersAgree
  <2> SUFFICES ASSUME Shapes, TablesInv PROVE BuildersAgree
    OBVIOUS
  <2>1. ASSUME NEW d \in DOMAIN daily
        PROVE  LET own == {k \in DOMAIN skus : k[1] = d}
                   rest == {e \in drawn[d] : e.sku = None}
               IN  /\ daily[d].profit = MapThenSumSet(LAMBDA k : skus[k].profit, own) + NetAmount(rest)
                   /\ daily[d].units = MapThenSumSet(LAMBDA k : skus[k].units, own) + Units(Drafts(rest))
    <3> DEFINE G == drawn[d]
               F == Drafts(G)
               own == {k \in DOMAIN skus : k[1] = d}
               rest == {e \in G : e.sku = None}
    <3>1. PICK T \in CostTables : IsDrawn(G, daily[d], skus, T, d)
      BY DEF TablesInv, DaysAreDrawn
    <3>2. /\ AreEntries(G) /\ Unique(G) /\ \A e \in G : e.day = d
          /\ daily[d] = Profit(F, T)
          /\ \A k \in DOMAIN skus : k[1] = d => k \in Keys(F) /\ skus[k] = Profit(For(F, k), T)
          /\ Keys(F) \subseteq DOMAIN skus
      BY <3>1 DEF IsDrawn
    <3>3. AreDrafts(F) /\ F = {Draft(e) : e \in G} /\ \A e \in F : e.day = d
      BY <3>2, DraftsAre, DraftTypes DEF AreEntries
    <3>4. own = Keys(F)
      <4>1. \A k \in Keys(F) : k[1] = d
        BY <3>3 DEF Keys
      <4> HIDE DEF F
      <4>. QED
        BY <3>2, <4>1
    <3>5. \A k \in Keys(F) : skus[k] = Profit(For(F, k), T)
      <4> HIDE DEF F
      <4>. QED BY <3>2, <3>4
    <3>6. {e \in F : e.sku = None} = Drafts(rest) /\ NetAmount(Drafts(rest)) = NetAmount(rest)
      <4>1. AreEntries(rest) /\ Unique(rest)
        BY <3>2, FS_Subset DEF AreEntries, Unique
      <4>2. \A e \in G : Draft(e).sku = e.sku
        BY <3>2, DraftTypes DEF AreEntries
      <4>3. Drafts(rest) = {Draft(e) : e \in rest} /\ NetAmount(Drafts(rest)) = NetAmount(rest)
        <5> HIDE DEF rest
        <5>. QED BY <4>1, DraftsAre
      <4>. QED
        BY <3>3, <4>2, <4>3
    <3> HIDE DEF F, own, rest
    <3>7. /\ daily[d].profit = Sum([k \in Keys(F) |-> skus[k].profit], Keys(F)) + NetAmount(rest)
          /\ daily[d].units = Sum([k \in Keys(F) |-> skus[k].units], Keys(F)) + Units(Drafts(rest))
      <4>1. /\ Profit(F, T).profit = Sum([k \in Keys(F) |-> skus[k].profit], Keys(F))
                                       + NetAmount({e \in F : e.sku = None})
            /\ Profit(F, T).units = Sum([k \in Keys(F) |-> skus[k].units], Keys(F))
                                      + Units({e \in F : e.sku = None})
        BY <3>3, <3>5, DayIsSkus, ZenonT(60)
      <4>. QED
        BY <3>2, <3>6, <4>1
    <3>8. /\ MapThenSumSet(LAMBDA k : skus[k].profit, own) = Sum([k \in own |-> skus[k].profit], own)
          /\ MapThenSumSet(LAMBDA k : skus[k].units, own) = Sum([k \in own |-> skus[k].units], own)
      BY SkuSums
    <3>9. /\ daily[d].profit = MapThenSumSet(LAMBDA k : skus[k].profit, own) + NetAmount(rest)
          /\ daily[d].units = MapThenSumSet(LAMBDA k : skus[k].units, own) + Units(Drafts(rest))
      BY <3>4, <3>7, <3>8
    <3>. QED
      BY <3>9 DEF own, rest
  <2>. QED
    BY <2>1 DEF BuildersAgree, TablesInv
<1>. QED
  BY <1>1, <1>2, TablesStep, LedgerInvariance, PTL DEF Spec
===============================================================================
