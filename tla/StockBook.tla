------------------------------ MODULE StockBook ------------------------------
(***************************************************************************)
(* The stock of one tenant, with its numbers: the ledger of movements of     *)
(* several SKUs, cards (nm_id) and warehouses, the snapshots both rebuilds   *)
(* derive from it, the check that replays the ledger against them, and the   *)
(* pages that read the snapshots.                                            *)
(*                                                                         *)
(* InventorySnapshot and RebuildDispatch look at one key and at who rebuilds *)
(* when; here a load and its rebuild are one step, and the keys matter.      *)
(* Names are numbers, in the order the database sorts them, Null first; the  *)
(* snapshots store the empty name instead.  No parser marks an opening       *)
(* balance, so its validation is left out.                                   *)
(***************************************************************************)
EXTENDS Integers, FiniteSets, FiniteSetsExt

CONSTANTS
    Report,         \* reports that can be loaded
    Moves,          \* the movements they hold, see IsMove
    Periods,        \* <<first day, last day>> a page can be asked for
    MaxActs         \* bound: loads, deletions and rebuilds

Null == 0
Empty == -1
Kinds == {"inbound", "compensation", "sale", "return", "loss", "writeoff", "transfer", "adjustment"}
IsMove(m) ==
    /\ m.report \in Report /\ m.row \in Nat /\ m.day \in Nat
    /\ m.sku \in Nat /\ m.nm \in Nat /\ m.wh \in Nat
    /\ m.kind \in Kinds /\ m.qty \in Int

ASSUME StockBookAssumption ==
    /\ IsFiniteSet(Moves) /\ \A m \in Moves : IsMove(m)
    /\ \A m, n \in Moves : m.report = n.report /\ m.row = n.row => m = n
    /\ \A p \in Periods : p[1] \in Nat /\ p[2] \in Nat
    /\ MaxActs \in Nat

VARIABLES
    loaded,     \* per report the act that loaded it (created_at), 0 if it is not in the ledger
    table,      \* rows of warehouse_stock_snapshots
    owed,       \* a deletion's rebuild is still required
    gone,       \* reports deleted since the last rebuild from the ledger alone
    acts
stockVars == <<loaded, table, owed, gone, acts>>

Of(reports) == {m \in Moves : m.report \in reports}
Days(moves) == {m.day : m \in moves}
Key(m) == <<m.sku, m.nm, m.wh>>
Stored(name) == IF name = Null THEN Empty ELSE name

-------------------------------------------------------------------------------
(***************************************************************************)
(* What a movement does to the stock.                                       *)
(***************************************************************************)
Buckets == {"inbound", "sold", "returned", "lost", "writeoff", "adjustment"}
Abs(n) == IF n < 0 THEN -n ELSE n

Bucket(m) ==
    CASE m.kind \in {"inbound", "compensation"}      -> "inbound"
      [] m.kind = "sale"                             -> "sold"
      [] m.kind = "return"                           -> "returned"
      [] m.kind = "loss"                             -> "lost"
      [] m.kind = "writeoff"                         -> "writeoff"
      [] m.kind = "transfer"                         -> IF m.qty > 0 THEN "inbound" ELSE "sold"
      [] OTHER                                       -> "adjustment"
Units(m) == IF Bucket(m) = "adjustment" THEN m.qty ELSE Abs(m.qty)
Delta(m) == IF Bucket(m) \in {"sold", "lost", "writeoff"} THEN -Units(m) ELSE Units(m)

Stock(moves) == MapThenSumSet(Delta, moves)

(* _classify_day *)
DayUnits(moves, day) ==
    [b \in Buckets |-> MapThenSumSet(Units, {m \in moves : m.day = day /\ Bucket(m) = b})]

(* _rebuild_key: the rows of one group of movements, from its opening stock. *)
Draft(moves, opening, day) ==
    LET any == CHOOSE m \in moves : TRUE  at == {m \in moves : m.day <= day} IN
    [day |-> day, sku |-> any.sku, nm |-> any.nm, wh |-> any.wh,
     open |-> opening + Stock({m \in at : m.day < day}),
     units |-> DayUnits(moves, day), stock |-> opening + Stock(at)]

Row(draft) == [draft EXCEPT !.sku = Stored(@), !.wh = Stored(@)]
Place(row) == <<row.day, row.sku, row.wh>>      \* the unique constraint

-------------------------------------------------------------------------------
(***************************************************************************)
(* The stream of the ledger, in groups.  Time is what `loaded` holds.       *)
(***************************************************************************)
Ledger(time) == {m \in Moves : time[m.report] > 0}

(* ORDER BY sku, warehouse, day, created_at, row: not by nm_id. *)
Position(m, time) == <<m.sku, m.wh, m.day, time[m.report], m.row>>
Ahead(m, n, time) ==
    \E i \in 1 .. 5 : /\ Position(m, time)[i] < Position(n, time)[i]
                     /\ \A j \in 1 .. i - 1 : Position(m, time)[j] = Position(n, time)[j]

Between(x, m, n, time) == Ahead(m, x, time) /\ Ahead(x, n, time)

(* The groups stream_grouped_by_key yields: a movement and those of its key   *)
(* no movement of another key is between.                                     *)
Group(m, moves, time) ==
    {n \in moves : /\ Key(n) = Key(m)
                   /\ \A x \in moves :
                        Between(x, m, n, time) \/ Between(x, n, m, time) => Key(x) = Key(m)}
Groups(moves, time) == {Group(m, moves, time) : m \in moves}

(* Group h begins after group g. *)
Follows(h, g, time) == \E m \in g : \A n \in h : Ahead(m, n, time)

(* The rows of a set of groups with their opening stocks. *)
Drafts(groups, opening, from) ==
    UNION {{[group |-> g, row |-> Row(Draft(g, opening[g], day))] :
              day \in {d \in Days(g) : d >= from}} : g \in groups}
ReplayOf(groups) == Drafts(groups, [g \in groups |-> 0], 0)

(* upsert_snapshots: the last draft of a place stays. *)
Written(drafts, time) ==
    {x.row : x \in {x \in drafts : \A y \in drafts :
        Place(y.row) = Place(x.row) => ~ Follows(y.group, x.group, time)}}

-------------------------------------------------------------------------------
(***************************************************************************)
(* The two rebuilds.                                                        *)
(***************************************************************************)
(* load_carry_forward_openings: the last row of a key before the window. *)
Carried(rows, key, from) ==
    {r \in rows : /\ <<r.sku, r.nm, r.wh>> = key /\ r.day < from
                  /\ \A q \in rows : <<q.sku, q.nm, q.wh>> = key /\ q.day < from => q.day <= r.day}

(* Mutated: a key that is not carried forward opens with what its window holds. *)
KeptInWindow(moves, rows, from) == {m \in moves : m.day >= from}

(* row_kept_by_variant_b *)
Kept(moves, rows, from) ==
    {m \in moves : m.day >= from \/ Carried(rows, Key(m), from) = {}}

(* InventorySnapshotRebuildService.rebuild: the window reaches over every     *)
(* snapshot and every day of the ledger from its first day on.                *)
Incremental(time, rows, from) ==
    LET kept == {r \in rows : r.day < from}
        groups == Groups(Kept(Ledger(time), kept, from), time)
        opening == [g \in groups |->
            LET carried == Carried(kept, Key(CHOOSE m \in g : TRUE), from)
            IN  IF carried = {} THEN 0 ELSE (CHOOSE r \in carried : TRUE).stock]
    IN  IF Ledger(time) = {} THEN rows
        ELSE kept \cup Written(Drafts(groups, opening, from), time)

(* FullInventoryRebuildService.rebuild; two rows of a place are more than the *)
(* constraint lets promote_staging_to_live insert, and the rebuild fails.     *)
FullDrafts(time) == ReplayOf(Groups(Ledger(time), time))
Promotes(time) == \A x, y \in FullDrafts(time) : Place(x.row) = Place(y.row) => x = y

-------------------------------------------------------------------------------
StockInit ==
    loaded = [r \in Report |-> 0] /\ table = {} /\ owed = FALSE /\ gone = {} /\ acts = 0

Act == acts < MaxActs /\ acts' = acts + 1

(* A report is loaded, and its completing transaction rebuilds from its first *)
(* day; one without movements rebuilds from the ledger's first day.           *)
Load(r) ==
    LET moves == IF Of({r}) = {} THEN Ledger(loaded) ELSE Of({r}) IN
    /\ Act /\ loaded[r] = 0
    /\ loaded' = [loaded EXCEPT ![r] = acts + 1]
    /\ table' = IF moves = {} THEN table ELSE Incremental(loaded', table, Min(Days(moves)))
    /\ UNCHANGED <<owed, gone>>

(* delete_report requests a rebuild; the snapshots stay as they are. *)
Delete(r) ==
    /\ Act /\ loaded[r] > 0
    /\ loaded' = [loaded EXCEPT ![r] = 0]
    /\ owed' = TRUE /\ gone' = gone \cup {r}
    /\ UNCHANGED table

(* RebuildDispatcherService, in either mode; an empty ledger leaves the table *)
(* as it is.                                                                  *)
DispatchIncremental ==
    /\ Act /\ owed
    /\ table' = IF Ledger(loaded) = {} THEN table
              ELSE Incremental(loaded, table, Min(Days(Ledger(loaded))))
    /\ owed' = FALSE
    /\ UNCHANGED <<loaded, gone>>

DispatchFull ==
    /\ Act /\ owed /\ Promotes(loaded)
    /\ IF Ledger(loaded) = {} THEN UNCHANGED <<table, gone>>
       ELSE table' = Written(FullDrafts(loaded), loaded) /\ gone' = {}
    /\ owed' = FALSE
    /\ UNCHANGED loaded

StockNext == (\E r \in Report : Load(r) \/ Delete(r)) \/ DispatchIncremental \/ DispatchFull

StockSpec == StockInit /\ [][StockNext]_stockVars

-------------------------------------------------------------------------------
(***************************************************************************)
(* verify_full: the ledger replayed card by card, compared row by row.       *)
(***************************************************************************)
Fingerprint(row) == <<row.open, row.units, row.stock>>

(* The card whose movements begin last of the cards of a day. *)
Replayed(time) ==
    Written(ReplayOf({{n \in Ledger(time) : Key(n) = Key(m)} : m \in Ledger(time)}), time)

Compared(rows, place) == {Fingerprint(r) : r \in {q \in rows : Place(q) = place}}

(* Mutated: only what the replay finds is compared. *)
DriftedOfReplay(time, rows) ==
    {p \in {Place(r) : r \in Replayed(time)} : Compared(rows, p) # Compared(Replayed(time), p)}

Drifted(time, rows) ==
    {p \in {Place(r) : r \in rows \cup Replayed(time)} :
        Compared(rows, p) # Compared(Replayed(time), p)}

-------------------------------------------------------------------------------
(***************************************************************************)
(* The pages.  A period is <<first, last>>.  What stock is worth is CostBook's. *)
(***************************************************************************)
SlowDays == 30
DeadDays == 60

Within(rows, p) == {r \in rows : p[1] <= r.day /\ r.day <= p[2]}

(* _latest_snapshot_date *)
Latest(rows, p) == Max({-1} \cup {r.day : r \in {q \in rows : q.day <= p[2]}})
OnLatest(rows, p) == {r \in rows : r.day = Latest(rows, p)}
StockOf(rows, sku) == MapThenSumSet(LAMBDA r : r.stock, {r \in rows : r.sku = sku})
SoldOf(rows, sku) == MapThenSumSet(LAMBDA r : r.units["sold"], {r \in rows : r.sku = sku})

LastSale(rows, sku, p) ==
    Max({-1} \cup {r.day : r \in {q \in Within(rows, p) : q.sku = sku /\ q.units["sold"] > 0}})

(* days_since, with the first day of the period for want of a sale. *)
DaysSince(rows, sku, p) ==
    Latest(rows, p) - (IF LastSale(rows, sku, p) = -1 THEN p[1] ELSE LastSale(rows, sku, p))

Stocked(rows, p) ==
    {s \in {r.sku : r \in OnLatest(rows, p)} : StockOf(OnLatest(rows, p), s) > 0}

(* Mutated: a day more than asked for. *)
IdleLonger(rows, p, days) == {s \in Stocked(rows, p) : DaysSince(rows, s, p) > days}

(* inventory_slow_movers and inventory_dead_stock. *)
IdleFor(rows, p, days) == {s \in Stocked(rows, p) : DaysSince(rows, s, p) >= days}

(* stock_risk_label; idle is -1 if not known. *)
RiskLabel(stock, sold, days, idle) ==
    LET short == stock > 0 /\ sold > 0 /\ (stock <= 1 \/ stock <= sold \div days)
    IN  CASE short                                   -> "stockout"
          [] ~short /\ stock > 0 /\ idle >= SlowDays -> "overstock"
          [] OTHER                                   -> "ok"

Length(p) == p[2] - p[1] + 1

(* inventory_economics: a SKU never sold in the period has no idle days. *)
Risk(rows, sku, p, idle) ==
    RiskLabel(StockOf(OnLatest(rows, p), sku), SoldOf(Within(rows, p), sku), Length(p), idle)
Overstocked(rows, p) ==
    {s \in {r.sku : r \in OnLatest(rows, p)} :
        LET last == LastSale(rows, s, p)
        IN  Risk(rows, s, p, IF last = -1 THEN -1 ELSE Latest(rows, p) - last) = "overstock"}

(* build_inventory_intelligence: nothing without a row in the period. *)
Intelligence(rows, p) ==
    LET stocked == IF Within(rows, p) = {} THEN {} ELSE Stocked(rows, p)
        idle(s) == DaysSince(rows, s, p)
    IN  [dead   |-> {s \in stocked : idle(s) >= DeadDays},
         slow   |-> {s \in stocked : idle(s) \in SlowDays .. DeadDays - 1},
         over   |-> {s \in stocked : Risk(rows, s, p, idle(s)) = "overstock"}]

(* sku_drilldown: the stock of a SKU on its days, over all warehouses. *)
Drilldown(rows, sku, p) ==
    [d \in {r.day : r \in {q \in Within(rows, p) : q.sku = sku}} |->
        StockOf({r \in rows : r.day = d}, sku)]

-------------------------------------------------------------------------------
(* A shelf is a SKU in a warehouse, under the names the snapshots store. *)
Shelf(r) == <<r.sku, r.wh>>
ShelfOf(m) == <<Stored(m.sku), Stored(m.wh)>>
OneCard(shelf) == \A m, n \in Ledger(loaded) : ShelfOf(m) = shelf /\ ShelfOf(n) = shelf => m.nm = n.nm

(* The snapshots the ledger alone stands for, key by key. *)
Truth == {Row(Draft({m \in Ledger(loaded) : Key(m) = Key(n)}, 0, n.day)) : n \in Ledger(loaded)}

(* Whatever was loaded and deleted and rebuilt in between, in either mode, a  *)
(* shelf that no deleted report touched has the snapshots of a replay of the  *)
(* ledger from its first movement -- if the SKU has one card there.           *)
ShelvesAreReplayed ==
    LET Clean(rows) == {r \in rows : OneCard(Shelf(r)) /\ Shelf(r) \notin {ShelfOf(m) : m \in Of(gone)}}
    IN  Clean(table) = Clean(Truth)

(* If the verification finds no drift, every snapshot of such a shelf is the  *)
(* sum of its movements to its day, and every day of movements has one.       *)
DriftIsSeen ==
    Drifted(loaded, table) = {} =>
      \A p \in {<<r.day, Shelf(r)>> : r \in table} \cup {<<m.day, ShelfOf(m)>> : m \in Ledger(loaded)} :
        LET own == {m \in Ledger(loaded) : ShelfOf(m) = p[2] /\ m.day <= p[1]} IN
          OneCard(p[2]) =>
            /\ {r.stock : r \in {q \in table : <<q.day, Shelf(q)>> = p}} = {Stock(own)}
            /\ p[1] \in Days(own)

(* The page of slow movers, the page of dead stock, the signals the advice is *)
(* built from and the page of inventory economics name the same SKUs idle --  *)
(* the last one only of those sold within the period.                         *)
PagesAgree ==
    \A p \in Periods :
      LET i == Intelligence(table, p)
          sold == {s \in Stocked(table, p) : LastSale(table, s, p) # -1} IN
        /\ IdleFor(table, p, SlowDays) = i.slow \cup i.dead
        /\ IdleFor(table, p, DeadDays) = i.dead
        /\ Overstocked(table, p) = i.over \cap sold
        /\ \A s \in i.dead : Latest(table, p) \in DOMAIN Drilldown(table, s, p)
=============================================================================
