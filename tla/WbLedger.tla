------------------------------ MODULE WbLedger ------------------------------
(***************************************************************************)
(* What one row of a Wildberries report means, and the calculators over    *)
(* the entries it becomes: LedgerBuilder and InventoryMovementBuilder,     *)
(* ReconciliationCalculator, AggregationEngine, SkuUnitEconomicsBuilder.   *)
(* Pure functions; ReportLedger composes them into the job that runs them. *)
(*                                                                         *)
(* A row is [label, sku, day, again, cells].  cells maps the columns that  *)
(* hold a number to it: a column outside its domain is empty, which the    *)
(* code tells from 0.  day is the date the streaming parser reads, again   *)
(* the one the rehydrating parser reads from the stored text; either may   *)
(* be None.  A label stands for the alias tables it has a token of.        *)
(* Amounts are integers; the quotients (margin, roi, rates) are left out.  *)
(***************************************************************************)
EXTENDS Integers, Sequences, FiniteSetsExt

CONSTANTS
    FinanceTokens,  \* label -> kinds of wb_row_semantics with a token in it
    StockTokens,    \* label -> types of operation_semantics matching it
    Internal,       \* marketplace_sku -> internal_sku, where one is mapped
    None

Ops == {"sale", "commission", "logistics", "storage_fee", "penalty", "acquiring",
        "deduction", "payout", "advertisement", "return", "compensation"}

Best(priority, found) ==
    LET hits == {n \in DOMAIN priority : priority[n] \in found}
    IN  IF hits = {} THEN None ELSE priority[Min(hits)]

(* classify_wb_finance_row: the first alias table with a token in the label. *)
Classify(label) ==
    LET kind == Best(<<"pvz", "reimbursement", "voluntary", "loyalty", "return", "sale",
                       "logistics", "storage", "deduction", "compensation">>,
                     FinanceTokens[label])
    IN  IF kind = None THEN "other" ELSE kind

Has(r, c) == c \in DOMAIN r.cells
Cell(r, c) == IF Has(r, c) THEN r.cells[c] ELSE 0
Magnitude(r, c) == IF Cell(r, c) < 0 THEN -Cell(r, c) ELSE Cell(r, c)

(***************************************************************************)
(* LedgerBuilder.                                                          *)
(***************************************************************************)
(* allows_*: the typed amounts a row of this kind may carry. *)
OpsOf(kind) ==
    {"acquiring", "advertisement"} \cup
    CASE kind = "sale"      -> {"sale", "commission", "payout"}
      [] kind = "return"    -> {"commission", "return"}
      [] kind = "logistics" -> {"logistics"}
      [] kind = "storage"   -> {"storage_fee"}
      [] kind = "deduction" -> {"penalty", "deduction"}
      [] kind = "other"     -> {"penalty"}
      [] OTHER              -> {}

(* _resolve_wb_return: the first of the columns that is not empty, be it 0. *)
Returned(r) ==
    LET basis == Best(<<"return_wb", "wb_realized_amount", "retail_amount">>, DOMAIN r.cells)
    IN  IF basis = None THEN 0 ELSE Magnitude(r, basis)

(* Revenue positive, charges negative, payout as it stands; a logistics     *)
(* charge may sit in a column the column map did not choose.               *)
Amount(r, op) ==
    CASE op = "sale"      -> Magnitude(r, "retail_amount")
      [] op = "payout"    -> Cell(r, "payout")
      [] op = "return"    -> -Returned(r)
      [] op = "logistics" -> -(IF Cell(r, "logistics") # 0 THEN Magnitude(r, "logistics")
                               ELSE Magnitude(r, "logistics_raw"))
      [] OTHER            -> -Magnitude(r, op)

(* _compensation_entry_specs: <<source, amount>>; an amount of 0 is kept. *)
Compensations(r, kind) ==
    LET Present(source, column) ==
            IF Has(r, column) THEN {<<source, Magnitude(r, column)>>} ELSE {}
    IN  CASE kind = "sale" ->
               Present("pic", "payment_integration_compensation")
                   \cup Present("loyalty", "loyalty_compensation")
          [] kind = "loyalty" -> Present("loyalty", "loyalty_compensation")
          [] kind = "voluntary" ->
               IF Has(r, "voluntary_compensation") THEN Present("voluntary", "voluntary_compensation")
               ELSE IF Cell(r, "payout") # 0 THEN Present("voluntary", "payout") ELSE {}
          [] kind = "compensation" -> Present("legacy", "compensation")
          [] OTHER -> {}

SaleQuantity(r) == IF Cell(r, "quantity") > 0 THEN Cell(r, "quantity") ELSE 1

(* _entries_for_row.  source_row_id is row-<index>:<operation>, or           *)
(* row-<index>:compensation:<source>; only sales carry a quantity.         *)
Entries(id, r, day) ==
    LET kind == Classify(r.label)
        typed == {op \in OpsOf(kind) : Amount(r, op) # 0}
        Entry(key, op, amount, qty) ==
            [row |-> id, key |-> key, op |-> op, amount |-> amount,
             sku |-> r.sku, day |-> day, qty |-> qty]
    IN  {Entry(op, op, Amount(r, op), IF op = "sale" THEN SaleQuantity(r) ELSE 0) : op \in typed}
        \cup {Entry(c[1], "compensation", c[2], 0) : c \in Compensations(r, kind)}

(* What every entry is: one amount of one row; revenue is above 0, and a      *)
(* charge never is.                                                        *)
EntryFields == {"row", "key", "op", "amount", "sku", "day", "qty"}
Sources == {"pic", "loyalty", "voluntary", "legacy"}
IsEntry(e) ==
    /\ EntryFields \subseteq DOMAIN e
    /\ e.op \in Ops /\ e.key \in Ops \cup Sources /\ e.amount \in Int
    /\ e.op = "sale" => e.amount > 0
    /\ e.op \notin {"sale", "payout", "compensation"} => e.amount <= 0
AreEntries(E) == IsFiniteSet(E) /\ \A e \in E : IsEntry(e)

(***************************************************************************)
(* InventoryMovementBuilder: at most one movement a row.                   *)
(***************************************************************************)
(* resolve_operation_type, or else _infer_from_amounts. *)
StockOperation(r) ==
    LET found == Best(<<"sale", "return", "logistics_loss", "warehouse_loss", "defect", "writeoff",
                        "compensation", "inbound", "transfer", "inventory_adjustment">>,
                      StockTokens[r.label])
    IN  CASE found # None -> found
          [] found = None /\ Cell(r, "return_amount") # 0 -> "return"
          [] found = None /\ Cell(r, "return_amount") = 0 /\ Cell(r, "retail_amount") # 0 -> "sale"
          [] found = None /\ Cell(r, "return_amount") = 0 /\ Cell(r, "retail_amount") = 0
                          /\ Cell(r, "compensation") # 0 -> "compensation"
          [] OTHER -> None

(* _resolve_quantity: the sign follows the operation. *)
StockDelta(r, op) ==
    LET n == Magnitude(r, "quantity")
    IN  CASE ~Has(r, "quantity") ->
               IF op = "sale" /\ Cell(r, "retail_amount") # 0 THEN -1
               ELSE IF op = "return" /\ Cell(r, "return_amount") # 0 THEN 1 ELSE 0
          [] op \in {"transfer", "inventory_adjustment"} /\ Has(r, "quantity") -> Cell(r, "quantity")
          [] op \in {"inbound", "return", "compensation"} /\ Has(r, "quantity") -> n
          [] OTHER -> -n

Movements(id, r, day) ==
    LET op == StockOperation(r)
    IN  IF op = None \/ StockDelta(r, op) = 0 THEN {}
        ELSE {[row |-> id, key |-> op, sku |-> r.sku, day |-> day, delta |-> StockDelta(r, op)]}

(***************************************************************************)
(* The calculators, over sets of entries.                                  *)
(***************************************************************************)
Total(E, ops) == MapThenSumSet(LAMBDA e : e.amount, {e \in E : e.op \in ops})
Charges == {"deduction", "penalty", "storage_fee", "acquiring", "advertisement"}

(* What ReconciliationCalculator.calculate sums up ... *)
Sums(E) == [gross |-> Total(E, {"sale"}), commissions |-> -Total(E, {"commission"}),
            logistics |-> -Total(E, {"logistics"}), deductions |-> -Total(E, Charges),
            returns |-> -Total(E, {"return"}), payout |-> Total(E, {"payout"})]
(* ... and what follows from it: net_revenue is expected_payout. *)
Reconciled(s, compensation) ==
    LET expected == s.gross - s.commissions - s.logistics - s.deductions - s.returns + compensation
    IN  [sums |-> s, expected |-> expected, difference |-> s.payout - expected]
Summed == [{"gross", "commissions", "logistics", "deductions", "returns", "payout"} -> Int]
Reconciliation == [sums : Summed, expected : Int, difference : Int]
Calculate(E) == Reconciled(Sums(E), Total(E, {"compensation"}))

(* _merge_reconciliation: the partial results do not hold the compensation. *)
Merge(a, b) == Reconciled([f \in DOMAIN a.sums |-> a.sums[f] + b.sums[f]], 0)

(* resolve_cost_snapshots over build_cost_lookup: a mapped SKU takes the      *)
(* internal SKU's history where there is one.                              *)
History(costs, sku) ==
    LET Of(s) == {c \in costs : c.sku = s}
    IN  IF sku \in DOMAIN Internal /\ Of(Internal[sku]) # {} THEN Of(Internal[sku]) ELSE Of(sku)

(* cost_history, as the statements that need it ask. *)
IsCosts(T) == IsFiniteSet(T) /\ \A c \in T : c.from \in Int /\ c.unit \in Int

(* unit_cost_on_date; a cost that is not known counts 0. *)
UnitCost(costs, sku, day) ==
    LET known == {c \in History(costs, sku) : c.from <= day}
    IN  IF known = {} THEN 0
        ELSE (CHOOSE c \in known : \A d \in known : d.from <= c.from).unit

Quantity(e) == IF e.qty > 0 THEN e.qty ELSE 1
(* Drafts: entries read without their quantities, each of which counts one. *)
AreDrafts(F) == AreEntries(F) /\ \A e \in F : Quantity(e) = 1
Sold(E) == {e \in E : e.op = "sale" /\ e.amount > 0}
Units(E) == MapThenSumSet(Quantity, Sold(E))

(* AggregationEngine.build: a row of a day, or of a day's SKU. *)
NetAmount(E) == Total(E, Ops \ {"payout"})
Cogs(E, costs) ==
    MapThenSumSet(LAMBDA e : UnitCost(costs, e.sku, e.day) * Quantity(e),
                  {e \in E : e.op = "sale" /\ e.sku # None})
Profit(E, costs) == [revenue |-> Total(E, {"sale"}), profit |-> NetAmount(E) - Cogs(E, costs),
                     units |-> Units(E)]

(* SkuUnitEconomicsBuilder._compute_row; its sums are Sums' by operation.  *)
UnitEconomics(E, costs, sku, day) ==
    LET s == Sums(E)
        gross == s.gross - s.returns + Total(E, {"compensation"})
    IN  [revenue |-> s.gross, units |-> Units(E),
         profit |-> gross - s.commissions - s.logistics - s.deductions
                          - UnitCost(costs, sku, day) * Units(E)]
=============================================================================
