--------------------------- MODULE ReportLedgerMC ---------------------------
(***************************************************************************)
(* Instances of ReportLedger: an earlier report and a new one of a tenant, *)
(* whose rows between them are of every kind the ledger builder tells      *)
(* apart, share days and SKUs, lack a SKU or a date, or hold a date that    *)
(* reads differently when its stored text is parsed again.                 *)
(***************************************************************************)
EXTENDS ReportLedger

(* The Russian labels of Wildberries, in English, with the alias tables     *)
(* that match them: "Vozmeshchenie za vydachu i vozvrat tovarov na PVZ" has *)
(* tokens of the PVZ table and of the returns, and so on.                  *)
MCFinanceTokens == [
    Sale        |-> {"sale"},
    Return      |-> {"return"},
    Logistics   |-> {"logistics"},
    Storage     |-> {"storage"},
    Deduction   |-> {"deduction"},
    Fine        |-> {},
    PvzRefund   |-> {"pvz", "return"},
    CostRefund  |-> {"reimbursement"},
    Voluntary   |-> {"voluntary", "return", "compensation"},
    Loyalty     |-> {"loyalty", "compensation"},
    Damage      |-> {"compensation"}]

MCStockTokens == [
    Sale        |-> {"sale"},
    Return      |-> {"return"},
    Logistics   |-> {},
    Storage     |-> {},
    Deduction   |-> {},
    Fine        |-> {},
    PvzRefund   |-> {"return", "compensation"},
    CostRefund  |-> {"compensation"},
    Voluntary   |-> {"return", "compensation"},
    Loyalty     |-> {"compensation"},
    Damage      |-> {"compensation"}]

MCInternal == [wb |-> "own"]

R(label, sku, day, again, cells) ==
    [label |-> label, sku |-> sku, day |-> day, again |-> again, cells |-> cells]
A(label, day, cells) == R(label, "a", day, day, cells)

SaleRow(day) == A("Sale", day, [retail_amount |-> 100, commission |-> 10, payout |-> 80, acquiring |-> 2,
                                quantity |-> 3, payment_integration_compensation |-> 4])
PlainSale(sku, day, again) == R("Sale", sku, day, again, [retail_amount |-> 40, payout |-> 30])
ReturnRow == A("Return", 1, [retail_amount |-> 50, wb_realized_amount |-> 45, commission |-> -4,
                             payout |-> -40, quantity |-> 1])
ReturnOfZero == A("Return", 2, [return_wb |-> 0, retail_amount |-> 50, quantity |-> 1])
LogisticsRow == A("Logistics", 2, [logistics |-> 0, logistics_raw |-> 5])
StorageRow == R("Storage", None, 2, 2, [storage_fee |-> 7])
DeductionRow == R("Deduction", None, 1, 1, [deduction |-> 6, penalty |-> 1, advertisement |-> 2])
FineRow == A("Fine", 1, [penalty |-> 3, retail_amount |-> 9])
PvzRow == A("PvzRefund", 1, [compensation |-> 8, payout |-> 5, quantity |-> 1])
CostRefundRow == A("CostRefund", 1, [compensation |-> 8, quantity |-> 0])
VoluntaryRow == A("Voluntary", 1, [payout |-> -9])
VoluntaryZero == A("Voluntary", 1, [payout |-> -9, voluntary_compensation |-> 0, quantity |-> 2])
LoyaltyRow == A("Loyalty", 2, [loyalty_compensation |-> 5, quantity |-> 1])
DamageRow == A("Damage", 2, [compensation |-> 4, quantity |-> -1])

MCBooks == {
    [old |-> <<SaleRow(1)>>, new |-> <<SaleRow(2), ReturnRow, LogisticsRow>>],
    [old |-> <<PlainSale("wb", 1, 1)>>, new |-> <<VoluntaryRow, StorageRow, SaleRow(1)>>],
    [old |-> <<ReturnOfZero, DeductionRow>>, new |-> <<PvzRow, CostRefundRow, LoyaltyRow>>],
    [old |-> <<PlainSale("wb", None, None)>>, new |-> <<PlainSale("a", None, None), FineRow, DamageRow>>],
    [old |-> <<PlainSale("a", 1, 2)>>, new |-> <<PlainSale(None, 2, 2), VoluntaryZero, SaleRow(1)>>]}

Cost(sku, from, unit) == [sku |-> sku, from |-> from, unit |-> unit]
MCCostTables == {{}, {Cost("a", 1, 10), Cost("a", 2, 12), Cost("own", 2, 7), Cost("wb", 1, 1)}}
MCCreatedOn == [old |-> 1, new |-> 2]
=============================================================================
