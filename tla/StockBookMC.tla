------------------------------ MODULE StockBookMC ------------------------------
(* An instance of StockBook: SKU 1 in two warehouses, one of them unnamed, and *)
(* rows without a SKU; SKU 2 with two cards in one warehouse.                  *)
EXTENDS StockBook

Move(report, row, sku, nm, wh, day, kind, qty) ==
    [report |-> report, row |-> row, sku |-> sku, nm |-> nm, wh |-> wh,
     day |-> day, kind |-> kind, qty |-> qty]

MCMoves ==
    {Move("early", 1, 1, 1, 1, 10, "inbound", 5),   Move("early", 2, 1, 1, Null, 10, "return", 2),
     Move("early", 3, Null, Null, 1, 10, "inbound", 3), Move("early", 4, 2, 1, 1, 10, "inbound", 9),
     Move("early", 5, 1, 1, 1, 40, "sale", -2),
     Move("mid", 1, 1, 1, 1, 40, "adjustment", -1), Move("mid", 2, Null, Null, 1, 40, "loss", -1),
     Move("mid", 3, 2, 1, 1, 71, "transfer", -4),
     Move("late", 1, 1, 1, Null, 71, "sale", -1),   Move("late", 2, 1, 1, 1, 100, "compensation", 2),
     Move("late", 3, Null, Null, 1, 100, "sale", -1),
     Move("recarded", 1, 2, 2, 1, 40, "inbound", 6), Move("recarded", 2, 2, 1, 1, 100, "writeoff", -1)}

MCPeriods == {<<0, 100>>, <<10, 71>>, <<35, 90>>, <<41, 69>>}
==============================================================================
