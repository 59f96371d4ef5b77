--------------------------- MODULE SellerReadsMC ---------------------------
(***************************************************************************)
(* Instances of SellerReads: a report of two days, one of its first day    *)
(* only, the same two days uploaded again, and the day after, whose storage *)
(* fee belongs to the second day; a return, a deduction, two SKUs of which  *)
(* one is mapped, costs that begin on the second day.                       *)
(***************************************************************************)
EXTENDS SellerReads

Entry(r, n, op, amount, sku, day) ==
    [row |-> <<r, n>>, key |-> op, op |-> op, amount |-> amount, sku |-> sku, day |-> day, qty |-> 0]
Return(r, n, day, amount) == [row |-> <<r, n>>, day |-> day, amount |-> amount]

WeekOf(r, extra) == {
    Entry(r, 1, "sale", 100, "a", 1), Entry(r, 1, "payout", 80, "a", 1),
    Entry(r, 2, "sale", 50, "wb", 2), Entry(r, 2, "payout", 40 + extra, "wb", 2),
    Entry(r, 3, "logistics", -6, "a", 2)}

MCBook == [
    week  |-> [entries |-> WeekOf("week", 0), refunds |-> {Return("week", 4, 2, 9)},
               start |-> 1, end |-> 2, born |-> 2, promo |-> 3],
    again |-> [entries |-> WeekOf("again", 5), refunds |-> {},
               start |-> 1, end |-> 2, born |-> 4, promo |-> 0],
    part  |-> [entries |-> {Entry("part", 1, "sale", 100, "a", 1), Entry("part", 1, "payout", 80, "a", 1)},
               refunds |-> {}, start |-> 1, end |-> 1, born |-> 1, promo |-> 0],
    next  |-> [entries |-> {Entry("next", 1, "sale", 70, "a", 3), Entry("next", 1, "payout", 60, "a", 3),
                            Entry("next", 2, "storage_fee", -4, None, 2),
                            Entry("next", 3, "deduction", -2, None, 3)},
               refunds |-> {}, start |-> 3, end |-> 3, born |-> 3, promo |-> 1]]

MCStarts == {{"part"}, {"week", "next"}}

MCInternal == [wb |-> "own"]
Cost(sku, from, unit) == [sku |-> sku, from |-> from, unit |-> unit]
MCCostTables == {{Cost("a", 1, 10), Cost("a", 2, 12), Cost("own", 1, 5)},
                 {Cost("a", 2, 20), Cost("wb", 2, 7)}}
MCNoTokens == [x \in {} |-> {}]

Two == [from |-> 1, to |-> 2]
Three == [from |-> 1, to |-> 3]
Part(name, p) == [name |-> name, p |-> p, q |-> None]
Page(n, parts) == [cached |-> TRUE, pool |-> n, parts |-> parts]
Request(part) == [cached |-> FALSE, pool |-> 1, parts |-> {part}]

MCPages == {
    Page(2, {Part("revenue", Two), Part("finance", Two)}),
    Page(1, {Part("revenue", Two), Part("trend", Two)}),
    Page(1, {Part("coverage", Three), Part("costs", Three)}),
    Request([name |-> "compare", p |-> Two, q |-> Three]),
    Request(Part("revenue", Three)), Request(Part("reconcile", Three))}
MCSummary == {Request(Part("revenue", Two))}
=============================================================================
