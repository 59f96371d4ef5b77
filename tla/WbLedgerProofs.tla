---------------------------- MODULE WbLedgerProofs ----------------------------
(***************************************************************************)
(* What the ledger makes of a row, and what its calculators make of a set   *)
(* of entries: lemmas about WbLedger, for every module that extends it.     *)
(*                                                                         *)
(* A row means a finite set of entries that no two share a key (RowEntries); *)
(* sums over disjoint sets of entries add up (TotalJoin, SumsJoin); what is *)
(* expected to be paid is the net amount (ExpectedIsNet); and the unit      *)
(* economics of a SKU are its profit (EconomicsIsProfit).                   *)
(***************************************************************************)
EXTENDS WbLedger, FoldLemmas

(***************************************************************************)
(* What a row becomes.                                                     *)
(***************************************************************************)
IsRow(r) == \A c \in DOMAIN r.cells : r.cells[c] \in Int

LEMMA NamesFinite == IsFiniteSet(Ops \cup Sources)
<1> DEFINE names == <<"sale", "commission", "logistics", "storage_fee", "penalty", "acquiring",
                      "deduction", "payout", "advertisement", "return", "compensation",
                      "pic", "loyalty", "voluntary", "legacy">>
           f == [i \in 1..15 |-> names[i]]
<1>1. f \in Surjection(1..15, Ops \cup Sources)
  <2>1. ASSUME NEW i \in 1..15 PROVE f[i] \in Ops \cup Sources
    BY DEF Ops, Sources
  <2>2. ASSUME NEW x \in Ops \cup Sources PROVE \E i \in 1..15 : f[i] = x
    <3>1. /\ f[1] = "sale" /\ f[2] = "commission" /\ f[3] = "logistics" /\ f[4] = "storage_fee"
          /\ f[5] = "penalty" /\ f[6] = "acquiring" /\ f[7] = "deduction" /\ f[8] = "payout"
          /\ f[9] = "advertisement" /\ f[10] = "return" /\ f[11] = "compensation" /\ f[12] = "pic"
          /\ f[13] = "loyalty" /\ f[14] = "voluntary" /\ f[15] = "legacy"
      OBVIOUS
    <3> HIDE DEF f
    <3>. QED
      BY <3>1 DEF Ops, Sources
  <2> HIDE DEF names
  <2>. QED
    BY <2>1, <2>2 DEF Surjection
<1> HIDE DEF f
<1>2. IsFiniteSet(1..15)
  <2>1. 1 \in Int /\ 15 \in Int
    OBVIOUS
  <2>. QED
    BY <2>1, FS_Interval
<1>. QED
  BY <1>1, <1>2, FS_Surjection

LEMMA CellTypes ==
    ASSUME NEW r, IsRow(r), NEW c
    PROVE  Cell(r, c) \in Int /\ Magnitude(r, c) \in Nat
BY DEF IsRow, Cell, Has, Magnitude

LEMMA AmountTypes ==
    ASSUME NEW r, IsRow(r), NEW op
    PROVE  /\ Amount(r, op) \in Int /\ Amount(r, "sale") \in Nat
           /\ op \notin {"sale", "payout"} => Amount(r, op) <= 0
<1>1. Returned(r) \in Nat
  <2>1. PICK basis : basis = Best(<<"return_wb", "wb_realized_amount", "retail_amount">>, DOMAIN r.cells)
    OBVIOUS
  <2>2. Returned(r) = IF basis = None THEN 0 ELSE Magnitude(r, basis)
    BY <2>1 DEF Returned
  <2>. QED
    BY <2>2, CellTypes
<1>2. \A c : Cell(r, c) \in Int /\ Magnitude(r, c) \in Nat
  BY CellTypes
<1>. QED
  BY <1>1, <1>2 DEF Amount

(* A row is compensated at most once from one source. *)
LEMMA CompensationTypes ==
    ASSUME NEW r, IsRow(r), NEW kind
    PROVE  /\ \A c \in Compensations(r, kind) : c[1] \in Sources /\ c[2] \in Int
           /\ \A c, d \in Compensations(r, kind) : c[1] = d[1] => c = d
<1> DEFINE P(source, column) == IF Has(r, column) THEN {<<source, Magnitude(r, column)>>} ELSE {}
<1>1. \A c : Magnitude(r, c) \in Int
  BY CellTypes
<1>2. \/ Compensations(r, kind) = P("pic", "payment_integration_compensation")
                                    \cup P("loyalty", "loyalty_compensation")
      \/ Compensations(r, kind) = P("loyalty", "loyalty_compensation")
      \/ Compensations(r, kind) = P("voluntary", "voluntary_compensation")
      \/ Compensations(r, kind) = {<<"voluntary", Magnitude(r, "payout")>>}
      \/ Compensations(r, kind) = P("legacy", "compensation")
      \/ Compensations(r, kind) = {}
  BY DEF Compensations
<1>. QED
  BY <1>1, <1>2 DEF Sources

LEMMA RowEntries ==
    ASSUME NEW id, NEW r, IsRow(r), NEW day
    PROVE  /\ \A e \in Entries(id, r, day) : IsEntry(e) /\ e.row = id /\ e.day = day
           /\ \A e, f \in Entries(id, r, day) : e.key = f.key => e = f
           /\ IsFiniteSet(Entries(id, r, day))
<1> DEFINE kind == Classify(r.label)
           typed == {op \in OpsOf(kind) : Amount(r, op) # 0}
           Entry(key, op, amount, qty) ==
              [row |-> id, key |-> key, op |-> op, amount |-> amount,
               sku |-> r.sku, day |-> day, qty |-> qty]
           Typed(op) == Entry(op, op, Amount(r, op), IF op = "sale" THEN SaleQuantity(r) ELSE 0)
           Compensated(c) == Entry(c[1], "compensation", c[2], 0)
           all == Entries(id, r, day)
<1>1. all = {Typed(op) : op \in typed} \cup {Compensated(c) : c \in Compensations(r, kind)}
  BY DEF Entries
<1>2. typed \subseteq Ops \ {"compensation"} /\ \A op \in typed : Amount(r, op) # 0 /\ Amount(r, op) \in Int
  <2>1. OpsOf(kind) \subseteq Ops \ {"compensation"}
    BY DEF OpsOf, Ops
  <2>2. \A op \in typed : op \in OpsOf(kind) /\ Amount(r, op) # 0
    OBVIOUS
  <2> HIDE DEF typed, kind
  <2>. QED
    BY <2>1, <2>2, AmountTypes
<1>3. /\ \A c \in Compensations(r, kind) : c[1] \in Sources /\ c[2] \in Int
      /\ \A c, d \in Compensations(r, kind) : c[1] = d[1] => c = d
  BY CompensationTypes
<1> HIDE DEF typed, kind, all
<1>4. ASSUME NEW op \in typed
      PROVE  IsEntry(Typed(op)) /\ Typed(op).row = id /\ Typed(op).day = day /\ Typed(op).key = op
  <2>1. /\ op = "sale" => Amount(r, op) > 0
        /\ op \notin {"sale", "payout"} => Amount(r, op) <= 0
    BY <1>2, AmountTypes
  <2>. QED
    BY <1>2, <2>1 DEF IsEntry, EntryFields
<1>5. ASSUME NEW c \in Compensations(r, kind)
      PROVE  /\ IsEntry(Compensated(c)) /\ Compensated(c).row = id /\ Compensated(c).day = day
             /\ Compensated(c).key = c[1]
  BY <1>3 DEF IsEntry, EntryFields, Ops
<1>6. \A e \in all : IsEntry(e) /\ e.row = id /\ e.day = day
  <2> HIDE DEF Typed, Compensated
  <2>. QED
    BY <1>1, <1>4, <1>5
<1>7. ASSUME NEW e \in all, NEW f \in all, e.key = f.key PROVE e = f
  <2> HIDE DEF Typed, Compensated
  <2>1. \A op \in typed : op \notin Sources
    BY <1>2 DEF Ops, Sources
  <2>. QED
    BY <1>1, <1>3, <1>4, <1>5, <1>7, <2>1
<1>8. IsFiniteSet(all)
  <2> DEFINE g == [e \in all |-> e.key]
  <2>1. g \in Injection(all, Ops \cup Sources)
    BY <1>6, <1>7 DEF Injection, IsInjective, IsEntry
  <2>2. IsFiniteSet(Ops \cup Sources)
    BY NamesFinite
  <2>. QED
    BY <2>1, <2>2, FS_Injection
<1>. QED
  BY <1>6, <1>7, <1>8 DEF all

(***************************************************************************)
(* Sums over entries.                                                      *)
(***************************************************************************)
AmountsIn(E) == [e \in E |-> e.amount]

LEMMA AmountsSum ==
    ASSUME NEW S
    PROVE  MapThenSumSet(LAMBDA e : e.amount, S) = Sum(AmountsIn(S), S)
<1> DEFINE w == AmountsIn(S)
           A(g) == [s \in SUBSET S |-> IF s = {} THEN 0
                      ELSE (CHOOSE x \in s : TRUE).amount + g[s \ {CHOOSE x \in s : TRUE}]]
           B(g) == [s \in SUBSET S |-> IF s = {} THEN 0
                      ELSE w[CHOOSE x \in s : TRUE] + g[s \ {CHOOSE x \in s : TRUE}]]
<1>1. ASSUME NEW g PROVE A(g) = B(g)
  BY DEF AmountsIn
<1>2. MapThenSumSet(LAMBDA e : e.amount, S) = (CHOOSE g : g = A(g))[S]
  BY DEF MapThenSumSet, MapThenFoldSet
<1>3. Sum(w, S) = (CHOOSE g : g = B(g))[S]
  BY DEF Sum, MapThenSumSet, MapThenFoldSet
<1>4. (CHOOSE g : g = A(g)) = (CHOOSE g : g = B(g))
  <2> HIDE DEF A, B
  <2>. QED BY <1>1
<1>. QED
  BY <1>2, <1>3, <1>4

LEMMA TotalIs ==
    ASSUME NEW E, AreEntries(E), NEW ops
    PROVE  /\ Total(E, ops) = Sum(AmountsIn(E), {e \in E : e.op \in ops})
           /\ Total(E, ops) \in Int
<1> DEFINE S == {e \in E : e.op \in ops}
<1>1. IsFiniteSet(S) /\ \A e \in S : AmountsIn(E)[e] \in Int /\ AmountsIn(S)[e] = AmountsIn(E)[e]
  <2>1. IsFiniteSet(S)
    BY FS_Subset DEF AreEntries
  <2>. QED
    BY <2>1 DEF AreEntries, IsEntry, AmountsIn
<1>2. Total(E, ops) = Sum(AmountsIn(S), S)
  BY AmountsSum DEF Total
<1> HIDE DEF S
<1>3. Sum(AmountsIn(S), S) = Sum(AmountsIn(E), S) /\ Sum(AmountsIn(E), S) \in Int
  BY <1>1, SumSame, SumType
<1>. QED
  BY <1>2, <1>3 DEF S

LEMMA TotalOfOps ==
    ASSUME NEW E, AreEntries(E), NEW A, NEW B, A \cap B = {}
    PROVE  Total(E, A \cup B) = Total(E, A) + Total(E, B)
<1> DEFINE S(ops) == {e \in E : e.op \in ops}
<1>1. S(A \cup B) = S(A) \cup S(B) /\ S(A) \cap S(B) = {}
  OBVIOUS
<1>2. IsFiniteSet(S(A)) /\ IsFiniteSet(S(B))
  BY FS_Subset DEF AreEntries
<1>3. \A x \in S(A) \cup S(B) : AmountsIn(E)[x] \in Int
  BY DEF AreEntries, IsEntry, AmountsIn
<1>4. \A ops : Total(E, ops) = Sum(AmountsIn(E), S(ops))
  BY TotalIs
<1> HIDE DEF S
<1>5. Sum(AmountsIn(E), S(A) \cup S(B)) = Sum(AmountsIn(E), S(A)) + Sum(AmountsIn(E), S(B))
  BY <1>1, <1>2, <1>3, SumSplit
<1>. QED
  BY <1>1, <1>4, <1>5

LEMMA EntriesJoin ==
    ASSUME NEW E, AreEntries(E), NEW F, AreEntries(F)
    PROVE  AreEntries(E \cup F)
BY FS_Union DEF AreEntries

LEMMA TotalJoin ==
    ASSUME NEW E, AreEntries(E), NEW F, AreEntries(F), E \cap F = {}, NEW ops
    PROVE  Total(E \cup F, ops) = Total(E, ops) + Total(F, ops)
<1> DEFINE S(X) == {e \in X : e.op \in ops}
           W == AmountsIn(E \cup F)
<1>1. S(E \cup F) = S(E) \cup S(F) /\ S(E) \cap S(F) = {}
  OBVIOUS
<1>2. IsFiniteSet(S(E)) /\ IsFiniteSet(S(F))
  BY FS_Subset DEF AreEntries
<1>3. \A x \in S(E) \cup S(F) : W[x] \in Int
  BY DEF AreEntries, IsEntry, AmountsIn
<1>4. /\ \A x \in S(E) : AmountsIn(E)[x] \in Int /\ W[x] = AmountsIn(E)[x]
      /\ \A x \in S(F) : AmountsIn(F)[x] \in Int /\ W[x] = AmountsIn(F)[x]
  BY DEF AreEntries, IsEntry, AmountsIn
<1>5. /\ Total(E \cup F, ops) = Sum(W, S(E \cup F))
      /\ Total(E, ops) = Sum(AmountsIn(E), S(E)) /\ Total(F, ops) = Sum(AmountsIn(F), S(F))
  BY EntriesJoin, TotalIs
<1> HIDE DEF S, W
<1>6. Sum(W, S(E) \cup S(F)) = Sum(W, S(E)) + Sum(W, S(F))
  BY <1>1, <1>2, <1>3, SumSplit
<1>7. Sum(W, S(E)) = Sum(AmountsIn(E), S(E)) /\ Sum(W, S(F)) = Sum(AmountsIn(F), S(F))
  BY <1>2, <1>4, SumSame
<1>. QED
  BY <1>1, <1>5, <1>6, <1>7

LEMMA SumsTypes ==
    ASSUME NEW E, AreEntries(E)
    PROVE  Sums(E) \in Summed
<1>1. \A ops : Total(E, ops) \in Int
  BY TotalIs
<1>. QED
  BY <1>1 DEF Sums, Summed

LEMMA SumsJoin ==
    ASSUME NEW E, AreEntries(E), NEW F, AreEntries(F), E \cap F = {}
    PROVE  Sums(E \cup F) = [f \in DOMAIN Sums(E) |-> Sums(E)[f] + Sums(F)[f]]
<1>1. ASSUME NEW ops
      PROVE  /\ Total(E \cup F, ops) = Total(E, ops) + Total(F, ops)
             /\ -Total(E \cup F, ops) = -Total(E, ops) + (-Total(F, ops))
  <2>1. Total(E \cup F, ops) = Total(E, ops) + Total(F, ops)
    BY TotalJoin
  <2>2. Total(E, ops) \in Int /\ Total(F, ops) \in Int
    BY TotalIs
  <2>. QED
    BY <2>1, <2>2
<1>3. Sums(E \cup F) \in Summed /\ Sums(E) \in Summed /\ Sums(F) \in Summed
  BY EntriesJoin, SumsTypes
<1>4. \A f \in DOMAIN Sums(E) : Sums(E \cup F)[f] = Sums(E)[f] + Sums(F)[f]
  BY <1>1 DEF Sums
<1>. QED
  BY <1>3, <1>4 DEF Summed

(* What a reconciliation expects is what the aggregation calls net amount,   *)
(* but for the compensation it leaves out.                                 *)
LEMMA ExpectedIsNet ==
    ASSUME NEW E, AreEntries(E), NEW c \in Int
    PROVE  /\ Reconciled(Sums(E), c).sums = Sums(E)
           /\ Reconciled(Sums(E), c).expected = NetAmount(E) - Total(E, {"compensation"}) + c
           /\ Reconciled(Sums(E), c) \in Reconciliation /\ NetAmount(E) \in Int
<1>1. \A ops : Total(E, ops) \in Int
  BY TotalIs
<1> DEFINE O1 == {"sale"} \cup {"commission"}
           O2 == O1 \cup {"logistics"}
           O3 == O2 \cup Charges
           O4 == O3 \cup {"return"}
           O5 == O4 \cup {"compensation"}
<1>2. Total(E, O1) = Total(E, {"sale"}) + Total(E, {"commission"})
  BY TotalOfOps
<1>3. Total(E, O2) = Total(E, O1) + Total(E, {"logistics"})
  BY TotalOfOps
<1>4. Total(E, O3) = Total(E, O2) + Total(E, Charges)
  <2>1. O2 \cap Charges = {}
    BY DEF Charges
  <2>. QED
    BY <2>1, TotalOfOps
<1>5. Total(E, O4) = Total(E, O3) + Total(E, {"return"})
  <2>1. O3 \cap {"return"} = {}
    BY DEF Charges
  <2>. QED
    BY <2>1, TotalOfOps
<1>6. Total(E, O5) = Total(E, O4) + Total(E, {"compensation"})
  <2>1. O4 \cap {"compensation"} = {}
    BY DEF Charges
  <2>. QED
    BY <2>1, TotalOfOps
<1>7. Ops \ {"payout"} = O5
  BY DEF Ops, Charges
<1>8. NetAmount(E) = Total(E, O5)
  BY <1>7 DEF NetAmount
<1> HIDE DEF O1, O2, O3, O4, O5
<1>9. Reconciled(Sums(E), c).expected = NetAmount(E) - Total(E, {"compensation"}) + c
  BY <1>1, <1>2, <1>3, <1>4, <1>5, <1>6, <1>8 DEF Reconciled, Sums
<1>10. Reconciled(Sums(E), c) \in Reconciliation
  <2>1. Sums(E) \in Summed
    BY SumsTypes
  <2>. QED
    BY <2>1 DEF Reconciled, Reconciliation, Summed
<1>. QED
  BY <1>1, <1>8, <1>9, <1>10 DEF Reconciled

LEMMA MergeTypes ==
    ASSUME NEW E, AreEntries(E), NEW a \in Reconciliation
    PROVE  /\ Calculate(E) \in Reconciliation /\ Calculate(E).sums = Sums(E)
           /\ Merge(a, Calculate(E)) \in Reconciliation
           /\ Merge(a, Calculate(E)) = Reconciled([f \in DOMAIN a.sums |-> a.sums[f] + Sums(E)[f]], 0)
<1>1. Total(E, {"compensation"}) \in Int
  BY TotalIs
<1>2. Calculate(E) \in Reconciliation /\ Calculate(E).sums = Sums(E)
  BY <1>1, ExpectedIsNet DEF Calculate
<1>3. Sums(E) \in Summed /\ a.sums \in Summed
  BY SumsTypes DEF Reconciliation
<1> DEFINE s == [f \in DOMAIN a.sums |-> a.sums[f] + Sums(E)[f]]
<1>4. s \in Summed
  BY <1>3 DEF Summed
<1>5. Merge(a, Calculate(E)) = Reconciled(s, 0)
  BY <1>2 DEF Merge
<1> HIDE DEF s
<1>6. Reconciled(s, 0) \in Reconciliation
  BY <1>4 DEF Reconciled, Reconciliation, Summed
<1>. QED
  BY <1>2, <1>5, <1>6 DEF s

(* A row moves stock at most once. *)
LEMMA RowMoves ==
    ASSUME NEW id, NEW r, NEW day
    PROVE  /\ \A m \in Movements(id, r, day) : {"row", "key", "delta"} \subseteq DOMAIN m /\ m.row = id
           /\ \A m, n \in Movements(id, r, day) : m = n
<1>1. PICK op : op = StockOperation(r)
  OBVIOUS
<1>2. \/ Movements(id, r, day) = {}
      \/ Movements(id, r, day) =
           {[row |-> id, key |-> op, sku |-> r.sku, day |-> day, delta |-> StockDelta(r, op)]}
  BY <1>1 DEF Movements
<1>. QED
  BY <1>2

(***************************************************************************)
(* Profits.                                                                *)
(***************************************************************************)
(* Sums of quantities and of costs of goods are sums of functions.         *)
Pieces(E) == [e \in E |-> Quantity(e)]
GoodsCost(E, T) == [e \in E |-> UnitCost(T, e.sku, e.day) * Quantity(e)]

LEMMA PiecesSum ==
    ASSUME NEW S
    PROVE  MapThenSumSet(Quantity, S) = Sum(Pieces(S), S)
<1> DEFINE w == Pieces(S)
           A(g) == [s \in SUBSET S |-> IF s = {} THEN 0
                      ELSE Quantity(CHOOSE x \in s : TRUE) + g[s \ {CHOOSE x \in s : TRUE}]]
           B(g) == [s \in SUBSET S |-> IF s = {} THEN 0
                      ELSE w[CHOOSE x \in s : TRUE] + g[s \ {CHOOSE x \in s : TRUE}]]
<1>1. ASSUME NEW g PROVE A(g) = B(g)
  BY DEF Pieces
<1>2. MapThenSumSet(Quantity, S) = (CHOOSE g : g = A(g))[S]
  BY DEF MapThenSumSet, MapThenFoldSet
<1>3. Sum(w, S) = (CHOOSE g : g = B(g))[S]
  BY DEF Sum, MapThenSumSet, MapThenFoldSet
<1>4. (CHOOSE g : g = A(g)) = (CHOOSE g : g = B(g))
  <2> HIDE DEF A, B
  <2>. QED BY <1>1
<1>. QED
  BY <1>2, <1>3, <1>4

LEMMA GoodsSum ==
    ASSUME NEW S, NEW T
    PROVE  MapThenSumSet(LAMBDA e : UnitCost(T, e.sku, e.day) * Quantity(e), S) = Sum(GoodsCost(S, T), S)
<1> DEFINE w == GoodsCost(S, T)
           V(e) == UnitCost(T, e.sku, e.day) * Quantity(e)
           A(g) == [s \in SUBSET S |-> IF s = {} THEN 0
                      ELSE V(CHOOSE x \in s : TRUE) + g[s \ {CHOOSE x \in s : TRUE}]]
           B(g) == [s \in SUBSET S |-> IF s = {} THEN 0
                      ELSE w[CHOOSE x \in s : TRUE] + g[s \ {CHOOSE x \in s : TRUE}]]
<1>1. ASSUME NEW g PROVE A(g) = B(g)
  <2>1. \A e \in S : w[e] = V(e)
    BY DEF GoodsCost
  <2> HIDE DEF V, w
  <2>. QED BY <2>1
<1>2. MapThenSumSet(LAMBDA e : UnitCost(T, e.sku, e.day) * Quantity(e), S) = (CHOOSE g : g = A(g))[S]
  BY DEF MapThenSumSet, MapThenFoldSet
<1>3. Sum(w, S) = (CHOOSE g : g = B(g))[S]
  BY DEF Sum, MapThenSumSet, MapThenFoldSet
<1>4. (CHOOSE g : g = A(g)) = (CHOOSE g : g = B(g))
  <2> HIDE DEF A, B
  <2>. QED BY <1>1
<1>. QED
  BY <1>2, <1>3, <1>4

(* The cost of a SKU on a day is a number: of the costs known by then one   *)
(* is the latest.                                                          *)
LEMMA UnitCostTypes ==
    ASSUME NEW T, IsCosts(T), NEW sku, NEW day
    PROVE  UnitCost(T, sku, day) \in Int
<1> DEFINE known == {c \in History(T, sku) : c.from <= day}
<1>1. known \subseteq T
  BY DEF History
<1>2. IsFiniteSet(T) /\ \A c \in T : c.from \in Int /\ c.unit \in Int
  BY DEF IsCosts
<1>3. UnitCost(T, sku, day) =
        IF known = {} THEN 0 ELSE (CHOOSE c \in known : \A d \in known : d.from <= c.from).unit
  BY DEF UnitCost
<1> HIDE DEF known
<1>4. ASSUME known # {} PROVE \E c \in known : \A d \in known : d.from <= c.from
  <2> DEFINE n == [c \in known |-> c.from]
  <2>1. IsFiniteSet(known) /\ \A c \in known : n[c] \in Int /\ n[c] = c.from
    BY <1>1, <1>2, FS_Subset
  <2> HIDE DEF n
  <2>2. \E c \in known : \A d \in known : n[d] <= n[c]
    BY <1>4, <2>1, LargestExists
  <2>. QED
    BY <2>1, <2>2
<1>5. ASSUME known # {} PROVE (CHOOSE c \in known : \A d \in known : d.from <= c.from) \in known
  BY <1>4, <1>5
<1>. QED
  BY <1>1, <1>2, <1>3, <1>5

(* What an entry adds to the net amount, the costs of goods and the units of *)
(* a set it is in.                                                         *)
NetOf(F) == [e \in F |-> IF e.op # "payout" THEN e.amount ELSE 0]
GoodsOf(F, T) == [e \in F |-> IF e.op = "sale" /\ e.sku # None
                              THEN UnitCost(T, e.sku, e.day) * Quantity(e) ELSE 0]
UnitsOf(F) == [e \in F |-> IF e.op = "sale" THEN Quantity(e) ELSE 0]

LEMMA NetIs ==
    ASSUME NEW F, AreEntries(F), NEW E \in SUBSET F
    PROVE  NetAmount(E) = Sum(NetOf(F), E)
<1> DEFINE S == {e \in E : e.op \in Ops \ {"payout"}}
<1>1. AreEntries(E) /\ IsFiniteSet(E)
  BY FS_Subset DEF AreEntries
<1>2. NetAmount(E) = Sum(AmountsIn(E), S)
  BY <1>1, TotalIs DEF NetAmount
<1>3. /\ S \in SUBSET E /\ \A e \in S : AmountsIn(E)[e] \in Int
      /\ \A e \in E : NetOf(F)[e] = IF e \in S THEN AmountsIn(E)[e] ELSE 0
  BY <1>1 DEF AreEntries, IsEntry, AmountsIn, NetOf
<1> HIDE DEF S
<1>. QED
  BY <1>1, <1>2, <1>3, SumWithin

LEMMA Weighed ==
    ASSUME NEW F, AreDrafts(F), NEW T, IsCosts(T), NEW E \in SUBSET F
    PROVE  /\ AreDrafts(E)
           /\ \A e \in F : NetOf(F)[e] \in Int /\ GoodsOf(F, T)[e] \in Int /\ UnitsOf(F)[e] \in Int
           /\ NetAmount(E) = Sum(NetOf(F), E)
           /\ Cogs(E, T) = Sum(GoodsOf(F, T), E)
           /\ Units(E) = Sum(UnitsOf(F), E)
<1>0. /\ AreDrafts(E) /\ AreEntries(E) /\ IsFiniteSet(E)
      /\ \A e \in F : IsEntry(e) /\ Quantity(e) = 1 /\ UnitCost(T, e.sku, e.day) \in Int
  BY FS_Subset, UnitCostTypes DEF AreDrafts, AreEntries
<1>1. ASSUME NEW e \in F
      PROVE  NetOf(F)[e] \in Int /\ GoodsOf(F, T)[e] \in Int /\ UnitsOf(F)[e] \in Int
  <2>1. UnitCost(T, e.sku, e.day) * 1 \in Int /\ e.amount \in Int
    BY <1>0 DEF IsEntry
  <2>. QED
    BY <1>0, <2>1 DEF NetOf, GoodsOf, UnitsOf
<1>2. NetAmount(E) = Sum(NetOf(F), E)
  <2>1. AreEntries(F)
    BY DEF AreDrafts
  <2>. QED
    BY <2>1, NetIs
<1>3. Cogs(E, T) = Sum(GoodsOf(F, T), E)
  <2> DEFINE S == {e \in E : e.op = "sale" /\ e.sku # None}
  <2>1. Cogs(E, T) = Sum(GoodsCost(S, T), S)
    BY GoodsSum DEF Cogs
  <2>2. /\ S \in SUBSET E /\ \A e \in S : GoodsCost(S, T)[e] = GoodsOf(F, T)[e]
        /\ \A e \in E \ S : GoodsOf(F, T)[e] = 0
    BY DEF GoodsCost, GoodsOf
  <2> HIDE DEF S
  <2>3. \A e \in S : GoodsCost(S, T)[e] \in Int
    BY <1>1, <2>2
  <2>4. \A e \in E : GoodsOf(F, T)[e] = IF e \in S THEN GoodsCost(S, T)[e] ELSE 0
    BY <2>2
  <2>. QED
    BY <1>0, <2>1, <2>2, <2>3, <2>4, SumWithin
<1>4. Units(E) = Sum(UnitsOf(F), E)
  <2> DEFINE S == Sold(E)
  <2>1. Units(E) = Sum(Pieces(S), S)
    BY PiecesSum DEF Units
  <2>2. /\ S \in SUBSET E /\ \A e \in S : Pieces(S)[e] \in Int
        /\ \A e \in E : UnitsOf(F)[e] = IF e \in S THEN Pieces(S)[e] ELSE 0
    BY <1>0 DEF IsEntry, Sold, Pieces, UnitsOf
  <2> HIDE DEF S
  <2>. QED
    BY <1>0, <2>1, <2>2, SumWithin
<1>. QED
  BY <1>0, <1>1, <1>2, <1>3, <1>4

(* SkuUnitEconomicsBuilder and AggregationEngine agree on a day's SKU.       *)
LEMMA EconomicsIsProfit ==
    ASSUME NEW E, AreDrafts(E), NEW T, IsCosts(T), NEW sku, NEW day, sku # None,
           \A e \in E : e.sku = sku /\ e.day = day
    PROVE  UnitEconomics(E, T, sku, day) = Profit(E, T)
<1> DEFINE c == UnitCost(T, sku, day)
           s == Sums(E)
           comp == Total(E, {"compensation"})
           net == NetAmount(E)
           units == Units(E)
<1>1. c \in Int /\ AreEntries(E) /\ comp \in Int
  BY UnitCostTypes, TotalIs DEF AreDrafts
<1>2. Cogs(E, T) = c * units /\ units \in Int
  <2>1. /\ Cogs(E, T) = Sum(GoodsOf(E, T), E) /\ units = Sum(UnitsOf(E), E)
        /\ \A e \in E : UnitsOf(E)[e] \in Int
    BY Weighed
  <2>2. \A e \in E : GoodsOf(E, T)[e] = c * UnitsOf(E)[e]
    <3>1. ASSUME NEW e \in E PROVE GoodsOf(E, T)[e] = c * UnitsOf(E)[e]
      <4>1. UnitCost(T, e.sku, e.day) = c /\ e.sku # None /\ c * 0 = 0
        BY <1>1
      <4> HIDE DEF c
      <4>. QED
        BY <4>1 DEF GoodsOf, UnitsOf
    <3>. QED
      BY <3>1
  <2>3. IsFiniteSet(E)
    BY <1>1 DEF AreEntries
  <2> HIDE DEF c, units
  <2>. QED
    BY <1>1, <2>1, <2>2, <2>3, SumScale, SumType, ZenonT(60)
<1>3. s \in Summed
  BY <1>1, SumsTypes
<1>4. Reconciled(s, comp).expected = net - comp + comp /\ net \in Int
  BY <1>1, ExpectedIsNet
<1>5. Reconciled(s, comp).expected = s.gross - s.commissions - s.logistics - s.deductions - s.returns + comp
  BY DEF Reconciled
<1>6. UnitEconomics(E, T, sku, day) =
        [revenue |-> s.gross, units |-> units,
         profit |-> (s.gross - s.returns + comp) - s.commissions - s.logistics - s.deductions - c * units]
  BY DEF UnitEconomics
<1>7. Profit(E, T) = [revenue |-> Total(E, {"sale"}), profit |-> net - Cogs(E, T), units |-> units]
  BY DEF Profit
<1>8. s.gross = Total(E, {"sale"})
  BY DEF Sums
<1> HIDE DEF c, s, comp, net, units
<1>9. (s.gross - s.returns + comp) - s.commissions - s.logistics - s.deductions - c * units
        = net - c * units
  <2>1. /\ s.gross \in Int /\ s.returns \in Int /\ s.commissions \in Int /\ s.logistics \in Int
        /\ s.deductions \in Int
    BY <1>3 DEF Summed
  <2>2. (s.gross - s.returns + comp) - s.commissions - s.logistics - s.deductions = net
    BY <1>1, <1>4, <1>5, <2>1
  <2>. QED
    BY <2>2
<1>. QED
  BY <1>2, <1>6, <1>7, <1>8, <1>9

=============================================================================
