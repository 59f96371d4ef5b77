------------------------- MODULE QueueAndStockProofs -------------------------
(* Proofs about StockBook, for every ledger of movements, and about EtlQueue, *)
(* for every set of jobs, workers and operators.                             *)
EXTENDS EtlQueue, StockBook, FoldLemmas

-------------------------------------------------------------------------------
(* The stock of a tenant.                                                    *)

(***************************************************************************)
(* The stock of movements.                                                 *)
(***************************************************************************)
Deltas == [m \in Moves |-> Delta(m)]

LEMMA StockSum ==
    ASSUME NEW S \in SUBSET Moves
    PROVE  Stock(S) = Sum(Deltas, S)
<1> DEFINE A(g) == [s \in SUBSET S |-> IF s = {} THEN 0
                      ELSE Delta(CHOOSE x \in s : TRUE) + g[s \ {CHOOSE x \in s : TRUE}]]
           B(g) == [s \in SUBSET S |-> IF s = {} THEN 0
                      ELSE Deltas[CHOOSE x \in s : TRUE] + g[s \ {CHOOSE x \in s : TRUE}]]
<1>1. ASSUME NEW g PROVE A(g) = B(g)
  BY DEF Deltas
<1>2. Stock(S) = (CHOOSE g : g = A(g))[S]
  BY DEF Stock, MapThenSumSet, MapThenFoldSet
<1>3. Sum(Deltas, S) = (CHOOSE g : g = B(g))[S]
  BY DEF Sum, MapThenSumSet, MapThenFoldSet
<1>4. (CHOOSE g : g = A(g)) = (CHOOSE g : g = B(g))
  <2> HIDE DEF A, B
  <2>. QED BY <1>1
<1>. QED
  BY <1>2, <1>3, <1>4

LEMMA DeltaType == \A m \in Moves : Delta(m) \in Int
BY StockBookAssumption DEF StockBookAssumption, IsMove, Delta, Units, Abs, Bucket

(* The stock of two lots without a common movement is the sum of theirs.    *)
LEMMA StockSplit ==
    ASSUME NEW A \in SUBSET Moves, NEW B \in SUBSET Moves, A \cap B = {}
    PROVE  /\ Stock(A) \in Int /\ Stock(B) \in Int
           /\ Stock(A \cup B) = Stock(A) + Stock(B)
<1>1. IsFiniteSet(A) /\ IsFiniteSet(B)
  BY StockBookAssumption, FS_Subset DEF StockBookAssumption
<1>2. \A m \in A \cup B : Deltas[m] \in Int
  BY DeltaType DEF Deltas
<1>3. Sum(Deltas, A) \in Int /\ Sum(Deltas, B) \in Int
  BY <1>1, <1>2, SumType
<1>4. Sum(Deltas, A \cup B) = Sum(Deltas, A) + Sum(Deltas, B)
  BY <1>1, <1>2, SumSplit
<1>5. Stock(A) = Sum(Deltas, A) /\ Stock(B) = Sum(Deltas, B)
  BY StockSum
<1>6. Stock(A \cup B) = Sum(Deltas, A \cup B)
  <2>1. A \cup B \in SUBSET Moves
    OBVIOUS
  <2>. QED
    BY <2>1, StockSum
<1>. QED
  BY <1>3, <1>4, <1>5, <1>6

(***************************************************************************)
(* Rows.                                                                   *)
(***************************************************************************)
RowOf(n, g, o, d) ==
    [day |-> d, sku |-> Stored(n.sku), nm |-> n.nm, wh |-> Stored(n.wh),
     open |-> o + Stock({m \in g : m.day < d}), units |-> DayUnits(g, d),
     stock |-> o + Stock({m \in g : m.day <= d})]

IsGroup(g) == g \in SUBSET Moves /\ g # {} /\ \A m, n \in g : Key(m) = Key(n)

LEMMA MoveTypes ==
    ASSUME NEW m \in Moves
    PROVE  /\ m.report \in Report /\ m.row \in Nat /\ m.day \in Nat
           /\ m.sku \in Nat /\ m.nm \in Nat /\ m.wh \in Nat
BY StockBookAssumption DEF StockBookAssumption, IsMove

LEMMA DraftIs ==
    ASSUME NEW g, IsGroup(g), NEW n \in g, NEW o, NEW d \in Nat
    PROVE  Row(Draft(g, o, d)) = RowOf(n, g, o, d)
<1> DEFINE a == CHOOSE m \in g : TRUE
<1>1. a \in g
  OBVIOUS
<1>2. a.sku = n.sku /\ a.nm = n.nm /\ a.wh = n.wh
  BY <1>1 DEF IsGroup, Key
<1>3. {m \in {m \in g : m.day <= d} : m.day < d} = {m \in g : m.day < d}
  <2>1. \A m \in g : m.day \in Nat
    BY MoveTypes DEF IsGroup
  <2>. QED
    BY <2>1
<1>4. Draft(g, o, d) =
        [day |-> d, sku |-> n.sku, nm |-> n.nm, wh |-> n.wh,
         open |-> o + Stock({m \in g : m.day < d}), units |-> DayUnits(g, d),
         stock |-> o + Stock({m \in g : m.day <= d})]
  <2> HIDE DEF a
  <2>. QED
    BY <1>2, <1>3 DEF Draft, a
<1> DEFINE o1 == o + Stock({m \in g : m.day < d})
           s1 == o + Stock({m \in g : m.day <= d})
           u1 == DayUnits(g, d)
<1>5. Draft(g, o, d) = [day |-> d, sku |-> n.sku, nm |-> n.nm, wh |-> n.wh,
                        open |-> o1, units |-> u1, stock |-> s1]
  BY <1>4
<1>6. RowOf(n, g, o, d) = [day |-> d, sku |-> Stored(n.sku), nm |-> n.nm, wh |-> Stored(n.wh),
                           open |-> o1, units |-> u1, stock |-> s1]
  BY DEF RowOf
<1> DEFINE D == Draft(g, o, d)
           E == [D EXCEPT !.sku = Stored(n.sku)]
<1> HIDE DEF o1, s1, u1
<1>7. D.sku = n.sku /\ D.wh = n.wh
  BY <1>5
<1>8. Row(D) = [E EXCEPT !.wh = Stored(n.wh)]
  <2> HIDE DEF D
  <2>. QED
    BY <1>7 DEF Row
<1>9. E = [day |-> d, sku |-> Stored(n.sku), nm |-> n.nm, wh |-> n.wh,
           open |-> o1, units |-> u1, stock |-> s1]
  BY <1>5
<1>10. [E EXCEPT !.wh = Stored(n.wh)] =
         [day |-> d, sku |-> Stored(n.sku), nm |-> n.nm, wh |-> Stored(n.wh),
          open |-> o1, units |-> u1, stock |-> s1]
  <2> HIDE DEF E
  <2>. QED
    BY <1>9
<1>. QED
  BY <1>6, <1>8, <1>10

LEMMA StoredNames ==
    \A i \in Nat : /\ Stored(i) \in Int /\ Stored(i) # Null
                   /\ \A j \in Nat : Stored(i) = Stored(j) <=> i = j
                   /\ i # Null => Stored(i) = i
BY DEF Stored, Null, Empty

(* Movements of one shelf have one SKU and one warehouse.                  *)
LEMMA ShelfNames ==
    ASSUME NEW m \in Moves, NEW n \in Moves
    PROVE  ShelfOf(m) = ShelfOf(n) <=> m.sku = n.sku /\ m.wh = n.wh
<1>1. m.sku \in Nat /\ n.sku \in Nat /\ m.wh \in Nat /\ n.wh \in Nat
  BY MoveTypes
<1>2. ShelfOf(m) = ShelfOf(n) <=> Stored(m.sku) = Stored(n.sku) /\ Stored(m.wh) = Stored(n.wh)
  BY DEF ShelfOf
<1>. QED
  BY <1>1, <1>2, StoredNames

OneCardIn(L, s) == \A m, n \in L : ShelfOf(m) = s /\ ShelfOf(n) = s => m.nm = n.nm

LEMMA OneCardKey ==
    ASSUME NEW L \in SUBSET Moves, NEW n \in L, OneCardIn(L, ShelfOf(n)), NEW m \in L
    PROVE  ShelfOf(m) = ShelfOf(n) <=> Key(m) = Key(n)
<1>1. ShelfOf(m) = ShelfOf(n) <=> m.sku = n.sku /\ m.wh = n.wh
  BY ShelfNames
<1>2. ShelfOf(m) = ShelfOf(n) => m.nm = n.nm
  BY DEF OneCardIn
<1>. QED
  BY <1>1, <1>2 DEF Key

(***************************************************************************)
(* The stream.                                                             *)
(***************************************************************************)
LEMMA AheadIs ==
    ASSUME NEW time \in [Report -> Nat], NEW m \in Moves, NEW n \in Moves, Ahead(m, n, time)
    PROVE  /\ m.sku < n.sku \/ (m.sku = n.sku /\ m.wh <= n.wh)
           /\ m # n
<1> DEFINE a == Position(m, time)
           b == Position(n, time)
<1>1. a[1] = m.sku /\ a[2] = m.wh /\ b[1] = n.sku /\ b[2] = n.wh
  BY DEF Position
<1>2. a[1] \in Nat /\ a[2] \in Nat /\ b[1] \in Nat /\ b[2] \in Nat
  BY <1>1, MoveTypes
<1>3. m = n => a = b
  OBVIOUS
<1>4. \A i \in 1 .. 5 : a[i] \in Nat
  BY MoveTypes DEF Position
<1>5. PICK i \in 1 .. 5 : a[i] < b[i] /\ \A j \in 1 .. i - 1 : a[j] = b[j]
  BY DEF Ahead
<1> HIDE DEF a, b
<1>6. m # n
  BY <1>3, <1>4, <1>5
<1>7. i = 1 => a[1] < b[1]
  BY <1>5
<1>8. i = 2 => a[1] = b[1] /\ a[2] < b[2]
  BY <1>5
<1>9. i > 2 => a[1] = b[1] /\ a[2] = b[2]
  BY <1>5
<1>. QED
  BY <1>1, <1>2, <1>5, <1>6, <1>7, <1>8, <1>9

LEMMA AheadOneWay ==
    ASSUME NEW time \in [Report -> Nat], NEW m \in Moves, NEW n \in Moves, Ahead(m, n, time)
    PROVE  ~ Ahead(n, m, time)
<1> DEFINE a == Position(m, time)
           b == Position(n, time)
<1>1. SUFFICES ASSUME Ahead(n, m, time) PROVE FALSE
  OBVIOUS
<1>2. \A i \in 1 .. 5 : a[i] \in Nat /\ b[i] \in Nat
  BY MoveTypes DEF Position
<1>3. PICK i \in 1 .. 5 : a[i] < b[i] /\ \A j \in 1 .. i - 1 : a[j] = b[j]
  BY DEF Ahead
<1>4. PICK k \in 1 .. 5 : b[k] < a[k] /\ \A j \in 1 .. k - 1 : b[j] = a[j]
  BY <1>1 DEF Ahead
<1> HIDE DEF a, b
<1>5. CASE i < k
  BY <1>2, <1>3, <1>4, <1>5
<1>6. CASE k < i
  BY <1>2, <1>3, <1>4, <1>6
<1>7. CASE i = k
  BY <1>2, <1>3, <1>4, <1>7
<1>. QED
  BY <1>5, <1>6, <1>7

LEMMA GroupIs ==
    ASSUME NEW time \in [Report -> Nat], NEW L \in SUBSET Moves, NEW m \in L
    PROVE  IsGroup(Group(m, L, time)) /\ \A n \in Group(m, L, time) : n \in L /\ Key(n) = Key(m)
<1>1. \A n \in Group(m, L, time) : n \in L /\ Key(n) = Key(m)
  BY DEF Group
<1>2. m \in Group(m, L, time)
  BY AheadOneWay DEF Group, Between
<1>. QED
  BY <1>1, <1>2 DEF IsGroup

(* A shelf with one card is one group of the stream.                       *)
LEMMA ShelfIsOneGroup ==
    ASSUME NEW time \in [Report -> Nat], NEW L \in SUBSET Moves, NEW m \in L,
           OneCardIn(L, ShelfOf(m))
    PROVE  Group(m, L, time) = {n \in L : ShelfOf(n) = ShelfOf(m)}
<1>1. \A n \in L : ShelfOf(n) = ShelfOf(m) <=> Key(n) = Key(m)
  BY OneCardKey
<1>2. ASSUME NEW n \in L, Key(n) = Key(m), NEW x \in L,
             Between(x, m, n, time) \/ Between(x, n, m, time)
      PROVE  Key(x) = Key(m)
  <2>1. n.sku = m.sku /\ n.wh = m.wh
    BY <1>2 DEF Key
  <2>2. \/ Ahead(m, x, time) /\ Ahead(x, n, time)
        \/ Ahead(n, x, time) /\ Ahead(x, m, time)
    BY <1>2 DEF Between
  <2>3. m \in Moves /\ n \in Moves /\ x \in Moves
    OBVIOUS
  <2>4. \/ /\ m.sku < x.sku \/ (m.sku = x.sku /\ m.wh <= x.wh)
           /\ x.sku < n.sku \/ (x.sku = n.sku /\ x.wh <= n.wh)
        \/ /\ n.sku < x.sku \/ (n.sku = x.sku /\ n.wh <= x.wh)
           /\ x.sku < m.sku \/ (x.sku = m.sku /\ x.wh <= m.wh)
    BY <2>2, <2>3, AheadIs
  <2>5. /\ m.sku \in Nat /\ n.sku \in Nat /\ x.sku \in Nat
        /\ m.wh \in Nat /\ n.wh \in Nat /\ x.wh \in Nat
    BY <2>3, MoveTypes
  <2>6. x.sku = m.sku /\ x.wh = m.wh
    BY <2>1, <2>4, <2>5
  <2>. QED
    BY <1>1, <2>3, <2>6, ShelfNames
<1>3. ASSUME NEW n \in L, Key(n) = Key(m) PROVE n \in Group(m, L, time)
  <2>1. \A x \in L : Between(x, m, n, time) \/ Between(x, n, m, time) => Key(x) = Key(m)
    BY <1>2, <1>3
  <2>. QED
    BY <1>3, <2>1 DEF Group
<1>4. \A n \in Group(m, L, time) : n \in L /\ Key(n) = Key(m)
  BY DEF Group
<1>. QED
  BY <1>1, <1>3, <1>4

(***************************************************************************)
(* What is written of one shelf.                                           *)
(***************************************************************************)
OnShelf(g, s) == \E m \in g : ShelfOf(m) = s

LEMMA DraftFields ==
    ASSUME NEW g, IsGroup(g), NEW o, NEW d \in Nat
    PROVE  /\ Row(Draft(g, o, d)).day = d
           /\ \A s : OnShelf(g, s) <=> Shelf(Row(Draft(g, o, d))) = s
           /\ \A m \in g : Place(Row(Draft(g, o, d))) = <<d, Stored(m.sku), Stored(m.wh)>>
           /\ \A m \in g : Row(Draft(g, o, d)).sku = Stored(m.sku) /\ Row(Draft(g, o, d)).wh = Stored(m.wh)
<1>1. ASSUME NEW m \in g
      PROVE  /\ Row(Draft(g, o, d)).day = d /\ Shelf(Row(Draft(g, o, d))) = ShelfOf(m)
             /\ Place(Row(Draft(g, o, d))) = <<d, Stored(m.sku), Stored(m.wh)>>
             /\ Row(Draft(g, o, d)).sku = Stored(m.sku) /\ Row(Draft(g, o, d)).wh = Stored(m.wh)
  <2>1. Row(Draft(g, o, d)) = RowOf(m, g, o, d)
    BY DraftIs
  <2> DEFINE r == RowOf(m, g, o, d)
  <2>2. /\ r.day = d /\ r.sku = Stored(m.sku) /\ r.wh = Stored(m.wh)
        /\ Shelf(r) = ShelfOf(m) /\ Place(r) = <<d, Stored(m.sku), Stored(m.wh)>>
    BY DEF RowOf, Shelf, ShelfOf, Place
  <2> HIDE DEF r
  <2>3. Row(Draft(g, o, d)) = r
    BY <2>1 DEF r
  <2>. QED
    BY <2>2, <2>3
<1>. QED
  BY <1>1 DEF OnShelf, IsGroup

(* No later group overwrites the rows of a shelf that is one group.        *)
LEMMA WrittenOn ==
    ASSUME NEW time \in [Report -> Nat], NEW groups, \A g \in groups : IsGroup(g),
           NEW s, \A g, h \in groups : OnShelf(g, s) /\ OnShelf(h, s) => g = h,
           NEW opening, NEW from
    PROVE  \A r : r \in Written(Drafts(groups, opening, from), time) /\ Shelf(r) = s <=>
             \E g \in groups : /\ OnShelf(g, s)
                               /\ \E d \in Days(g) : d >= from /\ r = Row(Draft(g, opening[g], d))
<1> DEFINE D == Drafts(groups, opening, from)
<1>1. ASSUME NEW g \in groups, NEW d \in Days(g) PROVE d \in Nat
  BY MoveTypes DEF IsGroup, Days
<1>2. ASSUME NEW x \in D
      PROVE  \E g \in groups : \E d \in Days(g) :
               d >= from /\ x = [group |-> g, row |-> Row(Draft(g, opening[g], d))]
  BY DEF Drafts
<1>3. ASSUME NEW g \in groups, NEW d \in Days(g), d >= from
      PROVE  [group |-> g, row |-> Row(Draft(g, opening[g], d))] \in D
  BY <1>3 DEF Drafts
<1>4. ASSUME NEW g, IsGroup(g) PROVE ~ Follows(g, g, time)
  BY <1>4, AheadOneWay DEF Follows, IsGroup
<1>5. \A x, y : Place(x) = Place(y) => Shelf(x) = Shelf(y)
  BY DEF Place, Shelf
<1>6. ASSUME NEW r, r \in Written(D, time), Shelf(r) = s
      PROVE  \E g \in groups : /\ OnShelf(g, s)
                               /\ \E d \in Days(g) : d >= from /\ r = Row(Draft(g, opening[g], d))
  <2>1. PICK x \in D : r = x.row
    BY <1>6 DEF Written
  <2>2. PICK g \in groups : \E d \in Days(g) :
               d >= from /\ x = [group |-> g, row |-> Row(Draft(g, opening[g], d))]
    BY <1>2
  <2>3. PICK d \in Days(g) : d >= from /\ x = [group |-> g, row |-> Row(Draft(g, opening[g], d))]
    BY <2>2
  <2>4. r = Row(Draft(g, opening[g], d))
    BY <2>1, <2>3
  <2>5. OnShelf(g, s)
    BY <1>1, <1>6, <2>4, DraftFields
  <2>. QED
    BY <2>3, <2>4, <2>5
<1>7. ASSUME NEW g \in groups, OnShelf(g, s), NEW d \in Days(g), d >= from
      PROVE  /\ Row(Draft(g, opening[g], d)) \in Written(D, time)
             /\ Shelf(Row(Draft(g, opening[g], d))) = s
  <2> DEFINE x == [group |-> g, row |-> Row(Draft(g, opening[g], d))]
  <2>1. x \in D /\ x.row = Row(Draft(g, opening[g], d)) /\ x.group = g
    BY <1>3, <1>7
  <2>2. Shelf(x.row) = s
    BY <1>1, <1>7, <2>1, DraftFields
  <2>3. ASSUME NEW y \in D, Place(y.row) = Place(x.row) PROVE ~ Follows(y.group, x.group, time)
    <3>0. PICK h \in groups : \E e \in Days(h) :
                 e >= from /\ y = [group |-> h, row |-> Row(Draft(h, opening[h], e))]
      BY <1>2
    <3>1. PICK e \in Days(h) : y = [group |-> h, row |-> Row(Draft(h, opening[h], e))]
      BY <3>0
    <3>2. y.group = h /\ y.row = Row(Draft(h, opening[h], e))
      BY <3>1
    <3>3. Shelf(y.row) = s
      BY <1>5, <2>2, <2>3
    <3>4. OnShelf(h, s)
      BY <1>1, <3>2, <3>3, DraftFields
    <3>5. h = g
      BY <1>7, <3>4
    <3>. QED
      BY <1>4, <2>1, <3>2, <3>5
  <2> HIDE DEF x, D
  <2>. QED
    BY <2>1, <2>2, <2>3 DEF Written
<1>. QED
  BY <1>6, <1>7

(***************************************************************************)
(* What the ledger stands for.                                             *)
(***************************************************************************)
TruthOf(L) == {Row(Draft({m \in L : Key(m) = Key(n)}, 0, n.day)) : n \in L}
ShelfIn(L, s) == {m \in L : ShelfOf(m) = s}

(* What the ledger stands for on a shelf with one card.                    *)
LEMMA TruthOn ==
    ASSUME NEW L \in SUBSET Moves, NEW s, OneCardIn(L, s)
    PROVE  /\ ShelfIn(L, s) # {} => IsGroup(ShelfIn(L, s)) /\ OnShelf(ShelfIn(L, s), s)
           /\ \A r : r \in TruthOf(L) /\ Shelf(r) = s <=>
                 \E d \in Days(ShelfIn(L, s)) : r = Row(Draft(ShelfIn(L, s), 0, d))
<1> DEFINE K == ShelfIn(L, s)
<1>1. ASSUME NEW n \in K PROVE K = {m \in L : Key(m) = Key(n)}
  <2>1. n \in L /\ ShelfOf(n) = s /\ \A m \in L : ShelfOf(m) = s <=> Key(m) = Key(n)
    BY OneCardKey DEF ShelfIn
  <2>. QED
    BY <2>1 DEF ShelfIn
<1>2. K # {} => IsGroup(K) /\ OnShelf(K, s)
  <2>1. K \in SUBSET Moves /\ \A m \in K : ShelfOf(m) = s
    BY DEF ShelfIn
  <2>2. \A m, n \in K : Key(m) = Key(n)
    BY <1>1
  <2>. QED
    BY <2>1, <2>2 DEF IsGroup, OnShelf
<1>3. ASSUME NEW n \in L
      PROVE  /\ IsGroup({m \in L : Key(m) = Key(n)}) /\ n \in {m \in L : Key(m) = Key(n)}
             /\ Shelf(Row(Draft({m \in L : Key(m) = Key(n)}, 0, n.day))) = ShelfOf(n)
  <2> DEFINE g == {m \in L : Key(m) = Key(n)}
  <2>1. IsGroup(g) /\ n \in g /\ n.day \in Nat
    BY MoveTypes DEF IsGroup
  <2>2. OnShelf(g, ShelfOf(n))
    BY <2>1 DEF OnShelf
  <2>3. OnShelf(g, ShelfOf(n)) <=> Shelf(Row(Draft(g, 0, n.day))) = ShelfOf(n)
    <3> HIDE DEF g
    <3>. QED BY <2>1, DraftFields
  <2>. QED
    BY <2>1, <2>2, <2>3
<1>4. ASSUME NEW r, r \in TruthOf(L), Shelf(r) = s
      PROVE  \E d \in Days(K) : r = Row(Draft(K, 0, d))
  <2>1. PICK n \in L : r = Row(Draft({m \in L : Key(m) = Key(n)}, 0, n.day))
    BY <1>4 DEF TruthOf
  <2>2. ShelfOf(n) = s
    BY <1>3, <1>4, <2>1
  <2>3. n \in K
    BY <2>2 DEF ShelfIn
  <2>4. r = Row(Draft(K, 0, n.day)) /\ n.day \in Days(K)
    BY <1>1, <2>1, <2>3 DEF Days
  <2>. QED
    BY <2>4
<1>5. ASSUME NEW d \in Days(K)
      PROVE  Row(Draft(K, 0, d)) \in TruthOf(L) /\ Shelf(Row(Draft(K, 0, d))) = s
  <2>1. PICK n \in K : d = n.day
    BY DEF Days
  <2>2. n \in L /\ ShelfOf(n) = s
    BY DEF ShelfIn
  <2>3. K = {m \in L : Key(m) = Key(n)}
    BY <1>1
  <2>. QED
    BY <1>3, <2>1, <2>2, <2>3 DEF TruthOf
<1> HIDE DEF K
<1>. QED
  BY <1>2, <1>4, <1>5 DEF K

(* The rows of a shelf from a day on do not depend on where its movements  *)
(* are cut, if the opening stock is that of the movements before.          *)
LEMMA CutDraft ==
    ASSUME NEW g, IsGroup(g), NEW from \in Nat, NEW w, w = {m \in g : m.day >= from},
           NEW d \in Days(g), d >= from
    PROVE  /\ IsGroup(w) /\ d \in Days(w)
           /\ Row(Draft(w, Stock({m \in g : m.day < from}), d)) = Row(Draft(g, 0, d))
<1>1. g \in SUBSET Moves /\ \A m \in g : m.day \in Nat
  BY MoveTypes DEF IsGroup
<1>2. PICK n \in g : n.day = d
  BY DEF Days
<1>3. n \in w /\ d \in Days(w) /\ d \in Nat
  BY <1>1, <1>2 DEF Days
<1>4. IsGroup(w)
  BY <1>3 DEF IsGroup
<1> DEFINE o == Stock({m \in g : m.day < from})
<1>5. o + Stock({m \in w : m.day < d}) = 0 + Stock({m \in g : m.day < d})
  <2> DEFINE A == {m \in g : m.day < from}
             B == {m \in w : m.day < d}
  <2>1. A \in SUBSET Moves /\ B \in SUBSET Moves /\ A \cap B = {}
    BY <1>1
  <2>2. A \cup B = {m \in g : m.day < d}
    BY <1>1, <1>3
  <2>3. Stock(A) \in Int /\ Stock(B) \in Int /\ Stock(A \cup B) = Stock(A) + Stock(B)
    <3> HIDE DEF A, B
    <3>. QED BY <2>1, StockSplit
  <2> HIDE DEF A, B
  <2>4. o + Stock(B) = 0 + Stock(A \cup B)
    <3>1. o = Stock(A)
      BY DEF A
    <3> HIDE DEF o
    <3>. QED BY <2>3, <3>1
  <2>. QED
    BY <2>2, <2>4 DEF B
<1>6. o + Stock({m \in w : m.day <= d}) = 0 + Stock({m \in g : m.day <= d})
  <2> DEFINE A == {m \in g : m.day < from}
             B == {m \in w : m.day <= d}
  <2>1. A \in SUBSET Moves /\ B \in SUBSET Moves /\ A \cap B = {}
    BY <1>1
  <2>2. A \cup B = {m \in g : m.day <= d}
    BY <1>1, <1>3
  <2>3. Stock(A) \in Int /\ Stock(B) \in Int /\ Stock(A \cup B) = Stock(A) + Stock(B)
    <3> HIDE DEF A, B
    <3>. QED BY <2>1, StockSplit
  <2> HIDE DEF A, B
  <2>4. o + Stock(B) = 0 + Stock(A \cup B)
    <3>1. o = Stock(A)
      BY DEF A
    <3> HIDE DEF o
    <3>. QED BY <2>3, <3>1
  <2>. QED
    BY <2>2, <2>4 DEF B
<1>7. DayUnits(w, d) = DayUnits(g, d)
  <2>1. ASSUME NEW b
        PROVE  {m \in w : m.day = d /\ Bucket(m) = b} = {m \in g : m.day = d /\ Bucket(m) = b}
    BY <1>1
  <2>. QED
    BY <2>1 DEF DayUnits
<1> HIDE DEF o
<1>8. RowOf(n, w, o, d) = RowOf(n, g, 0, d)
  BY <1>5, <1>6, <1>7 DEF RowOf
<1>9. Row(Draft(w, o, d)) = RowOf(n, w, o, d) /\ Row(Draft(g, 0, d)) = RowOf(n, g, 0, d)
  BY <1>3, <1>4, DraftIs
<1>. QED
  BY <1>3, <1>4, <1>8, <1>9 DEF o

(***************************************************************************)
(* The incremental rebuild.                                                *)
(***************************************************************************)
Before(rows, from) == {r \in rows : r.day < from}
Named(rows) == \A r \in rows : r.sku # Null /\ r.wh # Null

(* The rows of a shelf before the window are those the ledger stands for.   *)
TrueBefore(rows, L, s, from) ==
    \A r : Shelf(r) = s /\ r.day < from => (r \in rows <=> r \in TruthOf(L))

LEMMA DraftData ==
    ASSUME NEW g, IsGroup(g), NEW n \in g, NEW o, NEW d \in Nat
    PROVE  /\ Row(Draft(g, o, d)).nm = n.nm /\ Row(Draft(g, o, d)).day = d
           /\ Row(Draft(g, o, d)).stock = o + Stock({m \in g : m.day <= d})
           /\ Row(Draft(g, o, d)).sku = Stored(n.sku) /\ Row(Draft(g, o, d)).wh = Stored(n.wh)
<1>1. Row(Draft(g, o, d)) = RowOf(n, g, o, d)
  BY DraftIs
<1> DEFINE r == RowOf(n, g, o, d)
<1>2. /\ r.nm = n.nm /\ r.day = d /\ r.stock = o + Stock({m \in g : m.day <= d})
      /\ r.sku = Stored(n.sku) /\ r.wh = Stored(n.wh)
  BY DEF RowOf
<1> HIDE DEF r
<1>3. Row(Draft(g, o, d)) = r
  BY <1>1 DEF r
<1>. QED
  BY <1>2, <1>3

(* What is carried forward is the stock of the movements before the window. *)
LEMMA CarriedStock ==
    ASSUME NEW L \in SUBSET Moves, NEW s, OneCardIn(L, s), NEW n \in ShelfIn(L, s),
           NEW from \in Nat, NEW rows, Named(rows), TrueBefore(rows, L, s, from),
           NEW c \in Carried(Before(rows, from), Key(n), from)
    PROVE  c.stock = Stock({m \in ShelfIn(L, s) : m.day < from})
<1> DEFINE K == ShelfIn(L, s)
<1>1. n \in L /\ ShelfOf(n) = s /\ n.sku \in Nat /\ n.wh \in Nat
  BY MoveTypes DEF ShelfIn
<1>2. /\ c \in rows /\ c.day < from /\ <<c.sku, c.nm, c.wh>> = Key(n)
      /\ \A r \in Before(rows, from) :
            <<r.sku, r.nm, r.wh>> = Key(n) /\ r.day < from => r.day <= c.day
  BY DEF Carried, Before
<1>3. c.sku = n.sku /\ c.nm = n.nm /\ c.wh = n.wh
  BY <1>2 DEF Key
<1>4. n.sku # Null /\ n.wh # Null
  BY <1>2, <1>3 DEF Named
<1>5. Stored(n.sku) = n.sku /\ Stored(n.wh) = n.wh
  BY <1>1, <1>4, StoredNames
<1>6. Shelf(c) = s
  BY <1>1, <1>3, <1>5 DEF Shelf, ShelfOf
<1>7. c \in TruthOf(L)
  BY <1>2, <1>6 DEF TrueBefore
<1>8. K # {} /\ IsGroup(K) /\ \A m \in K : m \in Moves /\ m.day \in Nat
  <2>1. K # {} /\ \A m \in K : m \in Moves
    BY DEF ShelfIn
  <2>. QED
    BY <2>1, TruthOn, MoveTypes
<1>9. PICK d \in Days(K) : c = Row(Draft(K, 0, d))
  BY <1>6, <1>7, TruthOn
<1>10. d \in Nat
  BY <1>8 DEF Days
<1>11. c.day = d /\ c.stock = 0 + Stock({m \in K : m.day <= d})
  BY <1>8, <1>9, <1>10, DraftData
<1>12. ASSUME NEW e \in Days(K), e < from PROVE e <= d
  <2> DEFINE r == Row(Draft(K, 0, e))
  <2>1. e \in Nat
    BY <1>8 DEF Days
  <2>2. r \in TruthOf(L) /\ Shelf(r) = s
    BY TruthOn
  <2>3. r.day = e /\ r.nm = n.nm /\ r.sku = Stored(n.sku) /\ r.wh = Stored(n.wh)
    <3>1. IsGroup(K) /\ n \in K /\ e \in Nat
      BY <1>8, <2>1
    <3> HIDE DEF K
    <3>2. Row(Draft(K, 0, e)) = RowOf(n, K, 0, e)
      BY <3>1, DraftIs
    <3>. QED
      BY <3>2 DEF RowOf
  <2> HIDE DEF r
  <2>4. r \in Before(rows, from)
    BY <1>12, <2>2, <2>3 DEF TrueBefore, Before
  <2>5. <<r.sku, r.nm, r.wh>> = Key(n)
    BY <1>5, <2>3 DEF Key
  <2>. QED
    BY <1>2, <1>11, <1>12, <2>3, <2>4, <2>5
<1>13. {m \in K : m.day <= d} = {m \in K : m.day < from}
  <2>1. \A m \in K : m.day \in Days(K)
    BY DEF Days
  <2>. QED
    BY <1>2, <1>8, <1>10, <1>11, <1>12, <2>1
<1>14. Stock({m \in K : m.day < from}) \in Int
  <2>1. {m \in K : m.day < from} \in SUBSET Moves /\ {} \in SUBSET Moves
    BY <1>8
  <2>. QED
    BY <2>1, StockSplit
<1>15. Stock({m \in K : m.day <= d}) = Stock({m \in K : m.day < from})
  BY <1>13
<1> DEFINE o == Stock({m \in K : m.day < from})
<1>16. c.stock = 0 + o /\ o \in Int
  BY <1>11, <1>14, <1>15
<1>17. c.stock = o
  <2> HIDE DEF o
  <2>. QED BY <1>16
<1>. QED
  BY <1>17

(* Of the groups of a stream, a shelf with one card is one.                 *)
LEMMA StreamOn ==
    ASSUME NEW time \in [Report -> Nat], NEW L \in SUBSET Moves, NEW s, OneCardIn(L, s)
    PROVE  /\ \A g \in Groups(L, time) : IsGroup(g) /\ (OnShelf(g, s) => g = ShelfIn(L, s))
           /\ ShelfIn(L, s) # {} => ShelfIn(L, s) \in Groups(L, time) /\ OnShelf(ShelfIn(L, s), s)
<1>1. ASSUME NEW m \in L
      PROVE  /\ IsGroup(Group(m, L, time))
             /\ OnShelf(Group(m, L, time), s) => Group(m, L, time) = ShelfIn(L, s)
  <2>1. IsGroup(Group(m, L, time)) /\ \A n \in Group(m, L, time) : n \in L /\ Key(n) = Key(m)
    BY GroupIs
  <2>2. ASSUME NEW n \in Group(m, L, time), ShelfOf(n) = s PROVE ShelfOf(m) = s
    <3>1. Key(n) = Key(m)
      BY <2>1
    <3>. QED
      BY <2>2, <3>1 DEF Key, ShelfOf
  <2>3. ASSUME ShelfOf(m) = s PROVE Group(m, L, time) = ShelfIn(L, s)
    <3>1. Group(m, L, time) = {n \in L : ShelfOf(n) = ShelfOf(m)}
      BY <2>3, ShelfIsOneGroup
    <3>. QED
      BY <2>3, <3>1 DEF ShelfIn
  <2>. QED
    BY <2>1, <2>2, <2>3 DEF OnShelf
<1>2. \A g \in Groups(L, time) : \E m \in L : g = Group(m, L, time)
  BY DEF Groups
<1>3. ASSUME NEW m \in ShelfIn(L, s)
      PROVE  ShelfIn(L, s) \in Groups(L, time) /\ OnShelf(ShelfIn(L, s), s)
  <2>1. m \in L /\ ShelfOf(m) = s
    BY DEF ShelfIn
  <2>2. m \in Group(m, L, time)
    BY <2>1, AheadOneWay DEF Group, Between
  <2>3. OnShelf(Group(m, L, time), s)
    BY <2>1, <2>2 DEF OnShelf
  <2>. QED
    BY <1>1, <2>1, <2>3 DEF Groups
<1>. QED
  BY <1>1, <1>2, <1>3

(* An incremental rebuild restores a shelf whose rows before the window are *)
(* true: with its carried stock, or, if none is carried, from its start.    *)
LEMMA Rebuilt ==
    ASSUME NEW time \in [Report -> Nat], Ledger(time) # {},
           NEW s, OneCardIn(Ledger(time), s), NEW from \in Nat,
           NEW rows, Named(rows), TrueBefore(rows, Ledger(time), s, from)
    PROVE  \A r : Shelf(r) = s => (r \in Incremental(time, rows, from) <=> r \in TruthOf(Ledger(time)))
<1> DEFINE L == Ledger(time)
           K == ShelfIn(L, s)
           kept == Before(rows, from)
           W == Kept(L, kept, from)
           V == ShelfIn(W, s)
           groups == Groups(W, time)
           opening == [g \in groups |->
                LET carried == Carried(kept, Key(CHOOSE m \in g : TRUE), from)
                IN  IF carried = {} THEN 0 ELSE (CHOOSE r \in carried : TRUE).stock]
           D == Drafts(groups, opening, from)
<1>1. Incremental(time, rows, from) = kept \cup Written(D, time)
  BY DEF Incremental, Before
<1>2. L \in SUBSET Moves /\ W \in SUBSET L /\ W \in SUBSET Moves /\ V \in SUBSET K
  BY DEF Ledger, Kept, ShelfIn
<1>3. OneCardIn(W, s) /\ OneCardIn(L, s)
  BY <1>2 DEF OneCardIn
<1>5. /\ \A g \in groups : IsGroup(g) /\ (OnShelf(g, s) => g = V)
      /\ V # {} => V \in groups /\ OnShelf(V, s)
  <2> HIDE DEF W
  <2>. QED BY <1>2, <1>3, StreamOn
<1>6. \A r : r \in Written(D, time) /\ Shelf(r) = s <=>
          /\ V # {}
          /\ \E d \in Days(V) : d >= from /\ r = Row(Draft(V, opening[V], d))
  <2>1. \A r : r \in Written(D, time) /\ Shelf(r) = s <=>
          \E g \in groups : /\ OnShelf(g, s)
                            /\ \E d \in Days(g) : d >= from /\ r = Row(Draft(g, opening[g], d))
    <3>1. (\A g \in groups : IsGroup(g)) /\ \A g, h \in groups : OnShelf(g, s) /\ OnShelf(h, s) => g = h
      BY <1>5
    <3> HIDE DEF groups, opening
    <3>. QED BY <3>1, WrittenOn
  <2>2. \A g \in groups : OnShelf(g, s) => g # {}
    BY DEF OnShelf
  <2> HIDE DEF groups, opening, V, D
  <2>. QED BY <1>5, <2>1, <2>2
<1>7. ASSUME NEW d \in Days(K), d >= from
      PROVE  /\ V # {} /\ d \in Days(V)
             /\ Row(Draft(V, opening[V], d)) = Row(Draft(K, 0, d))
  <2>1. PICK n \in K : n.day = d
    BY DEF Days
  <2>2. n \in L /\ n \in W /\ n \in V /\ n \in Moves
    BY <1>2, <1>7, <2>1 DEF Kept, ShelfIn
  <2>3. V # {} /\ d \in Days(V)
    BY <2>1, <2>2 DEF Days
  <2>4. IsGroup(K) /\ IsGroup(V) /\ V \in groups
    BY <1>2, <1>3, <1>5, <2>1, <2>3, TruthOn
  <2> DEFINE carried == Carried(kept, Key(n), from)
  <2>5. opening[V] = IF carried = {} THEN 0 ELSE (CHOOSE r \in carried : TRUE).stock
    <3>1. Key(CHOOSE m \in V : TRUE) = Key(n)
      BY <2>2, <2>4 DEF IsGroup
    <3>2. opening[V] = LET carry == Carried(kept, Key(CHOOSE m \in V : TRUE), from)
                       IN  IF carry = {} THEN 0 ELSE (CHOOSE r \in carry : TRUE).stock
      BY <2>4
    <3> HIDE DEF opening, V, groups, kept
    <3>. QED
      BY <3>1, <3>2
  <2>6. \A m \in K : m \in L /\ Key(m) = Key(n)
    BY <2>4 DEF IsGroup, ShelfIn
  <2>7. CASE carried = {}
    <3>1. V = K
      BY <1>2, <2>6, <2>7 DEF Kept, ShelfIn
    <3>2. opening[V] = 0
      BY <2>5, <2>7
    <3> HIDE DEF opening, V, K
    <3>. QED
      BY <2>3, <3>1, <3>2
  <2>8. CASE carried # {}
    <3>1. V = {m \in K : m.day >= from}
      BY <1>2, <2>6, <2>8 DEF Kept, ShelfIn
    <3>2. PICK c \in carried : opening[V] = c.stock
      BY <2>5, <2>8
    <3>3. c.stock = Stock({m \in K : m.day < from})
      BY <1>2, <1>3, <2>1, CarriedStock
    <3>4. Row(Draft(V, Stock({m \in K : m.day < from}), d)) = Row(Draft(K, 0, d))
      <4> HIDE DEF V, K
      <4>. QED BY <1>7, <2>4, <3>1, CutDraft
    <3> HIDE DEF opening, V, K
    <3>. QED
      BY <2>3, <3>2, <3>3, <3>4
  <2>. QED
    BY <2>7, <2>8
<1>8. Days(V) \in SUBSET Days(K) /\ \A d \in Days(K) : d \in Nat
  <2>1. K \in SUBSET Moves
    BY <1>2 DEF ShelfIn
  <2> HIDE DEF K, V
  <2>. QED BY <1>2, <2>1, MoveTypes DEF Days
<1>9. ASSUME K # {} PROVE IsGroup(K)
  BY <1>2, <1>3, <1>9, TruthOn
<1>10. \A r : r \in TruthOf(L) /\ Shelf(r) = s <=> \E d \in Days(K) : r = Row(Draft(K, 0, d))
  <2> HIDE DEF L
  <2>. QED BY <1>2, <1>3, TruthOn
<1>11. \A d \in Days(K) : Row(Draft(K, 0, d)).day = d
  <2>1. ASSUME NEW d \in Days(K) PROVE K # {}
    BY DEF Days
  <2> HIDE DEF K
  <2>. QED BY <1>8, <1>9, <2>1, DraftFields
<1>12. \A r : Shelf(r) = s => (r \in kept <=> r \in TruthOf(L) /\ r.day < from)
  BY DEF TrueBefore, Before
<1> HIDE DEF L, K, V, W, kept, groups, opening, D
<1>13. ASSUME NEW r, Shelf(r) = s, r \in TruthOf(L)
       PROVE  r \in kept \cup Written(D, time)
  <2>1. PICK d \in Days(K) : r = Row(Draft(K, 0, d))
    BY <1>10, <1>13
  <2>2. r.day = d /\ d \in Nat
    BY <1>8, <1>11, <2>1
  <2>3. CASE d < from
    BY <1>12, <1>13, <2>2, <2>3
  <2>4. CASE d >= from
    <3>1. V # {} /\ d \in Days(V) /\ r = Row(Draft(V, opening[V], d))
      BY <1>7, <2>1, <2>4
    <3>. QED
      BY <1>6, <2>4, <3>1
  <2>. QED
    BY <2>2, <2>3, <2>4
<1>14. ASSUME NEW r, Shelf(r) = s, r \in kept \cup Written(D, time)
       PROVE  r \in TruthOf(L)
  <2>1. CASE r \in kept
    BY <1>12, <1>14, <2>1
  <2>2. CASE r \in Written(D, time)
    <3>1. PICK d \in Days(V) : d >= from /\ r = Row(Draft(V, opening[V], d))
      BY <1>6, <1>14, <2>2
    <3>2. d \in Days(K) /\ r = Row(Draft(K, 0, d))
      BY <1>7, <1>8, <3>1
    <3>. QED
      BY <1>10, <3>2
  <2>. QED
    BY <1>14, <2>1, <2>2
<1>. QED
  BY <1>1, <1>13, <1>14 DEF L

(***************************************************************************)
(* Rebuilds from nothing.                                                  *)
(***************************************************************************)
LEMMA ReplayOn ==
    ASSUME NEW time \in [Report -> Nat], NEW L \in SUBSET Moves, NEW s, OneCardIn(L, s),
           NEW groups,
           \A g \in groups : IsGroup(g) /\ (OnShelf(g, s) => g = ShelfIn(L, s)),
           ShelfIn(L, s) # {} => ShelfIn(L, s) \in groups
    PROVE  \A r : Shelf(r) = s => (r \in Written(ReplayOf(groups), time) <=> r \in TruthOf(L))
<1> DEFINE K == ShelfIn(L, s)
           opening == [g \in groups |-> 0]
           D == Drafts(groups, opening, 0)
<1>1. \A r : r \in Written(D, time) /\ Shelf(r) = s <=>
        \E g \in groups : /\ OnShelf(g, s)
                          /\ \E d \in Days(g) : d >= 0 /\ r = Row(Draft(g, opening[g], d))
  <2>1. \A g, h \in groups : OnShelf(g, s) /\ OnShelf(h, s) => g = h
    OBVIOUS
  <2> HIDE DEF opening
  <2>. QED BY <2>1, WrittenOn
<1>2. \A r : r \in TruthOf(L) /\ Shelf(r) = s <=> \E d \in Days(K) : r = Row(Draft(K, 0, d))
  BY TruthOn
<1>3. K # {} => K \in groups /\ OnShelf(K, s) /\ opening[K] = 0
  BY TruthOn
<1>4. \A d \in Days(K) : d \in Nat /\ d >= 0 /\ K # {}
  BY MoveTypes DEF Days, ShelfIn
<1>5. \A g \in groups : OnShelf(g, s) => g = K /\ K # {}
  BY DEF OnShelf
<1>6. ReplayOf(groups) = D
  BY DEF ReplayOf
<1> HIDE DEF K, opening, D
<1>. QED
  BY <1>1, <1>2, <1>3, <1>4, <1>5, <1>6

LEMMA FullRebuilt ==
    ASSUME NEW time \in [Report -> Nat], NEW s, OneCardIn(Ledger(time), s)
    PROVE  \A r : Shelf(r) = s =>
             (r \in Written(FullDrafts(time), time) <=> r \in TruthOf(Ledger(time)))
<1> DEFINE L == Ledger(time)
<1>1. L \in SUBSET Moves
  BY DEF Ledger
<1>2. /\ \A g \in Groups(L, time) : IsGroup(g) /\ (OnShelf(g, s) => g = ShelfIn(L, s))
      /\ ShelfIn(L, s) # {} => ShelfIn(L, s) \in Groups(L, time)
  <2> HIDE DEF L
  <2>1. OneCardIn(L, s)
    BY DEF L
  <2>. QED BY <1>1, <2>1, StreamOn
<1>3. \A r : Shelf(r) = s => (r \in Written(ReplayOf(Groups(L, time)), time) <=> r \in TruthOf(L))
  <2>1. OneCardIn(L, s)
    OBVIOUS
  <2> HIDE DEF L
  <2>. QED BY <1>1, <1>2, <2>1, ReplayOn
<1>. QED
  BY <1>3 DEF FullDrafts

LEMMA ReplayedOn ==
    ASSUME NEW time \in [Report -> Nat], NEW s, OneCardIn(Ledger(time), s)
    PROVE  \A r : Shelf(r) = s => (r \in Replayed(time) <=> r \in TruthOf(Ledger(time)))
<1> DEFINE L == Ledger(time)
           Card(m) == {n \in L : Key(n) = Key(m)}
           cards == {Card(m) : m \in L}
<1>1. L \in SUBSET Moves /\ OneCardIn(L, s)
  BY DEF Ledger
<1>2. ASSUME NEW m \in L PROVE IsGroup(Card(m)) /\ (OnShelf(Card(m), s) <=> ShelfOf(m) = s)
  <2>1. m \in Card(m) /\ Card(m) \in SUBSET Moves /\ \A n \in Card(m) : Key(n) = Key(m)
    BY <1>1
  <2>2. \A n \in Card(m) : ShelfOf(n) = ShelfOf(m)
    BY <2>1 DEF Key, ShelfOf
  <2> HIDE DEF Card
  <2>. QED
    BY <2>1, <2>2 DEF IsGroup, OnShelf
<1>3. ASSUME NEW m \in L, ShelfOf(m) = s PROVE Card(m) = ShelfIn(L, s)
  <2> HIDE DEF L
  <2>1. \A n \in L : ShelfOf(n) = s <=> Key(n) = Key(m)
    BY <1>1, <1>3, OneCardKey
  <2>. QED
    BY <2>1 DEF ShelfIn
<1>4. ShelfIn(L, s) # {} => ShelfIn(L, s) \in cards
  <2>1. ASSUME NEW m \in ShelfIn(L, s) PROVE m \in L /\ ShelfOf(m) = s
    BY DEF ShelfIn
  <2> HIDE DEF L
  <2>. QED
    BY <1>3, <2>1
<1>5. \A g \in cards : IsGroup(g) /\ (OnShelf(g, s) => g = ShelfIn(L, s))
  <2>1. \A g \in cards : \E m \in L : g = Card(m)
    OBVIOUS
  <2> HIDE DEF L, Card, cards
  <2>. QED
    BY <1>2, <1>3, <2>1
<1>6. \A r : Shelf(r) = s => (r \in Written(ReplayOf(cards), time) <=> r \in TruthOf(L))
  <2> HIDE DEF L, cards
  <2>. QED
    BY <1>1, <1>4, <1>5, ReplayOn
<1>. QED
  BY <1>6 DEF Replayed

(***************************************************************************)
(* Type correctness.                                                       *)
(***************************************************************************)
IsTable(rows) == Named(rows) /\ \A r \in rows : r.day \in Nat

StockTypeOK ==
    /\ loaded \in [Report -> Nat] /\ acts \in Nat
    /\ IsTable(table)

LEMMA WrittenType ==
    ASSUME NEW time, NEW groups, \A g \in groups : IsGroup(g), NEW opening, NEW from
    PROVE  IsTable(Written(Drafts(groups, opening, from), time))
<1>1. ASSUME NEW r \in Written(Drafts(groups, opening, from), time)
      PROVE  r.day \in Nat /\ r.sku # Null /\ r.wh # Null
  <2>1. PICK x \in Drafts(groups, opening, from) : r = x.row
    BY DEF Written
  <2>2. PICK g \in groups : \E d \in Days(g) : x = [group |-> g, row |-> Row(Draft(g, opening[g], d))]
    BY DEF Drafts
  <2>3. PICK d \in Days(g) : x = [group |-> g, row |-> Row(Draft(g, opening[g], d))]
    BY <2>2
  <2>4. PICK m \in g : m \in Moves /\ d = m.day
    BY DEF Days, IsGroup
  <2>5. d \in Nat /\ m.sku \in Nat /\ m.wh \in Nat
    BY <2>4, MoveTypes
  <2>6. r = Row(Draft(g, opening[g], d))
    BY <2>1, <2>3
  <2>7. r.day = d /\ r.sku = Stored(m.sku) /\ r.wh = Stored(m.wh)
    <3>1. Row(Draft(g, opening[g], d)) = RowOf(m, g, opening[g], d)
      BY <2>5, DraftIs
    <3>. QED
      BY <2>6, <3>1 DEF RowOf
  <2>. QED
    BY <2>5, <2>7, StoredNames
<1>. QED
  BY <1>1 DEF IsTable, Named

LEMMA IncrementalType ==
    ASSUME NEW time \in [Report -> Nat], NEW rows, IsTable(rows), NEW from
    PROVE  IsTable(Incremental(time, rows, from))
<1> DEFINE kept == {r \in rows : r.day < from}
           W == Kept(Ledger(time), kept, from)
           groups == Groups(W, time)
           opening == [g \in groups |->
                LET carried == Carried(kept, Key(CHOOSE m \in g : TRUE), from)
                IN  IF carried = {} THEN 0 ELSE (CHOOSE r \in carried : TRUE).stock]
<1>1. Incremental(time, rows, from) = IF Ledger(time) = {} THEN rows
          ELSE kept \cup Written(Drafts(groups, opening, from), time)
  BY DEF Incremental
<1>2. W \in SUBSET Moves
  BY DEF Kept, Ledger
<1>3. \A g \in groups : IsGroup(g)
  <2> HIDE DEF W
  <2>. QED BY <1>2, GroupIs DEF Groups
<1>4. IsTable(kept)
  BY DEF IsTable, Named
<1>5. IsTable(Written(Drafts(groups, opening, from), time))
  <2> HIDE DEF groups, opening
  <2>. QED BY <1>3, WrittenType
<1> HIDE DEF kept, groups, opening
<1>. QED
  BY <1>1, <1>4, <1>5 DEF IsTable, Named

LEMMA MinDay ==
    ASSUME NEW S \in SUBSET Moves, S # {}
    PROVE  Min(Days(S)) \in Nat /\ \A m \in S : Min(Days(S)) <= m.day
<1>1. Days(S) \in SUBSET Nat /\ Days(S) # {} /\ \A m \in S : m.day \in Days(S)
  BY MoveTypes DEF Days
<1>2. \E n \in Days(S) : \A k \in Days(S) : n <= k
  BY <1>1, LeastExists
<1>3. Min(Days(S)) \in Days(S) /\ \A k \in Days(S) : Min(Days(S)) <= k
  BY <1>2 DEF Min
<1>. QED
  BY <1>1, <1>3

LEMMA StockInitType == StockInit => StockTypeOK
BY DEF StockInit, StockTypeOK, IsTable, Named

LEMMA StockStepType == StockTypeOK /\ [StockNext]_stockVars => StockTypeOK'
<1> SUFFICES ASSUME StockTypeOK, [StockNext]_stockVars PROVE StockTypeOK'
  OBVIOUS
<1> USE DEF StockTypeOK
<1>1. Act => acts' \in Nat
  BY DEF Act
<1>2. ASSUME NEW r \in Report, Load(r) PROVE StockTypeOK'
  <2>1. loaded' \in [Report -> Nat]
    BY <1>2 DEF Load
  <2>2. IsTable(table')
    <3>1. table' = table \/ \E from : table' = Incremental(loaded', table, from)
      BY <1>2 DEF Load
    <3>. QED
      BY <2>1, <3>1, IncrementalType
  <2>. QED
    BY <1>1, <1>2, <2>1, <2>2 DEF Load, IsTable, Named
<1>3. ASSUME NEW r \in Report, Delete(r) PROVE StockTypeOK'
  BY <1>1, <1>3 DEF Delete, IsTable, Named
<1>4. ASSUME DispatchIncremental PROVE StockTypeOK'
  <2>1. table' = table \/ \E from : table' = Incremental(loaded, table, from)
    BY <1>4 DEF DispatchIncremental
  <2>2. IsTable(table')
    BY <2>1, IncrementalType
  <2>. QED
    BY <1>1, <1>4, <2>2 DEF DispatchIncremental, IsTable, Named
<1>5. ASSUME DispatchFull PROVE StockTypeOK'
  <2>1. IsTable(Written(FullDrafts(loaded), loaded))
    <3> DEFINE groups == Groups(Ledger(loaded), loaded)
    <3>1. \A g \in groups : IsGroup(g)
      <4>1. Ledger(loaded) \in SUBSET Moves
        BY DEF Ledger
      <4>. QED
        BY <4>1, GroupIs DEF Groups
    <3>2. IsTable(Written(Drafts(groups, [g \in groups |-> 0], 0), loaded))
      <4> HIDE DEF groups
      <4>. QED BY <3>1, WrittenType
    <3>. QED
      BY <3>2 DEF FullDrafts, ReplayOf
  <2>2. table' = table \/ table' = Written(FullDrafts(loaded), loaded)
    BY <1>5 DEF DispatchFull
  <2>3. IsTable(table')
    BY <2>1, <2>2
  <2>. QED
    BY <1>1, <1>5, <2>3 DEF DispatchFull, IsTable, Named
<1>6. ASSUME UNCHANGED stockVars PROVE StockTypeOK'
  BY <1>6 DEF stockVars, IsTable, Named
<1>. QED
  BY <1>2, <1>3, <1>4, <1>5, <1>6 DEF StockNext

(* The table and its days are well formed in every behaviour: no row has the *)
(* name a movement without one has, so such a key is never carried forward.  *)
THEOREM StockTypeCorrect == StockSpec => []StockTypeOK
<1>1. StockInit => StockTypeOK
  BY StockInitType
<1>2. StockTypeOK /\ [StockNext]_stockVars => StockTypeOK'
  BY StockStepType
<1>. QED
  BY <1>1, <1>2, PTL DEF StockSpec

(***************************************************************************)
(* Every clean shelf is a replay of the ledger.                            *)
(***************************************************************************)
Soiled(G) == {ShelfOf(m) : m \in Of(G)}
ShelvesHold(L, rows, G) ==
    \A s : OneCardIn(L, s) /\ s \notin Soiled(G) =>
      \A r : Shelf(r) = s => (r \in rows <=> r \in TruthOf(L))

LEMMA ShelvesAre ==
    /\ ShelvesAreReplayed <=> ShelvesHold(Ledger(loaded), table, gone)
    /\ ShelvesAreReplayed' <=> ShelvesHold(Ledger(loaded'), table', gone')
<1> DEFINE C(rows, s) == {r \in rows : OneCard(Shelf(r)) /\ Shelf(r) \notin Soiled(gone)}
<1>1. Truth = TruthOf(Ledger(loaded)) /\ Truth' = TruthOf(Ledger(loaded'))
  BY DEF Truth, TruthOf
<1>2. /\ \A s : OneCard(s) <=> OneCardIn(Ledger(loaded), s)
      /\ \A s : OneCard(s)' <=> OneCardIn(Ledger(loaded'), s)
  BY DEF OneCard, OneCardIn
<1>3. ShelvesAreReplayed <=>
        \A r : OneCard(Shelf(r)) /\ Shelf(r) \notin Soiled(gone) => (r \in table <=> r \in Truth)
  BY DEF ShelvesAreReplayed, Soiled
<1>4. ShelvesAreReplayed' <=>
        \A r : OneCard(Shelf(r))' /\ Shelf(r) \notin Soiled(gone') => (r \in table' <=> r \in Truth')
  BY DEF ShelvesAreReplayed, Soiled
<1>. QED
  BY <1>1, <1>2, <1>3, <1>4 DEF ShelvesHold

(* A movement of a later day changes nothing of the days before.            *)
LEMMA TruthBefore ==
    ASSUME NEW L \in SUBSET Moves, NEW M \in SUBSET Moves, L \subseteq M,
           NEW from \in Nat, \A m \in M \ L : m.day >= from,
           NEW s, OneCardIn(M, s), NEW r, Shelf(r) = s, r.day < from
    PROVE  r \in TruthOf(L) <=> r \in TruthOf(M)
<1> DEFINE K == ShelfIn(L, s)
           J == ShelfIn(M, s)
<1>1. OneCardIn(L, s) /\ K \subseteq J /\ J \in SUBSET Moves /\ \A m \in J \ K : m.day >= from
  BY DEF OneCardIn, ShelfIn
<1>2. \A m \in J : m.day \in Nat
  BY <1>1, MoveTypes
<1>3. /\ \A q : q \in TruthOf(L) /\ Shelf(q) = s <=> \E d \in Days(K) : q = Row(Draft(K, 0, d))
      /\ \A q : q \in TruthOf(M) /\ Shelf(q) = s <=> \E d \in Days(J) : q = Row(Draft(J, 0, d))
      /\ K # {} => IsGroup(K)
      /\ J # {} => IsGroup(J)
  BY <1>1, TruthOn
<1>4. ASSUME NEW d \in Days(K) PROVE d \in Days(J) /\ d \in Nat /\ K # {} /\ J # {}
  BY <1>1, <1>2 DEF Days
<1>5. ASSUME NEW d \in Days(J), d < from PROVE d \in Days(K)
  BY <1>1, <1>2, <1>5 DEF Days
<1>6. \A d \in Days(J) : d \in Nat /\ J # {}
  BY <1>2 DEF Days
<1>7. ASSUME NEW d \in Days(K), d < from PROVE Row(Draft(K, 0, d)) = Row(Draft(J, 0, d))
  <2>1. /\ {m \in K : m.day < d} = {m \in J : m.day < d}
        /\ {m \in K : m.day <= d} = {m \in J : m.day <= d}
    BY <1>1, <1>2, <1>4, <1>7
  <2>2. \A b : {m \in K : m.day = d /\ Bucket(m) = b} = {m \in J : m.day = d /\ Bucket(m) = b}
    BY <1>1, <1>2, <1>4, <1>7
  <2>3. DayUnits(K, d) = DayUnits(J, d)
    BY <2>2 DEF DayUnits
  <2>4. PICK n \in K : n \in J
    BY <1>1, <1>4
  <2>5. Row(Draft(K, 0, d)) = RowOf(n, K, 0, d) /\ Row(Draft(J, 0, d)) = RowOf(n, J, 0, d)
    <3>1. IsGroup(K) /\ IsGroup(J) /\ d \in Nat
      BY <1>3, <1>4
    <3> HIDE DEF K, J
    <3>. QED BY <2>4, <3>1, DraftIs
  <2> HIDE DEF K, J
  <2>. QED
    BY <2>1, <2>3, <2>5 DEF RowOf
<1>8. /\ \A d \in Days(K) : Row(Draft(K, 0, d)).day = d
      /\ \A d \in Days(J) : Row(Draft(J, 0, d)).day = d
  <2> HIDE DEF K, J
  <2>. QED BY <1>3, <1>4, <1>6, DraftFields
<1> HIDE DEF K, J
<1>9. ASSUME r \in TruthOf(L) PROVE r \in TruthOf(M)
  <2>1. PICK d \in Days(K) : r = Row(Draft(K, 0, d))
    BY <1>3, <1>9
  <2>. QED
    BY <1>3, <1>4, <1>7, <1>8, <2>1
<1>10. ASSUME r \in TruthOf(M) PROVE r \in TruthOf(L)
  <2>1. PICK d \in Days(J) : r = Row(Draft(J, 0, d))
    BY <1>3, <1>10
  <2>. QED
    BY <1>3, <1>5, <1>7, <1>8, <2>1
<1>. QED
  BY <1>9, <1>10

(* A new report's first day is where the rebuild begins.                    *)
LEMMA LoadHolds ==
    ASSUME NEW time \in [Report -> Nat], NEW later \in [Report -> Nat], NEW r0 \in Report,
           \A r \in Report : r # r0 => later[r] = time[r], time[r0] = 0, later[r0] > 0,
           NEW rows, IsTable(rows), NEW G, ShelvesHold(Ledger(time), rows, G),
           NEW moves, moves = IF Of({r0}) = {} THEN Ledger(time) ELSE Of({r0}),
           NEW next, next = IF moves = {} THEN rows ELSE Incremental(later, rows, Min(Days(moves)))
    PROVE  ShelvesHold(Ledger(later), next, G)
<1> DEFINE L == Ledger(time)
           M == Ledger(later)
<1>1. L \in SUBSET Moves /\ M \in SUBSET Moves /\ L \subseteq M /\ M \ L = Of({r0}) /\ M = L \cup Of({r0})
  <2>1. \A m \in Moves : m.report \in Report
    BY MoveTypes
  <2>. QED
    BY <2>1 DEF Ledger, Of
<1> HIDE DEF L, M
<1>2. CASE moves = {}
  <2>1. M = L /\ next = rows
    BY <1>1, <1>2 DEF L
  <2>. QED
    BY <2>1 DEF L, M
<1>3. CASE moves # {}
  <2> DEFINE from == Min(Days(moves))
  <2>1. moves \in SUBSET Moves /\ M # {} /\ next = Incremental(later, rows, from)
    BY <1>1, <1>3 DEF L
  <2>2. from \in Nat /\ \A m \in moves : from <= m.day
    <3> HIDE DEF from
    <3>. QED BY <1>3, <2>1, MinDay DEF from
  <2> HIDE DEF from
  <2>3. \A m \in M \ L : m.day >= from
    <3>1. ASSUME NEW m \in M \ L PROVE m \in moves /\ m.day \in Nat
      BY <1>1, MoveTypes
    <3>. QED
      BY <2>2, <3>1
  <2>4. ASSUME NEW s, OneCardIn(M, s), s \notin Soiled(G), NEW r, Shelf(r) = s
        PROVE  r \in next <=> r \in TruthOf(M)
    <3>1. OneCardIn(L, s)
      BY <1>1, <2>4 DEF OneCardIn
    <3>2. TrueBefore(rows, M, s, from)
      <4>1. ASSUME NEW q, Shelf(q) = s, q.day < from PROVE q \in rows <=> q \in TruthOf(M)
        <5>1. q \in rows <=> q \in TruthOf(L)
          BY <2>4, <3>1, <4>1 DEF ShelvesHold, L
        <5>2. q \in TruthOf(L) <=> q \in TruthOf(M)
          BY <1>1, <2>2, <2>3, <2>4, <4>1, TruthBefore
        <5>. QED
          BY <5>1, <5>2
      <4>. QED
        BY <4>1 DEF TrueBefore
    <3>3. Named(rows)
      BY DEF IsTable
    <3>4. r \in Incremental(later, rows, from) <=> r \in TruthOf(M)
      <4>1. Ledger(later) # {} /\ OneCardIn(Ledger(later), s) /\ TrueBefore(rows, Ledger(later), s, from)
        BY <2>1, <2>4, <3>2 DEF M
      <4>. QED
        BY <2>2, <2>4, <3>3, <4>1, Rebuilt DEF M
    <3>. QED
      BY <2>1, <3>4
  <2>. QED
    BY <2>4 DEF ShelvesHold, M
<1>. QED
  BY <1>2, <1>3

(* A deletion leaves the snapshots as they are, and soils the shelves it    *)
(* takes movements from.                                                    *)
LEMMA DeleteHolds ==
    ASSUME NEW L \in SUBSET Moves, NEW M \in SUBSET Moves, NEW r0,
           \A m : m \in M <=> m \in L /\ m \notin Of({r0}), NEW rows, NEW G,
           ShelvesHold(L, rows, G)
    PROVE  ShelvesHold(M, rows, G \cup {r0})
<1>1. ASSUME NEW s, OneCardIn(M, s), s \notin Soiled(G \cup {r0}), NEW r, Shelf(r) = s
      PROVE  r \in rows <=> r \in TruthOf(M)
  <2>1. s \notin Soiled(G) /\ \A m \in Of({r0}) : ShelfOf(m) # s
    BY <1>1 DEF Soiled, Of
  <2>2. ShelfIn(L, s) = ShelfIn(M, s)
    BY <2>1 DEF ShelfIn
  <2>3. OneCardIn(L, s)
    BY <1>1, <2>1 DEF OneCardIn
  <2>4. r \in rows <=> r \in TruthOf(L)
    BY <1>1, <2>1, <2>3 DEF ShelvesHold
  <2>6. r \in TruthOf(L) <=> \E d \in Days(ShelfIn(L, s)) : r = Row(Draft(ShelfIn(L, s), 0, d))
    BY <1>1, <2>3, TruthOn
  <2>7. r \in TruthOf(M) <=> \E d \in Days(ShelfIn(M, s)) : r = Row(Draft(ShelfIn(M, s), 0, d))
    BY <1>1, TruthOn
  <2>. QED
    BY <2>2, <2>4, <2>6, <2>7
<1>. QED
  BY <1>1 DEF ShelvesHold

LEMMA DispatchHolds ==
    ASSUME NEW time \in [Report -> Nat], NEW rows, IsTable(rows), NEW G,
           ShelvesHold(Ledger(time), rows, G), Ledger(time) # {}
    PROVE  /\ ShelvesHold(Ledger(time), Incremental(time, rows, Min(Days(Ledger(time)))), G)
           /\ ShelvesHold(Ledger(time), Written(FullDrafts(time), time), {})
<1> DEFINE L == Ledger(time)
           from == Min(Days(L))
<1>1. L \in SUBSET Moves
  BY DEF Ledger
<1>2. from \in Nat
  <2> HIDE DEF L
  <2>1. L # {}
    BY DEF L
  <2>. QED BY <1>1, <2>1, MinDay
<1> HIDE DEF from
<1>3. ASSUME NEW s, OneCardIn(L, s), s \notin Soiled(G), NEW r, Shelf(r) = s
      PROVE  r \in Incremental(time, rows, from) <=> r \in TruthOf(L)
  <2>1. TrueBefore(rows, L, s, from) /\ Named(rows)
    BY <1>3 DEF ShelvesHold, TrueBefore, IsTable
  <2>. QED
    BY <1>2, <1>3, <2>1, Rebuilt
<1>4. ShelvesHold(L, Incremental(time, rows, from), G)
  BY <1>3 DEF ShelvesHold
<1>5. ShelvesHold(L, Written(FullDrafts(time), time), {})
  BY FullRebuilt DEF ShelvesHold
<1>. QED
  BY <1>4, <1>5 DEF from

StockInv == StockTypeOK /\ ShelvesAreReplayed

LEMMA StockInitHolds == StockInit => ShelvesAreReplayed
<1> SUFFICES ASSUME StockInit PROVE ShelvesAreReplayed
  OBVIOUS
<1>1. Ledger(loaded) = {}
  BY MoveTypes DEF StockInit, Ledger
<1>2. TruthOf(Ledger(loaded)) = {} /\ table = {}
  BY <1>1 DEF TruthOf, StockInit
<1>3. ShelvesHold(Ledger(loaded), table, gone)
  BY <1>2 DEF ShelvesHold
<1>. QED
  BY <1>3, ShelvesAre

LEMMA StockStepHolds == StockInv /\ [StockNext]_stockVars => ShelvesAreReplayed'
<1> SUFFICES ASSUME StockTypeOK, ShelvesAreReplayed, [StockNext]_stockVars
             PROVE  ShelvesHold(Ledger(loaded'), table', gone')
  BY ShelvesAre DEF StockInv
<1>1. /\ loaded \in [Report -> Nat] /\ acts \in Nat /\ IsTable(table)
      /\ ShelvesHold(Ledger(loaded), table, gone)
  BY ShelvesAre DEF StockTypeOK
<1>2. ASSUME NEW r \in Report, Load(r)
      PROVE  ShelvesHold(Ledger(loaded'), table', gone')
  <2> DEFINE moves == IF Of({r}) = {} THEN Ledger(loaded) ELSE Of({r})
  <2>1. /\ loaded' \in [Report -> Nat] /\ loaded'[r] > 0 /\ loaded[r] = 0
        /\ \A q \in Report : q # r => loaded'[q] = loaded[q]
    BY <1>1, <1>2 DEF Load
  <2>2. table' = (IF moves = {} THEN table ELSE Incremental(loaded', table, Min(Days(moves)))) /\ gone' = gone
    BY <1>2 DEF Load
  <2>3. PICK ms : ms = moves
    OBVIOUS
  <2>4. table' = IF ms = {} THEN table ELSE Incremental(loaded', table, Min(Days(ms)))
    BY <2>2, <2>3
  <2>5. ms = IF Of({r}) = {} THEN Ledger(loaded) ELSE Of({r})
    BY <2>3
  <2>6. ShelvesHold(Ledger(loaded'), table', gone)
    <3> HIDE DEF moves
    <3>. QED BY <1>1, <2>1, <2>4, <2>5, LoadHolds
  <2>. QED
    BY <2>2, <2>6
<1>3. ASSUME NEW r \in Report, Delete(r)
      PROVE  ShelvesHold(Ledger(loaded'), table', gone')
  <2>1. loaded' = [loaded EXCEPT ![r] = 0] /\ table' = table /\ gone' = gone \cup {r}
    BY <1>3 DEF Delete
  <2>2. Ledger(loaded') = Ledger(loaded) \ Of({r}) /\ Ledger(loaded) \in SUBSET Moves
    BY <1>1, <2>1, MoveTypes DEF Ledger, Of
  <2>. QED
    <3>1. Ledger(loaded') \in SUBSET Moves /\ \A m : m \in Ledger(loaded') <=> m \in Ledger(loaded) /\ m \notin Of({r})
      BY <2>2
    <3>. QED BY <1>1, <2>1, <2>2, <3>1, DeleteHolds
<1>4. ASSUME DispatchIncremental
      PROVE  ShelvesHold(Ledger(loaded'), table', gone')
  BY <1>1, <1>4, DispatchHolds DEF DispatchIncremental
<1>5. ASSUME DispatchFull
      PROVE  ShelvesHold(Ledger(loaded'), table', gone')
  BY <1>1, <1>5, DispatchHolds DEF DispatchFull
<1>6. ASSUME UNCHANGED stockVars
      PROVE  ShelvesHold(Ledger(loaded'), table', gone')
  BY <1>1, <1>6 DEF stockVars
<1>. QED
  BY <1>2, <1>3, <1>4, <1>5, <1>6 DEF StockNext

(* Whatever reports are loaded, deleted and rebuilt, a shelf with one card    *)
(* that no deletion since the last full rebuild touched has the snapshots of  *)
(* a replay of the ledger.                                                  *)
THEOREM ShelvesStayReplayed == StockSpec => []ShelvesAreReplayed
<1>1. StockInit => StockInv
  BY StockInitType, StockInitHolds DEF StockInv
<1>2. StockInv /\ [StockNext]_stockVars => StockInv'
  BY StockStepType, StockStepHolds DEF StockInv
<1>3. StockInv => ShelvesAreReplayed
  BY DEF StockInv
<1>. QED
  BY <1>1, <1>2, <1>3, PTL DEF StockSpec

(***************************************************************************)
(* The verification.                                                       *)
(***************************************************************************)
(* Where the verification finds no drift, the rows of a place are those of   *)
(* its movements.                                                          *)
Shown(rows, L, s, d) ==
    \/ \E r \in rows : r.day = d /\ Shelf(r) = s
    \/ \E m \in L : m.day = d /\ ShelfOf(m) = s

StocksAt(rows, s, d) == {r.stock : r \in {q \in rows : q.day = d /\ Shelf(q) = s}}
Upto(L, s, d) == {m \in ShelfIn(L, s) : m.day <= d}

LEMMA NoDrift ==
    ASSUME NEW time \in [Report -> Nat], NEW rows, Drifted(time, rows) = {},
           NEW s, OneCardIn(Ledger(time), s), NEW d, Shown(rows, Ledger(time), s, d)
    PROVE  /\ d \in Days(ShelfIn(Ledger(time), s)) /\ d \in Nat
           /\ StocksAt(rows, s, d) = {Stock(Upto(Ledger(time), s, d))}
<1> DEFINE L == Ledger(time)
           K == ShelfIn(L, s)
           T == Replayed(time)
           t == Row(Draft(K, 0, d))
           P == <<d, s[1], s[2]>>
<1>1. L \in SUBSET Moves /\ OneCardIn(L, s) /\ K \in SUBSET Moves
  BY DEF Ledger, ShelfIn
<1>2. s = <<s[1], s[2]>>
  BY DEF Shelf, ShelfOf, Shown
<1>3. \A r : Place(r) = P <=> r.day = d /\ Shelf(r) = s
  BY <1>2 DEF Place, Shelf
<1>4. \A r : Shelf(r) = s => (r \in T <=> \E e \in Days(K) : r = Row(Draft(K, 0, e)))
  <2>1. \A r : Shelf(r) = s => (r \in T <=> r \in TruthOf(L))
    BY <1>1, ReplayedOn
  <2>2. \A r : r \in TruthOf(L) /\ Shelf(r) = s <=> \E e \in Days(K) : r = Row(Draft(K, 0, e))
    <3> HIDE DEF L
    <3>. QED BY <1>1, TruthOn
  <2>. QED
    BY <2>1, <2>2
<1>5. K # {} => IsGroup(K) /\ OnShelf(K, s)
  <2> HIDE DEF L
  <2>. QED BY <1>1, TruthOn
<1>6. \A e \in Days(K) : e \in Nat /\ K # {}
  BY <1>1, MoveTypes DEF Days
<1>7. ASSUME NEW e \in Days(K)
      PROVE  Row(Draft(K, 0, e)).day = e /\ Shelf(Row(Draft(K, 0, e))) = s
  <2> HIDE DEF K
  <2>. QED BY <1>5, <1>6, DraftFields
<1>8. ASSUME NEW q, q = P, q \in {Place(r) : r \in rows \cup T}
      PROVE  Compared(rows, q) = Compared(T, q)
  BY <1>8 DEF Drifted
<1> HIDE DEF L, T
<1>9. d \in Days(K)
  <2>1. CASE \E m \in Ledger(time) : m.day = d /\ ShelfOf(m) = s
    BY <2>1 DEF Days, ShelfIn, L
  <2>2. CASE \E r \in rows : r.day = d /\ Shelf(r) = s
    <3>1. PICK r \in rows : r.day = d /\ Shelf(r) = s
      BY <2>2
    <3>2. Place(r) = P
      BY <1>3, <3>1
    <3>3. Compared(rows, P) = Compared(T, P)
      BY <1>8, <3>1, <3>2
    <3>4. Fingerprint(r) \in Compared(rows, P)
      BY <3>1, <3>2 DEF Compared
    <3>5. PICK x \in T : Place(x) = P
      BY <3>3, <3>4 DEF Compared
    <3>6. x.day = d /\ Shelf(x) = s
      BY <1>3, <3>5
    <3>7. PICK e \in Days(K) : x = Row(Draft(K, 0, e))
      BY <1>4, <3>5, <3>6
    <3>. QED
      BY <1>7, <3>6, <3>7
  <2>. QED
    BY <2>1, <2>2 DEF Shown
<1>10. t \in T /\ Place(t) = P
  BY <1>3, <1>4, <1>7, <1>9
<1>11. ASSUME NEW x \in T, Place(x) = P PROVE x = t
  <2>1. x.day = d /\ Shelf(x) = s
    BY <1>3, <1>11
  <2>2. PICK e \in Days(K) : x = Row(Draft(K, 0, e))
    BY <1>4, <2>1
  <2>. QED
    BY <1>7, <2>1, <2>2
<1>12. Compared(T, P) = {Fingerprint(t)}
  <2> HIDE DEF t, P
  <2>. QED BY <1>10, <1>11 DEF Compared
<1>13. Compared(rows, P) = {Fingerprint(t)}
  BY <1>8, <1>10, <1>12
<1>14. \A q \in rows : q.day = d /\ Shelf(q) = s => q.stock = t.stock
  <2>1. \A q \in rows : Place(q) = P => Fingerprint(q) = Fingerprint(t)
    <3> HIDE DEF t, P
    <3>. QED BY <1>13 DEF Compared
  <2> HIDE DEF t, P
  <2>. QED BY <1>3, <2>1 DEF Fingerprint
<1>15. \E q \in rows : q.day = d /\ Shelf(q) = s
  <2>1. \E q \in rows : Place(q) = P
    <3> HIDE DEF t, P
    <3>. QED BY <1>13 DEF Compared
  <2>. QED
    BY <1>3, <2>1
<1>16. t.stock = Stock({m \in K : m.day <= d})
  <2> DEFINE o == Stock({m \in K : m.day <= d})
  <2>1. t.stock = 0 + o
    <3> HIDE DEF K
    <3>1. PICK n \in K : TRUE
      BY <1>6, <1>9
    <3>. QED BY <1>5, <1>6, <1>9, <3>1, DraftData
  <2>2. o \in Int
    <3>1. {m \in K : m.day <= d} \in SUBSET Moves /\ {} \in SUBSET Moves
      BY <1>1
    <3>. QED BY <3>1, StockSplit
  <2> HIDE DEF o
  <2>3. t.stock = o
    BY <2>1, <2>2
  <2>. QED
    BY <2>3 DEF o
<1> HIDE DEF t
<1>17. {r.stock : r \in {q \in rows : q.day = d /\ Shelf(q) = s}} = {t.stock}
  BY <1>14, <1>15
<1>. QED
  BY <1>6, <1>9, <1>16, <1>17 DEF L, StocksAt, Upto

LEMMA DriftStep == StockTypeOK => DriftIsSeen
<1> SUFFICES ASSUME StockTypeOK, Drifted(loaded, table) = {},
                    NEW p \in {<<r.day, Shelf(r)>> : r \in table}
                              \cup {<<m.day, ShelfOf(m)>> : m \in Ledger(loaded)},
                    OneCard(p[2])
             PROVE  LET own == {m \in Ledger(loaded) : ShelfOf(m) = p[2] /\ m.day <= p[1]}
                    IN  /\ {r.stock : r \in {q \in table : <<q.day, Shelf(q)>> = p}} = {Stock(own)}
                        /\ p[1] \in Days(own)
  BY DEF DriftIsSeen
<1> DEFINE L == Ledger(loaded)
           own == {m \in L : ShelfOf(m) = p[2] /\ m.day <= p[1]}
<1>1. p = <<p[1], p[2]>>
  OBVIOUS
<1>2. \/ \E r \in table : r.day = p[1] /\ Shelf(r) = p[2]
      \/ \E m \in L : m.day = p[1] /\ ShelfOf(m) = p[2]
  OBVIOUS
<1>3. OneCardIn(L, p[2])
  BY DEF OneCard, OneCardIn
<1>4. /\ p[1] \in Days(ShelfIn(L, p[2])) /\ p[1] \in Nat
      /\ StocksAt(table, p[2], p[1]) = {Stock(Upto(L, p[2], p[1]))}
  <2>1. PICK d : d = p[1]
    OBVIOUS
  <2>2. PICK s : s = p[2]
    OBVIOUS
  <2>3. Shown(table, Ledger(loaded), s, d)
    BY <1>2, <2>1, <2>2 DEF Shown
  <2>4. OneCardIn(Ledger(loaded), s) /\ loaded \in [Report -> Nat]
    BY <1>3, <2>2 DEF StockTypeOK
  <2>5. /\ d \in Days(ShelfIn(Ledger(loaded), s)) /\ d \in Nat
        /\ StocksAt(table, s, d) = {Stock(Upto(Ledger(loaded), s, d))}
    BY <2>3, <2>4, NoDrift
  <2>. QED
    BY <2>1, <2>2, <2>5
<1>5. Upto(L, p[2], p[1]) = own
  BY DEF ShelfIn, Upto
<1>6. {q \in table : q.day = p[1] /\ Shelf(q) = p[2]} = {q \in table : <<q.day, Shelf(q)>> = p}
  BY <1>1
<1>7. p[1] \in Days(own)
  BY <1>4 DEF Days, ShelfIn
<1> HIDE DEF own, L
<1>8. {r.stock : r \in {q \in table : <<q.day, Shelf(q)>> = p}} = {Stock(own)}
  BY <1>4, <1>5, <1>6 DEF StocksAt
<1>. QED
  BY <1>7, <1>8 DEF own, L

(* If the verification finds no drift, every snapshot of a shelf with one     *)
(* card is the sum of its movements to its day, and every day of movements    *)
(* has a snapshot.                                                          *)
THEOREM DriftIsAlwaysSeen == StockSpec => []DriftIsSeen
<1>1. StockTypeOK => DriftIsSeen
  BY DriftStep
<1>. QED
  BY <1>1, StockTypeCorrect, PTL

(***************************************************************************)
(* The pages.                                                              *)
(***************************************************************************)
LEMMA MaxDay ==
    ASSUME NEW S \in SUBSET Nat, NEW n \in Nat, \A x \in S : x <= n
    PROVE  /\ Max({-1} \cup S) \in S \cup {-1} /\ (Max({-1} \cup S) = -1 <=> S = {})
           /\ \A x \in S : x <= Max({-1} \cup S)
<1>1. CASE S = {}
  BY <1>1 DEF Max
<1>2. CASE S # {}
  <2>1. Max(S) \in S /\ \A x \in S : x <= Max(S)
    BY <1>2, MaxExists
  <2>2. PICK m \in S : m = Max(S)
    BY <2>1
  <2>3. m \in Nat /\ \A x \in {-1} \cup S : x \in Int /\ m >= x
    BY <2>1, <2>2
  <2>4. Max({-1} \cup S) = m
    <3>1. \A y \in {-1} \cup S : (\A x \in {-1} \cup S : y >= x) => y = m
      BY <2>2, <2>3
    <3>2. \A x \in {-1} \cup S : m >= x
      BY <2>3
    <3>. QED
      BY <2>2, <3>1, <3>2 DEF Max
  <2>. QED
    BY <1>2, <2>2, <2>3, <2>4
<1>. QED
  BY <1>1, <1>2

LEMMA LatestIs ==
    ASSUME NEW rows, IsTable(rows), NEW p, p[1] \in Nat, p[2] \in Nat
    PROVE  /\ Latest(rows, p) \in Nat \cup {-1} /\ Latest(rows, p) <= p[2]
           /\ \A r \in rows : r.day <= p[2] => r.day <= Latest(rows, p)
           /\ Within(rows, p) = {} => Latest(rows, p) < p[1]
           /\ Within(rows, p) # {} => p[1] <= Latest(rows, p)
<1> DEFINE S == {r.day : r \in {q \in rows : q.day <= p[2]}}
<1>1. S \in SUBSET Nat /\ \A x \in S : x <= p[2]
  BY DEF IsTable
<1>2. \A r \in rows : r.day \in Nat /\ (r.day <= p[2] => r.day \in S)
  BY DEF IsTable
<1>3. \A x \in S : \E r \in rows : x = r.day /\ r.day <= p[2]
  OBVIOUS
<1> HIDE DEF S
<1>4. /\ Max({-1} \cup S) \in S \cup {-1}
      /\ \A x \in S : x <= Max({-1} \cup S)
  BY <1>1, MaxDay
<1>5. PICK l : l = Max({-1} \cup S)
  OBVIOUS
<1>6. Latest(rows, p) = l
  BY <1>5 DEF Latest, S
<1>7. l \in Nat \cup {-1} /\ l <= p[2] /\ \A r \in rows : r.day <= p[2] => r.day <= l
  <2>1. l \in S \cup {-1} /\ \A x \in S : x <= l
    BY <1>4, <1>5
  <2>2. l \in Nat \cup {-1} /\ l <= p[2]
    BY <1>1, <2>1
  <2>. QED
    BY <1>2, <2>1, <2>2
<1>8. Within(rows, p) = {} => l < p[1]
  <2>1. SUFFICES ASSUME Within(rows, p) = {}, ~ (l < p[1]) PROVE FALSE
    OBVIOUS
  <2>2. l \in S
    BY <1>4, <1>5, <2>1
  <2>3. PICK r \in rows : l = r.day /\ r.day <= p[2]
    BY <1>3, <2>2
  <2>4. r \in Within(rows, p)
    BY <1>2, <2>1, <2>3 DEF Within
  <2>. QED
    BY <2>1, <2>4
<1>9. Within(rows, p) # {} => p[1] <= l
  <2>1. SUFFICES ASSUME NEW r \in Within(rows, p) PROVE p[1] <= l
    OBVIOUS
  <2>2. r \in rows /\ p[1] <= r.day /\ r.day <= p[2]
    BY DEF Within
  <2>. QED
    BY <1>2, <1>7, <2>2
<1>. QED
  BY <1>6, <1>7, <1>8, <1>9

LEMMA LastSaleIs ==
    ASSUME NEW rows, IsTable(rows), NEW s, NEW p, p[1] \in Nat, p[2] \in Nat
    PROVE  /\ LastSale(rows, s, p) = -1 \/ (LastSale(rows, s, p) \in Nat /\ p[1] <= LastSale(rows, s, p))
           /\ Within(rows, p) = {} => LastSale(rows, s, p) = -1
<1> DEFINE S == {r.day : r \in {q \in Within(rows, p) : q.sku = s /\ q.units["sold"] > 0}}
<1>1. S \in SUBSET Nat /\ \A x \in S : p[1] <= x /\ x <= p[2]
  BY DEF IsTable, Within
<1>2. Within(rows, p) = {} => S = {}
  OBVIOUS
<1> HIDE DEF S
<1>3. /\ Max({-1} \cup S) \in S \cup {-1} /\ (Max({-1} \cup S) = -1 <=> S = {})
  BY <1>1, MaxDay
<1>4. LastSale(rows, s, p) = Max({-1} \cup S)
  BY DEF LastSale, S
<1>5. PICK l : l = Max({-1} \cup S)
  OBVIOUS
<1>. QED
  BY <1>1, <1>2, <1>3, <1>4, <1>5

LEMMA PagesStep == StockTypeOK => PagesAgree
<1> SUFFICES ASSUME IsTable(table), NEW p \in Periods
             PROVE  LET i == Intelligence(table, p)
                        sold == {s \in Stocked(table, p) : LastSale(table, s, p) # -1} IN
                      /\ IdleFor(table, p, SlowDays) = i.slow \cup i.dead
                      /\ IdleFor(table, p, DeadDays) = i.dead
                      /\ Overstocked(table, p) = i.over \cap sold
                      /\ \A s \in i.dead : Latest(table, p) \in DOMAIN Drilldown(table, s, p)
  BY DEF PagesAgree, StockTypeOK
<1> DEFINE l == Latest(table, p)
           last(s) == LastSale(table, s, p)
           idle(s) == DaysSince(table, s, p)
           i == Intelligence(table, p)
           none == Within(table, p) = {}
<1>1. p[1] \in Nat /\ p[2] \in Nat
  BY StockBookAssumption DEF StockBookAssumption
<1>2. /\ l \in Nat \cup {-1} /\ l <= p[2]
      /\ none => l < p[1]
      /\ ~ none => p[1] <= l
  BY <1>1, LatestIs
<1>3. \A s : /\ last(s) = -1 \/ (last(s) \in Nat /\ p[1] <= last(s))
             /\ none => last(s) = -1
  BY <1>1, LastSaleIs
<1>4. \A s : idle(s) = l - (IF last(s) = -1 THEN p[1] ELSE last(s))
  BY DEF DaysSince
<1>5. /\ i.dead = IF none THEN {} ELSE {s \in Stocked(table, p) : idle(s) >= 60}
      /\ i.slow = IF none THEN {} ELSE {s \in Stocked(table, p) : idle(s) \in 30 .. 59}
      /\ i.over = IF none THEN {}
                   ELSE {s \in Stocked(table, p) : Risk(table, s, p, idle(s)) = "overstock"}
  BY DEF Intelligence, DeadDays, SlowDays
<1>6. \A s, n : n \in {30, 60} /\ idle(s) >= n => ~ none
  <2> HIDE DEF l, last, idle, none
  <2>. QED BY <1>1, <1>2, <1>3, <1>4
<1>7. \A s : idle(s) \in Int
  <2> HIDE DEF l, last, idle, none
  <2>. QED BY <1>1, <1>2, <1>3, <1>4
<1>8. IdleFor(table, p, SlowDays) = i.slow \cup i.dead
  <2>1. IdleFor(table, p, SlowDays) = {s \in Stocked(table, p) : idle(s) >= 30}
    BY DEF IdleFor, SlowDays
  <2> HIDE DEF idle, none, i
  <2>. QED BY <1>5, <1>6, <1>7, <2>1
<1>9. IdleFor(table, p, DeadDays) = i.dead
  <2>1. IdleFor(table, p, DeadDays) = {s \in Stocked(table, p) : idle(s) >= 60}
    BY DEF IdleFor, DeadDays
  <2> HIDE DEF idle, none, i
  <2>. QED BY <1>5, <1>6, <1>7, <2>1
<1>10. Overstocked(table, p) = i.over \cap {s \in Stocked(table, p) : LastSale(table, s, p) # -1}
  <2> DEFINE On == {r.sku : r \in OnLatest(table, p)}
             stock(s) == StockOf(OnLatest(table, p), s)
  <2>1. Stocked(table, p) = {s \in On : stock(s) > 0}
    BY DEF Stocked
  <2>2. Overstocked(table, p) =
          {s \in On : Risk(table, s, p, IF last(s) = -1 THEN -1 ELSE l - last(s)) = "overstock"}
    BY DEF Overstocked
  <2>3. ASSUME NEW s, NEW n, Risk(table, s, p, n) = "overstock" PROVE stock(s) > 0 /\ n >= 30
    <3> HIDE DEF stock
    <3>. QED BY <2>3 DEF Risk, RiskLabel, SlowDays, stock
  <2>4. \A s : last(s) # -1 => idle(s) = l - last(s) /\ ~ none
    BY <1>3, <1>4
  <2> HIDE DEF On, stock, idle, last, none, l, i
  <2>5. ASSUME NEW s \in Overstocked(table, p) PROVE s \in i.over /\ s \in Stocked(table, p) /\ last(s) # -1
    <3>1. s \in On /\ Risk(table, s, p, IF last(s) = -1 THEN -1 ELSE l - last(s)) = "overstock"
      BY <2>2
    <3>2. stock(s) > 0 /\ last(s) # -1
      BY <2>3, <3>1
    <3>3. Risk(table, s, p, idle(s)) = "overstock" /\ ~ none
      BY <2>4, <3>1, <3>2
    <3>. QED
      BY <1>5, <2>1, <3>1, <3>2, <3>3
  <2>6. ASSUME NEW s \in i.over, s \in Stocked(table, p), last(s) # -1 PROVE s \in Overstocked(table, p)
    BY <1>5, <2>1, <2>2, <2>4, <2>6
  <2>7. \A s : s \in i.over => s \in Stocked(table, p)
    BY <1>5
  <2>. QED
    BY <2>5, <2>6, <2>7 DEF last
<1>11. ASSUME NEW s \in i.dead PROVE l \in DOMAIN Drilldown(table, s, p)
  <2>1. ~ none /\ s \in Stocked(table, p)
    <3> HIDE DEF none, idle, i
    <3>. QED BY <1>5
  <2>2. PICK r \in OnLatest(table, p) : r.sku = s
    BY <2>1 DEF Stocked
  <2>3. r \in table /\ r.day = l
    BY <2>2 DEF OnLatest
  <2>4. r \in Within(table, p)
    <3> HIDE DEF none, l
    <3>. QED BY <1>2, <2>1, <2>3 DEF Within
  <2>. QED
    BY <2>2, <2>3, <2>4 DEF Drilldown
<1>. QED
  BY <1>8, <1>9, <1>10, <1>11

(* The page of slow movers, the page of dead stock, the signals the advice is *)
(* built from and the page of inventory economics name the same SKUs idle,    *)
(* the last one only of those sold within the period -- for every table.      *)
THEOREM PagesAlwaysAgree == StockSpec => []PagesAgree
<1>1. StockTypeOK => PagesAgree
  BY PagesStep
<1>. QED
  BY <1>1, StockTypeCorrect, PTL

-------------------------------------------------------------------------------
(* The queue.                                                                *)
USE ConstantsAssumption DEF ConstantsAssumption

(***************************************************************************)
(* The row transitions keep a row a row.                                   *)
(***************************************************************************)
LEMMA BackoffType ==
    ASSUME NEW k \in 0..MaxAttempts
    PROVE  Backoff(k) \in Nat
BY BackoffAssumption DEF BackoffAssumption

LEMMA RowTypes ==
    ASSUME NEW row \in JobRow
    PROVE  /\ row.attempts < MaxAttempts => ClaimRow(row) \in JobRow
           /\ AckRow(row) \in JobRow
           /\ \A a \in 0..MaxAttempts : FailRow(row, a) \in JobRow
           /\ RecoverRow(row) \in JobRow
           /\ RecoverStuckRow(row) \in JobRow
           /\ AgedRow(row) \in JobRow
           /\ \A s \in OperatorState : RequeueRow(row, s) \in JobRow
<1>. VisibilityTimeout + 1 \in Nat /\ 0 \in 0..VisibilityTimeout + 1
  OBVIOUS
<1>1. row.attempts < MaxAttempts => ClaimRow(row) \in JobRow
  BY DEF ClaimRow, JobRow, Statuses
<1>2. AckRow(row) \in JobRow
  BY DEF AckRow, JobRow, Statuses
<1>3. ASSUME NEW a \in 0..MaxAttempts PROVE FailRow(row, a) \in JobRow
  BY BackoffType DEF FailRow, JobRow, Statuses
<1>4. RecoverRow(row) \in JobRow
  <2>1. Backoff(row.attempts) \in Nat
    BY BackoffType DEF JobRow
  <2>. QED
    BY <2>1 DEF RecoverRow, JobRow, Statuses
<1>5. RecoverStuckRow(row) \in JobRow
  BY DEF RecoverStuckRow, JobRow, Statuses
<1>6. AgedRow(row) \in JobRow
  <2>1. (IF row.age > VisibilityTimeout THEN row.age ELSE row.age + 1)
            \in 0..VisibilityTimeout + 1
    BY DEF JobRow
  <2>2. (IF row.wait > 0 THEN row.wait - 1 ELSE 0) \in Nat
    BY DEF JobRow
  <2>. QED
    BY <2>1, <2>2 DEF AgedRow, JobRow
<1>7. ASSUME NEW s \in OperatorState PROVE RequeueRow(row, s) \in JobRow
  BY DEF RequeueRow, JobRow, Statuses
<1>. QED
  BY <1>1, <1>2, <1>3, <1>4, <1>5, <1>6, <1>7

LEMMA ReportStatusType ==
    ASSUME NEW s PROVE ReportStatusOf(s) \in ReportStatuses
BY DEF ReportStatusOf, ReportStatuses

(***************************************************************************)
(* Type correctness, of every behaviour.                                   *)
(***************************************************************************)
LEMMA InitType == Init => TypeOK
BY DEF Init, TypeOK, JobRow, Statuses, AbsentRow, ReportStatuses, WorkerState,
       WorkerPcs, BusyPcs, IdleWorker, OperatorState, IdleOperator

LEMMA WorkerStepType ==
    ASSUME TypeOK, NEW w \in Worker, WorkerStep(w)
    PROVE  TypeOK'
<1>. USE DEF TypeOK, At, Goto, Release
<1>. worker[w] \in WorkerState /\ IdleWorker \in WorkerState
  BY DEF IdleWorker, WorkerState, WorkerPcs
<1>1. CASE PollRecover(w)
  <2>1. job' \in [Job -> JobRow]
    BY <1>1, RowTypes DEF PollRecover
  <2>. QED
    BY <1>1, <2>1 DEF PollRecover, WorkerState, WorkerPcs, BusyPcs
<1>2. ASSUME NEW j \in Job, Claim(w, j) PROVE TypeOK'
  <2>1. job' \in [Job -> JobRow]
    BY <1>2, RowTypes DEF Claim, Eligible
  <2>2. job[j].attempts + 1 \in 1..MaxAttempts
    BY <1>2 DEF Claim, Eligible, JobRow
  <2>. QED
    BY <1>2, <2>1, <2>2 DEF Claim, WorkerState, WorkerPcs, BusyPcs
<1>3. CASE ClaimNothing(w)
  BY <1>3 DEF ClaimNothing, IdleWorker, BusyPcs
<1>4. CASE GuardAllows(w)
  BY <1>4 DEF GuardAllows, WorkerState, WorkerPcs, BusyPcs
<1>5. ASSUME GuardRefuses(w) \/ MarkFailed(w) PROVE TypeOK'
  <2>. DEFINE j == worker[w].job
  <2>1. j \in Job /\ worker[w].attempt \in 0..MaxAttempts
    BY <1>5 DEF GuardRefuses, MarkFailed, WorkerState, BusyPcs
  <2>2. job' \in [Job -> JobRow]
    <3>1. FailRow(job[j], worker[w].attempt) \in JobRow
      BY <2>1, RowTypes
    <3>. QED
      BY <1>5, <3>1 DEF GuardRefuses, MarkFailed, FailJob
  <2>3. report' \in [Job -> ReportStatuses]
    BY <1>5, <2>1, ReportStatusType
    DEF GuardRefuses, MarkFailed, FailJob, FailedReportStatus
  <2>. QED
    BY <1>5, <2>2, <2>3 DEF GuardRefuses, MarkFailed, IdleWorker, BusyPcs
<1>6. CASE ParseSucceeds(w)
  BY <1>6 DEF ParseSucceeds, WorkerState, WorkerPcs, BusyPcs
<1>7. CASE PhaseFails(w)
  BY <1>7 DEF PhaseFails, WorkerState, WorkerPcs, BusyPcs
<1>8. CASE PersistAndAck(w)
  <2>. DEFINE j == worker[w].job
  <2>1. j \in Job
    BY <1>8 DEF PersistAndAck, BusyPcs
  <2>2. job' \in [Job -> JobRow]
    BY <1>8, <2>1, RowTypes DEF PersistAndAck
  <2>3. report' \in [Job -> ReportStatuses] /\ persisted' \in [Job -> BOOLEAN]
    BY <1>8, <2>1, ReportStatusType DEF PersistAndAck, PersistResult
  <2>. QED
    BY <1>8, <2>1, <2>2, <2>3 DEF PersistAndAck, WorkerState, WorkerPcs, BusyPcs
<1>9. CASE HookEnds(w)
  BY <1>9 DEF HookEnds, IdleWorker, BusyPcs
<1>. QED
  BY <1>1, <1>2, <1>3, <1>4, <1>5, <1>6, <1>7, <1>8, <1>9 DEF WorkerStep

LEMMA OperatorStepType ==
    ASSUME TypeOK, NEW o \in Operator, OperatorStep(o)
    PROVE  TypeOK'
<1>. USE DEF TypeOK
<1>. /\ operator[o] \in OperatorState /\ IdleOperator \in OperatorState
     /\ operator[o].pc # "idle" => operator[o].job \in Job
  BY DEF IdleOperator, OperatorState
<1>1. CASE ReplayReset(o)
  <2>1. job' \in [Job -> JobRow]
    BY <1>1, SMTT(30) DEF ReplayReset, JobRow
  <2>. QED
    BY <1>1, <2>1 DEF ReplayReset, OperatorState
<1>2. CASE ReplayRequeue(o)
  <2>1. job' \in [Job -> JobRow]
    BY <1>2, RowTypes DEF ReplayRequeue
  <2>. QED
    BY <1>2, <2>1 DEF ReplayRequeue, IdleOperator
<1>3. CASE ReplayAbort(o)
  BY <1>3 DEF ReplayAbort, IdleOperator
<1>. QED
  BY <1>1, <1>2, <1>3 DEF OperatorStep

LEMMA NextType == TypeOK /\ [Next]_vars => TypeOK'
<1>. SUFFICES ASSUME TypeOK, [Next]_vars PROVE TypeOK'
  OBVIOUS
<1>1. ASSUME NEW j \in Job, Enqueue(j) PROVE TypeOK'
  BY <1>1 DEF Enqueue, TypeOK, JobRow, Statuses
<1>2. ASSUME NEW w \in Worker, WorkerStep(w) PROVE TypeOK'
  BY <1>2, WorkerStepType
<1>3. ASSUME NEW w \in Worker, Heartbeat(w) PROVE TypeOK'
  <2>1. job' \in [Job -> JobRow]
    BY <1>3 DEF Heartbeat, TypeOK, JobRow, BeatingPcs, BusyPcs
  <2>. QED
    BY <1>3, <2>1 DEF Heartbeat, TypeOK
<1>4. ASSUME NEW w \in Worker, Abandon(w) PROVE TypeOK'
  BY <1>4 DEF Abandon, At, Release, TypeOK, IdleWorker, WorkerState, WorkerPcs, BusyPcs
<1>5. ASSUME NEW u \in User, RecoverStuck(u) PROVE TypeOK'
  <2>1. job' \in [Job -> JobRow]
    BY <1>5, RowTypes DEF RecoverStuck, TypeOK
  <2>. QED
    BY <1>5, <2>1 DEF RecoverStuck, TypeOK
<1>6. ASSUME NEW o \in Operator, OperatorStep(o) PROVE TypeOK'
  BY <1>6, OperatorStepType
<1>7. ASSUME NEW o \in Operator, NEW j \in Job, ReplayRead(o, j) PROVE TypeOK'
  <2>1. replays' \in 0..MaxReplays
    BY <1>7 DEF ReplayRead, TypeOK
  <2>. QED
    BY <1>7, <2>1 DEF ReplayRead, TypeOK, OperatorState, JobRow
<1>8. CASE Tick
  <2>1. job' \in [Job -> JobRow]
    BY <1>8, RowTypes DEF Tick, TypeOK
  <2>. QED
    BY <1>8, <2>1 DEF Tick, TypeOK
<1>9. CASE UNCHANGED vars
  BY <1>9 DEF vars, TypeOK
<1>. QED
  BY <1>1, <1>2, <1>3, <1>4, <1>5, <1>6, <1>7, <1>8, <1>9 DEF Next, CommonNext

(* No schedule, overrun, crash or overlapping replay ever leaves the types;  *)
(* attempt_count never exceeds max_attempts.                                 *)
THEOREM TypeCorrect == Spec => []TypeOK
BY InitType, NextType, PTL DEF Spec


(***************************************************************************)
(* Two invariants that no schedule breaks.                                 *)
(***************************************************************************)
LEMMA NextResult == TypeOK /\ CompletedHasResult /\ [Next]_vars => CompletedHasResult'
<1>. SUFFICES ASSUME TypeOK, CompletedHasResult, [Next]_vars
              PROVE  CompletedHasResult'
  OBVIOUS
<1>. USE DEF TypeOK, CompletedHasResult, JobRow
<1>1. ASSUME NEW j \in Job, Enqueue(j) PROVE CompletedHasResult'
  BY <1>1 DEF Enqueue
<1>2. ASSUME NEW w \in Worker, PollRecover(w) PROVE CompletedHasResult'
  <2>1. \A j \in Job : RecoverRow(job[j]).status # "completed"
    BY DEF RecoverRow
  <2>. QED
    BY <1>2, <2>1 DEF PollRecover
<1>3. ASSUME NEW w \in Worker, NEW j \in Job, Claim(w, j) PROVE CompletedHasResult'
  BY <1>3 DEF Claim, ClaimRow
<1>4. ASSUME NEW w \in Worker,
             ClaimNothing(w) \/ GuardAllows(w) \/ ParseSucceeds(w) \/ PhaseFails(w)
               \/ HookEnds(w) \/ Abandon(w)
      PROVE  CompletedHasResult'
  BY <1>4 DEF ClaimNothing, GuardAllows, ParseSucceeds, PhaseFails, HookEnds, Abandon
<1>5. ASSUME NEW w \in Worker, GuardRefuses(w) \/ MarkFailed(w)
      PROVE  CompletedHasResult'
  <2>. DEFINE j == worker[w].job
  <2>1. j \in Job
    BY <1>5 DEF GuardRefuses, MarkFailed, At, BusyPcs
  <2>2. job'[j].status # "completed"
    <3>1. FailRow(job[j], worker[w].attempt).status # "completed"
      BY <2>1 DEF FailRow
    <3>. QED
      BY <1>5, <2>1, <3>1 DEF GuardRefuses, MarkFailed, FailJob
  <2>3. report'[j] = "processed" => job[j].status = "completed"
    BY <1>5, <2>1
    DEF GuardRefuses, MarkFailed, FailJob, FailedReportStatus, ReportStatusOf
  <2>. QED
    BY <1>5, <2>1, <2>2, <2>3 DEF GuardRefuses, MarkFailed, FailJob
<1>6. ASSUME NEW w \in Worker, PersistAndAck(w) PROVE CompletedHasResult'
  <2>1. worker[w].job \in Job
    BY <1>6 DEF PersistAndAck, At, BusyPcs
  <2>. QED
    BY <1>6, <2>1 DEF PersistAndAck, PersistResult
<1>7. ASSUME NEW w \in Worker, Heartbeat(w) PROVE CompletedHasResult'
  <2>1. \A j \in Job : job'[j].status = job[j].status
    BY <1>7 DEF Heartbeat
  <2>. QED
    BY <1>7, <2>1 DEF Heartbeat
<1>8. ASSUME NEW u \in User, RecoverStuck(u) PROVE CompletedHasResult'
  <2>1. \A j \in Job : RecoverStuckRow(job[j]).status # "completed"
    BY DEF RecoverStuckRow
  <2>. QED
    BY <1>8, <2>1 DEF RecoverStuck
<1>9. ASSUME NEW o \in Operator, OperatorStep(o) PROVE CompletedHasResult'
  <2>1. \A j \in Job : job'[j].status \in {job[j].status, "pending"}
    <3>1. CASE ReplayReset(o)
      BY <3>1 DEF ReplayReset
    <3>2. CASE ReplayRequeue(o)
      <4>1. \A j \in Job : RequeueRow(job[j], operator[o]).status = "pending"
        BY DEF RequeueRow
      <4>. QED
        BY <3>2, <4>1 DEF ReplayRequeue
    <3>. QED
      BY <1>9, <3>1, <3>2 DEF OperatorStep, ReplayAbort
  <2>. QED
    BY <1>9, <2>1 DEF OperatorStep, ReplayReset, ReplayRequeue, ReplayAbort
<1>10. ASSUME NEW o \in Operator, NEW j \in Job, ReplayRead(o, j)
       PROVE  CompletedHasResult'
  BY <1>10 DEF ReplayRead
<1>11. CASE Tick
  <2>1. \A j \in Job : AgedRow(job[j]).status = job[j].status
    BY DEF AgedRow
  <2>. QED
    BY <1>11, <2>1 DEF Tick
<1>12. CASE UNCHANGED vars
  BY <1>12 DEF vars
<1>. QED
  BY <1>1, <1>2, <1>3, <1>4, <1>5, <1>6, <1>7, <1>8, <1>9, <1>10, <1>11, <1>12
  DEF Next, CommonNext, WorkerStep

(* A COMPLETED job, or a report shown as processed, has its result committed *)
(* even when workers overrun their claims and replays overlap.               *)
THEOREM CompletedJobsHaveResults == Spec => []CompletedHasResult
<1>1. Init => CompletedHasResult
  BY DEF Init, CompletedHasResult, AbsentRow
<1>. QED
  BY <1>1, InitType, NextType, NextResult, PTL DEF Spec

(***************************************************************************)
(* No PROCESSING row is out of reach of the recovery sweeps.               *)
(***************************************************************************)
(* A move of a row that leaves it unclaimed leaves it out of PROCESSING.     *)
LEMMA RowsStayRecoverable ==
    ASSUME ProcessingIsRecoverable,
           \A j \in Job : \/ job'[j].status # "processing"
                          \/ job'[j].claimed
                          \/ /\ job'[j].status = job[j].status
                             /\ job'[j].claimed = job[j].claimed
    PROVE  ProcessingIsRecoverable'
BY DEF ProcessingIsRecoverable

LEMMA NextRecoverable ==
    TypeOK /\ ProcessingIsRecoverable /\ [Next]_vars => ProcessingIsRecoverable'
<1>. SUFFICES ASSUME TypeOK, ProcessingIsRecoverable, [Next]_vars
              PROVE  ProcessingIsRecoverable'
  OBVIOUS
<1>. DEFINE Moved(j) == \/ job'[j].status # "processing"
                        \/ job'[j].claimed
                        \/ /\ job'[j].status = job[j].status
                           /\ job'[j].claimed = job[j].claimed
<1>. SUFFICES \A j \in Job : Moved(j)
  BY RowsStayRecoverable
<1>. job \in [Job -> JobRow]
  BY DEF TypeOK
<1>1. ASSUME NEW j \in Job, Enqueue(j) PROVE \A k \in Job : Moved(k)
  BY <1>1 DEF Enqueue, JobRow
<1>2. ASSUME NEW w \in Worker, PollRecover(w) PROVE \A k \in Job : Moved(k)
  <2>1. \A k \in Job : RecoverRow(job[k]).status # "processing"
    BY DEF RecoverRow, JobRow
  <2>. QED
    BY <1>2, <2>1 DEF PollRecover
<1>3. ASSUME NEW w \in Worker, NEW j \in Job, Claim(w, j)
      PROVE  \A k \in Job : Moved(k)
  BY <1>3 DEF Claim, ClaimRow
<1>4. ASSUME NEW w \in Worker, GuardRefuses(w) \/ MarkFailed(w)
      PROVE  \A k \in Job : Moved(k)
  <2>1. worker[w].job \in Job
    BY <1>4 DEF TypeOK, At, GuardRefuses, MarkFailed, BusyPcs
  <2>2. FailRow(job[worker[w].job], worker[w].attempt).status # "processing"
    BY <2>1 DEF FailRow, JobRow
  <2>. QED
    BY <1>4, <2>1, <2>2 DEF GuardRefuses, MarkFailed, FailJob
<1>5. ASSUME NEW w \in Worker, PersistAndAck(w) PROVE \A k \in Job : Moved(k)
  <2>1. worker[w].job \in Job
    BY <1>5 DEF TypeOK, At, PersistAndAck, BusyPcs
  <2>2. AckRow(job[worker[w].job]).status # "processing"
    BY <2>1 DEF AckRow, JobRow
  <2>. QED
    BY <1>5, <2>1, <2>2 DEF PersistAndAck
<1>6. ASSUME NEW w \in Worker,
             \/ ClaimNothing(w) \/ GuardAllows(w) \/ ParseSucceeds(w)
             \/ PhaseFails(w) \/ HookEnds(w) \/ Abandon(w)
      PROVE  \A k \in Job : Moved(k)
  BY <1>6 DEF ClaimNothing, GuardAllows, ParseSucceeds, PhaseFails, HookEnds, Abandon
<1>7. ASSUME NEW w \in Worker, Heartbeat(w) PROVE \A k \in Job : Moved(k)
  BY <1>7 DEF Heartbeat, JobRow
<1>8. ASSUME NEW u \in User, RecoverStuck(u) PROVE \A k \in Job : Moved(k)
  <2>1. \A k \in Job : RecoverStuckRow(job[k]).status # "processing"
    BY DEF RecoverStuckRow, JobRow
  <2>. QED
    BY <1>8, <2>1 DEF RecoverStuck
<1>9. ASSUME NEW o \in Operator, OperatorStep(o) PROVE \A k \in Job : Moved(k)
  <2>1. CASE ReplayReset(o)
    BY <2>1 DEF ReplayReset, JobRow
  <2>2. CASE ReplayRequeue(o)
    <3>1. \A k \in Job : RequeueRow(job[k], operator[o]).status # "processing"
      BY DEF RequeueRow, JobRow
    <3>. QED
      BY <2>2, <3>1 DEF ReplayRequeue
  <2>3. CASE ReplayAbort(o)
    BY <2>3 DEF ReplayAbort
  <2>. QED
    BY <1>9, <2>1, <2>2, <2>3 DEF OperatorStep
<1>10. ASSUME NEW o \in Operator, NEW j \in Job, ReplayRead(o, j)
       PROVE  \A k \in Job : Moved(k)
  BY <1>10 DEF ReplayRead
<1>11. CASE Tick
  <2>1. \A k \in Job : /\ AgedRow(job[k]).status = job[k].status
                       /\ AgedRow(job[k]).claimed = job[k].claimed
    BY DEF AgedRow, JobRow
  <2>. QED
    BY <1>11, <2>1 DEF Tick
<1>12. CASE UNCHANGED vars
  BY <1>12 DEF vars
<1>. HIDE DEF Moved
<1>. QED
  BY <1>1, <1>2, <1>3, <1>4, <1>5, <1>6, <1>7, <1>8, <1>9, <1>10, <1>11, <1>12
  DEF Next, CommonNext, WorkerStep

(* Both sweeps filter on claimed_at: no row is PROCESSING without it, even   *)
(* when a late worker or an overlapping replay writes to the row.            *)
THEOREM ProcessingJobsAreRecoverable == Spec => []ProcessingIsRecoverable
<1>1. Init => ProcessingIsRecoverable
  BY DEF Init, ProcessingIsRecoverable, AbsentRow
<1>. QED
  BY <1>1, InitType, NextType, NextRecoverable, PTL DEF Spec

-----------------------------------------------------------------------------
(***************************************************************************)
(* Calm behaviours of the queue: claims never outlive their freshness and  *)
(* replays of one job do not overlap.  CalmInv is inductive for them; the  *)
(* exclusivity, budget and finality properties follow, and so does that    *)
(* the queue implements the lifecycle of EtlLifecycle.                     *)
(***************************************************************************)

(* The conjuncts of CalmInv besides those every behaviour has. *)
CalmOnly ==
    /\ OneOwner /\ ClaimIsCurrent /\ ClaimIsFresh
    /\ PendingHasBudget /\ ResultIsFinal
    /\ ReplayHoldsRow /\ AbsentIsUnused

(* Whoever is busy after the step was busy with the same claim before. *)
ClaimsKept ==
    \A w \in Worker : Busy(w)' =>
        /\ Busy(w)
        /\ worker'[w].job = worker[w].job
        /\ worker'[w].attempt = worker[w].attempt

Held(j) == \E w \in Worker : Busy(w) /\ worker[w].job = j
UnderReplay(j) == \E o \in Operator : operator[o].pc # "idle" /\ operator[o].job = j

LEMMA CalmSteps == CalmNext => Next
BY DEF CalmNext, Next, LoneReplayRead, PunctualTick

LEMMA BusyWorker ==
    ASSUME TypeOK, NEW w \in Worker, Busy(w)
    PROVE  worker[w].job \in Job /\ worker[w].attempt \in 1..MaxAttempts
BY DEF TypeOK, Busy, WorkerState

(* Steps that touch only rows nobody works on or replays, and leave these    *)
(* rows unsettled with a sound budget.                                       *)
LEMMA FreeRowsStep ==
    ASSUME TypeOK, TypeOK', CalmOnly, ClaimsKept,
           UNCHANGED <<report, persisted, operator>>,
           \A j \in Job : job'[j] # job[j] =>
               /\ ~Held(j) /\ ~UnderReplay(j) /\ job[j].status # "completed"
               /\ job'[j].status = "pending" => job'[j].attempts < MaxAttempts
               /\ job'[j].status # "absent"
    PROVE  CalmOnly'
<1>. USE DEF CalmOnly, ClaimsKept
<1>1. OneOwner'
  BY DEF OneOwner
<1>2. \A w \in Worker : Busy(w)' => job'[worker'[w].job] = job[worker[w].job]
  BY BusyWorker DEF Held
<1>3. ClaimIsCurrent' /\ ClaimIsFresh'
  BY <1>2 DEF ClaimIsCurrent, ClaimIsFresh
<1>4. PendingHasBudget' /\ AbsentIsUnused'
  BY DEF PendingHasBudget, AbsentIsUnused
<1>5. ResultIsFinal'
  BY DEF ResultIsFinal
<1>6. ReplayHoldsRow'
  <2>1. \A o \in Operator : operator[o].pc # "idle" =>
            operator[o].job \in Job /\ job'[operator[o].job] = job[operator[o].job]
    BY DEF TypeOK, UnderReplay
  <2>. QED
    BY <2>1 DEF ReplayHoldsRow
<1>. QED
  BY <1>1, <1>3, <1>4, <1>5, <1>6

(* A stale row belongs to no live worker and to no replay. *)
LEMMA StaleIsFree ==
    ASSUME TypeOK, CalmOnly, NEW j \in Job, Stale(j)
    PROVE  ~Held(j) /\ ~UnderReplay(j)
<1>1. job[j].age \in Nat
  BY DEF TypeOK, JobRow
<1>2. ~Held(j)
  BY <1>1 DEF CalmOnly, ClaimIsFresh, Held, Stale, Busy
<1>3. ~UnderReplay(j)
  BY DEF CalmOnly, ReplayHoldsRow, UnderReplay, Stale
<1>. QED
  BY <1>2, <1>3

(* Neither is a row that is not PROCESSING, or not DEAD_LETTER. *)
LEMMA UnclaimedIsFree ==
    ASSUME CalmOnly, NEW j \in Job
    PROVE  /\ job[j].status # "processing" => ~Held(j)
           /\ job[j].status # "dead_letter" => ~UnderReplay(j)
BY DEF CalmOnly, ClaimIsCurrent, ReplayHoldsRow, Held, UnderReplay

LEMMA EnqueueCalm ==
    ASSUME TypeOK, TypeOK', CalmOnly, NEW j \in Job, Enqueue(j)
    PROVE  CalmOnly'
<1>1. ClaimsKept
  BY DEF Enqueue, ClaimsKept, Busy
<1>2. job[j].attempts < MaxAttempts
  BY DEF Enqueue, CalmOnly, AbsentIsUnused
<1>3. \A k \in Job : job'[k] # job[k] =>
          /\ ~Held(k) /\ ~UnderReplay(k) /\ job[k].status # "completed"
          /\ job'[k].status = "pending" => job'[k].attempts < MaxAttempts
          /\ job'[k].status # "absent"
  <2>1. ~Held(j) /\ ~UnderReplay(j)
    BY UnclaimedIsFree DEF Enqueue
  <2>2. job[j] \in JobRow
    BY DEF TypeOK
  <2>3. job'[j].status = "pending" /\ job'[j].attempts = job[j].attempts
    BY <2>2 DEF Enqueue, TypeOK, JobRow
  <2>4. \A k \in Job \ {j} : job'[k] = job[k]
    BY DEF Enqueue, TypeOK
  <2>. QED
    BY <1>2, <2>1, <2>3, <2>4 DEF Enqueue
<1>. QED
  BY <1>1, <1>3, FreeRowsStep DEF Enqueue

LEMMA SweepCalm ==
    ASSUME TypeOK, TypeOK', CalmOnly,
           (\E w \in Worker : PollRecover(w)) \/ (\E u \in User : RecoverStuck(u))
    PROVE  CalmOnly'
<1>1. ClaimsKept
  BY DEF PollRecover, RecoverStuck, At, Goto, ClaimsKept, Busy, BusyPcs, TypeOK, WorkerState
<1>2. \A k \in Job : job'[k] # job[k] => 
          Stale(k) /\ job'[k] \in {RecoverRow(job[k]), RecoverStuckRow(job[k])}
  BY DEF PollRecover, RecoverStuck, TypeOK
<1>3. \A k \in Job : job'[k] # job[k] =>
          /\ ~Held(k) /\ ~UnderReplay(k) /\ job[k].status # "completed"
          /\ job'[k].status = "pending" => job'[k].attempts < MaxAttempts
          /\ job'[k].status # "absent"
  <2>. SUFFICES ASSUME NEW k \in Job, job'[k] # job[k]
                PROVE  /\ ~Held(k) /\ ~UnderReplay(k) /\ job[k].status # "completed"
                       /\ job'[k].status = "pending" => job'[k].attempts < MaxAttempts
                       /\ job'[k].status # "absent"
    OBVIOUS
  <2>1. ~Held(k) /\ ~UnderReplay(k) /\ job[k].status = "processing"
    BY <1>2, StaleIsFree DEF Stale
  <2>2. job[k] \in JobRow
    BY DEF TypeOK
  <2>3. \A row \in {RecoverRow(job[k]), RecoverStuckRow(job[k])} :
            /\ row.status \in {"pending", "dead_letter"}
            /\ row.status = "pending" => row.attempts < MaxAttempts
    BY <2>1, <2>2 DEF RecoverRow, RecoverStuckRow, JobRow
  <2>. QED
    BY <1>2, <2>1, <2>3
<1>. QED
  BY <1>1, <1>3, FreeRowsStep DEF PollRecover, RecoverStuck

LEMMA QuietWorkerCalm ==
    ASSUME TypeOK, TypeOK', CalmOnly, NEW w \in Worker,
           ClaimNothing(w) \/ GuardAllows(w) \/ ParseSucceeds(w) \/ PhaseFails(w)
             \/ HookEnds(w) \/ Abandon(w)
    PROVE  CalmOnly'
<1>1. ClaimsKept
  BY DEF ClaimNothing, GuardAllows, ParseSucceeds, PhaseFails, HookEnds, Abandon,
         At, Goto, Release, IdleWorker, ClaimsKept, Busy, BusyPcs, TypeOK, WorkerState
<1>2. UNCHANGED <<job, report, persisted, operator>>
  BY DEF ClaimNothing, GuardAllows, ParseSucceeds, PhaseFails, HookEnds, Abandon
<1>. QED
  BY <1>1, <1>2, FreeRowsStep

LEMMA ClaimCalm ==
    ASSUME TypeOK, TypeOK', CalmOnly, NEW w \in Worker, NEW j \in Job, Claim(w, j)
    PROVE  CalmOnly'
<1>. USE DEF CalmOnly
<1>1. ~Held(j) /\ ~UnderReplay(j)
  BY UnclaimedIsFree DEF Claim, Eligible
<1>2. /\ worker'[w] = [pc |-> "guard", job |-> j, attempt |-> job[j].attempts + 1]
      /\ \A v \in Worker \ {w} : worker'[v] = worker[v]
      /\ job'[j] = ClaimRow(job[j])
      /\ \A k \in Job \ {j} : job'[k] = job[k]
      /\ UNCHANGED <<report, persisted, operator>>
  BY DEF Claim, TypeOK
<1>3. \A v \in Worker \ {w} : Busy(v)' =>
          /\ Busy(v) /\ worker'[v].job \in Job \ {j}
          /\ worker'[v].job = worker[v].job
          /\ job'[worker'[v].job] = job[worker[v].job]
  BY <1>1, <1>2, BusyWorker DEF Busy, Held
<1>4. OneOwner'
  BY <1>2, <1>3 DEF OneOwner
<1>5. ClaimIsCurrent' /\ ClaimIsFresh'
  BY <1>2, <1>3 DEF ClaimIsCurrent, ClaimIsFresh, ClaimRow
<1>6. PendingHasBudget' /\ AbsentIsUnused'
  <2>1. job'[j].status = "processing"
    BY <1>2 DEF ClaimRow
  <2>. QED
    BY <1>2, <2>1 DEF PendingHasBudget, AbsentIsUnused
<1>7. ResultIsFinal'
  BY <1>2 DEF ResultIsFinal, Claim, Eligible
<1>8. ReplayHoldsRow'
  <2>1. \A o \in Operator : operator[o].pc # "idle" =>
            operator[o].job \in Job /\ job'[operator[o].job] = job[operator[o].job]
    BY <1>1, <1>2 DEF TypeOK, UnderReplay
  <2>. QED
    BY <1>2, <2>1 DEF ReplayHoldsRow
<1>. QED
  BY <1>4, <1>5, <1>6, <1>7, <1>8

(* A worker ends its claim: nobody else held the row, which was PROCESSING.  *)
LEMMA EndClaimFacts ==
    ASSUME TypeOK, CalmOnly, NEW w \in Worker, Busy(w)
    PROVE  /\ worker[w].job \in Job
           /\ job[worker[w].job].status = "processing"
           /\ job[worker[w].job].attempts = worker[w].attempt
           /\ ~persisted[worker[w].job]
           /\ ~UnderReplay(worker[w].job)
           /\ \A v \in Worker : Busy(v) /\ worker[v].job = worker[w].job => v = w
BY BusyWorker, UnclaimedIsFree
DEF TypeOK, CalmOnly, ClaimIsCurrent, ResultIsFinal, OneOwner

LEMMA FailCalm ==
    ASSUME TypeOK, TypeOK', CalmOnly, NEW w \in Worker, GuardRefuses(w) \/ MarkFailed(w)
    PROVE  CalmOnly'
<1>. USE DEF CalmOnly
<1>. DEFINE j == worker[w].job
            row == FailRow(job[j], worker[w].attempt)
<1>1. Busy(w)
  BY DEF GuardRefuses, MarkFailed, At, Busy, BusyPcs
<1>2. /\ worker'[w] = IdleWorker
      /\ \A v \in Worker \ {w} : worker'[v] = worker[v]
      /\ job'[j] = row
      /\ \A k \in Job \ {j} : job'[k] = job[k] /\ report'[k] = report[k]
      /\ UNCHANGED <<persisted, operator>>
  BY <1>1, BusyWorker DEF GuardRefuses, MarkFailed, FailJob, Release, TypeOK
<1>3. /\ row.status \in {"pending", "dead_letter"}
      /\ row.status = "pending" => row.attempts < MaxAttempts
  <2>1. job[j] \in JobRow /\ job[j].attempts = worker[w].attempt
    BY <1>1, EndClaimFacts DEF TypeOK
  <2>2. row.attempts = job[j].attempts
    BY <2>1 DEF FailRow, JobRow
  <2>3. /\ worker[w].attempt >= MaxAttempts => row.status = "dead_letter"
        /\ ~(worker[w].attempt >= MaxAttempts) => row.status = "pending"
    BY <2>1 DEF FailRow, JobRow
  <2>. QED
    BY <1>1, <2>1, <2>2, <2>3, BusyWorker
<1>4. \A v \in Worker : Busy(v)' =>
          /\ Busy(v) /\ worker'[v] = worker[v]
          /\ worker'[v].job \in Job \ {j}
          /\ job'[worker'[v].job] = job[worker[v].job]
  BY <1>1, <1>2, BusyWorker, EndClaimFacts DEF Busy, IdleWorker, BusyPcs
<1>5. OneOwner' /\ ClaimIsCurrent' /\ ClaimIsFresh'
  BY <1>4 DEF OneOwner, ClaimIsCurrent, ClaimIsFresh
<1>6. PendingHasBudget' /\ AbsentIsUnused'
  BY <1>2, <1>3 DEF PendingHasBudget, AbsentIsUnused
<1>7. ResultIsFinal'
  BY <1>1, <1>2, EndClaimFacts DEF ResultIsFinal
<1>8. ReplayHoldsRow'
  <2>1. \A o \in Operator : operator[o].pc # "idle" =>
            operator[o].job \in Job /\ job'[operator[o].job] = job[operator[o].job]
    BY <1>1, <1>2, EndClaimFacts DEF TypeOK, UnderReplay
  <2>. QED
    BY <1>2, <2>1 DEF ReplayHoldsRow
<1>. QED
  BY <1>5, <1>6, <1>7, <1>8

LEMMA AckCalm ==
    ASSUME TypeOK, TypeOK', CalmOnly, NEW w \in Worker, PersistAndAck(w)
    PROVE  CalmOnly'
<1>. USE DEF CalmOnly
<1>. DEFINE j == worker[w].job
<1>1. Busy(w)
  BY DEF PersistAndAck, At, Busy, BusyPcs
<1>2. /\ worker'[w].pc = "hook"
      /\ \A v \in Worker \ {w} : worker'[v] = worker[v]
      /\ job'[j] = AckRow(job[j]) /\ persisted'[j] /\ report'[j] = "processed"
      /\ \A k \in Job \ {j} :
            job'[k] = job[k] /\ report'[k] = report[k] /\ persisted'[k] = persisted[k]
      /\ UNCHANGED operator
  <2>1. j \in Job /\ ReportStatusOf("completed") = "processed"
    BY <1>1, BusyWorker DEF ReportStatusOf
  <2>2. worker'[w].pc = "hook" /\ \A v \in Worker \ {w} : worker'[v] = worker[v]
    BY DEF PersistAndAck, Goto, TypeOK, WorkerState
  <2>. QED
    BY <2>1, <2>2 DEF PersistAndAck, PersistResult, TypeOK
<1>3. AckRow(job[j]).status = "completed"
  BY <1>1, BusyWorker DEF AckRow, TypeOK, JobRow
<1>4. \A v \in Worker : Busy(v)' =>
          /\ Busy(v) /\ worker'[v] = worker[v]
          /\ worker'[v].job \in Job \ {j}
          /\ job'[worker'[v].job] = job[worker[v].job]
  BY <1>1, <1>2, BusyWorker, EndClaimFacts DEF Busy, BusyPcs
<1>5. OneOwner' /\ ClaimIsCurrent' /\ ClaimIsFresh'
  BY <1>4 DEF OneOwner, ClaimIsCurrent, ClaimIsFresh
<1>6. PendingHasBudget' /\ AbsentIsUnused' /\ ResultIsFinal'
  BY <1>2, <1>3 DEF PendingHasBudget, AbsentIsUnused, ResultIsFinal
<1>7. ReplayHoldsRow'
  <2>1. \A o \in Operator : operator[o].pc # "idle" =>
            operator[o].job \in Job /\ job'[operator[o].job] = job[operator[o].job]
    BY <1>1, <1>2, EndClaimFacts DEF TypeOK, UnderReplay
  <2>. QED
    BY <1>2, <2>1 DEF ReplayHoldsRow
<1>. QED
  BY <1>5, <1>6, <1>7

(* Heartbeats and time touch ages and waits only. *)
LEMMA AgesStep ==
    ASSUME TypeOK, TypeOK', CalmOnly,
           UNCHANGED <<report, persisted, worker, operator>>,
           \A j \in Job : /\ job'[j].status = job[j].status
                          /\ job'[j].attempts = job[j].attempts,
           \A w \in Worker : Busy(w) => job'[worker[w].job].age <= VisibilityTimeout
    PROVE  CalmOnly'
<1>. USE DEF CalmOnly
<1>1. \A w \in Worker : Busy(w)' <=> Busy(w)
  BY DEF Busy
<1>2. OneOwner' /\ ClaimIsFresh'
  BY <1>1 DEF OneOwner, ClaimIsFresh
<1>3. ClaimIsCurrent'
  BY <1>1, BusyWorker DEF ClaimIsCurrent
<1>4. PendingHasBudget' /\ AbsentIsUnused' /\ ResultIsFinal'
  BY DEF PendingHasBudget, AbsentIsUnused, ResultIsFinal
<1>5. ReplayHoldsRow'
  <2>1. \A o \in Operator : operator[o].pc # "idle" => operator[o].job \in Job
    BY DEF TypeOK
  <2>. QED
    BY <2>1 DEF ReplayHoldsRow
<1>. QED
  BY <1>2, <1>3, <1>4, <1>5

LEMMA HeartbeatCalm ==
    ASSUME TypeOK, TypeOK', CalmOnly, NEW w \in Worker, Heartbeat(w)
    PROVE  CalmOnly'
<1>. DEFINE h == worker[w].job
<1>1. h \in Job /\ job[h] \in JobRow
  BY DEF Heartbeat, BeatingPcs, BusyPcs, TypeOK
<1>2. /\ job'[h].status = job[h].status /\ job'[h].attempts = job[h].attempts
      /\ job'[h].age = 0
      /\ \A j \in Job \ {h} : job'[j] = job[j]
  BY <1>1 DEF Heartbeat, TypeOK, JobRow
<1>3. \A v \in Worker : Busy(v) => job'[worker[v].job].age <= VisibilityTimeout
  BY <1>2, BusyWorker DEF CalmOnly, ClaimIsFresh
<1>. QED
  BY <1>2, <1>3, AgesStep DEF Heartbeat

LEMMA TickCalm ==
    ASSUME TypeOK, TypeOK', CalmOnly, PunctualTick
    PROVE  CalmOnly'
<1>1. \A j \in Job : /\ job'[j].status = job[j].status
                     /\ job'[j].attempts = job[j].attempts
                     /\ job'[j].age <= job[j].age + 1
  <2>1. ASSUME NEW row \in JobRow
        PROVE  /\ AgedRow(row).status = row.status /\ AgedRow(row).attempts = row.attempts
               /\ AgedRow(row).age <= row.age + 1
    <3>1. AgedRow(row).age = IF row.age > VisibilityTimeout THEN row.age ELSE row.age + 1
      BY DEF AgedRow, JobRow
    <3>2. row.age \in Nat
      BY DEF JobRow
    <3>. QED
      BY <3>1, <3>2 DEF AgedRow, JobRow
  <2>. QED
    BY <2>1 DEF PunctualTick, Tick, TypeOK
<1>2. \A w \in Worker : Busy(w) => job'[worker[w].job].age <= VisibilityTimeout
  <2>. SUFFICES ASSUME NEW w \in Worker, Busy(w)
                PROVE  job'[worker[w].job].age <= VisibilityTimeout
    OBVIOUS
  <2>. DEFINE h == worker[w].job
  <2>1. h \in Job
    BY BusyWorker
  <2>2. job[h].age \in Nat /\ job'[h].age \in Nat
    BY <2>1 DEF TypeOK, JobRow
  <2>3. job[h].age < VisibilityTimeout
    BY DEF PunctualTick
  <2>. QED
    BY <1>1, <2>1, <2>2, <2>3
<1>. QED
  BY <1>1, <1>2, AgesStep DEF PunctualTick, Tick

(* Steps of a replay leave every row outside DEAD_LETTER alone. *)
LEMMA ReplayRowsStep ==
    ASSUME TypeOK, TypeOK', CalmOnly,
           UNCHANGED <<report, persisted, worker>>,
           \A j \in Job : job'[j] # job[j] =>
               /\ job[j].status = "dead_letter"
               /\ job'[j].status \in {"pending", "dead_letter"}
               /\ job'[j].status = "pending" => job'[j].attempts < MaxAttempts
    PROVE  /\ OneOwner' /\ ClaimIsCurrent' /\ ClaimIsFresh'
           /\ PendingHasBudget' /\ ResultIsFinal' /\ AbsentIsUnused'
<1>. USE DEF CalmOnly
<1>1. \A w \in Worker : /\ Busy(w)' <=> Busy(w)
                        /\ Busy(w) => job'[worker[w].job] = job[worker[w].job]
  BY BusyWorker DEF Busy, ClaimIsCurrent
<1>2. OneOwner' /\ ClaimIsFresh' /\ ClaimIsCurrent'
  BY <1>1 DEF OneOwner, ClaimIsFresh, ClaimIsCurrent
<1>3. PendingHasBudget' /\ AbsentIsUnused' /\ ResultIsFinal'
  BY DEF PendingHasBudget, AbsentIsUnused, ResultIsFinal
<1>. QED
  BY <1>2, <1>3

LEMMA OperatorStepCalm ==
    ASSUME TypeOK, TypeOK', CalmOnly, NEW o \in Operator, OperatorStep(o)
    PROVE  CalmOnly'
<1>. DEFINE j == operator[o].job
<1>1. /\ operator[o].pc # "idle" /\ j \in Job /\ job[j] \in JobRow
      /\ job[j].status = "dead_letter"
      /\ operator[o].pc = "read" => operator[o].attempts = job[j].attempts
      /\ operator[o].pc = "reset" => job[j].attempts = 0
      /\ \A p \in Operator : operator[p].job = j => p = o
  BY DEF OperatorStep, ReplayReset, ReplayRequeue, ReplayAbort, TypeOK, CalmOnly,
         ReplayHoldsRow
<1>2. CASE ReplayReset(o)
  <2>1. /\ \A k \in Job \ {j} : job'[k] = job[k]
        /\ job'[j].status = "dead_letter" /\ job'[j].attempts = 0
    BY <1>1, <1>2 DEF ReplayReset, TypeOK, JobRow
  <2>2. /\ operator'[o].pc = "reset" /\ operator'[o].job = j
        /\ \A p \in Operator \ {o} : operator'[p] = operator[p]
    BY <1>2 DEF ReplayReset, TypeOK, OperatorState
  <2>3. ReplayHoldsRow'
    BY <1>1, <2>1, <2>2 DEF ReplayHoldsRow, CalmOnly, TypeOK
  <2>. QED
    BY <1>1, <1>2, <2>1, <2>3, ReplayRowsStep DEF ReplayReset, CalmOnly
<1>3. CASE ReplayRequeue(o)
  <2>1. /\ RequeueRow(job[j], operator[o]).status = "pending"
        /\ RequeueRow(job[j], operator[o]).attempts = job[j].attempts
    BY <1>1 DEF RequeueRow, JobRow
  <2>2. /\ \A k \in Job \ {j} : job'[k] = job[k]
        /\ job'[j].status = "pending" /\ job'[j].attempts = 0
    BY <1>1, <1>3, <2>1 DEF ReplayRequeue, TypeOK
  <2>3. /\ operator'[o] = IdleOperator
        /\ \A p \in Operator \ {o} : operator'[p] = operator[p]
    BY <1>3 DEF ReplayRequeue, TypeOK
  <2>4. ReplayHoldsRow'
    BY <1>1, <2>2, <2>3, SMTT(30) DEF ReplayHoldsRow, CalmOnly, TypeOK, IdleOperator
  <2>. QED
    BY <1>1, <1>3, <2>2, <2>4, ReplayRowsStep DEF ReplayRequeue, CalmOnly
<1>4. CASE ReplayAbort(o)
  <2>1. /\ operator'[o] = IdleOperator
        /\ \A p \in Operator \ {o} : operator'[p] = operator[p]
    BY <1>4 DEF ReplayAbort, TypeOK
  <2>2. ReplayHoldsRow'
    BY <1>4, <2>1 DEF ReplayAbort, ReplayHoldsRow, CalmOnly, TypeOK, IdleOperator
  <2>. QED
    BY <1>4, <2>2, ReplayRowsStep DEF ReplayAbort, CalmOnly
<1>. QED
  BY <1>2, <1>3, <1>4 DEF OperatorStep

LEMMA ReplayReadCalm ==
    ASSUME TypeOK, TypeOK', CalmOnly, NEW o \in Operator, NEW j \in Job,
           LoneReplayRead(o, j)
    PROVE  CalmOnly'
<1>1. /\ operator'[o].pc = "read" /\ operator'[o].job = j
      /\ operator'[o].attempts = job[j].attempts
      /\ \A p \in Operator \ {o} : operator'[p] = operator[p] /\ operator[p].job # j
      /\ job[j].status = "dead_letter"
  BY DEF LoneReplayRead, ReplayRead, TypeOK
<1>2. ReplayHoldsRow'
  BY <1>1 DEF LoneReplayRead, ReplayRead, ReplayHoldsRow, CalmOnly, TypeOK
<1>. QED
  BY <1>2, ReplayRowsStep DEF LoneReplayRead, ReplayRead, CalmOnly

(***************************************************************************)
(* The invariant, and what it gives.                                       *)
(***************************************************************************)
LEMMA CalmInductive == CalmInv /\ [CalmNext]_vars => CalmInv'
<1>. SUFFICES ASSUME CalmInv, [CalmNext]_vars PROVE CalmInv'
  OBVIOUS
<1>1. TypeOK /\ CalmOnly
  BY DEF CalmInv, CalmOnly
<1>2. TypeOK' /\ CompletedHasResult'
  BY <1>1, CalmSteps, NextType, NextResult DEF CalmInv
<1>3. CalmOnly'
  <2>. USE <1>1, <1>2
  <2>1. ASSUME NEW j \in Job, Enqueue(j) PROVE CalmOnly'
    BY <2>1, EnqueueCalm
  <2>2. ASSUME NEW w \in Worker, WorkerStep(w) \/ Abandon(w) PROVE CalmOnly'
    BY <2>2, SweepCalm, ClaimCalm, QuietWorkerCalm, FailCalm, AckCalm DEF WorkerStep
  <2>3. ASSUME NEW w \in Worker, Heartbeat(w) PROVE CalmOnly'
    BY <2>3, HeartbeatCalm
  <2>4. ASSUME NEW u \in User, RecoverStuck(u) PROVE CalmOnly'
    BY <2>4, SweepCalm
  <2>5. ASSUME NEW o \in Operator, OperatorStep(o) PROVE CalmOnly'
    BY <2>5, OperatorStepCalm
  <2>6. ASSUME NEW o \in Operator, NEW j \in Job, LoneReplayRead(o, j) PROVE CalmOnly'
    BY <2>6, ReplayReadCalm
  <2>7. CASE PunctualTick
    BY <2>7, TickCalm
  <2>8. CASE UNCHANGED vars
    BY <2>8 DEF vars, CalmOnly, OneOwner, ClaimIsCurrent, ClaimIsFresh, Busy,
                PendingHasBudget, ResultIsFinal, ReplayHoldsRow, AbsentIsUnused
  <2>. QED
    BY <2>1, <2>2, <2>3, <2>4, <2>5, <2>6, <2>7, <2>8 DEF CalmNext, CommonNext
<1>. QED
  BY <1>2, <1>3 DEF CalmInv, CalmOnly

LEMMA InitCalm == Init => CalmInv
<1>. SUFFICES ASSUME Init PROVE CalmInv
  OBVIOUS
<1>1. TypeOK
  BY InitType
<1>2. \A w \in Worker : ~Busy(w)
  BY DEF Init, Busy, BusyPcs, IdleWorker
<1>3. OneOwner /\ ClaimIsCurrent /\ ClaimIsFresh
  BY <1>2 DEF OneOwner, ClaimIsCurrent, ClaimIsFresh
<1>4. CompletedHasResult /\ PendingHasBudget /\ ResultIsFinal /\ AbsentIsUnused
  BY DEF Init, CompletedHasResult, PendingHasBudget, ResultIsFinal, AbsentIsUnused, AbsentRow
<1>5. ReplayHoldsRow
  BY DEF Init, ReplayHoldsRow, IdleOperator
<1>. QED
  BY <1>1, <1>3, <1>4, <1>5 DEF CalmInv

(* The inductive invariant holds in every calm behaviour. *)
THEOREM CalmInvariant == CalmSpec => []CalmInv
BY InitCalm, CalmInductive, PTL DEF CalmSpec

(* No two workers ever work on the same job (Q-CLAIM-EXCL). *)
THEOREM CalmExclusive == CalmSpec => []OneOwner
<1>1. CalmInv => OneOwner
  BY DEF CalmInv
<1>. QED
  BY <1>1, CalmInvariant, PTL

(* A job is PENDING only with attempts left (Q-RETRY-BOUND). *)
THEOREM CalmBudget == CalmSpec => []PendingHasBudget
<1>1. CalmInv => PendingHasBudget
  BY DEF CalmInv
<1>. QED
  BY <1>1, CalmInvariant, PTL

(* A committed result keeps its job COMPLETED and its report processed. *)
THEOREM CalmFinal == CalmSpec => []ResultIsFinal
<1>1. CalmInv => ResultIsFinal
  BY DEF CalmInv
<1>. QED
  BY <1>1, CalmInvariant, PTL

(***************************************************************************)
(* The lifecycle: every calm step moves each job along EtlLifecycle.       *)
(***************************************************************************)
(* One job's move, in the terms of the queue. *)
Move(j) ==
    LET from == job[j].status    to == job'[j].status
        a    == job[j].attempts  b  == job'[j].attempts IN
    \/ from = "processing" /\ to = "completed" /\ b = a /\ persisted'[j]
    \/ /\ persisted'[j] = persisted[j]
       /\ \/ from = "absent" /\ to = "pending" /\ b = 0
          \/ from = "pending" /\ to = "processing" /\ a < MaxAttempts /\ b = a + 1
          \/ from = "processing" /\ to = "pending" /\ a < MaxAttempts /\ b = a
          \/ from = "processing" /\ to = "dead_letter" /\ a = MaxAttempts
          \/ from = "dead_letter" /\ to = "pending" /\ b = 0
          \/ from = "dead_letter" /\ to = "dead_letter"
          \/ from = to /\ b = a

LEMMA MoveIsJobStep ==
    ASSUME NEW j \in Job, Move(j)
    PROVE  Lifecycle!JobStep(j)
BY DEF Move, Lifecycle!JobStep, Lifecycle!Submitted, Lifecycle!Started,
       Lifecycle!Finished, Lifecycle!GivenBack, Lifecycle!Buried, Lifecycle!Revived,
       Lifecycle!Unmoved

LEMMA SameRowMove ==
    ASSUME NEW j \in Job, job'[j].status = job[j].status,
           job'[j].attempts = job[j].attempts, persisted'[j] = persisted[j]
    PROVE  Move(j)
BY DEF Move

(* A sweep returns a stale job while attempts are left, else buries it. *)
LEMMA SweepMove ==
    ASSUME TypeOK, NEW j \in Job, persisted' = persisted, Stale(j),
           job'[j] \in {RecoverRow(job[j]), RecoverStuckRow(job[j])}
    PROVE  Move(j)
<1>1. job[j] \in JobRow /\ job[j].status = "processing"
  BY DEF TypeOK, Stale
<1>2. \A row \in {RecoverRow(job[j]), RecoverStuckRow(job[j])} :
        /\ row.attempts = job[j].attempts
        /\ job[j].attempts < MaxAttempts => row.status = "pending"
        /\ ~(job[j].attempts < MaxAttempts) => row.status = "dead_letter"
  BY <1>1 DEF RecoverRow, RecoverStuckRow, JobRow
<1>3. job[j].attempts \in 0..MaxAttempts
  BY <1>1 DEF JobRow
<1>. QED
  BY <1>1, <1>2, <1>3 DEF Move

LEMMA FailMove ==
    ASSUME TypeOK, CalmOnly, NEW w \in Worker, GuardRefuses(w) \/ MarkFailed(w)
    PROVE  Move(worker[w].job)
<1>. DEFINE j == worker[w].job
            row == FailRow(job[j], worker[w].attempt)
<1>1. Busy(w)
  BY DEF GuardRefuses, MarkFailed, At, Busy, BusyPcs
<1>2. /\ j \in Job /\ job[j] \in JobRow /\ job[j].status = "processing"
      /\ worker[w].attempt = job[j].attempts /\ job[j].attempts \in 0..MaxAttempts
  BY <1>1, EndClaimFacts DEF TypeOK, JobRow
<1>3. /\ row.attempts = job[j].attempts
      /\ job[j].attempts >= MaxAttempts => row.status = "dead_letter"
      /\ ~(job[j].attempts >= MaxAttempts) => row.status = "pending"
  BY <1>2 DEF FailRow, JobRow
<1>4. job'[j] = row /\ persisted' = persisted
  BY <1>2 DEF GuardRefuses, MarkFailed, FailJob, TypeOK
<1>. QED
  BY <1>2, <1>3, <1>4 DEF Move

LEMMA EveryMove ==
    ASSUME TypeOK, CalmOnly, CalmNext, NEW k \in Job
    PROVE  Move(k)
<1>1. ASSUME NEW j \in Job, Enqueue(j) PROVE Move(k)
  <2>1. /\ \A i \in Job \ {j} : job'[i] = job[i]
        /\ job'[j].status = "pending" /\ job'[j].attempts = job[j].attempts
        /\ persisted' = persisted
    BY <1>1 DEF Enqueue, TypeOK, JobRow
  <2>2. job[j].status = "absent" /\ job[j].attempts = 0
    BY <1>1 DEF Enqueue, CalmOnly, AbsentIsUnused
  <2>. QED
    BY <2>1, <2>2 DEF Move
<1>2. ASSUME NEW w \in Worker, PollRecover(w) PROVE Move(k)
  <2>1. Stale(k) => job'[k] = RecoverRow(job[k])
    BY <1>2 DEF PollRecover
  <2>2. ~Stale(k) => job'[k] = job[k]
    BY <1>2 DEF PollRecover
  <2>. QED
    BY <1>2, <2>1, <2>2, SweepMove, SameRowMove DEF PollRecover
<1>3. ASSUME NEW u \in User, RecoverStuck(u) PROVE Move(k)
  <2>1. job'[k] # job[k] => Stale(k) /\ job'[k] = RecoverStuckRow(job[k])
    BY <1>3 DEF RecoverStuck
  <2>. QED
    BY <1>3, <2>1, SweepMove, SameRowMove DEF RecoverStuck
<1>4. ASSUME NEW w \in Worker, NEW j \in Job, Claim(w, j) PROVE Move(k)
  <2>1. /\ \A i \in Job \ {j} : job'[i] = job[i]
        /\ job'[j] = ClaimRow(job[j]) /\ persisted' = persisted
    BY <1>4 DEF Claim, TypeOK
  <2>2. ClaimRow(job[j]).status = "processing" /\ ClaimRow(job[j]).attempts = job[j].attempts + 1
    BY DEF ClaimRow
  <2>3. job[j].status = "pending" /\ job[j].attempts < MaxAttempts
    BY <1>4 DEF Claim, Eligible
  <2>. QED
    BY <2>1, <2>2, <2>3 DEF Move
<1>5. ASSUME NEW w \in Worker,
             ClaimNothing(w) \/ GuardAllows(w) \/ ParseSucceeds(w) \/ PhaseFails(w)
               \/ HookEnds(w) \/ Abandon(w)
      PROVE  Move(k)
  BY <1>5, SameRowMove
  DEF ClaimNothing, GuardAllows, ParseSucceeds, PhaseFails, HookEnds, Abandon
<1>6. ASSUME NEW w \in Worker, GuardRefuses(w) \/ MarkFailed(w) PROVE Move(k)
  <2>1. k # worker[w].job => job'[k] = job[k] /\ persisted' = persisted
    BY <1>6 DEF GuardRefuses, MarkFailed, FailJob, TypeOK
  <2>. QED
    BY <1>6, <2>1, FailMove, SameRowMove
<1>7. ASSUME NEW w \in Worker, PersistAndAck(w) PROVE Move(k)
  <2>. DEFINE j == worker[w].job
  <2>1. /\ \A i \in Job \ {j} : job'[i] = job[i] /\ persisted'[i] = persisted[i]
        /\ j \in Job => job'[j] = AckRow(job[j]) /\ persisted'[j]
    BY <1>7 DEF PersistAndAck, PersistResult, TypeOK
  <2>2. j \in Job /\ job[j].status = "processing" /\ job[j] \in JobRow
    BY <1>7, EndClaimFacts DEF PersistAndAck, At, Busy, BusyPcs, TypeOK
  <2>3. AckRow(job[j]).status = "completed" /\ AckRow(job[j]).attempts = job[j].attempts
    BY <2>2 DEF AckRow, JobRow
  <2>. QED
    BY <2>1, <2>2, <2>3 DEF Move
<1>8. ASSUME NEW w \in Worker, Heartbeat(w) PROVE Move(k)
  <2>1. /\ job'[k].status = job[k].status /\ job'[k].attempts = job[k].attempts
        /\ persisted' = persisted
    BY <1>8 DEF Heartbeat, TypeOK, JobRow
  <2>. QED
    BY <2>1, SameRowMove
<1>9. ASSUME NEW o \in Operator, OperatorStep(o) PROVE Move(k)
  <2>. DEFINE j == operator[o].job
  <2>1. /\ j \in Job /\ job[j] \in JobRow /\ job[j].status = "dead_letter"
        /\ operator[o].pc = "reset" => job[j].attempts = 0
        /\ persisted' = persisted
    BY <1>9 DEF OperatorStep, ReplayReset, ReplayRequeue, ReplayAbort, TypeOK, CalmOnly,
                ReplayHoldsRow
  <2>2. /\ RequeueRow(job[j], operator[o]).status = "pending"
        /\ RequeueRow(job[j], operator[o]).attempts = job[j].attempts
    BY <2>1 DEF RequeueRow, JobRow
  <2>3. CASE ReplayReset(o)
    <3>1. k # j => job'[k] = job[k]
      BY <2>3 DEF ReplayReset, TypeOK
    <3>2. job'[j].status = "dead_letter"
      BY <2>1, <2>3 DEF ReplayReset, TypeOK, JobRow
    <3>. QED
      BY <2>1, <3>1, <3>2 DEF Move
  <2>4. CASE ReplayRequeue(o)
    <3>1. k # j => job'[k] = job[k]
      BY <2>4 DEF ReplayRequeue, TypeOK
    <3>2. job'[j] = RequeueRow(job[j], operator[o]) /\ job[j].attempts = 0
      BY <2>1, <2>4 DEF ReplayRequeue, TypeOK
    <3>. QED
      BY <2>1, <2>2, <3>1, <3>2 DEF Move
  <2>5. CASE ReplayAbort(o)
    BY <2>5, SameRowMove DEF ReplayAbort
  <2>. QED
    BY <1>9, <2>3, <2>4, <2>5 DEF OperatorStep
<1>10. ASSUME NEW o \in Operator, NEW j \in Job, LoneReplayRead(o, j) PROVE Move(k)
  BY <1>10, SameRowMove DEF LoneReplayRead, ReplayRead
<1>11. CASE PunctualTick
  <2>1. /\ AgedRow(job[k]).status = job[k].status
        /\ AgedRow(job[k]).attempts = job[k].attempts
    BY DEF AgedRow, TypeOK, JobRow
  <2>. QED
    BY <1>11, <2>1, SameRowMove DEF PunctualTick, Tick
<1>. QED
  BY <1>1, <1>2, <1>3, <1>4, <1>5, <1>6, <1>7, <1>8, <1>9, <1>10, <1>11
  DEF CalmNext, CommonNext, WorkerStep

(* Calm behaviours of the queue are behaviours of the promised lifecycle:    *)
(* initial states map to initial states, each step to a step or a stutter.   *)
THEOREM CalmImplementsLifecycle == CalmSpec => LifecycleSpec
<1>1. Init => Lifecycle!Init
  BY DEF Init, Lifecycle!Init, AbsentRow
<1>2. CalmInv /\ [CalmNext]_vars => [Lifecycle!Next]_(Lifecycle!vars)
  <2>. SUFFICES ASSUME CalmInv, [CalmNext]_vars
                PROVE  [Lifecycle!Next]_(Lifecycle!vars)
    OBVIOUS
  <2>1. CASE UNCHANGED vars
    BY <2>1 DEF vars, Lifecycle!vars
  <2>2. CASE CalmNext
    <3>1. TypeOK' /\ TypeOK /\ CalmOnly
      BY <2>2, CalmInductive DEF CalmInv, CalmOnly
    <3>2. \A j \in Job : Lifecycle!JobStep(j)
      BY <2>2, <3>1, EveryMove, MoveIsJobStep
    <3>. QED
      BY <3>1, <3>2 DEF Lifecycle!Next, TypeOK
  <2>. QED
    BY <2>1, <2>2
<1>. QED
  BY <1>1, <1>2, CalmInvariant, PTL DEF CalmSpec, LifecycleSpec, Lifecycle!Spec

(* A job reaches DEAD_LETTER only with its whole budget used.                *)
THEOREM CalmBuried == CalmSpec => BuriedWhenExhausted
<1>1. ASSUME CalmInv, [CalmNext]_vars, NEW j \in Job,
             job[j].status # "dead_letter", job'[j].status = "dead_letter"
      PROVE  job[j].attempts = MaxAttempts
  <2>1. CalmNext
    BY <1>1 DEF vars
  <2>2. Move(j)
    BY <1>1, <2>1, EveryMove DEF CalmInv, CalmOnly
  <2>. QED
    BY <1>1, <2>2 DEF Move
<1>2. CalmInv /\ [CalmNext]_vars =>
        [\A j \in Job : job[j].status # "dead_letter" /\ job'[j].status = "dead_letter"
                            => job[j].attempts = MaxAttempts]_vars
  BY <1>1
<1>. QED
  BY <1>2, CalmInvariant, PTL DEF CalmSpec, BuriedWhenExhausted

=============================================================================
