------------------------------- MODULE CostBook -------------------------------
(***************************************************************************)
(* The book of unit costs of one tenant (cost_history): files imported      *)
(* into it line by line, rows created, edited and deleted meanwhile, and    *)
(* the readings of "the cost of a SKU on a day" that the projections, the   *)
(* cost list and the stock pages each do in their own way.                  *)
(*                                                                         *)
(* Amounts count in halves of the unit the column cost keeps (a kopeck):    *)
(* the four components have more decimals than their stored sum.            *)
(* A header is a column with the set of aliases found inside its text.      *)
(* effective_to is never written, so it is left out.                        *)
(***************************************************************************)
EXTENDS Integers, Sequences, FiniteSetsExt

CONSTANTS
    Session,        \* requests served at the same time
    Sku, Norm,      \* names, and Norm: name -> name stripped and case folded
    MapsTo,         \* some names -> Sku: sku_mappings, marketplace to internal
    Day,            \* days, a set of numbers
    Files,          \* [cols, lines]; a line holds a cell for every column
    NoSku,          \* the SKU a blank cell reads as: str(NaN)
    Blank,          \* a cell of spaces
    Null,
    MaxActs         \* bound: requests begun

(* _COST_IMPORT_ALIASES, the Russian aliases by their meaning. *)
Aliases ==
    [sku       |-> <<"internal_sku", "sku", "article", "supplier article">>,
     day       |-> <<"effective_from", "date", "day", "start day">>,
     product   |-> <<"product_cost", "cost", "prime cost", "product cost">>,
     packaging |-> <<"packaging_cost", "packing", "packaging">>,
     inbound   |-> <<"inbound_logistics_cost", "logistics", "haulage", "inbound logistics">>,
     extra     |-> <<"additional_cost", "extra", "additional">>,
     currency  |-> <<"currency", "money">>]
Amounts == {"product", "packaging", "inbound", "extra"}

ASSUME CostBookAssumption ==
    /\ Norm \in [Sku -> Sku] /\ DOMAIN MapsTo \subseteq Sku
    /\ \A m \in DOMAIN MapsTo : MapsTo[m] \in Sku
    /\ NoSku \in Sku /\ Blank \notin Sku
    /\ Day \subseteq Nat /\ \E last \in Day : \A d \in Day : d <= last
    /\ MaxActs \in Nat

VARIABLES
    book,           \* rows of cost_history
    acts,           \* requests begun; dates the transactions (now())
    session,        \* Session -> the request it serves
    fresh           \* the file that was imported with nobody else writing
                    \* then or since
bookVars == <<book, acts, session, fresh>>

Rounded(fine) == fine + (fine % 2)      \* to the kopeck, halves up

-------------------------------------------------------------------------------
(***************************************************************************)
(* Reading a file.                                                          *)
(***************************************************************************)
(* Mutated: the first column that holds any alias. *)
ColumnByAny(cols, field) ==
    Min({0} \cup {c \in DOMAIN cols : \E k \in DOMAIN Aliases[field] : Aliases[field][k] \in cols[c]})

(* The first alias some header holds decides, then the first such header.   *)
Column(cols, field) ==
    LET Holding(k) == {c \in DOMAIN cols : Aliases[field][k] \in cols[c]}
        hits == {k \in DOMAIN Aliases[field] : Holding(k) # {}}
    IN  IF hits = {} THEN 0 ELSE Min(Holding(Min(hits)))

Accepted(f) == \A field \in {"sku", "day", "product"} : Column(f.cols, field) # 0

Cell(f, l, field) == IF Column(f.cols, field) = 0 THEN Null ELSE l[Column(f.cols, field)]
Amount(f, l, field) == IF Cell(f, l, field) = Null THEN 0 ELSE Cell(f, l, field)

(* A file is a sequence of lines whose dates, where they parse, are days.   *)
ASSUME FilesAssumption ==
    \A f \in Files :
      /\ f # Null /\ Len(f.lines) \in Nat /\ DOMAIN f.lines = 1..Len(f.lines)
      /\ \A i \in DOMAIN f.lines : Cell(f, f.lines[i], "day") \in Day \cup {Null}

Total(f, l) == FoldSet(LAMBDA a, n : n + Amount(f, l, a), 0, Amounts)

HasCost(f, l) == Amount(f, l, "product") > 0

(* What an import makes of a line it does not skip: str() of a blank cell   *)
(* is a name, and a currency.                                               *)
Legible(f, l) == Cell(f, l, "sku") # Blank /\ Cell(f, l, "day") # Null /\ HasCost(f, l)
Read(f, l) ==
    [sku  |-> IF Cell(f, l, "sku") = Null THEN NoSku ELSE Cell(f, l, "sku"),
     day  |-> Cell(f, l, "day"),
     fine |-> Total(f, l),
     cur  |-> CASE Column(f.cols, "currency") = 0 \/ Cell(f, l, "currency") = Blank -> "RUB"
                [] Column(f.cols, "currency") # 0 /\ Cell(f, l, "currency") = Null -> "nan"
                [] OTHER -> Cell(f, l, "currency")]

-------------------------------------------------------------------------------
(***************************************************************************)
(* The book and its writers.                                                *)
(***************************************************************************)
Row(p, id, born) ==
    [id |-> id, sku |-> p.sku, day |-> p.day, fine |-> p.fine,
     cost |-> Rounded(p.fine), cur |-> p.cur, born |-> born]

Idle == [pc |-> "idle", file |-> Null, checked |-> FALSE, born |-> 0, at |-> 1,
         added |-> << >>, alone |-> TRUE, row |-> Null]

BookInit ==
    /\ book = {} /\ acts = 0 /\ fresh = Null
    /\ session = [s \in Session |-> Idle]

Writing(s) == session[s].pc \in {"import", "open"}

(* s starts to serve a request that writes. *)
Starts(s, now) ==
    /\ session[s].pc = "idle" /\ acts < MaxActs
    /\ acts' = acts + 1
    /\ session' = [t \in Session |->
          IF t = s THEN [now EXCEPT !.born = acts + 1, !.alone = ~\E u \in Session : Writing(u)]
          ELSE [session[t] EXCEPT !.alone = FALSE]]

(* bulk_import_v2 (checked: looks for duplicates) and bulk_import. *)
StartImport(s) ==
    /\ \E f \in Files, c \in BOOLEAN :
          Accepted(f) /\ Starts(s, [Idle EXCEPT !.pc = "import", !.file = f, !.checked = c])
    /\ UNCHANGED <<book, fresh>>

OfKey(p) == {r \in book : r.sku = p.sku /\ r.day = p.day}

(* The row an import compares with: the last to be created, any one of them *)
(* if one transaction created several.                                      *)
(* Mutated: the first. *)
FirstOf(p) == {r \in OfKey(p) : \A q \in OfKey(p) : r.born <= q.born}
LatestOf(p) == {r \in OfKey(p) : \A q \in OfKey(p) : q.born <= r.born}

Same(r, p) == r.cost = p.fine /\ r.cur = p.cur

(* One line: a SELECT, and perhaps an object that is written at the end.    *)
ReadLine(s) ==
    LET k == session[s]  f == k.file  l == f.lines[k.at]  p == Read(f, l) IN
    /\ k.pc = "import" /\ k.at <= Len(f.lines)
    /\ LET Skip == session' = [session EXCEPT ![s].at = @ + 1]
           Add == session' = [session EXCEPT ![s].at = @ + 1, ![s].added = Append(@, p)]
       IN  \/ ~Legible(f, l) /\ Skip
           \/ Legible(f, l) /\ (~k.checked \/ OfKey(p) = {}) /\ Add
           \/ /\ Legible(f, l) /\ k.checked
              /\ \E r \in LatestOf(p) : IF Same(r, p) THEN Skip ELSE Add
    /\ UNCHANGED <<book, acts, fresh>>

NextId == Max({0} \cup {r.id : r \in book}) + 1

CommitImport(s) ==
    LET k == session[s] IN
    /\ k.pc = "import" /\ k.at > Len(k.file.lines)
    /\ book' = book \cup {Row(k.added[i], NextId + i, k.born) : i \in DOMAIN k.added}
    /\ fresh' = IF k.alone /\ k.checked THEN k.file ELSE Null
    /\ session' = [session EXCEPT ![s] = Idle]
    /\ UNCHANGED acts

(* create_cost: one transaction. *)
Create(s) ==
    /\ Starts(s, Idle)
    /\ \E f \in Files : \E i \in DOMAIN f.lines :
          /\ Legible(f, f.lines[i])
          /\ book' = book \cup {Row(Read(f, f.lines[i]), NextId, acts + 1)}
    /\ fresh' = Null

(* delete_cost and update_cost: the row is read in a transaction of its own. *)
GetCost(s) ==
    /\ \E r \in book, pc \in {"delete", "edit"} : Starts(s, [Idle EXCEPT !.pc = pc, !.row = r])
    /\ UNCHANGED <<book, fresh>>

DeleteCost(s) ==
    /\ session[s].pc = "delete"
    /\ book' = {r \in book : r.id # session[s].row.id}
    /\ session' = [t \in Session |-> IF t = s THEN Idle ELSE [session[t] EXCEPT !.alone = FALSE]]
    /\ fresh' = Null
    /\ UNCHANGED acts

(* Assigning to the row opens the transaction of the session, so that       *)
(* _rls_transaction finds one: it neither binds the tenant nor commits, and *)
(* get_db rolls back.  With row security forced the UPDATE finds no tenant  *)
(* and fails; without it the answer says what was never stored.             *)
UpdateCost(s) ==
    /\ session[s].pc = "edit"
    /\ session' = [session EXCEPT ![s] = Idle]
    /\ UNCHANGED <<book, acts, fresh>>

BookNext == \E s \in Session :
    \/ StartImport(s) \/ ReadLine(s) \/ CommitImport(s) \/ Create(s)
    \/ GetCost(s) \/ DeleteCost(s) \/ UpdateCost(s)

BookSpec == BookInit /\ [][BookNext]_bookVars

-------------------------------------------------------------------------------
(***************************************************************************)
(* What a SKU costs on a day.                                               *)
(***************************************************************************)
History(sku) == {r \in book : r.sku = sku}
Costed == {r.sku : r \in book}

(* build_cost_lookup: every name is entered as it is and folded, the names  *)
(* of the marketplace over them; who comes last wins.                       *)
Entered(key) == {x \in Costed : key \in {x, Norm[x]}}
Mapped(key) == {MapsTo[m] : m \in {n \in DOMAIN MapsTo : key \in {n, Norm[n]} /\ MapsTo[n] \in Costed}}
Owners(key) == IF Mapped(key) # {} THEN Mapped(key) ELSE Entered(key)
Resolved(sku) == IF Owners(sku) # {} THEN Owners(sku) ELSE Owners(Norm[sku])

(* unit_cost_on_date: the rows of the last day not after this one, the      *)
(* first of them in no particular order.                                    *)
(* Mutated: a cost applies from the day after. *)
AppliedAfter(rows, day) ==
    {r \in rows : r.day < day /\ \A q \in rows : q.day < day => q.day <= r.day}
Applied(rows, day) ==
    {r \in rows : r.day <= day /\ \A q \in rows : q.day <= day => q.day <= r.day}

UnitCosts(sku, day) == {r.fine : r \in UNION {Applied(History(x), day) : x \in Resolved(sku)}}

(* _unit_costs_as_of, in SQL, for the stock pages: the maximum by SKU, then *)
(* a join, then the last row of the result.                                 *)
CostsAsOf(sku, day) ==
    LET before == {r \in History(sku) : r.day <= day}
        eff == Max({0} \cup {r.day : r \in before})
    IN  {r.cost : r \in {q \in before : q.day = eff}}

(* filter_costs_as_of over the list, newest day first. *)
ListedCosts(sku, day) ==
    {r.cost : r \in {q \in History(sku) : q.day <= day /\ ~\E w \in History(sku) :
                                            w.day <= day /\ w.day > q.day}}

-------------------------------------------------------------------------------
(***************************************************************************)
(* Properties.                                                              *)
(***************************************************************************)
Prices(f) == {Read(f, f.lines[i]) : i \in {j \in DOMAIN f.lines : Legible(f, f.lines[j])}}
Price == UNION {Prices(f) : f \in Files}
BookRow == {Row(p, id, born) : p \in Price, id \in Nat, born \in 1..MaxActs}
Request ==
    [pc : {"idle", "import", "delete", "edit"}, file : Files \cup {Null}, checked : BOOLEAN,
     born : 0..MaxActs, at : Nat, added : Seq(Price), alone : BOOLEAN, row : BookRow \cup {Null}]

(* Every row of the book is what some line of a file says, its cost the sum  *)
(* rounded to what the column keeps.                                        *)
BookTyped ==
    /\ book \subseteq BookRow /\ acts \in 0..MaxActs
    /\ fresh \in Files \cup {Null}
    /\ session \in [Session -> Request]

Plain(f) ==
    \A i, j \in DOMAIN f.lines :
      LET p == Read(f, f.lines[i])  q == Read(f, f.lines[j]) IN
        Legible(f, f.lines[i]) =>
          /\ Rounded(p.fine) = p.fine
          /\ (i # j /\ Legible(f, f.lines[j])) => <<p.sku, p.day>> # <<q.sku, q.day>>

(* No import left two rows of one SKU and day, of which none is the last.   *)
NoTwins ==
    \A r, q \in book : <<r.sku, r.day, r.born>> = <<q.sku, q.day, q.born>> => r = q

(* Importing a file again, nobody else having written then or since, adds   *)
(* nothing to the book (bulk_import_v2 compares with the row created last)  *)
(* -- if no two lines of it, or of an earlier file, are about one SKU and   *)
(* day and no sum is finer than the column that keeps it.                   *)
ImportIsOnce ==
    [][\A s \in Session :
         LET k == session[s] IN
           (/\ CommitImport(s) /\ k.checked /\ k.alone
            /\ fresh = k.file /\ Plain(k.file) /\ NoTwins) => book' = book]_bookVars

(* A name nobody else answers to in the lookup. *)
Unmistakable(sku) ==
    /\ \A x \in Costed : Norm[x] = sku => x = sku
    /\ \A m \in DOMAIN MapsTo : sku \in {m, Norm[m]} => MapsTo[m] = sku
Settled(sku, day) == Cardinality({r.fine : r \in Applied(History(sku), day)}) <= 1

(* The profit of a sale, the value of the stock and the list of the costs   *)
(* take one and the same cost for a SKU with costs of its own on any day,   *)
(* up to the rounding of the stored sum -- if its name is taken for no      *)
(* other's and no two rows of the deciding day differ.                      *)
SurfacesAgree ==
    \A sku \in Costed, day \in Day :
      Unmistakable(sku) /\ Settled(sku, day) =>
        /\ CostsAsOf(sku, day) = {Rounded(n) : n \in UnitCosts(sku, day)}
        /\ ListedCosts(sku, day) = CostsAsOf(sku, day)
==============================================================================
