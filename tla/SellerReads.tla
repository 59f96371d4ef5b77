----------------------------- MODULE SellerReads -----------------------------
(***************************************************************************)
(* What a seller is shown of the ledger and the projections: the dashboard *)
(* summary and the analytics requests, while jobs, deletions and changes   *)
(* of the costs commit between their SELECTs (READ COMMITTED: a statement  *)
(* sees what is committed when it starts, a transaction no fixed snapshot).*)
(*                                                                         *)
(* A request is a set of branches, each a sequence of SELECTs on its own   *)
(* connection.  Three computations - the seller's KPIs, the trust in the   *)
(* profit and the freshness - are tasks; the branches of one dashboard     *)
(* share them by period (DashboardQueryCache), on the connection of the    *)
(* branch that asked first.  SELECTs no property tells apart (units,       *)
(* breakdown rows, stock, warnings) are left out.                          *)
(***************************************************************************)
EXTENDS WbLedger, Sequences

CONSTANTS
    Report,
    Book,           \* Report -> [entries, refunds, start, end, born, promo], see below
    Starts,         \* sets of reports that may be there from the start
    CostTables,     \* contents cost_history may have
    Pages,          \* requests: [cached, parts, pool], a part being [name, p, q],
                    \* the pool the connections left for the request
    MaxEvents       \* bound: transactions that write and SELECTs that fail

(* A book holds the entries of a report (quantity dropped, as projections     *)
(* drop it), the payouts of its return rows, the span of its SALE dates only  *)
(* - other entries may lie outside, None if it has no sale -, its place in    *)
(* the order of upload and the manual expenses typed in for it.               *)
IsPeriod(p) == p.from \in Int /\ p.to \in Int
IsBook(k) ==
    /\ AreDrafts(k.entries) /\ IsFiniteSet(k.refunds)
    /\ \A e \in k.entries : e.day \in Int
    /\ \A n \in k.refunds : n.day \in Int /\ n.amount \in Int

ASSUME ReadsAssumption ==
    /\ MaxEvents \in Nat
    /\ IsFiniteSet(Report) /\ \A R \in Starts : R \subseteq Report
    /\ \A r, s \in Report : Book[r].born = Book[s].born => r = s
    /\ \A T \in CostTables : IsCosts(T)
    /\ \A r \in Report : /\ Book[r].born \in Nat /\ IsBook(Book[r])
                         /\ Book[r].start # None => Book[r].start \in Int /\ Book[r].end \in Int
    /\ \A pg \in Pages :
          /\ pg.pool > 0 /\ (pg.cached \/ Cardinality(pg.parts) = 1)
          /\ \A n \in 0..MaxEvents : [cached |-> pg.cached, pool |-> pg.pool, found |-> n] # None
          /\ \A b \in pg.parts :
                /\ b.name \in {"revenue", "trend", "finance", "coverage", "costs", "reconcile", "compare"}
                /\ IsPeriod(b.p)
                /\ b.name = "compare" => IsPeriod(b.q)

VARIABLES
    loaded,         \* reports whose entries are committed
    done,           \* reports.status = PROCESSED
    costs,          \* cost_history
    drawn,          \* day -> the reports and costs its projections were drawn from
    owed,           \* a change of the costs still waits for its redraw
    events,         \* how many of them there were
    page,           \* the request, and how many it found
    branch,         \* part -> [state, got]: what its SELECTs and awaits returned
    task            \* the tasks of the request, by key

store == <<loaded, done, costs, drawn, owed>>
vars == <<store, events, page, branch, task>>

(***************************************************************************)
(* The tables.                                                             *)
(***************************************************************************)
Ledger(R) == UNION {Book[r].entries : r \in R}
Returns(R) == UNION {Book[r].refunds : r \in R}
In(E, p) == {e \in E : p.from <= e.day /\ e.day <= p.to}
Days(E) == {e.day : e \in E}
DaysOf(p) == p.from..p.to

(* Redrawing the days D from what the reports R hold. *)
Redrawn(D, R, table) ==
    [d \in (DOMAIN drawn \ D) \cup (D \cap Days(Ledger(R))) |->
        IF d \notin D THEN drawn[d]
        ELSE [from |-> {r \in R : d \in Days(Book[r].entries)}, costs |-> table]]

Init ==
    /\ loaded \in Starts /\ done = loaded /\ costs \in CostTables
    /\ drawn = [d \in Days(Ledger(loaded)) |->
                  [from |-> {r \in loaded : d \in Days(Book[r].entries)}, costs |-> costs]]
    /\ owed = FALSE /\ events = 0
    /\ page = None /\ branch = <<>> /\ task = <<>>

Write ==
    /\ events < MaxEvents
    /\ events' = events + 1
    /\ UNCHANGED <<page, branch, task>>

(* A streamed job's chunks are committed before ... *)
Load(r) ==
    /\ Write /\ r \notin loaded
    /\ loaded' = loaded \cup {r}
    /\ UNCHANGED <<done, costs, drawn, owed>>

(* ... the transaction that redraws its days and marks it PROCESSED. *)
Finish(r) ==
    /\ Write /\ r \in loaded \ done
    /\ done' = done \cup {r}
    /\ drawn' = Redrawn(Days(Book[r].entries), loaded, costs)
    /\ UNCHANGED <<loaded, costs, owed>>

(* delete_report: the days are redrawn while the ledger still holds the report. *)
Delete(r) ==
    /\ Write /\ r \in loaded
    /\ drawn' = Redrawn(Days(Book[r].entries), loaded, costs)
    /\ loaded' = loaded \ {r} /\ done' = done \ {r}
    /\ UNCHANGED <<costs, owed>>

EditCosts ==
    /\ Write
    /\ \E T \in CostTables \ {costs} : costs' = T
    /\ owed' = TRUE
    /\ UNCHANGED <<loaded, done, drawn>>

Refresh ==
    /\ Write /\ owed
    /\ owed' = FALSE
    /\ drawn' = Redrawn(Days(Ledger(loaded)), loaded, costs)
    /\ UNCHANGED <<loaded, done, costs>>

(***************************************************************************)
(* _canonical_finance_report_ids.                                          *)
(***************************************************************************)
Span(r) == [from |-> Book[r].start, to |-> Book[r].end]
Spanning(R) == {r \in R : Book[r].start # None}
Overlapping(R, p) == {r \in Spanning(R) : Book[r].start <= p.to /\ Book[r].end >= p.from}

(* Mutated: a report counts before it is processed. *)
AnyCandidates(p) == Overlapping(loaded, p)
Candidates(p) == Overlapping(done, p)

IsProperSubset(inner, outer) ==
    /\ Span(inner) # Span(outer)
    /\ Book[inner].start >= Book[outer].start /\ Book[inner].end <= Book[outer].end

(* The longer first, then the later, then the one uploaded last. *)
Before(r, s) ==
    LET Length(x) == Book[x].end - Book[x].start
    IN  \/ Length(r) > Length(s)
        \/ Length(r) = Length(s) /\ Book[r].end > Book[s].end
        \/ Span(r) = Span(s) /\ Book[r].born > Book[s].born
(* All reports with a period in that order, which no two share. *)
Ranks == 1..Cardinality(Spanning(Report))
Ordered == CHOOSE f \in [Ranks -> Spanning(Report)] : \A i, j \in Ranks : i < j => Before(f[i], f[j])

(* Mutated: reports of the same span are all kept. *)
KeepCopies(kept, r) == IF \E k \in kept : IsProperSubset(r, k) THEN kept ELSE kept \cup {r}
Keep(kept, r) ==
    IF \E k \in kept : Span(r) = Span(k) \/ IsProperSubset(r, k) THEN kept ELSE kept \cup {r}

(* The candidates C are gone through in their order; kept[n] is `selected'  *)
(* after the first n reports.                                               *)
SelectCanonical(C) ==
    LET kept[n \in {0} \cup Ranks] ==
          IF n = 0 THEN {}
          ELSE IF Ordered[n] \in C THEN Keep(kept[n - 1], Ordered[n]) ELSE kept[n - 1]
    IN  kept[Cardinality(Spanning(Report))]

(***************************************************************************)
(* SELECTs: the value of statement q over period p, given the canonical    *)
(* reports the reader found earlier.  "as_of" is the last projected day; the *)
(* reconciliation shows the ledger's instead, which no property compares.  *)
(***************************************************************************)
Amounts(E) == [op \in Ops |-> Total(E, {op})]
Paid(R) == MapThenSumSet(LAMBDA n : n.amount, R)

Projected(d) == {e \in Ledger(drawn[d].from) : e.day = d}
Drawn(p) == {d \in DOMAIN drawn : p.from <= d /\ d <= p.to}
CogsOn(d) == IF d \in DOMAIN drawn THEN Cogs(Sold(Projected(d)), drawn[d].costs) ELSE 0

(* Mutated: the trend reads the ledger of every report. *)
OfEveryReport(ids, p) == In(Ledger(loaded), p)
OfCanonical(ids, p) == In(Ledger(IF ids = {} THEN loaded ELSE ids \cap loaded), p)

(* sku_unit_economics_daily of a day, one row a SKU. *)
Skus(E) == {e.sku : e \in E} \ {None}
ContributionOn(d) ==
    MapThenSumSet(LAMBDA s : UnitEconomics({e \in Projected(d) : e.sku = s}, drawn[d].costs, s, d).profit,
                  Skus(Projected(d)))

Select(q, p, ids) ==
    CASE q = "canon"    -> SelectCanonical(Candidates(p))
      [] q = "cogs"     -> MapThenSumSet(CogsOn, Drawn(p))
      [] q = "ledger"   -> Amounts(IF ids = {} THEN In(Ledger(loaded), p) ELSE Ledger(ids \cap loaded))
      [] q = "refunds"  -> Paid(IF ids = {} THEN In(Returns(loaded), p) ELSE Returns(ids \cap loaded))
      [] q = "manual"   -> MapThenSumSet(LAMBDA r : Book[r].promo, ids \cap loaded)
      [] q = "by_day"   -> [d \in DaysOf(p) |-> Amounts({e \in OfCanonical(ids, p) : e.day = d})]
      [] q = "cogs_day" -> [d \in DaysOf(p) |-> CogsOn(d)]
      [] q = "back_day" -> [d \in DaysOf(p) |->
                              Paid({n \in Returns(IF ids = {} THEN loaded ELSE ids \cap loaded) : n.day = d})]
      [] q = "econ"     -> [cogs |-> MapThenSumSet(CogsOn, Drawn(p)),
                            profit |-> MapThenSumSet(ContributionOn, Drawn(p))]
      [] q = "selling"  -> Skus(Sold(UNION {Projected(d) : d \in Drawn(p)}))
      [] q = "costs"    -> costs
      [] q = "as_of"    -> IF DOMAIN drawn = {} THEN None ELSE Max(DOMAIN drawn)

(***************************************************************************)
(* Programs.                                                               *)
(***************************************************************************)
Steps(p, names) == [i \in DOMAIN names |-> [do |-> names[i], p |-> p]]

TaskProgram(k) ==
    Steps(k.p, CASE k.do = "kpis"  -> <<"cogs", "canon", "ledger", "refunds">>
                 [] k.do = "trust" -> <<"selling", "costs">>
                 [] k.do = "fresh" -> <<"as_of">>)

Program(b) ==
    CASE b.name = "revenue"   -> Steps(b.p, <<"kpis", "fresh", "trust">>)
      [] b.name = "trend"     -> Steps(b.p, <<"canon", "by_day", "cogs_day", "back_day", "trust", "fresh">>)
      [] b.name = "finance"   -> Steps(b.p, <<"fresh", "kpis", "canon", "manual", "trust">>)
      [] b.name = "coverage"  -> Steps(b.p, <<"fresh", "trust">>)
      [] b.name = "costs"     -> Steps(b.p, <<"fresh", "selling", "costs">>)
      [] b.name = "reconcile" -> Steps(b.p, <<"fresh", "ledger", "econ", "trust">>)
      [] b.name = "compare"   -> Steps(b.p, <<"kpis", "fresh", "trust">>)
                                   \o Steps(b.q, <<"kpis", "fresh", "trust">>)
                                   \o Steps(b.p, <<"fresh", "trust">>)

Shared == {"kpis", "trust", "fresh"}

(* _period_key: the branches of a dashboard meet in one task a period; a        *)
(* request of one branch computes afresh every time.  Mutated: all do.        *)
PeriodOf(step) == IF step.do = "fresh" THEN None ELSE step.p
OwnKey(b, i) == [do |-> Program(b)[i].do, p |-> PeriodOf(Program(b)[i]), of |-> <<b, i>>]
Key(b, i) ==
    [do |-> Program(b)[i].do, p |-> PeriodOf(Program(b)[i]),
     of |-> IF page.cached THEN None ELSE <<b, i>>]

Idle == [state |-> "queued", got |-> <<>>]
Ended(b) == branch[b].state = "failed" \/ Len(branch[b].got) = Len(Program(b))
Busy == {b \in DOMAIN branch : branch[b].state = "running" /\ ~Ended(b)}
Finished(k) == Len(task[k].got) = Len(TaskProgram(k))

Found(program, got) ==
    LET hits == {i \in DOMAIN got : program[i].do = "canon"}
    IN  IF hits = {} THEN {} ELSE got[Min(hits)]

(***************************************************************************)
(* A request.                                                              *)
(***************************************************************************)
Ask(pg) ==
    /\ page = None
    /\ page' = [cached |-> pg.cached, pool |-> pg.pool, found |-> events]
    /\ branch' = [b \in pg.parts |-> Idle]
    /\ UNCHANGED <<store, events, task>>

(* DashboardService._run: a session of its own; it keeps its connection. *)
Connect(b) ==
    /\ branch[b].state = "queued" /\ Cardinality(Busy) < page.pool
    /\ branch' = [branch EXCEPT ![b].state = "running"]
    /\ UNCHANGED <<store, events, page, task>>

Next1(b) == Program(b)[Len(branch[b].got) + 1]
NextKey(b) == Key(b, Len(branch[b].got) + 1)

SelectOwn(b) ==
    /\ b \in Busy /\ Next1(b).do \notin Shared
    /\ branch' = [branch EXCEPT ![b].got =
                    Append(@, Select(Next1(b).do, Next1(b).p, Found(Program(b), @)))]
    /\ UNCHANGED <<store, events, page, task>>

StartTask(b) ==
    /\ b \in Busy /\ Next1(b).do \in Shared /\ NextKey(b) \notin DOMAIN task
    /\ task' = [k \in DOMAIN task \cup {NextKey(b)} |->
                  IF k \in DOMAIN task THEN task[k] ELSE [state |-> "running", got |-> <<>>]]
    /\ UNCHANGED <<store, events, page, branch>>

(* The task runs on the connection of its creator, who waits.  Mutated: it    *)
(* needs one more.                                                         *)
OneMoreConnection(k) == task[k].state = "running" /\ ~Finished(k) /\ Cardinality(Busy) < page.pool
MayRun(k) == task[k].state = "running" /\ ~Finished(k)

RunTask(k) ==
    /\ MayRun(k)
    /\ LET step == TaskProgram(k)[Len(task[k].got) + 1]
       IN  task' = [task EXCEPT ![k].got =
                      Append(@, Select(step.do, step.p, Found(TaskProgram(k), @)))]
    /\ UNCHANGED <<store, events, page, branch>>

(* A failed task stays in the cache and fails whoever awaits it. *)
Await(b) ==
    /\ b \in Busy /\ Next1(b).do \in Shared /\ NextKey(b) \in DOMAIN task
    /\ \/ /\ Finished(NextKey(b))
          /\ branch' = [branch EXCEPT ![b].got = Append(@, task[NextKey(b)].got)]
       \/ /\ task[NextKey(b)].state = "failed"
          /\ branch' = [branch EXCEPT ![b].state = "failed"]
    /\ UNCHANGED <<store, events, page, task>>

Fail ==
    /\ events < MaxEvents /\ events' = events + 1
    /\ \/ \E b \in Busy :
            /\ Next1(b).do \notin Shared
            /\ branch' = [branch EXCEPT ![b].state = "failed"] /\ UNCHANGED task
       \/ \E k \in DOMAIN task :
            /\ task[k].state = "running" /\ ~Finished(k)
            /\ task' = [task EXCEPT ![k].state = "failed"] /\ UNCHANGED branch
    /\ UNCHANGED <<store, page>>

Progress ==
    \/ \E b \in DOMAIN branch : Connect(b) \/ SelectOwn(b) \/ StartTask(b) \/ Await(b)
    \/ \E k \in DOMAIN task : RunTask(k)

Next ==
    \/ \E r \in Report : Load(r) \/ Finish(r) \/ Delete(r)
    \/ EditCosts \/ Refresh
    \/ \E pg \in Pages : Ask(pg)
    \/ Progress
    \/ Fail

Spec == Init /\ [][Next]_vars /\ WF_vars(Progress)

(***************************************************************************)
(* Answers.                                                                *)
(***************************************************************************)
Abs(n) == IF n < 0 THEN -n ELSE n

Answered(name) == {b \in DOMAIN branch : b.name = name /\ Len(branch[b].got) = Len(Program(b))}
Read(b, q, p) ==
    branch[b].got[CHOOSE i \in DOMAIN Program(b) :
                    /\ Program(b)[i] = [do |-> q, p |-> p]
                    /\ \A j \in 1..(i - 1) : Program(b)[j] # [do |-> q, p |-> p]]

(* compute_seller_kpis *)
SellerKpis(amounts, refunds, cogs) ==
    LET due == amounts["payout"] - refunds - Abs(amounts["logistics"])
                  - Abs(amounts["storage_fee"]) - Abs(amounts["deduction"])
    IN  [revenue |-> amounts["sale"], due |-> due, cogs |-> cogs, profit |-> due - cogs]

(* _sku_cost_coverage_pct judges every SKU on the last day of the period.   *)
Costed(table, sku, day) == \E c \in History(table, sku) : c.from <= day

(* The share of SKUs with a cost is rounded to 0.01 %, half of that to the   *)
(* even: it is 100 % if one in 20000 has none.                             *)
FullyCosted(selling, table, day) ==
    LET missing == {s \in selling : ~Costed(table, s, day)}
    IN  selling # {} /\ (missing = {} \/ 20000 * Cardinality(missing) <= Cardinality(selling))

(* classify_profit_trust: full at 100 %, partial from 1 %, which 0.995 % is.  *)
Trust(selling, table, p) ==
    LET covered == {s \in selling : Costed(table, s, p.to)}
    IN  IF selling = {} THEN "insufficient"
        ELSE IF FullyCosted(selling, table, p.to) THEN "full"
        ELSE IF 20000 * Cardinality(covered) >= 199 * Cardinality(selling) THEN "partial"
        ELSE "insufficient"

(* sales_coverage_gaps: the dashboard's cost coverage, asked for once more and *)
(* rounded likewise, is 100 %.                                             *)
AllCosted(b) == FullyCosted(Read(b, "selling", b.p), Read(b, "costs", b.p), b.p.to)

(* gate_profit_decimal *)
Shown(trust, profit) == IF trust = "insufficient" THEN None ELSE profit

TrustOf(b, p) == LET t == Read(b, "trust", p) IN Trust(t[1], t[2], p)
KpisOf(b, p) == LET k == Read(b, "kpis", p) IN SellerKpis(k[3], k[4], k[1])

(* revenue_summary; financial_summary, which shows the manual expenses beside *)
(* the profit; revenue_trend.                                              *)
RevenueProfit(b, p) == Shown(TrustOf(b, p), KpisOf(b, p).profit)
FinanceProfit(b, p) == Shown(TrustOf(b, p), KpisOf(b, p).profit)
TrendPoint(b, d) ==
    SellerKpis(Read(b, "by_day", b.p)[d], Read(b, "back_day", b.p)[d], Read(b, "cogs_day", b.p)[d])
TrendProfit(b) ==
    Shown(TrustOf(b, b.p), MapThenSumSet(LAMBDA d : TrendPoint(b, d).profit, DaysOf(b.p)))

(* expected_payout *)
ExpectedPayout(amounts) ==
    amounts["sale"] + amounts["compensation"]
      - MapThenSumSet(LAMBDA op : Abs(amounts[op]), Ops \ {"sale", "compensation", "payout"})

(***************************************************************************)
(* Properties.                                                             *)
(***************************************************************************)
Periods == UNION {{b.p, b.q} : b \in UNION {pg.parts : pg \in Pages}} \ {None}

(* The tables hold reports that exist, no branch reads without a connection  *)
(* and no more of them have one than there are.                            *)
TypeOK ==
    /\ done \subseteq loaded /\ loaded \subseteq Report
    /\ costs \in CostTables /\ owed \in BOOLEAN
    /\ \A d \in DOMAIN drawn : drawn[d].from \subseteq Report /\ drawn[d].costs \in CostTables
    /\ events \in 0..MaxEvents
    /\ page # None => Cardinality(Busy) <= page.pool
    /\ \A b \in DOMAIN branch :
          /\ branch[b].state \in {"queued", "running", "failed"}
          /\ branch[b].state = "queued" => branch[b].got = <<>>
    /\ \A k \in DOMAIN task : task[k].state \in {"running", "failed"}

(* The reports whose ledgers make up the KPIs: no candidate is lost - each   *)
(* one has a selected report around it - and none counts twice by lying      *)
(* within another or by having been uploaded again, when the last counts.    *)
SelectionIsCover ==
    \A p \in Periods :
        LET C == Candidates(p)
            S == SelectCanonical(C)
        IN  /\ S \subseteq C
            /\ \A r \in C : \E s \in S : Span(r) = Span(s) \/ IsProperSubset(r, s)
            /\ \A s \in S, r \in C : ~IsProperSubset(s, r)
            /\ \A s \in S, r \in C : Span(r) = Span(s) => Book[r].born <= Book[s].born

(* Nothing was committed, and nothing failed, since the request was made. *)
Calm == page # None /\ events = page.found

(* Whatever commits while a dashboard is put together, its branches agree on *)
(* a period's trust - and so on what is hidden -, on the data's age, and the *)
(* two summaries on the profit; if nothing does, the cost coverage agrees too. *)
OneDashboardOneTruth ==
    page # None /\ page.cached =>
        LET Have(q) == {b \in DOMAIN branch : \E i \in DOMAIN branch[b].got : Program(b)[i].do = q
                                              /\ Len(branch[b].got) = Len(Program(b))}
        IN  /\ \A b, c \in Have("trust") : b.p = c.p => TrustOf(b, b.p) = TrustOf(c, c.p)
            /\ \A b \in Answered("costs"), c \in Have("trust") :
                  b.p = c.p /\ Calm => (AllCosted(b) <=> TrustOf(c, c.p) = "full")
            /\ \A b, c \in Have("fresh") : Read(b, "fresh", b.p) = Read(c, "fresh", c.p)
            /\ \A b \in Answered("revenue"), c \in Answered("finance") :
                  b.p = c.p => RevenueProfit(b, b.p) = FinanceProfit(c, c.p)

Selected(p) == SelectCanonical(Candidates(p))
Within(R, p) == \A x \in Ledger(R) \cup Returns(R) : p.from <= x.day /\ x.day <= p.to

(* The daily profits of the trend add up to the profit of the summary unless *)
(* a counted report has entries outside the period, though the two ask for   *)
(* reports, ledger, returns and costs by statements of their own; and what   *)
(* the reconciliation expects to be paid, from the ledger, is the profit and *)
(* the costs of the SKUs, from their projection, and the entries without SKU *)
(* - if every report of the ledger is projected, and none that was deleted.  *)
SurfacesAddUp ==
    Calm =>
        /\ \A b \in Answered("trend"), c \in Answered("revenue") :
              b.p = c.p /\ Within(Selected(b.p), b.p) => TrendProfit(b) = RevenueProfit(c, c.p)
        /\ \A b \in Answered("reconcile") :
              LET E == In(Ledger(loaded), b.p)
                  econ == Read(b, "econ", b.p)
              IN  /\ \A d \in DaysOf(b.p) : d \in Days(E) \cup DOMAIN drawn =>
                          d \in DOMAIN drawn /\ drawn[d].from = {r \in loaded : d \in Days(Book[r].entries)}
                  => ExpectedPayout(Read(b, "ledger", b.p)) =
                        econ.profit + econ.cogs + NetAmount({e \in E : e.sku = None})

DrawnFrom(p) == UNION {drawn[d].from : d \in Drawn(p)}
Returning(p) == {r \in done : In(Book[r].refunds, p) # {}}

(* A profit that is shown is what the marketplace pays for the period less   *)
(* the unit costs on the days of sale, as far as they are known, after       *)
(* whatever uploads, deletions and changes of the costs - provided the last  *)
(* change is redrawn, every report with projected days or returned goods in  *)
(* the period is one the KPIs count, and none of these has entries outside.  *)
GovernedIsExact ==
    \A b \in Answered("revenue") :
        LET p == b.p
            E == In(Ledger(done), p)
        IN  /\ Calm /\ ~owed /\ TrustOf(b, p) # "insufficient"
            /\ DrawnFrom(p) \cup Returning(p) \subseteq Selected(p) /\ Within(Selected(p), p)
            => RevenueProfit(b, p) = Total(E, {"payout", "logistics", "storage_fee", "deduction"}) - Paid(In(Returns(done), p))
                                       - Cogs(Sold(E), costs)

(* A request is answered, or fails, whatever its branches share and however  *)
(* few connections there are.                                              *)
EveryoneIsAnswered == page # None ~> \A b \in DOMAIN branch : Ended(b)
==============================================================================
