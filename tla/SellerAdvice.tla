----------------------------- MODULE SellerAdvice -----------------------------
(***************************************************************************)
(* What the seller is told first: from the figures of a period (and of the  *)
(* one it is compared with) to the three insights that lead the             *)
(* recommendation.  The stages are those of the program: bullets are        *)
(* written about the SKUs, ten analysts report findings, the aggregator     *)
(* suppresses those that contradict one another, and the priority engine    *)
(* collects everything, scores it and picks.                                *)
(*                                                                         *)
(* The program decides by looking for words in the sentences it has just    *)
(* written.  A sentence is here the set of the words it is asked about      *)
(* (says); two sentences are the same where the program cannot tell them    *)
(* apart (text).                                                            *)
(*                                                                         *)
(* Money is counted in hundreds of roubles, percentages in tenths,          *)
(* confidence in hundredths, quality in quarters of a point.                *)
(***************************************************************************)
EXTENDS Integers, Sequences, FiniteSets, FiniteSetsExt, SequencesExt

CONSTANT Figures    \* what the tables may hold when advice is asked for

(* early, late and then give each SKU a row: the two halves of the period   *)
(* and the period it is compared with (asked: there is one; long: more      *)
(* than a day).  settled and earned are the revenue and the profit of the   *)
(* settlement, cov the share of SKUs with a cost, shelf what lies in the    *)
(* warehouse, the dearest first (idle: days without a sale; worth 0: cost   *)
(* unknown), stocked whether there are snapshots at all.                    *)
Columns == {"units", "revenue", "profit", "cost", "fee", "freight", "back", "rest"}

ASSUME SellerAdviceAssumption ==
    \A f \in Figures :
      /\ {"early", "late", "then", "asked", "long", "settled", "earned", "cov",
          "shelf", "stocked"} \subseteq DOMAIN f
      /\ DOMAIN f.early = DOMAIN f.late /\ DOMAIN f.late = DOMAIN f.then
      /\ \A k \in DOMAIN f.then : DOMAIN f.then[k] = Columns
      /\ \A i \in DOMAIN f.shelf : i > 1 => f.shelf[i - 1].worth >= f.shelf[i].worth

VARIABLES
    stage,      \* how far the advice has got
    figures,    \* the figures it is about, with their totals
    told,       \* the bullets, and the headline
    findings,   \* what the analysts report
    insights,   \* what the aggregator lets pass, by rank
    items,      \* what the priority engine collects
    lead        \* what it picks

adviceVars == <<stage, figures, told, findings, insights, items, lead>>

NoFigures == [asked |-> FALSE]
NoHeadline == -1
Unsaid == [bullets |-> << >>, headline |-> NoHeadline]

AdviceInit ==
    /\ stage = "idle" /\ figures = NoFigures /\ told = Unsaid
    /\ findings = << >> /\ insights = << >> /\ items = {} /\ lead = << >>

-------------------------------------------------------------------------------
Magnitude(x) == IF x < 0 THEN -x ELSE x
First(n, s) == SubSeq(s, 1, IF n < Len(s) THEN n ELSE Len(s))
If(c, s) == IF c THEN s ELSE << >>

(* Decimal.quantize: to the nearest, a half to the even neighbour. *)
RoundDiv(a, b) ==
    LET q == a \div b  twice == 2 * (a % b) IN
      IF twice > b \/ (twice = b /\ q % 2 = 1) THEN q + 1 ELSE q

Share(part, whole) == RoundDiv(1000 * part, whole)
Change(a, b) == RoundDiv(1000 * (a - b), Magnitude(b))

(* The n members of S of greatest v: each has its place by how many lead it. *)
Leaders(S, v, n) ==
    LET place == [i \in S |-> 1 + Cardinality({j \in S : v[j] > v[i] \/ (v[j] = v[i] /\ j < i)})]
    IN  First(n, [r \in 1 .. Cardinality(S) |-> CHOOSE i \in S : place[i] = r])

Totals(rows) ==
    [c \in Columns |-> MapThenSumSet(LAMBDA k : rows[k][c], DOMAIN rows)]

Together(a, b) == [k \in DOMAIN a |-> [c \in Columns |-> a[k][c] + b[k][c]]]
Column(rows, c) == [k \in DOMAIN rows |-> rows[k][c]]
Gain(a, b, c) == [k \in DOMAIN a |-> a[k][c] - b[k][c]]
Sold(rows) == {k \in DOMAIN rows : rows[k].revenue > 0}

(* Advice is asked for: the figures as they are then. *)
Ask ==
    /\ stage = "idle"
    /\ \E f \in Figures :
         \E now \in {Together(f.early, f.late)} :
           figures' = [asked |-> f.asked, long |-> f.long, cov |-> f.cov,
                       settled |-> f.settled, earned |-> f.earned,
                       stocked |-> f.stocked, shelf |-> f.shelf,
                       now |-> now, then |-> f.then,
                       early |-> f.early, late |-> f.late,
                       all |-> Totals(now), base |-> Totals(f.then),
                       first |-> Totals(f.early), second |-> Totals(f.late)]
    /\ stage' = "asked"
    /\ UNCHANGED <<told, findings, insights, items, lead>>

-------------------------------------------------------------------------------
(***************************************************************************)
(* Bullets: what changed from b to a and why, then single SKUs, then the    *)
(* warehouse.                                                              *)
(***************************************************************************)
RevenueCauses(a, b) ==
    LET sold == a.units - b.units
        gap == Magnitude(a.revenue - b.revenue)
        volume == 4 * Magnitude(sold * b.revenue) >= gap * b.units
        price == 20 * Magnitude(a.revenue * b.units - a.units * b.revenue)
                   >= 7 * gap * b.units
    IN  If(a.units > 0 /\ b.units > 0,
           << {IF Change(a.revenue, b.revenue) >= 0 THEN "rose" ELSE "fell"}
              \cup (IF Magnitude(sold) >= 3 /\ volume THEN {"factor"}
                    ELSE IF price THEN {"driver"} ELSE {}) >>)

(* Profit lags revenue by more than two points, whichever way it went. *)
ProfitLags(a, b) ==
    /\ b.profit # 0 /\ a.revenue > 0
    /\ Change(a.revenue, b.revenue) # 0
    /\ Change(a.profit, b.profit) < Change(a.revenue, b.revenue) - 20

ExpenseKinds == <<"cost", "fee", "freight", "rest", "back">>
WordOf == [cost |-> {"cost"}, fee |-> {"fee"}, freight |-> {"freight"}, rest |-> {},
           back |-> {"return"}]

(* The two shares of revenue that moved most, by at least 0.3 points, the   *)
(* way that explains the margin.                                            *)
MovedShares(a, b, sign) ==
    LET moved == [i \in DOMAIN ExpenseKinds |->
                    sign * (a[ExpenseKinds[i]] * b.revenue - b[ExpenseKinds[i]] * a.revenue)]
        enough == {i \in DOMAIN ExpenseKinds : 1000 * moved[i] >= 3 * a.revenue * b.revenue}
    IN  ToSet(Leaders(enough, moved, 2))

CostMix(a, b) ==
    LET gap == Share(a.profit, a.revenue) - Share(b.profit, b.revenue)
        words == {WordOf[ExpenseKinds[i]] : i \in MovedShares(a, b, IF gap < 0 THEN 1 ELSE -1)}
    IN  CASE gap \in -4 .. 4 -> {"none"}
          [] gap \notin -4 .. 4 /\ words # {} -> UNION words
          [] gap < -4 /\ words = {} -> {"freight", "fee", "cost", "sku"}
          [] gap > 4 /\ words = {} -> {}

ProfitCauses(a, b, after, before) ==
    LET gain == Gain(after, before, "profit")
        more == Gain(after, before, "revenue")
        losers == {k \in DOMAIN gain : gain[k] < -5}
        worst == Head(Leaders(DOMAIN gain, [k \in DOMAIN gain |-> -gain[k]], 1))
        best == Head(Leaders(DOMAIN more, more, 1))
        mix == CostMix(a, b)
        why == IF mix # {"none"} THEN mix
               ELSE IF losers # {} THEN {"freight", "fee", "sku"} ELSE {}
    IN  If(b.profit # 0,
             << IF ProfitLags(a, b) THEN {"margin", "pp"} \cup why ELSE {} >>
          \o If(losers # {}, << {"sku"} >>)
          \o If(losers # {} /\ \E k \in DOMAIN gain : gain[k] > 5, << {"offset"} >>)
          \o If(best # worst /\ more[best] > 0 /\ gain[worst] < -5, << {"sku"} >>))

(* The headline repeats a bullet (its number), the profit before the        *)
(* revenue, or is a sentence of its own (0).                                *)
Compared(a, b, after, before, notes) ==
    LET revenue == RevenueCauses(a, b)
        explained == revenue # << >> /\ revenue[1] \cap {"factor", "driver"} # {}
    IN  IF b.revenue <= 0 THEN [bullets |-> notes, headline |-> NoHeadline]
        ELSE [bullets |-> notes \o revenue \o ProfitCauses(a, b, after, before),
              headline |-> CASE ProfitLags(a, b) -> Len(notes) + Len(revenue) + 1
                             [] ~ProfitLags(a, b) /\ explained -> Len(notes) + 1
                             [] OTHER -> 0]

(* A period without sales to compare with is replaced by the first half of  *)
(* the period itself, if it is longer than a day.                           *)
Comparison(f) ==
    LET note == << {} >> IN
      CASE ~f.asked -> Unsaid
        [] f.asked /\ f.base.revenue > 0 ->
             Compared(f.all, f.base, f.now, f.then, << >>)
        [] f.asked /\ f.base.revenue <= 0 /\ f.all.revenue > 0 /\ f.long ->
             Compared(f.second, f.first, f.late, f.early, note)
        [] OTHER -> [bullets |-> note \o << {} >>, headline |-> NoHeadline]

Copies(s, words) == [i \in DOMAIN s |-> words]

(* SKUs in the red, dear to ship, dear in commission, and of little margin. *)
AboutSkus(f) ==
    LET sold == Sold(f.now)
        part(c) == [k \in sold |-> Share(f.now[k][c], f.now[k].revenue)]
        costly(c, n, d) == {k \in sold : d * f.now[k][c] >= n * f.now[k].revenue}
        thin == Leaders(sold, [k \in sold |-> -part("profit")[k]], 2)
        red == {k \in sold : f.now[k].profit < 0}
    IN     Copies(Leaders(red, Gain(f.then, f.now, "profit"), 3), {"loss", "sku", "cost", "freight"})
        \o Copies(Leaders(costly("freight", 1, 4), part("freight"), 2),
                  {"high_freight", "freight", "sku", "stock"})
        \o Copies(Leaders(costly("fee", 1, 5), part("fee"), 2), {"high_fee", "fee", "sku"})
        \o Copies(SelectSeq(thin, LAMBDA k : f.now[k].profit >= 0 /\ part("profit")[k] < 150),
                  {"low_margin", "margin", "sku"})
        \o If(f.cov < 100, << {"uncosted", "cost", "sku"} >>)

SumOf(s) == FoldSeq(+, 0, s)

(* The warehouse: what has not sold for two months or for one, the money    *)
(* in it, and how much of that lies in the three dearest SKUs (unknown for  *)
(* a single one).  Without revenue nothing is computed at all.              *)
Warehouse(f) ==
    LET costed == SelectSeq(f.shelf, LAMBDA r : r.worth > 0)
        value == [i \in DOMAIN costed |-> costed[i].worth]
        frozen == SumOf(value)
        known == f.stocked /\ f.settled > 0
    IN  [known |-> known,
         dead |-> IF known THEN SelectSeq(f.shelf, LAMBDA r : r.idle >= 60) ELSE << >>,
         slow |-> IF known THEN SelectSeq(f.shelf, LAMBDA r : r.idle \in 30 .. 59) ELSE << >>,
         frozen |-> IF known THEN frozen ELSE 0,
         share |-> IF known THEN Share(frozen, f.settled) ELSE 0,
         top3 |-> IF known /\ Len(costed) >= 2 THEN Share(SumOf(First(3, value)), frozen)
                  ELSE 0]

RiskLevel(w) ==
    LET high == Len(w.dead) >= 3 \/ w.share >= 300 \/ w.top3 >= 700
        medium == w.share >= 200 \/ w.top3 >= 600 \/ w.dead # << >> \/ w.slow # << >>
    IN  IF high THEN "high" ELSE IF medium THEN "medium" ELSE "low"

AboutStock(w) ==
       If(w.dead # << >>, << {"dead", "frozen", "sku"} >>)
    \o If(w.slow # << >>, << {"slow", "turnover", "sku"} >>)
    \o If(w.frozen > 0, << {"frozen", "stock"} >>)
    \o If(w.top3 >= 600, << {"conc", "stock", "illiquid", "sku", "risk"} >>)

TopRevenue(f, n) ==
    LET top == Leaders(DOMAIN f.now, Column(f.now, "revenue"), n)
    IN  SumOf([i \in DOMAIN top |-> f.now[top[i]].revenue])

(***************************************************************************)
(* What the analysts are told in shares of the settled revenue and in       *)
(* changes to the other period; nothing without revenue.                    *)
(***************************************************************************)
Signals(f) ==
    LET compared == f.settled > 0 /\ f.asked /\ f.base.revenue > 0
        share(x) == IF f.settled > 0 THEN Share(x, f.settled) ELSE 0
        grown(c) == IF compared
                    THEN RoundDiv(share(f.all[c]) * f.base.revenue - 1000 * f.base[c],
                                  f.base.revenue)
                    ELSE 0
    IN  [compared |-> compared,
         freight |-> share(f.all.freight), freightGrown |-> grown("freight"),
         back |-> share(f.all.back), backGrown |-> grown("back"),
         top1 |-> share(TopRevenue(f, 1)), top3 |-> share(TopRevenue(f, 3)),
         gone |-> IF compared THEN Change(f.settled, f.base.revenue) ELSE 0,
         lost |-> IF compared /\ f.base.profit # 0 THEN Change(f.all.profit, f.base.profit) ELSE 0]

(* Ten bullets at most, and those about the warehouse besides. *)
Tell ==
    /\ stage = "asked"
    /\ \E c \in {Comparison(figures)}, w \in {Warehouse(figures)} :
         /\ told' = [bullets |-> First(10, c.bullets \o AboutSkus(figures)) \o AboutStock(w),
                     headline |-> c.headline]
         /\ figures' = [stock |-> w, signals |-> Signals(figures)] @@ figures
    /\ stage' = "told"
    /\ UNCHANGED <<findings, insights, items, lead>>

-------------------------------------------------------------------------------
(***************************************************************************)
(* The analysts.  A finding is about the report, or about single SKUs of    *)
(* it, or about the quality of the data (0): that is its evidence.  A kind  *)
(* stands for the sentence and for the action of its findings.              *)
(***************************************************************************)
Finding(kind, conf, sev, about, says) ==
    << [kind |-> kind, conf |-> conf, sev |-> sev, about |-> about, says |-> says] >>

AboutReport(kind, conf, sev, says) == Finding(kind, conf, sev, {}, says)

(* One finding for each SKU of s, in its order. *)
Each(s, kind, conf, sev) ==
    [i \in DOMAIN s |-> Finding(kind, conf, sev, {s[i]}, {})[1]]

(* The margin, a percentage, is compared with 0.15; it is withheld where    *)
(* the profit is not to be trusted, unless the profit is nil.               *)
WildMargin(f) == f.settled > 0 /\ f.earned > f.settled
LowMargin(f) ==
    /\ f.settled > 0 /\ ~WildMargin(f)
    /\ 10000 * f.earned < 15 * f.settled
    /\ f.cov = 100 \/ f.earned = 0

Sales(f) ==
    LET present == {k \in DOMAIN f.now : f.now[k].units # 0 \/ f.now[k].revenue # 0}
    IN     If(LowMargin(f), AboutReport("sales_low_margin", 88, "high", {}))
        \o If(f.settled > 0 \/ (f.cov > 0 /\ f.earned # 0),
              Each(Leaders(present, Column(f.now, "revenue"), 1), "sales_top_sku", 85, "low"))

Ads == AboutReport("ads_no_governed_spend", 55, "low", {})

Funnel(f) ==
    If(f.settled > 0 /\ 10 * TopRevenue(f, 1) > 6 * f.settled,
       AboutReport("funnel_concentration", 82, "medium", {}))

(* What the risk of the warehouse is put down to. *)
RiskDrivers(w) ==
    UNION {IF w.dead # << >> THEN {"dead", "sku"} ELSE {},
           IF w.slow # << >> THEN {"slow", "sku"} ELSE {},
           IF w.top3 >= 600 THEN {"conc"} ELSE {},
           IF w.share >= 200 THEN {"frozen"} ELSE {}}

Inventory(w) ==
    LET skus(s) == {First(2, s)[i].sku : i \in DOMAIN First(2, s)}
        grave(s) == IF Len(s) >= 3 THEN "high" ELSE "medium"
        all ==    If(w.dead # << >>,
                     Finding("inventory_dead_stock", 91, grave(w.dead), skus(w.dead),
                             {"dead", "sku", "stock"}))
               \o If(w.slow # << >>,
                     Finding("inventory_slow_movers", 88, grave(w.slow), skus(w.slow),
                             {"slow", "turnover", "sku", "stock"}))
               \o If(w.frozen > 0,
                     AboutReport("inventory_frozen_capital", 87,
                                 IF w.share >= 200 THEN "high" ELSE "medium", {"frozen", "stock"}))
               \o If(w.top3 >= 600,
                     AboutReport("inventory_stock_concentration", 86,
                                 IF w.top3 >= 700 THEN "high" ELSE "medium",
                                 {"conc", "stock", "sku", "frozen"}))
               \o If(RiskLevel(w) # "low",
                     AboutReport("inventory_risk_high", 85, RiskLevel(w),
                                 {"store", "risk"} \cup RiskDrivers(w)))
    IN  CASE ~w.known -> AboutReport("inventory_limited_signals", 60, "low", {})
          [] w.known /\ all = << >> ->
               AboutReport("inventory_healthy", 75, "low",
                           {"stock", "sku", "dead", "slow", "turnover", "conc"})
          [] OTHER -> all

Marketplace == AboutReport("mp_context", 90, "low", {})

Anomalies(f) ==
       If(WildMargin(f), Finding("anomaly_profit", 90, "critical", {0}, {}))
    \o If(f.cov < 80, Finding("anomaly_coverage", 95, "medium", {0}, {"cost", "sku"}))

Logistics(f) ==
    LET sig == f.signals
        part == [k \in Sold(f.now) |-> Share(f.now[k].freight, f.now[k].revenue)]
    IN     If(sig.freight >= 150, AboutReport("logistics_high_share", 90,
                                              IF sig.freight >= 200 THEN "high" ELSE "medium",
                                              {"freight"}))
        \o If(sig.freightGrown >= 30,
              AboutReport("logistics_share_growth", 86, "medium", {"freight", "rose", "pp"}))
        \o If(f.settled > 0, Each(Leaders({k \in Sold(f.now) : part[k] >= 250}, part, 3),
                                  "logistics_sku_anomaly", 88, "high"))

Returns(f) ==
    LET sig == f.signals
        sent == Leaders({k \in DOMAIN f.now : f.now[k].back > 0}, Column(f.now, "back"), 2)
        heavy(k) == f.now[k].revenue > 0 /\ Share(f.now[k].back, f.now[k].revenue) >= 80
    IN  If(f.settled > 0 /\ f.all.back > 0,
              If(sig.back >= 100, AboutReport("returns_high_rate", 89,
                                              IF sig.back >= 150 THEN "high" ELSE "medium",
                                              {"return"}))
           \o If(f.base.back > 0 /\ sig.backGrown >= 30,
                 AboutReport("returns_rate_growth", 85, "medium", {"driver", "sku"}))
           \o Each(SelectSeq(sent, heavy), "returns_sku_leader", 87, "medium"))

RevenueChange(f) ==
    LET sig == f.signals
        by == Gain(f.now, f.then, "revenue")
        drivers == Leaders({k \in DOMAIN by : by[k] # 0},
                           [k \in DOMAIN by |-> Magnitude(by[k])], 2)
        grew == drivers # << >> /\ by[drivers[1]] > 0
    IN  If(sig.compared,
              If(sig.gone <= -100, AboutReport("revenue_drop", 91,
                                               IF sig.gone <= -200 THEN "high" ELSE "medium", {}))
           \o If(sig.gone >= 100, AboutReport("revenue_growth", 88, "low",
                                              {"rose"} \cup (IF grew THEN {"driver", "sku"} ELSE {})))
           \o If(sig.lost <= -100, AboutReport("profit_drop", 90, "high", {"sku"}))
           \o Each(SelectSeq(drivers, LAMBDA k : Magnitude(by[k]) >= 10),
                   "revenue_sku_driver", 86, "medium"))

Concentration(f) ==
    LET sig == f.signals IN
      If(Sold(f.now) # {},
            If(sig.top1 >= 500, AboutReport("concentration_top1_risk", 91,
                                            IF sig.top1 >= 670 THEN "high" ELSE "medium",
                                            {"conc", "sku"}))
         \o If(sig.top1 < 500 /\ sig.top3 >= 700,
               AboutReport("concentration_top3_risk", 84, "medium", {"conc", "sku"})))

Analyse ==
    /\ stage = "told"
    /\ findings' = Sales(figures) \o Ads \o Funnel(figures) \o Inventory(figures.stock)
                   \o Marketplace \o Anomalies(figures) \o Logistics(figures)
                   \o Returns(figures) \o RevenueChange(figures) \o Concentration(figures)
    /\ stage' = "analysed"
    /\ UNCHANGED <<figures, told, insights, items, lead>>

-------------------------------------------------------------------------------
(***************************************************************************)
(* The aggregator: of findings on the same evidence that ask for different  *)
(* things the most confident stays, the first of equals.                    *)
(***************************************************************************)
Action(f) == IF f.about = {0} THEN "fix the data" ELSE f.kind

Contradicted(i) ==
    LET group == {j \in DOMAIN findings : findings[j].about = findings[i].about} IN
      /\ \E j, k \in group : Action(findings[j]) # Action(findings[k])
      /\ \E j \in group : \/ findings[j].conf > findings[i].conf
                          \/ findings[j].conf = findings[i].conf /\ j < i

Weight == [low |-> 10, medium |-> 25, high |-> 45, critical |-> 70]

Aggregate ==
    /\ stage = "analysed"
    /\ insights' =
         LET kept == {i \in DOMAIN findings : ~Contradicted(i)}
             score == [i \in kept |-> Weight[findings[i].sev] * findings[i].conf]
         IN  Leaders(kept, score, Len(findings))
    /\ stage' = "aggregated"
    /\ UNCHANGED <<figures, told, findings, items, lead>>

-------------------------------------------------------------------------------
(***************************************************************************)
(* The priority engine makes everything said so far an item.                *)
(***************************************************************************)
StockWords == {"frozen", "stock", "dead", "slow", "store", "illiquid", "turnover"}
StockKinds == {"inventory_dead_stock", "inventory_slow_movers", "inventory_frozen_capital",
               "inventory_stock_concentration", "inventory_risk_high", "inventory_healthy",
               "inventory_limited_signals"}
Background == {"mp_context", "ads_no_governed_spend", "inventory_limited_signals",
               "inventory_healthy"}

LevelOf(f) ==
    CASE f.kind \in Background -> 3
      [] f.kind \in {"inventory_dead_stock", "inventory_frozen_capital"} ->
           IF f.sev = "high" THEN 1 ELSE 2
      [] f.kind \in {"inventory_slow_movers", "inventory_stock_concentration",
                     "inventory_risk_high", "funnel_concentration",
                     "anomaly_profit", "anomaly_coverage"} -> 2
      [] OTHER -> 1

BulletLevel(says) ==
    LET urgent == IF says \cap StockWords # {} THEN {"dead"}
                  ELSE {"loss", "high_freight", "high_fee", "low_margin", "conc", "fell", "rose",
                        "factor", "driver"}
    IN  IF says \cap urgent # {} THEN 1 ELSE 2

(* The name of the first test that is met. *)
FirstMet(tests) == tests[SelectInSeq(tests, LAMBDA t : t[2])][1]

(* The stock finding a bullet is taken for: by its words, so that a bullet  *)
(* on freight, which speaks of moving stock, is one about frozen money.     *)
BulletKind(says) ==
    FirstMet(<< <<"none", says \cap StockWords = {}>>,
                <<"inventory_dead_stock", "dead" \in says>>,
                <<"inventory_stock_concentration", "conc" \in says>>,
                <<"inventory_slow_movers", "slow" \in says>>,
                <<"inventory_frozen_capital", TRUE>> >>)

(* Mutated: the drop in profit is told by the sentence for all.             *)
WordlessOfProfit ==
    {"sales_low_margin", "sales_top_sku", "logistics_sku_anomaly", "returns_sku_leader",
     "revenue_sku_driver", "funnel_concentration", "mp_context", "ads_no_governed_spend",
     "inventory_limited_signals", "profit_drop"}

(* Where the sentence of a finding is in English, the seller is shown one   *)
(* and the same sentence for all of them.  A word of the action of a drop   *)
(* in profit and of a growth in returns is taken for the name of a SKU and  *)
(* added to theirs.                                                         *)
Wordless == {"sales_low_margin", "sales_top_sku", "logistics_sku_anomaly", "returns_sku_leader",
             "revenue_sku_driver", "funnel_concentration", "mp_context",
             "ads_no_governed_spend", "inventory_limited_signals"}

TextOf(kind) == [of |-> IF kind \in Wordless THEN "signal" ELSE kind, nr |-> 0]

CausalWords == {"factor", "driver", "offset", "pp", "sku", "loss", "freight", "return", "conc",
                "cost", "fee", "high_fee"}
CausalReasons == {"revenue_drop", "revenue_growth", "profit_drop", "concentration_top1_risk",
                  "concentration_top3_risk", "returns_high_rate", "returns_rate_growth",
                  "logistics_high_share", "logistics_share_growth", "sales_low_margin",
                  "inventory_dead_stock", "inventory_stock_concentration"}

(* How much the seller is told to do: ten points for length, ten for a verb *)
(* of checking, five for a SKU or a figure.                                 *)
ActionPoints(kind) ==
    CASE kind \in {"funnel_concentration", "inventory_dead_stock",
                   "inventory_stock_concentration", "inventory_risk_high"} -> 15
      [] kind \in {"sales_low_margin", "inventory_limited_signals", "inventory_slow_movers",
                   "mp_context", "logistics_share_growth", "logistics_sku_anomaly",
                   "returns_sku_leader", "revenue_sku_driver"} -> 20
      [] kind \in {"ads_no_governed_spend", "concentration_top1_risk",
                   "concentration_top3_risk"} -> 10
      [] OTHER -> 25

BulletPoints(says) ==
    FirstMet(<< <<25, says \cap {"loss", "freight", "slow", "turnover"} # {}>>,
                <<15, says \cap {"dead", "stock", "frozen"} # {}>>,
                <<20, "fee" \in says>>,
                <<25, TRUE>> >>)

(* Depth of the cause, weight of the level, the action and the confidence.  *)
Quality(causal, level, points, conf) ==
    4 * (12 + (IF causal THEN 13 ELSE 0) + <<25, 18, 11>>[level] + points) + conf

IsStock(kind, says) == kind \in StockKinds \/ says \cap StockWords # {}

DomainOf(kind, says) ==
    FirstMet(<< <<"revenue", kind \in {"headline", "sales_top_sku", "revenue_drop",
                                       "revenue_growth", "revenue_sku_driver"}>>,
                <<"profit", kind = "profit_drop" \/ "loss" \in says>>,
                <<"margin", kind = "sales_low_margin" \/ "margin" \in says>>,
                <<"logistics", kind = "logistics_sku_anomaly" \/ "freight" \in says>>,
                <<"returns", kind = "returns_sku_leader" \/ kind = "returns_rate_growth"
                             \/ "return" \in says>>,
                <<"concentration", "conc" \in says /\ "stock" \notin says>>,
                <<"inventory", IsStock(kind, says)>>,
                <<"other", TRUE>> >>)

(* Stock items that mean the same go into one bucket. *)
BucketOf(kind, says) ==
    FirstMet(<< <<"none", ~IsStock(kind, says)>>,
                <<"dead", "dead" \in says>>, <<"slow", "slow" \in says>>,
                <<"conc", "conc" \in says>>, <<"risk", "risk" \in says>>,
                <<"frozen", "frozen" \in says \/ kind = "inventory_frozen_capital">>,
                <<"other", TRUE>> >>)

Item(at, text, kind, says, level, conf, quality) ==
    [at |-> at, text |-> text, kind |-> kind, level |-> level, conf |-> conf,
     quality |-> quality, stock |-> IsStock(kind, says),
     domain |-> DomainOf(kind, says), bucket |-> BucketOf(kind, says)]

HeadlineItem(h) ==
    Item(0, [of |-> IF h = 0 THEN "headline" ELSE "bullet", nr |-> h], "headline", {},
         1, 88, Quality(TRUE, 1, 25, 88))

BulletItem(i, says) ==
    LET level == BulletLevel(says)
        conf == IF level = 1 THEN 82 ELSE 72
    IN  Item(i, [of |-> "bullet", nr |-> i], BulletKind(says), says, level, conf,
             Quality(says \cap CausalWords # {}, level, BulletPoints(says), conf))

FindingItem(at, f) ==
    Item(at, TextOf(f.kind), f.kind, f.says, LevelOf(f), f.conf,
         Quality(f.says \cap CausalWords # {} \/ f.kind \in CausalReasons,
                 LevelOf(f), ActionPoints(f.kind), f.conf))

(* What the inventory analyst reports as well. *)
Redundant(item) ==
    LET reported == {findings[i].kind : i \in DOMAIN findings} IN
      /\ item.kind \in StockKinds
      /\ \/ item.kind \in reported
         \/ item.kind = "inventory_stock_concentration" /\ "inventory_risk_high" \in reported

(* The headline, the bullets, the insights by rank and the findings once    *)
(* more, those the aggregator has suppressed among them.                    *)
Everything ==
    (IF told.headline = NoHeadline THEN {} ELSE {HeadlineItem(told.headline)})
    \cup {b \in {BulletItem(i, told.bullets[i]) : i \in DOMAIN told.bullets} : ~Redundant(b)}
    \cup {FindingItem(100 + r, findings[insights[r]]) : r \in DOMAIN insights}
    \cup {FindingItem(200 + i, findings[i]) :
            i \in {j \in DOMAIN findings : findings[j].kind \notin Background}}

(* One item for each sentence: the first. *)
Distinct(S) == {x \in S : \A y \in S : y.text = x.text => x.at <= y.at}

(* One item for each bucket: the best, in the place of the bucket's first,  *)
(* behind all that is not about stock.                                      *)
Bucketed(S) ==
    LET bucket(x) == {y \in S : y.bucket = x.bucket}
        best(x) == \A y \in bucket(x) :
                     y.quality < x.quality \/ (y.quality = x.quality /\ y.at >= x.at)
        place(x) == 1000 + Min({y.at : y \in bucket(x)})
    IN  {x \in S : x.bucket = "none"}
        \cup {[x EXCEPT !.at = place(x)] : x \in {y \in S : y.bucket # "none" /\ best(y)}}

Collect ==
    /\ stage = "aggregated"
    /\ \E all \in {Everything} : \E once \in {Distinct(all)} : items' = Bucketed(once)
    /\ stage' = "collected"
    /\ UNCHANGED <<figures, told, findings, insights, lead>>

-------------------------------------------------------------------------------
(***************************************************************************)
(* The lead: a primary insight, then one of each other domain.              *)
(***************************************************************************)
Protected == {"revenue", "profit", "margin", "logistics", "returns", "concentration"}
DomainOrder == <<"revenue", "profit", "margin", "logistics", "returns", "concentration",
                 "inventory", "other">>

(* The order items are listed in, and the best of some of them: the first   *)
(* listed of the highest quality.                                           *)
Listed(x, y) ==
    \/ x.level < y.level
    \/ x.level = y.level /\ x.quality > y.quality
    \/ x.level = y.level /\ x.quality = y.quality /\ x.conf > y.conf
    \/ x.level = y.level /\ x.quality = y.quality /\ x.conf = y.conf /\ x.at < y.at

Best(S) ==
    CHOOSE x \in S : \A y \in S \ {x} :
      x.quality > y.quality \/ (x.quality = y.quality /\ Listed(x, y))

(* Stock comes first only if it is urgent and more than eight points better. *)
Primary ==
    LET money == {x \in items : x.domain \in Protected}
        stock == {x \in items : x.stock /\ x.level = 1}
    IN  CASE money # {} /\ stock # {} ->
               IF Best(stock).quality > Best(money).quality + 32 THEN Best(stock) ELSE Best(money)
          [] money # {} /\ stock = {} -> Best(money)
          [] money = {} /\ stock # {} -> Best(stock)
          [] OTHER -> CHOOSE x \in items : \A y \in items \ {x} : Listed(x, y)

OneOfEach(first) ==
    LET others == SelectSeq(DomainOrder, LAMBDA d :
                    d # first.domain /\ \E x \in items : x.domain = d)
    IN  <<first>> \o [i \in DOMAIN others |-> Best({x \in items : x.domain = others[i]})]

(* What is still free is filled from the list, passing over stock when an   *)
(* item of that domain, or any about stock from the list, is there.         *)
Filled(picked) ==
    LET free == items \ ToSet(picked)
        place == [x \in free |-> Cardinality({y \in free : y = x \/ Listed(y, x)})]
        rest == [r \in 1 .. Cardinality(free) |-> CHOOSE x \in free : place[x] = r]
        one == \E i \in DOMAIN picked : picked[i].domain = "inventory"
        step(acc, x) == IF x.stock /\ (one \/ \E i \in DOMAIN acc : acc[i].stock)
                        THEN acc ELSE Append(acc, x)
    IN  picked \o FoldLeft(step, << >>, rest)

Pick ==
    /\ stage = "collected"
    /\ \E first \in IF items = {} THEN {} ELSE {Primary} :
         \E picked \in {First(3, OneOfEach(first))} :
           lead' = First(3, Filled(picked))
    /\ stage' = "picked"
    /\ UNCHANGED <<figures, told, findings, insights, items>>

AdviceNext == Ask \/ Tell \/ Analyse \/ Aggregate \/ Collect \/ Pick

AdviceSpec == AdviceInit /\ [][AdviceNext]_adviceVars

-------------------------------------------------------------------------------
(* The three insights the seller reads are balanced: at most one is about   *)
(* stock (docs/ai/threshold_catalog.md:50), and a fall of revenue or of     *)
(* profit by a tenth is among them -- though the aggregator suppresses all  *)
(* but one of the findings about the report, the engine drops sentences it  *)
(* has seen before, and the other domains compete for the three places.     *)
LeadIsBalanced ==
    LET leads(kind) == \E i \in DOMAIN lead : lead[i].kind = kind IN
      stage = "picked" =>
          /\ Cardinality({i \in DOMAIN lead : lead[i].domain = "inventory"}) <= 1
          /\ figures.signals.gone <= -100 => leads("revenue_drop")
          /\ figures.signals.lost <= -100 => leads("profit_drop")
=============================================================================
