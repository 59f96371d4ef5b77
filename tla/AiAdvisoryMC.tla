---------------------------- MODULE AiAdvisoryMC -----------------------------
(* Instances of AiAdvisory and of SellerAdvice.  The store: two answers      *)
(* about one report, one of them compared without figures and one with.     *)
(* The advice itself: three SKUs in a dozen trades, with and without a       *)
(* period to compare with, costs and stock.                                 *)
EXTENDS AiAdvisory, SellerAdvice, TLC

MCContents == {"plain", "later", "asked", "data"}
MCReportOf == [c \in MCContents |-> "r1"]
MCCompareOf == [plain |-> "none", later |-> "none", asked |-> "asked", data |-> "data"]

Symmetric == Permutations(Slot) \cup Permutations(Client)

Row(u, r, p, c, fe, fr, b, x) ==
    [units |-> u, revenue |-> r, profit |-> p, cost |-> c, fee |-> fe, freight |-> fr,
     back |-> b, rest |-> x]
Nil == Row(0, 0, 0, 0, 0, 0, 0, 0)

(* What a SKU may have done in half a period, from good to bad. *)
Good == Row(40, 400, 90, 150, 70, 45, 10, 35)
Dear == Row(22, 390, 88, 149, 69, 44, 9, 34)
Fair == Row(20, 210, 35, 85, 38, 24, 6, 22)
Thin == Row(20, 205, 20, 85, 45, 26, 6, 23)
Shipped == Row(18, 190, -45, 80, 34, 95, 6, 20)
Taxed == Row(18, 195, 12, 80, 60, 20, 5, 18)
Returned == Row(18, 200, -91, 82, 36, 25, 130, 18)
Small == Row(5, 60, 14, 22, 11, 6, 2, 5)
Twice(r) == [c \in DOMAIN r |-> 2 * r[c]]

(* Half a period, the half before it, and the period to compare with. *)
Trades ==
    {<<a, b, t>> : a \in {<<Good, Fair, Small>>},
                   b \in {<<Good, Thin, Small>>, <<Dear, Shipped, Nil>>, <<Small, Taxed, Nil>>,
                          <<Good, Returned, Small>>},
                   t \in {<<Twice(Good), Twice(Fair), Twice(Small)>>,
                          <<Twice(Fair), Twice(Good), Twice(Small)>>,
                          <<Good, Small, Nil>>, <<Nil, Nil, Nil>>}}
    \cup {<<(<<Nil, Nil, Nil>>), (<<Nil, Nil, Nil>>), (<<Good, Small, Nil>>)>>,
          <<(<<Good, Nil, Nil>>), (<<Good, Small, Nil>>), (<<Twice(Dear), Small, Nil>>)>>,
          <<(<<Nil, Nil, Nil>>), (<<Fair, Small, Nil>>), (<<Nil, Nil, Nil>>)>>}

Lying(a, b, c) ==
    <<[sku |-> 1, idle |-> a, worth |-> 300], [sku |-> 2, idle |-> b, worth |-> 90],
      [sku |-> 3, idle |-> c, worth |-> 70], [sku |-> 4, idle |-> c, worth |-> 0]>>

Shelves == {<< >>, Lying(0, 5, 10), Lying(10, 70, 35), Lying(0, 65, 61),
            <<[sku |-> 2, idle |-> 40, worth |-> 20]>>, <<[sku |-> 1, idle |-> 5, worth |-> 0]>>}

(* The settlement tells the revenue of the rows or none, and their profit, a  *)
(* loss, or more than all of the revenue.                                    *)
Sum(t, c) == Totals(t[1])[c] + Totals(t[2])[c]

MCFigures ==
    UNION {{[early |-> t[1], late |-> t[2], then |-> t[3], asked |-> asked, long |-> TRUE,
             settled |-> settled[1], earned |-> settled[2], cov |-> cov, shelf |-> shelf,
             stocked |-> shelf # << >>] :
               asked \in BOOLEAN, cov \in {0, 50, 100}, shelf \in Shelves,
               settled \in {<<0, 0>>, <<Sum(t, "revenue"), -20>>,
                            <<Sum(t, "revenue"), Sum(t, "profit")>>,
                            <<Sum(t, "revenue"), 2 * Sum(t, "revenue")>>}} :
             t \in Trades}

BothInit == Init /\ AdviceInit

(* The advice is composed before the store is used. *)
BothNext ==
    \/ stage = "idle" /\ Next /\ UNCHANGED adviceVars
    \/ acts = 0 /\ day = 1 /\ AdviceNext /\ UNCHANGED vars

BothSpec == BothInit /\ [][BothNext]_<<vars, adviceVars>>
=============================================================================
