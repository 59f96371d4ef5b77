---------------------------- MODULE WbReadingMC ----------------------------
(***************************************************************************)
(* Instances of WbReading: files of three tables, with the columns of the   *)
(* export under src/tests that a field may be read from, the headers of the *)
(* version two tests, and English ones; and of tables with a name twice or  *)
(* no name a field has.  Each stands alone or below a title, in a workbook  *)
(* with a cover sheet or in a .csv.                                         *)
(***************************************************************************)
EXTENDS WbReading

ExportNames == <<
    "kod nomenklatury", "artikul postavwika", "obosnovanie dla oplaty",
    "data zakaza pokupatelem", "data prodaji", "kol-vo", "cena roznihnaa",
    "vayldberriz realizoval tovar (pr)", "cena roznihnaa s uhetom soglasovannoy skidki",
    "voznagrajdenie s prodaj do vyheta uslug poverennogo, bez nds",
    "vozmewenie za vydahu i vozvrat tovarov na pvz",
    "kompensacia platejnyx uslug/komissia za integraciu platejnyx servisov",
    "voznagrajdenie vayldberriz (vv), bez nds",
    "k perehisleniu prodavcu za realizovannyy tovar", "kolihestvo vozvrata",
    "uslugi po dostavke tovara pokupatelu", "data nahala deystvia fiksacii",
    "obwaa summa wtrafov", "vidy logistiki, wtrafov i korrektirovok vv", "sklad",
    "vozmewenie izderjek po perevozke/po skladskim operaciam s tovarom", "xranenie",
    "uderjania", "kompensacia skidki po programme loal'nosti">>
SecondNames == <<
    "data prodaji", "artikul postavwika", "nomenklatura", "tip operacii", "cena roznihnaa",
    "k perehisleniu", "kompensacia platejnyx uslug/komissia za integraciu platejnyx servisov",
    "sklad", "xranenie", "stoimost' logistiki">>
EnglishNames == <<
    "operation_date", "sku", "nm_id", "supplier_oper_name", "retail_price", "ppvz_for_pay",
    "quantity", "loyalty_compensation", "compensation", "ppvz_sales_commission">>

(* The names and words of the files, with what is inside them. *)
Plain == {"vozvrat", "korrekcia", "othet wb", "itogo", "sale", "return", "a-1", "b-2",
          "n-7", "kazan'", "tovar"}
MCHolds ==
    "kod nomenklatury" :> {"nomenklatur", "kod nomenklatury"} @@
    "artikul postavwika" :> {"artikul", "artikul postavwika"} @@
    "obosnovanie dla oplaty" :> {"obosnovanie dla oplaty"} @@
    "data zakaza pokupatelem" :> {"zakaz"} @@
    "data prodaji" :> {"prodaj", "data prodaji"} @@
    "kol-vo" :> {"kol-vo"} @@
    "cena roznihnaa" :> {"roznih", "cena roznih", "cena roznihnaa"} @@
    "vayldberriz realizoval tovar (pr)" :> {"realizoval", "vayldberriz realizoval"} @@
    "cena roznihnaa s uhetom soglasovannoy skidki" :>
        {"skid", "roznih", "cena roznih", "cena roznihnaa"} @@
    "voznagrajdenie s prodaj do vyheta uslug poverennogo, bez nds" :>
        {"prodaj", "voznagrajdenie"} @@
    "vozmewenie za vydahu i vozvrat tovarov na pvz" :> {"pvz"} @@
    "kompensacia platejnyx uslug/komissia za integraciu platejnyx servisov" :>
        {"platejn", "komissia", "integrac", "platejnyx servisov", "kompensacia platejnyx uslug", "komissia za integraciu platejnyx"} @@
    "voznagrajdenie vayldberriz (vv), bez nds" :> {"voznagrajdenie"} @@
    "k perehisleniu prodavcu za realizovannyy tovar" :> {"perehislen", "k perehisleniu"} @@
    "kolihestvo vozvrata" :> {"kolihestvo", "kolihestvo vozvrata"} @@
    "uslugi po dostavke tovara pokupatelu" :> {"uslugi po dostavke tovara pokupatelu"} @@
    "data nahala deystvia fiksacii" :> {"fiksac"} @@
    "obwaa summa wtrafov" :> {"wtraf"} @@
    "vidy logistiki, wtrafov i korrektirovok vv" :> {"wtraf"} @@
    "sklad" :> {"sklad"} @@
    "vozmewenie izderjek po perevozke/po skladskim operaciam s tovarom" :>
        {"sklad", "operac", "vozmewenie izderjek po perevozke"} @@
    "xranenie" :> {"xranenie"} @@
    "uderjania" :> {"uderjania"} @@
    "kompensacia skidki po programme loal'nosti" :>
        {"skid", "loal'nost", "kompensacia skidki po programme loal'nosti"} @@
    "nomenklatura" :> {"nomenklatur", "nomenklatura"} @@
    "tip operacii" :> {"operac", "tip operacii"} @@
    "k perehisleniu" :> {"perehislen", "k perehisleniu"} @@
    "stoimost' logistiki" :> {"stoimost' logistiki"} @@
    "operation_date" :> {"date", "operation", "operation_date"} @@
    "sku" :> {"sku"} @@
    "nm_id" :> {"nm_id"} @@
    "supplier_oper_name" :> {"supplier_oper_name"} @@
    "retail_price" :> {"retail", "retail_price"} @@
    "ppvz_for_pay" :> {"for_pay", "ppvz_for_pay"} @@
    "quantity" :> {"quantity"} @@
    "loyalty_compensation" :> {"compens", "compensation", "loyalty_compensation"} @@
    "compensation" :> {"compens", "compensation"} @@
    "ppvz_sales_commission" :> {"commission", "ppvz_sales_commission"} @@
    "prodaja" :> {"prodaj"} @@
    "logistika" :> {"logistika"} @@
    "uderjanie" :> {"uderjanie"} @@
    "wtraf" :> {"wtraf"} @@
    "dobrovol'naa kompensacia pri vozvrate" :> {"dobrovol'naa kompensacia"} @@
    "kolihestvo" :> {"kolihestvo"} @@
    [n \in Plain |-> {}]

(* Keys of a JSONB object: shorter ones first, in bytes of the Russian name. *)
InJsonb == <<
    "a-1", "b-2", "n-7", "sku", "sale", "nm_id", "return", "quantity", "itogo", "sklad", "tovar",
    "wtraf", "kol-vo", "compensation", "ppvz_for_pay", "retail_price", "kazan'", "othet wb",
    "operation_date", "vozvrat", "prodaja", "koledino", "prodavec", "xranenie",
    "supplier_oper_name", "korrekcia", "logistika", "uderjanie", "uderjania",
    "loyalty_compensation", "kolihestvo", "ppvz_sales_commission", "data prodaji",
    "tip operacii", "nomenklatura", "k perehisleniu", "cena roznihnaa", "kod nomenklatury",
    "artikul postavwika", "obwaa summa wtrafov", "kolihestvo vozvrata", "stoimost' logistiki",
    "obosnovanie dla oplaty", "data zakaza pokupatelem", "data nahala deystvia fiksacii",
    "vayldberriz realizoval tovar (pr)", "uslugi po dostavke tovara pokupatelu",
    "dobrovol'naa kompensacia pri vozvrate", "voznagrajdenie vayldberriz (vv), bez nds",
    "vidy logistiki, wtrafov i korrektirovok vv", "kompensacia skidki po programme loal'nosti",
    "vozmewenie za vydahu i vozvrat tovarov na pvz",
    "cena roznihnaa s uhetom soglasovannoy skidki",
    "k perehisleniu prodavcu za realizovannyy tovar",
    "voznagrajdenie s prodaj do vyheta uslug poverennogo, bez nds",
    "vozmewenie izderjek po perevozke/po skladskim operaciam s tovarom",
    "kompensacia platejnyx uslug/komissia za integraciu platejnyx servisov">>
MCJsonRank == [n \in ToSet(InJsonb) |-> CHOOSE i \in DOMAIN InJsonb : InJsonb[i] = n]

MCFinanceTokens ==
    "prodaja" :> {"sale"} @@ "sale" :> {"sale"} @@ "vozvrat" :> {"return"} @@ "return" :> {"return"}
    @@ "logistika" :> {"logistics"} @@ "xranenie" :> {"storage"} @@ "uderjanie" :> {"deduction"}
    @@ "dobrovol'naa kompensacia pri vozvrate" :> {"voluntary", "return", "compensation"}
    @@ "compensation" :> {"compensation"} @@ "wtraf" :> {} @@ None :> {}
MCStockTokens ==
    "prodaja" :> {"sale"} @@ "sale" :> {"sale"} @@ "vozvrat" :> {"return"} @@ "return" :> {"return"}
    @@ "logistika" :> {} @@ "xranenie" :> {} @@ "uderjanie" :> {}
    @@ "dobrovol'naa kompensacia pri vozvrate" :> {"return", "compensation"}
    @@ "compensation" :> {"compensation"} @@ "wtraf" :> {} @@ None :> {}
MCInternal == "a-1" :> "own"

On(day) == Date(day, day)
Labels == {"obosnovanie dla oplaty", "tip operacii", "supplier_oper_name"}
Skus == {"artikul postavwika", "sku"}
Days == {"data prodaji", "operation_date"}

(* A row whose amounts are all different. *)
Line(names, label, sku, day, base) ==
    [c \in DOMAIN names |->
        CASE names[c] \in Labels -> label
          [] names[c] \in Skus -> sku
          [] names[c] \in Days -> day
          [] names[c] \in {"data zakaza pokupatelem", "data nahala deystvia fiksacii"} -> On(1)
          [] names[c] = "sklad" -> Word("kazan'")
          [] names[c] = "nm_id" -> Word("n-7")
          [] OTHER -> Num(base + c)]
Titles(names) == [c \in DOMAIN names |-> Word(names[c])]

ExportTable == <<
    Titles(ExportNames),
    Line(ExportNames, Word("prodaja"), Word("a-1"), On(3), 100),
    Line(ExportNames, Word("xranenie"), Blank, Blank, 200),
    Line(ExportNames, Word("vozvrat"), Word("a-1"), On(1), 300),
    Line(ExportNames, Word("logistika"), Word("b-2"), On(2), 400),
    Line(ExportNames, Word("prodaja"), Word("b-2"), On(2), 500)>>
SecondTable == <<
    Titles(SecondNames),
    Line(SecondNames, Word("prodaja"), Num(7), On(3), 100),
    [c \in DOMAIN SecondNames |-> Blank],
    Line(SecondNames, Word("dobrovol'naa kompensacia pri vozvrate"), Blank, On(2), 200),
    Line(SecondNames, Word("logistika"), Num(8), Date(2, 4), 300)>>
EnglishTable == <<
    Titles(EnglishNames),
    Line(EnglishNames, Word("sale"), Word("a-1"), On(2), 100),
    [c \in DOMAIN EnglishNames |-> Blank],
    Line(EnglishNames, Word("compensation"), Word("b-2"), On(4), 200),
    Line(EnglishNames, Word("return"), Word("a-1"), On(1), 300)>>
(* One name twice, with other texts below it. *)
TwiceTable ==
    [i \in DOMAIN EnglishTable |-> Append(EnglishTable[i], IF i = 1 THEN Word("sku") ELSE Word("b-2"))]
OtherTable == <<Titles(<<"tovar", "kolihestvo">>), <<Word("a-1"), Num(5)>>, <<Word("b-2"), Num(6)>>>>
(* Dates that are not clear, or none. *)
DatedTable == [ExportTable EXCEPT ![2][5] = Num(5), ![4][5] = Date(2, 4)]
(* Without a column, whose field may then take another's. *)
Without(t, c) == [i \in DOMAIN t |-> [d \in 1 .. Len(t[i]) - 1 |-> IF d < c THEN t[i][d] ELSE t[i][d + 1]]]
Tables == {ExportTable, SecondTable, EnglishTable, TwiceTable, OtherTable, DatedTable,
           SubSeq(ExportTable, 1, 1)}
Lesser == UNION {{Without(t, c) : c \in DOMAIN t[1]} : t \in {ExportTable, SecondTable, EnglishTable}}
LessTwo == UNION {{Without(t, c) : c \in DOMAIN t[1]} : t \in Lesser}

(* t with cells more on some of its lines, in a .csv.                        *)
Widened(t, lines, cells) == [i \in DOMAIN t |-> IF i \in lines THEN t[i] \o cells ELSE t[i]]
Below(t) == 2 .. Len(t)

Cover == <<<<Word("othet wb")>>, <<Word("itogo"), Num(3)>>>>
Padded(row, t) == [c \in DOMAIN t[1] |-> IF c \in DOMAIN row THEN row[c] ELSE Blank]
Book(sheets, active) == [csv |-> FALSE, active |-> active, sheets |-> sheets]
Csv(rows) == [csv |-> TRUE, active |-> 1, sheets |-> <<rows>>]
MCFiles ==
    UNION {{Book(<<t>>, 1),
            Book(<<<<Padded(<<Word("othet wb")>>, t), Padded(<< >>, t)>> \o t>>, 1),
            Book(<<Cover, t>>, 1), Book(<<t, Cover>>, 2), Book(<<t, << >>>>, 2), Book(<<<< >>, t>>, 2),
            Csv(t), Csv(<<<<Word("othet wb")>>, << >>>> \o t), Csv(<<Padded(<<Word("othet wb")>>, t)>> \o t),
            Csv(<<t[1], Padded(<< >>, t), << >>>>),
            Csv(Append(t, Append(t[Len(t)], Num(1)))),
            Csv(Widened(t, Below(t), <<Blank>>)), Csv(Widened(t, {2}, <<Blank>>)),
            Csv(Widened(t, {2, Len(t)}, <<Num(1)>>)),
            Csv(Widened(t, Below(t), <<Blank, Blank>>)),
            Csv(Append(Widened(t, Below(t), <<Blank>>), Append(Padded(<< >>, t), Blank)))} : t \in Tables}
    \cup {Book(<<t>>, 1) : t \in Lesser \cup LessTwo}
    \cup {Book(<<<< >>>>, 1), Csv(<< >>)}
=============================================================================
