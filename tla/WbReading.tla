------------------------------ MODULE WbReading ------------------------------
(***************************************************************************)
(* How a Wildberries report file becomes rows: the check of the upload,     *)
(* which reads the whole file as a frame, the worker's streaming reader     *)
(* with what it adds up from chunk to chunk, the search for the table and   *)
(* the choice of a column for every field that both use, and the second     *)
(* reading of stored rows by the maintenance script.  The ledger and the    *)
(* movements the rows become are those of WbLedger.                         *)
(*                                                                         *)
(* A file is [csv, active, sheets]: sheets of rows of cells, an empty line  *)
(* being a row without cells.  Names are in lower case, Russian ones letter *)
(* by letter in Latin, so that they have the lengths the scores count.  A   *)
(* date cell has the day the stream reads and the one pandas reads, which   *)
(* takes 05.06. for the sixth of May.  The .xls files, which the worker     *)
(* reads as frames too, are left out.                                       *)
(***************************************************************************)
EXTENDS WbLedger, SequencesExt

CONSTANTS
    Holds,          \* name of a column -> the aliases and markers inside it
    JsonRank,       \* name -> its place among the keys of a JSONB object
    Files,
    CreatedOn,      \* the day of the upload
    MaxScan,        \* MAX_HEADER_SCAN_ROWS
    ChunkSize       \* PROCESS_CHUNK_SIZE

Blank == [is |-> "blank"]
Word(name) == [is |-> "word", name |-> name]
Num(n) == [is |-> "number", n |-> n]
Date(day, pandas) == [is |-> "date", day |-> day, pandas |-> pandas]

(* A name that is in a file has its marks and its place in a JSONB object.  *)
IsCell(x) ==
    /\ x.is = "word" => x.name # None /\ x.name \in DOMAIN Holds \cap DOMAIN JsonRank
    /\ x.is = "number" => x.n \in Int
    /\ x.is = "date" => x.day \in Nat /\ x.pandas \in Nat
IsLine(row) == Len(row) \in Nat /\ DOMAIN row = 1 .. Len(row) /\ \A c \in DOMAIN row : IsCell(row[c])
IsFile(f) ==
    /\ Len(f.sheets) \in Nat /\ DOMAIN f.sheets = 1 .. Len(f.sheets)
    /\ f.active \in DOMAIN f.sheets /\ f.csv \in BOOLEAN /\ (f.csv => Len(f.sheets) = 1)
    /\ \A s \in DOMAIN f.sheets :
          /\ Len(f.sheets[s]) \in Nat /\ DOMAIN f.sheets[s] = 1 .. Len(f.sheets[s])
          /\ \A i \in DOMAIN f.sheets[s] : IsLine(f.sheets[s][i])

ASSUME ReadingAssumption ==
    /\ MaxScan \in Nat \ {0} /\ ChunkSize \in Nat \ {0} /\ CreatedOn \in Nat
    /\ \A n \in DOMAIN JsonRank : JsonRank[n] \in Nat
    /\ \A m, n \in DOMAIN JsonRank : JsonRank[m] = JsonRank[n] => m = n
    /\ None \notin Int /\ None \notin Reconciliation
    /\ \A f \in Files : IsFile(f)

VARIABLES
    file,
    table,          \* <<sheet, row of the header>>
    at,             \* the row the reader is at
    chunk,          \* rows read and not yet handed over
    out,            \* rows of the chunks handed over
    sums,           \* what the stream adds up over the chunks
    pc              \* "upload", "turned", "locate", "read", "done", "stopped" or "refused"
readingVars == <<file, table, at, chunk, out, sums, pc>>

-------------------------------------------------------------------------------
(***************************************************************************)
(* The choice of columns.                                                  *)
(***************************************************************************)
Aliases ==
    [operation_date |-> {"data prodaji", "data operacii", "operation_date", "date", "report_date", "period"},
     sale_date |-> {"data prodaji", "sale_date", "sale date"},
     sku |-> {"sku", "internal_sku", "vendor_code", "supplier_article", "artikul", "artikul postavwika"},
     nm_id |-> {"nm_id", "nmid", "nm id", "nomenklatura", "kod nomenklatury"},
     operation_type |-> {"operation_type", "operation", "doc_type", "tip operacii",
                         "obosnovanie dla oplaty", "supplier_oper_name"},
     retail_amount |-> {"retail_amount", "retail price", "retail_price", "roznihnaa cena",
                        "cena roznihnaa", "retail price withdisc rub"},
     wb_realized_amount |-> {"wb_realized_amount", "wb realized", "wildberries realized", "vayldberriz realizoval"},
     commission |-> {"commission", "ppvz_sales_commission", "komissia", "voznagrajdenie", "komissia wb"},
     logistics |-> {"logistics", "delivery_rub", "logistika", "delivery_amount", "rebill_logistic_cost",
                    "uslugi po dostavke tovara pokupatelu", "stoimost' logistiki",
                    "vozmewenie izderjek po perevozke"},
     storage_fee |-> {"storage_fee", "storage", "xranenie", "storage_amount"},
     penalty |-> {"penalty", "penalties", "wtraf", "penalty_amount"},
     acquiring |-> {"acquiring", "acquiring_fee", "ekvayring"},
     compensation |-> {"compensation", "compens"},
     payment_integration_compensation |-> {"payment_integration_compensation", "payment integration",
         "kompensacia platejnyx uslug", "komissia za integraciu platejnyx", "platejnyx servisov"},
     loyalty_compensation |-> {"loyalty_compensation", "kompensacia skidki po programme loal'nosti", "loal'nost"},
     voluntary_compensation |-> {"voluntary_compensation", "dobrovol'naa kompensacia"},
     deduction |-> {"deduction", "deductions", "uderjanie", "uderjania"},
     payout |-> {"payout", "for_pay", "k perehisleniu", "ppvz_for_pay", "perehislenie", "amount_to_pay"},
     advertisement |-> {"advertisement", "ads", "reklama", "promo"},
     quantity |-> {"quantity", "qty", "kol-vo", "kolihestvo"},
     return_amount |-> {"return_amount", "return_qty", "kolihestvo vozvrata"},
     return_wb |-> {"return_wb", "vayldberriz realizoval"},
     warehouse_name |-> {"warehouse_name", "warehouse", "sklad", "office_name", "ofis", "sklad otgruzki",
                         "warehouse of delivery"}]
Fields == DOMAIN Aliases
Texts == {"sku", "nm_id", "operation_type", "warehouse_name"}
DateFields == {"operation_date", "sale_date"}
AmountFields == Fields \ (Texts \cup DateFields)

V1Signature == {"ppvz_for_pay", "supplier_oper_name", "nm_id"}
V2Signature == {"k perehisleniu", "tip operacii", "nomenklatura"}

(* What a name that only contains an alias gains or loses for a field: it   *)
(* has one of the first marks and none of the second.                       *)
Adjustments ==
    {<<"operation_date", {"zakaz"}, {"prodaj"}, -120>>, <<"operation_date", {"fiksac"}, {}, -80>>,
     <<"operation_date", {"prodaj"}, {}, 40>>,          <<"operation_date", {"operac"}, {}, 30>>,
     <<"sale_date", {"prodaj"}, {}, 80>>,               <<"sale_date", {"zakaz", "operac"}, {}, -200>>,
     <<"retail_amount", {"skid", "withdisc", "disc"}, {}, -60>>,
     <<"retail_amount", {"roznih", "retail"}, {}, 30>>,
     <<"wb_realized_amount", {"realizoval"}, {}, 40>>,  <<"wb_realized_amount", {"perehislen"}, {}, -80>>,
     <<"payment_integration_compensation", {"platejn", "integrac"}, {}, 50>>,
     <<"return_wb", {"realizoval"}, {}, 40>>,           <<"return_wb", {"kolihestvo"}, {}, -100>>,
     <<"return_amount", {"kolihestvo vozvrata", "return_qty"}, {}, 40>>,
     <<"return_amount", {"realizoval"}, {}, -120>>,     <<"return_amount", {"pvz"}, {}, -120>>,
     <<"commission", {"platejn", "integrac"}, {}, -120>>}
Adjusted(field, name) ==
    MapThenSumSet(LAMBDA a : a[4],
        {a \in Adjustments : a[1] = field /\ a[2] \cap Holds[name] # {} /\ a[3] \cap Holds[name] = {}})

(* Mutated: marks change nothing. *)
PlainScore(field, name) ==
    Max({0} \cup {IF a = name THEN 200 + Len(a) ELSE 100 + Len(a) : a \in Aliases[field] \cap Holds[name]})

(* _column_match_score *)
Score(field, name) ==
    Max({0} \cup {IF a = name THEN 200 + Len(a) ELSE 100 + Len(a) + Adjusted(field, name) :
                      a \in Aliases[field] \cap Holds[name]})

Scores == [field \in Fields |-> [name \in DOMAIN Holds |-> Score(field, name)]]

(* A name has as many letters as it has. *)
ASSUME ScoresAssumption == \A field \in Fields, name \in DOMAIN Holds : Scores[field][name] \in Nat

(* resolve_column_map: the first column of the highest score, 0 if none has *)
(* one.                                                                    *)
ColumnMap(names) ==
    LET Best1(scores) == Max({0} \cup {scores[names[c]] : c \in {d \in DOMAIN names : names[d] # None}})
        Column(scores, best) ==
            IF best = 0 THEN 0 ELSE Min({c \in DOMAIN names : names[c] # None /\ scores[names[c]] = best})
    IN  [field \in Fields |-> Column(Scores[field], Best1(Scores[field]))]

-------------------------------------------------------------------------------
(***************************************************************************)
(* The search for the table.                                               *)
(***************************************************************************)
HasData(row) == \E c \in DOMAIN row : row[c] # Blank

(* cells_to_headers; a number or a date is a header no field looks for. *)
Names(row) == [c \in DOMAIN row |-> IF row[c].is = "word" THEN row[c].name ELSE None]

RuMarkers == {"k perehisleniu", "artikul", "nomenklatur", "tip operacii", "ppvz_for_pay",
              "supplier_oper_name", "cena roznih"}

Hits(names) ==
    LET known == ToSet(names) \ {None}
        signed == Max({Cardinality(s \cap known) : s \in {V1Signature, V2Signature}})
        marked == Cardinality({n \in known : Holds[n] \cap RuMarkers # {}})
    IN  IF signed < 2 THEN Max({signed, marked}) ELSE signed

(* header_signature_score *)
Signature(names) ==
    LET map == ColumnMap(names) IN Hits(names) * 100 + Cardinality({f \in Fields : map[f] # 0})

DataAfter(rows, i, last) == Cardinality({j \in i + 1 .. last : HasData(rows[j])})

Foremost(value) ==
    LET top == Max({value[i] : i \in DOMAIN value}) IN Min({i \in DOMAIN value : value[i] = top})

(* locate_wb_table_in_rows *)
HeaderRow(rows) ==
    LET last == Min({MaxScan, Len(rows)})
        able == {i \in 1 .. last : Hits(Names(rows[i])) >= 2}
    IN  IF able = {} THEN 0
        ELSE Foremost([i \in able |-> Signature(Names(rows[i])) * 10000 + DataAfter(rows, i, last)])

(* locate_wb_table_in_workbook: <<sheet, row>>, or None. *)
Located(f) ==
    LET able == {s \in DOMAIN f.sheets : HeaderRow(f.sheets[s]) # 0}
        Worth(s) == LET rows == f.sheets[s]  h == HeaderRow(rows)
                    IN  Signature(Names(rows[h])) * 10000 + DataAfter(rows, h, Len(rows))
    IN  IF able = {} THEN None
        ELSE LET s == Foremost([s \in able |-> Worth(s)]) IN <<s, HeaderRow(f.sheets[s])>>

WhereFound == [f \in Files |-> Located(f)]

(* Mutated: the active sheet is taken as it is. *)
ActiveTop(f) == IF f.sheets[f.active] = << >> THEN None ELSE <<f.active, 1>>

(* locate_wb_table: or else the first row of the active sheet; None if it    *)
(* has none, and the file is refused.                                       *)
StreamTable(f) ==
    IF WhereFound[f] # None THEN WhereFound[f]
    ELSE IF f.sheets[f.active] = << >> THEN None ELSE <<f.active, 1>>

(* load_file_to_dataframe: a .csv is read from its first line on, without a *)
(* search.                                                                 *)
FrameTable(f) ==
    LET lines == {i \in DOMAIN f.sheets[1] : f.sheets[1][i] # << >>}
    IN  IF f.csv THEN IF lines = {} THEN None ELSE <<1, Min(lines)>>
        ELSE IF WhereFound[f] # None THEN WhereFound[f]
        ELSE IF f.sheets[1] = << >> THEN None ELSE <<1, 1>>

-------------------------------------------------------------------------------
(***************************************************************************)
(* Rows.                                                                   *)
(***************************************************************************)
Valued(row, c) == IF c \in DOMAIN row THEN row[c] ELSE Blank

(* row_map: of two columns of one name the last one's value stays. *)
Mapped(names, row, c) ==
    Valued(row, Max({d \in DOMAIN names : names[d] = names[c]}))

(* The cell a field is read from, map being the column map of names. *)
Of(names, map, row, field) ==
    LET c == map[field] IN IF c = 0 THEN Blank ELSE Mapped(names, row, c)

(* eye is "day" for the stream's reading of dates and "pandas" for the other, *)
(* which takes a number for the nanoseconds since 1970 (and the text of one, *)
(* where the column is one of texts, for a year or for nothing: a number is  *)
(* never a clear date, below).  The stream sees no date in it.              *)
Epoch == 0
Dated(cell, eye) ==
    CASE cell.is = "date" -> cell[eye]
      [] cell.is = "number" /\ eye = "pandas" -> Epoch
      [] OTHER -> None

Text(cell) ==
    CASE cell.is = "word" -> cell.name [] cell.is = "number" -> ToString(cell.n) [] OTHER -> None

(* What a field is given for a cell. *)
Value(field, cell, eye) ==
    CASE field \in DateFields -> Dated(cell, eye)
      [] field \in Texts -> Text(cell)
      [] OTHER -> IF cell.is = "number" THEN cell.n ELSE None

(* The canonical values of a row. *)
Canonical(names, map, row, eye) == [field \in Fields |-> Value(field, Of(names, map, row, field), eye)]

(* What is stored of a row beside that: its cells by name. *)
Raw(names, row) ==
    [n \in ToSet(names) \ {None} |-> Mapped(names, row, Min({c \in DOMAIN names : names[c] = n}))]

(* _resolve_logistics: key by key, the column of that name and then those     *)
(* that have it in their name; the first amount that is not 0.               *)
LogisticsKeys == <<"uslugi po dostavke tovara pokupatelu", "stoimost' logistiki", "logistika",
                   "logistics", "delivery_rub">>
Freight(names, row) ==
    LET Charged(k) == {c \in DOMAIN names : names[c] # None /\ LogisticsKeys[k] \in Holds[names[c]]
                            /\ Mapped(names, row, c).is = "number" /\ Mapped(names, row, c).n # 0}
        Named(k) == {c \in Charged(k) : names[c] = LogisticsKeys[k]}
        keys == {k \in DOMAIN LogisticsKeys : Charged(k) # {}}
        First(k) == Min(IF Named(k) # {} THEN Named(k) ELSE Charged(k))
    IN  IF keys = {} THEN << >> ELSE [logistics_raw |-> Mapped(names, row, First(Min(keys))).n]

StreamedRow(names, row, i) ==
    [index |-> i, raw |-> Raw(names, row), freight |-> Freight(names, row),
     read |-> Canonical(names, ColumnMap(names), row, "day")]

(* canonical_from_raw_payload: the same from the keys as JSONB orders them. *)
Reread(raw) ==
    LET At(i) ==
            CHOOSE n \in DOMAIN raw : Cardinality({m \in DOMAIN raw : JsonRank[m] < JsonRank[n]}) = i - 1
        keys == [i \in 1 .. Cardinality(DOMAIN raw) |-> At(i)]
    IN  Canonical(keys, ColumnMap(keys), [i \in DOMAIN keys |-> raw[keys[i]]], "pandas")

-------------------------------------------------------------------------------
(***************************************************************************)
(* The frame.                                                              *)
(***************************************************************************)
(* The lines below the header t: blank ones of a workbook count, but for those *)
(* after the last that is not; empty ones of a .csv do not.                  *)
FrameLines(f, t) ==
    LET rows == f.sheets[t[1]]
        last == Max({t[2]} \cup {i \in DOMAIN rows : HasData(rows[i])})
    IN  IF f.csv THEN {i \in t[2] + 1 .. Len(rows) : rows[i] # << >>} ELSE t[2] + 1 .. last

FrameData(f, t) ==
    LET lines == FrameLines(f, t)
        At(k) == CHOOSE i \in lines : Cardinality({j \in lines : j <= i}) = k
    IN  [k \in 1 .. Cardinality(lines) |-> f.sheets[t[1]][At(k)]]

(* A column of numbers with gaps has no integers, and 7 reads as 7.0.        *)
Gappy(names, map, rows, f) ==
    {Of(names, map, rows[i], f).is : i \in DOMAIN rows} = {"number", "blank"}

FrameRead(names, map, rows, i) ==
    LET read == Canonical(names, map, rows[i], "pandas")
    IN  [f \in Fields |-> IF f \in Texts /\ Gappy(names, map, rows, f) /\ read[f] # None
                           THEN read[f] \o ".0" ELSE read[f]]

(* What the first line of a .csv has more cells than the header moves every  *)
(* name that many columns to the right: the columns before are the index.    *)
Shift(f, t) ==
    LET lines == FrameLines(f, t)  Width(i) == Len(f.sheets[t[1]][i])
    IN  IF f.csv /\ lines # {} THEN Max({0, Width(Min(lines)) - Width(t[2])}) ELSE 0

(* pandas gives the second column of a name another one.                    *)
FrameNames(names, shift) ==
    LET Again(c) == \E d \in 1 .. c - 1 : names[d] = names[c]
    IN  [c \in 1 .. Len(names) + shift |->
            IF c <= shift \/ Again(c - shift) THEN None ELSE names[c - shift]]

FrameRows(f, t) ==
    LET names == FrameNames(Names(f.sheets[t[1]][t[2]]), Shift(f, t))  data == FrameData(f, t)
        map == ColumnMap(names)
    IN  [i \in DOMAIN data |-> [read |-> FrameRead(names, map, data, i), blank |-> ~HasData(data[i])]]

(* validate_report_file.  pandas raises at a line of a .csv that is wider    *)
(* than the header and the first line both.  The parser makes an integer of  *)
(* every row's index, which the cells of one column allow if all of them are *)
(* numbers, as pandas writes numbers, and those of two never do.            *)
Accepted(f) ==
    \E t \in {FrameTable(f)} \ {None} :
        /\ FrameLines(f, t) # {}
        /\ Shift(f, t) <= 1
        /\ f.csv => \A i \in FrameLines(f, t) :
              /\ Len(f.sheets[1][i]) <= Len(f.sheets[1][t[2]]) + Shift(f, t)
              /\ Shift(f, t) = 1 => Valued(f.sheets[1][i], 1).is = "number"

-------------------------------------------------------------------------------
(***************************************************************************)
(* The streaming reader.                                                   *)
(***************************************************************************)
Header == Names(file.sheets[table[1]][table[2]])
Rows == file.sheets[table[1]]

(* What the ledger makes of a row that was read. *)
LedgerRow(r) ==
    LET amounts == {a \in AmountFields : r.read[a] # None}
    IN  [label |-> r.read.operation_type, sku |-> r.read.sku,
         day |-> r.read.operation_date, again |-> r.read.operation_date,
         cells |-> [c \in amounts \cup DOMAIN r.freight |->
                       IF c \in amounts THEN r.read[c] ELSE r.freight[c]]]
DayOf(r) == IF r.read.operation_date = None THEN CreatedOn ELSE r.read.operation_date
EntriesOf(rows) == UNION {Entries(rows[i].index, LedgerRow(rows[i]), DayOf(rows[i])) : i \in DOMAIN rows}
MovesOf(rows) ==
    UNION {{[row |-> m.row, sku |-> m.sku, house |-> rows[i].read.warehouse_name, day |-> m.day] :
                m \in Movements(rows[i].index, LedgerRow(rows[i]), DayOf(rows[i]))} : i \in DOMAIN rows}

NoSums == [count |-> 0, earliest |-> None, firsts |-> << >>, skus |-> {}, columns |-> {},
           late |-> {}, recon |-> None]

Earlier(a, b) == IF a = None THEN b ELSE IF b = None THEN a ELSE Min({a, b})
Shelf(m) == <<m.sku, m.house>>

(* merge_stream_state, and the anomalies of validate_wb_process: no two       *)
(* movements of a file share a row, so dates after the upload are left.  No   *)
(* row of a report makes an opening movement.                                 *)
(* Mutated: the first days of the last chunk only. *)
LastFirsts(s, moves) ==
    [k \in {Shelf(m) : m \in {n \in moves : n.sku # None}} |->
        Min({m.day : m \in {n \in moves : Shelf(n) = k}})]
Firsts(s, moves) ==
    LET new == {m \in moves : m.sku # None}
    IN  [k \in DOMAIN s.firsts \cup {Shelf(m) : m \in new} |->
            Min({m.day : m \in {n \in new : Shelf(n) = k}}
                \cup (IF k \in DOMAIN s.firsts THEN {s.firsts[k]} ELSE {}))]

Added(s, rows) ==
    LET moves == MovesOf(rows)
        partial == Calculate(EntriesOf(rows))
    IN  [count    |-> s.count + Len(rows),
         earliest |-> Earlier(s.earliest, IF moves = {} THEN None ELSE Min({m.day : m \in moves})),
         firsts   |-> Firsts(s, moves),
         skus     |-> s.skus \cup ({rows[i].read.sku : i \in DOMAIN rows} \ {None}),
         columns  |-> s.columns \cup UNION {DOMAIN rows[i].raw : i \in DOMAIN rows},
         late     |-> s.late \cup {m.row : m \in {n \in moves : n.day > CreatedOn}},
         recon    |-> IF s.recon = None THEN partial ELSE Merge(s.recon, partial)]

ReadingInit ==
    /\ file \in Files /\ table = None /\ at = 0 /\ pc = "upload"
    /\ chunk = << >> /\ out = << >> /\ sums = NoSums

Upload ==
    /\ pc = "upload"
    /\ pc' = IF Accepted(file) THEN "locate" ELSE "turned"
    /\ UNCHANGED <<file, table, at, chunk, out, sums>>

Locate ==
    /\ pc = "locate"
    /\ table' = StreamTable(file)
    /\ IF table' = None THEN pc' = "refused" /\ at' = at ELSE pc' = "read" /\ at' = table'[2] + 1
    /\ UNCHANGED <<file, chunk, out, sums>>

(* Mutated: the first blank row ends the table. *)
ReadRowToGap ==
    /\ pc = "read" /\ at <= Len(Rows) /\ Len(chunk) < ChunkSize
    /\ IF HasData(Rows[at])
       THEN /\ chunk' = Append(chunk, StreamedRow(Header, Rows[at], Len(out) + Len(chunk)))
            /\ at' = at + 1
       ELSE chunk' = chunk /\ at' = Len(Rows) + 1
    /\ UNCHANGED <<file, table, out, sums, pc>>

(* _yield_normalized_chunks, row by row. *)
ReadRow ==
    /\ pc = "read" /\ at <= Len(Rows) /\ Len(chunk) < ChunkSize
    /\ chunk' = IF HasData(Rows[at])
                THEN Append(chunk, StreamedRow(Header, Rows[at], Len(out) + Len(chunk))) ELSE chunk
    /\ at' = at + 1
    /\ UNCHANGED <<file, table, out, sums, pc>>

Ready == pc = "read" /\ (Len(chunk) = ChunkSize \/ (at > Len(Rows) /\ chunk # << >>))

(* A shutdown is looked for once a chunk is persisted, and before.           *)
HandOver ==
    /\ Ready
    /\ out' = out \o chunk /\ sums' = Added(sums, chunk) /\ chunk' = << >>
    /\ pc' \in {"read", "stopped"}
    /\ UNCHANGED <<file, table, at>>

(* build_streamed_result; a file without data rows raises. *)
Ends ==
    /\ pc = "read" /\ at > Len(Rows) /\ chunk = << >>
    /\ pc' = IF out = << >> THEN "refused" ELSE "done"
    /\ UNCHANGED <<file, table, at, chunk, out, sums>>

Stop ==
    /\ Ready
    /\ pc' = "stopped"
    /\ UNCHANGED <<file, table, at, chunk, out, sums>>

ReadingNext == Upload \/ Locate \/ ReadRow \/ HandOver \/ Ends \/ Stop

ReadingSpec == ReadingInit /\ [][ReadingNext]_readingVars

-------------------------------------------------------------------------------
(***************************************************************************)
(* The properties.                                                         *)
(***************************************************************************)
(* Wherever the file is cut into chunks, every row with data that the reader *)
(* has passed is held once, in its place, and the days, SKUs, columns and    *)
(* anomalies carried from chunk to chunk are those of all rows handed over  *)
(* at once, and so is every sum of the reconciliation; only what is         *)
(* expected to be paid may lose the compensation (merge_stream_state).      *)
ChunkingIsInvisible ==
    /\ pc \in {"read", "done"} =>
          Len(out) + Len(chunk) = Cardinality({i \in table[2] + 1 .. at - 1 : HasData(Rows[i])})
    /\ out # << >> =>
         LET whole == Added(NoSums, out) IN
           /\ [sums EXCEPT !.recon = None] = [whole EXCEPT !.recon = None]
           /\ sums.recon.sums = whole.recon.sums
           /\ \A i \in DOMAIN out : out[i].index = i - 1

Distinct(names) == \A c, d \in DOMAIN names : names[c] = names[d] /\ names[c] # None => c = d
Clear(field, cell) ==
    field \in DateFields => cell.is # "number" /\ (cell.is = "date" => cell.day = cell.pandas)

(* JSONB does not keep the order of the columns: the maintenance script may   *)
(* read a field of a stored row from another column than the stream did, but *)
(* only from one that ties with it, and otherwise reads what the stream did, *)
(* but for a date that is not clear.                                       *)
RereadAgrees(r, names) ==
    LET map == ColumnMap(names)  again == Reread(r.raw) IN
    \A f \in Fields : again[f] # r.read[f] =>
        LET mine == names[map[f]] IN
          \/ \E n \in DOMAIN r.raw \ {mine} :
                Scores[f][n] = Scores[f][mine] /\ again[f] = Value(f, r.raw[n], "pandas")
          \/ ~Clear(f, r.raw[mine])

(* The upload's frame gives a field what the stream gives it, but for a date  *)
(* that is not clear and a text read from a column of numbers with gaps.     *)
FrameAgrees(read, framed, names, data, i) ==
    LET map == ColumnMap(names) IN
    \A f \in Fields : framed[f] # read[f] =>
        \/ ~Clear(f, Of(names, map, data[i], f))
        \/ f \in Texts /\ Gappy(names, map, data, f) /\ framed[f] = read[f] \o ".0"

(* A finished reading gives the rows the upload's frame has, blank ones      *)
(* aside, field by field, if both find the same header, its names are        *)
(* distinct and no line moves them; and the maintenance script reads the    *)
(* stored rows as they were read.                                          *)
ReadersAgree ==
    pc = "done" =>
      /\ \A i \in DOMAIN out : RereadAgrees(out[i], Header)
      /\ (FrameTable(file) = table /\ Distinct(Header) /\ Shift(file, table) = 0) =>
           LET rows == FrameRows(file, table)
               Filled(I) == {k \in I : ~rows[k].blank}
           IN  /\ Len(out) = Cardinality(Filled(DOMAIN rows))
               /\ \A i \in Filled(DOMAIN rows) :
                     FrameAgrees(out[Cardinality(Filled(1..i))].read, rows[i].read, Header,
                                 FrameData(file, table), i)

Streams(f) ==
    \E t \in {StreamTable(f)} \ {None} :
        \E i \in t[2] + 1 .. Len(f.sheets[t[1]]) : HasData(f.sheets[t[1]][i])

(* As long as the upload and the worker see one table, a file the upload    *)
(* accepts is one the worker can read, unless it is a .csv all of whose      *)
(* lines are blank cells, which the frame keeps as rows and the worker       *)
(* refuses; and a file it turns away is one the worker could not have read,  *)
(* unless it is a .csv with a line wider than its header.  They may not see  *)
(* one table in a .csv whose header is not the first line, and in a workbook *)
(* in which no table is found and whose active sheet is not the first.       *)
OneView(f) == IF f.csv THEN FrameTable(f) = StreamTable(f) ELSE WhereFound[f] # None \/ f.active = 1
UploadForetells ==
    OneView(file) => \A t \in {FrameTable(file)} :
        /\ pc = "refused" => file.csv /\ \A i \in FrameLines(file, t) : ~HasData(file.sheets[1][i])
        /\ pc = "turned" /\ Streams(file) =>
             file.csv /\ \E i \in FrameLines(file, t) :
                 Len(file.sheets[1][i]) > Len(file.sheets[1][t[2]])

Size(e) == IF e.amount < 0 THEN -e.amount ELSE e.amount

(* No amount of the file is entered twice in the ledger: two fields that are  *)
(* read from one column, be it because their own are missing, never both     *)
(* make an entry of one row.  (The files' rows hold amounts all different.)  *)
NoAmountTwice ==
    \A i \in DOMAIN out : \A d, e \in EntriesOf(<<out[i]>>) :
        Size(d) = Size(e) /\ d.amount # 0 => d = e
==============================================================================
