------------------------------- MODULE Checks -------------------------------
(***************************************************************************)
(* The built-in checks C1.1 to C6.2 (app/checks), the gates before them    *)
(* (run_checks, sources.py, norm_gate.py) and what the data screen says of *)
(* both beforehand (readiness.py), over the tables one company has loaded. *)
(*                                                                         *)
(* Each period holds what its last ingest put there: rows of the balances  *)
(* of materials (m15) and products (m15a) and of the norms (m16), and the  *)
(* declaration lines that its window selects (Periods has the window).     *)
(* Quantities are integers of a hundredth, the tolerance of the balances;  *)
(* rows are numbered in their order.  Money, titles and evidence are left  *)
(* out; every line has an item code and a date.                            *)
(***************************************************************************)
EXTENDS Integers, Sequences, FiniteSetsExt

CONSTANTS
    Period,             \* consecutive years
    M15Load, M15aLoad, M16Load, BcctLoad,
                        \* [Period -> the sets of rows its ingest may load]
    AbsentLoad,         \* [Period -> the sets of columns its officer may
                        \* confirm to be absent]
    aliases,            \* uom_aliases: [spelling -> canonical unit]
    parts,              \* [spelling -> its parts], one that has separators
    families            \* uom_canonicals: [canonical unit -> family]

\* Rows are finitely many and in an order, and quantities are numbers.
ASSUME ChecksAssumption ==
    /\ Period \subseteq Int /\ IsFiniteSet(Period)
    /\ \A y \in Period :
          /\ \A rows \in M15Load[y] \cup M15aLoad[y] \cup M16Load[y] \cup BcctLoad[y] :
                IsFiniteSet(rows) /\ \A r \in rows : r.no \in Int
          /\ \A r \in UNION M15Load[y] : r.production_out_qty \in Int
          /\ \A r \in UNION M15aLoad[y] : r.intake_qty \in Int
          /\ \A n \in UNION M16Load[y] : n.qty \in Int
          /\ \A l \in UNION BcctLoad[y] : l.quantity \in Int

NoBook == "none"        \* the only book of a company that keeps one
NoYear == 0

VARIABLES
    m15, m15a, m16, bcct,
                        \* [Period -> rows]
    absent_fields,      \* [Period -> columns confirmed absent, <<slot, field>>]
    first_bcqt_year     \* companies.first_bcqt_year

checkVars == <<m15, m15a, m16, bcct, absent_fields, first_bcqt_year>>

Sum(op(_), S) == MapThenSumSet(op, S)

Abs(n) == IF n < 0 THEN -n ELSE n

TOLERANCE == 1

\* The last row wins where rows go into a dictionary.
LastRow(rows) == CHOOSE r \in rows : \A s \in rows : s.no <= r.no

\* Two findings of one check, subject, book and severity are one here.
Found(check, severity, subject, book) ==
    [check |-> check, severity |-> severity, subject |-> subject, book |-> book]

-----------------------------------------------------------------------------
(* uom.py                                                                  *)

\* The canonical units a spelling may stand for.
resolve_code_set(u) ==
    IF u \in DOMAIN aliases THEN {aliases[u]}
    ELSE IF u \in DOMAIN parts THEN {aliases[p] : p \in parts[u] \cap DOMAIN aliases}
    ELSE {}

Resolved(u) == Cardinality(resolve_code_set(u)) = 1

resolve_families(u) == {families[c] : c \in resolve_code_set(u)}

\* Units of one canonical unit are one unit; others go by their spelling.
_unit_key(u) == IF Resolved(u) THEN CHOOSE c \in resolve_code_set(u) : TRUE ELSE u

\* How badly two units match: 0 equivalent, 1 same family, 2 unresolved,
\* 3 different.
UNRESOLVED == 2
DIFFERENT == 3
compare(u, v) ==
    LET fu == resolve_families(u)
        fv == resolve_families(v)
        same == resolve_code_set(u) = resolve_code_set(v)
    IN  IF u = v THEN 0
        ELSE IF fu = {} \/ fv = {} THEN UNRESOLVED
        ELSE IF fu \cap fv = {} THEN DIFFERENT
        ELSE IF same THEN 0 ELSE 1

-----------------------------------------------------------------------------
(* company_type.py                                                         *)

PAIRING ==
    [DNCX        |-> [nvl |-> {"E11", "E15"}, nvl_column |-> "import_qty",
                      sp |-> {"E42"}, sp_column |-> "export_qty"],
     GIA_CONG    |-> [nvl |-> {"E21", "E23"}, nvl_column |-> "import_qty",
                      sp |-> {"E52", "E54"}, sp_column |-> "export_qty"],
     SXXK        |-> [nvl |-> {"E31", "E33"}, nvl_column |-> "import_qty",
                      sp |-> {"E62"}, sp_column |-> "export_qty"],
     GIA_CONG_NN |-> [nvl |-> {"E82"}, nvl_column |-> "production_out_qty",
                      sp |-> {"E41"}, sp_column |-> "intake_qty"]]

TypeOrder == <<"DNCX", "GIA_CONG", "SXXK", "GIA_CONG_NN">>
UNKNOWN == "UNKNOWN"
MMTB_CODES == {"E13"}

_DETECT_CODES(t) ==
    PAIRING[t].nvl \cup PAIRING[t].sp \cup (IF t = "DNCX" THEN MMTB_CODES ELSE {})

\* The type most lines speak for, the first of those.
_vote(lines_) ==
    LET count(t) == Cardinality({l \in lines_ : l.customs \in _DETECT_CODES(t)})
        best == Max({count(t) : t \in DOMAIN PAIRING})
        i == Min({j \in DOMAIN TypeOrder : count(TypeOrder[j]) = best})
    IN  IF best = 0 THEN UNKNOWN ELSE TypeOrder[i]

detect_company_type(y) == _vote(bcct[y])

\* The type of each book, by the lines of the codes in it.
detect_book_types(y) ==
    LET books == {r.book : r \in m15[y] \cup m15a[y]}
        OfBook(b) == {r.code : r \in {x \in m15[y] \cup m15a[y] : x.book = b}}
        voted(b) == _vote({l \in bcct[y] : l.item \in OfBook(b)})
    IN  IF books \subseteq {NoBook} THEN [b \in {NoBook} |-> detect_company_type(y)]
        ELSE [b \in books |-> IF voted(b) = UNKNOWN THEN detect_company_type(y)
                                                    ELSE voted(b)]

\* _per_scope: all books together, or each on its own where their types
\* differ; never one of unknown type.
Scopes(y) ==
    LET types == detect_book_types(y)
        mixed == Cardinality({types[b] : b \in DOMAIN types}) > 1
        scope(books, t) ==
            [books |-> books, book |-> IF mixed THEN CHOOSE b \in books : TRUE ELSE NoBook,
             pairing |-> PAIRING[t]]
    IN  IF mixed
        THEN {scope({b}, types[b]) : b \in {x \in DOMAIN types : types[x] # UNKNOWN}}
        ELSE {scope(DOMAIN types, t) : t \in {detect_company_type(y)} \ {UNKNOWN}}

-----------------------------------------------------------------------------
(* severity_for: percentages num/den against the bands of a check.         *)

Bands == [C1_1 |-> <<"info", 5, "warning", 20, "critical">>,
          C1_4 |-> <<"info", 1, "warning", 5, "critical">>,
          C1_7 |-> <<"none", 10, "warning", 25, "critical">>,
          C4_3 |-> <<"none", 5, "warning", 20, "critical">>]

severity_for(scale, num, den) ==
    LET b == Bands[scale]
    IN  IF 100 * num < b[2] * den THEN b[1]
        ELSE IF 100 * num < b[4] * den THEN b[3] ELSE b[5]

-----------------------------------------------------------------------------
(* c1_quantity.py                                                          *)

LinesOf(y, codes) == {l \in bcct[y] : l.customs \in codes}

InScope(rows, s) == {r \in rows : r.book \in s.books}

Declared(lines_) == Sum(LAMBDA l : l.quantity, lines_)

\* What rows of a settlement state in a column.
Stated(rows, column) == Sum(LAMBDA r : r[column], rows)

\* What rows state in a column by code and unit, where it is more than none.
Slices(rows, column) ==
    LET key(r) == <<r.code, _unit_key(r.unit)>>
        qty(k) == Stated({x \in rows : key(x) = k}, column)
    IN  {s \in {[code |-> k[1], unit |-> k[2], qty |-> qty(k)] : k \in {key(r) : r \in rows}} :
            s.qty > 0}

\* Mutant: every unit's slice against the whole code.
AllSlices(slices, lines_) == {<<s.qty, Declared(lines_)>> : s \in slices}

\* The slices of one code to compare, each with what was declared: one slice
\* with the whole code; of several, those in a unit of the declarations with
\* that unit, or else the largest with the whole.
_unit_targets(slices, lines_) ==
    LET in_unit(u) == {l \in lines_ : _unit_key(l.unit) = u}
        matched == {s \in slices : in_unit(s.unit) # {}}
        largest == CHOOSE s \in slices : \A o \in slices : o.qty <= s.qty
    IN  IF Cardinality(slices) > 1 /\ matched # {}
        THEN {<<s.qty, Declared(in_unit(s.unit))>> : s \in matched}
        ELSE {<<largest.qty, Declared(lines_)>>}

\* C1.1 and C1.4: stated against declared, but for a floor in thousandths.
QuantityMismatch(check, scale, s, rows, column, lines_, floor) ==
    LET slices == Slices(InScope(rows, s), column)
        of(code) == _unit_targets({x \in slices : x.code = code},
                                  {l \in lines_ : l.item = code})
        off(t) == Abs(t[2] - t[1])
        found(code) == {Found(check, severity_for(scale, off(t), t[1]), code, s.book) :
                            t \in {x \in of(code) : 1000 * off(x) >= floor * x[1]}}
    IN  UNION {found(c) : c \in {x.code : x \in slices}}

check_c1_1(y) ==
    UNION {QuantityMismatch("C1.1", "C1_1", s, m15[y], s.pairing.nvl_column,
                            LinesOf(y, s.pairing.nvl), 5) : s \in Scopes(y)}

check_c1_4(y) ==
    UNION {QuantityMismatch("C1.4", "C1_4", s, m15a[y], s.pairing.sp_column,
                            LinesOf(y, s.pairing.sp), 1) : s \in Scopes(y)}

\* Declared, and in no book's balance.
check_c1_2(y) ==
    {Found("C1.2", "critical", c, NoBook) :
        c \in UNION {{l.item : l \in LinesOf(y, s.pairing.nvl)} : s \in Scopes(y)}
              \ {r.code : r \in m15[y]}}

check_c1_3(y) ==
    LET undeclared(s) == {r \in InScope(m15[y], s) :
            /\ r[s.pairing.nvl_column] > 0
            /\ \A l \in LinesOf(y, s.pairing.nvl) : l.item # r.code}
    IN  {Found("C1.3", "critical", r.code, r.book) :
            r \in UNION {undeclared(s) : s \in Scopes(y)}}

check_c1_6(y) ==
    {Found("C1.6", "critical", r.code, r.book) :
        r \in {x \in m15[y] : /\ x.repurpose_qty > 0
                              /\ \A l \in LinesOf(y, {"A42"}) : l.item # x.code}}

\* The share repurposed, by the row of a material with the most to repurpose.
check_c1_7(y) ==
    LET had(r) == r.opening_qty + r.import_qty
        rows == {r \in m15[y] : had(r) > 0 /\ r.repurpose_qty > 0}
        kept == {r \in rows : \A x \in rows :
                    x.code = r.code /\ x.book = r.book /\ x # r
                        => had(x) < had(r) \/ (had(x) = had(r) /\ r.no < x.no)}
        severity(r) == severity_for("C1_7", r.repurpose_qty, had(r))
    IN  {Found("C1.7", severity(r), r.code, r.book) :
            r \in {x \in kept : severity(x) # "none"}}

-----------------------------------------------------------------------------
(* c2_balance.py, c5_trace.py                                              *)

Critical(check, rows) == {Found(check, "critical", r.code, r.book) : r \in rows}

check_c2_1(y) ==
    Critical("C2.1", {r \in m15[y] : Abs(r.closing_qty
        - (r.opening_qty + r.import_qty - r.reexport_qty - r.repurpose_qty
            - r.production_out_qty - r.other_out_qty)) > TOLERANCE})

check_c2_2(y) ==
    Critical("C2.2", {r \in m15a[y] : Abs(r.closing_qty
        - (r.opening_qty + r.intake_qty - r.repurpose_qty
            - r.export_qty - r.other_out_qty)) > TOLERANCE})

check_c2_3(y) == Critical("C2.3", {r \in m15[y] : r.closing_qty < -TOLERANCE})

check_c2_4(y) == Critical("C2.4", {r \in m15a[y] : r.closing_qty < -TOLERANCE})

check_c5_1(y) ==
    Critical("C5.1", {r \in m15[y] :
        r.production_out_qty > 0 /\ r.import_qty = 0 /\ r.opening_qty = 0})

-----------------------------------------------------------------------------
(* c3_classify.py                                                          *)

_NVL_CODES == {"E11", "E15", "E31", "E33", "E21", "E23"}

check_c3_1(y) ==
    {Found("C3.1", "warning", c, NoBook) :
        c \in {l.item : l \in LinesOf(y, _NVL_CODES)}
              \cap {l.item : l \in LinesOf(y, MMTB_CODES)}}

\* An HS code is <<chapter, heading, subheading>>.
check_c3_2(y) ==
    LET hs(c) == {l.hs : l \in {x \in bcct[y] : x.item = c}}
        apart(c, digits) == Cardinality({SubSeq(h, 1, digits) : h \in hs(c)}) > 1
        severity(c) == IF apart(c, 1) THEN "critical"
                       ELSE IF apart(c, 2) THEN "warning" ELSE "info"
    IN  {Found("C3.2", severity(c), c, NoBook) :
            c \in {x \in {l.item : l \in bcct[y]} : apart(x, 3)}}

\* Mutant: the norms only where the declarations have no unit.
DeclaredUnitsFirst(y, book, code) ==
    LET declared == {l.unit : l \in {x \in bcct[y] : x.item = code}}
    IN  IF declared # {} THEN declared
        ELSE {n.unit : n \in {x \in m16[y] : x.book = book /\ x.material = code}}

\* The units a material's balance is compared with.
OtherUnits(y, book, code) ==
    {l.unit : l \in {x \in bcct[y] : x.item = code}}
        \cup {n.unit : n \in {x \in m16[y] : x.book = book /\ x.material = code}}

\* The best of its units against the worst of the others.
check_c3_3(y) ==
    LET units(b, c) == {r.unit : r \in {x \in m15[y] : x.book = b /\ x.code = c}}
        worst(u, others) == Max({compare(u, o) : o \in others})
        match(r) == Min({worst(u, OtherUnits(y, r.book, r.code)) : u \in units(r.book, r.code)})
        severity(n) == IF n = DIFFERENT THEN "critical"
                       ELSE IF n = UNRESOLVED THEN "warning" ELSE "info"
    IN  {Found("C3.3", severity(match(r)), r.code, r.book) :
            r \in {x \in m15[y] : OtherUnits(y, x.book, x.code) # {} /\ match(x) > 0}}

-----------------------------------------------------------------------------
(* effective_norms.py                                                      *)

\* For a product of a book, the whole of its latest declaration up to y.  A
\* pair stated more than once has the largest norm, and the note of its first
\* row or of one that differed from the norm so far.
effective_norms(y) ==
    LET rows(b, p, z) == {n \in m16[z] : n.book = b /\ n.product = p}
        years(b, p) == {z \in Period : z <= y /\ rows(b, p, z) # {}}
        declared(n) == rows(n.book, n.product, Max(years(n.book, n.product)))
        pair(n) == {o \in declared(n) : o.material = n.material}
        qty(S) == Max({o.qty : o \in S})
        noted(o, S) == o.domestic /\ LET sofar == {x \in S : x.no < o.no}
                                     IN  sofar = {} \/ o.qty # qty(sofar)
    IN  {[book |-> n.book, product |-> n.product, material |-> n.material,
          qty |-> qty(pair(n)), domestic |-> \E o \in pair(n) : noted(o, pair(n))] :
            n \in {o \in UNION {m16[z] : z \in {x \in Period : x <= y}} : o \in declared(o)}}

\* <<book, product>> of which some row has an intake.
produced_products(y) == {<<r.book, r.code>> : r \in {x \in m15a[y] : x.intake_qty > 0}}

products_without_norm(y) ==
    produced_products(y) \ {<<n.book, n.product>> : n \in effective_norms(y)}

consumed_materials(y) ==
    {n \in effective_norms(y) : n.qty > 0 /\ <<n.book, n.product>> \in produced_products(y)}

-----------------------------------------------------------------------------
(* c4_norm.py, norm_gate.py, c6_cross_period.py                            *)

M15Rows(y, book, code) == {r \in m15[y] : r.book = book /\ r.code = code}

\* The materials a period's norms are about, those declared in it and those
\* consumed by a norm in force.
NormScope(y) == m16[y] \cup consumed_materials(y)

check_c4_1(y) ==
    LET domestic == {<<n.book, n.material>> : n \in {x \in NormScope(y) : x.domestic}}
        unsourced(k) == LET rows == M15Rows(y, k[1], k[2])
                        IN  rows = {} \/ (LastRow(rows).import_qty = 0
                                            /\ LastRow(rows).opening_qty = 0)
    IN  {Found("C4.1", "critical", k[2], k[1]) :
            k \in {x \in {<<n.book, n.material>> : n \in NormScope(y)} \ domestic :
                        unsourced(x)}}

\* sp_output: what the last row of a norm's product took in.
Made(y, n) ==
    LET rows == {r \in m15a[y] : r.book = n.book /\ r.code = n.product}
    IN  IF rows = {} THEN 0 ELSE Max({0, LastRow(rows).intake_qty})

\* What norms say is consumed for it.
Consumption(y, norms) == Sum(LAMBDA n : n.qty * Made(y, n), norms)

\* It is held against the last row's production_out.
check_c4_3(y) ==
    LET theoretical(k) ==
            Consumption(y, {n \in effective_norms(y) : <<n.book, n.material>> = k})
        actual(k) == LastRow(M15Rows(y, k[1], k[2])).production_out_qty
        severity(k) ==
            IF actual(k) <= 0 THEN severity_for("C4_3", 1, 1)
            ELSE IF 100 * (theoretical(k) - actual(k)) <= 5 * actual(k) THEN "none"
            ELSE severity_for("C4_3", theoretical(k) - actual(k), actual(k))
        judged == {k \in {<<n.book, n.material>> : n \in effective_norms(y)} :
                        M15Rows(y, k[1], k[2]) # {} /\ theoretical(k) > 0}
    IN  {Found("C4.3", severity(k), k[2], k[1]) : k \in {x \in judged : severity(x) # "none"}}

check_c4_9(y) ==
    {Found("C4.9", "warning", k[2], k[1]) : k \in products_without_norm(y)}

\* C6.1 and C6.2: the opening balance against the closing one before it.
Carried(check, rows, before) ==
    LET prev(r) == {p \in before : p.book = r.book /\ p.code = r.code}
        closing(r) == IF prev(r) = {} THEN 0 ELSE LastRow(prev(r)).closing_qty
    IN  Critical(check, {r \in rows : Abs(r.opening_qty - closing(r)) > TOLERANCE})

Before(table, y) == IF y - 1 \in Period THEN table[y - 1] ELSE {}

check_c6_1(y) == Carried("C6.1", m15[y], Before(m15, y))

check_c6_2(y) == Carried("C6.2", m15a[y], Before(m15a, y))

PeriodsHeld == {z \in Period : m15[z] # {} \/ m15a[z] # {} \/ m16[z] # {}}

is_boundary_period(y) ==
    PeriodsHeld # {} /\ y = Min(PeriodsHeld) /\ first_bcqt_year # y

periods_without_norms(y) ==
    {z \in Period : PeriodsHeld # {} /\ Min(PeriodsHeld) <= z /\ z < y /\ m16[z] = {}}

-----------------------------------------------------------------------------
(* registry.py, sources.py: what each check reads.                         *)

ALL_CHECKS ==
    {"C1.1", "C1.2", "C1.3", "C1.4", "C1.6", "C1.7", "C2.1", "C2.2", "C2.3", "C2.4",
     "C3.1", "C3.2", "C3.3", "C4.1", "C4.3", "C4.9", "C5.1", "C6.1", "C6.2"}

\* SPECS.requires, by source.
Requiring ==
    [bcct |-> {"C1.1", "C1.2", "C1.3", "C1.4", "C1.6", "C3.1", "C3.2"},
     m15  |-> {"C1.1", "C1.2", "C1.3", "C1.6", "C1.7", "C2.1", "C2.3", "C3.3",
               "C4.1", "C4.3", "C5.1", "C6.1"},
     m15a |-> {"C1.4", "C2.2", "C2.4", "C4.3", "C4.9", "C6.2"},
     m16  |-> {"C4.1", "C4.3", "C4.9"}]

\* CHECK_COLUMNS, by column.
checks_reading ==
    [m15  |-> [material_code |-> {"C1.1", "C1.2", "C1.3", "C1.6", "C1.7", "C2.3",
                                  "C4.1", "C4.3", "C5.1"},
               opening_qty |-> {"C1.7", "C2.1", "C4.1", "C5.1"},
               import_qty |-> {"C1.1", "C1.3", "C1.7", "C2.1", "C4.1", "C5.1"},
               reexport_qty |-> {"C2.1"},
               repurpose_qty |-> {"C1.6", "C1.7", "C2.1"},
               production_out_qty |-> {"C2.1", "C4.3", "C5.1"},
               other_out_qty |-> {"C2.1"},
               closing_qty |-> {"C2.1", "C2.3"}],
     m15a |-> [product_code |-> {"C1.4", "C2.4", "C4.3", "C4.9"},
               opening_qty |-> {"C2.2"},
               intake_qty |-> {"C2.2", "C4.3", "C4.9"},
               repurpose_qty |-> {"C2.2"},
               export_qty |-> {"C1.4", "C2.2"},
               other_out_qty |-> {"C2.2"},
               closing_qty |-> {"C2.2", "C2.4"}],
     m16  |-> [product_code |-> {"C4.9"}, material_code |-> {"C4.1", "C4.3"},
               norm_qty |-> {"C4.3"}, note |-> {"C4.1"}],
     bcct |-> [item_code |-> {"C1.1", "C1.2", "C1.3", "C1.4", "C1.6", "C3.1", "C3.2", "C3.3"},
               declaration_date |-> {"C1.1", "C1.2", "C1.3", "C1.4", "C1.6",
                                     "C3.1", "C3.2", "C3.3"},
               customs_code |-> {"C1.1", "C1.2", "C1.3", "C1.4", "C1.6", "C3.1"},
               quantity |-> {"C1.1", "C1.2", "C1.4"},
               hs_code |-> {"C3.2"}, unit |-> {"C3.3"}]]

available_sources(y) ==
    {s \in DOMAIN Requiring :
        [bcct |-> bcct, m15 |-> m15, m15a |-> m15a, m16 |-> m16][s][y] # {}}

missing_sources(c, y) == {s \in DOMAIN Requiring \ available_sources(y) : c \in Requiring[s]}

blocking_absent_fields(c, y) ==
    {f \in absent_fields[y] : c \in checks_reading[f[1]][f[2]]}

-----------------------------------------------------------------------------
(* run_checks.py: how one check of a period comes out.                     *)

NEED_FILE == "need_file_this_period"
OTHER_PERIOD == "need_other_period_or_confirmation"
NOTHING_TO_LOAD == "nothing_to_load"
READY == "ready"

\* _EXTRA_GATES: the gates the checks have of their own, by the remedy.
norm_gate_outcome(y) ==
    IF is_boundary_period(y) THEN OTHER_PERIOD
    ELSE IF products_without_norm(y) = {} THEN READY
    ELSE IF periods_without_norms(y) # {} THEN OTHER_PERIOD ELSE NOTHING_TO_LOAD

OwnGate(c, y) ==
    CASE c = "C3.3" /\ bcct[y] = {} /\ m16[y] = {} -> NEED_FILE
      [] c = "C4.3" -> norm_gate_outcome(y)
      [] c = "C6.1" /\ Before(m15, y) = {} -> OTHER_PERIOD
      [] c = "C6.2" /\ Before(m15a, y) = {} -> OTHER_PERIOD
      [] OTHER -> READY

\* What the run stores: a remedy, or READY for a check that was evaluated.
RunStatus(c, y) ==
    IF missing_sources(c, y) # {} \/ blocking_absent_fields(c, y) # {}
    THEN NEED_FILE ELSE OwnGate(c, y)

Evaluated(c, y) == RunStatus(c, y) = READY

\* Mutant: a check's own gate before its sources.
GateFirst(c, y) ==
    IF OwnGate(c, y) # READY THEN OwnGate(c, y)
    ELSE IF missing_sources(c, y) # {} THEN NEED_FILE ELSE READY

\* What the data screen says of it beforehand (readiness.py).
predict_check(c, y) == IF missing_sources(c, y) # {} THEN NEED_FILE ELSE OwnGate(c, y)

FindingsOf(c, y) ==
    CASE c = "C1.1" -> check_c1_1(y) [] c = "C1.2" -> check_c1_2(y)
      [] c = "C1.3" -> check_c1_3(y) [] c = "C1.4" -> check_c1_4(y)
      [] c = "C1.6" -> check_c1_6(y) [] c = "C1.7" -> check_c1_7(y)
      [] c = "C2.1" -> check_c2_1(y) [] c = "C2.2" -> check_c2_2(y)
      [] c = "C2.3" -> check_c2_3(y) [] c = "C2.4" -> check_c2_4(y)
      [] c = "C3.1" -> check_c3_1(y) [] c = "C3.2" -> check_c3_2(y)
      [] c = "C3.3" -> check_c3_3(y) [] c = "C4.1" -> check_c4_1(y)
      [] c = "C4.3" -> check_c4_3(y) [] c = "C4.9" -> check_c4_9(y)
      [] c = "C5.1" -> check_c5_1(y) [] c = "C6.1" -> check_c6_1(y)
      [] c = "C6.2" -> check_c6_2(y)

\* The findings of a run over every check.
RunFindings(y) == UNION {FindingsOf(c, y) : c \in {x \in ALL_CHECKS : Evaluated(x, y)}}

\* Mutant: the materials of this period's norms only.
NormsOfThisYear(scope, y) ==
    CASE scope = "nvl" -> {r.code : r \in m15[y]} \cup {l.item : l \in bcct[y]}
      [] scope = "tp" -> {r.code : r \in m15a[y]} \cup {l.item : l \in bcct[y]}
      [] scope = "m16" -> {n.material : n \in m16[y]}

\* denominators.py: the codes each kind of check could have found fault with.
Exposed(scope, y) ==
    LET type == detect_company_type(y)
        items(lines_) == {l.item : l \in lines_}
    IN  CASE scope = "nvl" -> {r.code : r \in m15[y]} \cup
                items(IF type = UNKNOWN THEN bcct[y] ELSE LinesOf(y, PAIRING[type].nvl))
          [] scope = "tp" -> {r.code : r \in m15a[y]} \cup
                items(IF type = UNKNOWN THEN {} ELSE LinesOf(y, PAIRING[type].sp))
          [] scope = "m16" -> {n.material : n \in effective_norms(y)}

ScopeOf(c) ==
    IF c \in {"C1.4", "C2.2", "C2.4", "C4.9", "C6.2"} THEN "tp"
    ELSE IF c \in {"C4.1", "C4.3"} THEN "m16" ELSE "nvl"

-----------------------------------------------------------------------------
(* What moves: ingests replace the rows of a period's document, an officer *)
(* confirms what is absent and the company's first year of settlement.     *)

ChecksInit ==
    /\ m15 = [y \in Period |-> {}] /\ m15a = [y \in Period |-> {}]
    /\ m16 = [y \in Period |-> {}] /\ bcct = [y \in Period |-> {}]
    /\ absent_fields = [y \in Period |-> {}]
    /\ first_bcqt_year = NoYear

LoadM15(y) ==
    /\ \E rows \in M15Load[y] : m15' = [m15 EXCEPT ![y] = rows]
    /\ UNCHANGED <<m15a, m16, bcct, absent_fields, first_bcqt_year>>

LoadM15a(y) ==
    /\ \E rows \in M15aLoad[y] : m15a' = [m15a EXCEPT ![y] = rows]
    /\ UNCHANGED <<m15, m16, bcct, absent_fields, first_bcqt_year>>

LoadM16(y) ==
    /\ \E rows \in M16Load[y] : m16' = [m16 EXCEPT ![y] = rows]
    /\ UNCHANGED <<m15, m15a, bcct, absent_fields, first_bcqt_year>>

LoadDeclarations(y) ==
    /\ \E rows \in BcctLoad[y] : bcct' = [bcct EXCEPT ![y] = rows]
    /\ UNCHANGED <<m15, m15a, m16, absent_fields, first_bcqt_year>>

ConfirmAbsent(y) ==
    /\ \E fields \in AbsentLoad[y] : absent_fields' = [absent_fields EXCEPT ![y] = fields]
    /\ UNCHANGED <<m15, m15a, m16, bcct, first_bcqt_year>>

\* documents_set_company_fields: the year, or none.
SetFirstYear ==
    /\ first_bcqt_year' \in Period \cup {NoYear}
    /\ UNCHANGED <<m15, m15a, m16, bcct, absent_fields>>

ChecksNext ==
    \/ SetFirstYear
    \/ \E y \in Period : LoadM15(y) \/ LoadM15a(y) \/ LoadM16(y) \/ LoadDeclarations(y)
                            \/ ConfirmAbsent(y)

ChecksSpec == ChecksInit /\ [][ChecksNext]_checkVars

-----------------------------------------------------------------------------
(* Properties                                                              *)

\* The periods that have something to run over.
LoadedPeriods == {y \in Period : available_sources(y) # {}}

\* Rows come from ingests alone.
ChecksTypeOK ==
    /\ \A y \in Period : /\ m15[y] \in M15Load[y] \cup {{}} /\ m15a[y] \in M15aLoad[y] \cup {{}}
                         /\ m16[y] \in M16Load[y] \cup {{}} /\ bcct[y] \in BcctLoad[y] \cup {{}}
                         /\ absent_fields[y] \in AbsentLoad[y] \cup {{}}
    /\ first_bcqt_year \in Period \cup {NoYear}

\* A norm in force for a product made in y, by the declarations themselves.
Uses(y, book, product, material) ==
    \E z \in Period :
        /\ z <= y
        /\ \E n \in m16[z] : /\ n.book = book /\ n.product = product
                             /\ n.material = material /\ n.qty > 0
        /\ \A x \in (z + 1)..y : \A n \in m16[x] : ~(n.book = book /\ n.product = product)
        /\ \E r \in m15a[y] : r.book = book /\ r.code = product /\ r.intake_qty > 0

\* C4.1 and C4.3 leave no consumed material between them (c4_norm.py 36-40,
\* 143-145): one that no norm calls domestic and that a product of the period
\* uses is reported or has a source in its book's balance, and if the balance
\* issues nothing to production and the product is stated once, is reported.
NoMaterialUnseen ==
    \A y \in LoadedPeriods : Evaluated("C4.1", y) /\ Evaluated("C4.3", y) =>
        \A n \in UNION {m16[z] : z \in Period} :
            LET rows == M15Rows(y, n.book, n.material)
                reported == \E f \in FindingsOf("C4.1", y) \cup FindingsOf("C4.3", y) :
                                f.subject = n.material /\ f.book = n.book
                stated == {r \in m15a[y] : r.book = n.book /\ r.code = n.product}
                foreign == \A o \in UNION {m16[z] : z \in Period} :
                                o.book = n.book /\ o.material = n.material => ~o.domestic
            IN  foreign /\ Uses(y, n.book, n.product, n.material) =>
                    /\ reported \/ \E r \in rows : r.import_qty # 0 \/ r.opening_qty # 0
                    /\ \/ reported
                       \/ \E r \in rows : r.production_out_qty > 0
                       \/ Cardinality(stated) > 1

\* A quantity written down again in a second unit is no mismatch (c1_quantity
\* _unit_targets): where a material's declarations are all in one unit and
\* its rows in that unit state what was declared, C1.1 is silent about it.
SecondUnitHarmless ==
    \A y \in LoadedPeriods : \A s \in Scopes(y) :
        \A l \in LinesOf(y, s.pairing.nvl) :
            LET lines_ == {x \in LinesOf(y, s.pairing.nvl) : x.item = l.item}
                rows == {r \in InScope(m15[y], s) :
                            r.code = l.item /\ _unit_key(r.unit) = _unit_key(l.unit)}
            IN  /\ \A x \in lines_ : _unit_key(x.unit) = _unit_key(l.unit)
                /\ rows # {} /\ Declared(lines_) > 0
                /\ Stated(rows, s.pairing.nvl_column) = Declared(lines_)
                => ~\E f \in check_c1_1(y) : f.subject = l.item /\ f.book = s.book

\* Data that only grows hides no unit mismatch (c3_classify.py 153-155): a
\* critical C3.3 finding stays critical when declarations or norms are added.
MismatchNeverHidden ==
    [][<<bcct, m16>>' # <<bcct, m16>> => \A y \in Period :
          /\ m15[y] # {} /\ m15'[y] = m15[y]
          /\ bcct[y] \subseteq bcct'[y] /\ m16[y] \subseteq m16'[y]
          => {f \in check_c3_3(y) : f.severity = "critical"} \subseteq check_c3_3(y)'
      ]_checkVars

\* What the data screen promises of a check is what the run then stores
\* (readiness.py), unless a column it reads was confirmed absent, which the
\* screen does not look at.
PredictionTrue ==
    \A y \in LoadedPeriods, c \in ALL_CHECKS :
        predict_check(c, y) = RunStatus(c, y)
            \/ (blocking_absent_fields(c, y) # {} /\ RunStatus(c, y) = NEED_FILE)

\* A finding has a severity and is about a code that its score's denominator counts
\* (denominators.py, "the denominator must count the set the check judged"),
\* but those of C3.1 and C3.2, which declarations of any code can cause, and
\* those of a company whose books are of different types.
FindingsCounted ==
    \A y \in LoadedPeriods : \A f \in RunFindings(y) :
        /\ f.severity \in {"info", "warning", "critical"}
        /\ \/ f.check \in {"C3.1", "C3.2"}
           \/ f.subject \in Exposed(ScopeOf(f.check), y)
           \/ Cardinality(Scopes(y)) > 1

=============================================================================
