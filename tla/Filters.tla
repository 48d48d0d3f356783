------------------------------- MODULE Filters -------------------------------
(* The filter engine (scraper/filters/engine.py) and the quality gate         *)
(* (scraper/validation/quality.py): conditions over the fields of a record,   *)
(* combined in four groups, and split into the conditions that can be decided *)
(* before a website is visited and those that cannot.                         *)
(*                                                                            *)
(* A value is None, a number or a text.  True and False are 1 and 0, as in    *)
(* Python; texts are in lower case, but for "N/A".                            *)
EXTENDS Integers, FiniteSets

CONSTANTS
    EnrichmentFields,  \* the fields that only enrichment produces
    Numeral,           \* what int() and float() make of the texts they accept
    Within,            \* pairs of values: the print of one is in the other's
    Unprintable,       \* texts with a control character
    Trials             \* the sets of filters, of late columns and the records
                       \* the two passes are compared on

None    == [kind |-> "none", n |-> 0, s |-> ""]
Num(n)  == [kind |-> "num",  n |-> n, s |-> ""]
Text(s) == [kind |-> "text", n |-> 0, s |-> s]
Flag(b) == Num(IF b THEN 1 ELSE 0)
NA      == Text("N/A")
Blank   == {None, Text(""), NA}

Groups == {"include_all", "include_any", "exclude_all", "exclude_any"}

-----------------------------------------------------------------------------
Coerce(v) ==
    IF v.kind # "text" THEN v
    ELSE IF v.s \in {"yes", "true", "y", "1"} THEN Flag(TRUE)
    ELSE IF v.s \in {"no", "false", "n", "0", ""} THEN Flag(FALSE)
    ELSE IF v.s \in DOMAIN Numeral THEN Num(Numeral[v.s]) ELSE v

Aliases == [reviews |-> "review_count", require_email |-> "email_found",
            has_website |-> "website",  rating_num |-> "rating",
            gtm |-> "tag_manager"]

Get(record, key) == IF key \in DOMAIN record THEN record[key] ELSE None

(* The special cases ask for the field as written, before its alias: of the   *)
(* aliases of website and email_found neither is special.                     *)
FieldValue(record, field) ==
    CASE field = "website" ->
             Flag(Get(record, "website") \notin Blank \cup {Flag(FALSE)})
      [] field = "email_found" -> Flag(Get(record, "emails") \notin Blank)
      [] field \in {"meta_pixel", "ga4"} ->
             Flag(Get(record, field) \in {Text("yes"), Text("true"), Text("detected")})
      [] field = "gtm" ->
             Flag(Get(record, "tag_manager") \notin Blank \cup {Text("no"), Text("false")})
      [] OTHER -> Get(record, IF field \in DOMAIN Aliases THEN Aliases[field] ELSE field)

(* A value that is no number satisfies no comparison.                         *)
Ordered(op, a, b) ==
    /\ a.kind = "num" /\ b.kind = "num"
    /\ CASE op = ">"  -> a.n > b.n
         [] op = "<"  -> a.n < b.n
         [] op = ">=" -> a.n >= b.n
         [] op = "<=" -> a.n <= b.n

(* A condition has its value and, for in and notin, its list of options; the  *)
(* entries of a list are not coerced.                                         *)
Options(cond) ==
    IF cond.value.kind = "list" THEN cond.value.items ELSE {Coerce(cond.value)}

Compare(record, cond) ==
    LET actual == Coerce(FieldValue(record, cond.field))
        expected == IF cond.value.kind = "list" THEN cond.value ELSE Coerce(cond.value)
        result == CASE cond.op \in {">", "<", ">=", "<="} -> Ordered(cond.op, actual, expected)
                    [] cond.op = "="        -> actual = expected
                    [] cond.op = "!="       -> actual # expected
                    [] cond.op = "in"       -> actual \in Options(cond)
                    [] cond.op = "notin"    -> actual \notin Options(cond)
                    [] cond.op = "contains" -> <<expected, actual>> \in Within
    IN result # cond.negate

EvaluateAll(record, conds) == \A c \in conds : Compare(record, c)
EvaluateAny(record, conds) == \E c \in conds : Compare(record, c)

Evaluate(record, filters) ==
    /\ EvaluateAll(record, filters.include_all)
    /\ filters.include_any = {} \/ EvaluateAny(record, filters.include_any)
    /\ filters.exclude_all = {} \/ ~EvaluateAll(record, filters.exclude_all)
    /\ ~EvaluateAny(record, filters.exclude_any)

(* A slip: the columns of custom signals are taken for columns of Maps.       *)
IsLateBuiltIn(cond, extra) == cond.field \in EnrichmentFields
IsLate(cond, extra) == cond.field \in EnrichmentFields \cup extra

(* A slip: the first pass runs the inclusions only.                           *)
SplitIncludesOnly(filters, extra) ==
    [pre  |-> [g \in Groups |-> IF g \in {"exclude_all", "exclude_any"} THEN {}
                                ELSE {c \in filters[g] : ~IsLate(c, extra)}],
     post |-> [g \in Groups |-> {c \in filters[g] : IsLate(c, extra)}]]
SplitFilters(filters, extra) ==
    [pre  |-> [g \in Groups |-> {c \in filters[g] : ~IsLate(c, extra)}],
     post |-> [g \in Groups |-> {c \in filters[g] : IsLate(c, extra)}]]

-----------------------------------------------------------------------------
(* The quality gate: a name, a rating that is a number from 0 to 5 stars (in  *)
(* tenths), and no control character in any text.                             *)
PassesQuality(record) ==
    /\ Get(record, "business_name") \notin Blank
    /\ LET rating == Get(record, "rating")
       IN  rating \notin Blank => rating.kind = "num" /\ rating.n \in 0..50
    /\ \A key \in DOMAIN record : record[key].s \notin Unprintable

-----------------------------------------------------------------------------
(* Two passes never keep a record that one pass over all conditions would     *)
(* drop (they may drop more: of include_any and exclude_all each pass decides *)
(* its own part), and with include_all and exclude_any alone they keep the    *)
(* same records.                                                              *)
SplitAgrees(filters, extra, record) ==
    LET split == SplitFilters(filters, extra)
        twice == Evaluate(record, split.pre) /\ Evaluate(record, split.post)
        once  == Evaluate(record, filters)
    IN  /\ twice => once
        /\ filters.include_any = {} /\ filters.exclude_all = {} => twice = once

(* Deciding the filters that need no website first keeps no lead that all     *)
(* filters together would drop, and where no group is cut in two no fewer     *)
(* (filters/engine.py:176-212).                                               *)
SplitNeverKeepsMore ==
    \A t \in Trials : SplitAgrees(t.filters, t.extra, t.record)
=============================================================================
