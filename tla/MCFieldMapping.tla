----------------------------- MODULE MCFieldMapping -----------------------------
(* Instances of FieldMapping for TLC: four headers, two uploads.            *)
EXTENDS FieldMapping

Look(alias, same, best, ratio) == [alias |-> alias, same |-> same, best |-> best, ratio |-> ratio]

(* "wages" is an alias, "exposure" a column's own name, "est pay" like one *)
(* and "note" like none.                                                    *)
Headers == {"wages", "exposure", "est pay", "note"}
Columns == {"actual_payroll", "exposure"}
Types   == [actual_payroll |-> "NUMERIC", exposure |-> "NUMERIC"]

Likeness ==
    [f \in Headers |->
        CASE f = "wages"    -> Look("actual_payroll", "none", "exposure", 20)
          [] f = "exposure" -> Look("none", "exposure", "exposure", 100)
          [] f = "est pay"  -> Look("none", "none", "actual_payroll", 80)
          [] f = "note"     -> Look("none", "none", "exposure", 30)]

Col(f, k) == [field |-> f, kind |-> k]
File(format, parts) == [format |-> format, parts |-> parts]

Blank  == File("csv", <<<<Col("wages", "INTEGER"), Col("", "TEXT"), Col("est pay", "NUMERIC")>>>>)
Twice  == File("csv", <<<<Col("wages", "NUMERIC"), Col("wages", "none")>>>>)
Sheets == File("xlsx", <<<<Col("wages", "none"), Col("est pay", "NUMERIC")>>,
                         <<Col("wages", "NUMERIC"), Col("note", "TEXT")>>>>)
Report == File("report", <<<<Col("note", "none"), Col("wages", "NUMERIC")>>,
                           <<Col("wages", "NUMERIC"), Col("note", "none"), Col("", "TEXT")>>>>)
Tags   == File("xml", <<<<Col("exposure", "NUMERIC"), Col("note", "TEXT")>>>>)

At(name, files, events) == [column |-> name, files |-> files, events |-> events]

Pairs == {<<Blank, Sheets>>, <<Report, Twice>>, <<Sheets, Tags>>}

MappingScenarios ==
    {At(c, f, e) : c \in {"canonical", "target"}, f \in Pairs,
                   e \in {{}, {"reject", "failures"}, {"late_edit"}}}
    \cup {At("canonical", f, {"migrate", "reject"}) : f \in Pairs}
    \cup {At(c, <<Tags>>, {"migrate", "admin"}) : c \in {"canonical", "flagged"}}
=================================================================================
