------------------------------ MODULE Reports ------------------------------
(***************************************************************************)
(* What is told of an audit: the tables and the JSON of the terminal, the   *)
(* Markdown and the HTML of a report file.  Each computes its numbers from  *)
(* the rows of the audit on its own.  netauditor/report.py:136-228,         *)
(* netauditor/render.py, netauditor/models.py:198-243.                      *)
(*                                                                          *)
(* A row is a ComplianceResult: its device, whether it holds an error, the  *)
(* source and the results of the rules.  Layout, colours and wording are    *)
(* left out: an output is the record of the facts it shows.                 *)
(***************************************************************************)
EXTENDS Compliance, Integers, FiniteSets

\* The places of the rows that pass a test, their number, and what they give, each at
\* its place.
Places(rows, Test(_))         == {n \in DOMAIN rows : Test(rows[n])}
Count(rows, Test(_))          == Cardinality(Places(rows, Test))
Pick(rows, Test(_), Value(_)) == [n \in Places(rows, Test) |-> Value(rows[n])]
Map(rows, Value(_))           == [n \in DOMAIN rows |-> Value(rows[n])]

Applies(result) == result.status # "not_applicable"

\* Mutant: a device without a configuration has no failed rule.
compliant_WhenUnknown(row) == Places(row.results, failed) = {}

compliant(row) == ~row.error /\ Places(row.results, failed) = {}

HasError(row) == row.error

evaluated(row) == Count(row.results, Applies)

violation_count(row) == Total(Map(failures(row.results), LAMBDA rule : Cardinality(rule.violations)))

\* The label of a device, in the tables as in the files.
status_of(row) == IF row.error THEN "ERROR"
                  ELSE IF compliant(row) THEN "COMPLIANT" ELSE "NON-COMPLIANT"

DeviceLine(row) ==
    [device |-> row.device, label |-> status_of(row),
     passed |-> evaluated(row) - Count(row.results, failed),
     evaluated |-> evaluated(row), violations |-> violation_count(row)]

-----------------------------------------------------------------------------
(* The terminal.                                                            *)

render_compliance_table(audited) == Map(audited, DeviceLine)

\* Only what violates a rule: a device that was not audited is in the table.
render_violations(audited) ==
    LET Offends(row) == Places(row.results, failed) # {}
    IN  Pick(audited, Offends,
             LAMBDA row : [device |-> row.device, rules |-> failures(row.results)])

render_compliance_summary(audited) ==
    LET total  == Len(audited)
        passed == Count(audited, compliant)
        errors == Count(audited, HasError)
    IN  [compliant |-> passed, total |-> total, failed |-> total - passed - errors,
         errors |-> errors]

to_dict(row) ==
    [device |-> row.device, compliant |-> compliant(row), error |-> row.error,
     source |-> row.source, rules_evaluated |-> evaluated(row),
     rules_failed |-> Count(row.results, failed), violations |-> violation_count(row),
     results |-> row.results]

compliance_to_json(audited) ==
    [total |-> Len(audited), compliant |-> Count(audited, compliant),
     non_compliant |-> Len(audited) - Count(audited, compliant),
     errors |-> Count(audited, HasError), violations |-> Total(Map(audited, violation_count)),
     devices |-> Map(audited, to_dict)]

-----------------------------------------------------------------------------
(* The report file.                                                         *)

\* The violations of the rules of each severity.
severity_totals(audited) ==
    [s \in Severities |->
        Total(Map(audited, LAMBDA row :
            Total(Map(failures(row.results), LAMBDA r :
                IF r.severity = s THEN Cardinality(r.violations) ELSE 0))))]

\* Only severities with violations are shown.
Breakdown(audited) ==
    LET totals == severity_totals(audited)
    IN  [s \in {t \in Severities : totals[t] # 0} |-> totals[s]]

\* Mutant: the devices that violate a rule, as render_violations has them.
Findings_Violations(audited) ==
    LET Offends(row) == Places(row.results, failed) # {}
    IN  Pick(audited, Offends,
             LAMBDA row : [device |-> row.device, error |-> row.error,
                           rules |-> failures(row.results), source |-> row.source])

\* The devices to look at; with none, "All devices are compliant."
Findings(audited) ==
    LET Offends(row) == Places(row.results, failed) # {} \/ row.error
    IN  Pick(audited, Offends,
             LAMBDA row : [device |-> row.device, error |-> row.error,
                           rules |-> IF row.error THEN << >> ELSE failures(row.results),
                           source |-> IF row.error THEN 0 ELSE row.source])

\* The numbers at the top, those that are always there and those shown when not 0.
to_markdown(audited) ==
    [numbers |-> [Devices |-> Len(audited), Compliant |-> Count(audited, compliant),
                  Violations |-> Total(Map(audited, violation_count))],
     severities |-> Breakdown(audited),
     devices    |-> Map(audited, DeviceLine),
     findings   |-> Findings(audited)]

to_html(audited) ==
    LET errors == Count(audited, HasError)
        shown  == {name \in {"Unchecked"} : errors # 0}
    IN  [to_markdown(audited) EXCEPT
            !.numbers = [name \in DOMAIN @ \cup shown |->
                            IF name = "Unchecked" THEN errors ELSE @[name]]]

\* The format is told from the suffix; no other suffix is accepted.
REPORT_RENDERERS == [md |-> "markdown", markdown |-> "markdown", htm |-> "html",
                     html |-> "html", json |-> "json"]

Render(suffix, audited) ==
    CASE REPORT_RENDERERS[suffix] = "markdown" -> to_markdown(audited)
      [] REPORT_RENDERERS[suffix] = "html"     -> to_html(audited)
      [] REPORT_RENDERERS[suffix] = "json"     -> compliance_to_json(audited)
=============================================================================
