------------------------------ MODULE MCAudit ------------------------------
(***************************************************************************)
(* Instances of Audit, alone and in the job of Workflow, for TLC.           *)
(***************************************************************************)
EXTENDS Workflow

MCTwo  == <<"core1", "edge1">>
MCTags == [d \in {"core1", "edge1"} |-> IF d = "core1" THEN {"Spine"} ELSE {"leaf"}]

\* A rule for every device, one for the spines and one with two lines to violate.
MCRule(name, severity, tags, required, forbidden) ==
    [name |-> name, severity |-> severity, tags |-> tags, required |-> required,
     required_regex |-> << >>, forbidden |-> forbidden, forbidden_regex |-> << >>]

MCGolden == <<MCRule("no http", "low", {}, << >>, <<"ip http server">>),
              MCRule("ntp", "medium", {"spine"}, <<"ntp server a">>, << >>),
              MCRule("logging", "high", {}, <<"logging on", "logging buffered">>, << >>)>>

\* A configuration that conforms to all, and one that conforms to none.
MCGood == <<Line("ntp server a", TRUE), Line("!", FALSE), Line("logging on", FALSE),
            Line("logging buffered", FALSE)>>
MCLeaf == <<Line("ip http server", FALSE)>>

MCCaptures  == {MCGood, MCLeaf}
MCStamps    == 1..2
MCNone      == {}

MCOption(l, json, report) == [live |-> l, json |-> json, report |-> report]

MCOptions   == {MCOption(FALSE, FALSE, "md"), MCOption(FALSE, TRUE, ""),
                MCOption(TRUE, FALSE, "html"), MCOption(TRUE, TRUE, "json"),
                MCOption(TRUE, FALSE, "txt")}
MCMarkdown  == {MCOption(FALSE, FALSE, "md")}
MCSteps     == {"install", "upload"}
MCFaults    == {"unreadable", "undecodable", "bad_golden", "bad_report"}
MCBadReport == {"bad_report"}
=============================================================================
