---------------------------- MODULE MCCompliance ----------------------------
(***************************************************************************)
(* An instance of Texts for TLC: lines, and a set of rules that use each    *)
(* kind of entry.                                                           *)
(***************************************************************************)
EXTENDS Texts

Rule(name, required, required_regex, forbidden, forbidden_regex) ==
    [name |-> name, tags |-> {}, severity |-> "high", required |-> required,
     required_regex |-> required_regex, forbidden |-> forbidden,
     forbidden_regex |-> forbidden_regex]

Http == "ip http server"
NtpA == "ntp server a"
NtpB == "ntp server a iburst"
Ntp  == {NtpA, NtpB}

\* A line with and without spaces at its end, another one and the same indented,
\* an empty line, a separator, and a header that changes at each capture.
MCLines == {Line(t, FALSE) : t \in {NtpA, Http, "   ip http server", "", "!",
                                    "! Time: 09:00"}}
           \cup {Line(NtpA, TRUE)}

MCRules == {Rule("ntp", <<NtpA>>, << >>, << >>, << >>),
            Rule("ntp and http", <<NtpA, "ip  http server">>, << >>, << >>, << >>),
            Rule("any ntp", << >>, <<Ntp>>, << >>, << >>),
            Rule("no http", << >>, << >>, <<"ip  http server", NtpB>>, << >>),
            Rule("no ntp", << >>, << >>, << >>, <<Ntp>>),
            Rule("mixed", <<NtpA>>, <<Ntp>>, <<Http>>, <<{NtpB}>>),
            Rule("captured at nine", << >>, <<{"! Time: 09:00"}>>, << >>, << >>),
            Rule("nothing", << >>, << >>, << >>, << >>)}
=============================================================================
