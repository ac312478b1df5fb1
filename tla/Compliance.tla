----------------------------- MODULE Compliance -----------------------------
(***************************************************************************)
(* Evaluating one configuration against the golden rules: which lines are   *)
(* looked at, what violates a rule, whom a rule is for.                     *)
(* netauditor/compliance.py:42-138, netauditor/golden.py:65-84,199-206.     *)
(*                                                                          *)
(* A text is a sequence of lines as in ConfigText.  A pattern is the set of *)
(* the texts its search finds a match in; the other entries of a rule are   *)
(* texts.  A golden configuration is the sequence of its rules.             *)
(***************************************************************************)
EXTENDS ConfigText

\* The texts with white space to collapse, and the tags and names with upper case
\* letters; any other text, tag or name is its own normal form.
Spaced == [t \in {"   ip http server", "ip  http server"} |-> "ip http server"]
Upper  == [t \in {"Spine", "Core1"} |-> IF t = "Spine" THEN "spine" ELSE "core1"]

collapse(text) == IF text \in DOMAIN Spaced THEN Spaced[text] ELSE text
lower(tag)     == IF tag \in DOMAIN Upper THEN Upper[tag] ELSE tag

\* Mutant: the white space a line ends with is kept.
normalize_line_KeepsEnd(line) ==
    IF line.spaces THEN collapse(line.text) \o " " ELSE collapse(line.text)

normalize_line(line) == collapse(line.text)

\* Mutant: the lines are numbered after the blank ones are dropped.
config_lines_Renumbered(config) ==
    LET texts == [n \in DOMAIN config |-> normalize_line(config[n])]
        kept  == Sublist(texts, {n \in DOMAIN config : texts[n] \notin {"", "!"}})
    IN  [n \in DOMAIN kept |-> [number |-> n, text |-> kept[n]]]

\* The meaningful lines, with their numbers in the original text.
config_lines(config) ==
    LET numbered == [n \in DOMAIN config |->
                        [number |-> n, text |-> normalize_line(config[n])]]
    IN  Sublist(numbered, {n \in DOMAIN config : numbered[n].text \notin {"", "!"}})

-----------------------------------------------------------------------------
(* One rule.                                                                *)

RequiredKeys  == {"required", "required_regex"}
ForbiddenKeys == {"forbidden", "forbidden_regex"}
MATCH_KEYS    == RequiredKeys \cup ForbiddenKeys

\* An entry of a rule is named by its key and its place in the list.
Entries(rule, keys) == UNION {{<<key, n>> : n \in DOMAIN rule[key]} : key \in keys}

\* The normalized lines an entry matches: its own text, or those of its pattern.
Matches(rule, entry) ==
    LET value == rule[entry[1]][entry[2]]
    IN  IF entry[1] \in {"required", "forbidden"} THEN {collapse(value)} ELSE value

Violation(kind, entry, number) == [kind |-> kind, entry |-> entry, line_number |-> number]

Violations(rule, lines) ==
    LET Hits(entry) == {n \in DOMAIN lines : lines[n].text \in Matches(rule, entry)}
    IN  {Violation("missing", entry, 0) :
            entry \in {e \in Entries(rule, RequiredKeys) : Hits(e) = {}}}
        \cup
        UNION {{Violation("forbidden", entry, lines[n].number) : n \in Hits(entry)} :
                 entry \in Entries(rule, ForbiddenKeys)}

evaluate_rule(rule, lines) ==
    LET found == Violations(rule, lines)
    IN  [rule |-> rule.name, severity |-> rule.severity, violations |-> found,
         status |-> IF found # {} THEN "fail" ELSE "pass"]

\* Untagged rules are for every device, others for those with a tag in common.
applies_to(rule, tags) ==
    \/ rule.tags = {}
    \/ {lower(t) : t \in rule.tags} \cap {lower(t) : t \in tags} # {}

\* Every rule, in the order of the golden file, on one configuration.
evaluate(tags, config, golden) ==
    [n \in DOMAIN golden |->
        IF applies_to(golden[n], tags)
        THEN evaluate_rule(golden[n], config_lines(config))
        ELSE [rule |-> golden[n].name, severity |-> golden[n].severity,
              violations |-> {}, status |-> "not_applicable"]]

Severities == {"high", "medium", "low"}

failed(result) == result.status = "fail"

\* The failed rules, most severe first, in the order of the golden file otherwise.
failures(results) ==
    LET Of(severity) == Sublist(results, {n \in DOMAIN results :
                            failed(results[n]) /\ results[n].severity = severity})
    IN  Of("high") \o Of("medium") \o Of("low")

\* Mutant: a rule without entries is accepted.
DefinesChecks_Any(rule) == TRUE

\* load_golden refuses a rule with no entry at all (golden.py:199-206).
DefinesChecks(rule) == \E key \in MATCH_KEYS : rule[key] # << >>
=============================================================================
