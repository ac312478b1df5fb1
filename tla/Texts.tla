------------------------------- MODULE Texts -------------------------------
(***************************************************************************)
(* What ConfigText and Compliance promise of every text: the change         *)
(* detection, the refusal of replies, and the evaluation of rules.  A text  *)
(* grows line by line, over any lines and any rules.                        *)
(***************************************************************************)
EXTENDS Compliance, SequencesExt

CONSTANTS MaxLines,     \* bound on the lines of a text
          Lines,        \* the lines a text is made of
          Rules         \* the rules of the golden file, before they are checked

ASSUME TextsAssumption ==
    /\ MaxLines \in Nat
    /\ \A line \in Lines : line = Line(line.text, line.spaces) /\ line.spaces \in BOOLEAN
    /\ \A rule \in Rules, key \in MATCH_KEYS : IsList(rule[key])

VARIABLE config

Init == config = << >>
Grow == /\ Len(config) < MaxLines
        /\ \E line \in Lines : config' = Append(config, line)
Done == Len(config) = MaxLines /\ UNCHANGED config
Next == Grow \/ Done
Spec == Init /\ [][Next]_config

-----------------------------------------------------------------------------
(* Texts.                                                                   *)

\* A line with no white space at its end.
Plain(text) == Line(text, FALSE)

\* A line that is neither one of the headers that change nor empty.
Matters(line) == line.text \notin VolatileTexts \cup {""}

\* The texts of lines, and as many empty ones as there are to be.
TextsOf(lines) == [n \in DOMAIN lines |-> lines[n].text]
Empty(many)    == [n \in 1..many |-> ""]

\* normalize by its description, "drops volatile header lines, trailing
\* whitespace, and leading/trailing blank lines" (backup.py:60-65): the texts of
\* the lines kept are those of the result between two runs of empty ones; the
\* result neither begins nor ends with an empty line, and no line ends in spaces.
NormalizedAsDescribed ==
    LET kept == Sublist(TextsOf(config),
                        {n \in DOMAIN config : config[n].text \notin VolatileTexts})
        r    == normalize(config)
    IN  /\ \E before, after \in 0..Len(kept) :
              kept = Empty(before) \o TextsOf(r) \o Empty(after)
        /\ r # << >> => r[1].text # "" /\ r[Len(r)].text # ""
        /\ \A i \in DOMAIN r : ~r[i].spaces

\* A test of every other capture of the same configuration: a header anywhere, other
\* spaces at the end of a line, blank lines at the end.
EveryRecapture(Test(_)) ==
    /\ \A i \in 1..(Len(config) + 1), text \in VolatileTexts :
          Test(InsertAt(config, i, Plain(text)))
    /\ \A i \in DOMAIN config : Test([config EXCEPT ![i].spaces = ~@])
    /\ Test(config \o <<Line("", TRUE), Plain("")>>)

\* What differs in every capture of the same configuration is not a change
\* (backup.py:39-41), and does not decide whether a capture is long enough to be
\* kept.
CosmeticsAreNoChange ==
    LET Same(variant) == /\ normalize(variant) = normalize(config)
                         /\ config_problem(variant) <=> config_problem(config)
    IN  EveryRecapture(Same)

\* A configuration that differs in a line that matters, has one less or one more, is
\* seen as changed: it has another normal form, so the new capture gets a file of its
\* own (backup.py:154-167).
ChangesAreSeen ==
    LET Other(variant) == normalize(variant) # normalize(config)
    IN  /\ \A i \in DOMAIN config, line \in Lines :
              (Matters(config[i]) \/ Matters(line)) /\ config[i].text # line.text
                 => Other([config EXCEPT ![i] = line])
        /\ \A i \in DOMAIN config : Matters(config[i]) => Other(RemoveAt(config, i))
        /\ \A i \in 1..(Len(config) + 1), line \in Lines :
              Matters(line) => Other(InsertAt(config, i, line))

\* "An unchanged config isn't rewritten" (README.md:58) and a changed one is: the
\* comparison takes a capture for a new configuration when it is one, and only then.
ChangesAreTold == CosmeticsAreNoChange /\ ChangesAreSeen

\* collect() refuses a reply first (connect.py:218-222), write_backup a configuration
\* (backup.py:140-145), which "catches truncated reads and error replies that
\* slipped past output_problem()" (backup.py:35-37): between them, a rejection is not
\* stored wherever it is in a reply with no more than four lines to keep, after
\* whatever banner, header or blank lines; one that comes first in at most five is
\* not even audited; and "a config with 'syntax error' in a banner is not misread"
\* (connect.py:94-97) when it has more lines than that.
RejectionsAreRefused ==
    \A i \in 1..(Len(config) + 1), text \in Rejections :
        LET reply  == InsertAt(config, i, Plain(text))
            kept   == Cardinality({n \in DOMAIN reply : Matters(reply[n])})
            stored == ~output_problem(reply) /\ ~config_problem(reply)
        IN  /\ kept < MIN_CONFIG_LINES => ~stored
            /\ (\A n \in 1..(i - 1) : config[n].text = "")
               /\ Len(config) < MAX_ERROR_REPLY_LINES => output_problem(reply)
            /\ kept > MAX_ERROR_REPLY_LINES => stored

-----------------------------------------------------------------------------
(* Rules.                                                                   *)

Verdict(rule, text) == evaluate_rule(rule, config_lines(text)).status

\* The rules about no line that changes every time, and what they say of a text.
SteadyRules == {rule \in Rules : \A entry \in Entries(rule, MATCH_KEYS) :
                                    Matches(rule, entry) \cap VolatileTexts = {}}
Verdicts(text) == LET lines == config_lines(text)
                  IN  [rule \in SteadyRules |-> evaluate_rule(rule, lines).status]

\* The semantics of compliance.py:3-13, told of the original text: a rule passes
\* exactly when a line of the text, in whatever spacing, is each of its required
\* ones, and none is a forbidden one; a violation points "at something a human
\* can find", the very line of the file, and every such line is pointed at.  A blank
\* line or a bare "!" is no line of a configuration (compliance.py:51-52).
MatchesAsDescribed ==
    \A rule \in Rules :
        LET Compact(t) == IF t \in {"   ip http server", "ip  http server"}
                          THEN "ip http server" ELSE t
            Is(n, key, e) == /\ config[n].text \notin {"", "!"}
                             /\ IF key \in {"required", "forbidden"}
                                THEN Compact(config[n].text) = Compact(rule[key][e])
                                ELSE Compact(config[n].text) \in rule[key][e]
            r == evaluate_rule(rule, config_lines(config))
        IN  /\ r.status = "pass" <=>
                 /\ \A key \in RequiredKeys : \A e \in DOMAIN rule[key] :
                       \E n \in DOMAIN config : Is(n, key, e)
                 /\ \A key \in ForbiddenKeys : \A e \in DOMAIN rule[key] :
                       \A n \in DOMAIN config : ~Is(n, key, e)
            /\ \A key \in ForbiddenKeys : \A e \in DOMAIN rule[key] :
                 {v.line_number : v \in {w \in r.violations : w.entry = <<key, e>>}}
                    = {n \in DOMAIN config : Is(n, key, e)}

\* An unchanged capture is not stored again (backup.py:154-167), so the file that
\* is audited may be an older one: what a rule says of it is what it would say
\* of the capture, unless the rule is about a line that changes every time.
StoredAuditIsCurrent ==
    LET Current(capture) == normalize(capture) = normalize(config)
                               => Verdicts(capture) = Verdicts(config)
    IN  EveryRecapture(Current)

\* The texts of lines an entry finds, blank lines and "!" apart.
Findable(rule, entry) == {t \in Matches(rule, entry) \ {"", "!"} : collapse(t) = t}

\* "A rule that checks nothing always passes, which is the most dangerous possible
\* bug in a compliance tool" (golden.py:201-202): a rule that is accepted fails on no
\* text at all, or it forbids something, and fails on every text with one more line that
\* is forbidden.
RulesCanFail ==
    \A rule \in Rules :
        DefinesChecks(rule) =>
            \/ Verdict(rule, << >>) = "fail"
            \/ /\ Entries(rule, ForbiddenKeys) # {}
               /\ \A entry \in Entries(rule, ForbiddenKeys) :
                     \A t \in Findable(rule, entry) :
                         Verdict(rule, Append(config, Plain(t))) = "fail"
=============================================================================
