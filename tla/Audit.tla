-------------------------------- MODULE Audit --------------------------------
(***************************************************************************)
(* `netaudit --check`: auditing the most recent backup of every device, or, *)
(* with --live, the configurations just collected; then the report file,    *)
(* the output and the exit code.  The backups are shared with backup runs   *)
(* and with the user, who may publish, remove or spoil one meanwhile.       *)
(* netauditor/compliance.py:141-212, netauditor/cli.py:336-347,364-372,     *)
(* 396-440.                                                                 *)
(***************************************************************************)
EXTENDS Reports

CONSTANTS Inventory,    \* sequence of the devices to audit
          Tags,         \* [device -> its tags]
          Golden,       \* the rules of the golden file
          Captures,     \* the configurations devices have
          Stamps,       \* the names a backup may have, in chronological order
          Options,      \* the options the run may have
          Faults        \* what may go wrong, see below

Devices == {Inventory[i] : i \in DOMAIN Inventory}

ASSUME InventoryAssumption ==
    /\ Inventory \in Seq(Devices) /\ Inventory # << >>
    /\ \A i, j \in DOMAIN Inventory : Inventory[i] = Inventory[j] => i = j
    /\ Stamps \subseteq Nat \ {0} /\ IsFiniteSet(Stamps)
    /\ Options \subseteq [live : BOOLEAN, json : BOOLEAN,
                          report : {"", "txt"} \cup DOMAIN REPORT_RENDERERS]
    /\ Faults \subseteq {"bad_golden", "unreadable", "undecodable", "bad_report"}

\* The rules as load_golden builds them; a configuration is a list of lines.
ASSUME GoldenAssumption ==
    /\ IsList(Golden)
    /\ \A n \in DOMAIN Golden : /\ Golden[n].severity \in Severities
                                /\ \A key \in MATCH_KEYS : IsList(Golden[n][key])
    /\ \A config \in Captures : IsList(config)

NoConfig == << >>       \* what is collected from a device that failed

\* The report file before it is written, and one of which the writing was broken off.
NoFile   == [written |-> "no"]
PartFile == [written |-> "in part"]

VARIABLES
    options,    \* --live, --json, the suffix of --report or ""
    pc,         \* where the run is
    collected,  \* [device -> the configuration run() returned, NoConfig if it failed]
    store,      \* [device -> [stamp -> configuration]], the backup directories
    spoiled,    \* [device -> [stamp of a spoiled backup -> how]]
    path,       \* the stamp of the backup about to be read, 0 if there is none
    audited,    \* the ComplianceResults, in the order they are made
    file,       \* the content of the report file
    stdout,     \* what was written to the terminal, in order
    exit,       \* the exit code; 3 stands for the traceback of an exception
    latest      \* history: [device -> what was its latest stamp since the start]

files  == <<store, spoiled>>
output == <<file, stdout>>
vars   == <<options, pc, collected, files, path, audited, output, exit, latest>>

live == options.live

\* Mutant: the backup that sorts first.
Latest_First(backups) ==
    IF DOMAIN backups = {} THEN 0
    ELSE CHOOSE s \in DOMAIN backups : \A t \in DOMAIN backups : s <= t

\* The backup that sorts last, 0 when there is none.
Latest(backups) == IF DOMAIN backups = {} THEN 0
                   ELSE CHOOSE s \in DOMAIN backups : \A t \in DOMAIN backups : t <= s

\* For the history: the same, whatever the code takes.
Newest(backups) == CHOOSE s \in DOMAIN backups \cup {0} :
                       \A t \in DOMAIN backups \cup {0} : t <= s

\* The two sorts of ComplianceResult, and all there may be.
ErrorRow(d) == [device |-> d, error |-> TRUE, source |-> 0, results |-> << >>]

Row(d, source, config) ==
    [device |-> d, error |-> FALSE, source |-> source,
     results |-> evaluate(Tags[d], config, Golden)]

Rows == {ErrorRow(d) : d \in Devices}
        \cup {Row(d, source, config) :
                 d \in Devices, source \in Stamps \cup {0}, config \in Captures}

TypeOK ==
    /\ options \in Options
    /\ pc \in {"collect", "golden", "locate", "read", "evaluate", "report", "show", "exited"}
    /\ collected \in [Devices -> Captures \cup {NoConfig}]
    /\ DOMAIN store = Devices /\ DOMAIN spoiled = Devices
    /\ \A d \in Devices : /\ DOMAIN store[d] \subseteq Stamps
                          /\ \A s \in DOMAIN store[d] : store[d][s] \in Captures
                          /\ DOMAIN spoiled[d] \subseteq DOMAIN store[d]
    /\ path \in Stamps \cup {0}
    /\ audited \in Seq(Rows) /\ Len(audited) <= Len(Inventory)
    /\ Len(stdout) <= 2
    /\ exit \in {-1, 0, 1, 2, 3, 130}
    /\ latest \in [Devices -> SUBSET (Stamps \cup {0})]

Init ==
    /\ options \in Options
    /\ pc = IF live THEN "collect" ELSE "golden"
    /\ collected = [d \in Devices |-> NoConfig]
    /\ store \in [Devices -> UNION {[S -> Captures] : S \in SUBSET Stamps}]
    /\ spoiled = [d \in Devices |-> << >>]
    /\ path = 0
    /\ audited = << >>
    /\ file = NoFile /\ stdout = << >>
    /\ exit = -1
    /\ latest = [d \in Devices |-> {Newest(store[d])}]

-----------------------------------------------------------------------------
(* The run.                                                                 *)

Exit(code) == pc' = "exited" /\ exit' = code

\* --live: runner.run returns one result per device.
Collect ==
    /\ pc = "collect"
    /\ collected' \in [Devices -> Captures \cup {NoConfig}]
    /\ pc' = "golden"
    /\ UNCHANGED <<options, files, path, audited, output, exit, latest>>

LoadGolden ==
    /\ pc = "golden"
    /\ \/ pc' = (IF live THEN "evaluate" ELSE "locate") /\ UNCHANGED exit
       \/ "bad_golden" \in Faults /\ Exit(2)
    /\ UNCHANGED <<options, collected, files, path, audited, output, latest>>

\* The device whose turn it is.
Device == Inventory[Len(audited) + 1]

\* Adds a row, and goes on with the next device or, after the last, the report.
Add(row, loop) ==
    /\ audited' = Append(audited, row)
    /\ pc' = IF Len(audited') = Len(Inventory) THEN "report" ELSE loop

\* latest_backup: a device without one is an error, not a pass.
Locate ==
    /\ pc = "locate"
    /\ path' = Latest(store[Device])
    /\ IF path' = 0 THEN Add(ErrorRow(Device), "locate")
                    ELSE pc' = "read" /\ UNCHANGED audited
    /\ UNCHANGED <<options, collected, files, output, exit, latest>>

\* Mutant: no `continue` after the row of an unreadable file.
Read_NoContinue ==
    LET d == Device IN
    /\ pc = "read"
    /\ \/ /\ path \in DOMAIN store[d] \ DOMAIN spoiled[d]
          /\ Add(Row(d, path, store[d][path]), "locate")
       \/ /\ path \in DOMAIN spoiled[d]
          /\ audited' = audited \o <<ErrorRow(d), Row(d, path, store[d][path])>>
          /\ pc' = IF Len(audited') = Len(Inventory) THEN "report" ELSE "locate"
    /\ path' = 0
    /\ UNCHANGED <<options, collected, files, output, exit, latest>>

\* The file may have gone or be unreadable (OSError); if it is not UTF-8, an
\* exception that nothing catches ends the run.
Read ==
    LET d == Device IN
    /\ pc = "read"
    /\ \/ /\ path \in DOMAIN store[d] \ DOMAIN spoiled[d]
          /\ Add(Row(d, path, store[d][path]), "locate")
          /\ UNCHANGED exit
       \/ /\ path \in DOMAIN store[d] => path \in DOMAIN spoiled[d]
                                         /\ spoiled[d][path] = "unreadable"
          /\ Add(ErrorRow(d), "locate")
          /\ UNCHANGED exit
       \/ /\ path \in DOMAIN spoiled[d] /\ spoiled[d][path] = "undecodable"
          /\ Exit(3)
          /\ UNCHANGED audited
    /\ path' = 0
    /\ UNCHANGED <<options, collected, files, output, latest>>

\* A successful result holds the output of the device's own backup_command: the
\* CLI gives run() no other commands here.
EvaluateLive ==
    LET d == Device IN
    /\ pc = "evaluate"
    /\ Add(IF collected[d] = NoConfig THEN ErrorRow(d) ELSE Row(d, 0, collected[d]),
           "evaluate")
    /\ UNCHANGED <<options, collected, files, path, output, exit, latest>>

ExitCode == IF \A i \in DOMAIN audited : compliant(audited[i]) THEN 0 ELSE 1

Write(line) == stdout' = Append(stdout, line)

\* The report file comes first.  A suffix that is not known, or a directory or file
\* that cannot be written, ends the run before anything is shown.
WriteReport ==
    /\ pc = "report" /\ options.report # ""
    /\ \/ /\ options.report \in DOMAIN REPORT_RENDERERS
          /\ file' = Render(options.report, audited)
          /\ Write([kind |-> "report"])
          /\ pc' = "show" /\ UNCHANGED exit
       \/ /\ \/ options.report \notin DOMAIN REPORT_RENDERERS /\ UNCHANGED file
             \/ "bad_report" \in Faults /\ file' \in {file, PartFile}
          /\ Write([kind |-> "could not write"])
          /\ Exit(2)
    /\ UNCHANGED <<options, collected, files, path, audited, latest>>

Shows == pc = "show" \/ (pc = "report" /\ options.report = "")

\* Mutant: only a clean result is shown.
ShowResult_Quiet ==
    /\ Shows
    /\ Exit(ExitCode)
    /\ IF ExitCode = 0 THEN Write([kind |-> "json", json |-> compliance_to_json(audited)])
       ELSE UNCHANGED stdout
    /\ UNCHANGED <<options, collected, files, path, audited, file, latest>>

ShowResult ==
    /\ Shows
    /\ Write(IF options.json
             THEN [kind |-> "json", json |-> compliance_to_json(audited)]
             ELSE [kind |-> "tables", table |-> render_compliance_table(audited),
                   violations |-> render_violations(audited),
                   summary |-> render_compliance_summary(audited)])
    /\ Exit(ExitCode)
    /\ UNCHANGED <<options, collected, files, path, audited, file, latest>>

\* Ctrl-C, in run() or later; it may break off the writing of the report file.
Interrupt ==
    /\ pc # "exited"
    /\ Exit(130)
    /\ \/ UNCHANGED file
       \/ pc = "report" /\ options.report \in DOMAIN REPORT_RENDERERS /\ file' = PartFile
    /\ UNCHANGED <<options, collected, files, path, audited, stdout, latest>>

Run == \/ Collect \/ LoadGolden \/ Locate \/ Read \/ EvaluateLive
       \/ WriteReport \/ ShowResult \/ Interrupt

-----------------------------------------------------------------------------
(* Meanwhile.                                                               *)

\* Nothing reads the backups of a run with --live, nor those of another after its
\* last row.
Meanwhile == ~live /\ pc \in {"golden", "locate", "read"}

Note(d) == latest' = [latest EXCEPT ![d] = @ \cup {Newest(store'[d])}]

\* A backup run publishes a configuration under a name later than the others.
Publish(d) ==
    /\ Meanwhile
    /\ \E s \in Stamps, c \in Captures :
          /\ \A t \in latest[d] : t < s
          /\ store' = [store EXCEPT ![d] =
                          [t \in DOMAIN @ \cup {s} |-> IF t = s THEN c ELSE @[t]]]
    /\ Note(d)
    /\ UNCHANGED <<options, pc, collected, spoiled, path, audited, output, exit>>

\* The user removes a backup.
Remove(d) ==
    /\ Meanwhile
    /\ \E s \in DOMAIN store[d] :
          LET Without(f) == [t \in DOMAIN f \ {s} |-> f[t]]
          IN  /\ store' = [store EXCEPT ![d] = Without(@)]
              /\ spoiled' = [spoiled EXCEPT ![d] = Without(@)]
    /\ Note(d)
    /\ UNCHANGED <<options, pc, collected, path, audited, output, exit>>

\* A backup becomes impossible to read or to decode.
Spoil(d) ==
    /\ Meanwhile
    /\ \E s \in DOMAIN store[d], how \in Faults \cap {"unreadable", "undecodable"} :
          spoiled' = [spoiled EXCEPT ![d] =
                         [t \in DOMAIN @ \cup {s} |-> IF t = s THEN how ELSE @[t]]]
    /\ UNCHANGED <<options, pc, collected, store, path, audited, output, exit, latest>>

Next == Run \/ \E d \in Devices : Publish(d) \/ Remove(d) \/ Spoil(d)

Spec == Init /\ [][Next]_vars

-----------------------------------------------------------------------------
(* Properties.                                                              *)

\* "Unreachable is not compliant" (README.md:296-299): the run says 0 only if it
\* audited every device of the inventory and every rule that is for a device
\* passed on a configuration the device has, or had as its latest backup; a
\* device that could not be audited is never left out, whatever is published,
\* removed or spoiled in the meantime.
NoFalsePass ==
    exit = 0 =>
        \A i \in DOMAIN Inventory :
            LET row == audited[i] IN
            /\ i \in DOMAIN audited /\ row.device = Inventory[i] /\ ~row.error
            /\ live => collected[row.device] # NoConfig
            /\ \A n \in DOMAIN Golden :
                  applies_to(Golden[n], Tags[row.device]) =>
                      row.results[n].status = "pass"

\* The result has been written to the terminal.
shown == \E i \in DOMAIN stdout : stdout[i].kind \in {"json", "tables"}

\* "The run finished, but a device failed or is non-compliant" (README.md:202):
\* with 1 as with 0, every device has been accounted for, in the order of the
\* inventory, and the result has been shown.
FinishedIsComplete ==
    exit \in {0, 1} =>
        /\ shown
        /\ Len(audited) = Len(Inventory)
        /\ \A i \in DOMAIN Inventory : audited[i].device = Inventory[i]

\* "Audit each device's most recent backup" (compliance.py:146): what is audited
\* was the most recent backup at some time since the run began, and a device said
\* to have no backup had none, had it removed, or has one that cannot be read.
AuditedWasLatest ==
    \A i \in DOMAIN audited :
        LET row == audited[i] IN
        ~live => IF row.error
                 THEN \/ latest[row.device] \ {Newest(store[row.device])} # {}
                      \/ 0 \in latest[row.device]
                      \/ DOMAIN spoiled[row.device] # {}
                 ELSE row.source \in latest[row.device] \ {0}

\* What has been told of the audit, wherever; a file that was broken off is not it.
Told == ({file} \ {NoFile, PartFile})
        \cup {stdout[i] : i \in {j \in DOMAIN stdout : stdout[j].kind = "tables"}}
        \cup {stdout[i].json : i \in {j \in DOMAIN stdout : stdout[j].kind = "json"}}

IsTables(out) == "table" \in DOMAIN out
IsJson(out)   == "non_compliant" \in DOMAIN out
IsFile(out)   == "findings" \in DOMAIN out

In(lines, Test(_)) == {lines[n].device : n \in Places(lines, Test)}

\* The devices an output has as other than compliant, and how many as compliant.
Named(out) == CASE IsTables(out) -> In(out.table, LAMBDA line : line.label # "COMPLIANT")
                [] IsJson(out)   -> In(out.devices, LAMBDA device : ~device.compliant)
                [] IsFile(out)   -> In(out.findings, LAMBDA finding : TRUE)
Passed(out) == CASE IsTables(out) -> out.summary.compliant
                 [] IsJson(out)   -> out.compliant
                 [] IsFile(out)   -> out.numbers.Compliant

\* The failed rules an output gives of each device.
Faulted(out) == CASE IsTables(out) -> out.violations
                  [] IsFile(out)   -> Pick(out.findings, LAMBDA finding : ~finding.error,
                                           LAMBDA finding : finding)
                  [] IsJson(out)   -> << >>

\* What the tables (report.py:194-213), the JSON (report.py:216-228), a report
\* file (render.py:104-107) and the exit code say is worked out four times from the
\* rows: they agree on which devices are compliant, and a device that was not audited
\* or failed a rule is compliant for none of them.
VerdictsAgree ==
    LET wanting == In(audited, LAMBDA row : \/ row.error
                                           \/ \E n \in DOMAIN row.results :
                                                 row.results[n].status = "fail")
    IN  /\ exit \in {0, 1} => (exit = 0 <=> wanting = {})
        /\ \A out \in Told : /\ Named(out) = wanting
                             /\ Passed(out) = Len(Inventory) - Cardinality(wanting)

Rank(severity) == CASE severity = "high" -> 0 [] severity = "medium" -> 1
                    [] severity = "low" -> 2

\* The failed rules of a device are all given, "most severe first" (models.py:215).
FaultsAreGiven ==
    \A out \in Told : \A n \in DOMAIN Faulted(out) :
        LET fault == Faulted(out)[n]
            row   == CHOOSE r \in {audited[i] : i \in DOMAIN audited} :
                        r.device = fault.device
        IN  /\ {fault.rules[i] : i \in DOMAIN fault.rules}
                  = {row.results[i] : i \in
                        {j \in DOMAIN row.results : row.results[j].status = "fail"}}
            /\ \A i, j \in DOMAIN fault.rules :
                  i < j => Rank(fault.rules[i].severity) <= Rank(fault.rules[j].severity)

\* The violations listed under a device, under all of them, and the sum of the numbers
\* on the lines of the devices.
FoundIn(fault) == Total(Map(fault.rules, LAMBDA rule : Cardinality(rule.violations)))
Listed(out)    == Total(Map(Faulted(out), FoundIn))
SumOf(lines)   == Total(Map(lines, LAMBDA line : line.violations))

\* The number of violations is counted per device, per severity and in all, and
\* "with violations" is what is left of the devices (report.py:200): each sum is
\* that of its parts, in every output.
NumbersAddUp ==
    \A out \in Told :
        CASE IsTables(out) ->
               /\ SumOf(out.table) = Listed(out)
               /\ out.summary.failed
                     = Cardinality(In(out.table, LAMBDA l : l.label = "NON-COMPLIANT"))
               /\ out.summary.errors
                     = Cardinality(In(out.table, LAMBDA l : l.label = "ERROR"))
          [] IsJson(out) ->
               /\ SumOf(out.devices) = out.violations
               /\ out.non_compliant - out.errors
                     = Cardinality(In(out.devices, LAMBDA d : d.rules_failed > 0))
          [] IsFile(out) ->
               /\ SumOf(out.devices) = Listed(out)
               /\ out.numbers.Violations = Listed(out)
               /\ Total(out.severities) = Listed(out)

\* One audit has one result (cli.py:410-440): whatever is told of it, on the
\* terminal, as JSON, in a file and by the exit code, is of the same devices, rules
\* and numbers.
OutputsAgree == VerdictsAgree /\ FaultsAreGiven /\ NumbersAddUp

\* "Report the write failure without discarding the result" (cli.py:428-429).
ResultNotDiscarded ==
    exit \in {0, 1, 2} /\ Len(audited) = Len(Inventory) => shown

-----------------------------------------------------------------------------
(* The inductive invariant: what every step preserves.                       *)

\* The rows are made in the order of the inventory, and the run reports, and says 0 or
\* 1, with all of them; a device that run() failed has none but an error.
RowsInv ==
    /\ pc = "collect" => live
    /\ pc \in {"locate", "read"} => ~live
    /\ pc = "evaluate" => live
    /\ pc \in {"collect", "golden"} => audited = << >>
    /\ pc \in {"locate", "read", "evaluate"} => Len(audited) < Len(Inventory)
    /\ pc \in {"report", "show"} \/ exit \in {0, 1} => Len(audited) = Len(Inventory)
    /\ pc # "exited" => exit = -1
    /\ exit \in {0, 1} => exit = ExitCode
    /\ \A i \in DOMAIN audited :
          /\ audited[i].device = Inventory[i]
          /\ live /\ ~audited[i].error => collected[Inventory[i]] # NoConfig

\* There is no report file before the last row; what is there is of all the rows, or
\* was broken off, and a run that goes on to show its result has written it.
FileInv ==
    /\ pc \notin {"show", "exited"} => file = NoFile
    /\ (pc = "show" \/ exit \in {0, 1}) /\ options.report # "" =>
          file = Render(options.report, audited)
    /\ \/ file \in {NoFile, PartFile}
       \/ /\ options.report \in DOMAIN REPORT_RENDERERS
          /\ Len(audited) = Len(Inventory)
          /\ file = Render(options.report, audited)

\* Nor is there a line on the terminal, and a result shown is of all the rows.
LinesInv ==
    /\ pc \notin {"show", "exited"} => stdout = << >>
    /\ pc = "show" => stdout = <<[kind |-> "report"]>>
    /\ exit \in {0, 1} => shown
    /\ \A i \in DOMAIN stdout :
          \/ stdout[i].kind \notin {"json", "tables"}
          \/ /\ Len(audited) = Len(Inventory)
             /\ stdout[i] \in
                   {[kind |-> "json", json |-> compliance_to_json(audited)],
                    [kind |-> "tables", table |-> render_compliance_table(audited),
                     violations |-> render_violations(audited),
                     summary |-> render_compliance_summary(audited)]}

ToldInv == FileInv /\ LinesInv

\* Of an audit of backups: the source of a row was the latest backup.  A device in
\* error had none, has another by now, or has one that cannot be read: the removal of
\* that one makes another the latest.
Explained(row) ==
    IF row.error
    THEN \/ latest[row.device] \ {Newest(store[row.device])} # {}
         \/ 0 \in latest[row.device]
         \/ Newest(store[row.device]) \in DOMAIN spoiled[row.device]
    ELSE row.source \in latest[row.device] \ {0}

\* What is now the latest backup is among those that have been, and so is the one
\* about to be read.
LatestInv ==
    /\ \A d \in Devices : Newest(store[d]) \in latest[d]
    /\ pc = "read" => path \in latest[Device] \ {0}
    /\ ~live => \A i \in DOMAIN audited : Explained(audited[i])

IInv == TypeOK /\ RowsInv /\ ToldInv /\ LatestInv
=============================================================================
