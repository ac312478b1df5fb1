------------------------------ MODULE BackupRun ------------------------------
(***************************************************************************)
(* Successive runs of `netaudit --backup`, with or without --git-commit, in *)
(* one repository: backup.backup_all device by device, then                 *)
(* gitstore.commit_paths git command by git command, then the exit code.    *)
(* The user may stage files of their own and commit meanwhile.              *)
(* netauditor/backup.py:187-239, netauditor/gitstore.py,                    *)
(* netauditor/cli.py:346-362,443-479.  The writing of one file is           *)
(* BackupStore's; here it is one step.                                      *)
(*                                                                          *)
(* External: git.  The index and HEAD are the sets of the paths they hold;  *)
(* a command that exceeds GIT_TIMEOUT is killed, its work done or not.      *)
(***************************************************************************)
EXTENDS Naturals, Sequences, FiniteSets
LOCAL INSTANCE FiniteSetsExt

CONSTANTS Inventory,    \* sequence of the devices, each once
          Configs,      \* the configurations devices have
          UserFiles,    \* files of the user, in the same repository
          MaxRuns,      \* bound on the runs
          Faults        \* what may go wrong, see below

Devices == {Inventory[i] : i \in DOMAIN Inventory}

ASSUME OptionsAssumption ==
    /\ Inventory \in Seq(Devices) /\ Inventory # << >>
    /\ \A i, j \in DOMAIN Inventory : Inventory[i] = Inventory[j] => i = j
    /\ MaxRuns \in Nat \ {0}
    /\ Faults \subseteq {"git_refuses", "git_hangs", "not_a_repo", "os_error",
                         "undecodable", "ctrl_c"}

\* What run() may return for a device besides a configuration: a failure, or the
\* output of a command that is too short to be a configuration.
Failed  == "failed"
TooShort == "too_short"

ASSUME ConfigsAssumption == Configs \cap {Failed, TooShort} = {}

VARIABLES
    runs,       \* the number of runs started
    options,    \* those of the run: --force, --git-commit
    pc,         \* where the run is
    collected,  \* [device -> what run() returned for it]
    rows,       \* the BackupResults, in the order they are made
    store,      \* [device -> the configurations of its files, oldest first]
    index,      \* git: the paths staged or tracked
    head,       \* git: the paths of the last commit
    commit,     \* what the run says of its commit: "none", "sha" or "error"
    exit,       \* the exit code; 3 stands for the traceback of an exception
    staged,     \* history: the paths this or an earlier run has staged
    before      \* history: [device -> its number of files when the run began]

git  == <<index, head, staged>>
vars == <<runs, options, pc, collected, rows, store, git, commit, exit, before>>

\* A backup is named by its device and its place in the device's directory.
Paths == Devices \X Nat

Options == [force : BOOLEAN, git_commit : BOOLEAN]

Statuses == {"written", "unchanged", "skipped", "rejected", "failed"}

TypeOK ==
    /\ runs \in 0..MaxRuns
    /\ options \in Options
    /\ pc \in {"idle", "collect", "write", "is_repo", "add", "diff", "commit",
               "rev_parse", "report"}
    /\ collected \in [Devices -> Configs \cup {Failed, TooShort}]
    /\ rows \in Seq([device : Devices, status : Statuses])
    /\ Len(rows) <= Len(Inventory)
    /\ store \in [Devices -> Seq(Configs)]
    /\ \A p \in index \ UserFiles : p \in Paths /\ p[2] \in DOMAIN store[p[1]]
    /\ staged \subseteq index /\ head \subseteq index
    /\ commit \in {"none", "sha", "error"}
    /\ exit \in {0, 1, 3, 130}

Init ==
    /\ options = [force |-> FALSE, git_commit |-> FALSE]
    /\ runs = 0 /\ pc = "idle" /\ exit = 0
    /\ collected = [d \in Devices |-> Failed]
    /\ rows = << >>
    /\ store = [d \in Devices |-> << >>]
    /\ index = {} /\ head = {} /\ staged = {}
    /\ commit = "none"
    /\ before = [d \in Devices |-> 0]

-----------------------------------------------------------------------------
(* The backups.                                                             *)

Exit(code) == pc' = "idle" /\ exit' = code

Begin ==
    /\ pc = "idle" /\ runs < MaxRuns
    /\ runs' = runs + 1
    /\ pc' = "collect"
    /\ options' \in Options
    /\ rows' = << >> /\ commit' = "none"
    /\ before' = [d \in Devices |-> Len(store[d])]
    /\ UNCHANGED <<collected, store, git, exit>>

\* runner.run: one result per device.
Collect ==
    /\ pc = "collect"
    /\ collected' \in [Devices -> Configs \cup {Failed, TooShort}]
    /\ pc' = "write"
    /\ UNCHANGED <<runs, options, rows, store, git, commit, exit, before>>

\* The device whose turn it is.
Device == Inventory[Len(rows) + 1]

\* Mutant: the rows that name a file, a FAILED one included.
Written_WithFailed(results) ==
    {results[i].device : i \in {j \in DOMAIN results :
                                   results[j].status \in {"written", "failed"}}}

Written(results) == {results[i].device : i \in {j \in DOMAIN results :
                                                   results[j].status = "written"}}

\* written_paths: the files this run has added.
written_paths == {<<d, Len(store[d])>> : d \in Written(rows)}

AddRow(status) ==
    /\ rows' = Append(rows, [device |-> Device, status |-> status])
    /\ pc' = IF Len(rows') < Len(Inventory) THEN "write"
             ELSE IF options.git_commit /\ Written(rows') # {} THEN "is_repo" ELSE "report"
    /\ store' = [store EXCEPT ![Device] =
                    IF status = "written" THEN Append(@, collected[Device]) ELSE @]

Unchanged(d) == store[d] # << >> /\ store[d][Len(store[d])] = collected[d]

\* A device that failed is reported, not dropped; a capture that is no
\* configuration is refused; an unchanged one is not stored again.
WriteBackup ==
    LET config == collected[Device] IN
    /\ pc = "write"
    /\ \/ config = Failed /\ AddRow("skipped")
       \/ config = TooShort /\ AddRow("rejected")
       \/ /\ config \in Configs
          /\ ~options.force /\ Unchanged(Device)
          /\ AddRow("unchanged")
       \/ /\ config \in Configs
          /\ options.force \/ ~Unchanged(Device)
          /\ AddRow("written")
       \/ /\ config \in Configs /\ "os_error" \in Faults
          /\ options.force \/ ~Unchanged(Device)
          /\ AddRow("failed")
    /\ UNCHANGED <<runs, options, collected, git, commit, exit, before>>

\* The previous backup of a device is not UTF-8: write_backup raises.
WriteRaises ==
    /\ pc = "write" /\ "undecodable" \in Faults
    /\ collected[Device] \in Configs /\ store[Device] # << >> /\ ~options.force
    /\ Exit(3)
    /\ UNCHANGED <<runs, options, collected, rows, store, git, commit, before>>

-----------------------------------------------------------------------------
(* gitstore.commit_paths, and the handling of what it raises.                *)

\* GitError, or OSError when git is not there: the run goes on to its report.
GitFails ==
    /\ pc' = "report" /\ commit' = "error"
    /\ UNCHANGED exit

\* TimeoutExpired is neither: nothing catches it.
GitHangs ==
    /\ "git_hangs" \in Faults
    /\ Exit(3)
    /\ UNCHANGED commit

\* is_repo makes every failure of git, a timeout included, a "no".
IsRepo ==
    /\ pc = "is_repo"
    /\ \/ pc' = "add" /\ UNCHANGED <<commit, exit>>
       \/ Faults \cap {"not_a_repo", "git_hangs"} # {} /\ GitFails
    /\ UNCHANGED <<runs, options, collected, rows, store, git, before>>

Add ==
    LET Stage == /\ index' = index \cup written_paths
                 /\ staged' = staged \cup written_paths
    IN  /\ pc = "add"
        /\ \/ Stage /\ pc' = "diff" /\ UNCHANGED <<commit, exit>>
           \/ "git_refuses" \in Faults /\ GitFails /\ UNCHANGED <<index, staged>>
           \/ GitHangs /\ (Stage \/ UNCHANGED <<index, staged>>)
        /\ UNCHANGED <<runs, options, collected, rows, store, head, before>>

\* Any failure of `git diff --cached --quiet` means that there is something staged.
Diff ==
    /\ pc = "diff"
    /\ \/ /\ index # head \/ "git_refuses" \in Faults
          /\ pc' = "commit" /\ UNCHANGED <<commit, exit>>
       \/ index = head /\ pc' = "report" /\ UNCHANGED <<commit, exit>>
       \/ GitHangs
    /\ UNCHANGED <<runs, options, collected, rows, store, git, before>>

\* Mutant: `git commit -- <paths>`.
Commit_Paths ==
    /\ pc = "commit"
    /\ \/ /\ head' = head \cup written_paths
          /\ pc' = "rev_parse" /\ UNCHANGED <<commit, exit>>
       \/ "git_refuses" \in Faults /\ GitFails /\ UNCHANGED head
    /\ UNCHANGED <<runs, options, collected, rows, store, index, staged, before>>

\* The whole index is committed; git refuses an empty commit, and a hook may
\* refuse any.
Commit ==
    /\ pc = "commit"
    /\ \/ /\ index # head /\ head' = index
          /\ pc' = "rev_parse" /\ UNCHANGED <<commit, exit>>
       \/ /\ index = head \/ "git_refuses" \in Faults
          /\ GitFails /\ UNCHANGED head
       \/ GitHangs /\ head' \in {head, index}
    /\ UNCHANGED <<runs, options, collected, rows, store, index, staged, before>>

RevParse ==
    /\ pc = "rev_parse"
    /\ \/ pc' = "report" /\ commit' = "sha" /\ UNCHANGED exit
       \/ "git_refuses" \in Faults /\ GitFails
       \/ GitHangs
    /\ UNCHANGED <<runs, options, collected, rows, store, git, before>>

\* What is told of the backups, in the tables and with --json.
CountOf(results, statuses) ==
    Cardinality({i \in DOMAIN results : results[i].status \in statuses})

OkStatuses == {"written", "unchanged"}
Ok(row)    == row.status \in OkStatuses

\* Mutant: FAILED only, not SKIPPED nor REJECTED.
render_backup_summary_Failed(results) ==
    [written |-> CountOf(results, {"written"}), unchanged |-> CountOf(results, {"unchanged"}),
     failed |-> CountOf(results, {"failed"})]

render_backup_summary(results) ==
    [written |-> CountOf(results, {"written"}), unchanged |-> CountOf(results, {"unchanged"}),
     failed |-> CountOf(results, Statuses \ OkStatuses)]

backups_to_json(results) ==
    [total |-> Len(results), ok |-> CountOf(results, OkStatuses),
     failed |-> CountOf(results, Statuses \ OkStatuses),
     by_status |-> [status \in {results[i].status : i \in DOMAIN results} |->
                       CountOf(results, {status})]]

\* Mutant: a failed commit fails the run.
ExitCode_Commit ==
    IF commit # "error" /\ \A i \in DOMAIN rows : Ok(rows[i]) THEN 0 ELSE 1

ExitCode == IF \A i \in DOMAIN rows : Ok(rows[i]) THEN 0 ELSE 1

Report ==
    /\ pc = "report"
    /\ Exit(ExitCode)
    /\ UNCHANGED <<runs, options, collected, rows, store, git, commit, before>>

\* Ctrl-C: no step of the run undoes what was done.
Interrupt ==
    /\ pc # "idle" /\ "ctrl_c" \in Faults
    /\ Exit(130)
    /\ UNCHANGED <<runs, options, collected, rows, store, git, commit, before>>

Run == \/ Begin \/ Collect \/ WriteBackup \/ WriteRaises
       \/ IsRepo \/ Add \/ Diff \/ Commit \/ RevParse \/ Report \/ Interrupt

-----------------------------------------------------------------------------
(* The user, at any time.                                                   *)

UserStages == /\ \E f \in UserFiles \ index : index' = index \cup {f}
              /\ UNCHANGED <<runs, options, pc, collected, rows, store, head,
                             staged, commit, exit, before>>

UserCommits == /\ index # head
               /\ head' = index
               /\ UNCHANGED <<runs, options, pc, collected, rows, store, index,
                              staged, commit, exit, before>>

Next == Run \/ UserStages \/ UserCommits

Spec == Init /\ [][Next]_vars

-----------------------------------------------------------------------------
(* Properties.                                                              *)

\* A run that has finished (not one that was interrupted or has crashed).
Finished == runs > 0 /\ pc = "idle" /\ exit \in {0, 1}

\* "A failed commit must not turn a successful backup into a failed run"
\* (cli.py:462-463) and a device that failed is "reported as SKIPPED rather than
\* dropped" (backup.py:195-196): whatever git did, a finished run has a row per
\* device, in order; its code is 0 only if the configuration collected from each
\* device is now the last one of its directory, and 1 only if a device gave none
\* or its file could not be written.
ExitTellsBackups ==
    Finished =>
        /\ [i \in DOMAIN rows |-> rows[i].device] = Inventory
        /\ exit = 0 => \A d \in Devices : collected[d] \in Configs /\ Unchanged(d)
        /\ exit = 1 => \E i \in DOMAIN rows :
                          collected[Inventory[i]] \notin Configs \/ rows[i].status = "failed"

\* The summary line (report.py:269-289), the summary of the JSON (report.py:292-304)
\* and the exit code are counted from the rows each on its own, and the rows from
\* what was done: they agree, every device is counted once, under one status,
\* "written" is the number of the files this run has added, one to a directory, and no
\* more devices are counted as backed up than have what was collected as their last file.
SummaryTellsFiles ==
    Finished =>
        LET line == render_backup_summary(rows)
            json == backups_to_json(rows)
            Counted(s) == IF s \in DOMAIN json.by_status THEN json.by_status[s] ELSE 0
        IN  /\ line.written + line.unchanged = json.ok /\ line.failed = json.failed
            /\ json.ok + json.failed = json.total /\ json.total = Len(Inventory)
            /\ Counted("written") + Counted("unchanged") + Counted("skipped")
                 + Counted("rejected") + Counted("failed") = json.total
            /\ exit = 0 <=> line.failed = 0
            /\ line.written = Cardinality({d \in Devices : Len(store[d]) > before[d]})
            /\ \A d \in Devices : Len(store[d]) \in {before[d], before[d] + 1}
            /\ json.ok <= Cardinality({d \in Devices : collected[d] \in Configs /\ Unchanged(d)})

\* A run that reports a commit has left nothing out: all it has written is in HEAD,
\* and so is what earlier runs had staged before their commit failed.  It stays so
\* when the run ends without a commit nor an error.
CommitIsComplete ==
    /\ commit = "sha" => staged \subseteq head /\ written_paths \subseteq head
    /\ Finished /\ options.git_commit /\ commit = "none" => written_paths \subseteq head

\* "Every failure here is non-fatal - a backup that was written to disk is still
\* a successful backup even if the commit fails" (gitstore.py:5-7).
GitIsNonFatal == exit # 3

-----------------------------------------------------------------------------
(* The inductive invariant: what every step preserves.                       *)

\* Where the run must have a row for every device.
Reported == {"is_repo", "add", "diff", "commit", "rev_parse", "report"}

\* A row is for the device of its place, and says what became of its file, which no
\* later row of the run touches.
RowsInv ==
    /\ pc = "collect" => rows = << >>
    /\ pc = "write" => Len(rows) < Len(Inventory)
    /\ pc \in Reported \/ Finished => Len(rows) = Len(Inventory)
    /\ Finished => exit = ExitCode
    /\ \A i \in DOMAIN rows :
          /\ rows[i].device = Inventory[i]
          /\ Ok(rows[i]) => collected[Inventory[i]] \in Configs /\ Unchanged(Inventory[i])
          /\ rows[i].status \in {"skipped", "rejected"} =>
                collected[Inventory[i]] \notin Configs

\* A run adds one file to the directory of a device it has "written", none to the
\* others.
FilesInv ==
    /\ before \in [Devices -> Nat]
    /\ \A d \in Devices :
          Len(store[d]) = IF d \in Written(rows) THEN before[d] + 1 ELSE before[d]

\* How far git has got with what the run has written.  The user may commit between
\* two git commands, but only what is in the index.
GitInv ==
    /\ pc \notin {"idle", "report"} => commit = "none"
    /\ pc \in {"diff", "commit", "rev_parse"} => written_paths \subseteq staged
    /\ pc = "rev_parse" \/ commit = "sha" =>
          staged \subseteq head /\ written_paths \subseteq head
    /\ (pc = "report" \/ Finished) /\ options.git_commit /\ commit = "none" =>
          written_paths \subseteq head

IInv == TypeOK /\ RowsInv /\ FilesInv /\ GitInv
=============================================================================
