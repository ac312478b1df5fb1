# A formal model of netauditor

`netaudit` connects to the network devices of an inventory over SSH, keeps their
configurations as dated files, optionally commits these with git, and audits the
configurations against golden rules. This directory holds TLA+ models of what
can go wrong in it between threads, files, crashes, git and clocks, the
properties the code has to keep, the TLC configurations that check them on small
instances, and TLAPS proofs of the most important ones for every size of
instance. Paths below are relative to `src/`; a comment over each definition of
a module names the code it stands for.

## 1. The system

| Component | Code | State it keeps | Operations |
|---|---|---|---|
| error taxonomy | `connect.py:30-117`, `models.py:15-39` | none | `classify_exception`, `output_problem` |
| collection of one device | `connect.py:120-241` | the SSH session, the attempt, the outputs of the attempt | `collect`, `_run_once`, `_enter_enable_mode` |
| runner | `runner.py` | the thread pool, its queue, the futures, the result list | `run` |
| configuration text | `backup.py:32-88`, `connect.py:82-117` | none | `is_volatile`, `normalize`, `config_problem`, `output_problem` |
| backup files | `backup.py:91-184` | one directory per device, one file per change | `latest_backup`, `write_backup`, `_write_atomic` |
| backup run | `backup.py:187-239`, `cli.py:443-479` | the rows of the run, the exit code | `backup_all`, `written_paths`, `_run_backup` |
| git commit | `gitstore.py` | the index and HEAD of the user's repository | `is_repo`, `commit_paths` |
| rule evaluation | `compliance.py:42-138`, `golden.py:65-84` | none | `config_lines`, `evaluate_rule`, `evaluate`, `applies_to` |
| compliance audit | `compliance.py:141-212`, `cli.py:336-347,364-372,396-440` | the rows of the audit, the report file, the exit code | `audit_from_backups`, `audit_from_results`, `_report_compliance` |
| golden file loader | `golden.py:95-230` | none | `load_golden` |
| inventory loader | `inventory.py` | none | `load_inventory`, `filter_devices` |
| credentials | `credentials.py`, `cli.py:248-266` | the environment, once `.env` is loaded | `resolve`, `load_env_file` |
| command line | `cli.py` | options, devices, rules, results, exit code | `main`, `run_cli` |
| data model | `models.py` | none | `netmiko_params`, the derived flags and counts, `to_dict` |
| terminal and JSON output | `report.py` | none | the tables, summaries and JSON of each mode |
| report files | `render.py`, `cli.py:396-418` | the file of `--report` | `to_markdown`, `to_html`, `_write_report` |
| scheduled job | `.github/workflows/compliance.yml:26-80` | the outcome of its steps, the job summary | check, publish, upload, fail |

How they interact. `main` loads the inventory, then, but for `--list-devices`
and `--check` without `--live`, calls `runner.run`, whose pool threads each call
`collect` on one device. `collect` shares nothing with the other threads but the
futures. The result list goes to `backup_all` (which writes the directories
one device after the other, and hands the list of new files to `commit_paths`),
to `audit_from_results`, or to a table. `audit_from_backups` reads the same
directories in a run of its own, at any time, a backup run or the user being at
work on them. Nothing in the program locks a directory or the repository: the
file system and the git index are the shared state between runs and with the
user. There is no state that outlives a run but files and git.

What is hard in it:

* threads, retries and Ctrl-C in `run` and `collect`; a session that never ends;
* a crash, a full disk or a loss of power in the middle of `_write_atomic`, two
  runs at a time, captures in one second, a clock set back;
* two-phase work: files are written, then committed, and git may refuse, hang or
  be used by somebody else in between;
* reading files that another process publishes or removes; files that can be
  opened but not decoded;
* the comparison that decides whether a capture is a change, since what it
  ignores is never stored and never audited;
* the modes of the command line, each with its own needs: secrets must be there
  before the first connection, and not be asked for where none is made;
* one result told many times, in tables, in JSON, in a file and by the exit code,
  each worked out from the rows by code of its own;
* exit codes, by which CI tells a clean network from a dirty one from no answer,
  and a scheduled job that lets the check fail and fails itself later.

What makes each component correct:

* runner and collection: one result per device, in inventory order, each decided
  once and only after its session is closed; no more sessions than threads; only
  transient failures retried, never more than `--retries` attempts; the outputs
  of one session only; Ctrl-C leaves nothing running; a hung device does not
  hold up the others;
* backup files: a file under a backup's name is always a whole configuration, is
  never changed afterwards, differs from the one before, and the name that sorts
  last is the configuration last stored; what is reported is so;
* backup run: the exit code tells whether every device is backed up, whatever git
  does; a commit that is reported is complete; the numbers shown are those of the files;
* configuration text: no change is missed and no noise is taken for one; an error
  reply is not kept as a configuration;
* rule evaluation and audit: a pass means that every rule for the device passed
  on its most recent configuration; a device that could not be audited is not a
  pass; every finished run accounts for every device and shows its result; all that
  is told of an audit agrees;
* scheduled job: it succeeds only if all is compliant, and fails only after its
  summary is published;
* loaders and command line: the devices a run works on are the ones described, each
  once and with its own secrets, the environment's before a stale `.env` file's; what is
  wrong in a file or missing from the environment ends the run before a device is
  connected to; the exit code tells a run that could not start from one that failed.

## 2. The modules

| Module | Models | Extends or instantiates |
|---|---|---|
| `Taxonomy` | statuses, exceptions, replies | |
| `Collection` | abstract: what a collection run promises | |
| `Collector` | `run` and `collect` step by step | `Taxonomy`; implements `Collection` |
| `CollectorProofs` | the theorems about `Collector` | `Collector` |
| `Lists` | a comprehension with an `if`, a sum | |
| `ListProofs` | the lemmas about these that other proofs share | `Lists` |
| `ConfigText` | texts, `normalize`, `config_problem`, `output_problem` | `Lists` |
| `BackupHistory` | abstract: what a backup directory promises | |
| `BackupStore` | `write_backup` at the grain of the file system | `ConfigText`; implements `BackupHistory` |
| `BackupStoreProofs` | the theorems about `BackupStore`, the refinement included | `BackupStore` |
| `BackupRun` | `backup_all`, `commit_paths`, `_run_backup` over several runs | |
| `BackupRunProofs` | the theorems about `BackupRun` | `BackupRun` |
| `Compliance` | the rules and their evaluation | `ConfigText` |
| `Texts` | every text, line by line, and what the two modules above promise of it | `Compliance` |
| `TextProofs` | the theorems about `Texts` | `Texts`, `ListProofs` |
| `Reports` | what is told of an audit: tables, JSON, Markdown, HTML | `Compliance` |
| `Audit` | `--check`, from the files or `--live`, to the report file, the output and the exit code | `Reports` |
| `AuditProofs` | the theorems about `Audit` | `Audit`, `ListProofs` |
| `Workflow` | the scheduled job around an audit | `Audit` |
| `WorkflowProofs` | the theorem about the job | `Workflow`, `AuditProofs` |
| `Loaders` | `load_env_file`, `load_inventory`, `resolve`, `netmiko_params`, `filter_devices`, `load_golden` | `Compliance` |
| `CommandLine` | `main` in each mode, from the options to the exit code | `Loaders` |
| `CommandLineProofs` | the theorems about `CommandLine` | `CommandLine`, `ListProofs` |
| `MC...` | the values of the constants for TLC | |

A definition whose name ends in an underscore and a word (`Return_Reversed`) is a
mutant: the definition after it as a plausible mistake would have it. Nothing
uses a mutant; put in the place of its original, it makes a property of a run
fail, which shows that the property says something about that piece of code.

### Collector

| State | Code |
|---|---|
| `main`, `submitted` | where the main thread is in `run` (in the `submit` loop, in the `as_completed` loop, in the `__exit__` of the pool on its way out, out) |
| `phase` | where a device's task is: not submitted, in the queue, at a step of `collect`, done |
| `attempt`, `outputs`, `raised` | the loop variable, the `outputs` and the `exc` of `collect` |
| `open` | the devices with a connected session |
| `future`, `results`, `report` | the futures, the dictionary `run` fills, the list it returns |
| `tried` | history: the exceptions of the failed attempts |

A step of a task is one call that may fail or block: connect, enable mode, each
command, disconnect, the judgement of the replies, the `except` clause with its
choice to retry, the sleep. `Start(d)` lets a thread take the oldest task of the
queue. `Submit` puts all tasks in the queue before anything is yielded, as the
dictionary comprehension of `run` does. `Yield(d)` takes the finished
futures in any order. `Interrupt` is one Ctrl-C, raised in the main thread;
`Leave` is the end of the pool's `with` block, which waits for every submitted
task, the queued ones included. A second Ctrl-C is not modelled.

An exception is a kind, with its classes as netmiko, paramiko and Python define
them (`mro`), and `classify_exception` is the same ordered list of `isinstance`
tests (`Handlers`). A reply is its number of lines and whether its first line
looks like an error.

`Collection` is the specification one would give without threads: at most
`MaxSessions` sessions, one verdict per device, none while the device is talked
to, and either one report in inventory order or none. In the refinement mapping
`Start`, the retries, the queue, the sleep and the order of completion are
stutters.

### ConfigText and BackupStore

A text is a sequence of lines; a line is its text and whether it ends in spaces
(so that stripping is modelled by what it does). `normalize`, `config_problem` and
`output_problem` are the code's, for a set of volatile lines that stands for the
patterns, and a set of rejections that stands for the error markers. (`Taxonomy` has
`output_problem` of a reply about which `Collector` needs no more than two facts.)

What a Python comprehension keeps of a list is told by the places it keeps (`Sublist`
of `Lists`), here, in `Compliance` and in `filter_devices`; a sum is the number of the
things there are in all (`Total`). Neither is recursive, so that both can be proved
about.

`BackupStore` models one device's directory. A name (`.cfg` or `.tmp`, and
the second of the time stamp) leads to an inode, an inode has two parts, and both
the names and the contents exist twice: as the system sees them and as the
disk has them. `fsync` puts the contents of a file on the disk; the names get
there at any later time, as nothing in the code waits for that (`Settle`); the
loss of power goes back to the names on the disk and leaves of a file that was
not synced a prefix. Each element of `Runs` is a run of the program that executes
`write_backup` once: `Begin` (plausibility), `List` (`latest_backup`), `Compare`
(read and compare), `Open`, `Write` twice, `Sync`, `Replace` (the rename) and `Return`
(the result, a step of its own, since a run may be stopped with its file published and
not reported). `Fail` then `Cleanup` are the `except` clause of `_write_atomic`: an
`OSError` up to the rename, or Ctrl-C up to the end of the `try`, after the rename too;
the unlink may itself fail, or be cut short by a second Ctrl-C. `Escape` is an exception
outside of that `try`: Ctrl-C, and an `OSError` of the listing or of `mkdir`. `Kill`,
`Damage` and a clock that is set back are there when `Faults` says so; `Overlap` lets
runs be at work together, and `SameSecond` lets them compute the same file name.

Two variables are history. `since[r]` is the runs that have published a file since `r`
published its own or found it unchanged, so that the properties can tell what was
published from what was reported. `left` is the runs that were stopped before their
temporary file was removed.

`BackupHistory` says what the directory is meant to be, "a change history rather
than a cron log": an addition at the end, of a plausible configuration that
differs from the last, and no other change but two: within one second
(`MayReplace`) the last file may be replaced, and a loss of power brings back
the directory as it is on the disk (`durable`).

### BackupRun

Successive runs of `--backup`, each with its `--force` and `--git-commit`. The writing
of one file is a step here (`BackupStore` opens it up): `WriteBackup` adds one row to
the report and perhaps one file. `render_backup_summary` and the JSON are worked out
of the rows; `before` is history, the number of files of each device when the run
began. Then come the git commands of `commit_paths`, one action each (`IsRepo`, `Add`,
`Diff`, `Commit`, `RevParse`), each of which may be refused or exceed `GIT_TIMEOUT`,
its work done or not. The index and HEAD are sets of paths. The user stages files and
commits at any time.

### Compliance and Audit

`Compliance` is `compliance.py` on texts as above: `config_lines` with the line
numbers of the original, `evaluate_rule`, `applies_to`, `evaluate`, and the
acceptance of a rule by `load_golden`. A regular expression is the set of the
texts it finds a match in; white space is collapsed by a table of spellings.

These functions keep no state. `Texts` states what they promise: its behaviours put a
text together line by line, so that each state is a text and each invariant is said of
every text; other captures of it, and texts that differ in a line, are made of it in
the properties.

`Audit` is `--check`: the loading of the rules, then for each device `Locate`
(list the directory) and `Read` (a later step: the file may have gone, been
spoiled or been superseded), or `EvaluateLive`, then `WriteReport` (the format told
from the suffix of `--report`; the writing may break off) and `ShowResult` (tables
or JSON, and the exit code). `Publish`, `Remove` and `Spoil` are the others at work
on the files. `latest` is history: everything that was the newest backup of a
device since the run began.

`Reports` has one operator for each table, summary, payload and file, and its value
is the record of what that output says: the numbers, the devices with their labels,
the failed rules in the order given. Layout, colours and wording are left out.

`Workflow` puts the audit into the job: the step `check` with `continue-on-error`,
the HTML report, the job summary and the upload with `always()`, and the last
step, which looks at the outcome of `check`. An audit outside of the job is the same
module with `job = "none"`. GitHub Actions is external.

### Loaders and CommandLine

A mapping of a YAML document is a record with the keys it has, so that a missing
key, a default and an unknown key are what they are in the code; a number of a device is
`positive`, `refused` or `infinite`, and any other value of the wrong type is refused in
the same way as an unknown key and is not told from it. The environment is a function
from the variables that are set to who set them, the shell or the `.env` file (or
to "" where the value is empty), and a secret is named after the variable it was
read from and who set that, so that a property can tell whose it is and where it is
from. Two spellings of a profile share a prefix.

What a loader raises is either an error of its own, for which `main` returns 2, or an
exception no handler takes (`load_inventory_uncaught`, `load_golden_uncaught`,
`LoadEnvironment`), and which of the two it is depends on the first thing that is wrong
from the top of the file. The second kind is

* a file that may not be read or is not UTF-8, or has a date that is none
  (`"unreadable"` text; a `.env` file that is not `readable`);
* unknown keys of which one is a word (`typo`) and one a `number`: `sorted` raises;
* an `infinite` number: `int` raises;
* a pattern `re.compile` finds too large (`TooLarge`);
* a key file in the home of a user there is none of (`"~nobody"`): `expanduser` raises.

`CommandLine` is `main`: `CheckOptions`, `LoadEnvironment`, `LoadDevices` (the
inventory with all its credentials, then the filters), then `ListDevices`, or
`LoadGolden` and `Report`, or `Collect` and what the mode does with the results
(`ReportTest` for `--test-connection`). `contacted` holds what `netmiko_params` gives for
each device and the commands sent to it. What `_run_backup` and
`_report_compliance` do is in `BackupRun` and `Audit`; here they give any exit code
those modules give, 0 only if no device failed; 3 is a traceback, for which
Python's own exit code is 1.

## 3. The runs

TLC explores every behaviour of these instances. State counts are distinct states.

| Run | Instance | States |
|---|---|---|
| `Collector` | 3 devices, 2 threads, 2 attempts, 1 command, 2 kinds of reply, a transient and a permanent failure, `edge1` may hang | 70,044 |
| `Collector_retries` | 1 device, 3 attempts, 2 commands, all 10 kinds of exception, 5 kinds of reply | 28,586 |
| `BackupStore` | 3 runs in turn, 3 captures (two equal but for a header), 2 seconds, some runs within one second, kills, 1 loss of power | 907,742 |
| `BackupStore_overlap` | 2 runs at once in different seconds, 3 captures (one too short), every fault, 1 loss of power | 726,332 |
| `BackupRun` | 2 devices, 2 configurations, 2 runs, every fault, a user's file | 192,579 |
| `Compliance` | all texts of at most 5 lines of 7 sorts, 8 rules, a rejection put in anywhere | 19,608 |
| `CommandLine` | 32 inventories and 7 golden files (2 of each are none), 95 environments, 33 command lines | 3,611,267 |
| `Audit` | 2 devices with different tags, 3 rules of 3 severities, 2 configurations, 2 names, every fault, 5 sets of options, alone or in the scheduled job | 2,199,106 |

What they show:

* `Collector`. `SessionsBounded` and `NothingLeftBehind`: at every moment, and after
  every kind of end, whatever failed. `ImplementsCollection`: the threads, the queue
  and the retries are invisible to the caller. `HealthyServed`: while fewer devices
  hang than there are workers every submitted healthy device gets its result.
  `RunEnds`: the run ends, after Ctrl-C too, unless a blocked session holds its thread
  for ever.
* `Collector_retries`. `RetryDiscipline`: which failures are retried and how many
  times, told from the kinds of exceptions and not from the code's table.
  `OneSessionAnswers`: a result's outputs are those of one session, the last one. The
  replies lie on both sides of `MAX_ERROR_REPLY_LINES`.
* `BackupStore`. `ReportsTrue` relates what a run has said to what the directory holds,
  then and later, two captures in one second included: what was reported is there, and a
  file that was published without being reported is that of a run that was stopped
  after its rename. `LatestIsLast`: the last name has the configuration stored last,
  reported or not. `ImplementsHistory` is the refinement.
* `BackupStore_overlap`. `ReportsTrue` again, `PublishedWhole`, `HistoryKept` and
  `NoTemporaryLeft` with two runs interleaved and every fault. A temporary file stays
  only where its run was killed at work on it or where its own unlink did not succeed;
  any other error or Ctrl-C leaves none.
* `BackupRun`. `ExitTellsBackups`: 0 only if every device's collected configuration is
  the last of its directory, 1 only if a device gave none or its file failed, and git
  has no say in it. `CommitIsComplete`: a run that says "committed" left nothing
  staged out, of its own or of an earlier run whose commit failed.
  `SummaryTellsFiles`: "n written, m unchanged, k failed" is counted from the rows,
  and holds of the directories: n files are new, the summary line, the JSON with its
  numbers by status and the exit code agree, and no more devices are counted as backed
  up than are.
* `Compliance`. `NormalizedAsDescribed` says what `normalize` returns, and
  `ChangesAreTold` what the comparison has to make of it: `CosmeticsAreNoChange` and
  `ChangesAreSeen`. `RejectionsAreRefused`: what `output_problem` and `config_problem`
  let pass between them; no rejection in a reply with no more than four lines to keep.
  `MatchesAsDescribed` compares the evaluation with the definition in the
  documentation, told of the original text. `StoredAuditIsCurrent` relates the two
  halves of the program: because an unchanged capture is not stored, what is audited
  may be an older file, and the verdict must be the same. `RulesCanFail`: an accepted
  rule is not void.
* `CommandLine`. `SelectionAsDescribed`: the devices worked on are those the filters
  name, and they are what `Collector`, `BackupRun` and `Audit` assume of an inventory
  (`IsAnInventory`). `SecretsFailFirst` and `SecretsAreOwn`, over every set of
  variables, with and without a `.env` file: no connection while a secret is missing
  for any device of the file, and netmiko is given neither another profile's secret
  nor the file's where the shell has one. `ListingTellsAuth`: what `--list-devices`
  shows is what a run would log in with. `OfflineIgnoresSecrets`: what the modes
  without a connection work on does not depend on the environment at all, and no missing
  secret stops them with 2, but in `--list-devices --live`.
  `TypoIsRefused`: an unknown key anywhere ends the run. `ExitTellsResults` and
  `StartFailuresAreTold`: 0, 1 and 2 mean what `README.md:197-207` says, and a run that
  could not start ends in a traceback only on a file with one of the mistakes of section
  4 (`BadEnv`, `BadInventory`, `BadGolden`, told of the files and not by what the loaders
  do) or in the listing `CommandLine_list` is about.
* `Audit`. `NoFalsePass`, `FinishedIsComplete`, and `AuditedWasLatest`, the last
  against files that change between the listing and the reading. `OutputsAgree`: the
  tables, the JSON, the report file and the exit code name the same devices as
  compliant (`VerdictsAgree`), the files and the tables the same rules as failed
  (`FaultsAreGiven`), and every sum is that of its parts (`NumbersAddUp`).
  `JobTellsDrift`: the scheduled job is green only on a
  compliant network, and red over a drift only with the report in its summary.

Why the bounds are enough. Three devices on two threads have one that queues while two
run, and the one that runs may be the one that hangs; two attempts contain a retry,
the last attempt and the limit; three attempts (one device) contain a retry after a
retry. Three sequential runs of `write_backup` give a first file, an unchanged or
changed second, and a comparison with a file that is not the first; what a run does
depends on nothing older. Two seconds for three runs let two of them share one, in
either second. Two parts make half a file. Two runs are enough for every race of two
on a name, and three add no new pair; one loss of power at any point, with any names
on the disk, already covers what a second one could find. Two backup runs make "what
the one before left staged". Texts of five lines hold a header, a blank and a
separator around two lines that matter, and are just long enough for
`MIN_CONFIG_LINES` (5) and, with a rejection put in, longer than
`MAX_ERROR_REPLY_LINES` (5). Two stamps for each device let a backup be superseded or
removed between its listing and its reading. The three rules have three severities,
one tag and two violations of one rule, so that no two ways of counting give the same
number. Two profiles beside the common variables are one's own and another's; a `.env`
file is with and without each of them. The bounds `MaxClock`, `MaxOutages`, `MaxRuns`,
`MaxLines` are constants of their modules. The runs of `BackupStore` are
interchangeable, hence the symmetry set (no liveness is checked under it;
`HistoryKept` and `ImplementsHistory` are safety properties, symmetric in the runs).
`CHECK_DEADLOCK FALSE` is there where the system stops: all runs over.

Fairness (`Collector` alone). The main thread and the start of queued tasks are
weakly fair: they are threads that nothing holds. A task is weakly fair unless
its device is in `Hung`: netmiko bounds its waits (`conn_timeout`, `read_timeout`
of `netmiko_params`), the sleep is finite, and the disconnect is local; `Hung` is
for the sessions of which this is not true, and it is any set of devices.
`Interrupt` is not fair.

## 4. Where the code and its own words differ

Four runs check what a comment or docstring says and find a behaviour that is not so:

| Run | What the code says | What happens |
|---|---|---|
| `BackupStore_undecodable` | "Never raises"; "an unreadable previous backup should not block a new one" (`backup.py:133,166`) | a previous backup that is not UTF-8 raises `UnicodeDecodeError`, which is no `OSError` |
| `BackupRun_hang` | "Every failure here is non-fatal" (`gitstore.py:5`) | `subprocess.TimeoutExpired` is caught by nobody but `is_repo` |
| `Audit_report` | "report the write failure without discarding the result" (`cli.py:428`) | the run returns 2 before it shows the result |
| `CommandLine_list` | "Listing the inventory ... must not demand SSH secrets" (`cli.py:285`) | `--list-devices --json` reads the `username` of a device whose credentials are `None` (`cli.py:324`) |

Limits of the code that the models have and no run states, with the constants that
bring them out:

* `RetryDelay < 0`: `--retry-delay -1` is accepted, and the first transient failure
  makes `time.sleep` raise `ValueError` out of `collect` and `run`, although
  "collect() never raises" (`runner.py:66`, `connect.py:179`).
* A rule whose only entry is `""` or `"!"` under `forbidden` is accepted and cannot
  fail, as `config_lines` drops these lines; "a rule that checks nothing always
  passes, which is the most dangerous possible bug" (`golden.py:201`). `RulesCanFail`
  says it of the lines that an entry can find (`Findable`).
* `SameSecond = TRUE`, `Overlap = TRUE`: two runs in one second share their temporary
  file, and one may publish what the other has half written; `PublishedWhole` fails.
  With `Overlap = FALSE` the second capture of a second replaces the first:
  `HistoryKept` fails, but the directory still ends with the last capture and the
  reports stay true (run `BackupStore`).
* `"clock_back"` in `Faults` of `BackupStore`: a capture may sort before an older one,
  which is then "the latest"; `LatestIsLast` fails.
* With runs that overlap, two equal configurations may follow one another, since the
  comparison and the publication are two steps; `ImplementsHistory` is checked for
  runs in turn.
* `git commit` takes the user's staged files along, and a run that finds its
  configurations unchanged does not commit what an earlier run wrote and could not
  commit: a file that was never staged stays out of HEAD with exit code 0.
* `rev-parse` may fail after the commit was made; the run then says "git commit
  failed".
* An OSError of the listing of the backups (`latest_backup`, before the `try`) also goes
  out of `write_backup`, against "Never raises" (`Escape`).
* Ctrl-C or a kill between the rename and the result leaves a backup that no report
  names; a Ctrl-C whose own cleanup fails even makes it FAILED (`ReportsTrue`).
* The directory is not synced after the rename: the loss of power may take away a backup
  that was reported as written (`Settle`, `Outage`).
* A backup that is not UTF-8 ends the audit too (`Read`, exit 3 for the traceback). So
  do, before a start, an inventory, golden file or `.env` file that is not UTF-8 or may
  not be read (`inventory.py:116`, `golden.py:143`, `cli.py:265`: only
  `FileNotFoundError` and errors of YAML are caught), unknown keys that are a word and a
  number (`inventory.py:84` and its like in `golden.py`: `TypeError` of `sorted`), `.inf`
  for a number (`inventory.py:91`: `OverflowError`), a pattern too large
  (`golden.py:114`: `OverflowError`, no `re.error`), and a key file `~nobody/...`
  (`credentials.py:87`: `RuntimeError`, in the offline modes too where a username is
  set). Python's exit code is then 1, which `README.md:202` reads as "a device failed".
* `--list-devices --live` demands the secrets of all devices (`cli.py:288`), though
  "listing the inventory ... must not" (`cli.py:285`).
* A `--command` given twice is sent twice, and the second answer takes the place of the
  first (`connect.py:160`); the models take the commands to differ.
* With `--check --live` a bad golden file is found after the devices were connected
  to, and the exit code is still 2.
* Device names are unique with their case, but `--device` selects without: one name
  may select two devices. `--device ","` names none, and selects all.
* `COMMAND_FAILED` keeps the outputs, although `models.py:295` says "populated only on
  success".
* With `--json --report` the line "Report: ..." goes to standard output before the
  JSON (`cli.py:431`), which is not "the only thing on stdout" (`report.py:3-5`);
  `stdout` of `Audit` holds both.
* `output_problem` is applied to a live audit's replies, `config_problem` is not: a
  rejection after a banner line, or a truncated configuration, is audited with
  `--live`, and would not have been stored. `RejectionsAreRefused` states it apart for
  the two.
* A device that no rule applies to is compliant, "0/0" (`compliant` of `Reports`): a
  mistyped tag is seen only in that number.
* `render_violations` does not name a device that could not be audited; the table and
  the report file do.
* The severity of a rule orders the findings and has a share in the numbers; no exit
  code depends on it, though `models.py:128` says so.
* A `.env` file is put under the shell variable by variable, and the profile's
  variables go before the common ones: a profile's variable of a stale file is used
  where the shell sets only the common one, though "real environment variables must
  win" (`cli.py:251-252`). Without python-dotenv, `--env-file` names a file nobody
  looks for.

## 5. The proofs

Checked by TLAPS, for every inventory, option, set of faults, and number of runs.

`CollectorProofs`, from the assumptions that the inventory has no device twice
and is not empty (`load_inventory`, `runner.py:44`), that the options are integers
and that the environment's sets are subsets of what the taxonomy knows:

* `TypeCorrectness`, `SessionsAreBounded`, `NothingIsLeftBehind`:
  `Spec => []TypeOK`, `[]SessionsBounded`, `[]NothingLeftBehind`;
* `CollectionIsImplemented` and `RunImplementsCollection`: `Spec` implements
  `Collection`;
* `ResultsAreFinal`, which the refinement gives from the five actions of `Collection`
  (`AbstractDelivers`): the caller gets one verdict for each device, in the order of the
  inventory, or nothing, and a result does not change once there is one.

None of the properties is inductive: that the open sessions are at most the threads
holds because only running tasks have one (`SessionInv`) and a task starts only when a
thread is free (`PoolInv`); that nothing is left behind holds because the pool is left
only when every submitted task is done (`ResultInv`), the others are new (`SubmitInv`)
and a new or finished task has no session. `IInv` is their conjunction with the type
and with `AttemptInv` (a sleeping task has an attempt left, which the type of
`attempt` needs) and `FutureInv` (done means decided, which the refinement needs).
`TaskStep` and `MainStep` prove the step, action by action. The refinement is proved
step by step as well: connecting is `Talk`, closing is `HangUp`, the end of a task is
`Decide` (or a stutter if `collect` raised), `Return` and `Leave` are `Return` and
`GiveUp`, and everything else stutters.

Its second part is about the outcomes:

* `RetriesAreDisciplined`, `AnswersAreOfOneSession`: `Spec => []RetryDiscipline` and
  `Spec => []OneSessionAnswers`, whatever `--retries`, the number of commands
  and the kinds of exceptions.

First `Tests` works out which exceptions each `isinstance` test takes and
`TransientIsRetryable` that the order of the tests gives just the transient ones a
retryable status. Then `OutcomeInv` is inductive besides `IInv`: `AnswersInv` tells
from the place a task is at which answers it holds, and that they are of this attempt,
and `FailuresInv` that the failures are as many as the attempts over and all
transient. `EvaluateOutcome` and `ClassifyOutcome` are the two steps that make a
result of these.

`BackupStoreProofs`, under `Separate == ~Overlap \/ ~SameSecond`, and the assumption
that there is a clock and that `None` is no inode:

* `TypeCorrectness`: `Spec => []TypeOK`;
* `BackupsAreWhole`: `Spec => []PublishedWhole`.

`PublishedWhole` alone is not inductive: a published file must not be one that
somebody still writes. `Handle` says that the file a run writes is the one its
temporary name leads to and what is in it; `Apart`, that no backup's inode has a
temporary name, now or after a loss of power; `Exclusive` and `Fresh`, that two runs
at work have different files. `Separate` is used in `OtherWriter`, and nowhere can it
be dispensed with, as `SameSecond` above shows.

The rest of the module says what stays true of a directory, from `HInv`, which is `IInv`
and what has been published, and by whom. Without their conditions the last three are
false, as TLC shows:

* `NothingLeft`, under `Separate`: `Spec => []NoTemporaryLeft`;
* `ReportsTheorem`, under `Separate`: `Spec => []ReportsTrue`, whatever fails or stops a
  run, at any place;
* `HistoryTheorem`, under `~SameSecond`: `Spec => HistoryKept`, runs that overlap and a
  clock that goes back included;
* `LatestTheorem`, under `Orderly`, which is runs in turn and a clock that is not set
  back: `Spec => []LatestIsLast`, kills between the rename and the result included;
* `HistoryRefinement`, under `Orderly`: `Spec` implements `BackupHistory`.

`Named` says that a backup's name is that of a run past its rename and, with one run
per second, that the disk and the system mean the same file by it; `HistoryKept` follows
(`StepKeepsHistory`). `NoTemporaryLeft` is inductive with it (`KeepsOn`). `Reported` is
`ReportsTrue` with what the comparison relies on meanwhile, in three parts: what was kept
stays (`KeepingStep`), a run has published just what its result and its place allow
(`SayingStep`), and every backup is that of a run that has (`OwnedStep`). `InOrder` says
that stamps follow the clock, that the run at work compares with the last backup and
writes under the last name, and that what it writes differs from that backup: this makes
`Replace` the `Publish` of `BackupHistory` (`ReplaceIsPublish`). `Settle` and `Outage` are
the steps of these names there, and all the others, `Return` too, stutter.

`BackupRunProofs`, from the assumptions that the inventory has no device twice and that
a failed capture is no configuration: `TypeCorrect`, `ExitTheorem`, `CommitTheorem`
and `SummaryTheorem`, `Spec => []` of `TypeOK`, `ExitTellsBackups`, `CommitIsComplete`
and `SummaryTellsFiles`, for any number of devices, runs and files of the user.
`RowsInv` ties a row to what became of its file, `FilesInv` counts the files of the
run, and `GitInv` says how far git is with them: after `Add` they are staged,
after `Commit` all that is staged is in HEAD, whatever the user commits in between. The
numbers are cardinalities of sets of rows: statuses are counted apart (`CountsAdd`), and
there are as many devices as places (`DevicesOfPlaces`).

`ListProofs` has what the other proofs need of lists and sums. There is no induction
over lists here, so that all of it rests on cardinalities: the places of a sublist are
as many as its elements and in their order (`PlacesAreNumbered`, `PlacesInOrder`,
`SublistTakes`), which gives its elements (`SublistHas`), that two lists have the same
sublist when a one-to-one map that keeps the order leads from the places of one to
those of the other (`SublistMoved`), that a sublist goes on with what an added place holds
(`ThreePieces`, `ThreeLists`), and how many blank ones surround the others
(`PlacesBetween`). A sum counts pairs: it is a number (`TotalType`), zeros do not
matter (`TotalExtended`), and the sum of sums is the sum of both (`TotalOfSums`).

`TextProofs`, from `TextsAssumption` (a line is a text and whether it ends in spaces,
and the entries of a rule are lists, as `_as_str_tuple`, `golden.py:95`, makes them), for
every set of lines and of rules and texts of every length: all the invariants of the run
`Compliance`.

* `TypeCorrectness`, `NormalizedTheorem`: `Spec => []` of `TypeOK`,
  `NormalizedAsDescribed`. The places `normalize` keeps are those between the first
  and the last one that is filled; before and after these there are only empty ones.
* `ChangesTheorem`: `Spec => []ChangesAreTold`. Two captures have one normal form when
  a map that keeps the order leads from the lines kept of one to those of the other, but for
  blank ones after all others (`NormalFormMoved`): so it is with a header, spaces or
  blank lines. Texts with one normal form have each line that matters equally often
  (`NormalFormCounts`), so that one line more, less or another is seen.
* `RejectionsTheorem`: `Spec => []RejectionsAreRefused`, by counting the lines to keep.
* `MatchesTheorem`: `Spec => []MatchesAsDescribed`. The lines `config_lines` gives
  are those of the file that are neither blank nor "!", with their numbers.
* `StoredAuditTheorem`: `Spec => []StoredAuditIsCurrent`. A steady rule says the same
  of texts that hold the same lines, blank and volatile ones apart, and two captures of
  one configuration do.
* `RulesTheorem`: `Spec => []RulesCanFail`.

The invariants of texts hold by what the functions do to any text, not by what came
before it: the inductive invariant is the type alone.

`AuditProofs`, from `InventoryAssumption` (no device twice, a directory is finite) and
`GoldenAssumption` (the rules are a list, each with one of the three severities and
lists of entries, as `load_golden` builds them and refuses others; a configuration is a
list of lines), for any golden rules, captures, options and faults, and any changes of
the backups:

* `TypeCorrect`, `NoFalsePassTheorem`, `FinishedTheorem`, `LatestTheorem`:
  `Spec => []` of `TypeOK`, `NoFalsePass`, `FinishedIsComplete`, `AuditedWasLatest`;
* `OutputsTheorem`: `Spec => []OutputsAgree`, all that the four outputs and the exit
  code say of the devices, the failed rules and the numbers.

`RowsInv` says of which device a row is and when there is one for each; `ToldInv`
(`FileInv`, `LinesInv`) that what is told was made of all the rows; `LatestInv` that the
name about to be read, and the source of every row, was the newest at some time of the
run. For an error row this is not inductive as the property has it: a backup that cannot
be read may be removed later. `Explained` keeps what the row was told from, and
`BackupsChange` proves it under `Publish`, `Remove` and `Spoil` at once.

`OutputsAgree` follows from `ToldInv` and from what the functions of `Reports` make of
the same rows. Rows are compliant, in error or failing, one of the three
(`RowsAreDivided`), and no two are of one device, so that rows and devices are equally
many (`DevicesOfRows`); the findings of a file are the failing rows and those in error
(`FaultsOfFiles`). `failures` puts three sublists one after the other (`FailuresAre`):
they hold every failed rule, in the order of the severities. For the numbers, what a
rule finds must be finite (`ViolationsAreFinite`); the violations of a row are the sum
of three (`CountedBySeverity`), and a row that does not fail has none. So the column of
the devices, what is listed, the number at the top and the severities shown are all the
sum of `Numbers` (`ColumnIsAll`, `ListedIsAll`, `CountIsAll`, `BreakdownIsAll`).

`WorkflowProofs`: `DriftTheorem`, `JobSpec => []JobTellsDrift`. The steps of the audit
keep its invariant by `AuditProofs`; `JobInv` relates them to the steps of the job.

`CommandLineProofs`, from `RequestsAssumption` (what `argparse` lets through) and
`DocumentsAssumption` (the devices and the rules of a document are lists, a profile is
one that has a prefix of variables, or cannot be used) and `KeyFilesAssumption` (no key
file that exists is in the home of nobody), for every inventory, golden file, environment
and command line: the eight properties of the run `CommandLine`.

`main` has no loop and no step of another actor but Ctrl-C, so the invariant says of each
variable what the files and the options give (`PlaceInv`, `DevicesInv`, `ContactedInv`,
`RulesInv`, `StdoutInv`, `ExitInv`), and the work is in the lemmas about the operators:
what a filter keeps of the devices (`ListProofs`), that a variable looked up by
its prefixes is the first of them that is set (`LookupFindsSecret`), what a loaded device
is (`DeviceLoaded`), that it has what its login takes (`CredentialsAreThere`), and that
the numbers of `--test-connection` add up (`ResultsAddUp`). `OfflineTheorem` compares a
load with one where no variable is set, device by device (`NotResolvable`), and
`StartTheorem` rests on `UncaughtIsBad` and `GoldenUncaughtIsBad`, which find in the file
the mistake that raised what nobody catches. That the first device with a homeless key
file does raise it is `HomelessIsUncaught`.

So every invariant and every safety property that a passing run checks is a theorem, those
of `BackupStore` under the conditions above (but for `TypeOK`). Only model-checked:

* liveness (`HealthyServed`, `RunEnds`), which needs ENABLED;
* the findings of section 4, which are behaviours.

## 6. Plan

In the order of importance, all done: `Taxonomy` and `Collector` with `Collection`;
`ConfigText`; `BackupStore` with `BackupHistory`; `BackupRun`; `Compliance` and `Texts`;
`Audit`; `Loaders` and `CommandLine`; `Reports` and `Workflow`; and the proofs above.

What would be next: several devices in one `BackupStore`, so that its directories and
`BackupRun`'s are one; the types of the remaining values of the two files, if a property
is found that tells one refusal from another.

## 7. What is not modelled

* The wording of reasons, log and commit messages; the layout, widths, colours,
  escaping and style sheet of what is shown. Durations.
* `argparse` but for the option values it lets through, logging, the syntax of a
  `.env` file, the types of the values in the inventory and the golden file but for its
  numbers (another value that is refused counts as an unknown key). Of the compilation of
  patterns there is only what no handler takes. That an error message can be printed is
  taken for granted.
* SSH itself, regular expressions, YAML, GitHub Actions: external, represented by what
  they may answer.
* The `on_result` callback of `run`: the program passes none.
* A second Ctrl-C while the pool shuts down; memory exhaustion.
* Case-insensitive file systems, on which two device names may be one directory.
* The job `live-audit` of the workflow, which is disabled (`if: false`), and the
  cancelling of a job. The tests and the lab.
