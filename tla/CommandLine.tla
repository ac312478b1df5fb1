----------------------------- MODULE CommandLine -----------------------------
(***************************************************************************)
(* One run of the program, cli.main, from its options to its exit code, in  *)
(* each of its modes: what is loaded, in which order, what is refused       *)
(* before a device is connected to, and what the exit code says.            *)
(* netauditor/cli.py:44-51,246-384,482-487, netauditor/report.py:62-126,    *)
(* 307-336.                                                                 *)
(*                                                                          *)
(* The backups and the audits themselves are BackupRun's and Audit's: here  *)
(* they answer with one of the exit codes these modules give them.          *)
(***************************************************************************)
EXTENDS Loaders

CONSTANTS Inventories,  \* the documents inventory.yaml may be
          Goldens,      \* the documents golden.yaml may be
          Environments, \* [shell, dotenv -> the variables each sets, readable,
                        \*  python_dotenv -> whether .env can be read, and is]
          KeyFiles,     \* the key files that exist, named after where they are named
          Requests      \* the options the user may give

Modes == {"list", "test", "backup", "check"}

ASSUME RequestsAssumption ==
    \A r \in Requests : r.mode \in Modes /\ r.live \in BOOLEAN /\ r.json \in BOOLEAN

\* A profile is none, or one of those Loaders has a prefix for, or has none for.
ASSUME DocumentsAssumption ==
    /\ \A d \in Inventories : d.text = "mapping" =>
          /\ IsList(d.devices)
          /\ \A n \in DOMAIN d.devices :
                get(merged(d, n), "credentials", "")
                    \in {""} \cup Unusable \cup DOMAIN profile_to_env_prefix
    /\ \A d \in Goldens : d.text = "mapping" => IsList(d.rules)

\* A key file that exists is in a home that exists.
ASSUME KeyFilesAssumption == \A key \in KeyFiles : ~expanduser_raises(key)

VARIABLES
    options,    \* the command line
    files,      \* [inventory, golden -> documents, env -> an environment]
    pc,         \* where main() is
    environ,    \* os.environ
    devices,    \* the devices selected
    rules,      \* the rules of the golden file, once they are loaded
    contacted,  \* what netmiko was given for each device, and the commands for it
    unanswered, \* the names of the devices whose result is not "ok"
    stdout,     \* what was printed of the devices, or of their results
    exit        \* the exit code, -1 until then; 3 stands for a traceback, Python's own 1

loaded == <<environ, devices, rules>>
told == <<contacted, unanswered, stdout>>
vars == <<options, files, pc, loaded, told, exit>>

Init ==
    /\ options \in Requests
    /\ files \in [inventory : Inventories, golden : Goldens, env : Environments]
    /\ pc = "options"
    /\ environ = files.env.shell
    /\ devices = << >> /\ rules = << >>
    /\ contacted = {} /\ unanswered = {}
    /\ stdout = Nothing
    /\ exit = -1

Exit(code) == pc' = "exited" /\ exit' = code

Go(place) == pc' = place /\ UNCHANGED exit

BadOptions == \/ options.command # {} /\ options.mode # "test"
              \/ options.workers < 1 \/ options.retries < 1

\* parser.error exits with argparse's own 2.
CheckOptions ==
    /\ pc = "options"
    /\ IF BadOptions THEN Exit(2) ELSE Go("environment")
    /\ UNCHANGED <<options, files, loaded, told>>

\* Without python-dotenv nobody looks whether the file of --env-file exists.
NoEnvFile == options.env_file = "missing" /\ files.env.python_dotenv

\* A .env that is no UTF-8, or may not be read: load_dotenv raises, and no handler of
\* main() takes it.
UnreadableEnv == ~files.env.readable /\ files.env.python_dotenv

LoadEnvironment ==
    /\ pc = "environment"
    /\ IF NoEnvFile THEN Exit(2) ELSE IF UnreadableEnv THEN Exit(3) ELSE Go("load")
    /\ environ' = IF NoEnvFile \/ UnreadableEnv THEN environ
                  ELSE load_env_file(files.env.shell, files.env.dotenv, files.env.python_dotenv)
    /\ UNCHANGED <<options, files, devices, rules, told>>

\* Mutant: the audit of the backups demands the secrets, as that of --live does.
needs_credentials_Check == options.mode # "list"

\* Mutant: --check --live is taken for an offline mode.
needs_credentials_ByMode == options.mode \in {"test", "backup"}

needs_credentials == options.mode \in {"test", "backup"} \/ options.live

\* The inventory with the credentials of all its devices, then the filters; of what
\* they raise main() takes the errors of the program's own.
LoadDevices ==
    LET all    == load_inventory(files.inventory, environ, KeyFiles)
        names  == split_csv(options.device)
        chosen == filter_devices(all, names, split_csv(options.tag))
        raises == \/ load_inventory_raises(files.inventory, environ, KeyFiles, needs_credentials)
                  \/ filter_devices_raises(all, names)
                  \/ chosen = << >>
        uncaught ==
            load_inventory_uncaught(files.inventory, environ, KeyFiles, needs_credentials)
    IN  /\ pc = "load"
        /\ CASE raises /\ uncaught -> Exit(3)
             [] raises /\ ~uncaught -> Exit(2)
             [] OTHER -> Go(CASE options.mode = "list" -> "list"
                              [] options.mode = "check" /\ ~options.live -> "golden"
                              [] OTHER -> "collect")
        /\ devices' = IF raises THEN devices ELSE chosen
        /\ UNCHANGED <<options, files, environ, rules, told>>

auth(credentials) == IF credentials.key_file # Nothing THEN "ssh key" ELSE "password"

\* Mutant: a device without credentials is listed as one with a password.
render_device_table_Password(list) ==
    [n \in DOMAIN list |->
        [name |-> list[n].name,
         auth |-> IF list[n].credentials = Nothing THEN "password"
                  ELSE auth(list[n].credentials),
         username |-> get(list[n].credentials, "username", Nothing)]]

render_device_table(list) ==
    [n \in DOMAIN list |->
        [name |-> list[n].name,
         auth |-> IF list[n].credentials = Nothing THEN "not resolved"
                  ELSE auth(list[n].credentials),
         username |-> get(list[n].credentials, "username", Nothing)]]

\* The table shows a device without credentials as such; the JSON, of the same
\* columns, reads d.credentials.username of None, an AttributeError that nothing
\* catches.
ListDevices ==
    LET unreadable == options.json /\ \E n \in DOMAIN devices : devices[n].credentials = Nothing
    IN  /\ pc = "list"
        /\ Exit(IF unreadable THEN 3 ELSE 0)
        /\ stdout' = IF unreadable THEN stdout ELSE render_device_table(devices)
        /\ UNCHANGED <<options, files, loaded, contacted, unanswered>>

\* The commands of --command, of which blank ones leave none, or the device's own.
Commands(device) ==
    IF split_csv(options.command) # {} THEN split_csv(options.command)
    ELSE {device.backup_command}

\* runner.run returns a result for each device, of which any may have failed, and one
\* without credentials has before it is connected to.
Collect ==
    LET hopeless == {n \in DOMAIN devices : netmiko_params_raises(devices[n])}
        able     == DOMAIN devices \ hopeless
        Names(ns) == {devices[n].name : n \in ns}
    IN  /\ pc = "collect"
        /\ contacted' = {[name |-> devices[n].name, params |-> netmiko_params(devices[n]),
                          commands |-> Commands(devices[n])] : n \in able}
        /\ \E unlucky \in SUBSET able : unanswered' = Names(hopeless) \cup Names(unlucky)
        /\ Go(CASE options.mode = "check" -> "golden"
                [] options.mode = "test" -> "test"
                [] options.mode = "backup" -> "report")
        /\ UNCHANGED <<options, files, loaded, stdout>>

\* Of the results of --test-connection: a line for each, and the numbers under them;
\* the JSON has the same ones.
results_to_json(list, names) ==
    LET rows == [n \in DOMAIN list |->
                    [name |-> list[n].name, ok |-> list[n].name \notin names]]
        total == Len(rows)
        ok == Cardinality({n \in DOMAIN rows : rows[n].ok})
    IN  [summary |-> [total |-> total, ok |-> ok, failed |-> total - ok], rows |-> rows]

\* Mutant: one device that answers is enough.
ReportTest_Any ==
    /\ pc = "test"
    /\ stdout' = results_to_json(devices, unanswered)
    /\ Exit(IF \E n \in DOMAIN devices : devices[n].name \notin unanswered THEN 0 ELSE 1)
    /\ UNCHANGED <<options, files, loaded, contacted, unanswered>>

ReportTest ==
    /\ pc = "test"
    /\ stdout' = results_to_json(devices, unanswered)
    /\ Exit(IF \A n \in DOMAIN devices : devices[n].name \notin unanswered THEN 0 ELSE 1)
    /\ UNCHANGED <<options, files, loaded, contacted, unanswered>>

\* Mutant: an error of the golden file is left to the interpreter.
LoadGolden_Uncaught ==
    /\ pc = "golden"
    /\ IF load_golden_raises(files.golden)
       THEN Exit(3) /\ UNCHANGED rules
       ELSE Go("report") /\ rules' = load_golden(files.golden)
    /\ UNCHANGED <<options, files, environ, devices, told>>

\* Before the audit of the backups, after the collection of --live.
LoadGolden ==
    /\ pc = "golden"
    /\ IF load_golden_raises(files.golden)
       THEN Exit(IF load_golden_uncaught(files.golden) THEN 3 ELSE 2) /\ UNCHANGED rules
       ELSE Go("report") /\ rules' = load_golden(files.golden)
    /\ UNCHANGED <<options, files, environ, devices, told>>

\* BackupRun and Audit: a device that failed is a failed backup, and an audit that
\* could not be done; 2 stands for the file of --report, 3 for an exception that no
\* handler takes.
Report ==
    /\ pc = "report"
    /\ \E code \in {1, 3} \cup (IF unanswered = {} THEN {0} ELSE {})
                          \cup (IF options.mode = "check" THEN {2} ELSE {}) : Exit(code)
    /\ UNCHANGED <<options, files, loaded, told>>

\* Ctrl-C, whether main() or run_cli() takes it.
Interrupt ==
    /\ pc # "exited"
    /\ Exit(130)
    /\ UNCHANGED <<options, files, loaded, told>>

Next == \/ CheckOptions \/ LoadEnvironment \/ LoadDevices \/ ListDevices \/ Collect
        \/ ReportTest \/ LoadGolden \/ Report \/ Interrupt

Spec == Init /\ [][Next]_vars

-----------------------------------------------------------------------------
(* Properties.                                                              *)

Loaded == pc \in {"list", "golden", "collect", "test", "report"}

Listed == files.inventory.devices

Profile(n) == get(Listed[n], "credentials", get(files.inventory.defaults, "credentials", ""))

\* Who sets a variable: the shell, to the empty string even, or else the .env file.
SetBy(variable) ==
    IF variable \in DOMAIN files.env.shell THEN files.env.shell[variable]
    ELSE IF variable \in DOMAIN files.env.dotenv /\ files.env.python_dotenv
         THEN files.env.dotenv[variable] ELSE ""

\* The secret a device of the file is given, its profile's before the common one.
Secret(n, suffix) ==
    LET prefix == profile_to_env_prefix[Profile(n)]
        Given(variable) == SetBy(variable) # ""
    IN  CASE Profile(n) \in DOMAIN profile_to_env_prefix /\ Given(<<prefix, suffix>>) ->
                <<prefix, suffix, SetBy(<<prefix, suffix>>)>>
          [] ~(Profile(n) \in DOMAIN profile_to_env_prefix /\ Given(<<prefix, suffix>>))
             /\ Given(<<Common, suffix>>) ->
                <<Common, suffix, SetBy(<<Common, suffix>>)>>
          [] OTHER -> Nothing

\* Its key file, the inventory's before that of the environment.
Key(n) ==
    LET key == get(Listed[n], "key_file", get(files.inventory.defaults, "key_file", Nothing))
    IN  IF key = Nothing THEN Secret(n, "KEY_FILE") ELSE key

\* A device has a username and either a password or a key file that exists.
Resolvable(n) ==
    /\ Profile(n) \notin Unusable
    /\ Secret(n, "USERNAME") # Nothing
    /\ IF Key(n) = Nothing THEN Secret(n, "PASSWORD") # Nothing ELSE Key(n) \in KeyFiles

\* "A missing secret fails at startup rather than halfway through a run"
\* (inventory.py:137-138): when a device is connected to, every device of the
\* file, selected or not, has all that a login takes.
SecretsFailFirst ==
    contacted # {} => /\ \A n \in DOMAIN Listed : Resolvable(n)
                      /\ \A n \in DOMAIN devices : devices[n].credentials # Nothing

\* "A device with `credentials: lab` resolves against NETAUDIT_LAB_..., falling back
\* to the unprefixed" variables "for anything the profile omits"
\* (credentials.py:8-16): what netmiko is given for a device is never the secret of
\* another profile, nor the common one when its profile, or the defaults', has its
\* own, and always what the device's extra_args say instead (models.py:123).  For
\* each variable "real environment variables (CI secrets) must win over a stale local
\* .env file" (cli.py:251-252): the file is used only where the shell sets nothing.
SecretsAreOwn ==
    \A c \in contacted : \E m \in DOMAIN Listed :
        LET extra == get(merged(files.inventory, m), "extra_args", << >>)
            Is(parameter, value) == c.params[parameter] = get(extra, parameter, value)
        IN  /\ Listed[m].name = c.name
            /\ Is("host", Listed[m].host)
            /\ Is("username", Secret(m, "USERNAME"))
            /\ Is("password", Secret(m, "PASSWORD"))
            /\ Is("key_file", Key(m))
            /\ Is("secret", Secret(m, "ENABLE"))

\* The listing "what the auditor parsed out of the YAML" (report.py:63) foretells the
\* login: a device of the inventory is shown as not resolved exactly when a run that
\* needs its secrets would stop for it, and otherwise as the user, and in the way,
\* that it is logged in with.
ListingTellsAuth ==
    stdout # Nothing /\ options.mode = "list" =>
        \A n \in DOMAIN stdout : \E m \in DOMAIN Listed :
            /\ Listed[m].name = stdout[n].name
            /\ stdout[n].auth = IF ~Resolvable(m) THEN "not resolved"
                                ELSE IF Key(m) # Nothing THEN "ssh key" ELSE "password"
            /\ Resolvable(m) => stdout[n].username = Secret(m, "USERNAME")

Offline == options.mode = "list" \/ (options.mode = "check" /\ ~options.live)

\* "Listing the inventory and auditing a committed backup never open a socket, so
\* they must not demand SSH secrets" (cli.py:285-286): no device is connected to;
\* which devices are worked on is the same with no variable set at all; and what
\* stops the run with 2 before there are any is the options, the inventory or the
\* filters.  The one exception is --list-devices --live, for which cli.py:288 does
\* demand the secrets of all devices.
OfflineIgnoresSecrets ==
    Offline =>
        LET bare   == load_inventory(files.inventory, << >>, KeyFiles)
            chosen == filter_devices(bare, split_csv(options.device), split_csv(options.tag))
        IN  /\ contacted = {}
            /\ Loaded => [n \in DOMAIN devices |-> devices[n].name]
                           = [n \in DOMAIN chosen |-> chosen[n].name]
            /\ exit = 2 /\ devices = << >> =>
                  \/ BadOptions \/ NoEnvFile
                  \/ ~ValidInventory(files.inventory)
                  \/ filter_devices_raises(bare, split_csv(options.device))
                  \/ chosen = << >>
                  \/ /\ options.mode = "list" /\ options.live
                     /\ \E n \in DOMAIN Listed : ~Resolvable(n)

\* What the other modules take for granted of the devices they work on: a list
\* that is not empty, in the order of the file, in which no name comes twice
\* (inventory.py:177-181, cli.py:307-309).
IsAnInventory ==
    /\ devices # << >>
    /\ \A m, n \in DOMAIN devices : devices[m].name = devices[n].name => m = n
    /\ \E place \in [DOMAIN devices -> DOMAIN Listed] :
          /\ \A n \in DOMAIN devices : Listed[place[n]].name = devices[n].name
          /\ \A m, n \in DOMAIN devices : m < n => place[m] < place[n]

\* "An unmatched name is an error rather than a silent empty run"
\* (inventory.py:257-258): a run that works on devices works on one of each name
\* given that the tags do not exclude, and on no other, each once.
SelectionAsDescribed ==
    Loaded =>
        LET names    == {lower(name) : name \in options.device \ {""}}
            tags     == {lower(tag) : tag \in options.tag \ {""}}
            Has(n)   == \E tag \in get(merged(files.inventory, n), "tags", {}) : lower(tag) \in tags
            matching == {n \in DOMAIN Listed : names = {} \/ lower(Listed[n].name) \in names}
        IN  /\ IsAnInventory
            /\ names \subseteq {lower(Listed[n].name) : n \in DOMAIN Listed}
            /\ {devices[n].name : n \in DOMAIN devices}
                  = {Listed[n].name : n \in {m \in matching : tags = {} \/ Has(m)}}

\* "A typo like devcie_type" (inventory.py:16-18) or "a typo in forbiden"
\* (golden.py:24-26) is an error in every mode that reads the file, never a key
\* passed over.
TypoIsRefused ==
    /\ Loaded => /\ "typo" \notin DOMAIN files.inventory.defaults
                  /\ \A n \in DOMAIN Listed : "typo" \notin DOMAIN Listed[n]
    /\ pc = "report" /\ options.mode = "check" =>
          /\ files.golden.text = "mapping"
          /\ "typo" \notin DOMAIN files.golden.defaults
          /\ \A n \in DOMAIN files.golden.rules : "typo" \notin DOMAIN files.golden.rules[n]
          /\ Len(rules) = Len(files.golden.rules)
          /\ \A n \in DOMAIN rules : \E key \in MATCH_KEYS : rules[n][key] # << >>

\* 0 is "Everything passed", 1 "The run finished, but a device failed"
\* (README.md:199-203): a run that connects to devices and ends with 0 had each of
\* the selected devices answer, and --test-connection prints one line for each of
\* them, in the order of the inventory, whose numbers add up and say so.
ExitTellsResults ==
    /\ contacted # {} /\ exit = 0 =>
          /\ unanswered = {}
          /\ {c.name : c \in contacted} = {devices[n].name : n \in DOMAIN devices}
    /\ options.mode = "test" /\ stdout # Nothing /\ exit \in {0, 1} =>
          /\ DOMAIN stdout.rows = DOMAIN devices
          /\ \A n \in DOMAIN devices :
                /\ stdout.rows[n].name = devices[n].name
                /\ stdout.rows[n].ok <=> devices[n].name \notin unanswered
          /\ stdout.summary.failed = Cardinality(unanswered)
          /\ stdout.summary.ok + stdout.summary.failed = stdout.summary.total
          /\ exit = 0 <=> stdout.summary.ok = stdout.summary.total

\* The mistakes in the files that raise what main() has no handler for: a file that
\* cannot be read, unknown keys that cannot be sorted, a number that is infinite, a
\* key file in nobody's home, a pattern re.compile gives up on.
BadEnv == files.env.python_dotenv /\ ~files.env.readable

BadInventory ==
    \/ files.inventory.text = "unreadable"
    \/ /\ files.inventory.text = "mapping"
       /\ \/ {"typo", "number"} \subseteq DOMAIN files.inventory.defaults
          \/ \E n \in DOMAIN Listed :
                \/ {"typo", "number"} \subseteq DOMAIN Listed[n]
                \/ "infinite" \in {get(merged(files.inventory, n), key, "positive") :
                                     key \in {"port", "conn_timeout", "read_timeout"}}
                \/ /\ Profile(n) \notin Unusable /\ Secret(n, "USERNAME") # Nothing
                   /\ Key(n) # Nothing /\ Key(n)[3] = "~nobody"

BadGolden ==
    \/ files.golden.text = "unreadable"
    \/ /\ files.golden.text = "mapping"
       /\ \/ {"typo", "number"} \subseteq DOMAIN files.golden.defaults
          \/ \E n \in DOMAIN files.golden.rules :
                \/ {"typo", "number"} \subseteq DOMAIN files.golden.rules[n]
                \/ ~Compiles(files.golden.rules[n])

\* "The 1 vs 2 split is deliberate" (README.md:206-207): a run that could not start
\* ends with 2 and has connected to no device, unless it is the golden file of a
\* live audit that is wrong; with Python's own 1 it ends only on a file with one of
\* the mistakes above, the golden file in an audit only, and on the listing without
\* secrets.  So a missing file, an unknown key, a wrong or missing value, a missing
\* secret and an unknown name are each told with 2, unless such a mistake is met
\* first.
StartFailuresAreTold ==
    LET started == contacted # {} \/ rules # << >> \/ stdout # Nothing IN
    /\ exit = 2 => contacted = {} \/ options.mode = "check"
    /\ exit = 1 => started
    /\ exit = 3 /\ ~started =>
          \/ BadEnv \/ BadInventory
          \/ options.mode = "check" /\ BadGolden
          \/ options.mode = "list" /\ options.json
                /\ \E n \in DOMAIN Listed : ~Resolvable(n)

\* The listing of --list-devices is such an offline mode, with --json as well: no
\* exception ends it, of files without these mistakes.
ListingNeedsNoSecrets ==
    options.mode = "list" /\ ~BadEnv /\ ~BadInventory => exit # 3

-----------------------------------------------------------------------------
(* The inductive invariant: each variable, at each place of main() that has *)
(* set it, and after it, is what the files and the options give.            *)

Places == {"options", "environment", "load", "list", "collect", "golden", "test",
           "report", "exited"}

\* What load_env_file, load_inventory and filter_devices give.
LoadedEnv == load_env_file(files.env.shell, files.env.dotenv, files.env.python_dotenv)
Inventory == load_inventory(files.inventory, LoadedEnv, KeyFiles)
Chosen    == filter_devices(Inventory, split_csv(options.device), split_csv(options.tag))

LoadRaises ==
    \/ load_inventory_raises(files.inventory, LoadedEnv, KeyFiles, needs_credentials)
    \/ filter_devices_raises(Inventory, split_csv(options.device))
    \/ Chosen = << >>

LoadUncaught ==
    load_inventory_uncaught(files.inventory, LoadedEnv, KeyFiles, needs_credentials)

PlaceInv ==
    /\ options \in Requests
    /\ files \in [inventory : Inventories, golden : Goldens, env : Environments]
    /\ pc \in Places
    /\ pc # "exited" <=> exit = -1
    /\ pc \notin {"options", "exited"} => ~BadOptions
    /\ pc \in {"options", "environment"} => environ = files.env.shell
    /\ pc = "load" => environ = LoadedEnv
    /\ pc = "list" => options.mode = "list"
    /\ pc = "collect" => options.mode # "list" /\ needs_credentials
    /\ pc = "golden" => options.mode = "check"
    /\ pc = "test" => options.mode = "test"
    /\ pc = "report" => options.mode \in {"backup", "check"}

DevicesInv ==
    /\ pc \in {"options", "environment", "load"} => devices = << >>
    /\ Loaded => devices # << >>
    /\ devices # << >> => environ = LoadedEnv /\ ~LoadRaises /\ devices = Chosen

ContactedInv ==
    /\ pc \in {"options", "environment", "load", "list", "collect"} => contacted = {}
    /\ pc \in {"test", "golden", "report"} /\ needs_credentials => contacted # {}
    /\ unanswered \subseteq {devices[n].name : n \in DOMAIN devices}
    /\ contacted # {} =>
          /\ devices # << >>
          /\ ~BadOptions /\ needs_credentials /\ options.mode # "list"
          /\ contacted = {[name |-> devices[n].name, params |-> netmiko_params(devices[n]),
                            commands |-> Commands(devices[n])] : n \in DOMAIN devices}

RulesInv ==
    /\ pc \notin {"report", "exited"} => rules = << >>
    /\ pc = "report" /\ options.mode = "check" => rules # << >>
    /\ rules # << >> => /\ ~load_golden_raises(files.golden)
                        /\ rules = load_golden(files.golden)

StdoutInv ==
    /\ pc # "exited" => stdout = Nothing
    /\ stdout # Nothing =>
          /\ devices # << >>
          /\ \/ /\ options.mode = "list" /\ exit = 0
                /\ stdout = render_device_table(devices)
             \/ /\ options.mode = "test"
                /\ exit = IF \A n \in DOMAIN devices : devices[n].name \notin unanswered
                          THEN 0 ELSE 1
                /\ stdout = results_to_json(devices, unanswered)

ExitInv ==
    /\ exit = 0 /\ contacted # {} => unanswered = {}
    /\ exit = 1 => contacted # {} \/ rules # << >> \/ stdout # Nothing
    /\ exit = 2 => contacted = {} \/ options.mode = "check"
    /\ exit = 2 /\ devices = << >> =>
          BadOptions \/ NoEnvFile \/ (LoadRaises /\ ~LoadUncaught)
    /\ exit = 3 => \/ contacted # {} \/ rules # << >> \/ stdout # Nothing
                   \/ UnreadableEnv \/ LoadUncaught
                   \/ options.mode = "check" /\ load_golden_uncaught(files.golden)
                   \/ /\ options.mode = "list" /\ options.json
                      /\ \E n \in DOMAIN devices : devices[n].credentials = Nothing

IInv == PlaceInv /\ DevicesInv /\ ContactedInv /\ RulesInv /\ StdoutInv /\ ExitInv
=============================================================================
