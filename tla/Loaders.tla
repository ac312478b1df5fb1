------------------------------- MODULE Loaders -------------------------------
(***************************************************************************)
(* What a run works with: the devices of inventory.yaml with their           *)
(* credentials, narrowed by --device and --tag, and the rules of golden.yaml.*)
(* netauditor/inventory.py, netauditor/credentials.py, netauditor/models.py,*)
(* netauditor/golden.py:132-230, netauditor/cli.py:248-266.                 *)
(*                                                                          *)
(* A mapping of a document is a record with the keys it has; of the unknown *)
(* keys, "typo" is a word and "number" a number.  Its "text" says what the  *)
(* file holds: a mapping, something that is refused (no mapping, nothing, no *)
(* YAML, no file), or something that raises what is no AuditorError: it is   *)
(* no UTF-8, or may not be read, or has a date that is none.                *)
(* A variable is a prefix with a suffix, and an environment a function from *)
(* the variables that are set to whom they were set by, "" being set to the *)
(* empty string; what is read from one is named after both.                 *)
(***************************************************************************)
EXTENDS Compliance, Integers, FiniteSets

Nothing == << >>        \* no value, no credentials, no key file

get(mapping, key, default) == IF key \in DOMAIN mapping THEN mapping[key] ELSE default

\* {**under, **above}: what the second says goes before what the first says.
update(under, above) ==
    [key \in DOMAIN under \cup DOMAIN above |->
        IF key \in DOMAIN above THEN above[key] ELSE under[key]]

-----------------------------------------------------------------------------
(* Credentials.                                                             *)

Common == "NETAUDIT"

\* Two spellings of one profile, another one, and one with no letter or digit.
profile_to_env_prefix ==
    [lab |-> "NETAUDIT_LAB", Lab |-> "NETAUDIT_LAB", edge |-> "NETAUDIT_EDGE"]

Unusable == {"--"}

\* Mutant: the common variables first.
Prefixes_CommonFirst(profile) ==
    IF profile = "" THEN <<Common>> ELSE <<Common, profile_to_env_prefix[profile]>>

Prefixes(profile) ==
    IF profile = "" THEN <<Common>> ELSE <<profile_to_env_prefix[profile], Common>>

\* The first of the variables that is set, and to something.
lookup(env, prefixes, suffix) ==
    LET set   == {n \in DOMAIN prefixes : get(env, <<prefixes[n], suffix>>, "") # ""}
        first == CHOOSE n \in set : \A m \in set : n <= m
    IN  IF set = {} THEN Nothing
        ELSE <<prefixes[first], suffix, env[<<prefixes[first], suffix>>]>>

\* The key file of the inventory goes before the environment's.
resolved_key(profile, key_file, env) ==
    IF key_file # Nothing THEN key_file ELSE lookup(env, Prefixes(profile), "KEY_FILE")

\* A key file in the home of a user there is none of: a RuntimeError, and no
\* CredentialError.
expanduser_raises(key) == key # Nothing /\ key[3] = "~nobody"

resolve_uncaught(profile, key_file, env) ==
    /\ profile \notin Unusable
    /\ lookup(env, Prefixes(profile), "USERNAME") # Nothing
    /\ expanduser_raises(resolved_key(profile, key_file, env))

\* Otherwise a username and either a key file that exists or a password, or Nothing,
\* a CredentialError.
resolve(profile, key_file, env, files) ==
    LET Get(suffix) == lookup(env, Prefixes(profile), suffix)
        key == resolved_key(profile, key_file, env)
    IN  IF \/ profile \in Unusable
           \/ Get("USERNAME") = Nothing
           \/ key = Nothing /\ Get("PASSWORD") = Nothing
           \/ key # Nothing /\ key \notin files
        THEN Nothing
        ELSE [username |-> Get("USERNAME"), password |-> Get("PASSWORD"),
              enable_secret |-> Get("ENABLE"), key_file |-> key]

\* load_dotenv(override=False): a variable that is set, be it to the empty string,
\* keeps its value; without python-dotenv the file is ignored, readable or not.
load_env_file(shell, dotenv, installed) ==
    IF installed THEN update(dotenv, shell) ELSE shell

-----------------------------------------------------------------------------
(* The inventory.                                                           *)

DEVICE_KEYS == {"name", "host", "device_type", "port", "tags", "credentials",
                "key_file", "backup_command", "conn_timeout", "read_timeout", "extra_args"}
DEFAULTABLE_KEYS == DEVICE_KEYS \ {"name", "host"}

\* What the device says goes before what the defaults say.
merged(document, n) == update(document.defaults, document.devices[n])

Credentials(document, n, env, files) ==
    LET entry == merged(document, n)
    IN  resolve(get(entry, "credentials", ""), get(entry, "key_file", Nothing), env, files)

\* The types with a command of their own, and one of those that have the fallback's.
DEFAULT_BACKUP_COMMANDS ==
    [cisco_ios |-> "show running-config", nokia_srl |-> "info",
     juniper_junos |-> "show configuration | display set",
     linux |-> "cat /etc/network/interfaces"]

BackupCommand(entry) ==
    IF get(entry, "backup_command", "") # "" THEN entry.backup_command
    ELSE get(DEFAULT_BACKUP_COMMANDS, entry.device_type, "show running-config")

check_keys(mapping, allowed) == DOMAIN mapping \subseteq allowed

\* The message names the unknown keys in order, and Python orders no word and number:
\* a TypeError.
Unsortable(mapping, allowed) == {"typo", "number"} \subseteq DOMAIN mapping \ allowed

\* The numbers of a device in the order they are read: what is not "positive" is
\* refused, but for int(inf), an OverflowError.
Numbers == <<"port", "conn_timeout", "read_timeout">>

Number(entry, k) == get(entry, Numbers[k], "positive")

coerce_int_uncaught(entry) ==
    \E k \in DOMAIN Numbers :
        Number(entry, k) = "infinite" /\ \A j \in 1..(k - 1) : Number(entry, j) = "positive"

\* What a device must have, its name being no other device's before it.
Named(document, n) ==
    LET entry == merged(document, n) IN
    /\ check_keys(document.devices[n], DEVICE_KEYS)
    /\ \A key \in {"name", "host", "device_type"} : get(entry, key, "") # ""
    /\ \A m \in DOMAIN document.devices :
          m < n => document.devices[m].name # document.devices[n].name

ValidEntry(document, n) ==
    /\ Named(document, n)
    /\ \A k \in DOMAIN Numbers : Number(merged(document, n), k) = "positive"

\* Mutant: the defaults are taken as they are.
ValidInventory_AnyDefault(document) ==
    /\ document.text = "mapping"
    /\ document.devices # << >>
    /\ \A n \in DOMAIN document.devices : ValidEntry(document, n)

ValidInventory(document) ==
    /\ document.text = "mapping"
    /\ check_keys(document.defaults, DEFAULTABLE_KEYS)
    /\ document.devices # << >>
    /\ \A n \in DOMAIN document.devices : ValidEntry(document, n)

Refused(document, n, env, files) == Credentials(document, n, env, files) = Nothing

Homeless(document, n, env) ==
    LET entry == merged(document, n)
    IN  resolve_uncaught(get(entry, "credentials", ""),
                         get(entry, "key_file", Nothing), env)

device_raises(document, n, env, files, require_credentials) ==
    \/ ~ValidEntry(document, n)
    \/ Homeless(document, n, env)
    \/ require_credentials /\ Refused(document, n, env, files)

\* The first thing wrong with a device raises what is no AuditorError.
device_uncaught(document, n, env, files, require_credentials) ==
    \/ Unsortable(document.devices[n], DEVICE_KEYS)
    \/ /\ Named(document, n)
       /\ \/ Homeless(document, n, env)
          \/ /\ require_credentials => ~Refused(document, n, env, files)
             /\ coerce_int_uncaught(merged(document, n))

\* load_inventory raises InventoryError, or CredentialError for one device of the
\* inventory when credentials are required, or what it does not mean to.
load_inventory_raises(document, env, files, require_credentials) ==
    \/ ~ValidInventory(document)
    \/ \E n \in DOMAIN document.devices :
          device_raises(document, n, env, files, require_credentials)

\* Of what it raises, what no handler of main() takes: the files are read from the
\* top, and the first thing wrong counts.
load_inventory_uncaught(document, env, files, require_credentials) ==
    \/ document.text = "unreadable"
    \/ /\ document.text = "mapping"
       /\ \/ Unsortable(document.defaults, DEFAULTABLE_KEYS)
          \/ /\ check_keys(document.defaults, DEFAULTABLE_KEYS)
             /\ \E n \in DOMAIN document.devices :
                   /\ \A m \in DOMAIN document.devices : m < n =>
                         ~device_raises(document, m, env, files, require_credentials)
                   /\ device_uncaught(document, n, env, files, require_credentials)

\* Otherwise, the devices; one whose credentials cannot be resolved has none.
load_inventory(document, env, files) ==
    [n \in DOMAIN document.devices |->
        LET entry == merged(document, n) IN
        [name |-> entry.name, host |-> entry.host, tags |-> get(entry, "tags", {}),
         backup_command |-> BackupCommand(entry),
         extra_args |-> get(entry, "extra_args", << >>),
         credentials |-> Credentials(document, n, env, files)]]

netmiko_params_raises(device) == device.credentials = Nothing

\* Otherwise, what netmiko is given: extra_args go before everything else, and Nothing
\* stands for a parameter left out.
netmiko_params(device) ==
    update([host |-> device.host, username |-> device.credentials.username,
            key_file |-> device.credentials.key_file,
            password |-> device.credentials.password,
            secret |-> device.credentials.enable_secret],
           device.extra_args)

\* --device a,b and --device a --device b; blank parts are dropped.
split_csv(parts) == parts \ {""}

\* Mutant: a name that is not in the inventory is passed over.
filter_devices_raises_Never(devices, names) == FALSE

\* A name that no device has is an error; a tag is not.
filter_devices_raises(devices, names) ==
    ~ ({lower(n) : n \in names} \subseteq {lower(devices[i].name) : i \in DOMAIN devices})

\* "named a or b, and tagged edge".
filter_devices(devices, names, tags) ==
    LET Selected(d) ==
            /\ names = {} \/ lower(d.name) \in {lower(n) : n \in names}
            /\ tags = {} \/ {lower(t) : t \in tags} \cap {lower(t) : t \in d.tags} # {}
    IN  Sublist(devices, {n \in DOMAIN devices : Selected(devices[n])})

-----------------------------------------------------------------------------
(* The golden file.                                                         *)

RULE_KEYS == {"name", "description", "severity", "tags"} \cup MATCH_KEYS

\* A repetition too large for re.compile, an OverflowError and no re.error.
TooLarge == {"a{99999999999}"}

Compiles(raw) ==
    \A key \in {"required_regex", "forbidden_regex"} :
        LET patterns == get(raw, key, << >>)
        IN  \A n \in DOMAIN patterns : patterns[n] # TooLarge

\* What a rule must have before its patterns are compiled.
ValidRule(document, n) ==
    LET raw == document.rules[n] IN
    /\ check_keys(raw, RULE_KEYS)
    /\ get(raw, "name", "") # ""
    /\ \A m \in DOMAIN document.rules : m < n => document.rules[m].name # raw.name
    /\ DefinesChecks([key \in MATCH_KEYS |-> get(raw, key, << >>)])

load_golden_raises(document) ==
    \/ document.text # "mapping"
    \/ ~check_keys(document.defaults, {"severity", "tags"})
    \/ document.rules = << >>
    \/ \E n \in DOMAIN document.rules :
          ~(ValidRule(document, n) /\ Compiles(document.rules[n]))

\* Of what it raises, what is no GoldenError.
load_golden_uncaught(document) ==
    \/ document.text = "unreadable"
    \/ /\ document.text = "mapping"
       /\ \/ Unsortable(document.defaults, {"severity", "tags"})
          \/ /\ check_keys(document.defaults, {"severity", "tags"})
             /\ \E n \in DOMAIN document.rules :
                   /\ \A m \in DOMAIN document.rules :
                         m < n => ValidRule(document, m) /\ Compiles(document.rules[m])
                   /\ \/ Unsortable(document.rules[n], RULE_KEYS)
                      \/ ValidRule(document, n) /\ ~Compiles(document.rules[n])

\* Otherwise, the rules.
load_golden(document) ==
    [n \in DOMAIN document.rules |->
        LET raw == document.rules[n] IN
        update([key \in MATCH_KEYS |-> get(raw, key, << >>)],
               [name |-> raw.name,
                tags |-> get(raw, "tags", get(document.defaults, "tags", {})),
                severity |-> get(raw, "severity",
                                 get(document.defaults, "severity", "high"))])]
=============================================================================
