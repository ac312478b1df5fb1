-------------------------- MODULE CommandLineProofs --------------------------
(***************************************************************************)
(* What the run of the program promises before and after the devices, for   *)
(* every inventory, golden file, environment and command line: the secrets  *)
(* of all devices are there before the first is connected to, each device   *)
(* is given its own, and the exit code says what happened.                  *)
(***************************************************************************)
EXTENDS CommandLine, ListProofs

-----------------------------------------------------------------------------
(* The files.                                                               *)

\* What a device has for a key is its own value, or else that of the defaults.
LEMMA MergedValue ==
    ASSUME NEW document, NEW n, NEW key, NEW default
    PROVE  get(merged(document, n), key, default)
              = get(document.devices[n], key, get(document.defaults, key, default))
BY DEF get, merged, update

\* In an inventory that is accepted a device has a name and an address of its own.
LEMMA OwnNameAndHost ==
    ASSUME NEW document, ValidInventory(document), NEW n \in DOMAIN document.devices
    PROVE  /\ merged(document, n).name = document.devices[n].name
           /\ merged(document, n).host = document.devices[n].host
<1>1. "name" \notin DOMAIN document.defaults /\ "host" \notin DOMAIN document.defaults
  BY DEF ValidInventory, check_keys, DEFAULTABLE_KEYS
<1>2. "name" \in DOMAIN merged(document, n) /\ "host" \in DOMAIN merged(document, n)
  BY DEF ValidInventory, ValidEntry, Named, get
<1> QED
  BY <1>1, <1>2 DEF merged, update

-----------------------------------------------------------------------------
(* The credentials.                                                         *)

\* The variables after load_env_file are those of the shell, and under them those of
\* the .env file.
LEMMA VariablesAreSetBy ==
    ASSUME NEW variable
    PROVE  /\ get(LoadedEnv, variable, "") = SetBy(variable)
           /\ SetBy(variable) # "" => LoadedEnv[variable] = SetBy(variable)
BY DEF LoadedEnv, load_env_file, update, get, SetBy

\* The lookup with one prefix, and with two, of which the first goes first.
LEMMA LookupOfOne ==
    ASSUME NEW prefix, NEW suffix
    PROVE  lookup(LoadedEnv, <<prefix>>, suffix)
              = IF SetBy(<<prefix, suffix>>) = "" THEN Nothing
                ELSE <<prefix, suffix, SetBy(<<prefix, suffix>>)>>
<1> DEFINE list  == <<prefix>>
           set   == {i \in DOMAIN list : get(LoadedEnv, <<list[i], suffix>>, "") # ""}
           first == CHOOSE i \in set : \A j \in set : i <= j
<1>1. lookup(LoadedEnv, list, suffix)
         = IF set = {} THEN Nothing
           ELSE <<list[first], suffix, LoadedEnv[<<list[first], suffix>>]>>
  BY DEF lookup
<1>2. DOMAIN list = {1} /\ list[1] = prefix
  OBVIOUS
<1>3. set = IF SetBy(<<prefix, suffix>>) = "" THEN {} ELSE {1}
  <2> HIDE DEF list
  <2> QED
    BY <1>2, VariablesAreSetBy
<1>4. ASSUME set = {1}  PROVE first = 1
  <2> HIDE DEF set
  <2> QED
    BY <1>4
<1> HIDE DEF list, set, first
<1>5. CASE SetBy(<<prefix, suffix>>) = ""
  BY <1>1, <1>3, <1>5 DEF list
<1>6. CASE SetBy(<<prefix, suffix>>) # ""
  BY <1>1, <1>2, <1>3, <1>4, <1>6, VariablesAreSetBy DEF list
<1> QED
  BY <1>5, <1>6

\* With two prefixes the first that is set, and to something, counts.
LEMMA LookupOfTwo ==
    ASSUME NEW prefix, NEW other, NEW suffix
    PROVE  lookup(LoadedEnv, <<prefix, other>>, suffix)
              = IF SetBy(<<prefix, suffix>>) # ""
                THEN <<prefix, suffix, SetBy(<<prefix, suffix>>)>>
                ELSE IF SetBy(<<other, suffix>>) # ""
                THEN <<other, suffix, SetBy(<<other, suffix>>)>>
                ELSE Nothing
<1> DEFINE list  == <<prefix, other>>
           set   == {i \in DOMAIN list : get(LoadedEnv, <<list[i], suffix>>, "") # ""}
           first == CHOOSE i \in set : \A j \in set : i <= j
<1>1. lookup(LoadedEnv, list, suffix)
         = IF set = {} THEN Nothing
           ELSE <<list[first], suffix, LoadedEnv[<<list[first], suffix>>]>>
  BY DEF lookup
<1>2. DOMAIN list = {1, 2} /\ list[1] = prefix /\ list[2] = other
  OBVIOUS
<1>3. /\ set \subseteq {1, 2}
      /\ 1 \in set <=> SetBy(<<prefix, suffix>>) # ""
      /\ 2 \in set <=> SetBy(<<other, suffix>>) # ""
  <2> HIDE DEF list
  <2> QED
    BY <1>2, VariablesAreSetBy
<1>4. ASSUME set # {}  PROVE first = IF 1 \in set THEN 1 ELSE 2
  <2> HIDE DEF set
  <2>1. CASE 1 \in set
    <3>1. \A j \in set : 1 <= j
      <4>1. \A j \in set : j = 1 \/ j = 2
        BY <1>3
      <4> QED
        BY <4>1
    <3>2. first \in set /\ \A j \in set : first <= j
      BY <2>1, <3>1
    <3>3. first \in {1, 2} /\ first <= 1
      BY <1>3, <2>1, <3>2
    <3> QED
      BY <2>1, <3>3
  <2>2. CASE 1 \notin set
    <3>1. set = {2}
      BY <1>3, <1>4, <2>2
    <3> QED
      BY <2>2, <3>1
  <2> QED
    BY <2>1, <2>2
<1> HIDE DEF list, set, first
<1>5. CASE set = {}
  BY <1>1, <1>3, <1>5 DEF list
<1>6. CASE 1 \in set
  <2>1. first = 1
    BY <1>4, <1>6
  <2> QED
    BY <1>1, <1>2, <1>3, <1>6, <2>1, VariablesAreSetBy DEF list
<1>7. CASE 1 \notin set /\ 2 \in set
  <2>1. first = 2
    BY <1>4, <1>7
  <2> QED
    BY <1>1, <1>2, <1>3, <1>7, <2>1, VariablesAreSetBy DEF list
<1> QED
  BY <1>3, <1>5, <1>6, <1>7

\* The lookup of a variable finds the secret of the device.
LEMMA LookupFindsSecret ==
    ASSUME NEW n, NEW suffix,
           Profile(n) \in {""} \cup DOMAIN profile_to_env_prefix
    PROVE  lookup(LoadedEnv, Prefixes(Profile(n)), suffix) = Secret(n, suffix)
<1>1. CASE Profile(n) = ""
  <2>1. Prefixes(Profile(n)) = <<Common>> /\ Profile(n) \notin DOMAIN profile_to_env_prefix
    BY <1>1 DEF Prefixes, profile_to_env_prefix
  <2> QED
    BY <2>1, LookupOfOne DEF Secret
<1>2. CASE Profile(n) \in DOMAIN profile_to_env_prefix
  <2> DEFINE own == profile_to_env_prefix[Profile(n)]
  <2>1. Prefixes(Profile(n)) = <<own, Common>>
    BY <1>2 DEF Prefixes, profile_to_env_prefix
  <2>2. lookup(LoadedEnv, <<own, Common>>, suffix)
           = IF SetBy(<<own, suffix>>) # "" THEN <<own, suffix, SetBy(<<own, suffix>>)>>
             ELSE IF SetBy(<<Common, suffix>>) # ""
             THEN <<Common, suffix, SetBy(<<Common, suffix>>)>>
             ELSE Nothing
    BY LookupOfTwo
  <2> HIDE DEF own
  <2>3. CASE SetBy(<<own, suffix>>) # ""
    BY <1>2, <2>1, <2>2, <2>3 DEF Secret, own
  <2>4. CASE SetBy(<<own, suffix>>) = ""
    BY <1>2, <2>1, <2>2, <2>4 DEF Secret, own
  <2> QED
    BY <2>3, <2>4
<1> QED
  BY <1>1, <1>2

\* The profile and the key file of a device of the file.
LEMMA ProfileAndKey ==
    ASSUME files.inventory \in Inventories, files.inventory.text = "mapping",
           NEW n \in DOMAIN Listed
    PROVE  LET entry == merged(files.inventory, n) IN
           /\ get(entry, "credentials", "") = Profile(n)
           /\ Profile(n) \in {""} \cup Unusable \cup DOMAIN profile_to_env_prefix
           /\ Profile(n) \notin Unusable =>
                 /\ \A suffix : lookup(LoadedEnv, Prefixes(Profile(n)), suffix)
                                 = Secret(n, suffix)
                 /\ resolved_key(Profile(n), get(entry, "key_file", Nothing), LoadedEnv)
                       = Key(n)
<1> DEFINE entry == merged(files.inventory, n)
           own == get(entry, "key_file", Nothing)
<1>1. get(entry, "credentials", "") = Profile(n)
  <2>1. get(entry, "credentials", "")
           = get(files.inventory.devices[n], "credentials",
                 get(files.inventory.defaults, "credentials", ""))
    BY DEF get, merged, update
  <2> QED
    BY <2>1 DEF Profile, Listed
<1>2. own = get(Listed[n], "key_file", get(files.inventory.defaults, "key_file", Nothing))
  BY MergedValue DEF Listed
<1>3. Profile(n) \in {""} \cup Unusable \cup DOMAIN profile_to_env_prefix
  BY <1>1, DocumentsAssumption DEF Listed
<1> HIDE DEF own
<1>4. ASSUME Profile(n) \notin Unusable
      PROVE  /\ \A suffix : lookup(LoadedEnv, Prefixes(Profile(n)), suffix) = Secret(n, suffix)
             /\ resolved_key(Profile(n), own, LoadedEnv) = Key(n)
  <2>1. \A suffix : lookup(LoadedEnv, Prefixes(Profile(n)), suffix) = Secret(n, suffix)
    BY <1>3, <1>4, LookupFindsSecret
  <2> QED
    BY <1>2, <2>1 DEF Key, resolved_key
<1> QED
  BY <1>1, <1>3, <1>4 DEF own

\* What a login takes, for each device of an inventory, is what resolve returns, and
\* there is none exactly for the devices that are not resolvable.
LEMMA ResolvedCredentials ==
    ASSUME files.inventory \in Inventories, files.inventory.text = "mapping",
           NEW n \in DOMAIN Listed
    PROVE  Credentials(files.inventory, n, LoadedEnv, KeyFiles)
              = IF Resolvable(n)
                THEN [username |-> Secret(n, "USERNAME"), password |-> Secret(n, "PASSWORD"),
                      enable_secret |-> Secret(n, "ENABLE"), key_file |-> Key(n)]
                ELSE Nothing
<1> DEFINE own == get(merged(files.inventory, n), "key_file", Nothing)
           Get(suffix) == lookup(LoadedEnv, Prefixes(Profile(n)), suffix)
           key == resolved_key(Profile(n), own, LoadedEnv)
<1>1. Credentials(files.inventory, n, LoadedEnv, KeyFiles)
         = IF \/ Profile(n) \in Unusable
              \/ Get("USERNAME") = Nothing
              \/ key = Nothing /\ Get("PASSWORD") = Nothing
              \/ key # Nothing /\ key \notin KeyFiles
           THEN Nothing
           ELSE [username |-> Get("USERNAME"), password |-> Get("PASSWORD"),
                 enable_secret |-> Get("ENABLE"), key_file |-> key]
  BY ProfileAndKey DEF Credentials, resolve
<1>2. CASE Profile(n) \in Unusable
  BY <1>1, <1>2 DEF Resolvable
<1>3. CASE Profile(n) \notin Unusable
  <2>1. (\A suffix : Get(suffix) = Secret(n, suffix)) /\ key = Key(n)
    BY <1>3, ProfileAndKey
  <2> HIDE DEF key, Get
  <2> QED
    BY <1>1, <1>3, <2>1 DEF Resolvable
<1> QED
  BY <1>2, <1>3

\* A device whose login is refused, or whose key file is in nobody's home, is not
\* resolvable.
LEMMA NotResolvable ==
    ASSUME files.inventory \in Inventories, files.inventory.text = "mapping",
           NEW n \in DOMAIN Listed
    PROVE  /\ Refused(files.inventory, n, LoadedEnv, KeyFiles) <=> ~Resolvable(n)
           /\ Homeless(files.inventory, n, LoadedEnv) =>
                 /\ ~Resolvable(n)
                 /\ Profile(n) \notin Unusable /\ Secret(n, "USERNAME") # Nothing
                 /\ Key(n) # Nothing /\ Key(n)[3] = "~nobody"
<1>1. \A a, b, c, d :
         [username |-> a, password |-> b, enable_secret |-> c, key_file |-> d] # Nothing
  BY DEF Nothing
<1> DEFINE login == [username |-> Secret(n, "USERNAME"), password |-> Secret(n, "PASSWORD"),
                     enable_secret |-> Secret(n, "ENABLE"), key_file |-> Key(n)]
<1>2. Credentials(files.inventory, n, LoadedEnv, KeyFiles)
         = IF Resolvable(n) THEN login ELSE Nothing
  BY ResolvedCredentials
<1>3. login # Nothing
  BY <1>1
<1> HIDE DEF login
<1>4. Refused(files.inventory, n, LoadedEnv, KeyFiles) <=> ~Resolvable(n)
  BY <1>2, <1>3 DEF Refused
<1>5. ASSUME Homeless(files.inventory, n, LoadedEnv)
      PROVE  /\ ~Resolvable(n)
             /\ Profile(n) \notin Unusable /\ Secret(n, "USERNAME") # Nothing
             /\ Key(n) # Nothing /\ Key(n)[3] = "~nobody"
  <2>1. /\ Profile(n) \notin Unusable /\ Secret(n, "USERNAME") # Nothing
        /\ expanduser_raises(Key(n))
    BY <1>5, ProfileAndKey DEF Homeless, resolve_uncaught
  <2>2. Key(n) \notin KeyFiles
    BY <2>1, KeyFilesAssumption
  <2> QED
    BY <2>1, <2>2 DEF expanduser_raises, Resolvable
<1> QED
  BY <1>4, <1>5

-----------------------------------------------------------------------------
(* The devices of a run.                                                    *)

\* The places of the devices --device and --tag leave.
Matching(n) ==
    \/ split_csv(options.device) = {}
    \/ lower(Listed[n].name) \in {lower(name) : name \in split_csv(options.device)}
Tagged(n) ==
    \/ split_csv(options.tag) = {}
    \/ {lower(t) : t \in split_csv(options.tag)}
          \cap {lower(t) : t \in get(merged(files.inventory, n), "tags", {})} # {}
Kept == {n \in DOMAIN Listed : Matching(n) /\ Tagged(n)}

\* Whatever the secrets, filter_devices leaves the devices at these places.
LEMMA FilterKeeps ==
    ASSUME ValidInventory(files.inventory), NEW env
    PROVE  filter_devices(load_inventory(files.inventory, env, KeyFiles),
                          split_csv(options.device), split_csv(options.tag))
              = Sublist(load_inventory(files.inventory, env, KeyFiles), Kept)
<1> DEFINE all == load_inventory(files.inventory, env, KeyFiles)
<1>1. /\ DOMAIN all = DOMAIN Listed
      /\ \A n \in DOMAIN Listed :
            /\ all[n].name = Listed[n].name
            /\ all[n].tags = get(merged(files.inventory, n), "tags", {})
  BY OwnNameAndHost DEF load_inventory, Listed
<1> HIDE DEF all
<1>2. filter_devices(all, split_csv(options.device), split_csv(options.tag))
         = Sublist(all, {n \in DOMAIN all :
              /\ \/ split_csv(options.device) = {}
                 \/ lower(all[n].name) \in {lower(name) : name \in split_csv(options.device)}
              /\ \/ split_csv(options.tag) = {}
                 \/ {lower(t) : t \in split_csv(options.tag)}
                       \cap {lower(t) : t \in all[n].tags} # {}})
  BY DEF filter_devices
<1>3. Kept = {n \in DOMAIN all :
              /\ \/ split_csv(options.device) = {}
                 \/ lower(all[n].name) \in {lower(name) : name \in split_csv(options.device)}
              /\ \/ split_csv(options.tag) = {}
                 \/ {lower(t) : t \in split_csv(options.tag)}
                       \cap {lower(t) : t \in all[n].tags} # {}}
  BY <1>1 DEF Kept, Matching, Tagged
<1> QED
  BY <1>2, <1>3 DEF all

\* The list of an inventory that is accepted has the places from 1 on.
LEMMA ListedPlaces ==
    ASSUME files.inventory \in Inventories, ValidInventory(files.inventory)
    PROVE  /\ files.inventory.text = "mapping"
           /\ Len(Listed) \in Nat /\ DOMAIN Listed = 1..Len(Listed)
           /\ Kept \in SUBSET (1..Len(Listed))
BY DocumentsAssumption, ListPlaces DEF ValidInventory, Listed, Kept

\* The devices a run works on are those of the file at these places.
LEMMA DevicesOfRun ==
    ASSUME PlaceInv, DevicesInv, devices # << >>
    PROVE  /\ files.inventory \in Inventories /\ ValidInventory(files.inventory)
           /\ files.inventory.text = "mapping"
           /\ DOMAIN devices = 1..Cardinality(Kept) /\ Cardinality(Kept) \in Nat \ {0}
           /\ \A k \in DOMAIN devices :
                 /\ Place(Kept, k) \in Kept /\ Place(Kept, k) \in DOMAIN Listed
                 /\ devices[k] = Inventory[Place(Kept, k)]
<1>1. files.inventory \in Inventories /\ ValidInventory(files.inventory)
  BY DEF PlaceInv, DevicesInv, LoadRaises, load_inventory_raises
<1>2. devices = Sublist(Inventory, Kept)
  BY <1>1, FilterKeeps DEF DevicesInv, Chosen, Inventory
<1>3. /\ files.inventory.text = "mapping"
      /\ Cardinality(Kept) \in Nat
      /\ \A k \in 1..Cardinality(Kept) : Place(Kept, k) \in Kept
  BY <1>1, ListedPlaces, PlacesInOrder
<1>4. /\ DOMAIN devices = 1..Cardinality(Kept)
      /\ \A k \in 1..Cardinality(Kept) : devices[k] = Inventory[Place(Kept, k)]
  BY <1>2, SublistTakes
<1>5. Cardinality(Kept) # 0
  <2>1. SUFFICES ASSUME Cardinality(Kept) = 0  PROVE FALSE
    OBVIOUS
  <2>2. devices = [k \in {} |-> Inventory[Place(Kept, k)]]
    BY <1>2, <2>1 DEF Sublist, Place, Before
  <2> QED
    BY <2>2
<1>6. Kept \subseteq DOMAIN Listed
  BY DEF Kept
<1> QED
  BY <1>1, <1>3, <1>4, <1>5, <1>6

\* A device of the file as it is loaded.
LEMMA DeviceLoaded ==
    ASSUME files.inventory \in Inventories, ValidInventory(files.inventory),
           NEW n \in DOMAIN Listed
    PROVE  /\ Inventory[n].name = Listed[n].name
           /\ Inventory[n].host = Listed[n].host
           /\ Inventory[n].extra_args = get(merged(files.inventory, n), "extra_args", << >>)
           /\ Inventory[n].backup_command = BackupCommand(merged(files.inventory, n))
           /\ Inventory[n].credentials
                 = IF Resolvable(n)
                   THEN [username |-> Secret(n, "USERNAME"),
                         password |-> Secret(n, "PASSWORD"),
                         enable_secret |-> Secret(n, "ENABLE"), key_file |-> Key(n)]
                   ELSE Nothing
<1>1. Credentials(files.inventory, n, LoadedEnv, KeyFiles)
         = IF Resolvable(n)
           THEN [username |-> Secret(n, "USERNAME"), password |-> Secret(n, "PASSWORD"),
                 enable_secret |-> Secret(n, "ENABLE"), key_file |-> Key(n)]
           ELSE Nothing
  BY ListedPlaces, ResolvedCredentials
<1> DEFINE creds == Credentials(files.inventory, n, LoadedEnv, KeyFiles)
<1>2. Inventory[n]
         = [name |-> merged(files.inventory, n).name, host |-> merged(files.inventory, n).host,
            tags |-> get(merged(files.inventory, n), "tags", {}),
            backup_command |-> BackupCommand(merged(files.inventory, n)),
            extra_args |-> get(merged(files.inventory, n), "extra_args", << >>),
            credentials |-> creds]
  BY DEF Inventory, load_inventory, Listed
<1>3. /\ merged(files.inventory, n).name = Listed[n].name
      /\ merged(files.inventory, n).host = Listed[n].host
  BY OwnNameAndHost DEF Listed
<1> HIDE DEF creds
<1> QED
  BY <1>1, <1>2, <1>3 DEF creds

\* A device has credentials exactly when it is resolvable, and in a mode that needs
\* them each device of the file is.
LEMMA CredentialsAreThere ==
    ASSUME PlaceInv, DevicesInv, devices # << >>
    PROVE  /\ \A n \in DOMAIN Listed : Inventory[n].credentials = Nothing <=> ~Resolvable(n)
           /\ needs_credentials =>
                 /\ \A n \in DOMAIN Listed : Resolvable(n)
                 /\ \A k \in DOMAIN devices : devices[k].credentials # Nothing
<1>1. /\ files.inventory \in Inventories /\ ValidInventory(files.inventory)
      /\ files.inventory.text = "mapping"
      /\ \A k \in DOMAIN devices : /\ Place(Kept, k) \in DOMAIN Listed
                                   /\ devices[k] = Inventory[Place(Kept, k)]
  BY DevicesOfRun
<1>2. ASSUME NEW n \in DOMAIN Listed
      PROVE  /\ Inventory[n].credentials = Nothing <=> ~Resolvable(n)
             /\ Inventory[n].credentials = Credentials(files.inventory, n, LoadedEnv, KeyFiles)
  <2>1. \A a, b, c, d :
           [username |-> a, password |-> b, enable_secret |-> c, key_file |-> d] # Nothing
    BY DEF Nothing
  <2> DEFINE login == [username |-> Secret(n, "USERNAME"), password |-> Secret(n, "PASSWORD"),
                       enable_secret |-> Secret(n, "ENABLE"), key_file |-> Key(n)]
  <2>2. Inventory[n].credentials = IF Resolvable(n) THEN login ELSE Nothing
    BY <1>1, DeviceLoaded
  <2>3. Credentials(files.inventory, n, LoadedEnv, KeyFiles)
           = IF Resolvable(n) THEN login ELSE Nothing
    BY <1>1, ResolvedCredentials
  <2>4. login # Nothing
    BY <2>1
  <2> HIDE DEF login
  <2> QED
    BY <2>2, <2>3, <2>4
<1>3. ASSUME needs_credentials
      PROVE  \A n \in DOMAIN Listed : Resolvable(n)
  <2>1. \A n \in DOMAIN Listed : Credentials(files.inventory, n, LoadedEnv, KeyFiles) # Nothing
    BY <1>3
       DEF DevicesInv, LoadRaises, load_inventory_raises, device_raises, Refused, Listed
  <2> QED
    BY <1>2, <2>1
<1> QED
  BY <1>1, <1>2, <1>3

-----------------------------------------------------------------------------
(* The inductive invariant.                                                 *)

\* What the files and the options give stays what it is.
LEMMA SameFiles ==
    ASSUME UNCHANGED <<options, files>>
    PROVE  /\ LoadedEnv' = LoadedEnv /\ Inventory' = Inventory /\ Chosen' = Chosen
           /\ needs_credentials' = needs_credentials /\ LoadRaises' = LoadRaises
           /\ BadOptions' = BadOptions /\ NoEnvFile' = NoEnvFile
           /\ LoadUncaught' = LoadUncaught /\ UnreadableEnv' = UnreadableEnv
BY DEF LoadedEnv, Inventory, Chosen, needs_credentials, LoadRaises, LoadUncaught,
       BadOptions, NoEnvFile, UnreadableEnv

\* What was given to the devices stays so while the devices and the options do.
LEMMA SameContacts ==
    ASSUME UNCHANGED <<options, devices>>
    PROVE  {[name |-> devices[n].name, params |-> netmiko_params(devices[n]),
             commands |-> Commands(devices[n])] : n \in DOMAIN devices}'
           = {[name |-> devices[n].name, params |-> netmiko_params(devices[n]),
               commands |-> Commands(devices[n])] : n \in DOMAIN devices}
BY DEF Commands

\* The program starts in a state of the invariant.
LEMMA InitInv == Init => IInv
<1> SUFFICES ASSUME Init PROVE IInv
  OBVIOUS
<1>1. PlaceInv
  BY DEF Init, PlaceInv, Places
<1>2. DevicesInv
  BY DEF Init, DevicesInv, Loaded
<1>3. ContactedInv
  BY DEF Init, ContactedInv
<1>4. RulesInv /\ StdoutInv /\ ExitInv
  BY DEF Init, RulesInv, StdoutInv, ExitInv, Nothing
<1> QED
  BY <1>1, <1>2, <1>3, <1>4 DEF IInv

\* Before the devices are loaded only the place, the variables and the exit code move.
LEMMA CheckOptionsKeepsInv == IInv /\ CheckOptions => IInv'
<1> SUFFICES ASSUME IInv, CheckOptions PROVE IInv'
  OBVIOUS
<1> USE SameFiles DEF IInv, CheckOptions, Exit, Go, loaded, told
<1>1. PlaceInv'
  BY DEF PlaceInv, Places
<1>2. DevicesInv'
  BY DEF DevicesInv, Loaded
<1>3. ContactedInv'
  BY DEF ContactedInv, DevicesInv
<1>4. RulesInv'
  BY DEF RulesInv
<1>5. StdoutInv'
  BY DEF StdoutInv
<1>6. ExitInv'
  BY DEF ExitInv, ContactedInv
<1> QED
  BY <1>1, <1>2, <1>3, <1>4, <1>5, <1>6

\* The .env file is read once, over the variables of the shell.
LEMMA LoadEnvironmentKeepsInv == IInv /\ LoadEnvironment => IInv'
<1> SUFFICES ASSUME IInv, LoadEnvironment PROVE IInv'
  OBVIOUS
<1> USE SameFiles DEF IInv, LoadEnvironment, Exit, Go, told
<1>1. PlaceInv'
  BY DEF PlaceInv, Places, LoadedEnv
<1>2. DevicesInv'
  BY DEF DevicesInv, Loaded
<1>3. ContactedInv'
  BY DEF ContactedInv, DevicesInv
<1>4. RulesInv'
  BY DEF RulesInv
<1>5. StdoutInv'
  BY DEF StdoutInv
<1>6. ExitInv'
  BY DEF ExitInv, ContactedInv
<1> QED
  BY <1>1, <1>2, <1>3, <1>4, <1>5, <1>6

\* The devices are loaded from the variables, and the run goes where its mode takes it.
LEMMA LoadDevicesKeepsInv == IInv /\ LoadDevices => IInv'
<1> SUFFICES ASSUME IInv, LoadDevices PROVE IInv'
  OBVIOUS
<1> USE SameFiles DEF IInv
<1>1. /\ pc = "load" /\ environ = LoadedEnv /\ devices = << >> /\ contacted = {}
      /\ rules = << >> /\ stdout = Nothing /\ exit = -1
  BY DEF LoadDevices, PlaceInv, DevicesInv, ContactedInv, RulesInv, StdoutInv
<1>2. /\ devices' = IF LoadRaises THEN devices ELSE Chosen
      /\ UNCHANGED <<options, files, environ, rules, contacted, unanswered, stdout>>
      /\ \/ LoadRaises /\ LoadUncaught /\ Exit(3)
         \/ LoadRaises /\ ~LoadUncaught /\ Exit(2)
         \/ /\ ~LoadRaises
            /\ Go(CASE options.mode = "list" -> "list"
                    [] options.mode = "check" /\ ~options.live -> "golden"
                    [] OTHER -> "collect")
  BY <1>1 DEF LoadDevices, LoadRaises, LoadUncaught, Inventory, Chosen, told
<1>4. ~LoadRaises => Chosen # << >>
  BY DEF LoadRaises
<1>5. options.mode \in Modes /\ options.live \in BOOLEAN
  BY RequestsAssumption DEF PlaceInv
<1> HIDE DEF IInv
<1>6. PlaceInv'
  BY <1>1, <1>2, <1>5 DEF IInv, PlaceInv, Places, Exit, Go, Modes, needs_credentials
<1>7. DevicesInv'
  BY <1>1, <1>2, <1>4 DEF DevicesInv, Loaded, Exit, Go
<1>8. ContactedInv'
  <2>1. contacted' = {} /\ unanswered' = {}
    BY <1>1, <1>2 DEF IInv, ContactedInv
  <2>2. pc' \in {"golden", "report", "test"} => ~needs_credentials'
    BY <1>2 DEF Exit, Go, needs_credentials
  <2> QED
    BY <2>1, <2>2 DEF ContactedInv
<1>9. RulesInv'
  BY <1>1, <1>2 DEF RulesInv, Exit, Go
<1>10. StdoutInv'
  BY <1>1, <1>2 DEF StdoutInv
<1>11. ExitInv'
  BY <1>1, <1>2, <1>4 DEF ExitInv, Exit, Go
<1> QED
  BY <1>6, <1>7, <1>8, <1>9, <1>10, <1>11 DEF IInv

\* Everything stays where it was when the run ends after the devices were loaded.
LEMMA ListDevicesKeepsInv == IInv /\ ListDevices => IInv'
<1> SUFFICES ASSUME IInv, ListDevices PROVE IInv'
  OBVIOUS
<1> USE SameFiles DEF IInv, ListDevices, Exit, loaded
<1>1. pc = "list" /\ options.mode = "list" /\ devices # << >> /\ contacted = {}
  BY DEF PlaceInv, DevicesInv, ContactedInv, Loaded
<1>2. PlaceInv'
  BY <1>1 DEF PlaceInv, Places
<1>3. DevicesInv'
  BY <1>1 DEF DevicesInv, Loaded
<1>4. ContactedInv'
  BY <1>1 DEF ContactedInv
<1>5. RulesInv'
  BY <1>1 DEF RulesInv
<1>6. StdoutInv'
  BY <1>1 DEF StdoutInv
<1>7. ExitInv'
  BY <1>1 DEF ExitInv, RulesInv
<1> QED
  BY <1>2, <1>3, <1>4, <1>5, <1>6, <1>7

\* Each device of the run is given what its login takes, for all have credentials.
LEMMA CollectKeepsInv == IInv /\ Collect => IInv'
<1> SUFFICES ASSUME IInv, Collect PROVE IInv'
  OBVIOUS
<1> USE SameFiles DEF IInv
<1> DEFINE Contact(n) == [name |-> devices[n].name, params |-> netmiko_params(devices[n]),
                          commands |-> Commands(devices[n])]
<1>1. /\ pc = "collect" /\ options.mode # "list" /\ needs_credentials
      /\ devices # << >> /\ contacted = {} /\ rules = << >> /\ stdout = Nothing
      /\ exit = -1 /\ ~BadOptions
  BY DEF Collect, PlaceInv, DevicesInv, ContactedInv, RulesInv, StdoutInv, Loaded
<1>2. \A n \in DOMAIN devices : ~netmiko_params_raises(devices[n])
  BY <1>1, CredentialsAreThere DEF netmiko_params_raises
<1>3. /\ contacted' = {Contact(n) : n \in DOMAIN devices}
      /\ unanswered' \subseteq {devices[n].name : n \in DOMAIN devices}
      /\ pc' = CASE options.mode = "check" -> "golden"
                 [] options.mode = "test" -> "test"
                 [] options.mode = "backup" -> "report"
      /\ UNCHANGED <<options, files, environ, devices, rules, stdout, exit>>
  BY <1>2 DEF Collect, Go, loaded
<1>4. 1 \in DOMAIN devices
  BY <1>1, DevicesOfRun
<1>5. options.mode \in Modes
  BY RequestsAssumption DEF PlaceInv
<1>6. PlaceInv'
  BY <1>1, <1>3, <1>5 DEF PlaceInv, Places, Modes
<1>7. DevicesInv'
  BY <1>1, <1>3, <1>5 DEF DevicesInv, Loaded, Modes
<1>8. ContactedInv'
  <2>1. contacted' # {}
    BY <1>3, <1>4
  <2>2. contacted' = {[name |-> devices[n].name, params |-> netmiko_params(devices[n]),
                       commands |-> Commands(devices[n])] : n \in DOMAIN devices}'
    BY <1>3, SameContacts
  <2>3. pc' \notin {"options", "environment", "load", "list", "collect"}
    BY <1>3, <1>1, <1>5 DEF Modes
  <2>4. unanswered' \subseteq {devices'[n].name : n \in DOMAIN devices'}
    BY <1>3
  <2>5. devices' # << >> /\ ~BadOptions' /\ needs_credentials' /\ options'.mode # "list"
    BY <1>1, <1>3
  <2> QED
    BY <2>1, <2>2, <2>3, <2>4, <2>5 DEF ContactedInv
<1>9. RulesInv'
  BY <1>1, <1>3, <1>5 DEF RulesInv, Modes
<1>10. StdoutInv'
  BY <1>1, <1>3 DEF StdoutInv
<1>11. ExitInv'
  BY <1>1, <1>3 DEF ExitInv
<1> QED
  BY <1>6, <1>7, <1>8, <1>9, <1>10, <1>11

\* The results of --test-connection are told, and the exit code follows from them.
LEMMA ReportTestKeepsInv == IInv /\ ReportTest => IInv'
<1> SUFFICES ASSUME IInv, ReportTest PROVE IInv'
  OBVIOUS
<1> USE SameFiles DEF IInv
<1>1. /\ pc = "test" /\ options.mode = "test" /\ devices # << >> /\ rules = << >>
      /\ needs_credentials /\ contacted # {}
  BY DEF ReportTest, PlaceInv, DevicesInv, ContactedInv, RulesInv, Loaded, needs_credentials
<1>2. /\ UNCHANGED <<options, files, environ, devices, rules, contacted, unanswered>>
      /\ stdout' = results_to_json(devices, unanswered)
      /\ pc' = "exited"
      /\ exit' = IF \A n \in DOMAIN devices : devices[n].name \notin unanswered THEN 0 ELSE 1
  BY DEF ReportTest, Exit, loaded
<1>3. PlaceInv'
  BY <1>1, <1>2 DEF PlaceInv, Places
<1>4. DevicesInv'
  BY <1>1, <1>2 DEF DevicesInv, Loaded
<1>5. ContactedInv'
  BY <1>1, <1>2, SameContacts DEF ContactedInv
<1>6. RulesInv'
  BY <1>1, <1>2 DEF RulesInv
<1>7. StdoutInv'
  BY <1>1, <1>2 DEF StdoutInv
<1>8. ExitInv'
  <2>1. exit' = 0 => unanswered' = {}
    BY <1>2 DEF ContactedInv
  <2>2. exit' \in {0, 1} /\ contacted' # {}
    BY <1>1, <1>2
  <2> QED
    BY <2>1, <2>2 DEF ExitInv
<1> QED
  BY <1>3, <1>4, <1>5, <1>6, <1>7, <1>8

\* A golden file that load_golden returns has a rule.
LEMMA RulesAreThere ==
    ASSUME files.golden \in Goldens, ~load_golden_raises(files.golden)
    PROVE  /\ files.golden.text = "mapping"
           /\ Len(files.golden.rules) \in Nat \ {0}
           /\ DOMAIN files.golden.rules = 1..Len(files.golden.rules)
           /\ DOMAIN load_golden(files.golden) = 1..Len(files.golden.rules)
           /\ load_golden(files.golden) # << >>
<1>1. /\ files.golden.text = "mapping" /\ files.golden.rules # << >>
      /\ IsList(files.golden.rules)
  BY DocumentsAssumption DEF load_golden_raises
<1>2. /\ Len(files.golden.rules) \in Nat \ {0}
      /\ DOMAIN files.golden.rules = 1..Len(files.golden.rules)
  BY <1>1, EmptySeq, ListPlaces DEF IsList
<1>3. DOMAIN load_golden(files.golden) = DOMAIN files.golden.rules
  BY DEF load_golden
<1>4. 1 \in DOMAIN load_golden(files.golden)
  BY <1>2, <1>3
<1>5. \A list : 1 \in DOMAIN list => list # << >>
  OBVIOUS
<1> QED
  BY <1>1, <1>2, <1>3, <1>4, <1>5

\* The rules are loaded, or the run ends.
LEMMA LoadGoldenKeepsInv == IInv /\ LoadGolden => IInv'
<1> SUFFICES ASSUME IInv, LoadGolden PROVE IInv'
  OBVIOUS
<1> USE SameFiles DEF IInv
<1>1. /\ pc = "golden" /\ options.mode = "check" /\ devices # << >> /\ rules = << >>
      /\ stdout = Nothing /\ exit = -1 /\ files.golden \in Goldens
  BY DEF LoadGolden, PlaceInv, DevicesInv, RulesInv, StdoutInv, Loaded
<1>2. /\ UNCHANGED <<options, files, environ, devices, contacted, unanswered, stdout>>
      /\ \/ /\ load_golden_raises(files.golden) /\ pc' = "exited" /\ rules' = rules
            /\ exit' = IF load_golden_uncaught(files.golden) THEN 3 ELSE 2
         \/ /\ ~load_golden_raises(files.golden) /\ pc' = "report" /\ exit' = exit
            /\ rules' = load_golden(files.golden)
  BY DEF LoadGolden, Exit, Go, told
<1>3. PlaceInv'
  BY <1>1, <1>2 DEF PlaceInv, Places
<1>4. DevicesInv'
  BY <1>1, <1>2 DEF DevicesInv, Loaded
<1>5. ContactedInv'
  BY <1>1, <1>2, SameContacts DEF ContactedInv
<1>6. RulesInv'
  BY <1>1, <1>2, RulesAreThere DEF RulesInv
<1>7. StdoutInv'
  BY <1>1, <1>2 DEF StdoutInv
<1>8. ExitInv'
  BY <1>1, <1>2 DEF ExitInv
<1> QED
  BY <1>3, <1>4, <1>5, <1>6, <1>7, <1>8

\* The backups or the audit end the run with one of their codes.
LEMMA ReportKeepsInv == IInv /\ Report => IInv'
<1> SUFFICES ASSUME IInv, Report PROVE IInv'
  OBVIOUS
<1> USE SameFiles DEF IInv
<1>1. /\ pc = "report" /\ options.mode \in {"backup", "check"} /\ devices # << >>
      /\ stdout = Nothing
  BY DEF Report, PlaceInv, DevicesInv, StdoutInv, Loaded
<1>2. contacted # {} \/ rules # << >>
  BY <1>1 DEF ContactedInv, RulesInv, needs_credentials
<1>3. /\ UNCHANGED <<options, files, environ, devices, rules, contacted, unanswered, stdout>>
      /\ pc' = "exited" /\ exit' \in {0, 1, 2, 3}
      /\ exit' = 0 => unanswered = {}
      /\ exit' = 2 => options.mode = "check"
  BY DEF Report, Exit, loaded, told
<1>4. PlaceInv'
  BY <1>1, <1>3 DEF PlaceInv, Places
<1>5. DevicesInv'
  BY <1>1, <1>3 DEF DevicesInv, Loaded
<1>6. ContactedInv'
  BY <1>1, <1>3, SameContacts DEF ContactedInv
<1>7. RulesInv'
  BY <1>1, <1>3 DEF RulesInv
<1>8. StdoutInv'
  BY <1>1, <1>3 DEF StdoutInv
<1>9. ExitInv'
  BY <1>1, <1>2, <1>3 DEF ExitInv
<1> QED
  BY <1>4, <1>5, <1>6, <1>7, <1>8, <1>9

\* Ctrl-C, or no step at all, changes nothing of what was loaded or told.
LEMMA InterruptKeepsInv == IInv /\ (Interrupt \/ UNCHANGED vars) => IInv'
<1> SUFFICES ASSUME IInv, Interrupt \/ UNCHANGED vars PROVE IInv'
  OBVIOUS
<1> USE SameFiles DEF IInv
<1>1. /\ UNCHANGED <<options, files, environ, devices, rules, contacted, unanswered, stdout>>
      /\ \/ pc # "exited" /\ pc' = "exited" /\ exit' = 130
         \/ UNCHANGED <<pc, exit>>
  BY DEF Interrupt, Exit, loaded, told, vars
<1>2. PlaceInv'
  BY <1>1 DEF PlaceInv, Places
<1>3. DevicesInv'
  BY <1>1 DEF DevicesInv, Loaded
<1>4. ContactedInv'
  BY <1>1, SameContacts DEF ContactedInv
<1>5. RulesInv'
  BY <1>1 DEF RulesInv
<1>6. StdoutInv'
  BY <1>1 DEF StdoutInv
<1>7. ExitInv'
  BY <1>1 DEF ExitInv
<1> QED
  BY <1>2, <1>3, <1>4, <1>5, <1>6, <1>7

\* Each variable is, at every place of main() and after it, what the files and the
\* options give.
THEOREM Invariance == Spec => []IInv
<1>1. IInv /\ [Next]_vars => IInv'
  BY CheckOptionsKeepsInv, LoadEnvironmentKeepsInv, LoadDevicesKeepsInv,
     ListDevicesKeepsInv, CollectKeepsInv, ReportTestKeepsInv, LoadGoldenKeepsInv,
     ReportKeepsInv, InterruptKeepsInv DEF Next
<1> QED
  BY <1>1, InitInv, PTL DEF Spec

-----------------------------------------------------------------------------
(* What the run promises.                                                   *)

\* A device that is connected to is one of the file, and is given its own login.
LEMMA ContactIsListed ==
    ASSUME IInv, NEW c \in contacted
    PROVE  /\ files.inventory \in Inventories /\ ValidInventory(files.inventory)
           /\ \E m \in DOMAIN Listed :
                 /\ c.name = Listed[m].name
                 /\ c.params = netmiko_params(Inventory[m])
                 /\ Resolvable(m)
<1>1. /\ devices # << >> /\ needs_credentials
      /\ contacted = {[name |-> devices[n].name, params |-> netmiko_params(devices[n]),
                        commands |-> Commands(devices[n])] : n \in DOMAIN devices}
  BY DEF IInv, ContactedInv
<1>2. /\ files.inventory \in Inventories /\ ValidInventory(files.inventory)
      /\ \A n \in DOMAIN devices : /\ Place(Kept, n) \in DOMAIN Listed
                                   /\ devices[n] = Inventory[Place(Kept, n)]
  BY <1>1, DevicesOfRun DEF IInv
<1>3. PICK n \in DOMAIN devices :
         c = [name |-> devices[n].name, params |-> netmiko_params(devices[n]),
              commands |-> Commands(devices[n])]
  BY <1>1
<1>4. Place(Kept, n) \in DOMAIN Listed /\ devices[n] = Inventory[Place(Kept, n)]
  BY <1>2
<1>5. Inventory[Place(Kept, n)].name = Listed[Place(Kept, n)].name
  BY <1>2, <1>4, DeviceLoaded
<1>6. Resolvable(Place(Kept, n))
  BY <1>1, <1>4, CredentialsAreThere DEF IInv
<1>7. c.name = devices[n].name /\ c.params = netmiko_params(devices[n])
  BY <1>3
<1> QED
  BY <1>1, <1>2, <1>4, <1>5, <1>6, <1>7

\* A contact is made only in a mode that needs the secrets, after all were resolved.
LEMMA InvFailsFirst == IInv => SecretsFailFirst
BY CredentialsAreThere DEF IInv, ContactedInv, SecretsFailFirst

\* SecretsFailFirst: when a device is connected to, every device of the file has what
\* its login takes (inventory.py:137-138).
THEOREM SecretsTheorem == Spec => []SecretsFailFirst
BY InvFailsFirst, Invariance, PTL

\* What netmiko is given for a parameter: what extra_args say, or the device's value.
LEMMA ParamsOfDevice ==
    ASSUME NEW device, NEW h, NEW u, NEW k, NEW p, NEW e,
           device.host = h,
           device.credentials = [username |-> u, password |-> p, enable_secret |-> e,
                                 key_file |-> k]
    PROVE  /\ netmiko_params(device)["host"] = get(device.extra_args, "host", h)
           /\ netmiko_params(device)["username"] = get(device.extra_args, "username", u)
           /\ netmiko_params(device)["password"] = get(device.extra_args, "password", p)
           /\ netmiko_params(device)["key_file"] = get(device.extra_args, "key_file", k)
           /\ netmiko_params(device)["secret"] = get(device.extra_args, "secret", e)
<1> DEFINE own == [host |-> h, username |-> u, key_file |-> k, password |-> p, secret |-> e]
<1>1. netmiko_params(device) = update(own, device.extra_args)
  BY DEF netmiko_params
<1>2. /\ DOMAIN own = {"host", "username", "key_file", "password", "secret"}
      /\ own["host"] = h /\ own["username"] = u /\ own["key_file"] = k
      /\ own["password"] = p /\ own["secret"] = e
  OBVIOUS
<1> HIDE DEF own
<1>3. \A key \in DOMAIN own :
         update(own, device.extra_args)[key] = get(device.extra_args, key, own[key])
  BY DEF update, get
<1> QED
  BY <1>1, <1>2, <1>3

\* A contact is a device of the file, with what its login resolves to.
LEMMA InvSecretsAreOwn == IInv => SecretsAreOwn
<1> SUFFICES ASSUME IInv, NEW c \in contacted
             PROVE  \E m \in DOMAIN Listed :
                LET extra == get(merged(files.inventory, m), "extra_args", << >>)
                    Is(parameter, value) == c.params[parameter] = get(extra, parameter, value)
                IN  /\ Listed[m].name = c.name
                    /\ Is("host", Listed[m].host)
                    /\ Is("username", Secret(m, "USERNAME"))
                    /\ Is("password", Secret(m, "PASSWORD"))
                    /\ Is("key_file", Key(m))
                    /\ Is("secret", Secret(m, "ENABLE"))
  BY DEF SecretsAreOwn
<1>1. files.inventory \in Inventories /\ ValidInventory(files.inventory)
  BY ContactIsListed
<1>2. PICK m \in DOMAIN Listed : /\ c.name = Listed[m].name
                                /\ c.params = netmiko_params(Inventory[m])
                                /\ Resolvable(m)
  BY ContactIsListed
<1>3. /\ Inventory[m].host = Listed[m].host
      /\ Inventory[m].extra_args = get(merged(files.inventory, m), "extra_args", << >>)
      /\ Inventory[m].credentials
            = [username |-> Secret(m, "USERNAME"), password |-> Secret(m, "PASSWORD"),
               enable_secret |-> Secret(m, "ENABLE"), key_file |-> Key(m)]
  BY <1>1, <1>2, DeviceLoaded
<1>4. /\ c.params["host"] = get(Inventory[m].extra_args, "host", Listed[m].host)
      /\ c.params["username"]
            = get(Inventory[m].extra_args, "username", Secret(m, "USERNAME"))
      /\ c.params["password"]
            = get(Inventory[m].extra_args, "password", Secret(m, "PASSWORD"))
      /\ c.params["key_file"] = get(Inventory[m].extra_args, "key_file", Key(m))
      /\ c.params["secret"] = get(Inventory[m].extra_args, "secret", Secret(m, "ENABLE"))
  BY <1>2, <1>3, ParamsOfDevice
<1> QED
  BY <1>2, <1>3, <1>4

\* SecretsAreOwn: a device is given the secrets of its profile, or the common ones, and
\* of no other (credentials.py:8-16).
THEOREM OwnSecretsTheorem == Spec => []SecretsAreOwn
BY InvSecretsAreOwn, Invariance, PTL

\* What is loaded was accepted, and what was accepted has known keys only.
LEMMA InvRefusesTypos == IInv => TypoIsRefused
<1> SUFFICES ASSUME IInv PROVE TypoIsRefused
  OBVIOUS
<1>1. ASSUME Loaded
      PROVE  /\ "typo" \notin DOMAIN files.inventory.defaults
             /\ \A n \in DOMAIN Listed : "typo" \notin DOMAIN Listed[n]
  <2>1. ValidInventory(files.inventory)
    BY <1>1 DEF IInv, DevicesInv, LoadRaises, load_inventory_raises
  <2>2. "typo" \notin DEVICE_KEYS
    BY DEF DEVICE_KEYS
  <2> QED
    BY <2>1, <2>2
       DEF ValidInventory, ValidEntry, Named, check_keys, DEFAULTABLE_KEYS, Listed
<1>2. ASSUME pc = "report", options.mode = "check"
      PROVE  /\ files.golden.text = "mapping"
             /\ "typo" \notin DOMAIN files.golden.defaults
             /\ \A n \in DOMAIN files.golden.rules :
                   "typo" \notin DOMAIN files.golden.rules[n]
             /\ Len(rules) = Len(files.golden.rules)
             /\ \A n \in DOMAIN rules : \E key \in MATCH_KEYS : rules[n][key] # << >>
  <2>1. /\ files.golden \in Goldens /\ ~load_golden_raises(files.golden)
        /\ rules = load_golden(files.golden)
    BY <1>2 DEF IInv, RulesInv, PlaceInv
  <2>2. /\ files.golden.text = "mapping"
        /\ "typo" \notin DOMAIN files.golden.defaults
        /\ \A n \in DOMAIN files.golden.rules : ValidRule(files.golden, n)
    BY <2>1 DEF load_golden_raises, check_keys
  <2>3. "typo" \notin RULE_KEYS
    BY DEF RULE_KEYS, MATCH_KEYS, RequiredKeys, ForbiddenKeys
  <2>4. \A n \in DOMAIN files.golden.rules : "typo" \notin DOMAIN files.golden.rules[n]
    BY <2>2, <2>3 DEF ValidRule, check_keys
  <2>5. Len(rules) = Len(files.golden.rules)
    <3>1. /\ Len(files.golden.rules) \in Nat
          /\ DOMAIN files.golden.rules = 1..Len(files.golden.rules)
      BY <2>1, RulesAreThere
    <3> DEFINE rule(n) == load_golden(files.golden)[n]
    <3>2. rules = [n \in 1..Len(files.golden.rules) |-> rule(n)]
      BY <2>1, <3>1 DEF load_golden
    <3> HIDE DEF rule
    <3> QED
      BY <3>1, <3>2
  <2>6. ASSUME NEW n \in DOMAIN rules
        PROVE  \E key \in MATCH_KEYS : rules[n][key] # << >>
    <3> DEFINE raw    == files.golden.rules[n]
               checks == [key \in MATCH_KEYS |-> get(raw, key, << >>)]
               rest   == [name |-> raw.name,
                          tags |-> get(raw, "tags", get(files.golden.defaults, "tags", {})),
                          severity |-> get(raw, "severity",
                                           get(files.golden.defaults, "severity", "high"))]
    <3>1. n \in DOMAIN files.golden.rules /\ rules[n] = update(checks, rest)
      BY <2>1 DEF load_golden
    <3>2. DOMAIN rest = {"name", "tags", "severity"} /\ DOMAIN checks = MATCH_KEYS
      OBVIOUS
    <3>3. PICK key \in MATCH_KEYS : checks[key] # << >>
      BY <2>2, <3>1 DEF ValidRule, DefinesChecks
    <3>4. key \notin {"name", "tags", "severity"}
      BY DEF MATCH_KEYS, RequiredKeys, ForbiddenKeys
    <3> HIDE DEF checks, rest
    <3>5. update(checks, rest)[key] = checks[key]
      BY <3>2, <3>4 DEF update
    <3> QED
      BY <3>1, <3>3, <3>5
  <2> QED
    BY <2>2, <2>4, <2>5, <2>6
<1> QED
  BY <1>1, <1>2 DEF TypoIsRefused

\* TypoIsRefused: no unknown key, in the inventory of a run that works on devices, nor
\* in the golden file of an audit (inventory.py:16-18, golden.py:24-26).
THEOREM TypoTheorem == Spec => []TypoIsRefused
BY InvRefusesTypos, Invariance, PTL

\* What no handler takes is one of the mistakes BadInventory names.
LEMMA UncaughtIsBad ==
    ASSUME files.inventory \in Inventories, LoadUncaught
    PROVE  BadInventory
<1>1. CASE files.inventory.text = "unreadable"
  BY <1>1 DEF BadInventory
<1>2. CASE files.inventory.text = "mapping"
           /\ Unsortable(files.inventory.defaults, DEFAULTABLE_KEYS)
  BY <1>2 DEF BadInventory, Unsortable
<1>3. ASSUME files.inventory.text = "mapping",
             NEW n \in DOMAIN files.inventory.devices,
             device_uncaught(files.inventory, n, LoadedEnv, KeyFiles, needs_credentials)
      PROVE  BadInventory
  <2>1. n \in DOMAIN Listed
    BY DEF Listed
  <2>2. CASE Unsortable(files.inventory.devices[n], DEVICE_KEYS)
    BY <1>3, <2>1, <2>2 DEF BadInventory, Unsortable, Listed
  <2>3. CASE Homeless(files.inventory, n, LoadedEnv)
    BY <1>3, <2>1, <2>3, NotResolvable DEF BadInventory
  <2>4. CASE coerce_int_uncaught(merged(files.inventory, n))
    <3>1. PICK k \in DOMAIN Numbers :
             get(merged(files.inventory, n), Numbers[k], "positive") = "infinite"
      BY <2>4 DEF coerce_int_uncaught, Number
    <3>2. Numbers[k] \in {"port", "conn_timeout", "read_timeout"}
      BY DEF Numbers
    <3>3. "infinite" \in {get(merged(files.inventory, n), key, "positive") :
                             key \in {"port", "conn_timeout", "read_timeout"}}
      BY <3>1, <3>2
    <3> QED
      BY <1>3, <2>1, <3>3 DEF BadInventory
  <2> QED
    BY <1>3, <2>2, <2>3, <2>4 DEF device_uncaught
<1> QED
  BY <1>1, <1>2, <1>3 DEF LoadUncaught, load_inventory_uncaught

\* Nor is what load_golden does not mean to raise anything but what BadGolden names.
LEMMA GoldenUncaughtIsBad == load_golden_uncaught(files.golden) => BadGolden
BY DEF load_golden_uncaught, BadGolden, Unsortable

\* The exit codes are those of the places they are given at.
LEMMA InvTellsStartFailures == IInv => StartFailuresAreTold
<1> SUFFICES ASSUME IInv PROVE StartFailuresAreTold
  OBVIOUS
<1>1. ASSUME NEW k \in DOMAIN devices, devices[k].credentials = Nothing, devices # << >>
      PROVE  \E n \in DOMAIN Listed : ~Resolvable(n)
  BY <1>1, DevicesOfRun, CredentialsAreThere DEF IInv
<1>2. \A k \in DOMAIN devices : devices # << >>
  OBVIOUS
<1> QED
  BY <1>1, <1>2, UncaughtIsBad, GoldenUncaughtIsBad
     DEF IInv, PlaceInv, ExitInv, UnreadableEnv, BadEnv, StartFailuresAreTold

\* StartFailuresAreTold: 2 before the devices, 1 after them, and Python's own 1 only
\* for the mistakes of BadEnv, BadInventory and BadGolden, and for the listing without
\* secrets (README.md:206-207).
THEOREM StartTheorem == Spec => []StartFailuresAreTold
BY InvTellsStartFailures, Invariance, PTL

\* The listing is of the devices as they are loaded.
LEMMA InvListingTells == IInv => ListingTellsAuth
<1> SUFFICES ASSUME IInv, stdout # Nothing, options.mode = "list", NEW k \in DOMAIN stdout
             PROVE  \E m \in DOMAIN Listed :
                /\ Listed[m].name = stdout[k].name
                /\ stdout[k].auth = IF ~Resolvable(m) THEN "not resolved"
                                    ELSE IF Key(m) # Nothing THEN "ssh key" ELSE "password"
                /\ Resolvable(m) => stdout[k].username = Secret(m, "USERNAME")
  BY DEF ListingTellsAuth
<1>1. devices # << >> /\ stdout = render_device_table(devices)
  BY DEF IInv, StdoutInv
<1>2. /\ k \in DOMAIN devices /\ stdout[k].name = devices[k].name
      /\ stdout[k].auth = IF devices[k].credentials = Nothing THEN "not resolved"
                          ELSE auth(devices[k].credentials)
      /\ stdout[k].username = get(devices[k].credentials, "username", Nothing)
  BY <1>1 DEF render_device_table
<1>3. PICK m \in DOMAIN Listed : devices[k] = Inventory[m]
  BY <1>1, <1>2, DevicesOfRun DEF IInv
<1>4. files.inventory \in Inventories /\ ValidInventory(files.inventory)
  BY <1>1, DevicesOfRun DEF IInv
<1>5. Listed[m].name = stdout[k].name
  BY <1>2, <1>3, <1>4, DeviceLoaded
<1>6. CASE ~Resolvable(m)
  <2>1. devices[k].credentials = Nothing
    BY <1>3, <1>4, <1>6, DeviceLoaded
  <2>2. stdout[k].auth = "not resolved"
    BY <1>2, <2>1
  <2> QED
    BY <1>5, <1>6, <2>2
<1>7. CASE Resolvable(m)
  <2> DEFINE login == [username |-> Secret(m, "USERNAME"), password |-> Secret(m, "PASSWORD"),
                       enable_secret |-> Secret(m, "ENABLE"), key_file |-> Key(m)]
  <2>1. devices[k].credentials = login
    BY <1>3, <1>4, <1>7, DeviceLoaded
  <2>2. devices[k].credentials # Nothing
    BY <1>1, <1>3, <1>7, CredentialsAreThere DEF IInv
  <2>3. get(login, "username", Nothing) = Secret(m, "USERNAME") /\ login.key_file = Key(m)
    BY DEF get
  <2> HIDE DEF login
  <2> QED
    BY <1>2, <1>5, <1>7, <2>1, <2>2, <2>3 DEF auth
<1> QED
  BY <1>6, <1>7

\* ListingTellsAuth: the listing shows how each device would be logged in with, or that
\* it would not (report.py:63).
THEOREM ListingTheorem == Spec => []ListingTellsAuth
BY InvListingTells, Invariance, PTL

\* No two devices of a run have one name.
LEMMA NamesAreUnique ==
    ASSUME IInv, devices # << >>
    PROVE  \A j, k \in DOMAIN devices : devices[j].name = devices[k].name => j = k
<1>1. /\ files.inventory \in Inventories /\ ValidInventory(files.inventory)
      /\ DOMAIN devices = 1..Cardinality(Kept) /\ Cardinality(Kept) \in Nat
      /\ \A k \in DOMAIN devices : /\ Place(Kept, k) \in DOMAIN Listed
                                   /\ devices[k] = Inventory[Place(Kept, k)]
  BY DevicesOfRun DEF IInv
<1>2. \A k \in DOMAIN devices : devices[k].name = Listed[Place(Kept, k)].name
  BY <1>1, DeviceLoaded
<1>3. /\ DOMAIN Listed = 1..Len(Listed) /\ Kept \in SUBSET (1..Len(Listed))
      /\ Len(Listed) \in Nat
  BY <1>1, ListedPlaces
<1>4. \A j, k \in DOMAIN devices : j < k => Place(Kept, j) < Place(Kept, k)
  BY <1>1, <1>3, PlacesInOrder
<1>5. ASSUME NEW j \in DOMAIN devices, NEW k \in DOMAIN devices,
             devices[j].name = devices[k].name
      PROVE  j = k
  <2>1. \A m, n \in DOMAIN Listed : m < n => Listed[m].name # Listed[n].name
    BY <1>1 DEF ValidInventory, ValidEntry, Named, Listed
  <2>2. j \in Nat /\ k \in Nat
    BY <1>1
  <2>3. /\ Place(Kept, j) \in DOMAIN Listed /\ Place(Kept, k) \in DOMAIN Listed
        /\ Listed[Place(Kept, j)].name = Listed[Place(Kept, k)].name
    BY <1>1, <1>2, <1>5
  <2>4. ~(j < k) /\ ~(k < j)
    BY <1>4, <2>1, <2>3
  <2> QED
    BY <2>2, <2>4
<1> QED
  BY <1>5

\* The numbers of --test-connection: as many devices failed as names did.
LEMMA ResultsAddUp ==
    ASSUME IInv, devices # << >>
    PROVE  LET told_of == results_to_json(devices, unanswered) IN
           /\ DOMAIN told_of.rows = DOMAIN devices
           /\ \A n \in DOMAIN devices :
                 /\ told_of.rows[n].name = devices[n].name
                 /\ told_of.rows[n].ok <=> devices[n].name \notin unanswered
           /\ told_of.summary.failed = Cardinality(unanswered)
           /\ told_of.summary.ok + told_of.summary.failed = told_of.summary.total
           /\ told_of.summary.ok = told_of.summary.total
                 <=> \A n \in DOMAIN devices : devices[n].name \notin unanswered
<1> DEFINE c    == Cardinality(Kept)
           rows == [n \in DOMAIN devices |->
                        [name |-> devices[n].name, ok |-> devices[n].name \notin unanswered]]
           Well == {n \in DOMAIN devices : devices[n].name \notin unanswered}
           Ill  == {n \in DOMAIN devices : devices[n].name \in unanswered}
           f    == [n \in Ill |-> devices[n].name]
<1>1. DOMAIN devices = 1..c /\ c \in Nat
  BY DevicesOfRun DEF IInv
<1>2. IsFiniteSet(DOMAIN devices) /\ Cardinality(DOMAIN devices) = c
  BY <1>1, FS_Interval
<1>3. Len(rows) = c
  <2> DEFINE row(n) == [name |-> devices[n].name, ok |-> devices[n].name \notin unanswered]
  <2>1. rows = [n \in 1..c |-> row(n)]
    BY <1>1
  <2> HIDE DEF row, rows
  <2> QED
    BY <1>1, <2>1
<1>4. {n \in DOMAIN rows : rows[n].ok} = Well
  OBVIOUS
<1>5. /\ IsFiniteSet(Ill) /\ Cardinality(Ill) \in Nat /\ Cardinality(Well) \in Nat
      /\ Cardinality(Well) = c - Cardinality(Ill)
      /\ Cardinality(Ill) = 0 <=> Ill = {}
  <2>1. Well = DOMAIN devices \ Ill /\ DOMAIN devices \cap Ill = Ill
    OBVIOUS
  <2>2. Ill \in SUBSET DOMAIN devices /\ Well \in SUBSET DOMAIN devices
    OBVIOUS
  <2>3. IsFiniteSet(Ill) /\ IsFiniteSet(Well)
    BY <1>2, <2>2, FS_Subset
  <2> HIDE DEF Well, Ill
  <2>4. Cardinality(DOMAIN devices \ Ill)
           = Cardinality(DOMAIN devices) - Cardinality(DOMAIN devices \cap Ill)
    BY <1>2, FS_Difference
  <2> QED
    BY <1>2, <2>1, <2>3, <2>4, FS_CardinalityType, FS_EmptySet
<1>6. Cardinality(unanswered) = Cardinality(Ill)
  <2>1. unanswered \subseteq {devices[n].name : n \in DOMAIN devices}
    BY DEF IInv, ContactedInv
  <2>2. f \in [Ill -> unanswered] /\ \A x \in unanswered : \E n \in Ill : f[n] = x
    BY <2>1
  <2>3. \A j, k \in Ill : f[j] = f[k] => j = k
    BY NamesAreUnique
  <2> HIDE DEF f, Ill
  <2>4. f \in Bijection(Ill, unanswered)
    BY <2>2, <2>3 DEF Bijection, Injection, Surjection, IsInjective
  <2>5. ExistsBijection(Ill, unanswered)
    BY <2>4 DEF ExistsBijection
  <2> QED
    BY <1>5, <2>5, FS_Bijection
<1>7. results_to_json(devices, unanswered)
         = [summary |-> [total |-> c, ok |-> Cardinality(Well),
                         failed |-> c - Cardinality(Well)],
            rows |-> rows]
  <2>1. results_to_json(devices, unanswered)
           = [summary |-> [total |-> Len(rows),
                           ok |-> Cardinality({n \in DOMAIN rows : rows[n].ok}),
                           failed |-> Len(rows) - Cardinality({n \in DOMAIN rows : rows[n].ok})],
              rows |-> rows]
    BY DEF results_to_json
  <2> HIDE DEF rows, Well, c
  <2> QED
    BY <1>3, <1>4, <2>1
<1>8. Ill = {} <=> \A n \in DOMAIN devices : devices[n].name \notin unanswered
  OBVIOUS
<1>9. /\ DOMAIN rows = DOMAIN devices
      /\ \A n \in DOMAIN devices : /\ rows[n].name = devices[n].name
                                   /\ rows[n].ok <=> devices[n].name \notin unanswered
  OBVIOUS
<1> HIDE DEF Well, Ill, c, rows
<1> DEFINE result == results_to_json(devices, unanswered)
<1>10. /\ result.rows = rows /\ result.summary.total = c
       /\ result.summary.ok = Cardinality(Well)
       /\ result.summary.failed = c - Cardinality(Well)
  BY <1>7
<1> HIDE DEF result
<1>11. /\ result.summary.failed = Cardinality(unanswered)
       /\ result.summary.ok + result.summary.failed = result.summary.total
       /\ result.summary.ok = result.summary.total <=> Ill = {}
  <2> DEFINE ill  == Cardinality(Ill)
             well == Cardinality(Well)
  <2>1. ill \in Nat /\ well \in Nat /\ c \in Nat /\ well = c - ill
    BY <1>1, <1>5 DEF c
  <2>2. ill = 0 <=> Ill = {}
    BY <1>5
  <2>3. Cardinality(unanswered) = ill
    BY <1>6
  <2> HIDE DEF ill, well
  <2>4. c - well = ill /\ well + (c - well) = c /\ (well = c <=> ill = 0)
    BY <2>1
  <2> QED
    BY <1>10, <2>2, <2>3, <2>4 DEF well
<1> QED
  BY <1>8, <1>9, <1>10, <1>11 DEF result

\* The exit code is told from the names of the devices that did not answer.
LEMMA InvExitTells == IInv => ExitTellsResults
<1> SUFFICES ASSUME IInv PROVE ExitTellsResults
  OBVIOUS
<1>1. ASSUME contacted # {}, exit = 0
      PROVE  /\ unanswered = {}
             /\ {c.name : c \in contacted} = {devices[n].name : n \in DOMAIN devices}
  <2>1. unanswered = {}
    BY <1>1 DEF IInv, ExitInv
  <2> DEFINE contact(n) == [name |-> devices[n].name, params |-> netmiko_params(devices[n]),
                            commands |-> Commands(devices[n])]
  <2>2. contacted = {contact(n) : n \in DOMAIN devices}
    BY <1>1 DEF IInv, ContactedInv
  <2>3. \A n : contact(n).name = devices[n].name
    OBVIOUS
  <2> HIDE DEF contact
  <2> QED
    BY <2>1, <2>2, <2>3
<1>2. ASSUME options.mode = "test", stdout # Nothing, exit \in {0, 1}
      PROVE  /\ DOMAIN stdout.rows = DOMAIN devices
             /\ \A n \in DOMAIN devices :
                   /\ stdout.rows[n].name = devices[n].name
                   /\ stdout.rows[n].ok <=> devices[n].name \notin unanswered
             /\ stdout.summary.failed = Cardinality(unanswered)
             /\ stdout.summary.ok + stdout.summary.failed = stdout.summary.total
             /\ exit = 0 <=> stdout.summary.ok = stdout.summary.total
  <2>1. /\ devices # << >> /\ stdout = results_to_json(devices, unanswered)
        /\ exit = IF \A n \in DOMAIN devices : devices[n].name \notin unanswered
                  THEN 0 ELSE 1
    BY <1>2 DEF IInv, StdoutInv
  <2>2. /\ DOMAIN stdout.rows = DOMAIN devices
        /\ \A n \in DOMAIN devices :
              /\ stdout.rows[n].name = devices[n].name
              /\ stdout.rows[n].ok <=> devices[n].name \notin unanswered
        /\ stdout.summary.failed = Cardinality(unanswered)
        /\ stdout.summary.ok + stdout.summary.failed = stdout.summary.total
        /\ stdout.summary.ok = stdout.summary.total
              <=> \A n \in DOMAIN devices : devices[n].name \notin unanswered
    BY <2>1, ResultsAddUp
  <2> QED
    BY <2>1, <2>2
<1> QED
  BY <1>1, <1>2 DEF ExitTellsResults

\* ExitTellsResults: 0 says that every device answered, and the numbers of
\* --test-connection say which did not (README.md:199-203).
THEOREM ExitTheorem == Spec => []ExitTellsResults
BY InvExitTells, Invariance, PTL

\* The devices are those at the places the filters keep, in their order.
LEMMA InvSelects == IInv => SelectionAsDescribed
<1> SUFFICES ASSUME IInv, Loaded PROVE SelectionAsDescribed
  BY DEF SelectionAsDescribed
<1> DEFINE names    == {lower(name) : name \in options.device \ {""}}
           tags     == {lower(tag) : tag \in options.tag \ {""}}
           Has(n)   == \E tag \in get(merged(files.inventory, n), "tags", {}) :
                           lower(tag) \in tags
           matching == {n \in DOMAIN Listed : names = {} \/ lower(Listed[n].name) \in names}
<1>1. /\ devices # << >>
      /\ files.inventory \in Inventories /\ ValidInventory(files.inventory)
      /\ DOMAIN devices = 1..Cardinality(Kept) /\ Cardinality(Kept) \in Nat
      /\ \A k \in DOMAIN devices : /\ Place(Kept, k) \in DOMAIN Listed
                                   /\ Place(Kept, k) \in Kept
                                   /\ devices[k] = Inventory[Place(Kept, k)]
  <2>1. devices # << >>
    BY DEF IInv, DevicesInv
  <2> QED
    BY <2>1, DevicesOfRun DEF IInv
<1>2. \A n \in DOMAIN Listed : Inventory[n].name = Listed[n].name
  BY <1>1, DeviceLoaded
<1>3. \A k \in DOMAIN devices : devices[k].name = Listed[Place(Kept, k)].name
  BY <1>1, <1>2
<1>4. /\ \A n \in Kept : \E k \in DOMAIN devices : Place(Kept, k) = n
      /\ \A j, k \in DOMAIN devices : j < k => Place(Kept, j) < Place(Kept, k)
  BY <1>1, ListedPlaces, PlacesInOrder
<1>5. IsAnInventory
  <2> DEFINE place == [k \in DOMAIN devices |-> Place(Kept, k)]
  <2>1. /\ place \in [DOMAIN devices -> DOMAIN Listed]
        /\ \A k \in DOMAIN devices : Listed[place[k]].name = devices[k].name
        /\ \A j, k \in DOMAIN devices : j < k => place[j] < place[k]
    BY <1>1, <1>3, <1>4
  <2> HIDE DEF place
  <2>2. \E f \in [DOMAIN devices -> DOMAIN Listed] :
           /\ \A k \in DOMAIN devices : Listed[f[k]].name = devices[k].name
           /\ \A j, k \in DOMAIN devices : j < k => f[j] < f[k]
    BY <2>1
  <2> QED
    BY <1>1, <2>2, NamesAreUnique DEF IsAnInventory
<1>6. names \subseteq {lower(Listed[n].name) : n \in DOMAIN Listed}
  <2>1. ~filter_devices_raises(Inventory, split_csv(options.device))
    BY <1>1 DEF IInv, DevicesInv, LoadRaises
  <2>2. DOMAIN Inventory = DOMAIN Listed
    BY DEF Inventory, load_inventory, Listed
  <2>3. {lower(Inventory[n].name) : n \in DOMAIN Inventory}
           = {lower(Listed[n].name) : n \in DOMAIN Listed}
    BY <1>2, <2>2
  <2> QED
    BY <2>1, <2>3 DEF filter_devices_raises, split_csv
<1>7. Kept = {m \in matching : tags = {} \/ Has(m)}
  <2>1. ASSUME NEW n \in DOMAIN Listed
        PROVE  Matching(n) <=> names = {} \/ lower(Listed[n].name) \in names
    <3>1. names = {} <=> split_csv(options.device) = {}
      BY DEF split_csv
    <3> QED
      BY <3>1 DEF Matching, split_csv
  <2>2. ASSUME NEW n \in DOMAIN Listed
        PROVE  Tagged(n) <=> tags = {} \/ Has(n)
    <3>1. tags = {} <=> split_csv(options.tag) = {}
      BY DEF split_csv
    <3>2. tags = {lower(t) : t \in split_csv(options.tag)}
      BY DEF split_csv
    <3>3. Has(n) <=> tags \cap {lower(t) : t \in get(merged(files.inventory, n), "tags", {})}
                        # {}
      <4> HIDE DEF tags
      <4> QED
        OBVIOUS
    <3> QED
      BY <3>1, <3>2, <3>3 DEF Tagged
  <2> QED
    BY <2>1, <2>2 DEF Kept
<1>8. {devices[k].name : k \in DOMAIN devices} = {Listed[n].name : n \in Kept}
  BY <1>1, <1>3, <1>4
<1> QED
  BY <1>5, <1>6, <1>7, <1>8 DEF SelectionAsDescribed

\* SelectionAsDescribed: --device and --tag leave, in the order of the file and once
\* each, the devices they name, and an unknown name is refused (inventory.py:257-258).
THEOREM SelectionTheorem == Spec => []SelectionAsDescribed
BY InvSelects, Invariance, PTL

\* When nothing is demanded of the secrets and no other thing is wrong with the
\* devices, a key file in nobody's home is met, and no handler takes that.
LEMMA HomelessIsUncaught ==
    ASSUME files.inventory \in Inventories, ValidInventory(files.inventory),
           ~needs_credentials,
           NEW n \in DOMAIN files.inventory.devices,
           Homeless(files.inventory, n, LoadedEnv)
    PROVE  LoadUncaught
<1> DEFINE without == {m \in DOMAIN files.inventory.devices :
                          Homeless(files.inventory, m, LoadedEnv)}
           first == Place(without, 1)
<1>1. /\ files.inventory.text = "mapping"
      /\ Len(Listed) \in Nat /\ DOMAIN files.inventory.devices = 1..Len(Listed)
  BY ListedPlaces DEF Listed
<1>2. without \in SUBSET (1..Len(Listed)) /\ n \in without
  BY <1>1
<1> HIDE DEF without
<1>3. /\ first \in without
      /\ \A m \in without : m = first \/ first < m
  <2>1. /\ Cardinality(without) \in Nat
        /\ \A k \in 1..Cardinality(without) : Place(without, k) \in without
        /\ \A m \in without : \E k \in 1..Cardinality(without) : Place(without, k) = m
        /\ \A j, k \in 1..Cardinality(without) :
              j < k => Place(without, j) < Place(without, k)
    BY <1>1, <1>2, PlacesInOrder
  <2>2. PICK k \in 1..Cardinality(without) : Place(without, k) = n
    BY <1>2, <2>1
  <2>3. 1 \in 1..Cardinality(without)
    BY <2>1
  <2>4. \A i \in 1..Cardinality(without) : i = 1 \/ 1 < i
    BY <2>1
  <2> QED
    BY <2>1, <2>3, <2>4
<1>4. /\ first \in DOMAIN files.inventory.devices
      /\ Homeless(files.inventory, first, LoadedEnv)
  BY <1>3 DEF without
<1>5. ASSUME NEW m \in DOMAIN files.inventory.devices, m < first
      PROVE  ~device_raises(files.inventory, m, LoadedEnv, KeyFiles, needs_credentials)
  <2>1. m \notin without
    BY <1>1, <1>3, <1>4, <1>5
  <2> QED
    BY <1>5, <2>1 DEF device_raises, ValidInventory, without
<1>6. device_uncaught(files.inventory, first, LoadedEnv, KeyFiles, needs_credentials)
  BY <1>4 DEF device_uncaught, ValidInventory, ValidEntry
<1>7. check_keys(files.inventory.defaults, DEFAULTABLE_KEYS)
  BY DEF ValidInventory
<1> HIDE DEF first
<1> QED
  BY <1>1, <1>4, <1>5, <1>6, <1>7 DEF LoadUncaught, load_inventory_uncaught

\* The filters keep the same places whatever the variables.
LEMMA InvIgnoresSecrets == IInv => OfflineIgnoresSecrets
<1> SUFFICES ASSUME IInv, Offline PROVE OfflineIgnoresSecrets
  BY DEF OfflineIgnoresSecrets
<1> DEFINE bare   == load_inventory(files.inventory, << >>, KeyFiles)
           chosen == filter_devices(bare, split_csv(options.device), split_csv(options.tag))
<1>1. needs_credentials => options.mode = "list" /\ options.live
  BY DEF Offline, needs_credentials
<1>2. contacted = {}
  BY <1>1 DEF IInv, ContactedInv
<1>3. ASSUME ValidInventory(files.inventory)
      PROVE  /\ DOMAIN chosen = 1..Cardinality(Kept) /\ DOMAIN Chosen = 1..Cardinality(Kept)
             /\ \A k \in 1..Cardinality(Kept) : /\ chosen[k] = bare[Place(Kept, k)]
                                              /\ Chosen[k] = Inventory[Place(Kept, k)]
             /\ \A n \in DOMAIN Listed : bare[n].name = Inventory[n].name
             /\ DOMAIN bare = DOMAIN Listed /\ DOMAIN Inventory = DOMAIN Listed
             /\ Chosen = << >> => chosen = << >>
  <2>1. chosen = Sublist(bare, Kept) /\ Chosen = Sublist(Inventory, Kept)
    BY <1>3, FilterKeeps DEF Chosen, Inventory
  <2>2. /\ \A n \in DOMAIN Listed : bare[n].name = Inventory[n].name
        /\ DOMAIN bare = DOMAIN Listed /\ DOMAIN Inventory = DOMAIN Listed
    BY DEF Inventory, load_inventory, Listed
  <2> HIDE DEF bare, chosen
  <2>3. /\ DOMAIN chosen = 1..Cardinality(Kept) /\ DOMAIN Chosen = 1..Cardinality(Kept)
        /\ \A k \in 1..Cardinality(Kept) : /\ chosen[k] = bare[Place(Kept, k)]
                                         /\ Chosen[k] = Inventory[Place(Kept, k)]
    BY <2>1, SublistTakes
  <2>4. Chosen = << >> => chosen = << >>
    <3>1. SUFFICES ASSUME Chosen = << >> PROVE chosen = << >>
      OBVIOUS
    <3>2. 1..Cardinality(Kept) = {}
      BY <2>3, <3>1
    <3>3. chosen = [k \in {} |-> bare[Place(Kept, k)]]
      BY <2>1, <3>2 DEF Sublist, Place, Before
    <3> QED
      BY <3>3
  <2> QED
    BY <2>2, <2>3, <2>4
<1>4. ASSUME Loaded
      PROVE  [n \in DOMAIN devices |-> devices[n].name]
                = [n \in DOMAIN chosen |-> chosen[n].name]
  <2>1. devices # << >> /\ devices = Chosen
    BY <1>4 DEF IInv, DevicesInv
  <2>2. ValidInventory(files.inventory) /\ \A k \in DOMAIN devices : Place(Kept, k) \in DOMAIN Listed
    BY <2>1, DevicesOfRun DEF IInv
  <2> HIDE DEF bare, chosen
  <2>3. DOMAIN devices = DOMAIN chosen
    BY <1>3, <2>1, <2>2
  <2>4. \A k \in DOMAIN devices : devices[k].name = chosen[k].name
    BY <1>3, <2>1, <2>2
  <2> QED
    BY <2>3, <2>4
<1>5. ASSUME exit = 2, devices = << >>
      PROVE  \/ BadOptions \/ NoEnvFile
             \/ ~ValidInventory(files.inventory)
             \/ filter_devices_raises(bare, split_csv(options.device))
             \/ chosen = << >>
             \/ /\ options.mode = "list" /\ options.live
                /\ \E n \in DOMAIN Listed : ~Resolvable(n)
  <2> HIDE DEF bare, chosen
  <2>1. BadOptions \/ NoEnvFile \/ (LoadRaises /\ ~LoadUncaught)
    BY <1>5 DEF IInv, ExitInv
  <2>2. CASE LoadRaises /\ ~LoadUncaught /\ ValidInventory(files.inventory)
    <3>1. \/ filter_devices_raises(Inventory, split_csv(options.device)) \/ Chosen = << >>
          \/ \E n \in DOMAIN Listed :
                \/ Homeless(files.inventory, n, LoadedEnv)
                \/ needs_credentials /\ Refused(files.inventory, n, LoadedEnv, KeyFiles)
      BY <2>2
         DEF LoadRaises, load_inventory_raises, device_raises, ValidInventory, Listed
    <3>2. {lower(bare[n].name) : n \in DOMAIN bare}
             = {lower(Inventory[n].name) : n \in DOMAIN Inventory}
      BY <1>3, <2>2
    <3>3. filter_devices_raises(Inventory, split_csv(options.device))
             => filter_devices_raises(bare, split_csv(options.device))
      BY <3>2 DEF filter_devices_raises
    <3>4. ASSUME NEW n \in DOMAIN Listed,
                 \/ Homeless(files.inventory, n, LoadedEnv)
                 \/ needs_credentials /\ Refused(files.inventory, n, LoadedEnv, KeyFiles)
          PROVE  options.mode = "list" /\ options.live /\ ~Resolvable(n)
      <4>1. files.inventory \in Inventories /\ files.inventory.text = "mapping"
        BY <2>2 DEF IInv, PlaceInv, ValidInventory
      <4>2. needs_credentials
        BY <2>2, <3>4, <4>1, HomelessIsUncaught DEF Listed
      <4> QED
        BY <1>1, <3>4, <4>1, <4>2, NotResolvable
    <3> QED
      BY <1>3, <2>2, <3>1, <3>3, <3>4
  <2> QED
    BY <2>1, <2>2
<1> QED
  BY <1>2, <1>4, <1>5 DEF OfflineIgnoresSecrets

\* OfflineIgnoresSecrets: the listing and the audit of the backups work on the devices
\* they would with no variable set, and stop for no secret, the listing with --live
\* excepted (cli.py:285-288).
THEOREM OfflineTheorem == Spec => []OfflineIgnoresSecrets
BY InvIgnoresSecrets, Invariance, PTL
=============================================================================
