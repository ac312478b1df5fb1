--------------------------- MODULE MCCommandLine ---------------------------
(***************************************************************************)
(* Instances of CommandLine for TLC.                                        *)
(***************************************************************************)
EXTENDS CommandLine, TLC

\* Devices of the inventory: two that differ in case, one with a profile of its own
\* and no type, one with a key, and entries that are refused.
MCCore  == [name |-> "core1", host |-> "a", device_type |-> "arista_eos", tags |-> {"Spine"}]
MCCore2 == [name |-> "Core1", host |-> "b", device_type |-> "nokia_srl"]
MCEdge  == [name |-> "edge1", host |-> "c", credentials |-> "edge",
            backup_command |-> "show run"]
MCKey   == [name |-> "leaf1", host |-> "d", device_type |-> "juniper_junos",
            key_file |-> <<"inventory", "KEY_FILE", "inventory">>,
            extra_args |-> [secret |-> <<"inventory", "ENABLE", "inventory">>]]
MCOdd   == [name |-> "leaf2", host |-> "e", device_type |-> "linux", credentials |-> "--"]
MCBad   == {[name |-> "x", host |-> "f", device_type |-> "linux", typo |-> ""],
            [name |-> "x", device_type |-> "linux"],
            [host |-> "f", device_type |-> "linux"],
            [name |-> "x", host |-> "f", device_type |-> "linux", typo |-> "", number |-> ""],
            [name |-> "x", host |-> "f", device_type |-> "linux", port |-> "refused"],
            [name |-> "x", host |-> "f", device_type |-> "linux", read_timeout |-> "infinite"],
            [name |-> "x", host |-> "f", device_type |-> "linux",
             key_file |-> <<"inventory", "KEY_FILE", "~nobody">>]}

Document(defaults, entries) ==
    [text |-> "mapping", defaults |-> defaults, devices |-> entries]

\* What is no document at all.
MCNoDocument == {[text |-> "refused"], [text |-> "unreadable"]}

MCDefaults == {<< >>, [device_type |-> "cisco_ios", credentials |-> "Lab", tags |-> {"leaf"}]}

MCInventories ==
    {Document(d, e) : d \in MCDefaults,
        e \in {<<MCCore, MCEdge>>, <<MCEdge, MCKey, MCCore2>>, <<MCCore, MCCore2>>,
               <<MCCore, MCCore>>, <<MCCore, MCOdd>>, << >>}
              \cup {<<MCCore, bad>> : bad \in MCBad}}
    \cup {Document([typo |-> ""], <<MCCore>>), Document([host |-> "a"], <<MCCore>>),
          Document([typo |-> "", number |-> ""], <<MCCore>>),
          Document([port |-> "infinite"], <<MCCore, MCEdge>>)}
    \cup MCNoDocument

MCRule == [name |-> "no http", forbidden |-> <<"ip http server">>]

Golden(defaults, entries) == [text |-> "mapping", defaults |-> defaults, rules |-> entries]

MCGoldens ==
    {Golden([tags |-> {"leaf"}, severity |-> "low"],
            <<MCRule, [name |-> "ntp", required |-> <<"ntp server a">>]>>),
     Golden(<< >>, <<[name |-> "ntp", typo |-> ""] @@ MCRule>>),
     Golden(<< >>, <<[name |-> "nothing", required |-> << >>]>>),
     Golden(<< >>, <<MCRule, [name |-> "ntp", typo |-> "", number |-> ""]>>),
     Golden(<< >>, <<[name |-> "ntp", required_regex |-> <<TooLarge>>], MCRule, MCRule>>)}
    \cup MCNoDocument

\* One golden file, for the modes whose result it does not change.
MCOneGolden == {Golden(<< >>, <<MCRule>>)}

Set(variables, by) == [v \in variables |-> by]

Environment(shell, dotenv, installed) ==
    [shell |-> shell, dotenv |-> dotenv, readable |-> TRUE, python_dotenv |-> installed]

MCPair(prefix)  == {prefix} \X {"USERNAME", "PASSWORD"}
MCProfiles      == MCPair("NETAUDIT_LAB") \cup MCPair("NETAUDIT_EDGE")
MCVariables     == MCPair("NETAUDIT") \cup MCProfiles

\* Every set of the variables in the shell, a key and an enable password beside all
\* of them, and a .env file with all of them, with a profile's or with the common
\* ones, under what the shell sets, or sets to nothing; one that cannot be read, and
\* one with a key file in nobody's home.
MCEnvironments ==
    {Environment(Set(vs, "shell"), << >>, TRUE) : vs \in SUBSET MCVariables}
    \cup {Environment(Set(MCVariables \cup {<<prefix, suffix>>}, "shell"), << >>, TRUE) :
             prefix \in {"NETAUDIT", "NETAUDIT_LAB"}, suffix \in {"KEY_FILE", "ENABLE"}}
    \cup {Environment(shell, Set(vs, "file"), installed) :
             shell \in {<< >>, Set(MCPair("NETAUDIT"), "shell"), Set(MCProfiles, "shell"),
                        Set(MCPair("NETAUDIT_LAB"), "")},
             vs \in {MCVariables, MCPair("NETAUDIT_LAB"), MCPair("NETAUDIT")},
             installed \in BOOLEAN}
    \cup {[Environment(Set(MCVariables, "shell"), << >>, installed)
              EXCEPT !.readable = FALSE] : installed \in BOOLEAN}
    \cup {Environment(Set(MCPair("NETAUDIT"), "shell"),
                      Set({<<"NETAUDIT", "KEY_FILE">>}, "~nobody"), TRUE)}

\* A key file of the inventory and one of the environment exist, another does not.
MCKeyFiles == {<<"inventory", "KEY_FILE", "inventory">>, <<"NETAUDIT_LAB", "KEY_FILE", "shell">>}

Request(mode, live, json, device, tag) ==
    [mode |-> mode, live |-> live, json |-> json, device |-> device, tag |-> tag,
     command |-> {}, workers |-> 8, retries |-> 1, env_file |-> "none"]

MCPlain == Request("test", FALSE, FALSE, {}, {})

MCRequests ==
    {Request(m[1], m[2], FALSE, s[1], s[2]) :
        m \in {<<"list", FALSE>>, <<"test", FALSE>>, <<"backup", FALSE>>,
               <<"check", FALSE>>, <<"check", TRUE>>},
        s \in {<<{}, {}>>, <<{"Core1", ""}, {"spine"}>>, <<{"core1", "nobody"}, {}>>,
               <<{}, {"Leaf"}>>, <<{"edge1"}, {"spine"}>>}}
    \cup {Request("list", FALSE, TRUE, {"core1"}, {}), Request("list", TRUE, FALSE, {}, {})}
    \cup {[MCPlain EXCEPT !.workers = 0], [MCPlain EXCEPT !.retries = 0],
          [MCPlain EXCEPT !.env_file = "missing"],
          [MCPlain EXCEPT !.command = {"show version"}], [MCPlain EXCEPT !.command = {""}],
          [MCPlain EXCEPT !.mode = "backup", !.command = {"show version"}]}

MCListing == {Request("list", FALSE, TRUE, {}, {})}
=============================================================================
