--------------------------- MODULE MCBackupStore ---------------------------
(***************************************************************************)
(* Instances of BackupStore for TLC.                                        *)
(***************************************************************************)
EXTENDS BackupStore, TLC

\* A configuration, the same captured at another time, another configuration,
\* and a reply of a single line.
Config(name, header) == <<Line(header, FALSE), Line("hostname " \o name, FALSE),
                          Line("a", FALSE), Line("b", FALSE), Line("c", FALSE),
                          Line("end", FALSE)>>

MCOne      == Config("one", "! Time: 09:00")
MCOneLater == Config("one", "! Time: 10:00")
MCTwo      == Config("two", "! Time: 10:00")
MCShort    == <<Line("% busy", FALSE)>>

MCThreeCaptures == {MCOne, MCOneLater, MCTwo}
MCShortOrNot  == {MCOne, MCTwo, MCShort}
MCTwoCaptures == {MCOne, MCTwo}

MCKills       == {"kill"}
MCMishaps     == {"os_error", "ctrl_c", "kill", "unreadable", "undecodable",
                  "clock_back"}
MCUndecodable == {"undecodable"}

\* The runs are interchangeable.
RunSymmetry == Permutations(Runs)
=============================================================================
