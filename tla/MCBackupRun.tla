---------------------------- MODULE MCBackupRun ----------------------------
(***************************************************************************)
(* Instances of BackupRun for TLC.                                          *)
(***************************************************************************)
EXTENDS BackupRun

MCTwo       == <<"core1", "edge1">>
MCConfigs   == {"a", "b"}
MCUserFiles == {<<"notes", 0>>}
MCNone      == {}

MCAllFaults == {"git_refuses", "git_hangs", "not_a_repo", "os_error", "undecodable",
                "ctrl_c"}
MCHangs     == {"git_hangs"}
=============================================================================
