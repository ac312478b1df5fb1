---------------------------- MODULE BackupHistory ----------------------------
(***************************************************************************)
(* What the backup directory of a device promises to be: "a change history  *)
(* rather than a cron log" (netauditor/backup.py:3-14).  A file is added    *)
(* under a later name than every other, or than every other but the last,   *)
(* which it then replaces, if two may be written within one second; it      *)
(* holds a plausible configuration that differs from the one before, and it *)
(* never changes otherwise; the loss of power brings back what was on the   *)
(* disk, and nothing else.                                                  *)
(***************************************************************************)
EXTENDS Naturals

CONSTANTS Stamps,               \* the names of the files, numbers in chronological order
          Plausible,            \* the texts that look like a configuration
          Same(_, _),           \* two texts are captures of one configuration
          MayRepeat,            \* the user, or a file that cannot be read, lets
                                \* an unchanged configuration be added again
          MayReplace            \* two files may be written within one second

VARIABLES files,    \* the directory: a function from stamps to texts
          durable   \* the directory as it is on the disk

vars == <<files, durable>>

Init == files = << >> /\ durable = << >>

Latest(s) == s \in DOMAIN files /\ \A t \in DOMAIN files : t <= s

Publish(s) ==
    /\ \A t \in DOMAIN files : t < s \/ (MayReplace /\ t = s)
    /\ DOMAIN files' = DOMAIN files \cup {s}
    /\ \A t \in DOMAIN files \ {s} : files'[t] = files[t]
    /\ files'[s] \in Plausible
    /\ MayRepeat \/ \A t \in DOMAIN files : Latest(t) => ~Same(files[t], files'[s])
    /\ UNCHANGED durable

Settle == /\ durable' = files
          /\ UNCHANGED files

Outage == /\ files' = durable
          /\ UNCHANGED durable

Next == (\E s \in Stamps : Publish(s)) \/ Settle \/ Outage

Spec == Init /\ [][Next]_vars
=============================================================================
