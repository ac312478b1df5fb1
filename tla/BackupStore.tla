----------------------------- MODULE BackupStore -----------------------------
(***************************************************************************)
(* The backup directory of one device, at the grain of its file system:     *)
(* backup.write_backup, executed once by each of a number of runs of the    *)
(* program, with what may befall it: an error of the file system, Ctrl-C, a *)
(* kill, the loss of power, a stored file that cannot be read or decoded, a *)
(* clock set back, and a run started while another is at work.              *)
(* netauditor/backup.py:91-184.                                             *)
(*                                                                          *)
(* External: the file system.  A name is linked to an inode; rename and     *)
(* unlink are atomic; the names reach the disk some time later, in order;   *)
(* the content of an inode does when it is synced.                          *)
(***************************************************************************)
EXTENDS Naturals, ConfigText

CONSTANTS Runs,         \* the runs of the program, one write_backup each
          Captures,     \* the texts devices answer with
          Forced,        \* --force
          MaxClock,     \* bound on the clock, in seconds
          MaxOutages,   \* bound on the losses of power
          Overlap,      \* whether a run may start while another is at work
          SameSecond,   \* whether two runs may write within one second
          Faults,       \* what may go wrong, see below
          None          \* no inode

ASSUME OptionsAssumption ==
    /\ MaxClock \in Nat \ {0} /\ MaxOutages \in Nat
    /\ Forced \in BOOLEAN /\ Overlap \in BOOLEAN /\ SameSecond \in BOOLEAN
    /\ Faults \subseteq {"os_error", "ctrl_c", "kill", "unreadable", "undecodable",
                         "clock_back"}
    /\ None \notin Runs

Stamps == 1..MaxClock

\* A file is written in two parts, so that half a file is seen to be one.
Parts == {1, 2}
Hole  == << >>          \* a part that holds nothing of any configuration

VARIABLES
    clock,      \* the time, truncated to seconds (TIMESTAMP_FORMAT)
    dir,        \* [suffix -> [stamp -> inode or None]], what the system sees
    dirDisk,    \* the same on the disk
    content,    \* [inode -> [part -> text it is a part of]]
    synced,     \* the inodes whose content is on the disk
    damage,     \* [inode -> what reading it meets]
    outages,    \* history: the number of losses of power
    pc,         \* [run -> where it is in write_backup]
    text,       \* [run -> the capture it is given]
    previous,   \* [run -> the stamp of latest_backup(), 0 if none]
    stamp,      \* [run -> the stamp of its path, 0 until then]
    fd,         \* [run -> the inode its handle is open on]
    written,    \* [run -> the parts written through the handle]
    status,     \* [run -> its BackupResult, or how it died]
    since,      \* history: [run -> the runs that have published a file since it
                \* published its own or found it unchanged, itself first, and None
                \* if the power was lost; {} until then]
    left        \* history: the runs stopped before their temporary file was removed

disk == <<dir, dirDisk, content, synced, damage>>
run  == <<pc, text, previous, stamp, fd, written, status, since, left>>
env  == <<clock, outages, damage, dirDisk>>
vars == <<clock, outages, disk, run>>

Suffixes == {"cfg", "tmp"}

\* An inode is named after the run that created it.
Inodes == Runs

Working  == {"list", "compare", "open", "write", "sync", "replace", "return", "cleanup"}
Statuses == {"none", "rejected", "unchanged", "written", "failed",
             "interrupted", "killed", "raised"}

TypeOK ==
    /\ clock \in Stamps
    /\ dir \in [Suffixes -> [Stamps -> Inodes \cup {None}]]
    /\ dirDisk \in [Suffixes -> [Stamps -> Inodes \cup {None}]]
    /\ content \in [Inodes -> [Parts -> Captures \cup {Hole}]]
    /\ synced \subseteq Inodes
    /\ damage \in [Inodes -> {"none", "unreadable", "undecodable"}]
    /\ outages \in 0..MaxOutages
    /\ pc \in [Runs -> {"idle", "ended"} \cup Working]
    /\ text \in [Runs -> Captures \cup {Hole}]
    /\ previous \in [Runs -> Stamps \cup {0}]
    /\ stamp \in [Runs -> Stamps \cup {0}]
    /\ fd \in [Runs -> Inodes \cup {None}]
    /\ written \in [Runs -> 0..2]
    /\ status \in [Runs -> Statuses]
    /\ since \in [Runs -> SUBSET (Runs \cup {None})]
    /\ left \subseteq Runs

Empty == [s \in Suffixes |-> [t \in Stamps |-> None]]

Init ==
    /\ clock = 1
    /\ dir = Empty /\ dirDisk = Empty
    /\ content = [i \in Inodes |-> [p \in Parts |-> Hole]]
    /\ synced = {}
    /\ damage = [i \in Inodes |-> "none"]
    /\ outages = 0
    /\ pc = [r \in Runs |-> "idle"]
    /\ text = [r \in Runs |-> Hole]
    /\ previous = [r \in Runs |-> 0]
    /\ stamp = [r \in Runs |-> 0]
    /\ fd = [r \in Runs |-> None]
    /\ written = [r \in Runs |-> 0]
    /\ status = [r \in Runs |-> "none"]
    /\ since = [r \in Runs |-> {}]
    /\ left = {}

-----------------------------------------------------------------------------
(* write_backup.                                                            *)

\* The run stops here with the given result.
End(r, result) ==
    /\ pc' = [pc EXCEPT ![r] = "ended"]
    /\ status' = [status EXCEPT ![r] = result]
    /\ since' = IF result = "unchanged" THEN [since EXCEPT ![r] = {r}] ELSE since

Go(r, to) ==
    /\ pc' = [pc EXCEPT ![r] = to]
    /\ UNCHANGED <<status, since>>

\* A capture that is not plausibly a configuration is refused at once.
Begin(r) ==
    /\ pc[r] = "idle"
    /\ Overlap \/ \A q \in Runs : pc[q] \notin Working
    /\ \E c \in Captures :
          /\ text' = [text EXCEPT ![r] = c]
          /\ IF config_problem(c) THEN End(r, "rejected") ELSE Go(r, "list")
    /\ UNCHANGED <<env, dir, content, synced, previous, stamp, fd, written, left>>

Backups == {t \in Stamps : dir["cfg"][t] # None}

\* Mutant: the first of the listing is taken.
Latest_First == IF Backups = {} THEN 0
                ELSE CHOOSE t \in Backups : \A u \in Backups : t <= u

Latest == IF Backups = {} THEN 0
          ELSE CHOOSE t \in Backups : \A u \in Backups : u <= t

\* latest_backup: the last name of a sorted listing of *.cfg.
List(r) ==
    /\ pc[r] = "list"
    /\ previous' = [previous EXCEPT ![r] = Latest]
    /\ Go(r, IF Latest = 0 \/ Forced THEN "open" ELSE "compare")
    /\ UNCHANGED <<env, dir, content, synced, text, stamp, fd, written, left>>

Holds(i, t) == \A p \in Parts : content[i][p] = t

\* Mutant: the texts are compared as they are.
Unchanged_Raw(i, t) == Holds(i, content[i][1]) /\ content[i][1] = t

Unchanged(i, t) == /\ Holds(i, content[i][1])
                   /\ normalize(content[i][1]) = normalize(t)

\* Only OSError is caught around the reading of the previous file: a file that
\* is not UTF-8 raises UnicodeDecodeError out of write_backup.
Compare(r) ==
    LET file == dir["cfg"][previous[r]] IN
    /\ pc[r] = "compare"
    /\ \/ damage[file] = "undecodable" /\ End(r, "raised")
       \/ damage[file] = "unreadable" /\ Go(r, "open")
       \/ damage[file] = "none" /\ Unchanged(file, text[r]) /\ End(r, "unchanged")
       \/ damage[file] = "none" /\ ~Unchanged(file, text[r]) /\ Go(r, "open")
    /\ UNCHANGED <<env, dir, content, synced, text, previous, stamp, fd, written, left>>

\* The path is named after the time; open(tmp, "w") creates or truncates.
Open(r) ==
    LET old  == dir["tmp"][clock]
        file == IF old = None THEN r ELSE old
    IN  /\ pc[r] = "open"
        /\ SameSecond \/ \A q \in Runs : stamp[q] # clock
        /\ stamp' = [stamp EXCEPT ![r] = clock]
        /\ dir' = [dir EXCEPT !["tmp"][clock] = file]
        /\ fd' = [fd EXCEPT ![r] = file]
        /\ content' = [content EXCEPT ![file] = [p \in Parts |-> Hole]]
        /\ synced' = synced \ {file}
        /\ Go(r, "write")
        /\ UNCHANGED <<env, text, previous, written, left>>

\* Mutant: the text is written once more than there are parts.
Write_Again(r) ==
    /\ pc[r] = "write"
    /\ written' = [written EXCEPT ![r] = @ + 1]
    /\ content' = [content EXCEPT ![fd[r]] =
                      [p \in Parts |-> IF p <= written'[r] THEN text[r] ELSE @[p]]]
    /\ synced' = synced \ {fd[r]}
    /\ Go(r, IF written'[r] > 2 THEN "sync" ELSE "write")
    /\ UNCHANGED <<env, dir, text, previous, stamp, fd, left>>

\* handle.write and flush: the parts reach the system one after the other.
Write(r) ==
    /\ pc[r] = "write"
    /\ written' = [written EXCEPT ![r] = @ + 1]
    /\ content' = [content EXCEPT ![fd[r]][written'[r]] = text[r]]
    /\ synced' = synced \ {fd[r]}
    /\ Go(r, IF written'[r] = 2 THEN "sync" ELSE "write")
    /\ UNCHANGED <<env, dir, text, previous, stamp, fd, left>>

\* Mutant: no fsync before the rename.
Sync_Skipped(r) ==
    /\ pc[r] = "sync"
    /\ Go(r, "replace")
    /\ UNCHANGED <<env, dir, content, synced, text, previous, stamp, fd, written, left>>

Sync(r) ==
    /\ pc[r] = "sync"
    /\ synced' = synced \cup {fd[r]}
    /\ Go(r, "replace")
    /\ UNCHANGED <<env, dir, content, text, previous, stamp, fd, written, left>>

\* A run has published a file: the runs that stored theirs before are told.
Published(r) == [q \in Runs |-> IF q = r THEN {r}
                               ELSE IF since[q] = {} THEN {} ELSE since[q] \cup {r}]

\* Mutant: the copy is published under the name of the previous backup.
Replace_Previous(r) ==
    LET to == IF previous[r] = 0 THEN stamp[r] ELSE previous[r] IN
    /\ pc[r] = "replace"
    /\ dir' = [dir EXCEPT !["cfg"][to] = dir["tmp"][stamp[r]], !["tmp"][stamp[r]] = None]
    /\ since' = Published(r)
    /\ pc' = [pc EXCEPT ![r] = "return"]
    /\ UNCHANGED <<env, content, synced, text, previous, stamp, fd, written, status, left>>

\* os.replace renames whatever the temporary name is linked to.
Replace(r) ==
    LET file == dir["tmp"][stamp[r]] IN
    /\ pc[r] = "replace"
    /\ \/ /\ file # None
          /\ dir' = [dir EXCEPT !["cfg"][stamp[r]] = file,
                                !["tmp"][stamp[r]] = None]
          /\ since' = Published(r)
          /\ pc' = [pc EXCEPT ![r] = "return"]
          /\ UNCHANGED status
       \/ /\ file = None        \* FileNotFoundError
          /\ pc' = [pc EXCEPT ![r] = "cleanup"]
          /\ status' = [status EXCEPT ![r] = "failed"]
          /\ UNCHANGED <<dir, since>>
    /\ UNCHANGED <<env, content, synced, text, previous, stamp, fd, written, left>>

\* Mutant: something is done after the rename that can fail as the rest can.
Return_Fails(r) ==
    /\ pc[r] = "return"
    /\ End(r, "written") \/ ("os_error" \in Faults /\ End(r, "failed"))
    /\ UNCHANGED <<env, dir, content, synced, text, previous, stamp, fd, written, left>>

\* The file is published; the caller is told only now.
Return(r) ==
    /\ pc[r] = "return"
    /\ End(r, "written")
    /\ UNCHANGED <<env, dir, content, synced, text, previous, stamp, fd, written, left>>

\* Mutant: no except clause around the writing.
Fail_LeavesFile(r) ==
    /\ pc[r] \in {"write", "sync", "replace"}
    /\ \/ "os_error" \in Faults /\ End(r, "failed")
       \/ "ctrl_c" \in Faults /\ End(r, "interrupted")
    /\ UNCHANGED <<env, dir, content, synced, text, previous, stamp, fd, written, left>>

\* An exception in _write_atomic: an OSError makes the result FAILED, Ctrl-C
\* goes through; both by way of the except clause.  The stamp of a run that
\* fails to open its file is the one it had just taken.  Ctrl-C may come when the
\* file is published and the try statement is not left yet.
Fail(r) ==
    /\ \/ /\ pc[r] = "open"
          /\ SameSecond \/ \A q \in Runs : stamp[q] # clock
          /\ stamp' = [stamp EXCEPT ![r] = clock]
       \/ pc[r] \in {"write", "sync", "replace", "return"} /\ UNCHANGED stamp
    /\ \/ "os_error" \in Faults /\ pc[r] # "return"
          /\ status' = [status EXCEPT ![r] = "failed"]
       \/ "ctrl_c" \in Faults /\ status' = [status EXCEPT ![r] = "interrupted"]
    /\ pc' = [pc EXCEPT ![r] = "cleanup"]
    /\ UNCHANGED <<env, dir, content, synced, text, previous, fd, written, since, left>>

\* tmp.unlink(missing_ok=True), which may fail in its turn or be cut short by a
\* second Ctrl-C.
Cleanup(r) ==
    /\ pc[r] = "cleanup"
    /\ pc' = [pc EXCEPT ![r] = "ended"]
    /\ \/ dir' = [dir EXCEPT !["tmp"][stamp[r]] = None] /\ UNCHANGED <<status, left>>
       \/ /\ \/ "os_error" \in Faults /\ status' = [status EXCEPT ![r] = "failed"]
             \/ "ctrl_c" \in Faults /\ status' = [status EXCEPT ![r] = "interrupted"]
          /\ left' = left \cup {r}
          /\ UNCHANGED dir
    /\ UNCHANGED <<env, content, synced, text, previous, stamp, fd, written, since>>

\* An exception outside of that try statement ends write_backup where it is: Ctrl-C,
\* an OSError of the listing, which nothing catches, or of mkdir, which makes the
\* result FAILED.
Escape(r) ==
    /\ \/ /\ "ctrl_c" \in Faults
          /\ pc[r] \in {"list", "compare", "open", "return"}
          /\ End(r, "interrupted")
       \/ "os_error" \in Faults /\ pc[r] = "list" /\ End(r, "raised")
       \/ "os_error" \in Faults /\ pc[r] = "open" /\ End(r, "failed")
    /\ UNCHANGED <<env, dir, content, synced, text, previous, stamp, fd, written, left>>

Kill(r) ==
    /\ "kill" \in Faults
    /\ pc[r] \in Working
    /\ End(r, "killed")
    /\ left' = IF pc[r] \in {"write", "sync", "replace", "cleanup"} THEN left \cup {r}
               ELSE left
    /\ UNCHANGED <<env, dir, content, synced, text, previous, stamp, fd, written>>

WriteBackup(r) == \/ Begin(r) \/ List(r) \/ Compare(r) \/ Open(r) \/ Write(r)
                  \/ Sync(r) \/ Replace(r) \/ Return(r) \/ Fail(r) \/ Cleanup(r)
                  \/ Escape(r) \/ Kill(r)

-----------------------------------------------------------------------------
(* The environment.                                                         *)

Tick == /\ \/ clock < MaxClock /\ clock' = clock + 1
           \/ "clock_back" \in Faults /\ clock > 1 /\ clock' = clock - 1
        /\ UNCHANGED <<outages, disk, run>>

\* A stored file is edited, or goes bad.
Damage == /\ \E t \in Backups, kind \in Faults \cap {"unreadable", "undecodable"} :
                damage' = [damage EXCEPT ![dir["cfg"][t]] = kind]
          /\ UNCHANGED <<clock, outages, dir, dirDisk, content, synced, run>>

\* The names reach the disk; nothing in the program waits for it.  Nothing tells when
\* they do but a loss of power, so the bound on those bounds this too.
Settle == /\ outages < MaxOutages
          /\ dirDisk' = dir
          /\ UNCHANGED <<clock, outages, dir, content, synced, damage, run>>

\* Of an inode that was not synced there is left what was written first.
Outage ==
    /\ outages < MaxOutages
    /\ outages' = outages + 1
    /\ dir' = dirDisk
    /\ \E cut \in [Inodes \ synced -> 0..2] :
          content' = [i \in Inodes |-> [p \in Parts |->
              IF i \in synced \/ p <= cut[i] THEN content[i][p] ELSE Hole]]
    /\ pc' = [r \in Runs |-> IF pc[r] \in Working THEN "ended" ELSE pc[r]]
    /\ status' = [r \in Runs |-> IF pc[r] \in Working THEN "killed" ELSE status[r]]
    /\ since' = [r \in Runs |-> IF since[r] = {} THEN {} ELSE since[r] \cup {None}]
    /\ UNCHANGED <<clock, dirDisk, synced, damage, text, previous, stamp, fd, written,
                   left>>

Next == \/ \E r \in Runs : WriteBackup(r)
        \/ Tick \/ Damage \/ Settle \/ Outage

Spec == Init /\ [][Next]_vars

-----------------------------------------------------------------------------
(* Properties.                                                              *)

Plausible == {c \in Captures : ~config_problem(c)}

\* "A crash mid-write leaves the previous backup intact rather than a truncated
\* file that looks like a config" (backup.py:13-14): every name of a backup, the
\* ones on the disk included, leads to a whole, plausible configuration that
\* the loss of power leaves as it is.
PublishedWhole ==
    \A d \in {dir, dirDisk}, t \in Stamps : d["cfg"][t] # None =>
        /\ d["cfg"][t] \in synced
        /\ \E c \in Plausible : Holds(d["cfg"][t], c)

\* "The directory listing is a change history" (backup.py:11-12): a backup is
\* never overwritten, changed or removed, whatever fails; the loss of power
\* takes away the names that had not reached the disk, and no other.
HistoryKept ==
    [][\A t \in Backups :
          outages' = outages \/ dirDisk["cfg"][t] # None =>
              /\ dir'["cfg"][t] = dir["cfg"][t]
              /\ content'[dir["cfg"][t]] = content[dir["cfg"][t]]]_vars

\* The name a run published its file under, or of the file it found unchanged.
Kept(r) == IF stamp[r] = 0 THEN previous[r] ELSE stamp[r]

\* A file that was stored is there, and holds the configuration the run was given, or
\* that of a run of the same second that has published since.
Stored(r) ==
    /\ Kept(r) \in Backups
    /\ \E q \in since[r] : /\ q = r \/ stamp[q] = Kept(r)
                           /\ Unchanged(dir["cfg"][Kept(r)], text[q])

\* What write_backup reports is so and stays so (backup.py:154-184).  WRITTEN and
\* UNCHANGED: the file is there, with that configuration.  REJECTED and FAILED:
\* nothing was published, unless Ctrl-C came after the rename and the except clause
\* could not do its work.  Every backup holds what a run that published under its
\* name was given, and only a run that was stopped has published without saying so.
ReportsTrue ==
    /\ \A r \in Runs : status[r] \in {"written", "unchanged"} =>
          since[r] # {} /\ (None \notin since[r] => Stored(r))
    /\ \A r \in Runs : since[r] # {} =>
          \/ status[r] \in {"written", "unchanged", "interrupted", "killed"}
          \/ pc[r] = "return"
          \/ status[r] = "failed" /\ r \in left /\ "ctrl_c" \in Faults
    /\ \A d \in {dir, dirDisk}, t \in Stamps : d["cfg"][t] # None =>
          \E q \in Runs : since[q] # {} /\ stamp[q] = t /\ Holds(d["cfg"][t], text[q])

\* An audit of "each device's most recent backup" (compliance.py:146) sees the
\* configuration that was stored last, by a run that has reported it or was stopped
\* before it could: the name that sorts last is the one written last (backup.py:96).
LatestIsLast ==
    \A r \in Runs : since[r] = {r} =>
        Latest # 0 /\ Unchanged(dir["cfg"][Latest], text[r])

\* A file that is not finished does not stay behind (backup.py:120-122): every
\* temporary file is that of a run at work, unless its run was killed at work on it or
\* its own unlink failed or was interrupted, however many runs are at work.
NoTemporaryLeft ==
    outages = 0 =>
        \A t \in Stamps : dir["tmp"][t] # None =>
            \E r \in Runs :
                /\ stamp[r] = t
                /\ pc[r] \in {"write", "sync", "replace", "cleanup"} \/ r \in left

\* write_backup "never raises", and "an unreadable previous backup should not
\* block a new one" (backup.py:133,166).
NeverRaises == \A r \in Runs : status[r] # "raised"

\* The directory implements BackupHistory.
Same(a, b) == normalize(a) = normalize(b)

Directory(d) == [t \in {u \in Stamps : d["cfg"][u] # None} |-> content[d["cfg"][t]][1]]

History == INSTANCE BackupHistory WITH
    MayRepeat  <- Forced \/ "unreadable" \in Faults,
    MayReplace <- SameSecond,
    files      <- Directory(dir),
    durable    <- Directory(dirDisk)

ImplementsHistory == History!Spec

-----------------------------------------------------------------------------
(* The inductive invariant behind PublishedWhole, when runs do not overlap  *)
(* or do not write within one second.                                       *)

Writing == {"write", "sync", "replace"}

\* Two runs at work on temporary files are at work on different ones.
Exclusive ==
    /\ ~Overlap => \A q, r \in Runs : pc[q] \in Working /\ pc[r] \in Working => q = r
    /\ ~SameSecond => \A q, r \in Runs : stamp[q] # 0 /\ stamp[q] = stamp[r] => q = r

\* Before a run creates its file, no name leads to it.
Fresh ==
    \A r \in Runs : pc[r] \in {"idle", "list", "compare", "open"} =>
        /\ stamp[r] = 0 /\ written[r] = 0
        /\ \A d \in {dir, dirDisk}, s \in Suffixes, t \in Stamps : d[s][t] # r

\* A run at work was given a configuration; its handle is open on the file its
\* temporary name leads to, which holds what it has written.
Handle ==
    \A r \in Runs :
        /\ pc[r] \in Working => text[r] \in Plausible
        /\ pc[r] \in Writing \cup {"return", "cleanup"} => stamp[r] \in Stamps
        /\ pc[r] \in Writing =>
              /\ fd[r] \in Inodes /\ dir["tmp"][stamp[r]] = fd[r]
              /\ \A p \in Parts : p <= written[r] => content[fd[r]][p] = text[r]
        /\ pc[r] = "write" => written[r] < 2
        /\ pc[r] \in {"sync", "replace"} => written[r] = 2
        /\ pc[r] = "replace" => fd[r] \in synced

\* A temporary file has one name, and is no backup, now or after an outage.
Apart ==
    /\ \A d \in {dir, dirDisk}, t, u \in Stamps :
          d["tmp"][t] # None /\ d["tmp"][t] = d["tmp"][u] => t = u
    /\ \A d \in {dir, dirDisk}, t, u \in Stamps :
          d["cfg"][t] # None => d["cfg"][t] # d["tmp"][u]
    /\ \A t, u \in Stamps : dirDisk["cfg"][t] # None => dirDisk["cfg"][t] # dir["tmp"][u]

IInv == TypeOK /\ Exclusive /\ Fresh /\ Handle /\ Apart /\ PublishedWhole

-----------------------------------------------------------------------------
(* What the other properties need besides: an inductive invariant of what   *)
(* has been published, and by whom.                                         *)

\* A backup has the name of a run that has published or failed, the same name on the
\* disk; a run has no result before it fails or ends.
Named ==
    /\ \A d \in {dir, dirDisk}, t \in Stamps : d["cfg"][t] # None =>
          \E q \in Runs : stamp[q] = t /\ pc[q] \in {"return", "cleanup", "ended"}
    /\ \A t \in Stamps : dirDisk["cfg"][t] # None =>
          dir["cfg"][t] # None /\ (SameSecond \/ dir["cfg"][t] = dirDisk["cfg"][t])
    /\ \A r \in Runs :
          /\ pc[r] \notin {"cleanup", "ended"} => status[r] = "none"
          /\ pc[r] = "cleanup" => status[r] \in {"failed", "interrupted"}

\* The previous backup a run compares with is there.  What a run has stored, it goes on
\* from there with its capture and its name unchanged, and the file is there before the
\* run says so.
Reported ==
    /\ \A r \in Runs : pc[r] = "compare" => previous[r] \in Backups
    /\ \A r \in Runs : since[r] # {} =>
          /\ pc[r] \in {"return", "cleanup", "ended"}
          /\ pc[r] = "cleanup" => "ctrl_c" \in Faults
          /\ r \in since[r]
          /\ \A q \in since[r] \ {None} : since[q] # {}
          /\ None \notin since[r] => Stored(r)
    /\ \A r \in Runs : pc[r] = "return" => since[r] # {}
    /\ ReportsTrue

\* One run after the other, under a clock that is not set back: the run at work writes
\* the last of the names, and what it writes is not what the last backup holds.
Orderly == ~Overlap /\ "clock_back" \notin Faults

InOrder ==
    /\ \A r \in Runs : stamp[r] <= clock
    /\ \A r \in Runs : pc[r] = "compare" => previous[r] = Latest
    /\ \A r \in Runs : pc[r] \in Writing => \A t \in Backups : t <= stamp[r]
    /\ \A i \in Inodes : damage[i] = "unreadable" => "unreadable" \in Faults
    /\ \A r \in Runs : pc[r] \in {"open"} \cup Writing =>
          \/ Forced \/ "unreadable" \in Faults
          \/ Latest # 0 => ~Same(content[dir["cfg"][Latest]][1], text[r])
    /\ LatestIsLast

HInv == IInv /\ Named /\ NoTemporaryLeft /\ Reported /\ (Orderly => InOrder)
=============================================================================
