-------------------------- MODULE BackupStoreProofs --------------------------
(***************************************************************************)
(* Proofs about BackupStore, for any runs, captures, faults and bounds.     *)
(***************************************************************************)
EXTENDS BackupStore, FiniteSetTheorems, SequenceTheorems, TLAPS

\* What keeps two runs off each other's temporary file: they do not overlap, or
\* they do not write within one second.
Separate == ~Overlap \/ ~SameSecond

\* The invariant holds of an empty directory.
LEMMA InitInv == Init => IInv
<1> SUFFICES ASSUME Init  PROVE IInv
  OBVIOUS
<1>1. TypeOK
  BY OptionsAssumption DEF Init, TypeOK, Stamps, Empty, Statuses, Working
<1>2. Exclusive
  BY DEF Init, Exclusive, Working
<1>3. Fresh
  BY OptionsAssumption DEF Init, Fresh, Empty
<1>4. Handle
  BY DEF Init, Handle, Working, Writing
<1>5. Apart /\ PublishedWhole
  BY DEF Init, Apart, PublishedWhole, Empty, Suffixes
<1> QED  BY <1>1, <1>2, <1>3, <1>4, <1>5 DEF IInv

\* Stamps are bounded, so a listing that is not empty has a last name.
LEMMA LatestExists == Backups = {} \/ \E t \in Backups : \A u \in Backups : u <= t
<1> SUFFICES ASSUME Backups # {}  PROVE \E t \in Backups : \A u \in Backups : u <= t
  OBVIOUS
<1> DEFINE above(t) == {u \in Stamps : t < u}
           tops == {above(t) : t \in Backups}
<1>1. Backups \subseteq Stamps /\ Stamps \subseteq Nat /\ IsFiniteSet(Stamps)
  BY OptionsAssumption, FS_Interval DEF Backups, Stamps
<1>2. \A t \in Stamps : above(t) \subseteq Stamps /\ IsFiniteSet(above(t))
  BY <1>1, FS_Subset
<1>3. tops \subseteq FiniteSubsetsOf(Stamps) /\ tops # {}
  BY <1>1, <1>2 DEF FiniteSubsetsOf
<1>4. \E x \in tops : \A y \in tops : <<y, x>> \notin StrictSubsetOrdering(Stamps)
  <2> HIDE DEF tops
  <2> QED  BY <1>3, FS_StrictSubsetOrderingWellFounded, WFMin
<1>5. PICK t \in Backups :
        \A u \in Backups : <<above(u), above(t)>> \notin StrictSubsetOrdering(Stamps)
  BY <1>4
<1>6. ASSUME NEW u \in Backups, ~(u <= t)  PROVE FALSE
  <2>1. above(u) \subseteq above(t) /\ u \in above(t) /\ u \notin above(u)
    <3>1. t \in Nat /\ u \in Stamps /\ t < u /\ ~(u < u)
      BY <1>1, <1>6
    <3>2. \A v \in Stamps : u < v => t < v
      BY <1>1, <3>1
    <3> QED  BY <3>1, <3>2
  <2>2. <<above(u), above(t)>> \in StrictSubsetOrdering(Stamps)
    BY <1>1, <1>2, <2>1 DEF StrictSubsetOrdering
  <2> QED  BY <1>5, <2>2
<1> QED  BY <1>6

\* A step that touches no file keeps what is said of the files alone.
LEMMA FilesUntouched ==
  ASSUME Apart, PublishedWhole, UNCHANGED <<dir, dirDisk, content, synced>>
  PROVE  Apart' /\ PublishedWhole'
BY DEF Apart, PublishedWhole, Holds

\* A step that creates no name keeps a run without one in that state.
LEMMA FreshKept ==
  ASSUME Fresh, UNCHANGED <<dir, dirDisk>>,
         \A r \in Runs :
            pc'[r] \in {"idle", "list", "compare", "open"} =>
               /\ pc[r] \in {"idle", "list", "compare", "open"}
               /\ stamp'[r] = stamp[r] /\ written'[r] = written[r]
  PROVE  Fresh'
BY DEF Fresh

\* A run that goes on, or stops, with the handle and the files as they were.
LEMMA HandleKept ==
  ASSUME NEW r \in Runs, TypeOK, Handle, NEW to,
         pc' = [pc EXCEPT ![r] = to],
         to \in {"compare", "open", "ended"} \/ (to = "cleanup" /\ stamp'[r] \in Stamps),
         to # "ended" => pc[r] \in Working,
         \A q \in Runs \ {r} : stamp'[q] = stamp[q],
         UNCHANGED <<dir, content, synced, text, fd, written>>
  PROVE  Handle'
<1> SUFFICES ASSUME NEW q \in Runs
             PROVE  /\ pc'[q] \in Working => text[q] \in Plausible
                    /\ pc'[q] \in Writing \cup {"return", "cleanup"} => stamp'[q] \in Stamps
                    /\ pc'[q] \in Writing =>
                         /\ fd[q] \in Inodes /\ dir["tmp"][stamp'[q]] = fd[q]
                         /\ \A p \in Parts : p <= written[q] => content[fd[q]][p] = text[q]
                    /\ pc'[q] = "write" => written[q] < 2
                    /\ pc'[q] \in {"sync", "replace"} => written[q] = 2
                    /\ pc'[q] = "replace" => fd[q] \in synced
  BY DEF Handle
<1>1. CASE q = r
  <2>1. pc'[q] = to
    BY <1>1 DEF TypeOK
  <2> QED  BY <1>1, <2>1 DEF Handle, Working, Writing
<1>2. CASE q # r
  BY <1>2 DEF Handle, TypeOK
<1> QED  BY <1>1, <1>2

\* A run begins: its capture is refused, or is plausible from then on.
LEMMA BeginStep == ASSUME IInv, NEW r \in Runs, Begin(r)  PROVE IInv'
<1> USE DEF IInv
<1>1. PICK c \in Captures :
        /\ text' = [text EXCEPT ![r] = c]
        /\ IF config_problem(c) THEN End(r, "rejected") ELSE Go(r, "list")
  BY DEF Begin
<1>2. /\ UNCHANGED <<clock, outages, damage, dirDisk, dir, content, synced, previous,
                     stamp, fd, written, left>>
      /\ pc[r] = "idle" /\ (Overlap \/ \A q \in Runs : pc[q] \notin Working)
  BY DEF Begin, env
<1>3. CASE config_problem(c)
  <2>1. pc' = [pc EXCEPT ![r] = "ended"] /\ status' = [status EXCEPT ![r] = "rejected"]
        /\ since' = since
    BY <1>1, <1>3 DEF End
  <2>2. TypeOK'
    BY <1>1, <1>2, <2>1 DEF TypeOK, Statuses
  <2>3. Exclusive' /\ Handle'
    BY <1>1, <1>2, <2>1 DEF TypeOK, Exclusive, Handle, Working, Writing
  <2>4. Fresh'
    BY <1>2, <2>1, FreshKept DEF TypeOK
  <2> QED  BY <1>2, <2>2, <2>3, <2>4, FilesUntouched
<1>4. CASE ~config_problem(c)
  <2>1. pc' = [pc EXCEPT ![r] = "list"] /\ UNCHANGED <<status, since>>
    BY <1>1, <1>4 DEF Go
  <2>2. TypeOK'
    BY <1>1, <1>2, <2>1 DEF TypeOK, Working
  <2>3. c \in Plausible
    BY <1>4 DEF Plausible
  <2>4. Handle'
    BY <1>1, <1>2, <2>1, <2>3 DEF TypeOK, Handle, Working, Writing
  <2>5. Exclusive'
    BY <1>2, <2>1 DEF TypeOK, Exclusive, Working
  <2>6. Fresh'
    BY <1>2, <2>1, FreshKept DEF TypeOK
  <2> QED  BY <1>2, <2>2, <2>4, <2>5, <2>6, FilesUntouched
<1> QED  BY <1>3, <1>4

\* The last backup is looked up: only the run's own `previous` changes.
LEMMA ListStep == ASSUME IInv, NEW r \in Runs, List(r)  PROVE IInv'
<1> USE DEF IInv
<1>1. PICK to \in {"compare", "open"} :
        pc' = [pc EXCEPT ![r] = to] /\ UNCHANGED <<status, since>>
  BY DEF List, Go
<1>2. /\ UNCHANGED <<clock, outages, damage, dirDisk, dir, content, synced, text,
                     stamp, fd, written, left>>
      /\ pc[r] = "list"
      /\ previous' = [previous EXCEPT ![r] = Latest]
  BY DEF List, env
<1>3. Latest \in Stamps \cup {0}
  <2>1. CASE \E t \in Backups : \A u \in Backups : u <= t
    BY <2>1 DEF Latest, Backups
  <2>2. CASE Backups = {}
    BY <2>2 DEF Latest
  <2> QED  BY <2>1, <2>2, LatestExists
<1>4. TypeOK'
  BY <1>1, <1>2, <1>3 DEF TypeOK, Working
<1>5. Exclusive'
  BY <1>1, <1>2 DEF TypeOK, Exclusive, Working
<1>6. Fresh'
  BY <1>1, <1>2, FreshKept DEF TypeOK
<1>7. Handle'
  BY <1>1, <1>2, HandleKept DEF Working
<1> QED  BY <1>2, <1>4, <1>5, <1>6, <1>7, FilesUntouched

\* The previous backup is read and compared: no file changes.
LEMMA CompareStep == ASSUME IInv, NEW r \in Runs, Compare(r)  PROVE IInv'
<1> USE DEF IInv
<1>1. PICK to \in {"open", "ended"} : pc' = [pc EXCEPT ![r] = to]
  BY DEF Compare, Go, End
<1>2. /\ UNCHANGED <<clock, outages, damage, dirDisk, dir, content, synced, text,
                     previous, stamp, fd, written, left>>
      /\ pc[r] = "compare"
  BY DEF Compare, env
<1>3. status' \in [Runs -> Statuses]
  BY DEF Compare, Go, End, TypeOK, Statuses
<1>4. since' \in [Runs -> SUBSET (Runs \cup {None})]
  <2>1. since' = since \/ since' = [since EXCEPT ![r] = {r}]
    BY DEF Compare, Go, End
  <2> QED  BY <2>1 DEF TypeOK
<1>5. TypeOK'
  BY <1>1, <1>2, <1>3, <1>4 DEF TypeOK, Working
<1>6. Exclusive'
  BY <1>1, <1>2 DEF TypeOK, Exclusive, Working
<1>7. Fresh'
  BY <1>1, <1>2, FreshKept DEF TypeOK
<1>8. Handle'
  BY <1>1, <1>2, HandleKept DEF Working
<1> QED  BY <1>2, <1>5, <1>6, <1>7, <1>8, FilesUntouched

\* An error or a kill: the files stay, the run is at the cleanup or is over.
LEMMA FailStep == ASSUME IInv, NEW r \in Runs, Fail(r)  PROVE IInv'
<1> USE DEF IInv
<1>1. /\ pc' = [pc EXCEPT ![r] = "cleanup"] /\ pc[r] \in {"open", "return"} \cup Writing
      /\ \/ /\ pc[r] \in {"return"} \cup Writing
            /\ stamp' = stamp
         \/ /\ SameSecond \/ \A q \in Runs : stamp[q] # clock
            /\ stamp' = [stamp EXCEPT ![r] = clock]
  BY DEF Fail, Writing
<1>2. UNCHANGED <<clock, outages, damage, dirDisk, dir, content, synced, text,
                  previous, fd, written, since, left>>
  BY DEF Fail, env
<1>3. status' \in [Runs -> Statuses]
  BY DEF Fail, TypeOK, Statuses
<1>4. stamp'[r] \in Stamps
  BY <1>1 DEF Handle, TypeOK
<1>5. TypeOK'
  BY <1>1, <1>2, <1>3, <1>4 DEF TypeOK, Working
<1>6. Exclusive'
  <2>1. ~Overlap => \A q, p \in Runs : pc'[q] \in Working /\ pc'[p] \in Working => q = p
    BY <1>1 DEF TypeOK, Exclusive, Working, Writing
  <2>2. ~SameSecond => \A q, p \in Runs : stamp'[q] # 0 /\ stamp'[q] = stamp'[p] => q = p
    BY <1>1, <1>4 DEF TypeOK, Exclusive
  <2> QED  BY <2>1, <2>2 DEF Exclusive
<1>7. Fresh'
  BY <1>1, <1>2, FreshKept DEF TypeOK
<1>8. Handle'
  BY <1>1, <1>2, <1>4, HandleKept DEF Working, Writing, TypeOK
<1> QED  BY <1>2, <1>5, <1>6, <1>7, <1>8, FilesUntouched

\* The caller is told, an exception goes through to it, or a kill stops the run: no
\* file changes.
LEMMA StopStep ==
  ASSUME IInv, NEW r \in Runs, Return(r) \/ Escape(r) \/ Kill(r)
  PROVE  IInv'
<1> USE DEF IInv
<1>1. /\ pc' = [pc EXCEPT ![r] = "ended"]
      /\ UNCHANGED <<clock, outages, damage, dirDisk, dir, content, synced, text,
                     previous, stamp, fd, written>>
      /\ pc[r] \in Working
  BY DEF Return, Escape, Kill, End, env, Working
<1>2. status' \in [Runs -> Statuses] /\ since' = since /\ left' \subseteq Runs
  BY DEF Return, Escape, Kill, End, TypeOK, Statuses
<1>3. TypeOK'
  BY <1>1, <1>2 DEF TypeOK
<1>4. Exclusive'
  BY <1>1 DEF TypeOK, Exclusive, Working
<1>5. Fresh'
  BY <1>1, FreshKept DEF TypeOK
<1>6. Handle'
  BY <1>1, HandleKept
<1> QED  BY <1>1, <1>3, <1>4, <1>5, <1>6, FilesUntouched

\* Two runs that write have different temporary names, and different files.
LEMMA OtherWriter ==
  ASSUME IInv, Separate, NEW q \in Runs, NEW r \in Runs, q # r,
         pc[q] \in Writing \cup {"cleanup"}, pc[r] \in Writing \cup {"cleanup"}
  PROVE  /\ stamp[q] # stamp[r]
         /\ pc[q] \in Writing /\ pc[r] \in Writing => fd[q] # fd[r]
<1>1. stamp[q] \in Stamps /\ stamp[r] \in Stamps
  BY DEF IInv, Handle
<1>2. stamp[q] # stamp[r]
  <2>1. CASE ~Overlap
    BY <2>1 DEF IInv, Exclusive, Working, Writing
  <2>2. CASE ~SameSecond
    BY <1>1, <2>2, OptionsAssumption DEF IInv, Exclusive, Stamps
  <2> QED  BY <2>1, <2>2 DEF Separate
<1>3. ASSUME pc[q] \in Writing, pc[r] \in Writing  PROVE fd[q] # fd[r]
  <2>1. /\ fd[q] # None /\ dir["tmp"][stamp[q]] = fd[q]
        /\ dir["tmp"][stamp[r]] = fd[r]
    BY <1>3, OptionsAssumption DEF IInv, Handle, Inodes
  <2> QED  BY <1>1, <1>2, <2>1 DEF IInv, Apart
<1> QED  BY <1>2, <1>3

\* The file a run writes is no backup.
LEMMA WriterApart ==
  ASSUME IInv, NEW r \in Runs, pc[r] \in Writing
  PROVE  \A d \in {dir, dirDisk}, t \in Stamps : d["cfg"][t] # None => d["cfg"][t] # fd[r]
BY DEF IInv, Handle, Apart

\* A step that changes the content of files that are no backup.
LEMMA PublishedKept ==
  ASSUME PublishedWhole, NEW file,
         UNCHANGED <<dir, dirDisk>>,
         \A d \in {dir, dirDisk}, t \in Stamps : d["cfg"][t] # None => d["cfg"][t] # file,
         \A i \in Inodes \ {file} : content'[i] = content[i],
         \A i \in synced : i # file => i \in synced',
         TypeOK
  PROVE  PublishedWhole'
<1> SUFFICES ASSUME NEW d \in {dir, dirDisk}, NEW t \in Stamps, d["cfg"][t] # None
             PROVE  /\ d["cfg"][t] \in synced'
                    /\ \E c \in Plausible : \A p \in Parts : content'[d["cfg"][t]][p] = c
  BY DEF PublishedWhole, Holds
<1>1. d["cfg"][t] \in Inodes \ {file}
  BY DEF TypeOK, Suffixes
<1>2. /\ d["cfg"][t] \in synced
      /\ \E c \in Plausible : \A p \in Parts : content[d["cfg"][t]][p] = c
  BY DEF PublishedWhole, Holds
<1> QED  BY <1>1, <1>2

\* A part is written to the run's own file, which is no backup yet.
LEMMA WriteStep == ASSUME IInv, Separate, NEW r \in Runs, Write(r)  PROVE IInv'
<1> USE DEF IInv
<1>1. /\ pc[r] = "write" /\ written[r] \in {0, 1}
      /\ fd[r] \in Inodes /\ text[r] \in Captures /\ stamp[r] \in Stamps
  BY DEF Write, Handle, TypeOK, Working, Writing, Plausible
<1>2. /\ written' = [written EXCEPT ![r] = written[r] + 1]
      /\ written'[r] = written[r] + 1 /\ written'[r] \in Parts
  BY <1>1 DEF Write, TypeOK, Parts
<1>3. /\ content' = [content EXCEPT ![fd[r]] =
                        [content[fd[r]] EXCEPT ![written'[r]] = text[r]]]
      /\ synced' = synced \ {fd[r]}
      /\ UNCHANGED <<clock, outages, damage, dirDisk, dir, text, previous, stamp, fd,
                     status, since, left>>
  BY DEF Write, Go, env
<1>4. PICK to \in {"sync", "write"} : /\ pc' = [pc EXCEPT ![r] = to]
                                      /\ to = IF written'[r] = 2 THEN "sync" ELSE "write"
  BY DEF Write, Go
<1>5. TypeOK'
  <2>1. content' \in [Inodes -> [Parts -> Captures \cup {Hole}]]
    BY <1>1, <1>2, <1>3 DEF TypeOK
  <2>2. written' \in [Runs -> 0..2]
    BY <1>1, <1>2 DEF TypeOK
  <2> QED  BY <1>3, <1>4, <2>1, <2>2 DEF TypeOK, Working
<1>6. Exclusive'
  BY <1>1, <1>3, <1>4 DEF TypeOK, Exclusive, Working
<1>7. Fresh'
  <2>1. \A q \in Runs : pc'[q] \in {"idle", "list", "compare", "open"} =>
           q # r /\ pc'[q] = pc[q] /\ written'[q] = written[q]
    BY <1>2, <1>4 DEF TypeOK
  <2> QED  BY <1>3, <2>1, FreshKept
<1>8. Handle'
  <2>1. ASSUME NEW q \in Runs, q # r, pc[q] \in Writing
        PROVE  content'[fd[q]] = content[fd[q]] /\ (fd[q] \in synced => fd[q] \in synced')
    <3>1. fd[q] # fd[r] /\ fd[q] \in Inodes
      BY <1>1, <2>1, OtherWriter DEF Handle, Writing
    <3> QED  BY <1>1, <1>3, <3>1 DEF TypeOK
  <2>2. \A p \in Parts : p <= written'[r] => content'[fd[r]][p] = text[r]
    <3>1. \A p \in Parts : p <= written[r] => content[fd[r]][p] = text[r]
      BY <1>1 DEF Handle, Writing
    <3>2. \A p \in Parts : content'[fd[r]][p] =
                 IF p = written'[r] THEN text[r] ELSE content[fd[r]][p]
      BY <1>1, <1>2, <1>3 DEF TypeOK
    <3>3. \A p \in Parts : p <= written'[r] => p = written'[r] \/ p <= written[r]
      BY <1>1, <1>2 DEF Parts
    <3> QED  BY <3>1, <3>2, <3>3
  <2>3. to = "write" => written'[r] < 2
    BY <1>2, <1>4 DEF Parts
  <2>4. \A q \in Runs : pc'[q] = (IF q = r THEN to ELSE pc[q])
                        /\ (q # r => written'[q] = written[q])
    BY <1>2, <1>4 DEF TypeOK
  <2>5. dir["tmp"][stamp[r]] = fd[r] /\ text[r] \in Plausible
    BY <1>1 DEF Handle, Working, Writing
  <2> SUFFICES ASSUME NEW q \in Runs
               PROVE  /\ pc'[q] \in Working => text[q] \in Plausible
                      /\ pc'[q] \in Writing \cup {"return", "cleanup"} => stamp[q] \in Stamps
                      /\ pc'[q] \in Writing =>
                           /\ fd[q] \in Inodes /\ dir["tmp"][stamp[q]] = fd[q]
                           /\ \A p \in Parts : p <= written'[q] => content'[fd[q]][p] = text[q]
                      /\ pc'[q] = "write" => written'[q] < 2
                      /\ pc'[q] \in {"sync", "replace"} => written'[q] = 2
                      /\ pc'[q] = "replace" => fd[q] \in synced'
    BY <1>3 DEF Handle
  <2>6. CASE q = r
    BY <1>1, <1>4, <2>2, <2>3, <2>4, <2>5, <2>6
  <2>7. CASE q # r
    BY <2>1, <2>4, <2>7 DEF Handle, Writing
  <2> QED  BY <2>6, <2>7
<1>9. Apart'
  BY <1>3 DEF Apart
<1>10. PublishedWhole'
  <2>1. \A i \in Inodes \ {fd[r]} : content'[i] = content[i]
    BY <1>3 DEF TypeOK
  <2> QED  BY <1>1, <1>3, <2>1, WriterApart, PublishedKept DEF Writing
<1> QED  BY <1>5, <1>6, <1>7, <1>8, <1>9, <1>10

\* fsync puts the run's file on the disk, whole.
LEMMA SyncStep == ASSUME IInv, NEW r \in Runs, Sync(r)  PROVE IInv'
<1> USE DEF IInv
<1>1. /\ pc[r] = "sync" /\ pc' = [pc EXCEPT ![r] = "replace"]
      /\ synced' = synced \cup {fd[r]}
      /\ UNCHANGED <<clock, outages, damage, dirDisk, dir, content, text, previous,
                     stamp, fd, written, status, since, left>>
  BY DEF Sync, Go, env
<1>2. fd[r] \in Inodes
  BY <1>1 DEF Handle, Writing
<1>3. TypeOK'
  BY <1>1, <1>2 DEF TypeOK, Working
<1>4. Exclusive'
  BY <1>1 DEF TypeOK, Exclusive, Working
<1>5. Fresh'
  BY <1>1, FreshKept DEF TypeOK
<1>6. Handle'
  BY <1>1 DEF TypeOK, Handle, Working, Writing
<1>7. Apart' /\ PublishedWhole'
  BY <1>1 DEF Apart, PublishedWhole, Holds
<1> QED  BY <1>3, <1>4, <1>5, <1>6, <1>7

\* open() gives the run a file of its own under the name of this second.
LEMMA OpenStep == ASSUME IInv, Separate, NEW r \in Runs, Open(r)  PROVE IInv'
<1> USE DEF IInv
<1> DEFINE old  == dir["tmp"][clock]
           file == IF old = None THEN r ELSE old
<1>1. /\ pc[r] = "open" /\ pc' = [pc EXCEPT ![r] = "write"]
      /\ SameSecond \/ \A q \in Runs : stamp[q] # clock
      /\ stamp' = [stamp EXCEPT ![r] = clock]
      /\ dir' = [dir EXCEPT !["tmp"] = [dir["tmp"] EXCEPT ![clock] = file]]
      /\ fd' = [fd EXCEPT ![r] = file]
      /\ content' = [content EXCEPT ![file] = [p \in Parts |-> Hole]]
      /\ synced' = synced \ {file}
      /\ UNCHANGED <<clock, outages, damage, dirDisk, text, previous, written,
                     status, since, left>>
  BY DEF Open, Go, env
<1>2. clock \in Stamps /\ clock # 0 /\ file \in Inodes /\ file # None
  BY OptionsAssumption DEF TypeOK, Stamps, Suffixes, Inodes
<1>3. /\ stamp[r] = 0 /\ written[r] = 0 /\ text[r] \in Plausible
      /\ \A d \in {dir, dirDisk}, s \in Suffixes, t \in Stamps : d[s][t] # r
  BY <1>1 DEF Fresh, Handle, Working
<1> HIDE DEF file
<1>4. file = r \/ file = dir["tmp"][clock]
  BY DEF file
<1>5. /\ dir'["cfg"] = dir["cfg"] /\ dir'["tmp"][clock] = file
      /\ \A t \in Stamps : t # clock => dir'["tmp"][t] = dir["tmp"][t]
  BY <1>1, <1>2 DEF TypeOK, Suffixes
<1>6. TypeOK'
  <2>1. dir' \in [Suffixes -> [Stamps -> Inodes \cup {None}]]
    BY <1>1, <1>2 DEF TypeOK, Suffixes
  <2>2. content' \in [Inodes -> [Parts -> Captures \cup {Hole}]]
    BY <1>1, <1>2 DEF TypeOK
  <2> QED  BY <1>1, <1>2, <2>1, <2>2 DEF TypeOK, Working
<1>7. Exclusive'
  <2>1. ~Overlap => \A q, p \in Runs : pc'[q] \in Working /\ pc'[p] \in Working => q = p
    BY <1>1 DEF TypeOK, Exclusive, Working
  <2>2. ~SameSecond => \A q, p \in Runs : stamp'[q] # 0 /\ stamp'[q] = stamp'[p] => q = p
    BY <1>1 DEF TypeOK, Exclusive
  <2> QED  BY <2>1, <2>2 DEF Exclusive
\* The file is no backup: it is new, or it was a temporary one.
<1>8. \A d \in {dir, dirDisk}, t \in Stamps : d["cfg"][t] # None => d["cfg"][t] # file
  BY <1>2, <1>3, <1>4 DEF Apart, Suffixes
\* No other temporary name leads to it.
<1>9. \A t \in Stamps : t # clock => dir["tmp"][t] # file
  BY <1>2, <1>3, <1>4 DEF Apart, Suffixes
<1>10. Apart'
  <2>1. \A t, u \in Stamps :
           dir'["tmp"][t] # None /\ dir'["tmp"][t] = dir'["tmp"][u] => t = u
    BY <1>5, <1>9 DEF Apart
  <2>2. \A t, u \in Stamps : dir'["cfg"][t] # None => dir'["cfg"][t] # dir'["tmp"][u]
    BY <1>5, <1>8 DEF Apart
  <2>3. \A t, u \in Stamps : dirDisk["cfg"][t] # None => dirDisk["cfg"][t] # dir'["tmp"][u]
    BY <1>5, <1>8 DEF Apart
  <2> QED  BY <1>1, <2>1, <2>2, <2>3 DEF Apart
<1>11. PublishedWhole'
  <2>1. \A i \in Inodes \ {file} : content'[i] = content[i]
    BY <1>1 DEF TypeOK
  <2> SUFFICES ASSUME NEW d \in {dir', dirDisk'}, NEW t \in Stamps, d["cfg"][t] # None
               PROVE  /\ d["cfg"][t] \in synced'
                      /\ \E c \in Plausible : \A p \in Parts : content'[d["cfg"][t]][p] = c
    BY DEF PublishedWhole, Holds
  <2>2. PICK e \in {dir, dirDisk} : d["cfg"] = e["cfg"]
    BY <1>1, <1>5
  <2>3. e["cfg"][t] \in synced /\ e["cfg"][t] \in Inodes \ {file}
    BY <1>8, <2>2 DEF PublishedWhole, TypeOK, Suffixes
  <2>4. \E c \in Plausible : \A p \in Parts : content[e["cfg"][t]][p] = c
    BY <2>2 DEF PublishedWhole, Holds
  <2> QED  BY <1>1, <2>1, <2>2, <2>3, <2>4
<1>12. Fresh'
  <2> SUFFICES ASSUME NEW q \in Runs, pc'[q] \in {"idle", "list", "compare", "open"}
               PROVE  /\ stamp'[q] = 0 /\ written'[q] = 0
                      /\ \A d \in {dir', dirDisk}, s \in Suffixes, t \in Stamps : d[s][t] # q
    BY <1>1 DEF Fresh
  <2>1. q # r /\ pc'[q] = pc[q]
    BY <1>1 DEF TypeOK
  <2>2. file # q
    BY <1>2, <1>4, <2>1 DEF Fresh, Suffixes
  <2>3. \A s \in Suffixes, t \in Stamps : dir'[s][t] # q
    BY <1>5, <2>1, <2>2 DEF Fresh, Suffixes
  <2> QED  BY <1>1, <2>1, <2>3 DEF Fresh, TypeOK
<1>13. Handle'
  <2>1. ASSUME NEW q \in Runs, q # r, pc[q] \in Writing \cup {"cleanup"}
        PROVE  stamp[q] # clock
    BY <1>1, <2>1 DEF Separate, Exclusive, Working, Writing
  <2>2. ASSUME NEW q \in Runs, q # r, pc[q] \in Writing
        PROVE  /\ dir'["tmp"][stamp[q]] = fd[q] /\ content'[fd[q]] = content[fd[q]]
               /\ fd[q] \in synced => fd[q] \in synced'
    <3>1. stamp[q] # clock /\ stamp[q] \in Stamps /\ fd[q] \in Inodes
          /\ dir["tmp"][stamp[q]] = fd[q]
      BY <2>1, <2>2 DEF Handle
    <3>2. fd[q] # file
      BY <1>9, <3>1
    <3> QED  BY <1>1, <1>5, <3>1, <3>2 DEF TypeOK
  <2>3. \A q \in Runs : /\ pc'[q] = (IF q = r THEN "write" ELSE pc[q])
                        /\ stamp'[q] = (IF q = r THEN clock ELSE stamp[q])
                        /\ fd'[q] = (IF q = r THEN file ELSE fd[q])
    BY <1>1 DEF TypeOK
  <2>4. \A p \in Parts : ~(p <= 0)
    BY DEF Parts
  <2> SUFFICES ASSUME NEW q \in Runs
               PROVE  /\ pc'[q] \in Working => text[q] \in Plausible
                      /\ pc'[q] \in Writing \cup {"return", "cleanup"} => stamp'[q] \in Stamps
                      /\ pc'[q] \in Writing =>
                           /\ fd'[q] \in Inodes /\ dir'["tmp"][stamp'[q]] = fd'[q]
                           /\ \A p \in Parts : p <= written[q] => content'[fd'[q]][p] = text[q]
                      /\ pc'[q] = "write" => written[q] < 2
                      /\ pc'[q] \in {"sync", "replace"} => written[q] = 2
                      /\ pc'[q] = "replace" => fd'[q] \in synced'
    BY <1>1 DEF Handle
  <2>5. CASE q = r
    BY <1>2, <1>3, <1>5, <2>3, <2>4, <2>5
  <2>6. CASE q # r
    BY <2>2, <2>3, <2>6 DEF Handle, Writing
  <2> QED  BY <2>5, <2>6
<1> QED  BY <1>6, <1>7, <1>10, <1>11, <1>12, <1>13

\* A step of r that only unlinks its temporary name, once it no longer writes.
LEMMA Unlink ==
  ASSUME IInv, Separate, NEW r \in Runs, pc[r] \in Writing \cup {"cleanup"},
         pc' = [pc EXCEPT ![r] = "ended"],
         dir' = [dir EXCEPT !["tmp"] = [dir["tmp"] EXCEPT ![stamp[r]] = None]],
         UNCHANGED <<dirDisk, content, synced, text, stamp, fd, written>>
  PROVE  Exclusive' /\ Fresh' /\ Handle' /\ Apart' /\ PublishedWhole'
<1> USE DEF IInv
<1>1. stamp[r] \in Stamps
  BY DEF Handle
<1>2. /\ dir'["cfg"] = dir["cfg"]
      /\ \A t \in Stamps : dir'["tmp"][t] = IF t = stamp[r] THEN None ELSE dir["tmp"][t]
  BY <1>1 DEF TypeOK, Suffixes
<1>3. Exclusive'
  BY DEF TypeOK, Exclusive, Working
<1>4. Fresh'
  <2> SUFFICES ASSUME NEW q \in Runs, pc'[q] \in {"idle", "list", "compare", "open"}
               PROVE  /\ stamp[q] = 0 /\ written[q] = 0
                      /\ \A d \in {dir', dirDisk}, s \in Suffixes, t \in Stamps : d[s][t] # q
    BY DEF Fresh
  <2>1. pc'[q] = pc[q]
    BY DEF TypeOK
  <2>2. \A s \in Suffixes, t \in Stamps : dir'[s][t] # q
    BY <1>2, <2>1, OptionsAssumption DEF Fresh, Suffixes
  <2> QED  BY <2>1, <2>2 DEF Fresh
<1>5. Handle'
  <2>1. ASSUME NEW q \in Runs, q # r, pc[q] \in Writing
        PROVE  dir'["tmp"][stamp[q]] = fd[q]
    <3>1. stamp[q] # stamp[r] /\ stamp[q] \in Stamps /\ dir["tmp"][stamp[q]] = fd[q]
      BY <2>1, OtherWriter DEF Handle
    <3> QED  BY <1>2, <3>1
  <2>2. \A q \in Runs : pc'[q] = (IF q = r THEN "ended" ELSE pc[q])
    BY DEF TypeOK
  <2> QED  BY <2>1, <2>2 DEF Handle, Working, Writing
<1>6. Apart' /\ PublishedWhole'
  BY <1>2 DEF Apart, PublishedWhole, Holds
<1> QED  BY <1>3, <1>4, <1>5, <1>6

\* The except clause unlinks the run's temporary name, or fails to.
LEMMA CleanupStep == ASSUME IInv, Separate, NEW r \in Runs, Cleanup(r)  PROVE IInv'
<1> USE DEF IInv
<1>1. /\ pc[r] = "cleanup" /\ pc' = [pc EXCEPT ![r] = "ended"]
      /\ UNCHANGED <<clock, outages, damage, dirDisk, content, synced, text, previous,
                     stamp, fd, written, since>>
  BY DEF Cleanup, env
<1>2. /\ stamp[r] \in Stamps
      /\ status' \in [Runs -> Statuses] /\ left' \subseteq Runs
  BY <1>1 DEF Cleanup, Handle, TypeOK, Statuses
<1>3. CASE dir' = [dir EXCEPT !["tmp"] = [dir["tmp"] EXCEPT ![stamp[r]] = None]]
  <2>1. TypeOK'
    BY <1>1, <1>2, <1>3 DEF TypeOK, Suffixes
  <2> QED  BY <1>1, <1>3, <2>1, Unlink
<1>4. CASE dir' = dir
  <2>1. TypeOK'
    BY <1>1, <1>2, <1>4 DEF TypeOK
  <2>2. Exclusive'
    BY <1>1 DEF TypeOK, Exclusive, Working
  <2>3. Fresh'
    BY <1>1, <1>4, FreshKept DEF TypeOK
  <2>4. Handle'
    BY <1>1, <1>4, HandleKept
  <2> QED  BY <1>1, <1>4, <2>1, <2>2, <2>3, <2>4, FilesUntouched
<1> QED  BY <1>3, <1>4 DEF Cleanup

\* os.replace publishes a file that is whole and on the disk.
LEMMA ReplaceStep == ASSUME IInv, Separate, NEW r \in Runs, Replace(r)  PROVE IInv'
<1> USE DEF IInv
<1>1. /\ pc[r] = "replace"
      /\ UNCHANGED <<clock, outages, damage, dirDisk, content, synced, text, previous,
                     stamp, fd, written, left>>
  BY DEF Replace, env
<1>2. /\ stamp[r] \in Stamps /\ fd[r] \in Inodes /\ fd[r] # None
      /\ dir["tmp"][stamp[r]] = fd[r] /\ fd[r] \in synced
      /\ text[r] \in Plausible /\ \A p \in Parts : content[fd[r]][p] = text[r]
  <2>1. /\ stamp[r] \in Stamps /\ fd[r] \in Inodes /\ dir["tmp"][stamp[r]] = fd[r]
        /\ fd[r] \in synced /\ text[r] \in Plausible /\ written[r] = 2
        /\ \A p \in Parts : p <= written[r] => content[fd[r]][p] = text[r]
    BY <1>1 DEF Handle, Working, Writing
  <2>2. \A p \in Parts : p <= 2
    BY DEF Parts
  <2> QED  BY <2>1, <2>2, OptionsAssumption DEF Inodes
<1>3. /\ dir' = [dir EXCEPT !["cfg"] = [dir["cfg"] EXCEPT ![stamp[r]] = fd[r]],
                            !["tmp"] = [dir["tmp"] EXCEPT ![stamp[r]] = None]]
      /\ pc' = [pc EXCEPT ![r] = "return"]
      /\ status' = status /\ since' = Published(r)
  BY <1>2 DEF Replace
<1>4. \A t \in Stamps :
         /\ dir'["cfg"][t] = IF t = stamp[r] THEN fd[r] ELSE dir["cfg"][t]
         /\ dir'["tmp"][t] = IF t = stamp[r] THEN None ELSE dir["tmp"][t]
  BY <1>2, <1>3 DEF TypeOK, Suffixes
<1>5. TypeOK'
  <2>1. dir' \in [Suffixes -> [Stamps -> Inodes \cup {None}]]
    BY <1>2, <1>3 DEF TypeOK, Suffixes
  <2>2. since' \in [Runs -> SUBSET (Runs \cup {None})]
    BY <1>3 DEF TypeOK, Published
  <2> QED  BY <1>1, <1>3, <2>1, <2>2 DEF TypeOK, Working
<1>6. Exclusive'
  BY <1>1, <1>3 DEF TypeOK, Exclusive, Working
<1>7. Fresh'
  <2> SUFFICES ASSUME NEW q \in Runs, pc'[q] \in {"idle", "list", "compare", "open"}
               PROVE  /\ stamp[q] = 0 /\ written[q] = 0
                      /\ \A d \in {dir', dirDisk}, s \in Suffixes, t \in Stamps : d[s][t] # q
    BY <1>1 DEF Fresh
  <2>1. pc'[q] = pc[q]
    BY <1>3 DEF TypeOK
  <2>2. \A s \in Suffixes, t \in Stamps : dir[s][t] # q
    BY <2>1 DEF Fresh
  <2>3. fd[r] # q /\ None # q
    BY <1>2, <2>2, OptionsAssumption DEF Suffixes
  <2>4. \A s \in Suffixes, t \in Stamps : dir'[s][t] # q
    BY <1>4, <2>2, <2>3 DEF Suffixes
  <2> QED  BY <2>1, <2>4 DEF Fresh
<1>8. Handle'
  <2>1. ASSUME NEW q \in Runs, q # r, pc[q] \in Writing
        PROVE  dir'["tmp"][stamp[q]] = fd[q]
    <3>1. stamp[q] # stamp[r] /\ stamp[q] \in Stamps /\ dir["tmp"][stamp[q]] = fd[q]
      BY <1>1, <2>1, OtherWriter DEF Handle, Writing
    <3> QED  BY <1>4, <3>1
  <2>2. \A q \in Runs : pc'[q] = (IF q = r THEN "return" ELSE pc[q])
    BY <1>3 DEF TypeOK
  <2> QED  BY <1>1, <2>1, <2>2 DEF Handle, Working, Writing
<1>9. Apart'
  <2>1. \A t, u \in Stamps :
           dir'["tmp"][t] # None /\ dir'["tmp"][t] = dir'["tmp"][u] => t = u
    BY <1>4 DEF Apart
  <2>2. \A t, u \in Stamps : dir'["cfg"][t] # None => dir'["cfg"][t] # dir'["tmp"][u]
    BY <1>2, <1>4 DEF Apart
  <2>3. \A t, u \in Stamps : dirDisk["cfg"][t] # None => dirDisk["cfg"][t] # dir'["tmp"][u]
    BY <1>4 DEF Apart
  <2> QED  BY <1>1, <2>1, <2>2, <2>3 DEF Apart
<1>10. PublishedWhole'
  <2> SUFFICES ASSUME NEW d \in {dir', dirDisk}, NEW t \in Stamps, d["cfg"][t] # None
               PROVE  /\ d["cfg"][t] \in synced
                      /\ \E c \in Plausible : \A p \in Parts : content[d["cfg"][t]][p] = c
    BY <1>1 DEF PublishedWhole, Holds
  <2>1. CASE d["cfg"][t] = fd[r]
    BY <1>2, <2>1
  <2>2. CASE d["cfg"][t] # fd[r]
    <3>1. PICK e \in {dir, dirDisk} : d["cfg"][t] = e["cfg"][t]
      BY <1>4, <2>2
    <3> QED  BY <3>1 DEF PublishedWhole, Holds
  <2> QED  BY <2>1, <2>2
<1> QED  BY <1>5, <1>6, <1>7, <1>8, <1>9, <1>10

\* The environment: the clock, damage to stored files, the disk and its power.
LEMMA EnvironmentStep == ASSUME IInv, Tick \/ Damage \/ Settle \/ Outage  PROVE IInv'
<1> USE DEF IInv
<1>1. CASE Tick
  <2>1. clock' \in Stamps
    BY <1>1, OptionsAssumption DEF Tick, TypeOK, Stamps
  <2>2. UNCHANGED <<outages, dir, dirDisk, content, synced, damage, pc, text, previous,
                    stamp, fd, written, status, since, left>>
    BY <1>1 DEF Tick, disk, run
  <2>3. TypeOK' /\ Exclusive' /\ Fresh' /\ Handle'
    BY <2>1, <2>2 DEF TypeOK, Exclusive, Fresh, Handle
  <2> QED  BY <2>2, <2>3, FilesUntouched
<1>2. CASE Damage
  <2>1. UNCHANGED <<clock, outages, dir, dirDisk, content, synced, pc, text, previous,
                    stamp, fd, written, status, since, left>>
    BY <1>2 DEF Damage, run
  <2>2. damage' \in [Inodes -> {"none", "unreadable", "undecodable"}]
    BY <1>2 DEF Damage, TypeOK
  <2>3. TypeOK' /\ Exclusive' /\ Fresh' /\ Handle'
    BY <2>1, <2>2 DEF TypeOK, Exclusive, Fresh, Handle
  <2> QED  BY <2>1, <2>3, FilesUntouched
<1>3. CASE Settle
  <2>1. /\ dirDisk' = dir
        /\ UNCHANGED <<clock, outages, dir, content, synced, damage, pc, text, previous,
                       stamp, fd, written, status, since, left>>
    BY <1>3 DEF Settle, run
  <2>2. TypeOK' /\ Exclusive' /\ Handle'
    BY <2>1 DEF TypeOK, Exclusive, Handle
  <2>3. Fresh' /\ Apart' /\ PublishedWhole'
    BY <2>1 DEF Fresh, Apart, PublishedWhole, Holds
  <2> QED  BY <2>2, <2>3
<1>4. CASE Outage
  <2>1. /\ dir' = dirDisk /\ outages' = outages + 1 /\ outages < MaxOutages
        /\ since' = [r \in Runs |-> IF since[r] = {} THEN {} ELSE since[r] \cup {None}]
        /\ pc' = [r \in Runs |-> IF pc[r] \in Working THEN "ended" ELSE pc[r]]
        /\ status' = [r \in Runs |-> IF pc[r] \in Working THEN "killed" ELSE status[r]]
        /\ UNCHANGED <<clock, dirDisk, synced, damage, text, previous, stamp, fd, written,
                       left>>
    BY <1>4 DEF Outage
  <2>2. PICK cut \in [Inodes \ synced -> 0..2] :
          content' = [i \in Inodes |-> [p \in Parts |->
              IF i \in synced \/ p <= cut[i] THEN content[i][p] ELSE Hole]]
    BY <1>4 DEF Outage
  <2>3. content' \in [Inodes -> [Parts -> Captures \cup {Hole}]]
    BY <2>2 DEF TypeOK
  <2>4. \A i \in synced, p \in Parts : content'[i][p] = content[i][p]
    BY <2>2 DEF TypeOK
  <2>5. \A r \in Runs : pc'[r] \notin Working /\ (pc'[r] = "idle" => pc[r] = "idle")
    BY <2>1 DEF Working
  <2>6. TypeOK'
    <3>1. outages' \in 0..MaxOutages
      BY <2>1, OptionsAssumption DEF TypeOK
    <3>2. pc' \in [Runs -> {"idle", "ended"} \cup Working]
      BY <2>1 DEF TypeOK
    <3>3. status' \in [Runs -> Statuses]
      BY <2>1 DEF TypeOK, Statuses
    <3>4. since' \in [Runs -> SUBSET (Runs \cup {None})]
      BY <2>1 DEF TypeOK
    <3> QED  BY <2>1, <2>3, <3>1, <3>2, <3>3, <3>4 DEF TypeOK
  <2>7. Exclusive' /\ Handle'
    BY <2>1, <2>5 DEF Exclusive, Handle, Working, Writing
  <2>8. Fresh'
    BY <2>1, <2>5 DEF Fresh, Working
  <2>9. Apart'
    BY <2>1 DEF Apart
  <2>10. PublishedWhole'
    <3> SUFFICES ASSUME NEW t \in Stamps, dirDisk["cfg"][t] # None
                 PROVE  /\ dirDisk["cfg"][t] \in synced
                        /\ \E c \in Plausible :
                              \A p \in Parts : content'[dirDisk["cfg"][t]][p] = c
      BY <2>1 DEF PublishedWhole, Holds
    <3> QED  BY <2>4 DEF PublishedWhole, Holds
  <2> QED  BY <2>6, <2>7, <2>8, <2>9, <2>10
<1> QED  BY <1>1, <1>2, <1>3, <1>4

\* Every step keeps the invariant.
LEMMA NextInv == ASSUME Separate, IInv, [Next]_vars  PROVE IInv'
<1>1. ASSUME NEW r \in Runs, WriteBackup(r)  PROVE IInv'
  BY <1>1, BeginStep, ListStep, CompareStep, OpenStep, WriteStep, SyncStep, ReplaceStep,
     FailStep, CleanupStep, StopStep DEF WriteBackup
<1>2. CASE UNCHANGED vars
  BY <1>2 DEF vars, disk, run, IInv, TypeOK, Exclusive, Fresh, Handle, Apart,
              PublishedWhole, Holds
<1> QED  BY <1>1, <1>2, EnvironmentStep DEF Next

\* The inductive invariant holds in every state: each run at work has a file of its
\* own under its temporary name, which holds what it has written, and backups are
\* apart from those files.
THEOREM Invariance == ASSUME Separate  PROVE Spec => []IInv
BY InitInv, NextInv, PTL DEF Spec

-----------------------------------------------------------------------------
(* What follows from IInv.                                                  *)

\* Every variable keeps its type.
THEOREM TypeCorrectness == ASSUME Separate  PROVE Spec => []TypeOK
<1>1. IInv => TypeOK
  BY DEF IInv
<1> QED  BY <1>1, Invariance, PTL

\* Whatever fails or is killed, at any step, with any number of losses of power:
\* as long as two runs neither overlap nor write in the same second, every name
\* of a backup leads to a whole, plausible configuration that is on the disk.
THEOREM BackupsAreWhole == ASSUME Separate  PROVE Spec => []PublishedWhole
<1>1. IInv => PublishedWhole
  BY DEF IInv
<1> QED  BY <1>1, Invariance, PTL

-----------------------------------------------------------------------------
(* What a step leaves alone.                                                *)

\* The names of the backups, and what the files they lead to hold.
Still ==
    /\ dir'["cfg"] = dir["cfg"] /\ dirDisk' = dirDisk
    /\ \A d \in {dir, dirDisk}, t \in Stamps : d["cfg"][t] # None =>
          content'[d["cfg"][t]] = content[d["cfg"][t]]

\* The run has published its file, or is over.
Done == {"return", "cleanup", "ended"}

\* A step of one run leaves the others as they are; what the run was given, what it
\* compares with and its stamp are each taken at one place.
LEMMA StepOfRun ==
  ASSUME IInv, NEW r \in Runs, WriteBackup(r)
  PROVE  /\ pc[r] # "ended"
         /\ UNCHANGED <<clock, outages, damage, dirDisk>>
         /\ \A q \in Runs \ {r} :
               /\ pc'[q] = pc[q] /\ text'[q] = text[q] /\ previous'[q] = previous[q]
               /\ stamp'[q] = stamp[q] /\ fd'[q] = fd[q] /\ status'[q] = status[q]
         /\ left' \in {left, left \cup {r}}
         /\ pc[r] \in Done => pc'[r] \in Done
         /\ text'[r] = text[r] \/ pc[r] = "idle"
         /\ previous'[r] = previous[r] \/ pc[r] = "list"
         /\ \/ stamp'[r] = stamp[r]
            \/ /\ pc[r] = "open" /\ stamp'[r] = clock /\ stamp[r] = 0
               /\ SameSecond \/ \A q \in Runs : stamp[q] # clock
<1> USE DEF IInv
<1>1. UNCHANGED <<clock, outages, damage, dirDisk>>
  BY DEF WriteBackup, Begin, List, Compare, Open, Write, Sync, Replace, Return, Fail,
         Cleanup, Escape, Kill, env
<1>2. CASE Begin(r)
  BY <1>2 DEF TypeOK, Begin, Go, End, env, Done
<1>3. CASE List(r)
  BY <1>3 DEF TypeOK, List, Go, env, Done
<1>4. CASE Compare(r)
  BY <1>4 DEF TypeOK, Compare, Go, End, env, Done
<1>5. CASE Open(r)
  BY <1>5 DEF TypeOK, Fresh, Open, Go, env, Done
<1>6. CASE Write(r)
  BY <1>6 DEF TypeOK, Write, Go, env, Done
<1>7. CASE Sync(r)
  BY <1>7 DEF TypeOK, Sync, Go, env, Done
<1>8. CASE Replace(r)
  BY <1>8 DEF TypeOK, Replace, env, Done
<1>9. CASE Fail(r)
  BY <1>9 DEF TypeOK, Fresh, Fail, env, Done
<1>10. CASE Cleanup(r)
  BY <1>10 DEF TypeOK, Cleanup, env, Done
<1>11. CASE Return(r) \/ Escape(r)
  BY <1>11 DEF TypeOK, Return, Escape, End, env, Done
<1>12. CASE Kill(r)
  BY <1>12 DEF TypeOK, Kill, End, env, Working, Done
<1> QED  BY <1>2, <1>3, <1>4, <1>5, <1>6, <1>7, <1>8, <1>9, <1>10, <1>11, <1>12
         DEF WriteBackup

\* What has been stored since a run stored its own changes when a file is published or
\* found unchanged, and at no other step of a run.
LEMMA SinceStep ==
  ASSUME IInv, NEW r \in Runs, WriteBackup(r), ~Replace(r)
  PROVE  \/ since' = since /\ (status'[r] = status[r] \/ status'[r] # "unchanged")
         \/ /\ pc[r] = "compare" /\ status'[r] = "unchanged" /\ pc'[r] = "ended"
            /\ since' = [since EXCEPT ![r] = {r}]
            /\ Unchanged(dir["cfg"][previous[r]], text[r])
<1> USE DEF IInv
<1>1. CASE Begin(r) \/ List(r) \/ Open(r) \/ Write(r) \/ Sync(r)
  BY <1>1 DEF Begin, List, Open, Write, Sync, Go, End, TypeOK
<1>2. CASE Compare(r)
  BY <1>2 DEF Compare, Go, End, TypeOK
<1>3. CASE Return(r) \/ Escape(r) \/ Kill(r)
  BY <1>3 DEF Return, Escape, Kill, End, TypeOK
<1>4. CASE Fail(r) \/ Cleanup(r)
  BY <1>4 DEF Fail, Cleanup, TypeOK
<1> QED  BY <1>1, <1>2, <1>3, <1>4 DEF WriteBackup

\* Only the rename publishes; the files the other steps write are no backups.
LEMMA StillUnlessReplaced ==
  ASSUME IInv, NEW r \in Runs, WriteBackup(r), ~Replace(r)
  PROVE  Still
<1> USE DEF IInv
<1>1. dirDisk' = dirDisk
  BY StepOfRun
<1>2. CASE Open(r)
  <2> DEFINE file == IF dir["tmp"][clock] = None THEN r ELSE dir["tmp"][clock]
  <2>1. /\ content' = [content EXCEPT ![file] = [p \in Parts |-> Hole]]
        /\ dir' = [dir EXCEPT !["tmp"] = [dir["tmp"] EXCEPT ![clock] = file]]
        /\ pc[r] = "open"
    BY <1>2 DEF Open
  <2>2. \A d \in {dir, dirDisk}, t \in Stamps : d["cfg"][t] # None => d["cfg"][t] # file
    BY <2>1 DEF Apart, Fresh, Suffixes, TypeOK
  <2>3. dir'["cfg"] = dir["cfg"]
    BY <2>1 DEF TypeOK, Suffixes
  <2>4. \A i \in Inodes : i # file => content'[i] = content[i]
    BY <2>1 DEF TypeOK
  <2>5. \A d \in {dir, dirDisk}, t \in Stamps : d["cfg"][t] # None => d["cfg"][t] \in Inodes
    BY DEF TypeOK, Suffixes
  <2> QED  BY <1>1, <2>2, <2>3, <2>4, <2>5 DEF Still
<1>3. CASE Write(r)
  <2>1. pc[r] \in Writing /\ dir' = dir
    BY <1>3 DEF Write, Writing
  <2>2. \A i \in Inodes : i # fd[r] => content'[i] = content[i]
    BY <1>3 DEF Write, TypeOK
  <2>3. \A d \in {dir, dirDisk}, t \in Stamps : d["cfg"][t] # None => d["cfg"][t] \in Inodes
    BY DEF TypeOK, Suffixes
  <2> QED  BY <1>1, <2>1, <2>2, <2>3, WriterApart DEF Still
<1>4. CASE Cleanup(r)
  BY <1>1, <1>4 DEF Cleanup, TypeOK, Suffixes, Still
<1>5. CASE \/ Begin(r) \/ List(r) \/ Compare(r) \/ Sync(r) \/ Return(r) \/ Fail(r)
           \/ Escape(r) \/ Kill(r)
  BY <1>1, <1>5 DEF Begin, List, Compare, Sync, Return, Fail, Escape, Kill, Still
<1> QED  BY <1>2, <1>3, <1>4, <1>5 DEF WriteBackup

\* The rename gives the run's own file, whole, the name of the run's stamp; the name
\* of a backup before it then leads to it, and the others stay.
LEMMA Replaced ==
  ASSUME IInv, Separate, NEW r \in Runs, Replace(r)
  PROVE  /\ pc[r] = "replace" /\ stamp[r] \in Stamps /\ fd[r] \in Inodes /\ fd[r] # None
         /\ dir["tmp"][stamp[r]] = fd[r]
         /\ text[r] \in Plausible /\ Holds(fd[r], text[r])
         /\ UNCHANGED <<clock, outages, damage, dirDisk, content, synced, text, previous,
                        stamp, fd, written>>
         /\ \A t \in Stamps :
               /\ dir'["cfg"][t] = IF t = stamp[r] THEN fd[r] ELSE dir["cfg"][t]
               /\ dir'["tmp"][t] = IF t = stamp[r] THEN None ELSE dir["tmp"][t]
         /\ pc' = [pc EXCEPT ![r] = "return"]
         /\ status' = status /\ left' = left /\ since' = Published(r)
<1> USE DEF IInv
<1>1. /\ pc[r] = "replace"
      /\ UNCHANGED <<clock, outages, damage, dirDisk, content, synced, text, previous,
                     stamp, fd, written, left>>
  BY DEF Replace, env
<1>2. /\ stamp[r] \in Stamps /\ fd[r] \in Inodes /\ dir["tmp"][stamp[r]] = fd[r]
      /\ text[r] \in Plausible /\ written[r] = 2
      /\ \A p \in Parts : p <= written[r] => content[fd[r]][p] = text[r]
  BY <1>1 DEF Handle, Working, Writing
<1>3. fd[r] # None /\ Holds(fd[r], text[r])
  BY <1>2, OptionsAssumption DEF Inodes, Holds, Parts
<1>4. /\ dir' = [dir EXCEPT !["cfg"] = [dir["cfg"] EXCEPT ![stamp[r]] = fd[r]],
                            !["tmp"] = [dir["tmp"] EXCEPT ![stamp[r]] = None]]
      /\ pc' = [pc EXCEPT ![r] = "return"]
      /\ status' = status /\ since' = Published(r)
  BY <1>2, <1>3 DEF Replace
<1>5. \A t \in Stamps :
         /\ dir'["cfg"][t] = IF t = stamp[r] THEN fd[r] ELSE dir["cfg"][t]
         /\ dir'["tmp"][t] = IF t = stamp[r] THEN None ELSE dir["tmp"][t]
  BY <1>2, <1>4 DEF TypeOK, Suffixes
<1> QED  BY <1>1, <1>2, <1>3, <1>4, <1>5

\* The clock and damage to a file leave all but themselves alone.
LEMMA Elsewhere ==
  ASSUME Tick \/ Damage
  PROVE  /\ Still
         /\ UNCHANGED <<outages, dir, dirDisk, content, synced, run>>
<1>1. UNCHANGED <<outages, dir, dirDisk, content, synced, run>>
  BY DEF Tick, Damage, disk
<1> QED  BY <1>1 DEF Still

\* The loss of power: what was on the disk is there, and every run at work is over.
LEMMA PowerLost ==
  ASSUME IInv, Outage
  PROVE  /\ outages' # 0 /\ dir' = dirDisk /\ dirDisk' = dirDisk
         /\ since' = [r \in Runs |-> IF since[r] = {} THEN {} ELSE since[r] \cup {None}]
         /\ \A d \in {dir, dirDisk}, t \in Stamps : d["cfg"][t] # None =>
               content'[d["cfg"][t]] = content[d["cfg"][t]]
         /\ \A r \in Runs :
               /\ pc'[r] = IF pc[r] \in Working THEN "ended" ELSE pc[r]
               /\ status'[r] = IF pc[r] \in Working THEN "killed" ELSE status[r]
         /\ UNCHANGED <<clock, synced, damage, text, previous, stamp, fd, written, left>>
<1> USE DEF IInv
<1>1. /\ dir' = dirDisk /\ dirDisk' = dirDisk
      /\ since' = [r \in Runs |-> IF since[r] = {} THEN {} ELSE since[r] \cup {None}]
      /\ outages' = outages + 1 /\ outages \in Nat
      /\ pc' = [r \in Runs |-> IF pc[r] \in Working THEN "ended" ELSE pc[r]]
      /\ status' = [r \in Runs |-> IF pc[r] \in Working THEN "killed" ELSE status[r]]
      /\ UNCHANGED <<clock, synced, damage, text, previous, stamp, fd, written, left>>
  BY OptionsAssumption DEF Outage, TypeOK
<1>2. PICK cut \in [Inodes \ synced -> 0..2] :
        content' = [i \in Inodes |-> [p \in Parts |->
            IF i \in synced \/ p <= cut[i] THEN content[i][p] ELSE Hole]]
  BY DEF Outage
<1>3. \A i \in Inodes : i \in synced => content'[i] = content[i]
  BY <1>2 DEF TypeOK
<1>4. \A d \in {dir, dirDisk}, t \in Stamps : d["cfg"][t] # None => d["cfg"][t] \in synced
  BY DEF PublishedWhole
<1>5. synced \subseteq Inodes
  BY DEF TypeOK
<1> QED  BY <1>1, <1>3, <1>4, <1>5

-----------------------------------------------------------------------------
(* Names and results.                                                       *)

\* A run has no result before it fails or ends, whatever it does.
LEMMA ResultsStep ==
  ASSUME IInv, Separate, Named, NEW r \in Runs, WriteBackup(r)
  PROVE  \A q \in Runs :
            /\ pc'[q] \notin {"cleanup", "ended"} => status'[q] = "none"
            /\ pc'[q] = "cleanup" => status'[q] \in {"failed", "interrupted"}
<1> USE DEF IInv
<1>1. /\ pc[r] \notin {"cleanup", "ended"} => status[r] = "none"
      /\ pc[r] = "cleanup" => status[r] \in {"failed", "interrupted"}
  BY DEF Named
<1>2. CASE Begin(r) \/ List(r) \/ Compare(r) \/ Open(r) \/ Write(r) \/ Sync(r)
  <2>1. /\ \/ /\ pc'[r] \notin {"cleanup", "ended"} /\ status'[r] = status[r]
              /\ pc[r] \notin {"cleanup", "ended"}
           \/ pc'[r] = "ended"
    BY <1>2 DEF Begin, List, Compare, Open, Write, Sync, Go, End, TypeOK
  <2> QED  BY <1>1, <2>1, StepOfRun DEF Named
<1>3. CASE Replace(r)
  <2>1. pc'[r] = "return" /\ status' = status /\ pc[r] = "replace"
    BY <1>3, Replaced DEF TypeOK
  <2> QED  BY <1>1, <2>1, StepOfRun DEF Named
<1>4. CASE Fail(r)
  <2>1. pc'[r] = "cleanup" /\ status'[r] \in {"failed", "interrupted"}
    BY <1>4 DEF Fail, TypeOK
  <2> QED  BY <2>1, StepOfRun DEF Named
<1>5. CASE Cleanup(r) \/ Return(r) \/ Escape(r) \/ Kill(r)
  <2>1. pc'[r] = "ended"
    BY <1>5 DEF Cleanup, Return, Escape, Kill, End, TypeOK
  <2> QED  BY <2>1, StepOfRun DEF Named
<1> QED  BY <1>2, <1>3, <1>4, <1>5 DEF WriteBackup

\* Only a name that no backup has is taken, when each second has one run; and the
\* names on the disk are names of the directory.
LEMMA NamedStep ==
  ASSUME IInv, Separate, Named, Next
  PROVE  Named'
<1>1. CASE \E r \in Runs : WriteBackup(r)
  <2>1. PICK r \in Runs : WriteBackup(r)
    BY <1>1
  <2>2. /\ \A q \in Runs : pc[q] \in Done => pc'[q] \in Done /\ stamp'[q] = stamp[q]
        /\ dirDisk' = dirDisk
    BY <2>1, StepOfRun DEF Done
  <2>3. CASE Replace(r)
    <3>1. /\ stamp[r] \in Stamps /\ stamp' = stamp /\ pc'[r] = "return" /\ pc[r] = "replace"
          /\ fd[r] # None
          /\ \A t \in Stamps : dir'["cfg"][t] = IF t = stamp[r] THEN fd[r] ELSE dir["cfg"][t]
      BY <2>3, Replaced DEF IInv, TypeOK
    <3>2. \A d \in {dir', dirDisk}, t \in Stamps : d["cfg"][t] # None =>
             \E q \in Runs : stamp'[q] = t /\ pc'[q] \in Done
      <4> SUFFICES ASSUME NEW d \in {dir', dirDisk}, NEW t \in Stamps, d["cfg"][t] # None
                   PROVE  \E q \in Runs : stamp'[q] = t /\ pc'[q] \in Done
        OBVIOUS
      <4>1. CASE t = stamp[r]
        BY <3>1, <4>1 DEF Done
      <4>2. CASE t # stamp[r]
        <5>1. \E e \in {dir, dirDisk} : e["cfg"][t] # None
          BY <3>1, <4>2
        <5> QED  BY <2>2, <5>1 DEF Named, Done
      <4> QED  BY <4>1, <4>2
    <3>3. ASSUME NEW t \in Stamps, dirDisk["cfg"][t] # None
          PROVE  /\ dir'["cfg"][t] # None
                 /\ SameSecond \/ dir'["cfg"][t] = dirDisk["cfg"][t]
      <4>1. dir["cfg"][t] # None /\ (SameSecond \/ dir["cfg"][t] = dirDisk["cfg"][t])
        BY <3>3 DEF Named
      <4>2. PICK q \in Runs : stamp[q] = t /\ pc[q] \in Done
        BY <3>3 DEF Named, Done
      <4>3. ~SameSecond => t # stamp[r]
        BY <3>1, <3>3, <4>2, OptionsAssumption DEF IInv, Exclusive, Stamps, Done
      <4> QED  BY <3>1, <4>1, <4>3
    <3> QED  BY <2>1, <2>2, <3>2, <3>3, ResultsStep DEF Named, Done
  <2>4. CASE ~Replace(r)
    BY <2>1, <2>2, <2>4, ResultsStep, StillUnlessReplaced DEF Named, Still, Done
  <2> QED  BY <2>3, <2>4
<1>2. CASE Tick \/ Damage
  BY <1>2, Elsewhere DEF Named, Still, run
<1>3. CASE Settle
  BY <1>3 DEF Settle, Named, run
<1>4. CASE Outage
  <2>1. \A q \in Runs : pc[q] \in Done => pc'[q] = "ended" /\ stamp'[q] = stamp[q]
    BY <1>4, PowerLost DEF Working, Done
  <2>2. \A q \in Runs : pc'[q] = "idle" => pc[q] = "idle" /\ status'[q] = status[q]
    BY <1>4, PowerLost DEF Working
  <2>3. \A q \in Runs : pc'[q] \in {"idle", "ended"}
    BY <1>4, PowerLost DEF IInv, TypeOK
  <2> QED  BY <1>4, <2>1, <2>2, <2>3, PowerLost DEF Named, Done
<1> QED  BY <1>1, <1>2, <1>3, <1>4 DEF Next

\* "The directory listing is a change history" (backup.py:11-12): with one run per
\* second, no step changes a backup or takes it away, but the loss of power one whose
\* name had not reached the disk.
LEMMA StepKeepsHistory ==
  ASSUME IInv, Separate, ~SameSecond, Named, Next, NEW t \in Backups,
         outages' = outages \/ dirDisk["cfg"][t] # None
  PROVE  /\ dir'["cfg"][t] = dir["cfg"][t]
         /\ content'[dir["cfg"][t]] = content[dir["cfg"][t]]
<1>0. t \in Stamps /\ dir["cfg"][t] # None
  BY DEF Backups
<1>1. CASE \E r \in Runs : WriteBackup(r)
  <2>1. PICK r \in Runs : WriteBackup(r)
    BY <1>1
  <2>2. CASE Replace(r)
    <3>1. /\ pc[r] = "replace" /\ stamp[r] \in Stamps /\ content' = content
          /\ dir'["cfg"][t] = IF t = stamp[r] THEN fd[r] ELSE dir["cfg"][t]
      BY <1>0, <2>2, Replaced
    <3>2. PICK q \in Runs : stamp[q] = t /\ pc[q] \in Done
      BY <1>0 DEF Named, Done
    <3>3. t # stamp[r]
      BY <1>0, <3>1, <3>2, OptionsAssumption DEF IInv, Exclusive, Stamps, Done
    <3> QED  BY <3>1, <3>3
  <2>3. CASE ~Replace(r)
    BY <1>0, <2>1, <2>3, StillUnlessReplaced DEF Still
  <2> QED  BY <2>2, <2>3
<1>2. CASE Tick \/ Damage
  BY <1>0, <1>2, Elsewhere DEF Still
<1>3. CASE Settle
  BY <1>3 DEF Settle
<1>4. CASE Outage
  <2>1. outages' # outages
    BY <1>4, OptionsAssumption DEF Outage, IInv, TypeOK
  <2>2. dir["cfg"][t] = dirDisk["cfg"][t]
    BY <1>0, <2>1 DEF Named
  <2> QED  BY <1>0, <1>4, <2>2, PowerLost
<1> QED  BY <1>1, <1>2, <1>3, <1>4 DEF Next

-----------------------------------------------------------------------------
(* Temporary files.                                                         *)

\* A run that has a temporary file of that second, or was stopped before it was removed.
Keeps(r, t) ==
    /\ stamp[r] = t
    /\ pc[r] \in {"write", "sync", "replace", "cleanup"} \/ r \in left

\* A run goes on to keep its temporary file until the file is gone.
LEMMA KeepsOn ==
  ASSUME IInv, Separate, NEW r \in Runs, WriteBackup(r),
         NEW t \in Stamps, dir'["tmp"][t] # None, Keeps(r, t)
  PROVE  Keeps(r, t)'
<1> USE DEF IInv
<1>1. stamp[r] = t /\ stamp[r] # 0 /\ stamp'[r] = stamp[r]
  BY StepOfRun, OptionsAssumption DEF Keeps, Stamps
<1>2. CASE r \in left
  BY <1>1, <1>2, StepOfRun DEF Keeps
<1>3. CASE r \notin left
  <2>1. pc[r] \in Writing \cup {"cleanup"}
    BY <1>3 DEF Keeps, Writing
  <2>2. CASE Write(r) \/ Sync(r)
    BY <1>1, <2>2 DEF Write, Sync, Go, TypeOK, Keeps
  <2>3. CASE Replace(r)
    BY <1>1, <2>3, Replaced DEF Keeps
  <2>4. CASE Fail(r)
    BY <1>1, <2>4 DEF Fail, TypeOK, Keeps
  <2>5. CASE Cleanup(r)
    BY <1>1, <2>5 DEF Cleanup, TypeOK, Keeps, Suffixes
  <2>6. CASE Kill(r)
    BY <1>1, <2>1, <2>6 DEF Kill, Keeps, Writing
  <2> QED  BY <2>1, <2>2, <2>3, <2>4, <2>5, <2>6
           DEF WriteBackup, Begin, List, Compare, Open, Return, Escape, Writing
<1> QED  BY <1>2, <1>3

\* No step leaves a temporary file behind but a kill, an outage or a failed cleanup.
LEMMA NoTemporaryStep ==
  ASSUME IInv, Separate, Named, NoTemporaryLeft, Next
  PROVE  NoTemporaryLeft'
<1> SUFFICES ASSUME outages' = 0, NEW t \in Stamps, dir'["tmp"][t] # None
             PROVE  \E r \in Runs : Keeps(r, t)'
  BY DEF NoTemporaryLeft, Keeps
<1>0. outages = 0 /\ dir["tmp"][t] # None => \E r \in Runs : Keeps(r, t)
  BY DEF NoTemporaryLeft, Keeps
<1>1. CASE \E r \in Runs : WriteBackup(r)
  <2>1. PICK r \in Runs : WriteBackup(r)
    BY <1>1
  <2>2. CASE dir["tmp"][t] # None
    <3>1. PICK q \in Runs : Keeps(q, t)
      BY <1>0, <2>1, <2>2, StepOfRun
    <3>2. CASE q = r
      BY <2>1, <3>1, <3>2, KeepsOn
    <3>3. CASE q # r
      BY <2>1, <3>1, <3>3, StepOfRun DEF Keeps
    <3> QED  BY <3>2, <3>3
  <2>3. CASE dir["tmp"][t] = None
    <3>1. CASE Open(r)
      BY <2>3, <3>1 DEF Open, Go, IInv, TypeOK, Suffixes, Keeps
    <3>2. CASE Replace(r)
      BY <2>3, <3>2, Replaced
    <3>3. CASE Cleanup(r)
      BY <2>3, <3>3 DEF Cleanup, IInv, TypeOK, Suffixes
    <3>4. dir' = dir \/ Open(r) \/ Replace(r) \/ Cleanup(r)
      BY <2>1 DEF WriteBackup, Begin, List, Compare, Write, Sync, Return, Fail, Escape, Kill
    <3> QED  BY <2>3, <3>1, <3>2, <3>3, <3>4
  <2> QED  BY <2>2, <2>3
<1>2. CASE Tick \/ Damage
  <2>1. UNCHANGED <<outages, dir, stamp, pc, left>>
    BY <1>2, Elsewhere DEF run
  <2> QED  BY <1>0, <2>1 DEF Keeps
<1>3. CASE Settle
  <2>1. UNCHANGED <<outages, dir, stamp, pc, left>>
    BY <1>3 DEF Settle, run
  <2> QED  BY <1>0, <2>1 DEF Keeps
<1>4. CASE Outage
  BY <1>4, PowerLost
<1> QED  BY <1>1, <1>2, <1>3, <1>4 DEF Next

-----------------------------------------------------------------------------
(* What is reported.                                                        *)

\* The files of a backup that stays hold what they held.
LEMMA HoldsOn ==
  ASSUME Still, NEW t \in Backups
  PROVE  /\ t \in Backups' /\ dir'["cfg"][t] = dir["cfg"][t]
         /\ \A c : Holds(dir["cfg"][t], c) => Holds(dir["cfg"][t], c)'
         /\ \A c : Unchanged(dir["cfg"][t], c) => Unchanged(dir["cfg"][t], c)'
<1>1. t \in Stamps /\ dir["cfg"][t] # None
  BY DEF Backups
<1>2. dir'["cfg"] = dir["cfg"] /\ content'[dir["cfg"][t]] = content[dir["cfg"][t]]
  BY <1>1 DEF Still
<1> QED  BY <1>1, <1>2 DEF Backups, Holds, Unchanged

\* The last name of a listing that is not empty is one of it.
LEMMA LatestIsThere ==
  /\ Latest # 0 => Latest \in Backups
  /\ Backups # {} => Latest \in Backups /\ \A t \in Backups : t <= Latest
BY LatestExists DEF Latest

\* A run that has stored its capture keeps it, and the name it is stored under.
LEMMA StorerStays ==
  ASSUME IInv, Reported, NEW r \in Runs, WriteBackup(r), NEW q \in Runs, since[q] # {}
  PROVE  /\ text'[q] = text[q] /\ stamp'[q] = stamp[q] /\ previous'[q] = previous[q]
         /\ pc'[q] \in Done /\ Kept(q)' = Kept(q)
<1>1. pc[q] \in Done
  BY DEF Reported, Done
<1>2. /\ text'[q] = text[q] /\ stamp'[q] = stamp[q] /\ previous'[q] = previous[q]
      /\ pc'[q] \in Done
  BY <1>1, StepOfRun DEF Done
<1> QED  BY <1>2 DEF Kept

\* What has been stored since grows, and is of runs that have stored.
LEMMA SinceGrows ==
  ASSUME IInv, Separate, Reported, NEW r \in Runs, WriteBackup(r), NEW q \in Runs, since[q] # {}
  PROVE  since[q] \subseteq since'[q] /\ since'[q] \subseteq since[q] \cup {r}
<1>1. q \in Runs /\ since \in [Runs -> SUBSET (Runs \cup {None})]
  BY DEF IInv, TypeOK
<1>2. CASE Replace(r)
  <2>1. since' = Published(r) /\ pc[r] = "replace"
    BY <1>2, Replaced
  <2>2. q # r
    BY <2>1 DEF Reported
  <2> QED  BY <1>1, <2>1, <2>2 DEF Published
<1>3. CASE ~Replace(r)
  <2>1. since' = since \/ (pc[r] = "compare" /\ since' = [since EXCEPT ![r] = {r}])
    BY <1>3, SinceStep
  <2>2. pc[r] = "compare" => q # r
    BY DEF Reported
  <2> QED  BY <1>1, <2>1, <2>2
<1> QED  BY <1>2, <1>3

\* What a run has stored is there after a step of any run, or a later one of the same
\* second has published its own.
LEMMA StoredStays ==
  ASSUME IInv, Separate, Reported, NEW r \in Runs, WriteBackup(r),
         NEW q \in Runs, since[q] # {}, None \notin since[q]
  PROVE  Stored(q)'
<1>1. /\ Kept(q) \in Backups /\ Kept(q)' = Kept(q)
      /\ since[q] \subseteq since'[q]
  BY StorerStays, SinceGrows DEF Reported, Stored
<1>2. PICK p \in since[q] : /\ p = q \/ stamp[p] = Kept(q)
                            /\ Unchanged(dir["cfg"][Kept(q)], text[p])
  BY DEF Reported, Stored
<1>3. p \in Runs /\ since[p] # {}
  BY <1>2 DEF Reported, IInv, TypeOK
<1>4. p \in since'[q] /\ text'[p] = text[p] /\ stamp'[p] = stamp[p]
  BY <1>1, <1>2, <1>3, StorerStays
<1>5. CASE ~Replace(r)
  <2>1. Still
    BY <1>5, StillUnlessReplaced
  <2>2. /\ Kept(q) \in Backups' /\ dir'["cfg"][Kept(q)] = dir["cfg"][Kept(q)]
        /\ Unchanged(dir["cfg"][Kept(q)], text[p])'
    BY <1>1, <1>2, <1>4, <2>1, HoldsOn DEF Unchanged, Holds
  <2> QED  BY <1>1, <1>2, <1>4, <2>2 DEF Stored
<1>6. CASE Replace(r)
  <2>1. /\ fd[r] # None /\ content' = content /\ Holds(fd[r], text[r])
        /\ text' = text /\ stamp' = stamp /\ pc[r] = "replace" /\ since' = Published(r)
        /\ \A t \in Stamps : dir'["cfg"][t] = IF t = stamp[r] THEN fd[r] ELSE dir["cfg"][t]
    BY <1>6, Replaced
  <2>2. Kept(q) \in Stamps /\ Kept(q) \in Backups'
    BY <1>1, <2>1 DEF Backups
  <2>3. CASE Kept(q) = stamp[r]
    <3>1. q # r
      BY <2>1 DEF Reported
    <3>2. r \in since'[q]
      BY <2>1, <3>1 DEF Published
    <3>3. Unchanged(dir["cfg"][Kept(q)], text[r])'
      BY <1>1, <2>1, <2>2, <2>3 DEF Holds, Unchanged, Parts
    <3> QED  BY <1>1, <2>1, <2>2, <2>3, <3>2, <3>3 DEF Stored
  <2>4. CASE Kept(q) # stamp[r]
    <3>1. Unchanged(dir["cfg"][Kept(q)], text[p])'
      BY <1>1, <1>2, <2>1, <2>2, <2>4 DEF Holds, Unchanged
    <3> QED  BY <1>1, <1>2, <1>4, <2>2, <3>1 DEF Stored
  <2> QED  BY <2>3, <2>4
<1> QED  BY <1>5, <1>6

\* A run that stores its capture finds it in the directory.
LEMMA StoredNow ==
  ASSUME IInv, Separate, Reported, NEW r \in Runs, WriteBackup(r), since[r] = {}, since'[r] # {}
  PROVE  /\ since'[r] = {r} /\ Stored(r)'
         /\ Replace(r) \/ (status'[r] = "unchanged" /\ pc'[r] = "ended")
<1>1. CASE Replace(r)
  <2>1. /\ fd[r] # None /\ content' = content /\ Holds(fd[r], text[r])
        /\ text' = text /\ stamp' = stamp /\ stamp[r] \in Stamps /\ stamp[r] # 0
        /\ since' = Published(r) /\ dir'["cfg"][stamp[r]] = fd[r]
    BY <1>1, Replaced, OptionsAssumption DEF Stamps
  <2>2. since'[r] = {r} /\ Kept(r)' = stamp[r]
    BY <2>1 DEF Published, Kept
  <2>3. stamp[r] \in Backups' /\ Unchanged(dir["cfg"][stamp[r]], text[r])'
    BY <2>1 DEF Backups, Holds, Unchanged, Parts
  <2> QED  BY <1>1, <2>1, <2>2, <2>3 DEF Stored
<1>2. CASE ~Replace(r)
  <2>1. /\ pc[r] = "compare" /\ status'[r] = "unchanged" /\ pc'[r] = "ended"
        /\ since' = [since EXCEPT ![r] = {r}]
        /\ Unchanged(dir["cfg"][previous[r]], text[r])
    BY <1>2, SinceStep
  <2>2. /\ text'[r] = text[r] /\ stamp'[r] = 0 /\ previous'[r] = previous[r]
    BY <2>1, StepOfRun DEF IInv, Fresh
  <2>3. Still /\ previous[r] \in Backups
    BY <1>2, <2>1, StillUnlessReplaced DEF Reported
  <2>4. /\ previous[r] \in Backups'
        /\ Unchanged(dir["cfg"][previous[r]], text[r])'
    BY <2>1, <2>2, <2>3, HoldsOn DEF Unchanged, Holds
  <2>5. since'[r] = {r} /\ Kept(r)' = previous[r]
    BY <2>1, <2>2 DEF Kept, IInv, TypeOK
  <2> QED  BY <2>1, <2>2, <2>4, <2>5 DEF Stored
<1> QED  BY <1>1, <1>2

\* What a run keeps of its previous backup, and of what it has stored.
Keeping(r) ==
    /\ pc[r] = "compare" => previous[r] \in Backups
    /\ since[r] # {} =>
          /\ pc[r] \in Done
          /\ pc[r] = "cleanup" => "ctrl_c" \in Faults
          /\ r \in since[r]
          /\ \A q \in since[r] \ {None} : since[q] # {}
          /\ None \notin since[r] => Stored(r)
    /\ pc[r] = "return" => since[r] # {}

\* What it says, against what it has stored.
Saying(r) ==
    /\ status[r] \in {"written", "unchanged"} => since[r] # {}
    /\ since[r] # {} =>
          \/ status[r] \in {"written", "unchanged", "interrupted", "killed"}
          \/ pc[r] = "return"
          \/ status[r] = "failed" /\ r \in left /\ "ctrl_c" \in Faults

\* Whose the backups are.
Owned(d) == \A t \in Stamps : d["cfg"][t] # None =>
    \E q \in Runs : since[q] # {} /\ stamp[q] = t /\ Holds(d["cfg"][t], text[q])

\* The invariant by its parts.
LEMMA ReportedParts ==
  Reported <=> (\A r \in Runs : Keeping(r) /\ Saying(r)) /\ Owned(dir) /\ Owned(dirDisk)
<1>2. ReportsTrue => (\A r \in Runs : Saying(r)) /\ Owned(dir) /\ Owned(dirDisk)
  <2>1. ReportsTrue => \A r \in Runs : Saying(r)
    BY DEF ReportsTrue, Saying
  <2>2. ReportsTrue => Owned(dir) /\ Owned(dirDisk)
    BY DEF ReportsTrue, Owned
  <2> QED  BY <2>1, <2>2
<1>3. Reported => \A r \in Runs : Keeping(r)
  BY DEF Reported, Keeping, Done
<1>4. (\A r \in Runs : Keeping(r) /\ Saying(r)) /\ Owned(dir) /\ Owned(dirDisk)
         => ReportsTrue
  BY DEF ReportsTrue, Keeping, Saying, Owned
<1>5. (\A r \in Runs : Keeping(r)) /\ ReportsTrue => Reported
  BY DEF Reported, Keeping, Done
<1> QED  BY <1>2, <1>3, <1>4, <1>5 DEF Reported

\* A run keeps what it has stored through a step of any run.
LEMMA KeepingStep ==
  ASSUME IInv, Separate, Named, Reported, NEW r \in Runs, WriteBackup(r), NEW q \in Runs
  PROVE  Keeping(q)'
<1>0. Keeping(q)
  BY ReportedParts
<1>1. pc'[q] = "compare" => previous'[q] \in Backups'
  <2>1. Backups \subseteq Backups'
    <3>1. CASE Replace(r)
      BY <3>1, Replaced DEF Backups
    <3>2. CASE ~Replace(r)
      BY <3>2, StillUnlessReplaced DEF Backups, Still
    <3> QED  BY <3>1, <3>2
  <2> SUFFICES ASSUME pc'[q] = "compare"  PROVE previous'[q] \in Backups'
    OBVIOUS
  <2>2. CASE q # r
    BY <1>0, <2>1, <2>2, StepOfRun DEF Keeping
  <2>3. CASE q = r
    <3>1. List(r)
      BY <2>3 DEF IInv, TypeOK, WriteBackup, Begin, Compare, Open, Write, Sync, Replace,
                  Return, Fail, Cleanup, Escape, Kill, Go, End
    <3>2. /\ previous'[r] = Latest /\ dir' = dir
          /\ pc'[r] = IF Latest = 0 \/ Forced THEN "open" ELSE "compare"
      BY <3>1 DEF List, Go, IInv, TypeOK
    <3>3. Latest # 0
      BY <2>3, <3>2
    <3> QED  BY <2>3, <3>2, <3>3, LatestIsThere DEF Backups
  <2> QED  BY <2>2, <2>3
<1>2. ASSUME NEW p \in Runs, since[p] # {}  PROVE since'[p] # {}
  BY <1>2, SinceGrows
<1>3. ASSUME since'[q] # {}
      PROVE  /\ pc'[q] \in Done /\ q \in since'[q]
             /\ pc'[q] = "cleanup" => "ctrl_c" \in Faults
             /\ \A p \in since'[q] \ {None} : since'[p] # {}
             /\ None \notin since'[q] => Stored(q)'
  <2>1. CASE since[q] # {}
    <3>1. since[q] \subseteq since'[q] /\ since'[q] \subseteq since[q] \cup {r}
      BY <2>1, SinceGrows
    <3>2. pc'[q] \in Done /\ q \in since'[q]
      BY <1>0, <2>1, <3>1, StorerStays DEF Keeping
    <3>5. pc'[q] = "cleanup" => "ctrl_c" \in Faults
      <4>1. CASE pc'[q] = pc[q]
        BY <1>0, <2>1, <4>1 DEF Keeping
      <4>2. CASE pc'[q] # pc[q]
        <5>1. q = r /\ pc[r] \in Done
          BY <1>0, <2>1, <4>2, StepOfRun DEF Keeping
        <5>2. pc'[r] = "cleanup" => Fail(r) /\ pc[r] = "return"
          BY <4>2, <5>1
             DEF IInv, TypeOK, WriteBackup, Begin, List, Compare, Open, Write, Sync, Replace,
                 Return, Fail, Cleanup, Escape, Kill, Go, End, Done
        <5> QED  BY <5>1, <5>2 DEF Fail
      <4> QED  BY <4>1, <4>2
    <3>3. \A p \in since'[q] \ {None} : since'[p] # {}
      <4> SUFFICES ASSUME NEW p \in since'[q] \ {None}  PROVE since'[p] # {}
        OBVIOUS
      <4>1. CASE p \in since[q]
        <5>0. p # None /\ since[q] \subseteq Runs \cup {None}
          BY DEF IInv, TypeOK
        <5>1. p \in Runs /\ since[p] # {}
          BY <1>0, <2>1, <4>1, <5>0 DEF Keeping
        <5> QED  BY <1>2, <5>1
      <4>2. CASE p \notin since[q]
        <5>1. p = r /\ since'[q] # since[q] /\ q # r
          <6>1. p = r /\ since'[q] # since[q]
            BY <3>1, <4>2
          <6>2. q \in since[q]
            BY <1>0, <2>1 DEF Keeping
          <6> QED  BY <4>2, <6>1, <6>2
        <5>2. CASE Replace(r)
          BY <5>1, <5>2, Replaced DEF Published
        <5>3. CASE ~Replace(r)
          BY <5>1, <5>3, SinceStep DEF IInv, TypeOK
        <5> QED  BY <5>1, <5>2, <5>3
      <4> QED  BY <4>1, <4>2
    <3>4. None \notin since'[q] => Stored(q)'
      BY <2>1, <3>1, StoredStays
    <3> QED  BY <3>2, <3>3, <3>4, <3>5
  <2>2. CASE since[q] = {}
    <3>1. q = r
      <4>1. CASE Replace(r)
        BY <1>3, <2>2, <4>1, Replaced DEF Published
      <4>2. CASE ~Replace(r)
        BY <1>3, <2>2, <4>2, SinceStep DEF IInv, TypeOK
      <4> QED  BY <4>1, <4>2
    <3>2. /\ since'[r] = {r} /\ Stored(r)'
          /\ Replace(r) \/ (status'[r] = "unchanged" /\ pc'[r] = "ended")
      BY <1>3, <2>2, <3>1, StoredNow
    <3>3. Replace(r) => pc'[r] = "return"
      BY Replaced DEF IInv, TypeOK
    <3> QED  BY <3>1, <3>2, <3>3 DEF Done
  <2> QED  BY <2>1, <2>2
<1>4. pc'[q] = "return" => since'[q] # {}
  <2> SUFFICES ASSUME pc'[q] = "return"  PROVE since'[q] # {}
    OBVIOUS
  <2>1. CASE pc[q] = "return"
    BY <1>0, <1>2, <2>1 DEF Keeping
  <2>2. CASE pc[q] # "return"
    <3>1. q = r
      BY <2>2, StepOfRun
    <3>2. Replace(r)
      BY <2>2, <3>1 DEF IInv, TypeOK, WriteBackup, Begin, List, Compare, Open, Write, Sync,
                        Return, Fail, Cleanup, Escape, Kill, Go, End
    <3> QED  BY <3>1, <3>2, Replaced DEF Published
  <2> QED  BY <2>1, <2>2
<1> QED  BY <1>1, <1>3, <1>4 DEF Keeping

\* What a run says is so when it says it, and a run that stored something says so or is
\* stopped.
LEMMA SayingStep ==
  ASSUME IInv, Separate, Named, Reported, NEW r \in Runs, WriteBackup(r), NEW q \in Runs
  PROVE  Saying(q)'
<1>0. Keeping(q) /\ Saying(q)
  BY ReportedParts
<1>1. since[q] # {} => since'[q] # {}
  BY SinceGrows
<1>2. CASE q # r
  <2>1. /\ pc'[q] = pc[q] /\ status'[q] = status[q] /\ (q \in left => q \in left')
    BY <1>2, StepOfRun
  <2>2. since'[q] # {} => since[q] # {}
    <3>1. CASE Replace(r)
      BY <1>2, <3>1, Replaced DEF Published
    <3>2. CASE ~Replace(r)
      BY <1>2, <3>2, SinceStep DEF IInv, TypeOK
    <3> QED  BY <3>1, <3>2
  <2> QED  BY <1>0, <1>1, <2>1, <2>2 DEF Saying
<1>3. CASE q = r
  <2>1. CASE Replace(r)
    <3>1. pc'[r] = "return" /\ status' = status /\ since'[r] = {r} /\ pc[r] = "replace"
      BY <2>1, Replaced DEF Published, IInv, TypeOK
    <3> QED  BY <1>3, <3>1 DEF Saying
  <2>2. CASE Return(r)
    <3>1. pc[r] = "return" /\ status'[r] = "written"
      BY <2>2 DEF Return, End, IInv, TypeOK
    <3> QED  BY <1>0, <1>1, <1>3, <3>1 DEF Saying, Keeping
  <2>3. CASE Fail(r)
    <3>1. /\ since' = since
          /\ \/ status'[r] = "failed" /\ pc[r] # "return"
             \/ status'[r] = "interrupted"
          /\ pc[r] \in {"open", "return"} \cup Writing
      BY <2>3 DEF Fail, IInv, TypeOK, Writing
    <3>2. pc[r] # "return" => since[r] = {}
      BY <1>0, <1>3, <3>1 DEF Keeping, Done, Writing
    <3> QED  BY <1>3, <3>1, <3>2 DEF Saying
  <2>4. CASE Cleanup(r)
    <3>1. /\ since' = since /\ pc[r] = "cleanup"
          /\ \/ status' = status /\ left' = left
             \/ status'[r] = "failed" /\ r \in left'
             \/ status'[r] = "interrupted"
      BY <2>4 DEF Cleanup, IInv, TypeOK
    <3>2. status[r] \in {"failed", "interrupted"}
      BY <3>1 DEF Named
    <3>3. since[r] # {} => "ctrl_c" \in Faults
      BY <1>0, <1>3, <3>1 DEF Keeping
    <3> QED  BY <1>0, <1>3, <3>1, <3>2, <3>3 DEF Saying
  <2>5. CASE Escape(r) \/ Kill(r)
    <3>1. /\ since' = since /\ pc'[r] = "ended"
          /\ \/ status'[r] \in {"interrupted", "killed"}
             \/ pc[r] \in {"list", "open"} /\ status'[r] \in {"raised", "failed"}
      BY <2>5 DEF Escape, Kill, End, IInv, TypeOK
    <3>2. pc[r] \in {"list", "open"} => since[r] = {}
      BY <1>0, <1>3 DEF Keeping, Done
    <3> QED  BY <1>3, <3>1, <3>2 DEF Saying
  <2>6. CASE Begin(r) \/ List(r) \/ Compare(r) \/ Open(r) \/ Write(r) \/ Sync(r)
    <3>1. /\ pc[r] \notin Done /\ status'[r] # "written"
      BY <2>6, StepOfRun
         DEF Begin, List, Compare, Open, Write, Sync, Go, End, Done, IInv, TypeOK, Named
    <3>2. since[r] = {}
      BY <1>0, <1>3, <3>1 DEF Keeping
    <3>3. ~Replace(r) /\ status[r] = "none"
      BY <2>6, <3>1
         DEF Begin, List, Compare, Open, Write, Sync, Replace, Done, Named
    <3>4. \/ since'[r] = {} /\ status'[r] # "unchanged"
          \/ since'[r] # {} /\ status'[r] = "unchanged"
      <4>1. CASE since' = since /\ (status'[r] = status[r] \/ status'[r] # "unchanged")
        BY <3>2, <3>3, <4>1
      <4>2. CASE status'[r] = "unchanged" /\ since' = [since EXCEPT ![r] = {r}]
        BY <4>2 DEF IInv, TypeOK
      <4> QED  BY <3>3, <4>1, <4>2, SinceStep
    <3> QED  BY <1>3, <3>1, <3>4 DEF Saying
  <2> QED  BY <2>1, <2>2, <2>3, <2>4, <2>5, <2>6 DEF WriteBackup
<1> QED  BY <1>2, <1>3

\* The backups go on to be those of runs that published them.
LEMMA OwnedStep ==
  ASSUME IInv, Separate, Named, Reported, NEW r \in Runs, WriteBackup(r)
  PROVE  Owned(dir)' /\ Owned(dirDisk)'
<1>1. ASSUME NEW q \in Runs, since[q] # {}
      PROVE  since'[q] # {} /\ stamp'[q] = stamp[q] /\ text'[q] = text[q]
  BY <1>1, SinceGrows, StorerStays
<1>2. CASE ~Replace(r)
  <2>1. Still
    BY <1>2, StillUnlessReplaced
  <2>2. ASSUME NEW d \in {dir, dirDisk}, NEW t \in Stamps, d["cfg"][t] # None
        PROVE  \E q \in Runs : /\ since'[q] # {} /\ stamp'[q] = t
                               /\ \A p \in Parts : content'[d["cfg"][t]][p] = text'[q]
    <3>1. PICK q \in Runs : since[q] # {} /\ stamp[q] = t /\ Holds(d["cfg"][t], text[q])
      BY <2>2, ReportedParts DEF Owned
    <3>2. content'[d["cfg"][t]] = content[d["cfg"][t]]
      BY <2>1, <2>2 DEF Still
    <3> QED  BY <1>1, <3>1, <3>2 DEF Holds
  <2> QED  BY <2>1, <2>2 DEF Still, Owned, Holds
<1>3. CASE Replace(r)
  <2>1. /\ content' = content /\ dirDisk' = dirDisk /\ Holds(fd[r], text[r])
        /\ text' = text /\ stamp' = stamp /\ since'[r] = {r}
        /\ \A t \in Stamps : dir'["cfg"][t] = IF t = stamp[r] THEN fd[r] ELSE dir["cfg"][t]
    BY <1>3, Replaced DEF Published
  <2>2. Owned(dirDisk)'
    BY <1>1, <2>1, ReportedParts DEF Owned, Holds
  <2>3. ASSUME NEW t \in Stamps, dir'["cfg"][t] # None
        PROVE  \E q \in Runs : /\ since'[q] # {} /\ stamp'[q] = t
                               /\ \A p \in Parts : content'[dir'["cfg"][t]][p] = text'[q]
    <3>1. CASE t = stamp[r]
      BY <2>1, <3>1 DEF Holds
    <3>2. CASE t # stamp[r]
      <4>1. dir'["cfg"][t] = dir["cfg"][t]
        BY <2>1, <3>2
      <4>2. PICK q \in Runs : since[q] # {} /\ stamp[q] = t /\ Holds(dir["cfg"][t], text[q])
        BY <2>3, <4>1, ReportedParts DEF Owned
      <4> QED  BY <1>1, <2>1, <4>1, <4>2 DEF Holds
    <3> QED  BY <3>1, <3>2
  <2> QED  BY <2>2, <2>3 DEF Owned, Holds
<1> QED  BY <1>2, <1>3

\* What a run has reported stays true of the directory, whatever the others do.
LEMMA ReportedStep ==
  ASSUME IInv, Separate, Named, Reported, Next
  PROVE  Reported'
<1>1. CASE \E r \in Runs : WriteBackup(r)
  <2>1. /\ \A r \in Runs : Keeping(r)' /\ Saying(r)'
        /\ Owned(dir)' /\ Owned(dirDisk)'
    BY <1>1, KeepingStep, SayingStep, OwnedStep
  <2>2. (\A r \in Runs : Keeping(r)') /\ ReportsTrue'
    BY <2>1 DEF ReportsTrue, Keeping, Saying, Owned
  <2> QED  BY <2>2 DEF Reported, Keeping, Done
<1>2. CASE Tick \/ Damage
  <2>1. UNCHANGED <<dir, dirDisk, content, run>>
    BY <1>2, Elsewhere
  <2> QED  BY <2>1 DEF Reported, ReportsTrue, Stored, Kept, Backups, Holds, Unchanged, run
<1>3. CASE Settle
  <2>1. dirDisk' = dir /\ UNCHANGED <<dir, content, run>>
    BY <1>3 DEF Settle
  <2> QED  BY <2>1 DEF Reported, ReportsTrue, Stored, Kept, Backups, Holds, Unchanged, run
<1>4. CASE Outage
  <2>1. /\ dir' = dirDisk /\ dirDisk' = dirDisk
        /\ since' = [r \in Runs |-> IF since[r] = {} THEN {} ELSE since[r] \cup {None}]
        /\ UNCHANGED <<text, stamp, left>>
        /\ \A d \in {dir, dirDisk}, t \in Stamps : d["cfg"][t] # None =>
              content'[d["cfg"][t]] = content[d["cfg"][t]]
        /\ \A r \in Runs : /\ pc'[r] = IF pc[r] \in Working THEN "ended" ELSE pc[r]
                           /\ status'[r] = IF pc[r] \in Working THEN "killed" ELSE status[r]
    BY <1>4, PowerLost
  <2>2. \A r \in Runs : (since'[r] # {} <=> since[r] # {}) /\ (since'[r] # {} => None \in since'[r])
    BY <2>1
  <2>3. \A r \in Runs : Keeping(r)'
    <3> SUFFICES ASSUME NEW r \in Runs  PROVE Keeping(r)'
      OBVIOUS
    <3>1. Keeping(r) /\ pc'[r] \notin {"compare", "return"}
      BY <2>1, ReportedParts DEF Working
    <3>2. since'[r] # {} => pc'[r] = "ended" /\ r \in since'[r]
      BY <2>1, <2>2, <3>1 DEF Keeping, Done, Working
    <3>3. since'[r] # {} => \A q \in since'[r] \ {None} : since'[q] # {}
      <4> SUFFICES ASSUME since'[r] # {}, NEW q \in since'[r] \ {None}  PROVE since'[q] # {}
        OBVIOUS
      <4>0. q # None /\ since[r] \subseteq Runs \cup {None}
        BY DEF IInv, TypeOK
      <4>1. q \in since[r] /\ q \in Runs /\ since[q] # {}
        BY <2>1, <2>2, <3>1, <4>0 DEF Keeping
      <4> QED  BY <2>2, <4>1
    <3> QED  BY <2>2, <3>1, <3>2, <3>3 DEF Keeping, Done
  <2>4. \A r \in Runs : Saying(r)'
    <3> SUFFICES ASSUME NEW r \in Runs  PROVE Saying(r)'
      OBVIOUS
    <3>1. Saying(r) /\ Keeping(r)
      BY ReportedParts
    <3> QED  BY <2>1, <2>2, <3>1 DEF Saying, Keeping, Working
  <2>5. Owned(dir)' /\ Owned(dirDisk)'
    BY <2>1, <2>2, ReportedParts DEF Owned, Holds
  <2>6. (\A r \in Runs : Keeping(r)') /\ ReportsTrue'
    BY <2>3, <2>4, <2>5 DEF ReportsTrue, Keeping, Saying, Owned
  <2> QED  BY <2>6 DEF Reported, Keeping, Done
<1> QED  BY <1>1, <1>2, <1>3, <1>4 DEF Next

-----------------------------------------------------------------------------
(* The order of the backups.                                                *)

\* What the names say of the last backup depends on the names alone.
LEMMA LatestStays ==
  ASSUME dir'["cfg"] = dir["cfg"]
  PROVE  Backups' = Backups /\ Latest' = Latest
<1>1. Backups' = Backups
  BY DEF Backups
<1> QED  BY <1>1 DEF Latest

\* A backup published under a name that none is after is the last.
LEMMA PublishedIsLatest ==
  ASSUME IInv, Separate, NEW r \in Runs, Replace(r), \A t \in Backups : t <= stamp[r]
  PROVE  /\ Backups' = Backups \cup {stamp[r]}
         /\ Latest' = stamp[r] /\ Latest' # 0
         /\ dir'["cfg"][stamp[r]] = fd[r]
<1>1. /\ stamp[r] \in Stamps /\ fd[r] # None
      /\ \A t \in Stamps : dir'["cfg"][t] = IF t = stamp[r] THEN fd[r] ELSE dir["cfg"][t]
  BY Replaced
<1>2. Backups' = Backups \cup {stamp[r]}
  BY <1>1 DEF Backups
<1>3. /\ stamp[r] \in Nat /\ stamp[r] # 0
      /\ \A t \in Backups : t \in Nat
  BY <1>1, OptionsAssumption DEF Stamps, Backups
<1>4. \A t \in Backups' : t \in Nat /\ t <= stamp[r]
  BY <1>2, <1>3
<1>5. \A t \in Backups' : (\A u \in Backups' : u <= t) => t = stamp[r]
  BY <1>1, <1>2, <1>3, <1>4
<1>6. Latest' = CHOOSE t \in Backups' : \A u \in Backups' : u <= t
  BY <1>2 DEF Latest
<1>7. Latest' = stamp[r]
  BY <1>2, <1>4, <1>5, <1>6
<1> QED  BY <1>1, <1>2, <1>3, <1>7

\* One after the other: when a run is at work, no other is.
LEMMA AloneAtWork ==
  ASSUME IInv, Orderly, NEW r \in Runs, NEW q \in Runs, pc[r] \in Working, pc[q] \in Working
  PROVE  q = r
BY DEF IInv, Orderly, Exclusive

\* All the names there are were taken by the clock.
LEMMA NamesByTheClock ==
  ASSUME IInv, Named, InOrder, NEW t \in Backups
  PROVE  t <= clock
<1>1. \E q \in Runs : stamp[q] = t
  BY DEF Named, Backups
<1> QED  BY <1>1 DEF InOrder

\* The clock, and the stamps it gives.
LEMMA StampsStep ==
  ASSUME IInv, Orderly, InOrder, Next
  PROVE  \A r \in Runs : stamp'[r] <= clock'
<1>1. clock \in Nat /\ \A r \in Runs : stamp[r] \in Nat /\ stamp[r] <= clock
  BY OptionsAssumption DEF IInv, TypeOK, Stamps, InOrder
<1>2. CASE \E r \in Runs : WriteBackup(r)
  BY <1>1, <1>2, StepOfRun
<1>3. CASE Tick
  <2>1. clock' = clock + 1 /\ stamp' = stamp
    BY <1>3 DEF Tick, Orderly, run
  <2> QED  BY <1>1, <2>1
<1>4. CASE Damage \/ Settle
  BY <1>1, <1>4 DEF Damage, Settle, run
<1>5. CASE Outage
  BY <1>1, <1>5, PowerLost
<1> QED  BY <1>2, <1>3, <1>4, <1>5 DEF Next

\* The file a run compares with holds a whole configuration, so that what it finds
\* changed is another one.
LEMMA ComparedIsWhole ==
  ASSUME IInv, NEW t \in Backups, NEW c, ~Unchanged(dir["cfg"][t], c)
  PROVE  ~Same(content[dir["cfg"][t]][1], c)
<1>1. t \in Stamps /\ dir["cfg"][t] # None
  BY DEF Backups
<1>2. PICK w \in Plausible : Holds(dir["cfg"][t], w)
  BY <1>1 DEF IInv, PublishedWhole
<1>3. content[dir["cfg"][t]][1] = w
  BY <1>2 DEF Holds, Parts
<1> QED  BY <1>2, <1>3 DEF Unchanged, Same

\* What the other steps of a run do to the order of the backups.
LEMMA RunInOrder ==
  ASSUME IInv, Named, Reported, Orderly, InOrder, NEW r \in Runs, WriteBackup(r), ~Replace(r)
  PROVE  /\ \A q \in Runs : pc'[q] = "compare" => previous'[q] = Latest'
         /\ \A q \in Runs : pc'[q] \in Writing => \A t \in Backups' : t <= stamp'[q]
         /\ \A q \in Runs : pc'[q] \in {"open"} \cup Writing =>
               \/ Forced \/ "unreadable" \in Faults
               \/ Latest' # 0 => ~Same(content'[dir'["cfg"][Latest']][1], text'[q])
         /\ LatestIsLast'
<1> USE DEF IInv
<1>1. /\ Still /\ Latest' = Latest /\ Backups' = Backups
  BY StillUnlessReplaced, LatestStays DEF Still
<1>2. \A q \in Runs \ {r} : /\ pc'[q] = pc[q] /\ previous'[q] = previous[q]
                            /\ stamp'[q] = stamp[q] /\ text'[q] = text[q]
  BY StepOfRun
<1>3. Latest # 0 => /\ Latest \in Backups /\ dir'["cfg"][Latest] = dir["cfg"][Latest]
                    /\ content'[dir["cfg"][Latest]] = content[dir["cfg"][Latest]]
  BY <1>1, LatestIsThere DEF Still, Backups
<1>4. ASSUME NEW q \in Runs, pc'[q] = "compare"  PROVE previous'[q] = Latest
  <2>1. CASE q # r
    BY <1>2, <1>4, <2>1 DEF InOrder
  <2>2. CASE q = r
    BY <1>4, <2>2
       DEF TypeOK, WriteBackup, Begin, List, Compare, Open, Write, Sync, Return, Fail,
           Cleanup, Escape, Kill, Go, End
  <2> QED  BY <2>1, <2>2
<1>5. ASSUME NEW q \in Runs, pc'[q] \in Writing, NEW t \in Backups  PROVE t <= stamp'[q]
  <2>1. CASE q # r
    BY <1>2, <1>5, <2>1 DEF InOrder
  <2>2. CASE q = r /\ Open(r)
    BY <1>5, <2>2, NamesByTheClock DEF Open, TypeOK
  <2>3. CASE q = r /\ ~Open(r)
    <3>1. pc[r] \in Writing /\ stamp' = stamp
      BY <1>5, <2>3
         DEF TypeOK, WriteBackup, Begin, List, Compare, Write, Sync, Return, Fail,
             Cleanup, Escape, Kill, Go, End, Writing
    <3> QED  BY <1>5, <2>3, <3>1 DEF InOrder
  <2> QED  BY <2>1, <2>2, <2>3
<1>6. ASSUME NEW q \in Runs, pc'[q] \in {"open"} \cup Writing,
             ~Forced, "unreadable" \notin Faults, Latest # 0
      PROVE  ~Same(content[dir["cfg"][Latest]][1], text'[q])
  <2>1. CASE q # r
    BY <1>2, <1>6, <2>1 DEF InOrder
  <2>2. CASE q = r /\ Compare(r)
    <3>1. /\ previous[r] = Latest /\ text' = text
          /\ pc[r] = "compare" /\ pc'[r] # "ended"
      BY <1>6, <2>2 DEF Compare, InOrder, Writing
    <3>2. damage[dir["cfg"][Latest]] # "unreadable"
      BY <1>3, <1>6 DEF InOrder, TypeOK, Suffixes, Backups
    <3>3. ~Unchanged(dir["cfg"][Latest], text[r])
      BY <2>2, <3>1, <3>2 DEF Compare, End, TypeOK
    <3> QED  BY <1>3, <1>6, <2>2, <3>1, <3>3, ComparedIsWhole
  <2>3. CASE q = r /\ ~Compare(r)
    <3>1. CASE List(r)
      BY <1>6, <2>3, <3>1 DEF List, Go, TypeOK, Writing
    <3>2. CASE ~List(r)
      <4>1. pc[r] \in {"open"} \cup Writing /\ text' = text
        BY <1>6, <2>3, <3>2
           DEF TypeOK, WriteBackup, Begin, Open, Write, Sync, Return, Fail, Cleanup,
               Escape, Kill, Go, End, Writing
      <4> QED  BY <1>6, <2>3, <4>1 DEF InOrder
    <3> QED  BY <3>1, <3>2
  <2> QED  BY <2>1, <2>2, <2>3
<1>7. LatestIsLast'
  <2> SUFFICES ASSUME NEW q \in Runs, since'[q] = {q}
               PROVE  Latest' # 0 /\ Unchanged(dir["cfg"][Latest], text[q])'
    BY DEF LatestIsLast
  <2>1. CASE since[q] = {q}
    <3>1. Latest # 0 /\ Unchanged(dir["cfg"][Latest], text[q])
      BY <2>1 DEF InOrder, LatestIsLast
    <3>2. text'[q] = text[q]
      BY <2>1, StorerStays
    <3> QED  BY <1>1, <1>3, <3>1, <3>2 DEF Unchanged, Holds
  <2>2. CASE since[q] # {q}
    <3>1. /\ q = r /\ pc[r] = "compare"
          /\ Unchanged(dir["cfg"][previous[r]], text[r])
      BY <2>2, SinceStep DEF TypeOK
    <3>2. text'[r] = text[r] /\ previous[r] = Latest /\ previous[r] \in Backups
      BY <3>1, StepOfRun DEF InOrder, Reported
    <3>3. Latest # 0
      BY <3>2, OptionsAssumption DEF Backups, Stamps
    <3> QED  BY <1>1, <1>3, <3>1, <3>2, <3>3 DEF Unchanged, Holds
  <2> QED  BY <2>1, <2>2
<1> QED  BY <1>1, <1>3, <1>4, <1>5, <1>6, <1>7

\* What a run at work publishes is the last backup.
LEMMA ReplaceInOrder ==
  ASSUME IInv, Reported, Orderly, InOrder, NEW r \in Runs, Replace(r)
  PROVE  /\ \A q \in Runs : pc'[q] = "compare" => previous'[q] = Latest'
         /\ \A q \in Runs : pc'[q] \in Writing => \A t \in Backups' : t <= stamp'[q]
         /\ \A q \in Runs : pc'[q] \in {"open"} \cup Writing =>
               \/ Forced \/ "unreadable" \in Faults
               \/ Latest' # 0 => ~Same(content'[dir'["cfg"][Latest']][1], text'[q])
         /\ LatestIsLast'
<1> USE DEF IInv
<1>0. Separate
  BY DEF Separate, Orderly
<1>1. /\ pc[r] = "replace" /\ pc'[r] = "return" /\ since' = Published(r) /\ text' = text
      /\ content' = content /\ Holds(fd[r], text[r])
      /\ \A q \in Runs \ {r} : pc'[q] = pc[q]
  BY <1>0, Replaced DEF TypeOK
<1>2. \A q \in Runs : q # r => pc'[q] \notin Working
  <2>1. \A q \in Runs \ {r} : pc[q] \notin Working
    BY <1>1, AloneAtWork DEF Working
  <2> QED  BY <1>1, <2>1
<1>3. \A q \in Runs : pc'[q] # "compare" /\ pc'[q] \notin {"open"} \cup Writing
  BY <1>1, <1>2 DEF Working, Writing
<1>4. \A t \in Backups : t <= stamp[r]
  BY <1>1 DEF InOrder, Writing
<1>5. Latest' = stamp[r] /\ Latest' # 0 /\ dir'["cfg"][stamp[r]] = fd[r]
  BY <1>0, <1>4, PublishedIsLatest
<1>6. LatestIsLast'
  <2>1. \A q \in Runs : since'[q] = {q} => q = r
    <3> SUFFICES ASSUME NEW q \in Runs, since'[q] = {q}, q # r  PROVE FALSE
      OBVIOUS
    <3>1. since'[q] \in {{}, since[q] \cup {r}}
      BY <1>1 DEF Published
    <3> QED  BY <3>1
  <2> QED  BY <1>1, <1>5, <2>1 DEF LatestIsLast, Unchanged, Holds, Parts
<1> QED  BY <1>1, <1>3, <1>6

\* Only a fault that there may be damages a file.
LEMMA DamageStep ==
  ASSUME IInv, InOrder, Next
  PROVE  \A i \in Inodes : damage'[i] = "unreadable" => "unreadable" \in Faults
<1>1. CASE Damage
  <2>1. PICK t \in Backups, kind \in Faults :
           damage' = [damage EXCEPT ![dir["cfg"][t]] = kind]
    BY <1>1 DEF Damage
  <2> QED  BY <2>1 DEF IInv, TypeOK, InOrder
<1>2. CASE ~Damage
  <2>1. damage' = damage
    BY <1>2, StepOfRun, PowerLost DEF Next, Tick, Settle, disk
  <2> QED  BY <2>1 DEF InOrder
<1> QED  BY <1>1, <1>2

\* With runs in turn the names are in the order of the captures.
LEMMA InOrderStep ==
  ASSUME IInv, Named, Reported, Orderly, InOrder, Next
  PROVE  InOrder'
<1> USE DEF IInv
<1>0. /\ \A r \in Runs : stamp'[r] <= clock'
      /\ \A i \in Inodes : damage'[i] = "unreadable" => "unreadable" \in Faults
  BY StampsStep, DamageStep
<1>1. CASE \E r \in Runs : WriteBackup(r)
  <2>1. PICK r \in Runs : WriteBackup(r)
    BY <1>1
  <2>2. CASE Replace(r)
    BY <1>0, <2>2, ReplaceInOrder DEF InOrder
  <2>3. CASE ~Replace(r)
    BY <1>0, <2>1, <2>3, RunInOrder DEF InOrder
  <2> QED  BY <2>2, <2>3
<1>2. CASE Tick \/ Damage \/ Settle
  <2>1. UNCHANGED <<dir, content, pc, text, previous, stamp, since>>
    BY <1>2, Elsewhere DEF Settle, run
  <2>2. Latest' = Latest /\ Backups' = Backups
    BY <2>1, LatestStays
  <2>3. LatestIsLast'
    BY <2>1, <2>2 DEF InOrder, LatestIsLast, Unchanged, Holds
  <2> QED  BY <1>0, <2>1, <2>2, <2>3 DEF InOrder
<1>3. CASE Outage
  <2>1. \A r \in Runs : pc'[r] \notin Working
    BY <1>3, PowerLost DEF Working
  <2>2. \A r \in Runs : pc'[r] # "compare" /\ pc'[r] \notin {"open"} \cup Writing
    BY <2>1 DEF Working, Writing
  <2>3. LatestIsLast'
    <3>1. \A r \in Runs : since'[r] = {} \/ None \in since'[r]
      BY <1>3, PowerLost
    <3>2. \A r \in Runs : since'[r] # {r}
      BY <3>1, OptionsAssumption
    <3> QED  BY <3>2 DEF LatestIsLast
  <2> QED  BY <1>0, <2>1, <2>2, <2>3 DEF InOrder
<1> QED  BY <1>1, <1>2, <1>3 DEF Next

-----------------------------------------------------------------------------
(* The theorems.                                                            *)

\* An empty directory has the second invariant.
LEMMA HInitInv == Init => HInv
<1> SUFFICES ASSUME Init  PROVE HInv
  OBVIOUS
<1>1. Backups = {} /\ Latest = 0
  BY DEF Init, Empty, Suffixes, Backups, Latest
<1>2. Named /\ NoTemporaryLeft /\ Reported
  BY DEF Init, Empty, Suffixes, Named, NoTemporaryLeft, Reported, ReportsTrue
<1>3. InOrder
  BY DEF Init, InOrder, LatestIsLast, Writing
<1> QED  BY <1>2, <1>3, InitInv DEF HInv

\* A step that changes nothing keeps it.
LEMMA HNothing == HInv /\ UNCHANGED vars => HInv'
<1> SUFFICES ASSUME HInv, UNCHANGED vars  PROVE HInv'
  OBVIOUS
<1> USE DEF HInv
<1>1. UNCHANGED <<clock, dir, dirDisk, content, synced, damage, outages, pc, text, previous,
                  stamp, fd, written, status, since, left>>
  BY DEF vars, disk, run
<1>2. Latest' = Latest /\ Backups' = Backups
  BY <1>1, LatestStays
<1>3. IInv'
  BY <1>1 DEF IInv, TypeOK, Exclusive, Fresh, Handle, Apart, PublishedWhole, Holds
<1>4. Named' /\ NoTemporaryLeft'
  BY <1>1 DEF Named, NoTemporaryLeft
<1>5. Reported'
  BY <1>1, <1>2 DEF Reported, ReportsTrue, Stored, Kept, Holds, Unchanged
<1>6. InOrder => InOrder'
  BY <1>1, <1>2 DEF InOrder, LatestIsLast, Holds, Unchanged
<1> QED  BY <1>3, <1>4, <1>5, <1>6

\* Runs that keep off each other's temporary file name their backups as they should,
\* leave no file behind, and report what is so.
THEOREM HistoryInvariance == ASSUME Separate  PROVE Spec => []HInv
<1>1. HInv /\ [Next]_vars => HInv'
  <2> SUFFICES ASSUME HInv, [Next]_vars  PROVE HInv'
    OBVIOUS
  <2> USE DEF HInv
  <2>1. CASE Next
    <3>1. IInv'
      BY <2>1, NextInv
    <3>2. Named' /\ NoTemporaryLeft' /\ Reported'
      BY <2>1, NamedStep, NoTemporaryStep, ReportedStep
    <3>3. Orderly => InOrder'
      BY <2>1, InOrderStep
    <3> QED  BY <3>1, <3>2, <3>3
  <2>2. CASE UNCHANGED vars
    BY <2>2, HNothing
  <2> QED  BY <2>1, <2>2
<1> QED  BY HInitInv, <1>1, PTL DEF Spec

\* A temporary file is that of a run at work, or of one that was killed at work on it or
\* whose own unlink failed or was interrupted.
THEOREM NothingLeft == ASSUME Separate  PROVE Spec => []NoTemporaryLeft
<1>1. HInv => NoTemporaryLeft
  BY DEF HInv
<1> QED  BY <1>1, HistoryInvariance, PTL

\* The result of write_backup is so, whatever fails, and a run that published a file
\* without reporting it was stopped between the rename and its result.
THEOREM ReportsTheorem == ASSUME Separate  PROVE Spec => []ReportsTrue
<1>1. HInv => ReportsTrue
  BY DEF HInv, Reported
<1> QED  BY <1>1, HistoryInvariance, PTL

\* No backup is ever overwritten, changed or removed, whatever fails, when a second has
\* one run.
THEOREM HistoryTheorem == ASSUME ~SameSecond  PROVE Spec => HistoryKept
<1>0. Separate
  BY DEF Separate
<1>1. HInv /\ [Next]_vars =>
        [\A t \in Backups :
            outages' = outages \/ dirDisk["cfg"][t] # None =>
                /\ dir'["cfg"][t] = dir["cfg"][t]
                /\ content'[dir["cfg"][t]] = content[dir["cfg"][t]]]_vars
  BY <1>0, StepKeepsHistory DEF HInv
<1> QED  BY <1>0, <1>1, HistoryInvariance, PTL DEF Spec, HistoryKept

\* One run after the other and a clock that is not set back make the last name that of
\* the configuration last stored, reported or not: the one an audit takes.
THEOREM LatestTheorem == ASSUME Orderly  PROVE Spec => []LatestIsLast
<1>0. Separate
  BY DEF Separate, Orderly
<1>1. HInv => LatestIsLast
  BY DEF HInv, InOrder
<1> QED  BY <1>0, <1>1, HistoryInvariance, PTL

-----------------------------------------------------------------------------
(* The directory is a history.                                              *)

\* A directory has a file under the name of each backup, which holds what its first part
\* does.
LEMMA DirectoryHas ==
  ASSUME NEW d
  PROVE  /\ DOMAIN Directory(d) = {t \in Stamps : d["cfg"][t] # None}
         /\ \A t \in DOMAIN Directory(d) : Directory(d)[t] = content[d["cfg"][t]][1]
BY DEF Directory

\* A step that leaves the backups alone is not one of the history.
LEMMA StillIsStutter ==
  ASSUME Still
  PROVE  UNCHANGED <<Directory(dir), Directory(dirDisk)>>
<1>1. \A d \in {dir, dirDisk} : \A t \in {u \in Stamps : d["cfg"][u] # None} :
         content'[d["cfg"][t]][1] = content[d["cfg"][t]][1]
  BY DEF Still
<1>2. Directory(dir)' = Directory(dir)
  BY <1>1 DEF Directory, Still
<1>3. Directory(dirDisk)' = Directory(dirDisk)
  BY <1>1 DEF Directory, Still
<1> QED  BY <1>2, <1>3

\* The rename publishes a configuration that looks like one, under the last name, and
\* that is not the one before it.
LEMMA ReplaceIsPublish ==
  ASSUME IInv, Named, Orderly, InOrder, NEW r \in Runs, Replace(r)
  PROVE  History!Publish(stamp[r])
<1> USE DEF IInv
<1>0. Separate
  BY DEF Separate, Orderly
<1>1. /\ pc[r] \in Writing /\ stamp[r] \in Stamps /\ fd[r] # None
      /\ text[r] \in Plausible /\ Holds(fd[r], text[r])
      /\ content' = content /\ dirDisk' = dirDisk
      /\ \A t \in Stamps : dir'["cfg"][t] = IF t = stamp[r] THEN fd[r] ELSE dir["cfg"][t]
  BY <1>0, Replaced DEF Writing
<1>2. DOMAIN Directory(dir) = Backups
  BY DirectoryHas DEF Backups
<1>3. {t \in Stamps : dir'["cfg"][t] # None} = Backups \cup {stamp[r]}
  BY <1>1 DEF Backups
<1>4. Directory(dir)' = [t \in Backups \cup {stamp[r]} |-> content[dir'["cfg"][t]][1]]
  BY <1>1, <1>3 DEF Directory
<1>5. \A t \in Backups \ {stamp[r]} : Directory(dir)'[t] = Directory(dir)[t]
  <2>1. \A t \in Backups : Directory(dir)[t] = content[dir["cfg"][t]][1]
    BY <1>2, DirectoryHas
  <2>2. \A t \in Backups \ {stamp[r]} : dir'["cfg"][t] = dir["cfg"][t]
    BY <1>1 DEF Backups
  <2> QED  BY <1>4, <2>1, <2>2
<1>6. Directory(dir)'[stamp[r]] = text[r]
  BY <1>1, <1>4 DEF Holds, Parts
<1>7. \A t \in Backups : t < stamp[r] \/ (SameSecond /\ t = stamp[r])
  <2> SUFFICES ASSUME NEW t \in Backups  PROVE t < stamp[r] \/ (SameSecond /\ t = stamp[r])
    OBVIOUS
  <2>1. t <= stamp[r] /\ t \in Nat /\ stamp[r] \in Nat /\ stamp[r] # 0
    BY <1>1, OptionsAssumption DEF InOrder, Backups, Stamps
  <2>2. PICK q \in Runs : stamp[q] = t /\ pc[q] \in Done
    BY DEF Named, Backups, Done
  <2>3. ~SameSecond => t # stamp[r]
    BY <1>1, <2>1, <2>2 DEF Exclusive, Writing, Done
  <2> QED  BY <2>1, <2>3, OptionsAssumption
<1>8. \/ Forced \/ "unreadable" \in Faults
      \/ \A t \in Backups : (\A u \in Backups : u <= t) => ~Same(Directory(dir)[t], text[r])
  <2> SUFFICES ASSUME ~(Forced \/ "unreadable" \in Faults), NEW t \in Backups,
                      \A u \in Backups : u <= t
               PROVE  ~Same(Directory(dir)[t], text[r])
    OBVIOUS
  <2>1. t = Latest /\ Latest # 0
    <3>1. Latest \in Backups /\ Latest <= t /\ t <= Latest
      BY LatestIsThere
    <3> QED  BY <3>1, OptionsAssumption DEF Backups, Stamps
  <2>2. ~Same(content[dir["cfg"][Latest]][1], text[r])
    BY <1>1, <2>1 DEF InOrder
  <2> QED  BY <1>2, <2>1, <2>2, DirectoryHas
<1>9. UNCHANGED Directory(dirDisk)
  BY <1>1 DEF Directory
<1>10. DOMAIN Directory(dir)' = Backups \cup {stamp[r]}
  BY <1>4
<1> QED  BY <1>1, <1>2, <1>5, <1>6, <1>7, <1>8, <1>9, <1>10
         DEF History!Publish, History!Latest

\* Every step of the runs and of the environment is one of the history, or none.
LEMMA StepIsHistory ==
  ASSUME HInv, Orderly, [Next]_vars
  PROVE  [History!Next]_(History!vars)
<1> USE DEF HInv
<1>1. CASE \E r \in Runs : WriteBackup(r)
  <2>1. PICK r \in Runs : WriteBackup(r)
    BY <1>1
  <2>2. CASE Replace(r)
    BY <2>2, ReplaceIsPublish, Replaced DEF History!Next, Orderly, Separate
  <2>3. CASE ~Replace(r)
    BY <2>1, <2>3, StillUnlessReplaced, StillIsStutter DEF History!vars
  <2> QED  BY <2>2, <2>3
<1>2. CASE Tick \/ Damage
  BY <1>2, Elsewhere, StillIsStutter DEF History!vars
<1>3. CASE Settle
  <2>1. content' = content /\ dir' = dir /\ dirDisk' = dir
    BY <1>3 DEF Settle
  <2>2. Directory(dirDisk)' = Directory(dir) /\ Directory(dir)' = Directory(dir)
    BY <2>1 DEF Directory
  <2> QED  BY <2>2 DEF History!Next, History!Settle
<1>4. CASE Outage
  <2>1. /\ dir' = dirDisk /\ dirDisk' = dirDisk
        /\ \A t \in {u \in Stamps : dirDisk["cfg"][u] # None} :
              content'[dirDisk["cfg"][t]][1] = content[dirDisk["cfg"][t]][1]
    BY <1>4, PowerLost
  <2>2. Directory(dir)' = Directory(dirDisk) /\ Directory(dirDisk)' = Directory(dirDisk)
    BY <2>1 DEF Directory
  <2> QED  BY <2>2 DEF History!Next, History!Outage
<1>5. CASE UNCHANGED vars
  <2>1. content' = content /\ dir' = dir /\ dirDisk' = dirDisk
    BY <1>5 DEF vars, disk
  <2> QED  BY <2>1, StillIsStutter DEF Still, History!vars
<1> QED  BY <1>1, <1>2, <1>3, <1>4, <1>5 DEF Next

\* The directory of a device, written by one run after the other under a clock that is
\* not set back, implements BackupHistory: whatever fails or is killed.
THEOREM HistoryRefinement == ASSUME Orderly  PROVE Spec => ImplementsHistory
<1>0. Separate
  BY DEF Separate, Orderly
<1>1. Init => History!Init
  <2> SUFFICES ASSUME Init  PROVE Directory(dir) = << >> /\ Directory(dirDisk) = << >>
    BY DEF History!Init
  <2>1. {t \in Stamps : Empty["cfg"][t] # None} = {}
    BY DEF Empty, Suffixes
  <2>2. Directory(Empty) \in [1..0 -> {}]
    BY <2>1 DEF Directory
  <2>3. Directory(Empty) = << >>
    <3>1. Directory(Empty) \in Seq({}) /\ Len(Directory(Empty)) = 0
      BY <2>2
    <3> QED  BY <3>1, EmptySeq
  <2> QED  BY <2>3 DEF Init
<1>2. HInv /\ [Next]_vars => [History!Next]_(History!vars)
  BY StepIsHistory
<1> QED  BY <1>0, <1>1, <1>2, HistoryInvariance, PTL
         DEF Spec, ImplementsHistory, History!Spec
=============================================================================
