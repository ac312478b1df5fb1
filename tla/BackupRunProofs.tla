--------------------------- MODULE BackupRunProofs ---------------------------
(***************************************************************************)
(* Proofs about BackupRun, for any inventory, configurations, files of the  *)
(* user, number of runs and faults.                                         *)
(***************************************************************************)
EXTENDS BackupRun, FiniteSetTheorems, SequenceTheorems, TLAPS

-----------------------------------------------------------------------------
(* The inventory and the rows.                                              *)

\* The inventory lists the devices at the places 1..Len(Inventory).
LEMMA Places ==
  /\ Len(Inventory) \in Nat \ {0}
  /\ DOMAIN Inventory = 1..Len(Inventory)
  /\ \A i \in 1..Len(Inventory) : Inventory[i] \in Devices
  /\ \A d \in Devices : \E i \in 1..Len(Inventory) : d = Inventory[i]
BY OptionsAssumption, LenProperties, EmptySeq DEF Devices

\* The device whose turn it is has no row yet.
LEMMA DeviceIsNext ==
  ASSUME TypeOK, RowsInv, pc = "write"
  PROVE  /\ Device \in Devices
         /\ \A i \in DOMAIN rows : rows[i].device = Inventory[i] /\ Inventory[i] # Device
         /\ Device \notin Written(rows)
<1>1. /\ Len(rows) \in Nat /\ DOMAIN rows = 1..Len(rows)
      /\ Len(rows) + 1 \in 1..Len(Inventory)
  BY Places, LenProperties DEF TypeOK, RowsInv
<1>2. Device \in Devices
  BY <1>1, Places DEF Device
<1>3. \A i \in DOMAIN rows : rows[i].device = Inventory[i] /\ Inventory[i] # Device
  <2> SUFFICES ASSUME NEW i \in DOMAIN rows
               PROVE  rows[i].device = Inventory[i] /\ Inventory[i] # Device
    OBVIOUS
  <2>1. i \in DOMAIN Inventory /\ Len(rows) + 1 \in DOMAIN Inventory /\ i # Len(rows) + 1
    BY <1>1, Places
  <2> QED  BY <2>1, OptionsAssumption DEF RowsInv, Device
<1> QED  BY <1>2, <1>3 DEF Written

\* What one more row changes, and what it leaves alone.
LEMMA RowAdded ==
  ASSUME TypeOK, RowsInv, pc = "write", NEW status \in Statuses, AddRow(status)
  PROVE  /\ rows' \in Seq([device : Devices, status : Statuses])
         /\ Len(rows') = Len(rows) + 1 /\ Len(rows') <= Len(Inventory)
         /\ DOMAIN rows = 1..Len(rows) /\ DOMAIN rows' = DOMAIN rows \cup {Len(rows')}
         /\ \A i \in DOMAIN rows : rows'[i] = rows[i]
         /\ rows'[Len(rows')] = [device |-> Device, status |-> status]
         /\ Inventory[Len(rows')] = Device
         /\ Written(rows') = IF status = "written" THEN Written(rows) \cup {Device}
                             ELSE Written(rows)
<1> DEFINE row == [device |-> Device, status |-> status]
<1>1. Len(rows) \in Nat /\ DOMAIN rows = 1..Len(rows) /\ Len(rows) + 1 <= Len(Inventory)
  BY Places, LenProperties DEF TypeOK, RowsInv
<1>2. row \in [device : Devices, status : Statuses]
  BY DeviceIsNext
<1>3. rows' = Append(rows, row) /\ rows \in Seq([device : Devices, status : Statuses])
  BY DEF AddRow, TypeOK
<1>4. /\ rows' \in Seq([device : Devices, status : Statuses])
      /\ Len(rows') = Len(rows) + 1
      /\ \A i \in 1..Len(rows) : rows'[i] = rows[i]
      /\ rows'[Len(rows) + 1] = row
  <2> HIDE DEF row
  <2> QED  BY <1>2, <1>3, AppendProperties
<1>5. DOMAIN rows' = 1..(Len(rows) + 1)
  BY <1>4, LenProperties
<1>6. DOMAIN rows' = DOMAIN rows \cup {Len(rows')}
  BY <1>1, <1>4, <1>5
<1>7. Written(rows') = IF status = "written" THEN Written(rows) \cup {Device} ELSE Written(rows)
  <2>1. rows'[Len(rows')] = row /\ Len(rows') \in DOMAIN rows' /\ Len(rows') \notin DOMAIN rows
    BY <1>1, <1>4, <1>6
  <2>2. {j \in DOMAIN rows' : rows'[j].status = "written"}
          = IF status = "written" THEN {j \in DOMAIN rows : rows[j].status = "written"} \cup {Len(rows')}
            ELSE {j \in DOMAIN rows : rows[j].status = "written"}
    BY <1>1, <1>4, <1>6, <2>1
  <2> QED  BY <1>1, <1>4, <2>1, <2>2 DEF Written
<1> QED  BY <1>1, <1>4, <1>6, <1>7 DEF Device

\* The store after a row: the device's file is added if it was written, and the
\* directories of the others are as they were.
LEMMA StoreAfterRow ==
  ASSUME TypeOK, RowsInv, pc = "write", NEW status \in Statuses, AddRow(status),
         status = "written" => collected[Device] \in Configs
  PROVE  /\ store' \in [Devices -> Seq(Configs)]
         /\ \A d \in Devices \ {Device} : store'[d] = store[d]
         /\ status # "written" => store'[Device] = store[Device]
         /\ status = "written" =>
              /\ Len(store'[Device]) = Len(store[Device]) + 1
              /\ store'[Device] # << >>
              /\ store'[Device][Len(store'[Device])] = collected[Device]
         /\ \A d \in Devices : DOMAIN store[d] \subseteq DOMAIN store'[d]
<1>1. Device \in Devices /\ store[Device] \in Seq(Configs)
  BY DeviceIsNext DEF TypeOK
<1>2. store' = [store EXCEPT ![Device] =
                   IF status = "written" THEN Append(store[Device], collected[Device])
                   ELSE store[Device]]
  BY DEF AddRow
<1>3. \A d \in Devices \ {Device} : store'[d] = store[d]
  BY <1>1, <1>2 DEF TypeOK
<1>4. CASE status # "written"
  BY <1>1, <1>2, <1>3, <1>4 DEF TypeOK
<1>5. CASE status = "written"
  <2>1. store'[Device] = Append(store[Device], collected[Device])
    BY <1>1, <1>2, <1>5 DEF TypeOK
  <2>2. /\ Append(store[Device], collected[Device]) \in Seq(Configs)
        /\ Append(store[Device], collected[Device]) # << >>
        /\ Len(Append(store[Device], collected[Device])) = Len(store[Device]) + 1
        /\ Append(store[Device], collected[Device])[Len(store[Device]) + 1] = collected[Device]
    BY <1>1, <1>5, AppendProperties
  <2>3. store' \in [Devices -> Seq(Configs)]
    BY <1>1, <1>2, <1>5, <2>2 DEF TypeOK
  <2>4. DOMAIN store[Device] \subseteq DOMAIN store'[Device]
    <3>1. /\ DOMAIN store[Device] = 1..Len(store[Device]) /\ Len(store[Device]) \in Nat
          /\ DOMAIN store'[Device] = 1..(Len(store[Device]) + 1)
      BY <1>1, <2>1, <2>2, LenProperties
    <3> QED  BY <3>1
  <2> QED  BY <1>3, <1>5, <2>1, <2>2, <2>3, <2>4
<1> QED  BY <1>4, <1>5

-----------------------------------------------------------------------------
(* The steps of the run.                                                    *)

\* The invariant holds of a repository without a run.
LEMMA InitInv == Init => IInv
<1> SUFFICES ASSUME Init  PROVE IInv
  OBVIOUS
<1>1. rows = << >> /\ DOMAIN rows = {} /\ Len(rows) = 0 /\ Written(rows) = {}
  BY EmptySeq DEF Init, Written
<1>2. \A d \in Devices : store[d] \in Seq(Configs) /\ Len(store[d]) = 0
  BY EmptySeq DEF Init
<1>3. TypeOK
  BY <1>1, <1>2, EmptySeq, Places, OptionsAssumption DEF Init, TypeOK, Options
<1>4. RowsInv
  BY <1>1 DEF Init, RowsInv, Finished, Reported
<1>5. FilesInv
  BY <1>1, <1>2 DEF Init, FilesInv
<1>6. GitInv
  BY DEF Init, GitInv, Finished
<1> QED  BY <1>3, <1>4, <1>5, <1>6 DEF IInv

\* A device's turn gives it one row, which says what is then true of its file.
LEMMA WriteIsARow ==
  ASSUME TypeOK, RowsInv, WriteBackup
  PROVE  \E status \in Statuses :
           /\ AddRow(status)
           /\ status = "written" => collected[Device] \in Configs
           /\ status = "unchanged" => collected[Device] \in Configs /\ Unchanged(Device)
           /\ status \in {"skipped", "rejected"} => collected[Device] \notin Configs
BY ConfigsAssumption DEF WriteBackup, Statuses

\* WriteBackup adds the next device's row, and a file only for one that is written.
LEMMA WriteBackupRows ==
  ASSUME IInv, WriteBackup
  PROVE  TypeOK' /\ RowsInv' /\ FilesInv' /\ GitInv'
<1>0. TypeOK /\ RowsInv /\ FilesInv /\ GitInv /\ pc = "write"
  BY DEF IInv, WriteBackup
<1>1. PICK status \in Statuses :
           /\ AddRow(status)
           /\ status = "written" => collected[Device] \in Configs
           /\ status = "unchanged" => collected[Device] \in Configs /\ Unchanged(Device)
           /\ status \in {"skipped", "rejected"} => collected[Device] \notin Configs
  BY <1>0, WriteIsARow
<1>2. UNCHANGED <<runs, options, collected, index, head, staged, commit, exit, before>>
  BY DEF WriteBackup, git
<1>3. /\ rows' \in Seq([device : Devices, status : Statuses])
      /\ Len(rows') = Len(rows) + 1 /\ Len(rows') <= Len(Inventory)
      /\ DOMAIN rows = 1..Len(rows) /\ DOMAIN rows' = DOMAIN rows \cup {Len(rows')}
      /\ \A i \in DOMAIN rows : rows'[i] = rows[i]
      /\ rows'[Len(rows')] = [device |-> Device, status |-> status]
      /\ Inventory[Len(rows')] = Device
      /\ Written(rows') = IF status = "written" THEN Written(rows) \cup {Device}
                          ELSE Written(rows)
  BY <1>0, <1>1, RowAdded
<1>4. /\ store' \in [Devices -> Seq(Configs)]
      /\ \A d \in Devices \ {Device} : store'[d] = store[d]
      /\ status # "written" => store'[Device] = store[Device]
      /\ status = "written" =>
           /\ Len(store'[Device]) = Len(store[Device]) + 1
           /\ store'[Device] # << >>
           /\ store'[Device][Len(store'[Device])] = collected[Device]
      /\ \A d \in Devices : DOMAIN store[d] \subseteq DOMAIN store'[d]
  BY <1>0, <1>1, StoreAfterRow
<1>5. /\ pc' = IF Len(rows') < Len(Inventory) THEN "write"
               ELSE IF options.git_commit /\ Written(rows') # {} THEN "is_repo" ELSE "report"
      /\ Len(rows') \in Nat /\ Len(Inventory) \in Nat
  BY <1>1, <1>3, Places, LenProperties DEF AddRow
<1>6. /\ Device \in Devices /\ Device \notin Written(rows)
      /\ \A i \in DOMAIN rows : rows[i].device = Inventory[i] /\ Inventory[i] # Device
  BY <1>0, DeviceIsNext
<1>7. TypeOK'
  <2>1. pc' \in {"write", "is_repo", "report"}
    BY <1>5
  <2>2. \A p \in index' \ UserFiles : p \in Paths /\ p[2] \in DOMAIN store'[p[1]]
    BY <1>0, <1>2, <1>4 DEF TypeOK, Paths
  <2> QED  BY <1>0, <1>2, <1>3, <1>4, <2>1, <2>2 DEF TypeOK
<1>8. RowsInv'
  <2>1. pc' = "write" => Len(rows') < Len(Inventory)
    BY <1>5
  <2>2. pc' # "write" => Len(rows') = Len(Inventory)
    BY <1>3, <1>5
  <2>3. pc' # "collect" /\ ~Finished'
    BY <1>5 DEF Finished
  <2>4. ASSUME NEW i \in DOMAIN rows'
        PROVE  /\ rows'[i].device = Inventory[i]
               /\ Ok(rows'[i]) => collected'[Inventory[i]] \in Configs /\ Unchanged(Inventory[i])'
               /\ rows'[i].status \in {"skipped", "rejected"} =>
                    collected'[Inventory[i]] \notin Configs
    <3>1. CASE i \in DOMAIN rows
      <4>1. rows'[i] = rows[i] /\ Inventory[i] # Device /\ Inventory[i] \in Devices
        <5>1. i \in 1..Len(Inventory)
          BY <1>3, <1>5, <3>1
        <5> QED  BY <1>3, <1>6, <3>1, <5>1, Places
      <4>2. store'[Inventory[i]] = store[Inventory[i]]
        BY <1>4, <4>1
      <4>3. Unchanged(Inventory[i])' <=> Unchanged(Inventory[i])
        BY <1>2, <4>2 DEF Unchanged
      <4> QED  BY <1>0, <1>2, <3>1, <4>1, <4>3 DEF RowsInv, Ok
    <3>2. CASE i = Len(rows')
      <4>1. Ok(rows'[i]) <=> status \in {"written", "unchanged"}
        BY <1>3, <3>2 DEF Ok, OkStatuses
      <4>2. Inventory[i] = Device
        BY <1>3, <3>2
      <4>3. status \in {"written", "unchanged"} =>
              /\ collected'[Device] \in Configs
              /\ store'[Device] # << >>
              /\ store'[Device][Len(store'[Device])] = collected'[Device]
        BY <1>1, <1>2, <1>4 DEF Unchanged
      <4>4. Unchanged(Inventory[i])' <=>
              /\ store'[Device] # << >>
              /\ store'[Device][Len(store'[Device])] = collected'[Device]
        BY <4>2 DEF Unchanged
      <4> QED  BY <1>1, <1>2, <1>3, <3>2, <4>1, <4>2, <4>3, <4>4
    <3> QED  BY <1>3, <3>1, <3>2
  <2> QED  BY <2>1, <2>2, <2>3, <2>4, <1>5 DEF RowsInv, Reported
<1>9. FilesInv'
  <2>1. before' \in [Devices -> Nat]
    BY <1>0, <1>2 DEF FilesInv
  <2>2. ASSUME NEW d \in Devices
        PROVE  Len(store'[d]) = IF d \in Written(rows') THEN before'[d] + 1 ELSE before'[d]
    <3>1. Len(store[d]) = IF d \in Written(rows) THEN before[d] + 1 ELSE before[d]
      BY <1>0 DEF FilesInv
    <3>2. CASE d # Device
      BY <1>2, <1>3, <1>4, <3>1, <3>2
    <3>3. CASE d = Device
      <4>1. Len(store[d]) = before'[d]
        BY <1>2, <1>6, <3>1, <3>3
      <4> QED  BY <1>3, <1>4, <1>6, <3>3, <4>1
    <3> QED  BY <3>2, <3>3
  <2> QED  BY <2>1, <2>2 DEF FilesInv
<1>10. GitInv'
  <2>1. commit' = "none" /\ pc' \in {"write", "is_repo", "report"}
    BY <1>0, <1>2, <1>4, <1>5 DEF GitInv
  <2>2. pc' = "report" /\ options'.git_commit => Written(rows') = {}
    BY <1>2, <1>5
  <2>3. Written(rows') = {} => written_paths' = {}
    BY DEF written_paths
  <2> QED  BY <2>1, <2>2, <2>3 DEF GitInv, Finished
<1> QED  BY <1>7, <1>8, <1>9, <1>10

\* A step that makes no row and adds no file keeps what the rows tell, if it goes on
\* from where every device has one, or leaves the run where it is, or without one of
\* its own exit codes.
LEMMA RowsKept ==
  ASSUME RowsInv, FilesInv, UNCHANGED <<rows, collected, store, before>>,
         pc' = pc \/ pc' \notin {"collect", "write"},
         pc' \in Reported => pc \in Reported,
         Finished' => \/ Finished /\ exit' = exit
                      \/ pc \in Reported /\ exit' = ExitCode
  PROVE  RowsInv' /\ FilesInv'
<1>1. ExitCode' = ExitCode /\ Written(rows') = Written(rows)
  BY DEF ExitCode, Written
<1>2. \A i : Unchanged(Inventory[i])' <=> Unchanged(Inventory[i])
  BY DEF Unchanged
<1>3. RowsInv'
  BY <1>1, <1>2 DEF RowsInv, Finished, Reported
<1> QED  BY <1>1, <1>3 DEF FilesInv

\* The git commands, Report, Interrupt and WriteRaises neither make a row nor add a
\* file; where they leave the run.
StepOfGit == IsRepo \/ Add \/ Diff \/ Commit \/ RevParse

\* The git commands touch neither the rows nor the files.
LEMMA GitStepKeepsRows ==
  ASSUME IInv, StepOfGit
  PROVE  RowsInv' /\ FilesInv'
<1>1. UNCHANGED <<rows, collected, store, before>> /\ pc \in Reported
  BY DEF StepOfGit, IsRepo, Add, Diff, Commit, RevParse, Reported
<1>2. pc' \in Reported \/ (pc' = "idle" /\ exit' = 3)
  BY DEF StepOfGit, IsRepo, Add, Diff, Commit, RevParse, GitFails, GitHangs, Exit, Reported
<1>3. pc' \notin {"collect", "write"} /\ ~Finished'
  BY <1>2 DEF Reported, Finished
<1> QED  BY <1>1, <1>2, <1>3, RowsKept DEF IInv, Reported

\* The files of this run exist.
LEMMA WrittenPathsExist ==
  ASSUME TypeOK, FilesInv
  PROVE  \A p \in written_paths : p \in Paths /\ p[2] \in DOMAIN store[p[1]]
<1> SUFFICES ASSUME NEW d \in Written(rows)
             PROVE  <<d, Len(store[d])>> \in Paths /\ Len(store[d]) \in DOMAIN store[d]
  BY DEF written_paths
<1>1. d \in Devices
  <2>1. PICK i \in DOMAIN rows : d = rows[i].device
    BY DEF Written
  <2>2. rows[i] \in [device : Devices, status : Statuses]
    <3>1. rows \in Seq([device : Devices, status : Statuses])
      BY DEF TypeOK
    <3>2. i \in 1..Len(rows)
      BY <3>1, LenProperties
    <3> QED  BY <3>1, <3>2, ElementOfSeq
  <2> QED  BY <2>1, <2>2
<1>2. store[d] \in Seq(Configs) /\ before[d] \in Nat /\ Len(store[d]) = before[d] + 1
  BY <1>1 DEF TypeOK, FilesInv
<1>3. Len(store[d]) \in Nat /\ DOMAIN store[d] = 1..Len(store[d])
  BY <1>2, LenProperties
<1> QED  BY <1>1, <1>2, <1>3 DEF Paths

\* A git command moves paths to the index or to HEAD, and reports a commit only of
\* what it committed.
LEMMA GitStepKeepsGit ==
  ASSUME IInv, StepOfGit
  PROVE  TypeOK' /\ GitInv'
<1>0. TypeOK /\ GitInv /\ FilesInv
  BY DEF IInv
<1>1. UNCHANGED <<runs, options, rows, collected, store, before>>
  BY DEF StepOfGit, IsRepo, Add, Diff, Commit, RevParse
<1>2. written_paths' = written_paths
  BY <1>1 DEF written_paths, Written
<1>3. \A p \in written_paths : p \in Paths /\ p[2] \in DOMAIN store[p[1]]
  BY <1>0, WrittenPathsExist
<1>4. TypeOK'
  <2>1. /\ pc' \in {"idle", "add", "diff", "commit", "rev_parse", "report"}
        /\ commit' \in {"none", "sha", "error"} /\ exit' \in {0, 1, 3, 130}
    BY <1>0 DEF StepOfGit, IsRepo, Add, Diff, Commit, RevParse, GitFails, GitHangs, Exit,
                TypeOK
  <2>2. /\ index' \in {index, index \cup written_paths}
        /\ staged' \subseteq index' /\ head' \subseteq index'
    BY <1>0 DEF StepOfGit, IsRepo, Add, Diff, Commit, RevParse, GitFails, GitHangs, git,
                TypeOK
  <2>3. \A p \in index' \ UserFiles : p \in Paths /\ p[2] \in DOMAIN store'[p[1]]
    BY <1>0, <1>1, <1>3, <2>2 DEF TypeOK
  <2> QED  BY <1>0, <1>1, <2>1, <2>2, <2>3 DEF TypeOK
<1>5. CASE IsRepo
  BY <1>0, <1>2, <1>4, <1>5 DEF IsRepo, GitFails, GitInv, Finished, git
<1>6. CASE Add
  BY <1>0, <1>2, <1>4, <1>6 DEF Add, GitFails, GitHangs, Exit, GitInv, Finished
<1>7. CASE Diff
  BY <1>0, <1>2, <1>4, <1>7 DEF Diff, GitHangs, Exit, GitInv, Finished, git, TypeOK
<1>8. CASE Commit
  BY <1>0, <1>2, <1>4, <1>8 DEF Commit, GitFails, GitHangs, Exit, GitInv, Finished, TypeOK
<1>9. CASE RevParse
  BY <1>0, <1>2, <1>4, <1>9 DEF RevParse, GitFails, GitHangs, Exit, GitInv, Finished, git
<1> QED  BY <1>4, <1>5, <1>6, <1>7, <1>8, <1>9 DEF StepOfGit

\* Every step of a run keeps the invariant.
LEMMA RunKeepsInv ==
  ASSUME IInv, Run
  PROVE  IInv'
<1>0. TypeOK /\ RowsInv /\ FilesInv /\ GitInv
  BY DEF IInv
<1>1. CASE Begin
  <2>1. rows' = << >> /\ DOMAIN rows' = {} /\ Len(rows') = 0 /\ Written(rows') = {}
    BY <1>1, EmptySeq DEF Begin, Written
  <2>2. /\ pc' = "collect" /\ commit' = "none" /\ options' \in Options /\ runs' = runs + 1
        /\ before' = [d \in Devices |-> Len(store[d])]
        /\ runs < MaxRuns
        /\ UNCHANGED <<collected, store, index, head, staged, exit>>
    BY <1>1 DEF Begin, git
  <2>3. runs' \in 0..MaxRuns
    BY <1>0, <2>2, OptionsAssumption DEF TypeOK
  <2>4. TypeOK'
    <3>1. rows' \in Seq([device : Devices, status : Statuses])
      BY <2>1, EmptySeq
    <3> QED  BY <1>0, <2>1, <2>2, <2>3, <3>1, Places DEF TypeOK
  <2>5. RowsInv'
    BY <2>1, <2>2 DEF RowsInv, Finished, Reported
  <2>6. FilesInv'
    <3>1. \A d \in Devices : Len(store[d]) \in Nat
      BY <1>0, LenProperties DEF TypeOK
    <3> QED  BY <2>1, <2>2, <3>1 DEF FilesInv
  <2>7. GitInv'
    BY <2>2 DEF GitInv, Finished
  <2> QED  BY <2>4, <2>5, <2>6, <2>7 DEF IInv
<1>2. CASE Collect
  <2>1. /\ rows = << >> /\ DOMAIN rows = {} /\ Len(rows) = 0
        /\ pc' = "write" /\ pc = "collect"
        /\ collected' \in [Devices -> Configs \cup {Failed, TooShort}]
        /\ UNCHANGED <<runs, options, rows, store, index, head, staged, commit, exit, before>>
    BY <1>0, <1>2, EmptySeq DEF Collect, RowsInv, git
  <2>2. TypeOK'
    BY <1>0, <2>1 DEF TypeOK
  <2>3. RowsInv'
    BY <2>1, Places DEF RowsInv, Finished, Reported
  <2>4. FilesInv' /\ GitInv'
    BY <1>0, <2>1 DEF FilesInv, GitInv, Finished, Written
  <2> QED  BY <2>2, <2>3, <2>4 DEF IInv
<1>3. CASE WriteBackup
  BY <1>3, WriteBackupRows DEF IInv
<1>4. CASE StepOfGit
  BY <1>4, GitStepKeepsRows, GitStepKeepsGit DEF IInv
<1>5. CASE WriteRaises \/ Report \/ Interrupt
  <2>1. /\ pc' = "idle"
        /\ exit' \in {3, 130} \/ (pc = "report" /\ exit' = ExitCode)
        /\ UNCHANGED <<runs, options, collected, rows, store, index, head, staged, commit, before>>
    BY <1>5 DEF WriteRaises, Report, Interrupt, Exit, git
  <2>2. exit' \in {0, 1, 3, 130} /\ TypeOK'
    BY <1>0, <2>1 DEF TypeOK, ExitCode
  <2>3. Finished' => pc = "report" /\ exit' = ExitCode
    BY <2>1 DEF Finished
  <2>4. RowsInv' /\ FilesInv'
    BY <1>0, <2>1, <2>3, RowsKept DEF Reported
  <2>5. GitInv'
    <3>1. written_paths' = written_paths
      BY <2>1 DEF written_paths, Written
    <3> QED  BY <1>0, <2>1, <2>3, <3>1 DEF GitInv
  <2> QED  BY <2>2, <2>4, <2>5 DEF IInv
<1> QED  BY <1>1, <1>2, <1>3, <1>4, <1>5 DEF Run, StepOfGit

\* So does what the user does meanwhile: they take nothing out of the index, and
\* their commit takes all of it.
LEMMA UserKeepsInv ==
  ASSUME IInv, UserStages \/ UserCommits
  PROVE  IInv'
<1>0. TypeOK /\ RowsInv /\ FilesInv /\ GitInv
  BY DEF IInv
<1>1. /\ UNCHANGED <<runs, options, pc, collected, rows, store, staged, commit, exit, before>>
      /\ index \subseteq index' /\ index' \ UserFiles \subseteq index
      /\ head' = head \/ (head' = index /\ index' = index)
  BY DEF UserStages, UserCommits
<1>2. TypeOK' /\ head \subseteq head'
  BY <1>0, <1>1 DEF TypeOK
<1>3. RowsInv' /\ FilesInv'
  <2>1. Finished' => Finished /\ exit' = exit
    BY <1>1 DEF Finished
  <2> QED  BY <1>0, <1>1, <2>1, RowsKept
<1>4. GitInv'
  <2>1. written_paths' = written_paths /\ (Finished' <=> Finished)
    BY <1>1 DEF written_paths, Written, Finished
  <2> QED  BY <1>0, <1>1, <1>2, <2>1 DEF GitInv
<1> QED  BY <1>2, <1>3, <1>4 DEF IInv

\* The invariant holds of every number of successive runs, whatever git does.
THEOREM Invariance == Spec => []IInv
<1>1. Init => IInv
  BY InitInv
<1>2. IInv /\ [Next]_vars => IInv'
  <2> SUFFICES ASSUME IInv, [Next]_vars  PROVE IInv'
    OBVIOUS
  <2>1. CASE Run
    BY <2>1, RunKeepsInv
  <2>2. CASE UserStages \/ UserCommits
    BY <2>2, UserKeepsInv
  <2>3. CASE UNCHANGED vars
    BY <2>3 DEF vars, git, IInv, TypeOK, RowsInv, FilesInv, GitInv, Finished, ExitCode,
                Unchanged, written_paths, Written
  <2> QED  BY <2>1, <2>2, <2>3 DEF Next
<1> QED  BY <1>1, <1>2, PTL DEF Spec

-----------------------------------------------------------------------------
(* What a finished run tells.                                               *)

\* Every variable keeps its type; HEAD and what was staged stay within the index,
\* and the index names files there are.
THEOREM TypeCorrect == Spec => []TypeOK
BY Invariance, PTL DEF IInv

\* The rows of a finished run are the devices of the inventory, in its order, and
\* none of them is told by two.
LEMMA FinishedRows ==
  ASSUME IInv, Finished
  PROVE  /\ DOMAIN rows = 1..Len(Inventory) /\ Len(rows) = Len(Inventory)
         /\ \A i \in DOMAIN rows : /\ rows[i].device = Inventory[i]
                                  /\ rows[i].status \in Statuses
<1>1. rows \in Seq([device : Devices, status : Statuses]) /\ Len(rows) = Len(Inventory)
  BY DEF IInv, TypeOK, RowsInv
<1>2. DOMAIN rows = 1..Len(Inventory)
  BY <1>1, LenProperties
<1>3. \A i \in DOMAIN rows : rows[i] \in [device : Devices, status : Statuses]
  BY <1>1, <1>2, ElementOfSeq
<1> QED  BY <1>1, <1>2, <1>3 DEF IInv, RowsInv

\* The exit code is told from the rows, of which there is one for each device.
LEMMA InvTellsBackups == IInv => ExitTellsBackups
<1> SUFFICES ASSUME IInv, Finished  PROVE ExitTellsBackups
  BY DEF ExitTellsBackups
<1>0. RowsInv
  BY DEF IInv
<1>1. /\ DOMAIN rows = 1..Len(Inventory) /\ Len(rows) = Len(Inventory)
      /\ \A i \in DOMAIN rows : rows[i].device = Inventory[i] /\ rows[i].status \in Statuses
  BY FinishedRows
<1>2. [i \in DOMAIN rows |-> rows[i].device] = Inventory
  <2>1. Inventory = [i \in 1..Len(Inventory) |-> Inventory[i]]
    BY OptionsAssumption, LenProperties
  <2> QED  BY <1>1, <2>1
<1>3. ASSUME exit = 0, NEW d \in Devices  PROVE collected[d] \in Configs /\ Unchanged(d)
  <2>1. PICK i \in DOMAIN rows : d = Inventory[i]
    BY <1>1, Places
  <2>2. Ok(rows[i])
    BY <1>0, <1>3 DEF RowsInv, ExitCode
  <2> QED  BY <1>0, <2>1, <2>2 DEF RowsInv
<1>4. ASSUME exit = 1
      PROVE  \E i \in DOMAIN rows :
               collected[Inventory[i]] \notin Configs \/ rows[i].status = "failed"
  <2>1. PICK i \in DOMAIN rows : ~Ok(rows[i])
    BY <1>0, <1>4 DEF RowsInv, ExitCode
  <2>2. rows[i].status \in {"skipped", "rejected", "failed"}
    BY <1>1, <2>1 DEF Ok, OkStatuses, Statuses
  <2> QED  BY <1>0, <2>2 DEF RowsInv
<1> QED  BY <1>2, <1>3, <1>4 DEF ExitTellsBackups

\* Whatever git and the user did, a finished run has a row per device, in order, and
\* its exit code is about the files.
THEOREM ExitTheorem == Spec => []ExitTellsBackups
BY Invariance, InvTellsBackups, PTL

\* A run that reports a commit has left out nothing that it or an earlier run had
\* staged.
THEOREM CommitTheorem == Spec => []CommitIsComplete
<1>1. IInv => CommitIsComplete
  BY DEF IInv, GitInv, CommitIsComplete
<1> QED  BY Invariance, <1>1, PTL

-----------------------------------------------------------------------------
(* The counts.                                                              *)

\* There are n numbers from 1 to n.
LEMMA CountingUp == \A n \in Nat : Cardinality(1..n) = n
<1> SUFFICES ASSUME NEW n \in Nat  PROVE Cardinality(1..n) = n
  OBVIOUS
<1>1. 1 \in Int /\ n \in Int
  OBVIOUS
<1>2. Cardinality(1..n) = IF 1 > n THEN 0 ELSE n - 1 + 1
  BY <1>1, FS_Interval, Zenon
<1>3. (IF 1 > n THEN 0 ELSE n - 1 + 1) = n
  OBVIOUS
<1> QED  BY <1>2, <1>3

\* Rows with one set of statuses and rows with another are counted apart.
LEMMA CountsAdd ==
  ASSUME NEW results, NEW n \in Nat, DOMAIN results = 1..n,
         NEW S, NEW T, S \cap T = {}
  PROVE  /\ CountOf(results, S) \in Nat
         /\ CountOf(results, S \cup T) = CountOf(results, S) + CountOf(results, T)
<1> DEFINE A == {i \in DOMAIN results : results[i].status \in S}
           B == {i \in DOMAIN results : results[i].status \in T}
<1>1. IsFiniteSet(1..n)
  BY FS_Interval
<1>2. A \in SUBSET (1..n) /\ B \in SUBSET (1..n)
  OBVIOUS
<1>3. A \cap B = {} /\ {i \in DOMAIN results : results[i].status \in S \cup T} = A \cup B
  OBVIOUS
<1> HIDE DEF A, B
<1>4. IsFiniteSet(A) /\ IsFiniteSet(B)
  BY <1>1, <1>2, FS_Subset
<1>5. Cardinality(A) \in Nat /\ Cardinality(B) \in Nat /\ Cardinality(A \cap B) = 0
  BY <1>3, <1>4, FS_CardinalityType, FS_EmptySet
<1>6. Cardinality(A \cup B) = Cardinality(A) + Cardinality(B) - Cardinality(A \cap B)
  BY <1>4, FS_Union
<1>7. Cardinality(A \cup B) = Cardinality(A) + Cardinality(B)
  BY <1>5, <1>6
<1> QED  BY <1>3, <1>5, <1>7 DEF CountOf, A, B

\* Nothing is counted exactly if there is nothing to count.
LEMMA CountIsZero ==
  ASSUME NEW results, NEW n \in Nat, DOMAIN results = 1..n, NEW S
  PROVE  CountOf(results, S) = 0 <=> \A i \in DOMAIN results : results[i].status \notin S
<1> DEFINE of == {i \in DOMAIN results : results[i].status \in S}
<1>1. IsFiniteSet(of)
  BY FS_Interval, FS_Subset
<1>2. Cardinality(of) = 0 <=> of = {}
  <2> HIDE DEF of
  <2> QED  BY <1>1, FS_EmptySet
<1> QED  BY <1>2 DEF CountOf

\* As many devices as places.
LEMMA DevicesOfPlaces ==
  ASSUME NEW P, P \subseteq DOMAIN Inventory
  PROVE  /\ IsFiniteSet({Inventory[i] : i \in P})
         /\ Cardinality({Inventory[i] : i \in P}) = Cardinality(P)
<1> DEFINE D == {Inventory[i] : i \in P}
           f == [i \in P |-> Inventory[i]]
<1>1. IsFiniteSet(P)
  <2>1. IsFiniteSet(1..Len(Inventory)) /\ P \in SUBSET (1..Len(Inventory))
    BY Places, FS_Interval
  <2> QED  BY <2>1, FS_Subset
<1>2. f \in Bijection(P, D)
  <2>1. f \in Injection(P, D)
    BY OptionsAssumption DEF Injection, IsInjective
  <2>2. f \in Surjection(P, D)
    BY DEF Surjection
  <2> QED  BY <2>1, <2>2 DEF Bijection
<1>3. ExistsBijection(P, D)
  BY <1>2 DEF ExistsBijection
<1> HIDE DEF D, f
<1>4. IsFiniteSet(D) /\ Cardinality(D) = Cardinality(P)
  BY <1>1, <1>3, FS_Bijection
<1> QED  BY <1>4 DEF D

\* The numbers of the summary line and of the JSON are those of the rows.
LEMMA InvTellsFiles == IInv => SummaryTellsFiles
<1> SUFFICES ASSUME IInv, Finished  PROVE SummaryTellsFiles
  BY DEF SummaryTellsFiles
<1> DEFINE line == render_backup_summary(rows)
           json == backups_to_json(rows)
           Counted(s) == IF s \in DOMAIN json.by_status THEN json.by_status[s] ELSE 0
<1>0. RowsInv /\ FilesInv
  BY DEF IInv
<1>1. /\ DOMAIN rows = 1..Len(Inventory) /\ Len(rows) = Len(Inventory)
      /\ \A i \in DOMAIN rows : rows[i].device = Inventory[i] /\ rows[i].status \in Statuses
      /\ Len(Inventory) \in Nat
  BY FinishedRows, Places
<1>2. line.written + line.unchanged = json.ok /\ line.failed = json.failed
  <2>1. OkStatuses = {"written"} \cup {"unchanged"} /\ {"written"} \cap {"unchanged"} = {}
    BY DEF OkStatuses
  <2>2. CountOf(rows, {"written"} \cup {"unchanged"})
          = CountOf(rows, {"written"}) + CountOf(rows, {"unchanged"})
    BY <1>1, <2>1, CountsAdd
  <2> QED  BY <2>1, <2>2 DEF render_backup_summary, backups_to_json
<1>3. json.ok + json.failed = json.total /\ json.total = Len(Inventory)
  <2>1. OkStatuses \cap (Statuses \ OkStatuses) = {}
        /\ OkStatuses \cup (Statuses \ OkStatuses) = Statuses
    BY DEF OkStatuses, Statuses
  <2>2. CountOf(rows, OkStatuses \cup (Statuses \ OkStatuses))
          = CountOf(rows, OkStatuses) + CountOf(rows, Statuses \ OkStatuses)
    BY <1>1, <2>1, CountsAdd
  <2>3. {i \in DOMAIN rows : rows[i].status \in Statuses} = 1..Len(Inventory)
    BY <1>1
  <2>4. CountOf(rows, Statuses) = Len(Inventory)
    <3>1. Cardinality(1..Len(Inventory)) = Len(Inventory)
      BY <1>1, CountingUp
    <3>2. CountOf(rows, Statuses) = Cardinality(1..Len(Inventory))
      BY <2>3 DEF CountOf
    <3> QED  BY <3>1, <3>2
  <2> QED  BY <1>1, <2>1, <2>2, <2>4 DEF backups_to_json
<1>4. exit = 0 <=> line.failed = 0
  <2>1. exit = 0 <=> \A i \in DOMAIN rows : Ok(rows[i])
    BY <1>0 DEF RowsInv, ExitCode
  <2>2. \A i \in DOMAIN rows : Ok(rows[i]) <=> rows[i].status \notin Statuses \ OkStatuses
    BY <1>1 DEF Ok
  <2>3. CountOf(rows, Statuses \ OkStatuses) = 0
          <=> \A i \in DOMAIN rows : rows[i].status \notin Statuses \ OkStatuses
    BY <1>1, CountIsZero
  <2> QED  BY <2>1, <2>2, <2>3 DEF render_backup_summary
<1>5. line.written = Cardinality({d \in Devices : Len(store[d]) > before[d]})
  <2> DEFINE P == {i \in DOMAIN rows : rows[i].status \in {"written"}}
  <2>1. \A d \in Devices : Len(store[d]) > before[d] <=> d \in Written(rows)
    BY <1>0 DEF FilesInv
  <2>2. {d \in Devices : Len(store[d]) > before[d]} = {Inventory[i] : i \in P}
    BY <1>1, <2>1, Places DEF Written
  <2>3. P \subseteq DOMAIN Inventory
    BY <1>1, Places
  <2>4. line.written = Cardinality(P)
    BY DEF render_backup_summary, CountOf
  <2> HIDE DEF P
  <2> QED  BY <2>2, <2>3, <2>4, DevicesOfPlaces
<1>6. json.ok <= Cardinality({d \in Devices : collected[d] \in Configs /\ Unchanged(d)})
  <2> DEFINE P == {i \in DOMAIN rows : rows[i].status \in OkStatuses}
             D == {d \in Devices : collected[d] \in Configs /\ Unchanged(d)}
  <2>1. P \subseteq DOMAIN Inventory
    BY <1>1, Places
  <2>2. {Inventory[i] : i \in P} \subseteq D
    BY <1>0, <1>1, Places DEF RowsInv, Ok
  <2>3. IsFiniteSet(D)
    <3>1. Devices = {Inventory[i] : i \in DOMAIN Inventory}
      BY DEF Devices
    <3>2. IsFiniteSet({Inventory[i] : i \in DOMAIN Inventory})
      BY DevicesOfPlaces
    <3> QED  BY <3>1, <3>2, FS_Subset
  <2>4. json.ok = Cardinality(P)
    BY DEF backups_to_json, CountOf
  <2> HIDE DEF P, D
  <2>5. Cardinality({Inventory[i] : i \in P}) <= Cardinality(D)
    BY <2>2, <2>3, FS_Subset
  <2>6. Cardinality(P) <= Cardinality(D)
    BY <2>1, <2>5, DevicesOfPlaces
  <2> QED  BY <2>4, <2>6 DEF D
<1>7. \A d \in Devices : Len(store[d]) \in {before[d], before[d] + 1}
  BY <1>0 DEF FilesInv
<1>8. /\ Counted("written") + Counted("unchanged") + Counted("skipped")
           + Counted("rejected") + Counted("failed") = json.total
  <2>1. \A s : Counted(s) = CountOf(rows, {s})
    <3> SUFFICES ASSUME NEW s  PROVE Counted(s) = CountOf(rows, {s})
      OBVIOUS
    <3>1. s \in DOMAIN json.by_status <=> \E i \in DOMAIN rows : rows[i].status = s
      BY DEF backups_to_json
    <3>2. s \in DOMAIN json.by_status => json.by_status[s] = CountOf(rows, {s})
      BY DEF backups_to_json
    <3>3. s \notin DOMAIN json.by_status => CountOf(rows, {s}) = 0
      BY <1>1, <3>1, CountIsZero
    <3> QED  BY <3>2, <3>3
  <2>2. /\ CountOf(rows, {"skipped"} \cup ({"rejected"} \cup {"failed"}))
             = CountOf(rows, {"skipped"}) + CountOf(rows, {"rejected"} \cup {"failed"})
        /\ CountOf(rows, {"rejected"} \cup {"failed"})
             = CountOf(rows, {"rejected"}) + CountOf(rows, {"failed"})
    BY <1>1, CountsAdd
  <2>3. \A s : CountOf(rows, {s}) \in Nat
    <3> SUFFICES ASSUME NEW s  PROVE CountOf(rows, {s}) \in Nat
      OBVIOUS
    <3>1. {s} \cap {} = {}
      OBVIOUS
    <3> QED  BY <1>1, <3>1, CountsAdd
  <2>4. {"skipped"} \cup ({"rejected"} \cup {"failed"}) = Statuses \ OkStatuses
    BY DEF Statuses, OkStatuses
  <2>5. json.failed = CountOf(rows, {"skipped"})
                        + (CountOf(rows, {"rejected"}) + CountOf(rows, {"failed"}))
    BY <2>2, <2>4 DEF backups_to_json
  <2>6. json.ok = CountOf(rows, {"written"}) + CountOf(rows, {"unchanged"})
    BY <1>2 DEF render_backup_summary
  <2>7. /\ Counted("written") = CountOf(rows, {"written"})
        /\ Counted("unchanged") = CountOf(rows, {"unchanged"})
        /\ Counted("skipped") = CountOf(rows, {"skipped"})
        /\ Counted("rejected") = CountOf(rows, {"rejected"})
        /\ Counted("failed") = CountOf(rows, {"failed"})
    BY <2>1
  <2>8. /\ CountOf(rows, {"written"}) \in Nat /\ CountOf(rows, {"unchanged"}) \in Nat
        /\ CountOf(rows, {"skipped"}) \in Nat /\ CountOf(rows, {"rejected"}) \in Nat
        /\ CountOf(rows, {"failed"}) \in Nat
    BY <2>3
  <2> HIDE DEF json, Counted
  <2> QED  BY <1>3, <2>5, <2>6, <2>7, <2>8
<1> HIDE DEF line, json, Counted
<1>9. /\ line = render_backup_summary(rows) /\ json = backups_to_json(rows)
      /\ \A s : Counted(s) = IF s \in DOMAIN json.by_status THEN json.by_status[s] ELSE 0
  BY DEF line, json, Counted
<1> QED  BY <1>2, <1>3, <1>4, <1>5, <1>6, <1>7, <1>8, <1>9 DEF SummaryTellsFiles

\* The summary line, the JSON summary and the exit code of a finished run agree with
\* one another and with the files.
THEOREM SummaryTheorem == Spec => []SummaryTellsFiles
BY Invariance, InvTellsFiles, PTL
=============================================================================
