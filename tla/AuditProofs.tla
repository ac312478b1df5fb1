----------------------------- MODULE AuditProofs -----------------------------
(***************************************************************************)
(* Proofs about Audit, for any inventory, tags, golden rules, captures,     *)
(* backups, options and faults.                                             *)
(***************************************************************************)
EXTENDS Audit, ListProofs

-----------------------------------------------------------------------------
(* The inventory, the backups of a device and the rules.                    *)

\* The inventory lists the devices at the places 1..Len(Inventory).
LEMMA InventoryPlaces ==
  /\ Len(Inventory) \in Nat \ {0}
  /\ DOMAIN Inventory = 1..Len(Inventory)
  /\ \A i \in 1..Len(Inventory) : Inventory[i] \in Devices
  /\ \A d \in Devices : \E i \in 1..Len(Inventory) : d = Inventory[i]
BY InventoryAssumption, LenProperties, EmptySeq DEF Devices

\* A set of stamps, finite as a directory is, has a last one.
LEMMA LastExists ==
  ASSUME NEW S, S \subseteq Stamps \cup {0}, S # {}
  PROVE  \E t \in S : \A u \in S : u <= t
<1> DEFINE above(t) == {u \in S : t < u}
           tops == {above(t) : t \in S}
<1>1. S \subseteq Nat /\ IsFiniteSet(S)
  <2>1. IsFiniteSet(Stamps \cup {0})
    BY InventoryAssumption, FS_AddElement
  <2>2. S \subseteq Nat
    <3>1. Stamps \subseteq Nat
      BY InventoryAssumption
    <3> QED  BY <3>1
  <2>3. S \in SUBSET (Stamps \cup {0})
    OBVIOUS
  <2> QED  BY <2>1, <2>2, <2>3, FS_Subset
<1>2. \A t \in S : above(t) \subseteq S /\ IsFiniteSet(above(t))
  BY <1>1, FS_Subset
<1>3. tops \subseteq FiniteSubsetsOf(S) /\ tops # {}
  BY <1>1, <1>2 DEF FiniteSubsetsOf
<1>4. \E x \in tops : \A y \in tops : <<y, x>> \notin StrictSubsetOrdering(S)
  <2> HIDE DEF tops
  <2> QED  BY <1>3, FS_StrictSubsetOrderingWellFounded, WFMin
<1>5. PICK t \in S : \A u \in S : <<above(u), above(t)>> \notin StrictSubsetOrdering(S)
  BY <1>4
<1>6. ASSUME NEW u \in S, ~(u <= t)  PROVE FALSE
  <2>1. t \in Nat /\ u \in Nat /\ t < u /\ ~(u < u) /\ \A v \in S : u < v => t < v
    BY <1>1, <1>6
  <2>2. above(u) \subseteq above(t) /\ u \in above(t) /\ u \notin above(u)
    BY <1>6, <2>1
  <2>3. <<above(u), above(t)>> \in StrictSubsetOrdering(S)
    BY <1>2, <2>2 DEF StrictSubsetOrdering
  <2> QED  BY <1>5, <1>6, <2>3
<1> QED  BY <1>6

\* The newest stamp is one of the directory, or 0 if it is empty; and it is what
\* latest_backup takes.
LEMMA NewestIsLatest ==
  ASSUME NEW backups, DOMAIN backups \subseteq Stamps
  PROVE  /\ Newest(backups) \in DOMAIN backups \cup {0}
         /\ Newest(backups) = 0 <=> DOMAIN backups = {}
         /\ Latest(backups) = Newest(backups)
<1> DEFINE S == DOMAIN backups
<1>1. S \subseteq Nat \ {0}
  BY InventoryAssumption
<1>2. /\ Newest(backups) \in S \cup {0}
      /\ \A t \in S \cup {0} : t <= Newest(backups)
  <2>1. \E t \in S \cup {0} : \A u \in S \cup {0} : u <= t
    BY LastExists
  <2> QED  BY <2>1 DEF Newest
<1>3. CASE S = {}
  BY <1>2, <1>3 DEF Latest
<1>4. CASE S # {}
  <2>1. Newest(backups) \in S
    BY <1>1, <1>2, <1>4
  <2>2. /\ Latest(backups) \in S
        /\ \A t \in S : t <= Latest(backups)
    BY <1>2, <1>4, <2>1 DEF Latest
  <2>3. Latest(backups) <= Newest(backups) /\ Newest(backups) <= Latest(backups)
    BY <1>2, <2>1, <2>2
  <2> QED  BY <1>1, <1>2, <2>1, <2>2, <2>3
<1> QED  BY <1>3, <1>4

\* A rule that is for a device passes, or fails and is counted as failed.
LEMMA RuleDecides ==
  ASSUME NEW tags, NEW config, NEW n \in DOMAIN Golden, applies_to(Golden[n], tags),
         Places(evaluate(tags, config, Golden), failed) = {}
  PROVE  evaluate(tags, config, Golden)[n].status = "pass"
<1>1. DOMAIN evaluate(tags, config, Golden) = DOMAIN Golden
  BY DEF evaluate
<1>2. evaluate(tags, config, Golden)[n] = evaluate_rule(Golden[n], config_lines(config))
  BY DEF evaluate
<1>3. evaluate(tags, config, Golden)[n].status \in {"pass", "fail"}
  BY <1>2 DEF evaluate_rule
<1>4. ~failed(evaluate(tags, config, Golden)[n])
  BY <1>1 DEF Places
<1> QED  BY <1>3, <1>4 DEF failed

-----------------------------------------------------------------------------
(* The rows.                                                                *)

\* A row is of a device; one without an error holds the results of all the rules.
LEMMA RowFields ==
  ASSUME NEW row \in Rows
  PROVE  /\ row.device \in Devices /\ row.error \in BOOLEAN
         /\ row.error => row.results = << >>
         /\ ~row.error => \E config \in Captures :
                            row.results = evaluate(Tags[row.device], config, Golden)
<1>1. CASE \E d \in Devices : row = ErrorRow(d)
  BY <1>1 DEF ErrorRow
<1>2. CASE \E d \in Devices, source \in Stamps \cup {0}, config \in Captures :
             row = Row(d, source, config)
  <2>1. PICK d \in Devices, source \in Stamps \cup {0}, config \in Captures :
               row = Row(d, source, config)
    BY <1>2
  <2>2. /\ row.device = d /\ row.error = FALSE
        /\ row.results = evaluate(Tags[d], config, Golden)
    BY <2>1 DEF Row
  <2> QED  BY <2>2
<1> QED  BY <1>1, <1>2 DEF Rows

\* The row of a device that could not be audited.
LEMMA ErrorRowFields ==
  ASSUME NEW d \in Devices
  PROVE  /\ ErrorRow(d) \in Rows
         /\ ErrorRow(d).device = d /\ ErrorRow(d).error = TRUE
<1>1. ErrorRow(d) \in {ErrorRow(e) : e \in Devices}
  OBVIOUS
<1>2. ErrorRow(d) \in Rows
  BY <1>1 DEF Rows
<1>3. ErrorRow(d).device = d
  BY DEF ErrorRow
<1>4. ErrorRow(d).error = TRUE
  BY DEF ErrorRow
<1> QED  BY <1>2, <1>3, <1>4

\* The device whose turn it is.
LEMMA DeviceIsNext ==
  ASSUME TypeOK, Len(audited) < Len(Inventory)
  PROVE  Device \in Devices
<1>1. Len(audited) + 1 \in 1..Len(Inventory)
  BY InventoryPlaces, LenProperties DEF TypeOK
<1> QED  BY <1>1, InventoryPlaces DEF Device

\* What one more row changes, and what it leaves alone.
LEMMA RowAdded ==
  ASSUME TypeOK, Len(audited) < Len(Inventory), NEW row \in Rows, NEW loop, Add(row, loop)
  PROVE  /\ audited' \in Seq(Rows)
         /\ Len(audited') = Len(audited) + 1 /\ Len(audited') <= Len(Inventory)
         /\ DOMAIN audited' = DOMAIN audited \cup {Len(audited')}
         /\ \A i \in DOMAIN audited : audited'[i] = audited[i]
         /\ audited'[Len(audited')] = row
         /\ Inventory[Len(audited')] = Device
         /\ pc' = IF Len(audited') = Len(Inventory) THEN "report" ELSE loop
<1>1. /\ audited \in Seq(Rows) /\ Len(audited) \in Nat /\ DOMAIN audited = 1..Len(audited)
      /\ Len(Inventory) \in Nat
  BY InventoryPlaces, LenProperties DEF TypeOK
<1>2. audited' = Append(audited, row)
  BY DEF Add
<1>3. /\ audited' \in Seq(Rows) /\ Len(audited') = Len(audited) + 1
      /\ \A i \in 1..Len(audited) : audited'[i] = audited[i]
      /\ audited'[Len(audited) + 1] = row
  BY <1>1, <1>2, AppendProperties
<1>4. DOMAIN audited' = 1..(Len(audited) + 1)
  BY <1>3, LenProperties
<1> QED  BY <1>1, <1>3, <1>4 DEF Add, Device

\* Until a result is shown nothing is told, and a step that leaves it at that keeps
\* what is told.
LEMMA NothingTold ==
  ASSUME ToldInv, pc \notin {"show", "exited"}, UNCHANGED <<file, stdout>>,
         exit' \notin {0, 1}, pc' # "show"
  PROVE  ToldInv'
<1>1. file = NoFile
  BY DEF ToldInv, FileInv
<1>2. stdout = << >>
  BY DEF ToldInv, LinesInv
<1>3. FileInv'
  BY <1>1 DEF FileInv
<1>4. DOMAIN stdout' = {} /\ stdout' = << >>
  BY <1>2, EmptySeq
<1>5. LinesInv'
  BY <1>4 DEF LinesInv
<1> QED  BY <1>3, <1>5 DEF ToldInv

\* Adding the row of the device whose turn it is keeps what the rows are, if a row
\* without an error is of a device that run() has not failed.
LEMMA RowKeepsRows ==
  ASSUME IInv, Len(audited) < Len(Inventory), NEW row \in Rows, NEW loop, Add(row, loop),
         row.device = Device, live /\ ~row.error => collected[Device] # NoConfig,
         pc \in {"locate", "read", "evaluate"}, loop \in {"locate", "evaluate"},
         loop = "evaluate" <=> live,
         UNCHANGED <<options, collected, file, stdout, exit>>
  PROVE  RowsInv' /\ ToldInv'
<1>0. TypeOK /\ RowsInv /\ ToldInv
  BY DEF IInv
<1>1. /\ audited' \in Seq(Rows)
      /\ Len(audited') = Len(audited) + 1 /\ Len(audited') <= Len(Inventory)
      /\ DOMAIN audited' = DOMAIN audited \cup {Len(audited')}
      /\ \A i \in DOMAIN audited : audited'[i] = audited[i]
      /\ audited'[Len(audited')] = row
      /\ Inventory[Len(audited')] = Device
      /\ pc' = IF Len(audited') = Len(Inventory) THEN "report" ELSE loop
  BY <1>0, RowAdded
<1>2. Len(audited') \in Nat /\ Len(Inventory) \in Nat
  BY <1>1, InventoryPlaces, LenProperties
<1>3. exit = -1 /\ exit' = -1 /\ exit' \notin {0, 1} /\ pc' # "exited" /\ live' = live
  BY <1>0, <1>1 DEF RowsInv, live
<1>4. \A i \in DOMAIN audited' :
        /\ audited'[i].device = Inventory[i]
        /\ live' /\ ~audited'[i].error => collected'[Inventory[i]] # NoConfig
  BY <1>0, <1>1, <1>3 DEF RowsInv
<1>5. RowsInv'
  BY <1>1, <1>2, <1>3, <1>4 DEF RowsInv
<1>6. ToldInv'
  BY <1>0, <1>1, <1>3, NothingTold
<1> QED  BY <1>5, <1>6

-----------------------------------------------------------------------------
(* The steps of the run.                                                    *)

\* An audit that has not begun has no row, has told nothing and has seen the files as
\* they are.
LEMMA InitInv == Init => IInv
<1> SUFFICES ASSUME Init  PROVE IInv
  OBVIOUS
<1>1. /\ audited = << >> /\ DOMAIN audited = {} /\ Len(audited) = 0
      /\ stdout = << >> /\ DOMAIN stdout = {} /\ Len(stdout) = 0 /\ file = NoFile
      /\ exit = -1 /\ path = 0 /\ audited \in Seq(Rows)
  BY EmptySeq DEF Init
<1>2. /\ DOMAIN store = Devices /\ DOMAIN spoiled = Devices
      /\ \A d \in Devices : /\ DOMAIN store[d] \subseteq Stamps
                            /\ \A s \in DOMAIN store[d] : store[d][s] \in Captures
                            /\ DOMAIN spoiled[d] = {}
                            /\ latest[d] = {Newest(store[d])}
  <2>1. ASSUME NEW d \in Devices
        PROVE  /\ DOMAIN store[d] \subseteq Stamps
               /\ \A s \in DOMAIN store[d] : store[d][s] \in Captures
    <3>1. PICK S \in SUBSET Stamps : store[d] \in [S -> Captures]
      BY DEF Init
    <3> QED  BY <3>1
  <2> QED  BY <2>1 DEF Init
<1>3. \A d \in Devices : Newest(store[d]) \in Stamps \cup {0}
  BY <1>2, NewestIsLatest
<1>4. TypeOK
  <2>1. latest \in [Devices -> SUBSET (Stamps \cup {0})]
    BY <1>3 DEF Init
  <2> QED  BY <1>1, <1>2, <2>1, InventoryPlaces DEF Init, TypeOK
<1>5. RowsInv
  BY <1>1 DEF Init, RowsInv
<1>6. ToldInv
  BY <1>1 DEF Init, ToldInv, FileInv, LinesInv
<1>7. LatestInv
  BY <1>1, <1>2 DEF Init, LatestInv
<1> QED  BY <1>4, <1>5, <1>6, <1>7 DEF IInv

\* A row explained by the backups as they are keeps what is said of them.
LEMMA RowKeepsLatest ==
  ASSUME IInv, Len(audited) < Len(Inventory), NEW row \in Rows, NEW loop, Add(row, loop),
         ~live => Explained(row), loop # "read",
         UNCHANGED <<options, store, spoiled, latest>>
  PROVE  LatestInv'
<1>0. TypeOK /\ LatestInv
  BY DEF IInv
<1>1. /\ DOMAIN audited' = DOMAIN audited \cup {Len(audited')}
      /\ \A i \in DOMAIN audited : audited'[i] = audited[i]
      /\ audited'[Len(audited')] = row
      /\ pc' # "read"
  BY <1>0, RowAdded
<1>2. live' = live
  BY DEF live
<1>3. ASSUME ~live, NEW i \in DOMAIN audited'  PROVE Explained(audited'[i])
  BY <1>0, <1>1, <1>3 DEF LatestInv
<1>4. ASSUME ~live', NEW i \in DOMAIN audited'  PROVE Explained(audited[i])'
  BY <1>2, <1>3, <1>4 DEF Explained
<1> QED  BY <1>0, <1>1, <1>4 DEF LatestInv

\* Locate adds the row of a device without a backup, or keeps the name it found,
\* which is one of the newest there have been.
LEMMA LocateKeepsInv ==
  ASSUME IInv, Locate
  PROVE  IInv'
<1>0. TypeOK /\ RowsInv /\ ToldInv /\ LatestInv /\ pc = "locate"
  BY DEF IInv, Locate
<1>1. ~live /\ Len(audited) < Len(Inventory) /\ Device \in Devices
  BY <1>0, DeviceIsNext DEF RowsInv
<1>2. /\ path' = Newest(store[Device]) /\ path' \in Stamps \cup {0}
      /\ path' \in latest[Device]
  <2>1. DOMAIN store[Device] \subseteq Stamps
    BY <1>0, <1>1 DEF TypeOK
  <2> QED  BY <1>0, <1>1, <2>1, NewestIsLatest DEF Locate, LatestInv
<1>3. UNCHANGED <<options, collected, store, spoiled, file, stdout, exit, latest>>
  BY DEF Locate, files, output
<1>4. CASE path' = 0
  <2> DEFINE row == ErrorRow(Device)
  <2>1. /\ row \in Rows /\ row.device = Device /\ row.error = TRUE
        /\ Add(row, "locate")
    BY <1>1, <1>4, ErrorRowFields DEF Locate
  <2>2. Explained(row)
    BY <1>2, <1>4, <2>1 DEF Explained
  <2> HIDE DEF row
  <2>3. RowsInv' /\ ToldInv'
    BY <1>0, <1>1, <1>3, <2>1, RowKeepsRows
  <2>4. LatestInv'
    BY <1>0, <1>1, <1>3, <2>1, <2>2, RowKeepsLatest
  <2>5. /\ audited' \in Seq(Rows) /\ Len(audited') <= Len(Inventory)
        /\ pc' \in {"report", "locate"}
    BY <1>0, <1>1, <2>1, RowAdded
  <2>6. TypeOK'
    BY <1>0, <1>2, <1>3, <2>5 DEF TypeOK
  <2> QED  BY <2>3, <2>4, <2>6 DEF IInv
<1>5. CASE path' # 0
  <2>1. pc' = "read" /\ UNCHANGED audited
    BY <1>5 DEF Locate
  <2>2. TypeOK'
    BY <1>0, <1>2, <1>3, <2>1 DEF TypeOK
  <2>3. RowsInv' /\ ToldInv'
    <3>1. exit' \notin {0, 1}
      BY <1>0, <1>3 DEF RowsInv
    <3>2. RowsInv'
      BY <1>0, <1>1, <1>3, <2>1, <3>1 DEF RowsInv, live
    <3> QED  BY <1>0, <1>3, <2>1, <3>1, <3>2, NothingTold
  <2>4. LatestInv'
    <3>1. Device' = Device /\ live' = live
      BY <1>3, <2>1 DEF Device, live
    <3>2. \A i \in DOMAIN audited : Explained(audited[i])' <=> Explained(audited[i])
      BY <1>3, <2>1 DEF Explained
    <3> QED  BY <1>0, <1>2, <1>3, <1>5, <2>1, <3>1, <3>2 DEF LatestInv
  <2> QED  BY <2>2, <2>3, <2>4 DEF IInv
<1> QED  BY <1>4, <1>5

\* Read adds the row of the file Locate found, be it gone, spoiled or superseded.
LEMMA ReadKeepsInv ==
  ASSUME IInv, Read
  PROVE  IInv'
<1>0. TypeOK /\ RowsInv /\ ToldInv /\ LatestInv /\ pc = "read"
  BY DEF IInv, Read
<1>1. /\ ~live /\ Len(audited) < Len(Inventory) /\ Device \in Devices
      /\ path \in Stamps /\ path \in latest[Device] /\ path # 0
  BY <1>0, DeviceIsNext DEF RowsInv, LatestInv, TypeOK
<1>2. /\ path' = 0
      /\ UNCHANGED <<options, collected, store, spoiled, file, stdout, latest>>
  BY DEF Read, files, output
<1>3. ASSUME NEW row \in Rows, row.device = Device, Explained(row),
             Add(row, "locate"), UNCHANGED exit
      PROVE  IInv'
  <2>1. RowsInv' /\ ToldInv'
    BY <1>0, <1>1, <1>2, <1>3, RowKeepsRows
  <2>2. LatestInv'
    BY <1>0, <1>1, <1>2, <1>3, RowKeepsLatest
  <2>3. /\ audited' \in Seq(Rows) /\ Len(audited') <= Len(Inventory)
        /\ pc' \in {"report", "locate"}
    BY <1>0, <1>1, <1>3, RowAdded
  <2>4. TypeOK'
    BY <1>0, <1>2, <1>3, <2>3 DEF TypeOK
  <2> QED  BY <2>1, <2>2, <2>4 DEF IInv
<1>4. CASE /\ path \in DOMAIN store[Device] \ DOMAIN spoiled[Device]
           /\ Add(Row(Device, path, store[Device][path]), "locate")
           /\ UNCHANGED exit
  <2> DEFINE row == Row(Device, path, store[Device][path])
  <2>1. store[Device][path] \in Captures
    BY <1>0, <1>1, <1>4 DEF TypeOK
  <2>2. row \in Rows
    BY <1>1, <2>1 DEF Rows
  <2>3. row.device = Device /\ row.error = FALSE /\ row.source = path
    BY DEF Row
  <2>4. Explained(row)
    BY <1>1, <2>3 DEF Explained
  <2> HIDE DEF row
  <2> QED  BY <1>3, <1>4, <2>2, <2>3, <2>4 DEF row
<1>5. CASE /\ path \in DOMAIN store[Device] => path \in DOMAIN spoiled[Device]
           /\ Add(ErrorRow(Device), "locate")
           /\ UNCHANGED exit
  <2> DEFINE row == ErrorRow(Device)
  <2>1. row \in Rows /\ row.device = Device /\ row.error = TRUE
    BY <1>1, ErrorRowFields
  <2>2. Explained(row)
    <3>1. Newest(store[Device]) \in DOMAIN store[Device] \cup {0}
      BY <1>0, <1>1, NewestIsLatest DEF TypeOK
    <3>2. CASE path = Newest(store[Device])
      BY <1>1, <1>5, <2>1, <3>1, <3>2 DEF Explained
    <3>3. CASE path # Newest(store[Device])
      BY <1>1, <2>1, <3>3 DEF Explained
    <3> QED  BY <3>2, <3>3
  <2> HIDE DEF row
  <2> QED  BY <1>3, <1>5, <2>1, <2>2 DEF row
<1>6. CASE Exit(3) /\ UNCHANGED audited
  <2>1. pc' = "exited" /\ exit' = 3
    BY <1>6 DEF Exit
  <2>2. TypeOK'
    BY <1>0, <1>2, <1>6, <2>1 DEF TypeOK
  <2>3. RowsInv' /\ ToldInv'
    <3>1. RowsInv'
      BY <1>0, <1>1, <1>2, <1>6, <2>1 DEF RowsInv, live
    <3> QED  BY <1>0, <1>2, <2>1, <3>1, NothingTold
  <2>4. LatestInv'
    <3>1. \A i \in DOMAIN audited : Explained(audited[i])' <=> Explained(audited[i])
      BY <1>2, <1>6 DEF Explained
    <3> QED  BY <1>0, <1>2, <1>6, <2>1, <3>1 DEF LatestInv, live
  <2> QED  BY <2>2, <2>3, <2>4 DEF IInv
<1> QED  BY <1>4, <1>5, <1>6 DEF Read

\* EvaluateLive adds the row of the device's result.
LEMMA EvaluateLiveKeepsInv ==
  ASSUME IInv, EvaluateLive
  PROVE  IInv'
<1>0. TypeOK /\ RowsInv /\ ToldInv /\ LatestInv /\ pc = "evaluate"
  BY DEF IInv, EvaluateLive
<1>1. live /\ Len(audited) < Len(Inventory) /\ Device \in Devices
  BY <1>0, DeviceIsNext DEF RowsInv
<1>2. UNCHANGED <<options, collected, store, spoiled, path, file, stdout, exit, latest>>
  BY DEF EvaluateLive, files, output
<1>3. PICK row \in Rows :
              /\ row.device = Device /\ Add(row, "evaluate")
              /\ ~row.error => collected[Device] # NoConfig
  <2>1. CASE collected[Device] = NoConfig
    BY <1>1, <2>1, ErrorRowFields DEF EvaluateLive
  <2>2. CASE collected[Device] # NoConfig
    <3> DEFINE row == Row(Device, 0, collected[Device])
    <3>1. row \in Rows
      <4>1. collected[Device] \in Captures
        BY <1>0, <1>1, <2>2 DEF TypeOK
      <4> QED  BY <1>1, <4>1 DEF Rows
    <3>2. row.device = Device
      BY DEF Row
    <3>3. Add(row, "evaluate")
      BY <2>2 DEF EvaluateLive
    <3> HIDE DEF row
    <3> QED  BY <2>2, <3>1, <3>2, <3>3
  <2> QED  BY <2>1, <2>2
<1>4. RowsInv' /\ ToldInv'
  BY <1>0, <1>1, <1>2, <1>3, RowKeepsRows
<1>5. LatestInv'
  BY <1>0, <1>1, <1>2, <1>3, RowKeepsLatest
<1>6. /\ audited' \in Seq(Rows) /\ Len(audited') <= Len(Inventory)
      /\ pc' \in {"report", "evaluate"}
  BY <1>0, <1>1, <1>3, RowAdded
<1>7. TypeOK'
  BY <1>0, <1>2, <1>6 DEF TypeOK
<1> QED  BY <1>4, <1>5, <1>7 DEF IInv

\* A step that touches neither the rows nor the backups, and does not go on to read
\* one, keeps what is said of both.
LEMMA LatestKept ==
  ASSUME LatestInv, UNCHANGED <<options, store, spoiled, audited, latest>>, pc' # "read"
  PROVE  LatestInv'
<1>1. \A i \in DOMAIN audited : Explained(audited[i])' <=> Explained(audited[i])
  BY DEF Explained
<1> QED  BY <1>1 DEF LatestInv, live

\* Before the first device there is no row and nothing is told.
LEMMA BeginningKeepsInv ==
  ASSUME IInv, Collect \/ LoadGolden
  PROVE  IInv'
<1>0. TypeOK /\ RowsInv /\ ToldInv /\ LatestInv
  BY DEF IInv
<1>1. /\ audited = << >> /\ DOMAIN audited = {} /\ Len(audited) = 0
      /\ UNCHANGED <<options, store, spoiled, path, audited, file, stdout, latest>>
      /\ pc \in {"collect", "golden"}
      /\ live' = live
  BY <1>0, EmptySeq DEF Collect, LoadGolden, RowsInv, files, output, live
<1>2. /\ collected' \in [Devices -> Captures \cup {NoConfig}]
      /\ \/ pc' = "golden" /\ exit' = exit
         \/ pc' = "evaluate" /\ live /\ exit' = exit
         \/ pc' = "locate" /\ ~live /\ exit' = exit
         \/ pc' = "exited" /\ exit' = 2
  BY <1>0 DEF Collect, LoadGolden, Exit, TypeOK
<1>3. TypeOK'
  BY <1>0, <1>1, <1>2 DEF TypeOK
<1>4. RowsInv'
  BY <1>0, <1>1, <1>2, InventoryPlaces DEF RowsInv
<1>5. ToldInv'
  <2>1. exit' \notin {0, 1}
    BY <1>0, <1>1, <1>2 DEF RowsInv
  <2> QED  BY <1>0, <1>1, <1>2, <2>1, NothingTold
<1>6. LatestInv'
  BY <1>0, <1>1, <1>2, LatestKept
<1> QED  BY <1>3, <1>4, <1>5, <1>6 DEF IInv

\* One more line on the terminal.
LEMMA LineWritten ==
  ASSUME NEW line, stdout = << >> \/ stdout = <<[kind |-> "report"]>>, Write(line)
  PROVE  /\ Len(stdout') <= 2
         /\ \A i \in DOMAIN stdout' : stdout'[i] = line \/ stdout'[i].kind = "report"
         /\ \E i \in DOMAIN stdout' : stdout'[i] = line
<1> DEFINE first == [kind |-> "report"]
           S     == {first, line}
<1>1. stdout \in Seq(S) /\ Len(stdout) \in {0, 1} /\ stdout' = Append(stdout, line)
  <2>1. stdout = << >> \/ stdout = <<first>>
    OBVIOUS
  <2>2. first \in S
    OBVIOUS
  <2> HIDE DEF first, S
  <2>3. << >> \in Seq(S) /\ Len(<< >>) = 0 /\ <<first>> \in Seq(S) /\ Len(<<first>>) = 1
    BY <2>2
  <2> QED  BY <2>1, <2>3 DEF Write
<1>2. /\ stdout' \in Seq(S) /\ Len(stdout') = Len(stdout) + 1
      /\ stdout'[Len(stdout) + 1] = line
  <2> HIDE DEF S
  <2>1. line \in S
    BY DEF S
  <2> QED  BY <1>1, <2>1, AppendProperties
<1>3. DOMAIN stdout' = 1..(Len(stdout) + 1) /\ \A i \in DOMAIN stdout' : stdout'[i] \in S
  BY <1>2, LenProperties, ElementOfSeq
<1>4. Len(stdout) + 1 \in DOMAIN stdout' /\ Len(stdout') <= 2
  BY <1>1, <1>2, <1>3
<1>5. \A i \in DOMAIN stdout' : stdout'[i] = line \/ stdout'[i].kind = "report"
  BY <1>3
<1> QED  BY <1>2, <1>4, <1>5

\* The report file is that of all rows, or a part of one, with the run at its end.
LEMMA WriteReportKeepsInv ==
  ASSUME IInv, WriteReport
  PROVE  IInv'
<1>0. TypeOK /\ RowsInv /\ ToldInv /\ LatestInv /\ pc = "report"
  BY DEF IInv, WriteReport
<1>1. /\ UNCHANGED <<options, collected, store, spoiled, path, audited, latest>>
      /\ stdout = << >> /\ file = NoFile /\ Len(audited) = Len(Inventory) /\ exit = -1
      /\ live' = live
  BY <1>0 DEF WriteReport, files, ToldInv, FileInv, LinesInv, RowsInv, live
<1>2. CASE /\ options.report \in DOMAIN REPORT_RENDERERS
           /\ file' = Render(options.report, audited)
           /\ Write([kind |-> "report"])
           /\ pc' = "show" /\ UNCHANGED exit
  <2>1. stdout' = <<[kind |-> "report"]>>
    BY <1>1, <1>2 DEF Write
  <2>2. Len(stdout') = 1 /\ \A i \in DOMAIN stdout' : stdout'[i].kind = "report"
    BY <2>1
  <2>3. TypeOK'
    BY <1>0, <1>1, <1>2, <2>2 DEF TypeOK
  <2>4. RowsInv'
    BY <1>0, <1>1, <1>2 DEF RowsInv
  <2>5. ToldInv'
    BY <1>0, <1>1, <1>2, <2>1, <2>2 DEF ToldInv, FileInv, LinesInv
  <2> QED  BY <1>0, <1>1, <1>2, <2>3, <2>4, <2>5, LatestKept DEF IInv
<1>3. CASE /\ file' \in {file, PartFile}
           /\ Write([kind |-> "could not write"])
           /\ Exit(2)
  <2> DEFINE line == [kind |-> "could not write"]
  <2>1. /\ Len(stdout') <= 2
        /\ \A i \in DOMAIN stdout' : stdout'[i] = line \/ stdout'[i].kind = "report"
    <3>1. Write(line)
      BY <1>3
    <3> HIDE DEF line
    <3> QED  BY <1>1, <3>1, LineWritten
  <2>2. \A i \in DOMAIN stdout' : stdout'[i].kind \notin {"json", "tables"}
    <3>1. line.kind = "could not write"
      OBVIOUS
    <3> HIDE DEF line
    <3> QED  BY <2>1, <3>1
  <2>3. pc' = "exited" /\ exit' = 2 /\ file' \in {NoFile, PartFile}
    BY <1>1, <1>3 DEF Exit
  <2>4. TypeOK'
    BY <1>0, <1>1, <2>1, <2>3 DEF TypeOK
  <2>5. RowsInv'
    BY <1>0, <1>1, <2>3 DEF RowsInv
  <2>6. ToldInv'
    BY <2>2, <2>3 DEF ToldInv, FileInv, LinesInv
  <2> QED  BY <1>0, <1>1, <2>3, <2>4, <2>5, <2>6, LatestKept DEF IInv
<1> QED  BY <1>2, <1>3 DEF WriteReport

\* What is shown, and the exit code, is worked out from all rows.
LEMMA ShowResultKeepsInv ==
  ASSUME IInv, ShowResult
  PROVE  IInv'
<1>0. TypeOK /\ RowsInv /\ ToldInv /\ LatestInv /\ pc \in {"report", "show"}
  BY DEF IInv, ShowResult, Shows
<1>1. /\ UNCHANGED <<options, collected, store, spoiled, path, audited, file, latest>>
      /\ Len(audited) = Len(Inventory)
      /\ pc' = "exited" /\ exit' = ExitCode /\ exit' \in {0, 1}
      /\ live' = live /\ ExitCode' = ExitCode
      /\ stdout = << >> \/ stdout = <<[kind |-> "report"]>>
      /\ options.report # "" => file = Render(options.report, audited)
  BY <1>0 DEF ShowResult, Shows, Exit, files, ExitCode, RowsInv, ToldInv, FileInv, LinesInv, live
<1> DEFINE json   == [kind |-> "json", json |-> compliance_to_json(audited)]
           tables == [kind |-> "tables", table |-> render_compliance_table(audited),
                      violations |-> render_violations(audited),
                      summary |-> render_compliance_summary(audited)]
<1>2. json.kind = "json" /\ tables.kind = "tables"
  OBVIOUS
<1>3. Write(json) \/ Write(tables)
  BY DEF ShowResult
<1>4. PICK line \in {json, tables} : Write(line)
  BY <1>3
<1>5. /\ Len(stdout') <= 2
      /\ \A i \in DOMAIN stdout' : stdout'[i] = line \/ stdout'[i].kind = "report"
      /\ \E i \in DOMAIN stdout' : stdout'[i] = line
  BY <1>1, <1>4, LineWritten
<1>6. json' = json /\ tables' = tables
  BY <1>1
<1>7. line.kind \in {"json", "tables"}
  <2> HIDE DEF json, tables
  <2> QED  BY <1>2, <1>4
<1>8. \A i \in DOMAIN stdout' : \/ stdout'[i].kind \notin {"json", "tables"}
                               \/ stdout'[i] \in {json, tables}
  <2> HIDE DEF json, tables
  <2> QED  BY <1>4, <1>5
<1>9. shown'
  BY <1>5, <1>7 DEF shown
<1>10. TypeOK'
  BY <1>0, <1>1, <1>5 DEF TypeOK
<1>11. RowsInv'
  BY <1>0, <1>1 DEF RowsInv
<1>12. ToldInv'
  BY <1>0, <1>1, <1>6, <1>8, <1>9 DEF ToldInv, FileInv, LinesInv
<1> QED  BY <1>0, <1>1, <1>10, <1>11, <1>12, LatestKept DEF IInv

\* Ctrl-C ends the run with 130, with a part of the report file at most.
LEMMA InterruptKeepsInv ==
  ASSUME IInv, Interrupt
  PROVE  IInv'
<1>0. TypeOK /\ RowsInv /\ ToldInv /\ LatestInv
  BY DEF IInv
<1>1. /\ UNCHANGED <<options, collected, store, spoiled, path, audited, stdout, latest>>
      /\ pc # "exited" /\ pc' = "exited" /\ exit' = 130 /\ file' \in {file, PartFile}
      /\ live' = live
  BY DEF Interrupt, Exit, files, live
<1>2. TypeOK'
  BY <1>0, <1>1 DEF TypeOK
<1>3. RowsInv'
  BY <1>0, <1>1 DEF RowsInv
<1>4. ToldInv'
  <2>1. FileInv'
    <3>1. CASE file' = PartFile
      BY <1>1, <3>1 DEF FileInv
    <3>2. CASE file' = file
      <4>1. \/ file \in {NoFile, PartFile}
            \/ /\ options.report \in DOMAIN REPORT_RENDERERS
               /\ Len(audited) = Len(Inventory)
               /\ file = Render(options.report, audited)
        BY <1>0 DEF ToldInv, FileInv
      <4>2. UNCHANGED <<options, audited, file>> /\ pc' = "exited" /\ exit' \notin {0, 1}
        BY <1>1, <3>2
      <4> QED  BY <4>1, <4>2 DEF FileInv
    <3> QED  BY <1>1, <3>1, <3>2
  <2>2. LinesInv'
    BY <1>0, <1>1 DEF ToldInv, LinesInv
  <2> QED  BY <2>1, <2>2 DEF ToldInv
<1> QED  BY <1>0, <1>1, <1>2, <1>3, <1>4, LatestKept DEF IInv

-----------------------------------------------------------------------------
(* What happens to the backups meanwhile.                                   *)

\* A change of the store is noted: what was the latest, or is now, has been it.  A row
\* stays explained, unless a spoiled backup disappears and another does not follow.
LEMMA BackupsChange ==
  ASSUME IInv, NEW d \in Devices, Meanwhile,
         UNCHANGED <<options, pc, collected, path, audited, file, stdout, exit>>,
         DOMAIN store' = Devices, DOMAIN spoiled' = Devices,
         \A e \in Devices \ {d} : store'[e] = store[e] /\ spoiled'[e] = spoiled[e],
         DOMAIN store'[d] \subseteq Stamps,
         \A s \in DOMAIN store'[d] : store'[d][s] \in Captures,
         DOMAIN spoiled'[d] \subseteq DOMAIN store'[d],
         latest' = [latest EXCEPT ![d] = @ \cup {Newest(store'[d])}],
         Newest(store'[d]) = Newest(store[d]) /\ Newest(store[d]) \in DOMAIN spoiled[d]
            => Newest(store'[d]) \in DOMAIN spoiled'[d]
  PROVE  IInv'
<1>0. TypeOK /\ RowsInv /\ ToldInv /\ LatestInv
  BY DEF IInv
<1>1. /\ live' = live /\ ExitCode' = ExitCode /\ Device' = Device /\ shown' = shown
  BY DEF live, ExitCode, Device, shown
<1>2. /\ \A e \in Devices \ {d} : latest'[e] = latest[e]
      /\ latest'[d] = latest[d] \cup {Newest(store'[d])}
  BY <1>0 DEF TypeOK
<1>3. Newest(store'[d]) \in Stamps \cup {0}
  BY NewestIsLatest
<1>4. TypeOK'
  <2>1. latest' \in [Devices -> SUBSET (Stamps \cup {0})]
    BY <1>0, <1>3 DEF TypeOK
  <2>2. \A e \in Devices : /\ DOMAIN store'[e] \subseteq Stamps
                          /\ \A s \in DOMAIN store'[e] : store'[e][s] \in Captures
                          /\ DOMAIN spoiled'[e] \subseteq DOMAIN store'[e]
    BY <1>0 DEF TypeOK
  <2> QED  BY <1>0, <2>1, <2>2 DEF TypeOK
<1>5. RowsInv' /\ ToldInv'
  BY <1>0, <1>1 DEF RowsInv, ToldInv, FileInv, LinesInv
<1>6. LatestInv'
  <2>1. \A e \in Devices : Newest(store'[e]) \in latest'[e] /\ latest[e] \subseteq latest'[e]
    BY <1>0, <1>2 DEF LatestInv
  <2>2. pc = "read" => Device \in Devices
    BY <1>0, DeviceIsNext DEF RowsInv
  <2>3. pc' = "read" => path' \in latest'[Device] \ {0}
    BY <1>0, <2>1, <2>2 DEF LatestInv
  <2>4. ASSUME ~live, NEW i \in DOMAIN audited  PROVE Explained(audited[i])'
    <3>1. Explained(audited[i])
      BY <1>0, <2>4 DEF LatestInv
    <3>2. audited[i].device \in Devices
      <4>1. i \in 1..Len(audited)
        BY <1>0, LenProperties DEF TypeOK
      <4>2. audited[i] \in Rows
        BY <1>0, <4>1, ElementOfSeq DEF TypeOK
      <4> QED  BY <4>2, RowFields
    <3>3. CASE ~audited[i].error
      BY <2>1, <3>1, <3>2, <3>3 DEF Explained
    <3>4. CASE audited[i].error /\ audited[i].device # d
      BY <1>2, <3>1, <3>2, <3>4 DEF Explained
    <3>5. CASE audited[i].error /\ audited[i].device = d
      <4>1. CASE Newest(store'[d]) # Newest(store[d])
        <5>1. Newest(store[d]) \in latest'[d]
          BY <1>0, <2>1 DEF LatestInv
        <5> QED  BY <3>5, <4>1, <5>1 DEF Explained
      <4>2. CASE Newest(store'[d]) = Newest(store[d])
        <5>1. \/ latest[d] \ {Newest(store[d])} # {} \/ 0 \in latest[d]
              \/ Newest(store[d]) \in DOMAIN spoiled[d]
          BY <3>1, <3>5 DEF Explained
        <5>2. \/ latest'[d] \ {Newest(store'[d])} # {} \/ 0 \in latest'[d]
              \/ Newest(store'[d]) \in DOMAIN spoiled'[d]
          BY <2>1, <4>2, <5>1
        <5> QED  BY <3>5, <5>2 DEF Explained
      <4> QED  BY <4>1, <4>2
    <3> QED  BY <3>3, <3>4, <3>5
  <2> QED  BY <1>1, <2>1, <2>3, <2>4 DEF LatestInv
<1> QED  BY <1>4, <1>5, <1>6 DEF IInv

\* A new backup is the newest of its device, and joins those that have been.
LEMMA PublishKeepsInv ==
  ASSUME IInv, NEW d \in Devices, Publish(d)
  PROVE  IInv'
<1>0. TypeOK
  BY DEF IInv
<1>1. PICK s \in Stamps, c \in Captures :
        store' = [store EXCEPT ![d] =
                     [t \in DOMAIN @ \cup {s} |-> IF t = s THEN c ELSE @[t]]]
  BY DEF Publish
<1>2. /\ Meanwhile /\ UNCHANGED <<options, pc, collected, spoiled, path, audited, file, stdout, exit>>
      /\ latest' = [latest EXCEPT ![d] = @ \cup {Newest(store'[d])}]
  BY DEF Publish, Note, output
<1>3. /\ DOMAIN store' = Devices
      /\ \A e \in Devices \ {d} : store'[e] = store[e]
      /\ DOMAIN store'[d] = DOMAIN store[d] \cup {s}
      /\ \A t \in DOMAIN store'[d] : store'[d][t] = IF t = s THEN c ELSE store[d][t]
  BY <1>0, <1>1 DEF TypeOK
<1>4. /\ DOMAIN store'[d] \subseteq Stamps
      /\ \A t \in DOMAIN store'[d] : store'[d][t] \in Captures
      /\ DOMAIN spoiled' = Devices /\ DOMAIN spoiled'[d] \subseteq DOMAIN store'[d]
  BY <1>0, <1>2, <1>3 DEF TypeOK
<1> QED  BY <1>2, <1>3, <1>4, BackupsChange

\* Removing a backup makes an older one the newest, or leaves none.
LEMMA RemoveKeepsInv ==
  ASSUME IInv, NEW d \in Devices, Remove(d)
  PROVE  IInv'
<1>0. TypeOK
  BY DEF IInv
<1>1. PICK s \in DOMAIN store[d] :
        /\ store' = [store EXCEPT ![d] = [t \in DOMAIN @ \ {s} |-> @[t]]]
        /\ spoiled' = [spoiled EXCEPT ![d] = [t \in DOMAIN @ \ {s} |-> @[t]]]
  BY DEF Remove
<1>2. /\ Meanwhile /\ UNCHANGED <<options, pc, collected, path, audited, file, stdout, exit>>
      /\ latest' = [latest EXCEPT ![d] = @ \cup {Newest(store'[d])}]
  BY DEF Remove, Note, output
<1>3. /\ DOMAIN store' = Devices /\ DOMAIN spoiled' = Devices
      /\ \A e \in Devices \ {d} : store'[e] = store[e] /\ spoiled'[e] = spoiled[e]
      /\ DOMAIN store'[d] = DOMAIN store[d] \ {s}
      /\ DOMAIN spoiled'[d] = DOMAIN spoiled[d] \ {s}
      /\ \A t \in DOMAIN store'[d] : store'[d][t] = store[d][t]
  BY <1>0, <1>1 DEF TypeOK
<1>4. /\ DOMAIN store'[d] \subseteq Stamps
      /\ \A t \in DOMAIN store'[d] : store'[d][t] \in Captures
      /\ DOMAIN spoiled'[d] \subseteq DOMAIN store'[d]
  BY <1>0, <1>3 DEF TypeOK
<1>5. Newest(store'[d]) \in DOMAIN store'[d] \cup {0} /\ s # 0
  BY <1>0, <1>4, NewestIsLatest, InventoryAssumption DEF TypeOK
<1>6. Newest(store'[d]) = Newest(store[d]) /\ Newest(store[d]) \in DOMAIN spoiled[d]
        => Newest(store'[d]) \in DOMAIN spoiled'[d]
  BY <1>3, <1>5
<1> QED  BY <1>2, <1>3, <1>4, <1>6, BackupsChange

\* A file that is spoiled keeps its name, and is one a row may have failed for.
LEMMA SpoilKeepsInv ==
  ASSUME IInv, NEW d \in Devices, Spoil(d)
  PROVE  IInv'
<1>0. TypeOK /\ LatestInv
  BY DEF IInv
<1>1. PICK s \in DOMAIN store[d], how \in Faults \cap {"unreadable", "undecodable"} :
        spoiled' = [spoiled EXCEPT ![d] =
                       [t \in DOMAIN @ \cup {s} |-> IF t = s THEN how ELSE @[t]]]
  BY DEF Spoil
<1>2. /\ Meanwhile
      /\ UNCHANGED <<options, pc, collected, store, path, audited, file, stdout, exit, latest>>
  BY DEF Spoil, output
<1>3. /\ DOMAIN spoiled' = Devices
      /\ \A e \in Devices \ {d} : spoiled'[e] = spoiled[e]
      /\ DOMAIN spoiled'[d] = DOMAIN spoiled[d] \cup {s}
  BY <1>0, <1>1 DEF TypeOK
<1>4. latest' = [latest EXCEPT ![d] = @ \cup {Newest(store'[d])}]
  <2>1. latest[d] \cup {Newest(store'[d])} = latest[d]
    BY <1>0, <1>2 DEF LatestInv
  <2>2. latest = [latest EXCEPT ![d] = latest[d]]
    BY <1>0 DEF TypeOK
  <2> QED  BY <1>2, <2>1, <2>2
<1>5. /\ DOMAIN store' = Devices /\ \A e \in Devices \ {d} : store'[e] = store[e]
      /\ DOMAIN store'[d] \subseteq Stamps
      /\ \A t \in DOMAIN store'[d] : store'[d][t] \in Captures
      /\ DOMAIN spoiled'[d] \subseteq DOMAIN store'[d]
  BY <1>0, <1>2, <1>3 DEF TypeOK
<1> QED  BY <1>2, <1>3, <1>4, <1>5, BackupsChange

-----------------------------------------------------------------------------
(* The theorems.                                                            *)

\* Every step of the run keeps the invariant; Workflow takes the same steps.
LEMMA RunKeepsInv == IInv /\ Run => IInv'
BY EvaluateLiveKeepsInv, BeginningKeepsInv, LocateKeepsInv, ReadKeepsInv,
   WriteReportKeepsInv, ShowResultKeepsInv, InterruptKeepsInv DEF Run

\* Every step, of the run or of the others, keeps the invariant.
LEMMA NextKeepsInv == IInv /\ Next => IInv'
BY RunKeepsInv, PublishKeepsInv, RemoveKeepsInv, SpoilKeepsInv DEF Next

\* So does a step that changes nothing.
LEMMA NothingKeepsInv == IInv /\ UNCHANGED vars => IInv'
<1> SUFFICES ASSUME IInv, UNCHANGED vars  PROVE IInv'
  OBVIOUS
<1>0. TypeOK /\ RowsInv /\ ToldInv /\ LatestInv
  BY DEF IInv
<1>1. UNCHANGED <<options, pc, collected, store, spoiled, path, audited, file, stdout,
                  exit, latest>>
  BY DEF vars, files, output
<1>2. TypeOK'
  BY <1>0, <1>1 DEF TypeOK
<1>3. RowsInv'
  BY <1>0, <1>1 DEF RowsInv, live, ExitCode
<1>4. FileInv'
  BY <1>0, <1>1 DEF ToldInv, FileInv
<1>5. LinesInv'
  BY <1>0, <1>1 DEF ToldInv, LinesInv, shown
<1>6. LatestInv'
  BY <1>0, <1>1 DEF LatestInv, Explained, live, Device
<1> QED  BY <1>2, <1>3, <1>4, <1>5, <1>6 DEF IInv, ToldInv

\* The invariant holds of every behaviour: rows, outputs and what was newest fit together.
THEOREM Invariance == Spec => []IInv
<1>1. IInv /\ [Next]_vars => IInv'
  BY NextKeepsInv, NothingKeepsInv
<1> QED  BY InitInv, <1>1, PTL DEF Spec

\* Every variable keeps its type, and every row is one that the run can make.
THEOREM TypeCorrect == Spec => []TypeOK
BY Invariance, PTL DEF IInv

\* With code 0 no row wants anything, and a row without fault has every rule passed.
LEMMA InvHasNoFalsePass == IInv => NoFalsePass
<1> SUFFICES ASSUME IInv, exit = 0, NEW i \in DOMAIN Inventory
             PROVE  /\ i \in DOMAIN audited
                    /\ audited[i].device = Inventory[i] /\ ~audited[i].error
                    /\ live => collected[audited[i].device] # NoConfig
                    /\ \A n \in DOMAIN Golden :
                          applies_to(Golden[n], Tags[audited[i].device]) =>
                             audited[i].results[n].status = "pass"
  BY DEF NoFalsePass
<1>1. /\ audited \in Seq(Rows) /\ Len(audited) = Len(Inventory) /\ ExitCode = 0
      /\ \A j \in DOMAIN audited :
            /\ audited[j].device = Inventory[j]
            /\ live /\ ~audited[j].error => collected[Inventory[j]] # NoConfig
  BY DEF IInv, TypeOK, RowsInv
<1>2. i \in DOMAIN audited /\ i \in 1..Len(audited)
  BY <1>1, InventoryPlaces, LenProperties
<1>3. audited[i] \in Rows
  BY <1>1, <1>2, ElementOfSeq
<1>4. ~audited[i].error /\ Places(audited[i].results, failed) = {}
  <2>1. compliant(audited[i])
    BY <1>1, <1>2 DEF ExitCode
  <2> QED  BY <2>1 DEF compliant
<1>5. PICK config \in Captures :
        audited[i].results = evaluate(Tags[audited[i].device], config, Golden)
  BY <1>3, <1>4, RowFields
<1>6. \A n \in DOMAIN Golden :
        applies_to(Golden[n], Tags[audited[i].device]) => audited[i].results[n].status = "pass"
  BY <1>4, <1>5, RuleDecides
<1> QED  BY <1>1, <1>2, <1>4, <1>6

\* Code 0 is no accident: every device has been audited, and every rule that is for it
\* passed on a configuration it has or had.
THEOREM NoFalsePassTheorem == Spec => []NoFalsePass
BY Invariance, InvHasNoFalsePass, PTL

\* A code of 0 or 1 is given after the result is shown, of one row for each device.
LEMMA InvFinishes == IInv => FinishedIsComplete
<1> SUFFICES ASSUME IInv, exit \in {0, 1}  PROVE FinishedIsComplete
  BY DEF FinishedIsComplete
<1>1. /\ audited \in Seq(Rows) /\ Len(audited) = Len(Inventory) /\ shown
      /\ \A j \in DOMAIN audited : audited[j].device = Inventory[j]
  BY DEF IInv, TypeOK, RowsInv, ToldInv, FileInv, LinesInv
<1>2. DOMAIN audited = DOMAIN Inventory
  BY <1>1, InventoryPlaces, LenProperties
<1> QED  BY <1>1, <1>2 DEF FinishedIsComplete

\* With code 0 or 1 the result has been shown, and it is of every device, in order.
THEOREM FinishedTheorem == Spec => []FinishedIsComplete
BY Invariance, InvFinishes, PTL

\* Each row is explained by a backup that was the newest, or by a fault.
LEMMA InvAuditsLatest == IInv => AuditedWasLatest
<1> SUFFICES ASSUME IInv, NEW i \in DOMAIN audited, ~live
             PROVE  IF audited[i].error
                    THEN \/ latest[audited[i].device]
                              \ {Newest(store[audited[i].device])} # {}
                         \/ 0 \in latest[audited[i].device]
                         \/ DOMAIN spoiled[audited[i].device] # {}
                    ELSE audited[i].source \in latest[audited[i].device] \ {0}
  BY DEF AuditedWasLatest
<1>1. Explained(audited[i])
  BY DEF IInv, LatestInv
<1> QED  BY <1>1 DEF Explained

\* Whatever backup runs and the user do meanwhile, what is audited was the latest
\* backup at some time of the run.
THEOREM LatestTheorem == Spec => []AuditedWasLatest
BY Invariance, InvAuditsLatest, PTL

-----------------------------------------------------------------------------
(* The verdicts that are told.                                              *)

\* Only what the four renderers make of all the rows is told.
LEMMA ToldIsOfAll ==
  ASSUME IInv, NEW out \in Told
  PROVE  /\ Len(audited) = Len(Inventory)
         /\ out \in {[kind |-> "tables", table |-> render_compliance_table(audited),
                      violations |-> render_violations(audited),
                      summary |-> render_compliance_summary(audited)],
                     compliance_to_json(audited), to_markdown(audited), to_html(audited)}
<1>0. ToldInv
  BY DEF IInv
<1> DEFINE json   == [kind |-> "json", json |-> compliance_to_json(audited)]
           tables == [kind |-> "tables", table |-> render_compliance_table(audited),
                      violations |-> render_violations(audited),
                      summary |-> render_compliance_summary(audited)]
<1>1. json.kind = "json" /\ json.json = compliance_to_json(audited) /\ tables.kind = "tables"
  OBVIOUS
<1>2. CASE out = file /\ out \notin {NoFile, PartFile}
  <2>1. /\ options.report \in DOMAIN REPORT_RENDERERS
        /\ Len(audited) = Len(Inventory)
        /\ out = Render(options.report, audited)
    BY <1>0, <1>2 DEF ToldInv, FileInv, LinesInv
  <2>2. REPORT_RENDERERS[options.report] \in {"markdown", "html", "json"}
    BY <2>1 DEF REPORT_RENDERERS
  <2>3. out \in {to_markdown(audited), to_html(audited), compliance_to_json(audited)}
    BY <2>1, <2>2 DEF Render
  <2> QED  BY <2>1, <2>3
<1>3. ASSUME NEW i \in DOMAIN stdout, stdout[i].kind \in {"json", "tables"}
      PROVE  Len(audited) = Len(Inventory) /\ stdout[i] \in {json, tables}
  BY <1>0, <1>3 DEF ToldInv, FileInv, LinesInv
<1>4. CASE \E i \in DOMAIN stdout : stdout[i].kind = "tables" /\ out = stdout[i]
  <2> HIDE DEF json, tables
  <2>1. Len(audited) = Len(Inventory) /\ out = tables
    BY <1>1, <1>3, <1>4
  <2> QED  BY <2>1 DEF tables
<1>5. CASE \E i \in DOMAIN stdout : stdout[i].kind = "json" /\ out = stdout[i].json
  <2> HIDE DEF json, tables
  <2>1. Len(audited) = Len(Inventory) /\ out = compliance_to_json(audited)
    BY <1>1, <1>3, <1>5
  <2> QED  BY <2>1
<1> QED  BY <1>2, <1>4, <1>5 DEF Told

\* The rows that want something, by number and by device.
Wanting == Places(audited, LAMBDA row : ~compliant(row))

\* The devices that want something are those of the rows that are not compliant.
LEMMA WantingDevices ==
  In(audited, LAMBDA row : \/ row.error
                           \/ \E n \in DOMAIN row.results : row.results[n].status = "fail")
    = {audited[n].device : n \in Wanting}
<1>1. ASSUME NEW row
      PROVE  ~compliant(row) <=>
               \/ row.error
               \/ \E n \in DOMAIN row.results : row.results[n].status = "fail"
  BY DEF compliant, Places, failed
<1> QED  BY <1>1 DEF In, Places, Wanting

\* No two rows are of one device.
LEMMA DevicesOfRows ==
  ASSUME TypeOK, RowsInv, NEW Q \in SUBSET DOMAIN audited
  PROVE  Cardinality({audited[n].device : n \in Q}) = Cardinality(Q)
<1> DEFINE D == {audited[n].device : n \in Q}
           f == [n \in Q |-> audited[n].device]
<1>1. /\ DOMAIN audited \subseteq 1..Len(Inventory)
      /\ \A n \in DOMAIN audited : audited[n].device = Inventory[n]
  BY InventoryPlaces, LenProperties DEF TypeOK, RowsInv
<1>2. IsFiniteSet(Q)
  <2>1. DOMAIN audited = 1..Len(audited) /\ Len(audited) \in Nat
    BY LenProperties DEF TypeOK
  <2>2. IsFiniteSet(DOMAIN audited)
    BY <2>1, FS_Interval
  <2> QED  BY <2>2, FS_Subset
<1>3. \A m, n \in Q : audited[m].device = audited[n].device => m = n
  BY <1>1, InventoryPlaces, InventoryAssumption
<1>4. f \in Bijection(Q, D)
  <2>1. f \in Injection(Q, D)
    BY <1>3 DEF Injection, IsInjective
  <2>2. f \in Surjection(Q, D)
    BY DEF Surjection
  <2> QED  BY <2>1, <2>2 DEF Bijection
<1>5. ExistsBijection(Q, D)
  BY <1>4 DEF ExistsBijection
<1>6. Cardinality(D) = Cardinality(Q)
  <2> HIDE DEF D, f
  <2> QED  BY <1>2, <1>5, FS_Bijection
<1> QED  BY <1>6

\* As many rows pass as there are devices less those that want something.
LEMMA PassedCount ==
  ASSUME IInv, Len(audited) = Len(Inventory)
  PROVE  Count(audited, compliant)
           = Len(Inventory) - Cardinality({audited[n].device : n \in Wanting})
<1>1. /\ DOMAIN audited = 1..Len(Inventory) /\ Len(Inventory) \in Nat
      /\ \A n \in DOMAIN audited : audited[n].device = Inventory[n]
  BY InventoryPlaces, LenProperties DEF IInv, TypeOK, RowsInv
<1> DEFINE P == Places(audited, compliant)
           D == {audited[n].device : n \in Wanting}
<1>2. P \cup Wanting = 1..Len(Inventory) /\ P \cap Wanting = {}
  BY <1>1 DEF Places, Wanting
<1>3. IsFiniteSet(1..Len(Inventory)) /\ Cardinality(1..Len(Inventory)) = Len(Inventory)
  <2>1. 1 \in Int /\ Len(Inventory) \in Int
    BY <1>1
  <2>2. /\ IsFiniteSet(1..Len(Inventory))
        /\ Cardinality(1..Len(Inventory)) = IF 1 > Len(Inventory) THEN 0
                                            ELSE Len(Inventory) - 1 + 1
    BY <2>1, FS_Interval, Zenon
  <2> QED  BY <1>1, <2>2
<1>4. IsFiniteSet(P) /\ IsFiniteSet(Wanting)
  <2> HIDE DEF P
  <2> QED  BY <1>2, <1>3, FS_Subset
<1>5. /\ Cardinality(P) \in Nat /\ Cardinality(Wanting) \in Nat
      /\ Cardinality(P \cap Wanting) = 0
      /\ Cardinality(P \cup Wanting)
            = Cardinality(P) + Cardinality(Wanting) - Cardinality(P \cap Wanting)
  <2> HIDE DEF P
  <2> QED  BY <1>2, <1>4, FS_Union, FS_CardinalityType, FS_EmptySet
<1>6. Cardinality(P) = Len(Inventory) - Cardinality(Wanting)
  <2> HIDE DEF P
  <2>1. Cardinality(P \cup Wanting) = Len(Inventory)
    BY <1>2, <1>3, Zenon
  <2> QED  BY <1>1, <1>5, <2>1
<1>7. Cardinality(D) = Cardinality(Wanting)
  <2>1. Wanting \in SUBSET DOMAIN audited
    BY DEF Wanting, Places
  <2> QED  BY <2>1, DevicesOfRows DEF IInv
<1> QED  BY <1>6, <1>7 DEF Count

\* What each output says of the devices is worked out from the same rows.
LEMMA TablesAgree ==
  ASSUME NEW out, out = [kind |-> "tables", table |-> render_compliance_table(audited),
                         violations |-> render_violations(audited),
                         summary |-> render_compliance_summary(audited)]
  PROVE  /\ Named(out) = {audited[n].device : n \in Wanting}
         /\ Passed(out) = Count(audited, compliant)
<1>1. /\ IsTables(out) /\ ~IsJson(out) /\ ~IsFile(out)
      /\ out.table = render_compliance_table(audited)
      /\ out.summary = render_compliance_summary(audited)
  BY DEF IsTables, IsJson, IsFile
<1>2. /\ DOMAIN out.table = DOMAIN audited
      /\ \A n \in DOMAIN audited :
            /\ out.table[n].device = audited[n].device
            /\ out.table[n].label # "COMPLIANT" <=> ~compliant(audited[n])
  <2>1. out.table = [n \in DOMAIN audited |-> DeviceLine(audited[n])]
    BY <1>1 DEF render_compliance_table, Map
  <2>2. ASSUME NEW row
        PROVE  /\ DeviceLine(row).device = row.device
               /\ DeviceLine(row).label # "COMPLIANT" <=> ~compliant(row)
    <3>1. DeviceLine(row).device = row.device /\ DeviceLine(row).label = status_of(row)
      BY DEF DeviceLine
    <3>2. status_of(row) # "COMPLIANT" <=> ~compliant(row)
      BY DEF status_of, compliant
    <3> QED  BY <3>1, <3>2
  <2> QED  BY <2>1, <2>2
<1>3. Named(out) = In(out.table, LAMBDA line : line.label # "COMPLIANT")
  BY <1>1 DEF Named
<1>4. Named(out) = {audited[n].device : n \in Wanting}
  BY <1>2, <1>3 DEF In, Places, Wanting
<1>5. Passed(out) = render_compliance_summary(audited).compliant
  BY <1>1 DEF Passed
<1>6. Passed(out) = Count(audited, compliant)
  BY <1>5 DEF render_compliance_summary
<1> QED  BY <1>4, <1>6

\* The JSON names the devices that want something, and counts the others.
LEMMA JsonAgrees ==
  ASSUME NEW out, out = compliance_to_json(audited)
  PROVE  /\ Named(out) = {audited[n].device : n \in Wanting}
         /\ Passed(out) = Count(audited, compliant)
<1>1. /\ ~IsTables(out) /\ IsJson(out) /\ ~IsFile(out)
      /\ out.devices = Map(audited, to_dict)
      /\ out.compliant = Count(audited, compliant)
  BY DEF IsTables, IsJson, IsFile, compliance_to_json
<1>2. /\ DOMAIN out.devices = DOMAIN audited
      /\ \A n \in DOMAIN audited :
            /\ out.devices[n].device = audited[n].device
            /\ out.devices[n].compliant = compliant(audited[n])
  <2>1. out.devices = [n \in DOMAIN audited |-> to_dict(audited[n])]
    BY <1>1 DEF Map
  <2>2. ASSUME NEW row
        PROVE  to_dict(row).device = row.device /\ to_dict(row).compliant = compliant(row)
    BY DEF to_dict
  <2> QED  BY <2>1, <2>2
<1>3. Named(out) = In(out.devices, LAMBDA device : ~device.compliant)
  BY <1>1 DEF Named
<1>4. Named(out) = {audited[n].device : n \in Wanting}
  BY <1>2, <1>3 DEF In, Places, Wanting
<1>5. Passed(out) = Count(audited, compliant)
  BY <1>1 DEF Passed
<1> QED  BY <1>4, <1>5

\* What the Markdown and the HTML have in common.
LEMMA FilesHave ==
  ASSUME NEW out, out \in {to_markdown(audited), to_html(audited)}
  PROVE  /\ ~IsTables(out) /\ ~IsJson(out) /\ IsFile(out)
         /\ out.numbers.Compliant = Count(audited, compliant)
         /\ out.numbers.Violations = Total(Map(audited, violation_count))
         /\ out.severities = Breakdown(audited)
         /\ out.devices = Map(audited, DeviceLine)
         /\ out.findings = Findings(audited)
<1>1. /\ ~IsTables(out) /\ ~IsJson(out) /\ IsFile(out)
      /\ out.severities = Breakdown(audited)
      /\ out.devices = Map(audited, DeviceLine)
      /\ out.findings = Findings(audited)
  BY DEF IsTables, IsJson, IsFile, to_markdown, to_html
<1> DEFINE numbers == [Devices |-> Len(audited), Compliant |-> Count(audited, compliant),
                       Violations |-> Total(Map(audited, violation_count))]
<1>2. to_markdown(audited).numbers = numbers
  BY DEF to_markdown
<1>3. /\ "Compliant" \in DOMAIN numbers /\ numbers["Compliant"] = Count(audited, compliant)
      /\ "Violations" \in DOMAIN numbers
      /\ numbers["Violations"] = Total(Map(audited, violation_count))
  OBVIOUS
<1>4. CASE out = to_markdown(audited)
  BY <1>1, <1>2, <1>4
<1>5. CASE out = to_html(audited)
  <2>1. "numbers" \in DOMAIN to_markdown(audited)
    BY DEF to_markdown
  <2> DEFINE errors  == Count(audited, HasError)
             extra   == {name \in {"Unchecked"} : errors # 0}
             all(of) == [name \in DOMAIN of \cup extra |->
                            IF name = "Unchecked" THEN errors ELSE of[name]]
  <2>2. out = [to_markdown(audited) EXCEPT !.numbers = all(to_markdown(audited).numbers)]
    BY <1>5 DEF to_html
  <2>3. out.numbers = all(to_markdown(audited).numbers)
    <3> HIDE DEF all
    <3> QED  BY <2>1, <2>2
  <2>4. /\ all(numbers)["Compliant"] = numbers["Compliant"]
        /\ all(numbers)["Violations"] = numbers["Violations"]
    <3> HIDE DEF numbers, extra, errors
    <3> QED  BY <1>3
  <2> HIDE DEF all, numbers
  <2> QED  BY <1>1, <1>2, <1>3, <2>3, <2>4
<1> QED  BY <1>4, <1>5

\* They agree with the terminal on the devices.
LEMMA FilesAgree ==
  ASSUME NEW out, out \in {to_markdown(audited), to_html(audited)}
  PROVE  /\ Named(out) = {audited[n].device : n \in Wanting}
         /\ Passed(out) = Count(audited, compliant)
<1>1. /\ ~IsTables(out) /\ ~IsJson(out) /\ IsFile(out)
      /\ out.numbers.Compliant = Count(audited, compliant)
      /\ out.findings = Findings(audited)
  BY FilesHave
<1>2. /\ DOMAIN out.findings = Wanting
      /\ \A n \in Wanting : out.findings[n].device = audited[n].device
  BY <1>1 DEF Findings, Pick, Places, Wanting, compliant
<1>3. Named(out) = In(out.findings, LAMBDA finding : TRUE)
  BY <1>1 DEF Named
<1>4. Named(out) = {audited[n].device : n \in Wanting}
  BY <1>2, <1>3 DEF In, Places
<1>5. Passed(out) = Count(audited, compliant)
  BY <1>1 DEF Passed
<1> QED  BY <1>4, <1>5

\* Whatever was told of an audit names the same devices, and the exit code says if any.
LEMMA InvVerdictsAgree == IInv => VerdictsAgree
<1> SUFFICES ASSUME IInv  PROVE VerdictsAgree
  OBVIOUS
<1> DEFINE wanting == {audited[n].device : n \in Wanting}
<1>1. exit \in {0, 1} => (exit = 0 <=> wanting = {})
  <2>1. wanting = {} <=> \A n \in DOMAIN audited : compliant(audited[n])
    BY DEF Wanting, Places
  <2>2. exit \in {0, 1} => exit = ExitCode
    BY DEF IInv, RowsInv
  <2> HIDE DEF wanting
  <2> QED  BY <2>1, <2>2 DEF ExitCode
<1>2. ASSUME NEW out \in Told
      PROVE  Named(out) = wanting /\ Passed(out) = Len(Inventory) - Cardinality(wanting)
  <2>1. Count(audited, compliant) = Len(Inventory) - Cardinality(wanting)
    BY <1>2, ToldIsOfAll, PassedCount
  <2>2. Named(out) = wanting /\ Passed(out) = Count(audited, compliant)
    <3> HIDE DEF wanting
    <3> QED  BY <1>2, ToldIsOfAll, TablesAgree, JsonAgrees, FilesAgree DEF wanting
  <2> QED  BY <2>1, <2>2
<1> QED  BY <1>1, <1>2, WantingDevices DEF VerdictsAgree

-----------------------------------------------------------------------------
(* The failed rules that are given.                                         *)

\* A rule has finitely many entries.
LEMMA EntriesAreFinite ==
  ASSUME NEW rule, \A key \in MATCH_KEYS : IsList(rule[key]), NEW keys \in SUBSET MATCH_KEYS
  PROVE  IsFiniteSet(Entries(rule, keys))
<1> DEFINE f == [key \in keys |-> Len(rule[key])]
<1>1. \A key \in keys : Len(rule[key]) \in Nat /\ DOMAIN rule[key] = 1..Len(rule[key])
  BY ListPlaces
<1>2. f \in [keys -> Nat]
  BY <1>1
<1>3. IsFiniteSet(keys)
  <2> DEFINE all == ({"required"} \cup {"required_regex"})
                    \cup ({"forbidden"} \cup {"forbidden_regex"})
  <2>1. /\ IsFiniteSet({"required"}) /\ IsFiniteSet({"required_regex"})
        /\ IsFiniteSet({"forbidden"}) /\ IsFiniteSet({"forbidden_regex"})
    BY FS_Singleton
  <2>2. /\ IsFiniteSet({"required"} \cup {"required_regex"})
        /\ IsFiniteSet({"forbidden"} \cup {"forbidden_regex"})
    BY <2>1, FS_Union
  <2>3. IsFiniteSet(all)
    BY <2>2, FS_Union
  <2>4. keys \in SUBSET all
    BY DEF MATCH_KEYS, RequiredKeys, ForbiddenKeys
  <2> QED  BY <2>3, <2>4, FS_Subset
<1>4. Entries(rule, keys) = Things(f)
  <2>1. \A e : e \in Entries(rule, keys)
                  <=> \E key \in keys : \E n \in DOMAIN rule[key] : e = <<key, n>>
    BY DEF Entries
  <2>2. \A e : e \in Things(f) <=> \E key \in keys : \E n \in 1..f[key] : e = <<key, n>>
    BY ThingsOf
  <2> QED  BY <1>1, <2>1, <2>2
<1> HIDE DEF f
<1> QED  BY <1>2, <1>3, <1>4, TotalType

\* And finitely many things violate it in a configuration.
LEMMA ViolationsAreFinite ==
  ASSUME NEW rule, \A key \in MATCH_KEYS : IsList(rule[key]), NEW config, IsList(config)
  PROVE  IsFiniteSet(Violations(rule, config_lines(config)))
<1> DEFINE lines == config_lines(config)
           V     == Violations(rule, lines)
           Hits(e) == {k \in DOMAIN lines : lines[k].text \in Matches(rule, e)}
           D     == DOMAIN lines
           E     == Entries(rule, MATCH_KEYS)
           missed == [e \in E |-> Violation("missing", e, 0)]
           hit   == [x \in E \X D |-> Violation("forbidden", x[1], lines[x[2]].number)]
           W     == {missed[e] : e \in E} \cup {hit[x] : x \in E \X D}
<1>1. IsFiniteSet(D)
  <2> DEFINE numbered == [n \in DOMAIN config |->
                              [number |-> n, text |-> normalize_line(config[n])]]
             P == {n \in DOMAIN config : numbered[n].text \notin {"", "!"}}
  <2>1. lines = Sublist(numbered, P)
    BY DEF config_lines
  <2>2. P \in SUBSET (1..Len(config)) /\ Len(config) \in Nat
    BY ListPlaces
  <2> HIDE DEF P, numbered, lines
  <2>3. DOMAIN lines = 1..Cardinality(P) /\ Cardinality(P) \in Nat
    BY <2>1, <2>2, SublistTakes, PlacesAreNumbered
  <2> QED  BY <2>3, FS_Interval
<1>2. IsFiniteSet(E)
  BY EntriesAreFinite
<1>3. IsFiniteSet(W)
  <2> HIDE DEF D, E
  <2>1. IsFiniteSet(E \X D)
    BY <1>1, <1>2, FS_Product
  <2>2. DOMAIN missed = E /\ DOMAIN hit = E \X D
    OBVIOUS
  <2> HIDE DEF missed, hit
  <2>3. IsFiniteSet({missed[e] : e \in E}) /\ IsFiniteSet({hit[x] : x \in E \X D})
    BY <1>2, <2>1, <2>2, ImageIsFinite
  <2> QED  BY <2>3, FS_Union
<1>4. \A keys \in SUBSET MATCH_KEYS : Entries(rule, keys) \subseteq E
  BY DEF Entries
<1>5. Entries(rule, RequiredKeys) \subseteq E /\ Entries(rule, ForbiddenKeys) \subseteq E
  BY <1>4 DEF MATCH_KEYS
<1>6. V = {Violation("missing", e, 0) :
              e \in {x \in Entries(rule, RequiredKeys) : Hits(x) = {}}}
          \cup
          UNION {{Violation("forbidden", e, lines[n].number) : n \in Hits(e)} :
                    e \in Entries(rule, ForbiddenKeys)}
  BY Zenon DEF Violations
<1> HIDE DEF V, E, lines
<1>7. ASSUME NEW v \in V  PROVE v \in W
  <2>1. CASE \E e \in Entries(rule, RequiredKeys) : v = Violation("missing", e, 0)
    <3>1. PICK e \in E : v = missed[e]
      BY <1>5, <2>1
    <3> QED  BY <3>1
  <2>2. CASE \E e \in Entries(rule, ForbiddenKeys) : \E n \in D :
                v = Violation("forbidden", e, lines[n].number)
    <3>1. PICK e \in E, n \in D : v = Violation("forbidden", e, lines[n].number)
      BY <1>5, <2>2
    <3>2. <<e, n>> \in E \X D /\ hit[<<e, n>>] = v
      BY <3>1
    <3> QED  BY <3>2
  <2> QED  BY <1>6, <1>7, <2>1, <2>2
<1> HIDE DEF W
<1>8. V \in SUBSET W
  BY <1>7
<1> QED  BY <1>3, <1>8, FS_Subset DEF V, lines

\* The results of some rules: of so many, each of a severity, with so many violations.
Evaluation(results) ==
  \E L \in Nat : /\ DOMAIN results = 1..L
                 /\ \A n \in 1..L : /\ results[n].severity \in Severities
                                    /\ IsFiniteSet(results[n].violations)

\* They are what a row holds.
LEMMA RowsAreEvaluated ==
  ASSUME TypeOK
  PROVE  \A i \in DOMAIN audited : /\ Evaluation(audited[i].results)
                                   /\ audited[i].error => audited[i].results = << >>
<1>1. SUFFICES ASSUME NEW row \in Rows
               PROVE  Evaluation(row.results) /\ (row.error => row.results = << >>)
  BY LenProperties DEF TypeOK
<1>2. row.error => row.results = << >>
  BY RowFields
<1>3. CASE row.results = << >>
  <2>1. DOMAIN row.results = 1..0
    BY <1>3
  <2> QED  BY <1>2, <2>1 DEF Evaluation
<1>4. CASE \E config \in Captures : row.results = evaluate(Tags[row.device], config, Golden)
  <2> PICK config \in Captures : row.results = evaluate(Tags[row.device], config, Golden)
    BY <1>4
  <2> DEFINE r == row.results
             tags == Tags[row.device]
  <2>1. Len(Golden) \in Nat /\ DOMAIN Golden = 1..Len(Golden)
    BY GoldenAssumption, ListPlaces
  <2>2. r = [n \in DOMAIN Golden |->
               IF applies_to(Golden[n], tags)
               THEN evaluate_rule(Golden[n], config_lines(config))
               ELSE [rule |-> Golden[n].name, severity |-> Golden[n].severity,
                     violations |-> {}, status |-> "not_applicable"]]
    BY DEF evaluate
  <2> HIDE DEF r
  <2>3. ASSUME NEW n \in DOMAIN Golden
        PROVE  r[n].severity = Golden[n].severity /\ IsFiniteSet(r[n].violations)
    <3>1. CASE applies_to(Golden[n], tags)
      <4>1. r[n] = evaluate_rule(Golden[n], config_lines(config))
        BY <2>2, <3>1
      <4>2. /\ r[n].severity = Golden[n].severity
            /\ r[n].violations = Violations(Golden[n], config_lines(config))
        BY <4>1 DEF evaluate_rule
      <4>3. IsFiniteSet(Violations(Golden[n], config_lines(config)))
        BY GoldenAssumption, ViolationsAreFinite
      <4> QED  BY <4>2, <4>3
    <3>2. CASE ~applies_to(Golden[n], tags)
      <4>1. r[n].severity = Golden[n].severity /\ r[n].violations = {}
        BY <2>2, <3>2
      <4> QED  BY <4>1, FS_EmptySet
    <3> QED  BY <3>1, <3>2
  <2>4. DOMAIN r = 1..Len(Golden)
    BY <2>1, <2>2
  <2>5. Evaluation(r)
    BY <2>1, <2>3, <2>4, GoldenAssumption DEF Evaluation
  <2> QED  BY <1>2, <2>5 DEF r
<1> QED  BY <1>3, <1>4, RowFields

\* The failed ones of them, in the order they are given.
LEMMA FailuresAre ==
  ASSUME NEW results, Evaluation(results)
  PROVE  LET f == failures(results)
         IN  /\ Len(f) \in Nat /\ DOMAIN f = 1..Len(f)
             /\ \A i \in DOMAIN f : \E n \in Places(results, failed) : f[i] = results[n]
             /\ \A n \in Places(results, failed) : \E i \in DOMAIN f : f[i] = results[n]
             /\ \A i, j \in DOMAIN f : i < j => Rank(f[i].severity) <= Rank(f[j].severity)
<1> PICK L \in Nat : /\ DOMAIN results = 1..L
                     /\ \A n \in 1..L : results[n].severity \in Severities
  BY DEF Evaluation
<1> DEFINE F(severity)  == {n \in DOMAIN results :
                               failed(results[n]) /\ results[n].severity = severity}
           Of(severity) == Sublist(results, F(severity))
           S == {results[n] : n \in 1..L}
           u == Of("high")
           v == Of("medium")
           w == Of("low")
           f == failures(results)
<1>1. f = u \o v \o w
  BY Zenon DEF failures
<1>2. ASSUME NEW severity
      PROVE  /\ Of(severity) \in Seq(S)
             /\ \A k \in DOMAIN Of(severity) : \E n \in F(severity) :
                   Of(severity)[k] = results[n]
             /\ \A n \in F(severity) : \E k \in DOMAIN Of(severity) :
                   Of(severity)[k] = results[n]
  <2>1. IsPlaces(F(severity)) /\ \A n \in F(severity) : results[n] \in S
    BY DEF IsPlaces
  <2> HIDE DEF F, S
  <2> QED  BY <2>1, SublistElements, SublistHas
<1>3. /\ u \in Seq(S) /\ v \in Seq(S) /\ w \in Seq(S)
  BY <1>2
<1>4. /\ Len(u) \in Nat /\ Len(v) \in Nat /\ Len(w) \in Nat
      /\ DOMAIN u = 1..Len(u) /\ DOMAIN v = 1..Len(v) /\ DOMAIN w = 1..Len(w)
  BY <1>3, LenProperties
<1>5. /\ \A k \in 1..Len(u) : \E n \in F("high") : u[k] = results[n]
      /\ \A n \in F("high") : \E k \in 1..Len(u) : u[k] = results[n]
      /\ \A k \in 1..Len(v) : \E n \in F("medium") : v[k] = results[n]
      /\ \A n \in F("medium") : \E k \in 1..Len(v) : v[k] = results[n]
      /\ \A k \in 1..Len(w) : \E n \in F("low") : w[k] = results[n]
      /\ \A n \in F("low") : \E k \in 1..Len(w) : w[k] = results[n]
  <2> HIDE DEF F, Of
  <2>1. /\ \A k \in DOMAIN u : \E n \in F("high") : u[k] = results[n]
        /\ \A n \in F("high") : \E k \in DOMAIN u : u[k] = results[n]
    BY <1>2
  <2>2. /\ \A k \in DOMAIN v : \E n \in F("medium") : v[k] = results[n]
        /\ \A n \in F("medium") : \E k \in DOMAIN v : v[k] = results[n]
    BY <1>2
  <2>3. /\ \A k \in DOMAIN w : \E n \in F("low") : w[k] = results[n]
        /\ \A n \in F("low") : \E k \in DOMAIN w : w[k] = results[n]
    BY <1>2
  <2> HIDE DEF u, v, w
  <2> QED  BY <1>4, <2>1, <2>2, <2>3
<1> HIDE DEF u, v, w, Of, S, f
<1>6. /\ f \in Seq(S) /\ Len(f) = Len(u) + Len(v) + Len(w)
      /\ \A k \in 1..Len(u) : f[k] = u[k]
      /\ \A k \in 1..Len(v) : f[Len(u) + k] = v[k]
      /\ \A k \in 1..Len(w) : f[Len(u) + Len(v) + k] = w[k]
  BY <1>1, <1>3, ThreeLists
<1>7. Len(f) \in Nat /\ DOMAIN f = 1..Len(f)
  BY <1>6, LenProperties
<1>8. ASSUME NEW i \in 1..Len(f)
      PROVE  \/ i <= Len(u) /\ \E n \in F("high") : f[i] = results[n]
             \/ /\ Len(u) < i /\ i <= Len(u) + Len(v)
                /\ \E n \in F("medium") : f[i] = results[n]
             \/ Len(u) + Len(v) < i /\ \E n \in F("low") : f[i] = results[n]
  <2> HIDE DEF F
  <2>1. CASE i <= Len(u)
    <3>1. i \in 1..Len(u)
      BY <1>4, <2>1
    <3>2. f[i] = u[i]
      BY <1>6, <3>1
    <3> QED  BY <1>5, <2>1, <3>1, <3>2
  <2>2. CASE Len(u) < i /\ i <= Len(u) + Len(v)
    <3> DEFINE k == i - Len(u)
    <3>1. k \in 1..Len(v) /\ Len(u) + k = i
      BY <1>4, <2>2
    <3> HIDE DEF k
    <3>2. f[i] = v[k]
      BY <1>6, <3>1
    <3> QED  BY <1>5, <2>2, <3>1, <3>2
  <2>3. CASE Len(u) + Len(v) < i
    <3> DEFINE k == i - (Len(u) + Len(v))
    <3>1. k \in 1..Len(w) /\ Len(u) + Len(v) + k = i
      BY <1>4, <1>6, <2>3
    <3> HIDE DEF k
    <3>2. f[i] = w[k]
      BY <1>6, <3>1
    <3> QED  BY <1>5, <2>3, <3>1, <3>2
  <2> QED  BY <1>4, <1>7, <2>1, <2>2, <2>3
<1>9. \A i \in DOMAIN f : \E n \in Places(results, failed) : f[i] = results[n]
  BY <1>7, <1>8 DEF Places
<1>10. ASSUME NEW n \in Places(results, failed)
       PROVE  \E i \in DOMAIN f : f[i] = results[n]
  <2>1. n \in F("high") \/ n \in F("medium") \/ n \in F("low")
    BY DEF Places, Severities
  <2> HIDE DEF F
  <2>2. CASE n \in F("high")
    <3>1. PICK k \in 1..Len(u) : u[k] = results[n]
      BY <1>5, <2>2
    <3>2. k \in 1..Len(f) /\ f[k] = u[k]
      BY <1>4, <1>6
    <3> QED  BY <1>7, <3>1, <3>2
  <2>3. CASE n \in F("medium")
    <3>1. PICK k \in 1..Len(v) : v[k] = results[n]
      BY <1>5, <2>3
    <3>2. Len(u) + k \in 1..Len(f) /\ f[Len(u) + k] = v[k]
      BY <1>4, <1>6
    <3> QED  BY <1>7, <3>1, <3>2
  <2>4. CASE n \in F("low")
    <3>1. PICK k \in 1..Len(w) : w[k] = results[n]
      BY <1>5, <2>4
    <3>2. Len(u) + Len(v) + k \in 1..Len(f) /\ f[Len(u) + Len(v) + k] = w[k]
      BY <1>4, <1>6
    <3> QED  BY <1>7, <3>1, <3>2
  <2> QED  BY <2>1, <2>2, <2>3, <2>4
<1>11. ASSUME NEW i \in DOMAIN f, NEW j \in DOMAIN f, i < j
       PROVE  Rank(f[i].severity) <= Rank(f[j].severity)
  <2> DEFINE a == Len(u)
             b == Len(u) + Len(v)
  <2>1. /\ Rank("high") = 0 /\ Rank("medium") = 1 /\ Rank("low") = 2
    BY DEF Rank
  <2>2. ASSUME NEW k \in DOMAIN f
        PROVE  \/ k <= a /\ Rank(f[k].severity) = 0
               \/ a < k /\ k <= b /\ Rank(f[k].severity) = 1
               \/ b < k /\ Rank(f[k].severity) = 2
    BY <1>7, <1>8, <2>1
  <2>3. a \in Nat /\ b \in Nat /\ a <= b /\ i \in Nat /\ j \in Nat
    BY <1>4, <1>7
  <2> HIDE DEF a, b
  <2>4. /\ \/ i <= a /\ Rank(f[i].severity) = 0
           \/ a < i /\ i <= b /\ Rank(f[i].severity) = 1
           \/ b < i /\ Rank(f[i].severity) = 2
        /\ \/ j <= a /\ Rank(f[j].severity) = 0
           \/ a < j /\ j <= b /\ Rank(f[j].severity) = 1
           \/ b < j /\ Rank(f[j].severity) = 2
    BY <2>2
  <2> QED  BY <1>11, <2>3, <2>4
<1> QED  BY <1>7, <1>9, <1>10, <1>11 DEF f

\* The rows with a failed rule, by number.
Failing == Places(audited, LAMBDA row : Places(row.results, failed) # {})

\* The three outputs that give the failed rules of each device give those of these rows.
LEMMA FaultsOfTables ==
  ASSUME NEW out, out = [kind |-> "tables", table |-> render_compliance_table(audited),
                         violations |-> render_violations(audited),
                         summary |-> render_compliance_summary(audited)]
  PROVE  /\ DOMAIN Faulted(out) = Failing
         /\ \A n \in Failing : /\ Faulted(out)[n].device = audited[n].device
                               /\ Faulted(out)[n].rules = failures(audited[n].results)
<1>1. IsTables(out) /\ ~IsJson(out) /\ ~IsFile(out) /\ out.violations = render_violations(audited)
  BY DEF IsTables, IsJson, IsFile
<1>2. Faulted(out) = render_violations(audited)
  BY <1>1 DEF Faulted
<1> DEFINE P == {n \in DOMAIN audited : Places(audited[n].results, failed) # {}}
<1>3. Failing = P
  BY DEF Failing, Places
<1> DEFINE G == [n \in P |-> [device |-> audited[n].device,
                             rules |-> failures(audited[n].results)]]
<1>4. render_violations(audited) = G
  BY DEF render_violations, Pick, Places
<1> HIDE DEF P
<1>5. /\ DOMAIN G = P
      /\ \A n \in P : /\ G[n].device = audited[n].device
                      /\ G[n].rules = failures(audited[n].results)
  OBVIOUS
<1> HIDE DEF G
<1>6. Faulted(out) = G
  BY <1>2, <1>4
<1> QED  BY <1>3, <1>5, <1>6

\* A row in error has no failed rule, so that it is in the findings, without any.
LEMMA FaultsOfFiles ==
  ASSUME TypeOK, NEW out, out \in {to_markdown(audited), to_html(audited)}
  PROVE  /\ DOMAIN Faulted(out) = Failing
         /\ \A n \in Failing : /\ Faulted(out)[n].device = audited[n].device
                               /\ Faulted(out)[n].rules = failures(audited[n].results)
<1>1. /\ ~IsTables(out) /\ ~IsJson(out) /\ IsFile(out)
      /\ out.findings = Findings(audited)
  BY DEF IsTables, IsJson, IsFile, to_markdown, to_html
<1> DEFINE Offends(row) == Places(row.results, failed) # {} \/ row.error
           P == {n \in DOMAIN audited : Offends(audited[n])}
           finding(row) == [device |-> row.device, error |-> row.error,
                            rules |-> IF row.error THEN << >> ELSE failures(row.results),
                            source |-> IF row.error THEN 0 ELSE row.source]
<1>2. Findings(audited) = [n \in P |-> finding(audited[n])]
  BY DEF Findings, Pick, Places
<1>3. Faulted(out) = [n \in {m \in DOMAIN out.findings : ~out.findings[m].error}
                         |-> out.findings[n]]
  BY <1>1 DEF Faulted, Pick, Places
<1>4. \A n \in P : /\ out.findings[n].device = audited[n].device
                   /\ out.findings[n].error = audited[n].error
                   /\ ~audited[n].error =>
                         out.findings[n].rules = failures(audited[n].results)
  BY <1>1, <1>2
<1>5. ASSUME NEW n \in DOMAIN audited
      PROVE  n \in P /\ ~audited[n].error <=> n \in Failing
  <2>1. audited[n].error => Places(audited[n].results, failed) = {}
    <3>1. audited[n].error => audited[n].results = << >>
      BY RowsAreEvaluated
    <3>2. Places(<< >>, failed) = {}
      BY DEF Places
    <3> QED  BY <3>1, <3>2
  <2> QED  BY <2>1 DEF Failing, Places
<1>6. Failing \subseteq DOMAIN audited /\ DOMAIN out.findings = P
  BY <1>1, <1>2 DEF Failing, Places
<1> HIDE DEF finding, Offends
<1>7. \A n : n \in DOMAIN out.findings /\ ~out.findings[n].error <=> n \in Failing
  BY <1>4, <1>5, <1>6
<1> HIDE DEF P
<1> QED  BY <1>3, <1>4, <1>5, <1>6, <1>7

\* What is told of an audit gives, of each device with a failed rule, all of these.
LEMMA FaultsAreTold ==
  ASSUME IInv, NEW out \in Told, NEW n \in DOMAIN Faulted(out)
  PROVE  /\ n \in DOMAIN audited
         /\ Faulted(out)[n].device = audited[n].device
         /\ Faulted(out)[n].rules = failures(audited[n].results)
<1>0. TypeOK
  BY DEF IInv
<1>1. Failing \subseteq DOMAIN audited
  BY DEF Failing, Places
<1>2. CASE out = compliance_to_json(audited)
  <2>1. ~IsTables(out) /\ IsJson(out) /\ ~IsFile(out)
    BY <1>2 DEF IsTables, IsJson, IsFile, compliance_to_json
  <2>2. Faulted(out) = << >>
    BY <2>1 DEF Faulted
  <2> QED  BY <2>2
<1>3. CASE out # compliance_to_json(audited)
  <2>1. /\ DOMAIN Faulted(out) = Failing
        /\ \A m \in Failing : /\ Faulted(out)[m].device = audited[m].device
                              /\ Faulted(out)[m].rules = failures(audited[m].results)
    BY <1>0, <1>3, ToldIsOfAll, FaultsOfTables, FaultsOfFiles
  <2> QED  BY <1>1, <2>1
<1> QED  BY <1>2, <1>3

\* All of the failed rules of a device, and the most severe first.
LEMMA InvFaultsAreGiven == IInv => FaultsAreGiven
<1> SUFFICES ASSUME IInv, NEW out \in Told, NEW n \in DOMAIN Faulted(out)
             PROVE  LET fault == Faulted(out)[n]
                        row   == CHOOSE r \in {audited[i] : i \in DOMAIN audited} :
                                    r.device = fault.device
                    IN  /\ {fault.rules[i] : i \in DOMAIN fault.rules}
                              = {row.results[i] : i \in {j \in DOMAIN row.results :
                                                           row.results[j].status = "fail"}}
                        /\ \A i, j \in DOMAIN fault.rules :
                              i < j => Rank(fault.rules[i].severity)
                                          <= Rank(fault.rules[j].severity)
  BY DEF FaultsAreGiven
<1> DEFINE fault == Faulted(out)[n]
           row   == CHOOSE r \in {audited[i] : i \in DOMAIN audited} :
                       r.device = fault.device
           results == audited[n].results
           f == failures(results)
<1>1. n \in DOMAIN audited /\ fault.device = audited[n].device /\ fault.rules = f
  BY FaultsAreTold
<1>2. row = audited[n]
  <2>1. \A i \in DOMAIN audited : audited[i].device = audited[n].device => i = n
    <3>1. /\ DOMAIN audited \subseteq 1..Len(Inventory)
          /\ \A i \in DOMAIN audited : audited[i].device = Inventory[i]
      BY InventoryPlaces, LenProperties DEF IInv, TypeOK, RowsInv
    <3> QED  BY <1>1, <3>1, InventoryPlaces, InventoryAssumption
  <2> HIDE DEF fault
  <2>2. row \in {audited[i] : i \in DOMAIN audited} /\ row.device = fault.device
    BY <1>1
  <2> HIDE DEF row
  <2> QED  BY <1>1, <2>1, <2>2
<1>3. Evaluation(results)
  BY <1>1, RowsAreEvaluated DEF IInv
<1> HIDE DEF fault, row, results, f
<1>4. /\ \A i \in DOMAIN f : \E m \in Places(results, failed) : f[i] = results[m]
      /\ \A m \in Places(results, failed) : \E i \in DOMAIN f : f[i] = results[m]
      /\ \A i, j \in DOMAIN f : i < j => Rank(f[i].severity) <= Rank(f[j].severity)
  BY <1>3, FailuresAre DEF f
<1>5. {f[i] : i \in DOMAIN f}
         = {results[i] : i \in {j \in DOMAIN results : results[j].status = "fail"}}
  <2>1. Places(results, failed) = {j \in DOMAIN results : results[j].status = "fail"}
    BY DEF Places, failed
  <2> QED  BY <1>4, <2>1
<1>6. row.results = results /\ fault.rules = f
  BY <1>1, <1>2 DEF results
<1>7. {fault.rules[i] : i \in DOMAIN fault.rules}
         = {row.results[i] : i \in {j \in DOMAIN row.results :
                                      row.results[j].status = "fail"}}
  <2>1. {fault.rules[i] : i \in DOMAIN fault.rules} = {f[i] : i \in DOMAIN f}
    BY <1>6, Zenon
  <2>2. {row.results[i] : i \in {j \in DOMAIN row.results : row.results[j].status = "fail"}}
           = {results[i] : i \in {j \in DOMAIN results : results[j].status = "fail"}}
    BY <1>6, Zenon
  <2> QED  BY <1>5, <2>1, <2>2, Zenon
<1>8. \A i, j \in DOMAIN fault.rules :
         i < j => Rank(fault.rules[i].severity) <= Rank(fault.rules[j].severity)
  BY <1>4, <1>6
<1> QED  BY <1>7, <1>8, Zenon DEF fault, row

-----------------------------------------------------------------------------
(* The numbers that are given.                                              *)

\* The violations of some rules, and those of the ones of a severity.
Counted(rules)      == Total(Map(rules, LAMBDA r : Cardinality(r.violations)))
CountedAs(rules, s) == Total(Map(rules, LAMBDA r : IF r.severity = s
                                                    THEN Cardinality(r.violations) ELSE 0))

\* What a row gives adds up severity by severity, and is nothing if no rule failed.
LEMMA CountedBySeverity ==
  ASSUME NEW results, Evaluation(results)
  PROVE  LET f == failures(results)
         IN  /\ Counted(f) \in Nat
             /\ \A s : CountedAs(f, s) \in Nat
             /\ Counted(f) = CountedAs(f, "high") + CountedAs(f, "medium") + CountedAs(f, "low")
             /\ Places(results, failed) = {} => Counted(f) = 0
<1> DEFINE f == failures(results)
           S == DOMAIN f
           all == [n \in S |-> Cardinality(f[n].violations)]
           only(s) == [n \in S |-> IF f[n].severity = s THEN Cardinality(f[n].violations)
                                   ELSE 0]
<1>1. /\ Len(f) \in Nat /\ S = 1..Len(f)
      /\ \A i \in S : \E n \in Places(results, failed) : f[i] = results[n]
  BY FailuresAre
<1>2. IsFiniteSet(S)
  BY <1>1, FS_Interval
<1>3. \A n \in S : Cardinality(f[n].violations) \in Nat /\ f[n].severity \in Severities
  <2>1. \A n \in Places(results, failed) : /\ results[n].severity \in Severities
                                           /\ IsFiniteSet(results[n].violations)
    BY DEF Evaluation, Places
  <2> QED  BY <1>1, <2>1, FS_CardinalityType
<1>4. Counted(f) = Total(all) /\ \A s : CountedAs(f, s) = Total(only(s))
  BY DEF Counted, CountedAs, Map
<1> HIDE DEF f, S
<1>5. all \in [S -> Nat] /\ \A s : only(s) \in [S -> Nat]
  BY <1>3
<1>6. \A n \in S : all[n] = only("high")[n] + only("medium")[n] + only("low")[n]
  <2> SUFFICES ASSUME NEW n \in S
               PROVE  all[n] = only("high")[n] + only("medium")[n] + only("low")[n]
    OBVIOUS
  <2>1. f[n].severity \in {"high", "medium", "low"}
    BY <1>3 DEF Severities
  <2> QED  BY <1>3, <2>1
<1> HIDE DEF all, only
<1>7. ThreeSums(S, only("high"), only("medium"), only("low"), all)
  BY <1>2, <1>5, <1>6 DEF ThreeSums
<1>8. Total(all) = Total(only("high")) + Total(only("medium")) + Total(only("low"))
  BY <1>7, TotalOfThreeSums
<1>9. Total(all) \in Nat /\ \A s : Total(only(s)) \in Nat
  BY <1>2, <1>5, TotalType
<1>10. ASSUME Places(results, failed) = {}  PROVE Total(all) = 0
  <2>1. S = {}
    BY <1>1, <1>10
  <2>2. DOMAIN all = S
    BY <1>5
  <2>3. UNION {{n} \X (1..all[n]) : n \in DOMAIN all} = {}
    BY <2>1, <2>2
  <2> QED  BY <2>3, FS_EmptySet DEF Total
<1> QED  BY <1>4, <1>8, <1>9, <1>10 DEF f

\* The violations of each row.
Numbers == [n \in DOMAIN audited |-> Counted(failures(audited[n].results))]

\* They are numbers, of finitely many rows, and none but of those with a failed rule.
LEMMA NumbersType ==
  ASSUME TypeOK
  PROVE  /\ IsFiniteSet(DOMAIN audited) /\ Numbers \in [DOMAIN audited -> Nat]
         /\ Failing \subseteq DOMAIN audited
         /\ \A n \in DOMAIN audited : /\ Numbers[n] = violation_count(audited[n])
                                      /\ Numbers[n] = Counted(failures(audited[n].results))
                                      /\ n \notin Failing => Numbers[n] = 0
<1>1. DOMAIN audited = 1..Len(audited) /\ Len(audited) \in Nat
  BY LenProperties DEF TypeOK
<1>2. IsFiniteSet(DOMAIN audited)
  BY <1>1, FS_Interval
<1>3. ASSUME NEW n \in DOMAIN audited
      PROVE  /\ Counted(failures(audited[n].results)) \in Nat
             /\ n \notin Failing => Counted(failures(audited[n].results)) = 0
             /\ violation_count(audited[n]) = Counted(failures(audited[n].results))
  <2>1. Evaluation(audited[n].results)
    BY RowsAreEvaluated
  <2>2. n \notin Failing => Places(audited[n].results, failed) = {}
    BY DEF Failing, Places
  <2>3. violation_count(audited[n]) = Counted(failures(audited[n].results))
    BY Zenon DEF violation_count, Counted
  <2> QED  BY <2>1, <2>2, <2>3, CountedBySeverity
<1> QED  BY <1>2, <1>3 DEF Numbers, Failing, Places

\* Those that are listed are all of them.
LEMMA ListedIsAll ==
  ASSUME TypeOK, NEW out, DOMAIN Faulted(out) = Failing,
         \A n \in Failing : Faulted(out)[n].rules = failures(audited[n].results)
  PROVE  Listed(out) = Total(Numbers)
<1> DEFINE h == [n \in Failing |-> Counted(Faulted(out)[n].rules)]
<1>1. Listed(out) = Total(h)
  <2>1. Listed(out) = Total([n \in DOMAIN Faulted(out) |-> Counted(Faulted(out)[n].rules)])
    BY Zenon DEF Listed, FoundIn, Counted, Map
  <2> QED  BY <2>1, Zenon
<1>2. DOMAIN h = Failing /\ \A n \in Failing : h[n] = Numbers[n]
  BY NumbersType
<1> HIDE DEF h
<1> QED  BY <1>1, <1>2, NumbersType, TotalExtended

\* A column of them adds up to their sum, and so does what the numbers at the top count.
LEMMA ColumnIsAll ==
  ASSUME TypeOK, NEW lines, DOMAIN lines = DOMAIN audited,
         \A n \in DOMAIN audited : lines[n].violations = violation_count(audited[n])
  PROVE  SumOf(lines) = Total(Numbers)
<1> DEFINE h == [n \in DOMAIN lines |-> lines[n].violations]
<1>1. SumOf(lines) = Total(h)
  BY Zenon DEF SumOf, Map
<1>2. DOMAIN h = DOMAIN Numbers /\ \A n \in DOMAIN h : h[n] = Numbers[n]
  BY NumbersType
<1> HIDE DEF h
<1> QED  BY <1>1, <1>2, TotalExtended

\* The sum that is worked out from the rows.
LEMMA CountIsAll ==
  ASSUME TypeOK  PROVE Total(Map(audited, violation_count)) = Total(Numbers)
<1> DEFINE h == [n \in DOMAIN audited |-> violation_count(audited[n])]
<1>1. Map(audited, violation_count) = h
  BY Zenon DEF Map
<1>2. DOMAIN h = DOMAIN Numbers /\ \A n \in DOMAIN h : h[n] = Numbers[n]
  BY NumbersType
<1> HIDE DEF h
<1> QED  BY <1>1, <1>2, TotalExtended

\* The severities that are shown add up to it: those left out have no violation.
LEMMA BreakdownIsAll ==
  ASSUME TypeOK  PROVE Total(Breakdown(audited)) = Total(Numbers)
<1> DEFINE totals == severity_totals(audited)
           as(s) == [n \in DOMAIN audited |-> CountedAs(failures(audited[n].results), s)]
<1>1. totals = [s \in Severities |-> Total(as(s))]
  BY Zenon DEF severity_totals, CountedAs, Map
<1>2. ASSUME NEW n \in DOMAIN audited
      PROVE  /\ \A s : as(s)[n] \in Nat
             /\ Numbers[n] = as("high")[n] + as("medium")[n] + as("low")[n]
  <2>1. Evaluation(audited[n].results)
    BY RowsAreEvaluated
  <2> DEFINE f == failures(audited[n].results)
  <2>2. /\ \A s : CountedAs(f, s) \in Nat
        /\ Counted(f) = CountedAs(f, "high") + CountedAs(f, "medium") + CountedAs(f, "low")
    BY <2>1, CountedBySeverity
  <2>3. \A s : as(s)[n] = CountedAs(f, s)
    OBVIOUS
  <2> HIDE DEF as, f
  <2>4. Numbers[n] = Counted(f)
    BY NumbersType DEF f
  <2> QED  BY <2>2, <2>3, <2>4
<1>3. \A s : DOMAIN as(s) = DOMAIN audited
  OBVIOUS
<1>4. \A s : as(s) \in [DOMAIN audited -> Nat]
  <2>1. \A n \in DOMAIN audited : \A s : CountedAs(failures(audited[n].results), s) \in Nat
    BY <1>2
  <2> QED  BY <2>1
<1> HIDE DEF as, totals
<1>5. ThreeSums(DOMAIN audited, as("high"), as("medium"), as("low"), Numbers)
  BY <1>2, <1>4, NumbersType DEF ThreeSums
<1>6. Total(Numbers) = Total(as("high")) + Total(as("medium")) + Total(as("low"))
  <2>1. PICK S, f, g, h, k : /\ f = as("high") /\ g = as("medium") /\ h = as("low")
                             /\ S = DOMAIN audited /\ k = Numbers
    OBVIOUS
  <2>2. ThreeSums(S, f, g, h, k)
    BY <1>5, <2>1
  <2>3. Total(k) = Total(f) + Total(g) + Total(h)
    BY <2>2, TotalOfThreeSums
  <2> QED  BY <2>1, <2>3
<1>7. \A s : Total(as(s)) \in Nat
  BY <1>4, NumbersType, TotalType
<1>8. totals \in [{"high", "medium", "low"} -> Nat]
  BY <1>1, <1>7 DEF Severities
<1>9. Total(totals) = totals["high"] + totals["medium"] + totals["low"]
  <2>1. IsOfThree(totals, "high", "medium", "low")
    BY <1>8 DEF IsOfThree
  <2> QED  BY <2>1, TotalOfThree
<1>10. /\ totals["high"] = Total(as("high")) /\ totals["medium"] = Total(as("medium"))
       /\ totals["low"] = Total(as("low"))
  BY <1>1 DEF Severities
<1>11. Total(Breakdown(audited)) = Total(totals)
  <2> DEFINE given == [s \in {t \in Severities : totals[t] # 0} |-> totals[s]]
  <2>1. Breakdown(audited) = given
    BY Zenon DEF Breakdown, totals
  <2>2. /\ DOMAIN given \subseteq DOMAIN totals
        /\ \A s \in DOMAIN given : given[s] = totals[s]
        /\ \A s \in DOMAIN totals \ DOMAIN given : totals[s] = 0
    BY <1>8 DEF Severities
  <2> HIDE DEF given
  <2> QED  BY <2>1, <2>2, TotalExtended
<1> QED  BY <1>6, <1>9, <1>10, <1>11

\* The rows that hold an error.
Erring == Places(audited, HasError)

\* Each row is compliant, holds an error or has a failed rule, and there are as many of
\* these as are left of the rows.
LEMMA RowsAreDivided ==
  ASSUME TypeOK
  PROVE  /\ \A n \in DOMAIN audited :
               /\ n \in Failing => ~audited[n].error
               /\ n \in Failing <=> ~audited[n].error /\ ~compliant(audited[n])
               /\ n \in Erring <=> audited[n].error
         /\ Cardinality(Failing)
            = Len(audited) - Count(audited, compliant) - Count(audited, HasError)
         /\ Cardinality(Erring) = Count(audited, HasError)
<1> DEFINE P == Places(audited, compliant)
           D == DOMAIN audited
<1>1. D = 1..Len(audited) /\ Len(audited) \in Nat
  BY LenProperties DEF TypeOK
<1>2. ASSUME NEW n \in D  PROVE n \in Failing => ~audited[n].error
  <2>1. audited[n].error => audited[n].results = << >>
    BY RowsAreEvaluated
  <2>2. Places(<< >>, failed) = {}
    BY DEF Places
  <2> QED  BY <2>1, <2>2 DEF Failing, Places
<1>3. \A n \in D : n \in Failing <=> ~audited[n].error /\ ~compliant(audited[n])
  BY <1>2 DEF compliant, Failing, Places
<1>4. \A n \in D : n \in Erring <=> audited[n].error
  BY DEF Erring, Places, HasError
<1>5. \A n \in D : n \in P <=> ~audited[n].error /\ n \notin Failing
  BY <1>3 DEF Places, compliant
<1>6. Failing \in SUBSET D /\ Erring \in SUBSET D /\ P \in SUBSET D
  BY DEF Failing, Erring, Places
<1>7. IsFiniteSet(D) /\ Cardinality(D) = Len(audited)
  <2>1. 1 \in Int /\ Len(audited) \in Int /\ (1 > Len(audited) => Len(audited) = 0)
    BY <1>1
  <2>2. /\ IsFiniteSet(1..Len(audited))
        /\ Cardinality(1..Len(audited)) = IF 1 > Len(audited) THEN 0 ELSE Len(audited) - 1 + 1
    BY <2>1, FS_Interval, Zenon
  <2> QED  BY <1>1, <2>1, <2>2
<1> HIDE DEF P, D
<1>8. IsFiniteSet(Failing) /\ IsFiniteSet(Erring) /\ IsFiniteSet(P)
  BY <1>6, <1>7, FS_Subset
<1>9. (P \cup Erring) \cup Failing = D /\ P \cap Erring = {} /\ (P \cup Erring) \cap Failing = {}
  BY <1>2, <1>3, <1>4, <1>5, <1>6
<1>10. /\ IsFiniteSet(P \cup Erring)
       /\ Cardinality(P \cup Erring)
             = Cardinality(P) + Cardinality(Erring) - Cardinality(P \cap Erring)
  BY <1>8, FS_Union
<1>11. Cardinality((P \cup Erring) \cup Failing)
          = Cardinality(P \cup Erring) + Cardinality(Failing)
            - Cardinality((P \cup Erring) \cap Failing)
  BY <1>8, <1>10, FS_Union
<1>12. /\ Cardinality(P) \in Nat /\ Cardinality(Erring) \in Nat /\ Cardinality(Failing) \in Nat
       /\ Cardinality(P \cap Erring) = 0 /\ Cardinality((P \cup Erring) \cap Failing) = 0
  BY <1>8, <1>9, FS_CardinalityType, FS_EmptySet
<1>13. Cardinality((P \cup Erring) \cup Failing) = Len(audited)
  BY <1>7, <1>9, Zenon
<1>14. Cardinality(Failing) = Len(audited) - Cardinality(P) - Cardinality(Erring)
  BY <1>1, <1>10, <1>11, <1>12, <1>13
<1> QED  BY <1>2, <1>3, <1>4, <1>14 DEF P, D, Erring, Count

\* The tables: the lines add up to what is listed, and the summary counts the labels.
LEMMA TablesAddUp ==
  ASSUME IInv,
         NEW out, out = [kind |-> "tables", table |-> render_compliance_table(audited),
                         violations |-> render_violations(audited),
                         summary |-> render_compliance_summary(audited)]
  PROVE  /\ IsTables(out)
         /\ SumOf(out.table) = Listed(out)
         /\ out.summary.failed = Cardinality(In(out.table, LAMBDA l : l.label = "NON-COMPLIANT"))
         /\ out.summary.errors = Cardinality(In(out.table, LAMBDA l : l.label = "ERROR"))
<1>0. TypeOK /\ RowsInv
  BY DEF IInv
<1>1. /\ IsTables(out) /\ out.table = render_compliance_table(audited)
      /\ out.summary = render_compliance_summary(audited)
  BY DEF IsTables
<1>2. /\ DOMAIN out.table = DOMAIN audited
      /\ \A n \in DOMAIN audited :
            /\ out.table[n].device = audited[n].device
            /\ out.table[n].label = status_of(audited[n])
            /\ out.table[n].violations = violation_count(audited[n])
  <2>1. out.table = [n \in DOMAIN audited |-> DeviceLine(audited[n])]
    BY <1>1 DEF render_compliance_table, Map
  <2>2. ASSUME NEW row
        PROVE  /\ DeviceLine(row).device = row.device
               /\ DeviceLine(row).label = status_of(row)
               /\ DeviceLine(row).violations = violation_count(row)
    BY DEF DeviceLine
  <2> QED  BY <2>1, <2>2
<1>3. SumOf(out.table) = Listed(out)
  <2>1. SumOf(out.table) = Total(Numbers)
    BY <1>0, <1>2, ColumnIsAll
  <2>2. /\ DOMAIN Faulted(out) = Failing
        /\ \A n \in Failing : Faulted(out)[n].rules = failures(audited[n].results)
    BY FaultsOfTables
  <2>3. Listed(out) = Total(Numbers)
    BY <1>0, <2>2, ListedIsAll
  <2> QED  BY <2>1, <2>3
<1>4. /\ Failing \in SUBSET DOMAIN audited /\ Erring \in SUBSET DOMAIN audited
      /\ \A n \in DOMAIN audited :
            /\ n \in Failing <=> ~audited[n].error /\ ~compliant(audited[n])
            /\ n \in Erring <=> audited[n].error
      /\ Cardinality(Failing)
            = Len(audited) - Count(audited, compliant) - Count(audited, HasError)
      /\ Cardinality(Erring) = Count(audited, HasError)
  BY <1>0, RowsAreDivided DEF Failing, Erring, Places
<1>5. In(out.table, LAMBDA l : l.label = "NON-COMPLIANT") = {audited[n].device : n \in Failing}
  <2>1. \A n \in DOMAIN audited : out.table[n].label = "NON-COMPLIANT" <=> n \in Failing
    BY <1>2, <1>4 DEF status_of
  <2> QED  BY <1>2, <1>4, <2>1 DEF In, Places
<1>6. In(out.table, LAMBDA l : l.label = "ERROR") = {audited[n].device : n \in Erring}
  <2>1. \A n \in DOMAIN audited : out.table[n].label = "ERROR" <=> n \in Erring
    BY <1>2, <1>4 DEF status_of
  <2> QED  BY <1>2, <1>4, <2>1 DEF In, Places
<1>7. /\ out.summary.failed = Len(audited) - Count(audited, compliant) - Count(audited, HasError)
      /\ out.summary.errors = Count(audited, HasError)
  BY <1>1 DEF render_compliance_summary
<1>8. /\ Cardinality({audited[n].device : n \in Failing}) = Cardinality(Failing)
      /\ Cardinality({audited[n].device : n \in Erring}) = Cardinality(Erring)
  BY <1>0, <1>4, DevicesOfRows
<1>9. out.summary.failed = Cardinality(In(out.table, LAMBDA l : l.label = "NON-COMPLIANT"))
  BY <1>4, <1>5, <1>7, <1>8, Zenon
<1>10. out.summary.errors = Cardinality(In(out.table, LAMBDA l : l.label = "ERROR"))
  BY <1>4, <1>6, <1>7, <1>8, Zenon
<1> QED  BY <1>1, <1>3, <1>9, <1>10

\* The JSON: so do its devices, and the others have rules that failed, or an error.
LEMMA JsonAddsUp ==
  ASSUME IInv, NEW out, out = compliance_to_json(audited)
  PROVE  /\ ~IsTables(out) /\ IsJson(out)
         /\ SumOf(out.devices) = out.violations
         /\ out.non_compliant - out.errors
               = Cardinality(In(out.devices, LAMBDA d : d.rules_failed > 0))
<1>0. TypeOK /\ RowsInv
  BY DEF IInv
<1>1. /\ ~IsTables(out) /\ IsJson(out)
      /\ out.devices = Map(audited, to_dict)
      /\ out.violations = Total(Map(audited, violation_count))
      /\ out.non_compliant = Len(audited) - Count(audited, compliant)
      /\ out.errors = Count(audited, HasError)
  BY DEF IsTables, IsJson, compliance_to_json
<1>2. /\ DOMAIN out.devices = DOMAIN audited
      /\ \A n \in DOMAIN audited :
            /\ out.devices[n].device = audited[n].device
            /\ out.devices[n].violations = violation_count(audited[n])
            /\ out.devices[n].rules_failed = Count(audited[n].results, failed)
  <2>1. out.devices = [n \in DOMAIN audited |-> to_dict(audited[n])]
    BY <1>1 DEF Map
  <2>2. ASSUME NEW row
        PROVE  /\ to_dict(row).device = row.device
               /\ to_dict(row).violations = violation_count(row)
               /\ to_dict(row).rules_failed = Count(row.results, failed)
    BY DEF to_dict
  <2> QED  BY <2>1, <2>2
<1>3. SumOf(out.devices) = out.violations
  BY <1>0, <1>1, <1>2, ColumnIsAll, CountIsAll
<1>4. \A n \in DOMAIN audited : out.devices[n].rules_failed > 0 <=> n \in Failing
  <2> SUFFICES ASSUME NEW n \in DOMAIN audited
               PROVE  Count(audited[n].results, failed) > 0 <=> n \in Failing
    BY <1>2
  <2> DEFINE P == Places(audited[n].results, failed)
  <2>1. PICK L \in Nat : DOMAIN audited[n].results = 1..L
    BY <1>0, RowsAreEvaluated DEF Evaluation
  <2>2. P \in SUBSET (1..L) /\ IsFiniteSet(1..L)
    BY <2>1, FS_Interval DEF Places
  <2>3. n \in Failing <=> P # {}
    BY DEF Failing, Places
  <2>4. Count(audited[n].results, failed) = Cardinality(P)
    BY DEF Count
  <2> HIDE DEF P
  <2>5. IsFiniteSet(P)
    BY <2>2, FS_Subset
  <2>6. Cardinality(P) \in Nat /\ (Cardinality(P) = 0 <=> P = {})
    BY <2>5, FS_CardinalityType, FS_EmptySet
  <2> QED  BY <2>3, <2>4, <2>6
<1>5. Failing \in SUBSET DOMAIN audited
  BY DEF Failing, Places
<1>6. In(out.devices, LAMBDA d : d.rules_failed > 0) = {audited[n].device : n \in Failing}
  BY <1>2, <1>4, <1>5 DEF In, Places
<1>7. Cardinality({audited[n].device : n \in Failing}) = Cardinality(Failing)
  BY <1>0, <1>5, DevicesOfRows
<1>8. out.non_compliant - out.errors = Cardinality(Failing)
  BY <1>0, <1>1, RowsAreDivided
<1>9. out.non_compliant - out.errors
         = Cardinality(In(out.devices, LAMBDA d : d.rules_failed > 0))
  BY <1>6, <1>7, <1>8, Zenon
<1> QED  BY <1>1, <1>3, <1>9

\* The files: and so do the severities, and the number at the top.
LEMMA FilesAddUp ==
  ASSUME TypeOK, NEW out, out \in {to_markdown(audited), to_html(audited)}
  PROVE  /\ ~IsTables(out) /\ ~IsJson(out) /\ IsFile(out)
         /\ SumOf(out.devices) = Listed(out)
         /\ out.numbers.Violations = Listed(out)
         /\ Total(out.severities) = Listed(out)
<1>1. /\ ~IsTables(out) /\ ~IsJson(out) /\ IsFile(out)
      /\ out.numbers.Violations = Total(Map(audited, violation_count))
      /\ out.severities = Breakdown(audited)
      /\ out.devices = Map(audited, DeviceLine)
  BY FilesHave
<1>2. /\ DOMAIN out.devices = DOMAIN audited
      /\ \A n \in DOMAIN audited : out.devices[n].violations = violation_count(audited[n])
  <2>1. out.devices = [n \in DOMAIN audited |-> DeviceLine(audited[n])]
    BY <1>1 DEF Map
  <2>2. ASSUME NEW row  PROVE DeviceLine(row).violations = violation_count(row)
    BY DEF DeviceLine
  <2> QED  BY <2>1, <2>2
<1>3. SumOf(out.devices) = Total(Numbers)
  BY <1>2, ColumnIsAll
<1>4. Listed(out) = Total(Numbers)
  <2>1. /\ DOMAIN Faulted(out) = Failing
        /\ \A n \in Failing : Faulted(out)[n].rules = failures(audited[n].results)
    BY FaultsOfFiles
  <2> QED  BY <2>1, ListedIsAll
<1>5. Total(out.severities) = Total(Numbers)
  BY <1>1, BreakdownIsAll
<1>6. out.numbers.Violations = Total(Numbers)
  BY <1>1, CountIsAll
<1> QED  BY <1>1, <1>3, <1>4, <1>5, <1>6

\* Each sum is that of its parts, in whatever was told.
LEMMA InvNumbersAddUp == IInv => NumbersAddUp
<1> SUFFICES ASSUME IInv, NEW out \in Told
    PROVE  CASE IsTables(out) ->
                  /\ SumOf(out.table) = Listed(out)
                  /\ out.summary.failed
                        = Cardinality(In(out.table, LAMBDA l : l.label = "NON-COMPLIANT"))
                  /\ out.summary.errors
                        = Cardinality(In(out.table, LAMBDA l : l.label = "ERROR"))
             [] IsJson(out) ->
                  /\ SumOf(out.devices) = out.violations
                  /\ out.non_compliant - out.errors
                        = Cardinality(In(out.devices, LAMBDA d : d.rules_failed > 0))
             [] IsFile(out) ->
                  /\ SumOf(out.devices) = Listed(out)
                  /\ out.numbers.Violations = Listed(out)
                  /\ Total(out.severities) = Listed(out)
  BY DEF NumbersAddUp
<1>1. CASE out \in {to_markdown(audited), to_html(audited)}
  <2>1. /\ ~IsTables(out) /\ ~IsJson(out) /\ IsFile(out)
        /\ SumOf(out.devices) = Listed(out)
        /\ out.numbers.Violations = Listed(out)
        /\ Total(out.severities) = Listed(out)
    BY <1>1, FilesAddUp DEF IInv
  <2> QED  BY <2>1
<1>2. CASE out = compliance_to_json(audited)
  <2>1. /\ ~IsTables(out) /\ IsJson(out) /\ ~IsFile(out)
        /\ SumOf(out.devices) = out.violations
        /\ out.non_compliant - out.errors
              = Cardinality(In(out.devices, LAMBDA d : d.rules_failed > 0))
    BY <1>2, JsonAddsUp DEF IsFile, compliance_to_json
  <2> QED  BY <2>1
<1>3. CASE out = [kind |-> "tables", table |-> render_compliance_table(audited),
                  violations |-> render_violations(audited),
                  summary |-> render_compliance_summary(audited)]
  <2>1. /\ IsTables(out) /\ ~IsJson(out) /\ ~IsFile(out)
        /\ SumOf(out.table) = Listed(out)
        /\ out.summary.failed = Cardinality(In(out.table, LAMBDA l : l.label = "NON-COMPLIANT"))
        /\ out.summary.errors = Cardinality(In(out.table, LAMBDA l : l.label = "ERROR"))
    BY <1>3, TablesAddUp DEF IsJson, IsFile
  <2> QED  BY <2>1
<1> QED  BY <1>1, <1>2, <1>3, ToldIsOfAll

\* One audit has one result: the tables, the JSON, a report file and the exit code are of
\* the same devices, rules and numbers.
THEOREM OutputsTheorem == Spec => []OutputsAgree
<1>1. IInv => OutputsAgree
  BY InvVerdictsAgree, InvFaultsAreGiven, InvNumbersAddUp DEF OutputsAgree
<1> QED  BY <1>1, Invariance, PTL
=============================================================================
