----------------------------- MODULE Collection -----------------------------
(***************************************************************************)
(* What a collection run promises, with no threads, no queue and no retry   *)
(* in it: a device is talked to by at most MaxSessions sessions of the run  *)
(* at a time, it gets one verdict, which never changes and is never given   *)
(* while the device is being talked to, and the run either returns one      *)
(* verdict per device, in inventory order, or gives up with no report at    *)
(* all; in both cases it leaves no session behind.                          *)
(* netauditor/runner.py:1-6,34-42 and netauditor/connect.py:179-184.        *)
(***************************************************************************)
EXTENDS Naturals, Sequences, FiniteSets

CONSTANTS Inventory,    \* the devices, in the order of inventory.yaml
          MaxSessions,  \* the number of sessions the run may hold open
          Verdicts,     \* what may be said of a device
          Undecided     \* what is said of it until then, not one of Verdicts

VARIABLES verdict,      \* [device -> Verdicts or Undecided]
          talking,      \* the devices a session is open to
          fate,         \* "running", "returned" or "gave_up"
          report        \* the list handed to the caller

vars == <<verdict, talking, fate, report>>

Devices == {Inventory[i] : i \in DOMAIN Inventory}

Init == /\ verdict = [d \in Devices |-> Undecided]
        /\ talking = {}
        /\ fate = "running"
        /\ report = << >>

Talk(d) == /\ fate = "running"
           /\ verdict[d] = Undecided
           /\ d \notin talking
           /\ Cardinality(talking) < MaxSessions
           /\ talking' = talking \cup {d}
           /\ UNCHANGED <<verdict, fate, report>>

HangUp(d) == /\ d \in talking
             /\ talking' = talking \ {d}
             /\ UNCHANGED <<verdict, fate, report>>

Decide(d) == /\ fate = "running"
             /\ verdict[d] = Undecided
             /\ d \notin talking
             /\ verdict'[d] \in Verdicts
             /\ verdict' = [verdict EXCEPT ![d] = verdict'[d]]
             /\ UNCHANGED <<talking, fate, report>>

Return == /\ fate = "running"
          /\ talking = {}
          /\ \A d \in Devices : verdict[d] \in Verdicts
          /\ fate' = "returned"
          /\ report' = [i \in DOMAIN Inventory |-> verdict[Inventory[i]]]
          /\ UNCHANGED <<verdict, talking>>

GiveUp == /\ fate = "running"
          /\ talking = {}
          /\ fate' = "gave_up"
          /\ UNCHANGED <<verdict, talking, report>>

Next == \/ \E d \in Devices : Talk(d) \/ HangUp(d) \/ Decide(d)
        \/ Return
        \/ GiveUp

Spec == Init /\ [][Next]_vars
=============================================================================
