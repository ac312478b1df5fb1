--------------------------- MODULE CollectorProofs ---------------------------
(***************************************************************************)
(* Proofs about Collector, for any inventory, pool and number of attempts.  *)
(***************************************************************************)
EXTENDS Collector, FiniteSetTheorems, SequenceTheorems, TLAPS

-----------------------------------------------------------------------------
(* The taxonomy gives every exception a status.                             *)

\* The last isinstance test is the fall-back: it takes every exception.
LEMMA LastHandlerApplies ==
  \A k \in ExceptionKinds : Handles(Handlers[10], k)
BY DEF Handles, Handlers, Handler, ExceptionKinds, mro

\* Every outcome of the tests is a status of DeviceStatus.
LEMMA HandlerStatus == /\ DOMAIN Handlers = 1..10
                       /\ \A i \in 1..10 : Handlers[i].status \in DeviceStatus
<1>1. DOMAIN Handlers = 1..10
  BY DEF Handlers
<1>2. /\ Handlers[1].status = "auth_failed"
      /\ Handlers[2].status = "unreachable"
      /\ Handlers[3].status = "timeout"
      /\ Handlers[4].status = "command_failed"
      /\ Handlers[5].status = "unreachable"
  BY DEF Handlers, Handler
<1>3. /\ Handlers[6].status = "timeout"
      /\ Handlers[7].status = "unreachable"
      /\ Handlers[8].status = "error"
      /\ Handlers[9].status = "config_error"
      /\ Handlers[10].status = "error"
  BY DEF Handlers, Handler
<1>4. \A i \in 1..10 : \/ i = 1 \/ i = 2 \/ i = 3 \/ i = 4 \/ i = 5
                        \/ i = 6 \/ i = 7 \/ i = 8 \/ i = 9 \/ i = 10
  OBVIOUS
<1>5. \A i \in 1..10 : Handlers[i].status \in DeviceStatus
  <2> SUFFICES ASSUME NEW i \in 1..10  PROVE Handlers[i].status \in DeviceStatus
    OBVIOUS
  <2>1. \/ i = 1 \/ i = 2 \/ i = 3 \/ i = 4 \/ i = 5
        \/ i = 6 \/ i = 7 \/ i = 8 \/ i = 9 \/ i = 10
    BY <1>4
  <2> QED  BY <2>1, <1>2, <1>3 DEF DeviceStatus
<1> QED  BY <1>1, <1>5

\* Whatever exception a session raises, classify_exception answers with a status.
LEMMA ClassifyType ==
  \A k \in ExceptionKinds : classify_exception(k) \in DeviceStatus
<1> SUFFICES ASSUME NEW k \in ExceptionKinds
             PROVE  classify_exception(k) \in DeviceStatus
  OBVIOUS
<1> DEFINE applies == {i \in DOMAIN Handlers : Handles(Handlers[i], k)}
<1>1. applies \subseteq 1..10 /\ 10 \in applies
  BY LastHandlerApplies, HandlerStatus
<1>2. \E i \in applies : \A j \in applies : i <= j
  <2> HIDE DEF applies
  <2> QED  BY <1>1
<1>3. (CHOOSE i \in applies : \A j \in applies : i <= j) \in applies
  <2> HIDE DEF applies
  <2> QED  BY <1>2
<1> QED  BY <1>1, <1>3, HandlerStatus DEF classify_exception

-----------------------------------------------------------------------------
(* Constants, sets of devices, statuses.                                    *)

\* What the assumptions give: at least one attempt, thread and device.
LEMMA Constants == /\ Attempts \in Nat \ {0}
                   /\ PoolSize \in Nat \ {0}
                   /\ Len(Inventory) \in Nat \ {0}
                   /\ DOMAIN Inventory = 1..Len(Inventory)
                   /\ \A i \in DOMAIN Inventory : Inventory[i] \in Devices
                   /\ \A d \in Devices : \E i \in DOMAIN Inventory : Inventory[i] = d
<1>1. Len(Inventory) \in Nat \ {0} /\ DOMAIN Inventory = 1..Len(Inventory)
  BY InventoryAssumption, EmptySeq
<1> QED
  BY <1>1, OptionsAssumption DEF Attempts, PoolSize, AtLeastOne, Devices

\* There are finitely many devices, so sessions can be counted.
LEMMA DevicesFinite == IsFiniteSet(Devices)
<1> DEFINE f == [i \in 1..Len(Inventory) |-> Inventory[i]]
<1>1. f \in Surjection(1..Len(Inventory), Devices)
  BY Constants DEF Surjection
<1>2. IsFiniteSet(1..Len(Inventory))
  BY FS_Interval, Constants
<1> QED  BY <1>1, <1>2, FS_Surjection

\* A verdict is neither of the two marks of a future without a result.
LEMMA VerdictMarks == /\ Pending \notin Verdicts
                      /\ Raised \notin Verdicts
                      /\ Pending # Raised
<1>1. \A v \in Verdicts : v.status \in DeviceStatus
  BY DEF Verdicts
<1>2. Pending.status = "pending" /\ Raised.status = "raised"
  BY DEF Pending, Raised
<1> QED  BY <1>1, <1>2 DEF DeviceStatus

\* An exception is told from the absence of one, and is classified.
LEMMA RaisedType == \A e \in Exceptions : e # NoException /\ e \in ExceptionKinds
BY EnvironmentAssumption DEF ExceptionKinds, NoException

-----------------------------------------------------------------------------
(* IInv is inductive.                                                       *)

\* The invariant holds when run() begins.
LEMMA InitInv == Init => IInv
<1> SUFFICES ASSUME Init  PROVE IInv
  OBVIOUS
<1>1. TypeOK
  BY Constants DEF Init, TypeOK, Exited, Busy, Talking
<1>2. PoolInv
  <2>1. Running = {}
    BY DEF Init, Running, Busy, Talking
  <2> QED  BY <2>1, FS_EmptySet, Constants DEF PoolInv
<1>3. AttemptInv /\ SessionInv /\ FutureInv
  BY DEF Init, AttemptInv, SessionInv, FutureInv, Talking
<1>4. SubmitInv /\ ResultInv
  BY Constants DEF Init, SubmitInv, ResultInv
<1> QED  BY <1>1, <1>2, <1>3, <1>4 DEF IInv

\* A step in which no task starts leaves the pool within its size.
LEMMA PoolStep == ASSUME PoolInv, Running' \subseteq Running
                  PROVE  PoolInv'
<1>1. IsFiniteSet(Running)
  BY DevicesFinite, FS_Subset DEF Running
<1>2. /\ IsFiniteSet(Running')
      /\ Cardinality(Running') <= Cardinality(Running)
  BY <1>1, FS_Subset
<1>3. Cardinality(Running) \in Nat /\ Cardinality(Running') \in Nat
  BY <1>1, <1>2, FS_CardinalityType
<1>4. PoolSize' = PoolSize
  BY DEF PoolSize
<1> QED  BY <1>2, <1>3, <1>4, Constants DEF PoolInv

\* The steps of the main thread.
LEMMA MainStep == IInv /\ (MainThread \/ Interrupt) => IInv'
<1> SUFFICES ASSUME IInv, MainThread \/ Interrupt  PROVE IInv'
  OBVIOUS
<1> USE DEF IInv
<1>1. CASE Submit
  <2>n. Len(Inventory) \in Nat /\ DOMAIN Inventory = 1..Len(Inventory)
    BY Constants
  <2>a. /\ submitted \in Nat /\ submitted < Len(Inventory)
        /\ submitted' = submitted + 1
    <3>1. submitted \in 0..Len(Inventory)
      BY DEF TypeOK
    <3>2. submitted \in Nat
      BY <2>n, <3>1
    <3>3. submitted < Len(Inventory) /\ submitted' = submitted + 1
      BY <1>1 DEF Submit
    <3> QED  BY <3>2, <3>3
  <2>0. submitted + 1 \in DOMAIN Inventory /\ Inventory[submitted + 1] \in Devices
    BY <2>a, Constants
  <2>b. phase' \in [Devices -> {"new", "queued", "done"} \cup Busy]
    BY <1>1 DEF Submit, TypeOK
  <2>c. submitted' \in 0..Len(Inventory)
    BY <2>n, <2>a
  <2>1. TypeOK'
    BY <1>1, <2>b, <2>c DEF Submit, TypeOK
  <2>2. phase[Inventory[submitted + 1]] = "new"
    <3>1. \A i \in DOMAIN Inventory : phase[Inventory[i]] = "new" <=> i > submitted
      BY DEF SubmitInv
    <3>2. submitted + 1 > submitted
      BY <2>a
    <3> QED  BY <2>0, <3>1, <3>2
  <2>3. PoolInv'
    BY <1>1, <2>2, PoolStep DEF Submit, Running, Busy, Talking, TypeOK
  <2>4. AttemptInv' /\ SessionInv' /\ FutureInv'
    BY <1>1, <2>0, <2>2 DEF Submit, AttemptInv, SessionInv, FutureInv, TypeOK, Talking
  <2>5. SubmitInv'
    <3>1. \A i \in DOMAIN Inventory : phase'[Inventory[i]] = "new" <=> i > submitted'
      <4> SUFFICES ASSUME NEW i \in DOMAIN Inventory
                   PROVE  phase'[Inventory[i]] = "new" <=> i > submitted'
        OBVIOUS
      <4>1. phase'[Inventory[i]] = IF i = submitted + 1 THEN "queued" ELSE phase[Inventory[i]]
        BY <1>1, <2>0, InventoryAssumption, Constants DEF Submit, TypeOK
      <4>2. i \in Int
        BY <2>n
      <4>3. phase[Inventory[i]] = "new" <=> i > submitted
        BY DEF SubmitInv
      <4> QED  BY <4>1, <4>2, <4>3, <2>a
    <3> QED  BY <1>1, <3>1 DEF Submit, SubmitInv
  <2>6. ResultInv'
    BY <1>1, <2>2 DEF Submit, ResultInv, TypeOK
  <2> QED  BY <2>1, <2>3, <2>4, <2>5, <2>6
<1>2. ASSUME NEW d \in Devices, Yield(d)  PROVE IInv'
  <2>1. TypeOK'
    BY <1>2 DEF Yield, TypeOK, task
  <2>2. PoolInv'
    BY <1>2, PoolStep DEF Yield, Running, task
  <2>3. AttemptInv' /\ SessionInv' /\ FutureInv' /\ SubmitInv'
    BY <1>2 DEF Yield, AttemptInv, SessionInv, FutureInv, SubmitInv, task
  <2>4. ResultInv'
    BY <1>2 DEF Yield, ResultInv, task
  <2> QED  BY <2>1, <2>2, <2>3, <2>4
<1>3. CASE Return
  <2>1. \A d \in Devices : future[d] \in Verdicts
    BY <1>3 DEF Return, ResultInv, FutureInv, TypeOK
  <2>2. report' \in Seq(Verdicts)
    BY <1>3, <2>1, Constants DEF Return
  <2>3. TypeOK'
    BY <1>3, <2>2 DEF Return, TypeOK, task, Exited
  <2>4. PoolInv'
    BY <1>3, PoolStep DEF Return, Running, task
  <2>5. AttemptInv' /\ SessionInv' /\ FutureInv' /\ SubmitInv' /\ ResultInv'
    BY <1>3 DEF Return, AttemptInv, SessionInv, FutureInv, SubmitInv, ResultInv, task
  <2> QED  BY <2>3, <2>4, <2>5
<1>4. CASE Leave
  <2>1. TypeOK'
    BY <1>4 DEF Leave, TypeOK, task, Exited
  <2>2. PoolInv'
    BY <1>4, PoolStep DEF Leave, Running, task
  <2>3. AttemptInv' /\ SessionInv' /\ FutureInv' /\ SubmitInv' /\ ResultInv'
    BY <1>4 DEF Leave, AttemptInv, SessionInv, FutureInv, SubmitInv, ResultInv,
                Drained, task
  <2> QED  BY <2>1, <2>2, <2>3
<1>5. CASE Interrupt
  <2>1. TypeOK'
    BY <1>5 DEF Interrupt, TypeOK, task
  <2>2. PoolInv'
    BY <1>5, PoolStep DEF Interrupt, Running, task
  <2>3. AttemptInv' /\ SessionInv' /\ FutureInv' /\ SubmitInv' /\ ResultInv'
    BY <1>5 DEF Interrupt, AttemptInv, SessionInv, FutureInv, SubmitInv, ResultInv, task
  <2> QED  BY <2>1, <2>2, <2>3
<1> QED  BY <1>1, <1>2, <1>3, <1>4, <1>5 DEF MainThread

\* A task that takes a step keeps its place in the pool, or gives it up.
LEMMA StaysRunning ==
  ASSUME NEW d \in Devices, TypeOK, PoolInv, phase[d] \in Busy,
         NEW to, phase' = [phase EXCEPT ![d] = to]
  PROVE  PoolInv'
<1>1. Running' \subseteq Running
  BY DEF Running, TypeOK
<1> QED  BY <1>1, PoolStep

\* Start takes a place of the pool, and there is one.
LEMMA StartPool ==
  ASSUME NEW d \in Devices, TypeOK, Start(d)
  PROVE  PoolInv'
<1>1. Running' = Running \cup {d} /\ d \notin Running
  BY DEF Start, Running, TypeOK, Busy, Talking
<1>2. IsFiniteSet(Running)
  BY DevicesFinite, FS_Subset DEF Running
<1>3. Cardinality(Running') = Cardinality(Running) + 1 /\ Cardinality(Running) \in Nat
  BY <1>1, <1>2, FS_AddElement, FS_CardinalityType
<1>4. Cardinality(Running) < PoolSize
  BY DEF Start
<1>5. PoolSize' = PoolSize
  BY DEF PoolSize
<1> QED  BY <1>3, <1>4, <1>5, Constants DEF PoolInv

\* SubmitInv and ResultInv only look at whether a task is new, and at whether
\* it is done: a step of a busy task disturbs neither.
LEMMA MainUndisturbed ==
  ASSUME NEW d \in Devices, TypeOK, FutureInv, SubmitInv, ResultInv,
         phase[d] \notin {"new", "done"},
         NEW to, to # "new", phase' = [phase EXCEPT ![d] = to],
         \A e \in Devices \ {d} : future'[e] = future[e],
         UNCHANGED <<main, submitted, results, report>>
  PROVE  SubmitInv' /\ ResultInv'
<1>1. \A e \in Devices : phase'[e] = IF e = d THEN to ELSE phase[e]
  BY DEF TypeOK
<1>2. SubmitInv'
  BY <1>1, Constants DEF SubmitInv
<1>3. d \notin results
  BY DEF ResultInv
<1>4. results \subseteq Devices
  BY DEF TypeOK
<1>5. Drained => Drained'
  BY <1>1 DEF Drained
<1>6. ResultInv'
  BY <1>1, <1>3, <1>4, <1>5 DEF ResultInv
<1> QED  BY <1>2, <1>6

\* The future a session ends with when the SSH layer succeeded is a verdict.
LEMMA EvaluateVerdict ==
  ASSUME NEW d \in Devices, IInv, Evaluate(d)
  PROVE  future'[d] \in Verdicts /\ future' = [future EXCEPT ![d] = future'[d]]
BY DEF IInv, Evaluate, Verdict, Verdicts, TypeOK, DeviceStatus

\* So is the one of a failed attempt that is not retried, unless the sleep raises.
LEMMA ClassifyVerdict ==
  ASSUME NEW d \in Devices, IInv, Classify(d)
  PROVE  \/ /\ phase' = [phase EXCEPT ![d] = "sleep"] /\ UNCHANGED future
            /\ attempt[d] < Attempts
         \/ /\ phase' = [phase EXCEPT ![d] = "done"]
            /\ \/ future' = [future EXCEPT ![d] = Raised]
               \/ /\ future'[d] \in Verdicts
                  /\ future' = [future EXCEPT ![d] = future'[d]]
<1> USE DEF IInv
<1>1. classify_exception(raised[d]) \in DeviceStatus
  BY ClassifyType, RaisedType DEF Classify, AttemptInv, TypeOK
<1>2. Verdict(d, classify_exception(raised[d]), << >>) \in Verdicts
  BY <1>1 DEF Verdict, Verdicts, TypeOK
<1>3. CASE MayRetry(d) /\ RetryDelay >= 0
  <2>1. attempt[d] < Attempts
    BY <1>3 DEF MayRetry
  <2> QED  BY <1>3, <2>1, OptionsAssumption DEF Classify
<1>4. CASE MayRetry(d) /\ RetryDelay < 0
  BY <1>4, OptionsAssumption DEF Classify
<1>5. CASE ~MayRetry(d)
  BY <1>2, <1>5 DEF Classify, TypeOK
<1> QED  BY <1>3, <1>4, <1>5, OptionsAssumption

\* The steps of a pool thread, one by one.
LEMMA TaskStep == ASSUME NEW d \in Devices, IInv, Start(d) \/ Converse(d)
                  PROVE  IInv'
<1> USE DEF IInv
<1>1. CASE Start(d)
  <2>1. TypeOK'
    BY <1>1 DEF Start, TypeOK, Busy
  <2>2. AttemptInv' /\ SessionInv' /\ FutureInv'
    BY <1>1 DEF Start, AttemptInv, SessionInv, FutureInv, TypeOK, Talking
  <2>3. SubmitInv' /\ ResultInv'
    BY <1>1, MainUndisturbed DEF Start
  <2> QED  BY <1>1, <2>1, <2>2, <2>3, StartPool
<1>2. CASE Connect(d)
  <2>1. TypeOK'
    BY <1>2 DEF Connect, Move, Raise, TypeOK, Busy, Talking
  <2>2. AttemptInv' /\ SessionInv' /\ FutureInv'
    BY <1>2, RaisedType DEF Connect, Move, Raise, AttemptInv, SessionInv, FutureInv,
                            TypeOK, Talking
  <2>3. PoolInv'
    BY <1>2, StaysRunning DEF Connect, Move, Busy
  <2>4. SubmitInv' /\ ResultInv'
    BY <1>2, MainUndisturbed DEF Connect, Move
  <2> QED  BY <2>1, <2>2, <2>3, <2>4
<1>3. CASE EnterEnable(d)
  <2>1. TypeOK'
    BY <1>3 DEF EnterEnable, Move, Raise, TypeOK, Busy, Talking
  <2>2. AttemptInv' /\ SessionInv' /\ FutureInv'
    BY <1>3, RaisedType DEF EnterEnable, Move, Raise, AttemptInv, SessionInv,
                            FutureInv, TypeOK, Talking
  <2>3. PoolInv'
    BY <1>3, StaysRunning DEF EnterEnable, Move, Busy, Talking
  <2>4. SubmitInv' /\ ResultInv'
    BY <1>3, MainUndisturbed DEF EnterEnable, Move
  <2> QED  BY <2>1, <2>2, <2>3, <2>4
<1>4. CASE Send(d)
  <2>1. TypeOK'
    <3>1. /\ outputs' \in [Devices -> Seq(Answers)]
          /\ raised' \in [Devices -> Exceptions \cup {NoException}]
      <4>1. outputs \in [Devices -> Seq(Answers)] /\ attempt[d] \in 1..Attempts
        BY DEF TypeOK
      <4>2. \A r \in Replies : [attempt |-> attempt[d], reply |-> r] \in Answers
        BY <4>1 DEF Answers
      <4>3. \A r \in Replies :
              Append(outputs[d], [attempt |-> attempt[d], reply |-> r]) \in Seq(Answers)
        BY <4>1, <4>2
      <4>4. CASE outputs' = outputs
        BY <1>4, <4>1, <4>4 DEF Send, Raise, TypeOK
      <4>5. CASE outputs' # outputs
        BY <1>4, <4>1, <4>3, <4>5 DEF Send, TypeOK
      <4> QED  BY <4>4, <4>5
    <3>2. phase' \in [Devices -> {"new", "queued", "done"} \cup Busy]
      BY <1>4 DEF Send, Move, TypeOK, Busy, Talking
    <3> QED  BY <1>4, <3>1, <3>2 DEF Send, Move, TypeOK
  <2>2. AttemptInv' /\ SessionInv' /\ FutureInv'
    BY <1>4, RaisedType DEF Send, Move, Raise, AttemptInv, SessionInv, FutureInv,
                            TypeOK, Talking
  <2>3. PoolInv'
    BY <1>4, StaysRunning DEF Send, Move, Busy, Talking
  <2>4. SubmitInv' /\ ResultInv'
    BY <1>4, MainUndisturbed DEF Send, Move
  <2> QED  BY <2>1, <2>2, <2>3, <2>4
<1>5. CASE Close(d)
  <2>1. TypeOK'
    BY <1>5 DEF Close, Move, TypeOK, Busy
  <2>2. AttemptInv' /\ SessionInv' /\ FutureInv'
    BY <1>5 DEF Close, Move, AttemptInv, SessionInv, FutureInv, TypeOK, Talking
  <2>3. PoolInv'
    BY <1>5, StaysRunning DEF Close, Move, Busy, Talking
  <2>4. SubmitInv' /\ ResultInv'
    BY <1>5, MainUndisturbed DEF Close, Move
  <2> QED  BY <2>1, <2>2, <2>3, <2>4
<1>6. CASE Evaluate(d)
  <2>0. future'[d] \in Verdicts /\ future' = [future EXCEPT ![d] = future'[d]]
    BY <1>6, EvaluateVerdict
  <2>1. TypeOK'
    BY <1>6, <2>0 DEF Evaluate, TypeOK
  <2>2. AttemptInv' /\ SessionInv' /\ FutureInv'
    BY <1>6, <2>0, VerdictMarks DEF Evaluate, AttemptInv, SessionInv, FutureInv,
                                    TypeOK, Talking
  <2>3. PoolInv'
    BY <1>6, StaysRunning DEF Evaluate, Busy
  <2>4. SubmitInv' /\ ResultInv'
    BY <1>6, <2>0, MainUndisturbed DEF Evaluate, TypeOK
  <2> QED  BY <2>1, <2>2, <2>3, <2>4
<1>7. CASE Classify(d)
  <2>0. raised[d] \in Exceptions
    BY <1>7 DEF Classify, AttemptInv, TypeOK
  <2>2. \/ /\ phase' = [phase EXCEPT ![d] = "sleep"] /\ UNCHANGED future
           /\ attempt[d] < Attempts
        \/ /\ phase' = [phase EXCEPT ![d] = "done"]
           /\ future'[d] \in Verdicts \cup {Raised}
           /\ future' = [future EXCEPT ![d] = future'[d]]
    BY <1>7, ClassifyVerdict DEF TypeOK
  <2>3. tried' \in [Devices -> Seq(Exceptions)]
    BY <1>7, <2>0 DEF Classify, TypeOK
  <2>4. TypeOK'
    BY <1>7, <2>2, <2>3 DEF Classify, TypeOK, Busy
  <2>5. AttemptInv' /\ SessionInv' /\ FutureInv'
    BY <1>7, <2>2, VerdictMarks DEF Classify, AttemptInv, SessionInv, FutureInv,
                                    TypeOK, Talking
  <2>6. PoolInv'
    BY <1>7, <2>2, StaysRunning DEF Classify, Busy
  <2>7. SubmitInv' /\ ResultInv'
    BY <1>7, <2>2, MainUndisturbed DEF Classify, TypeOK
  <2> QED  BY <2>4, <2>5, <2>6, <2>7
<1>8. CASE WakeUp(d)
  <2>0. attempt[d] \in 1..Attempts /\ attempt[d] < Attempts
    BY <1>8 DEF WakeUp, AttemptInv, TypeOK
  <2>1. attempt[d] + 1 \in 1..Attempts
    BY <2>0, Constants
  <2>2. TypeOK'
    BY <1>8, <2>1 DEF WakeUp, TypeOK, Busy
  <2>3. AttemptInv' /\ SessionInv' /\ FutureInv'
    BY <1>8 DEF WakeUp, AttemptInv, SessionInv, FutureInv, TypeOK, Talking
  <2>4. PoolInv'
    BY <1>8, StaysRunning DEF WakeUp, Busy
  <2>5. SubmitInv' /\ ResultInv'
    BY <1>8, MainUndisturbed DEF WakeUp
  <2> QED  BY <2>2, <2>3, <2>4, <2>5
<1> QED  BY <1>1, <1>2, <1>3, <1>4, <1>5, <1>6, <1>7, <1>8 DEF Converse

\* Every step keeps the invariant.
LEMMA NextInv == IInv /\ [Next]_vars => IInv'
<1> SUFFICES ASSUME IInv, [Next]_vars  PROVE IInv'
  OBVIOUS
<1>1. CASE MainThread \/ Interrupt
  BY <1>1, MainStep
<1>2. CASE \E d \in Devices : Start(d) \/ Converse(d)
  BY <1>2, TaskStep
<1>3. CASE UNCHANGED vars
  BY <1>3 DEF vars, task, IInv, TypeOK, AttemptInv, SessionInv, PoolInv, Running,
              FutureInv, SubmitInv, ResultInv, Drained
<1> QED  BY <1>1, <1>2, <1>3 DEF Next, Terminated

\* The inductive invariant holds in every state of every run: where each task is
\* tells whether its session is open and its future done, and where the main
\* thread is tells which tasks are over.
THEOREM Invariance == Spec => []IInv
BY InitInv, NextInv, PTL DEF Spec

-----------------------------------------------------------------------------
(* What follows from IInv.                                                  *)

\* Every variable keeps its type, for every inventory and every option, a
\* negative --retry-delay included.
THEOREM TypeCorrectness == Spec => []TypeOK
<1>1. IInv => TypeOK
  BY DEF IInv
<1> QED  BY <1>1, Invariance, PTL

\* A session is open in a running task only.
LEMMA OpenIsRunning == ASSUME IInv  PROVE open \subseteq Running
BY DEF IInv, TypeOK, SessionInv, Running, Busy

\* The sessions open at any moment are at most the threads of the pool, and a
\* device with a result has none: no failure of an attempt leaks a session.
THEOREM SessionsAreBounded == Spec => []SessionsBounded
<1>1. ASSUME IInv  PROVE SessionsBounded
  <2>1. IsFiniteSet(Running)
    BY DevicesFinite, FS_Subset DEF Running
  <2>2. Cardinality(open) <= Cardinality(Running) /\ IsFiniteSet(open)
    BY <1>1, <2>1, OpenIsRunning, FS_Subset
  <2>3. Cardinality(open) \in Nat /\ Cardinality(Running) \in Nat
    BY <2>1, <2>2, FS_CardinalityType
  <2>4. Cardinality(open) <= PoolSize
    BY <1>1, <2>2, <2>3, Constants DEF IInv, PoolInv
  <2>5. \A d \in open : future[d] = Pending
    BY <1>1 DEF IInv, TypeOK, SessionInv, FutureInv, Talking
  <2> QED  BY <2>4, <2>5 DEF SessionsBounded
<1> QED  BY <1>1, Invariance, PTL

\* Once the pool is drained, or every result taken, nothing is going on.
LEMMA DrainedIsIdle ==
  ASSUME IInv, results = Devices \/ Drained
  PROVE  open = {} /\ \A d \in Devices : phase[d] \in {"new", "done"}
<1>1. \A d \in Devices : phase[d] \in {"new", "done"}
  <2> SUFFICES ASSUME NEW d \in Devices  PROVE phase[d] \in {"new", "done"}
    OBVIOUS
  <2>1. CASE results = Devices
    BY <2>1 DEF IInv, ResultInv
  <2>2. CASE Drained
    <3>1. PICK i \in DOMAIN Inventory : Inventory[i] = d
      BY Constants
    <3>2. i \in Nat \ {0} /\ submitted \in Nat
      BY Constants DEF IInv, TypeOK
    <3>3. CASE i > submitted
      BY <3>1, <3>3 DEF IInv, SubmitInv
    <3>4. CASE i \in 1..submitted
      BY <2>2, <3>1, <3>4 DEF Drained
    <3> QED  BY <3>2, <3>3, <3>4
  <2> QED  BY <2>1, <2>2
<1>2. open = {}
  BY <1>1 DEF IInv, TypeOK, SessionInv, Talking
<1> QED  BY <1>1, <1>2

\* Whether run() returns, is interrupted or lets an exception through, it leaves
\* no session open, no thread at work and no queued task.
THEOREM NothingIsLeftBehind == Spec => []NothingLeftBehind
<1>1. IInv => NothingLeftBehind
  <2>1. IInv /\ main \in Exited => results = Devices \/ Drained
    BY DEF IInv, ResultInv, Exited
  <2> QED  BY <2>1, DrainedIsIdle DEF NothingLeftBehind
<1> QED  BY <1>1, Invariance, PTL

-----------------------------------------------------------------------------
(* Collector implements Collection.                                         *)

verdict == [d \in Devices |-> IF future[d] = Raised THEN Pending ELSE future[d]]

fate == IF main = "returned" THEN "returned"
        ELSE IF main \in Exited THEN "gave_up" ELSE "running"

\* run() begins as Collection does.
LEMMA AbstractInit == Init => Abstract!Init
BY VerdictMarks DEF Init, Abstract!Init, Abstract!Devices, Devices, Exited

\* Between two steps that change neither verdict, session, fate nor report,
\* Collection stutters.
LEMMA Stutter ==
  ASSUME UNCHANGED <<future, open, fate, report>>
  PROVE  UNCHANGED Abstract!vars
BY DEF fate, Abstract!vars

\* The main thread: only Return and Leave are steps of Collection.
LEMMA AbstractMain ==
  ASSUME IInv, MainThread \/ Interrupt
  PROVE  [Abstract!Next]_Abstract!vars
<1>1. CASE Submit
  BY <1>1, Stutter DEF Submit, fate, Exited
<1>2. ASSUME NEW d \in Devices, Yield(d)  PROVE [Abstract!Next]_Abstract!vars
  BY <1>2, Stutter DEF Yield, task, fate, Exited
<1>3. CASE Interrupt
  BY <1>3, Stutter DEF Interrupt, task, fate, Exited
<1>4. CASE Return
  <2>1. \A d \in Devices : future[d] \in Verdicts
    BY <1>4 DEF Return, IInv, ResultInv, FutureInv, TypeOK
  <2>2. verdict = future
    BY <2>1, VerdictMarks DEF verdict, IInv, TypeOK
  <2>3. open = {}
    BY <1>4 DEF Return, IInv, TypeOK, ResultInv, SessionInv, Talking
  <2>4. /\ fate = "running" /\ fate' = "returned"
        /\ report' = [i \in DOMAIN Inventory |-> verdict[Inventory[i]]]
        /\ UNCHANGED <<verdict, open>>
    BY <1>4, <2>2 DEF Return, fate, verdict, task, Exited
  <2>5. Abstract!Return
    BY <2>1, <2>2, <2>3, <2>4 DEF Abstract!Return, Abstract!Devices, Devices,
                                  verdict, fate
  <2> QED  BY <2>5 DEF Abstract!Next
<1>5. CASE Leave
  <2>1. main' \in Exited /\ main' # "returned"
    BY <1>5 DEF Leave, Exited
  <2>2. open = {}
    BY <1>5, DrainedIsIdle DEF Leave
  <2>3. /\ fate = "running" /\ fate' = "gave_up"
        /\ UNCHANGED <<verdict, open, report>>
    BY <1>5, <2>1 DEF Leave, fate, verdict, task, Exited
  <2>4. Abstract!GiveUp
    BY <2>2, <2>3 DEF Abstract!GiveUp, verdict, fate
  <2> QED  BY <2>4 DEF Abstract!Next
<1> QED  BY <1>1, <1>2, <1>3, <1>4, <1>5 DEF MainThread

\* A task about to connect holds a thread and no session: there is room for one.
LEMMA OpenBelowPool ==
  ASSUME IInv, NEW d \in Running, d \notin open
  PROVE  Cardinality(open) < PoolSize
<1>1. IsFiniteSet(Running)
  BY DevicesFinite, FS_Subset DEF Running
<1>2. Cardinality(open) <= Cardinality(Running) /\ IsFiniteSet(open)
      /\ Cardinality(open) # Cardinality(Running)
  BY <1>1, OpenIsRunning, FS_Subset
<1>3. Cardinality(open) \in Nat /\ Cardinality(Running) \in Nat
  BY <1>1, <1>2, FS_CardinalityType
<1> QED  BY <1>2, <1>3, Constants DEF IInv, PoolInv

\* A busy task whose future receives a verdict is a Decide of Collection.
LEMMA AbstractDecide ==
  ASSUME NEW d \in Devices, IInv, phase[d] \in {"answered", "failed"},
         future'[d] \in Verdicts, future' = [future EXCEPT ![d] = future'[d]],
         UNCHANGED <<main, open, report>>
  PROVE  [Abstract!Next]_Abstract!vars
<1>1. future[d] = Pending /\ d \notin open
  BY DEF IInv, FutureInv, SessionInv, Talking
<1>2. fate = "running" /\ fate' = fate
  <2>1. CASE main \in Exited
    <3>1. results = Devices \/ Drained
      BY <2>1 DEF IInv, ResultInv, Exited
    <3> QED  BY <3>1, DrainedIsIdle
  <2>2. CASE main \notin Exited
    BY <2>2 DEF fate, Exited
  <2> QED  BY <2>1, <2>2
<1>3. verdict[d] = Pending /\ verdict'[d] \in Verdicts
  BY <1>1, VerdictMarks DEF verdict
<1>4. verdict' = [verdict EXCEPT ![d] = verdict'[d]]
  BY DEF verdict, IInv, TypeOK
<1>5. Abstract!Decide(d)
  BY <1>1, <1>2, <1>3, <1>4 DEF Abstract!Decide, verdict, fate
<1> QED  BY <1>5 DEF Abstract!Next, Abstract!Devices, Devices

\* Collection has its own instance of FiniteSets: the two count alike.
LEMMA SameCardinality == Abstract!Cardinality(open) = Cardinality(open)
BY DEF Abstract!Cardinality, Cardinality

\* A pool thread: connecting talks, closing hangs up, a verdict decides, and the
\* other steps are stutters.
LEMMA AbstractTask ==
  ASSUME NEW d \in Devices, IInv, Start(d) \/ Converse(d)
  PROVE  [Abstract!Next]_Abstract!vars
<1>1. CASE Start(d)
  BY <1>1, Stutter DEF Start, fate
<1>2. CASE Connect(d)
  <2>1. CASE UNCHANGED open
    BY <1>2, <2>1, Stutter DEF Connect, Move, fate
  <2>2. CASE open' = open \cup {d}
    <3>1. future[d] = Pending /\ d \notin open /\ d \in Running
      BY <1>2 DEF Connect, IInv, FutureInv, SessionInv, Running, Busy, Talking
    <3>2. fate = "running"
      <4>1. CASE main \in Exited
        <5>1. results = Devices \/ Drained
          BY <4>1 DEF IInv, ResultInv, Exited
        <5> QED  BY <1>2, <5>1, DrainedIsIdle DEF Connect
      <4>2. CASE main \notin Exited
        BY <4>2 DEF fate, Exited
      <4> QED  BY <4>1, <4>2
    <3>3. Cardinality(open) < PoolSize
      BY <3>1, OpenBelowPool
    <3>4. UNCHANGED <<verdict, fate, report>>
      BY <1>2 DEF Connect, Move, verdict, fate
    <3>5. Abstract!Talk(d)
      <4>1. verdict[d] = Pending /\ d \notin open
        BY <3>1 DEF verdict
      <4> QED  BY <2>2, <3>2, <3>3, <3>4, <4>1, SameCardinality
                      DEF Abstract!Talk, verdict, fate
    <3> QED  BY <3>5 DEF Abstract!Next, Abstract!Devices, Devices
  <2> QED  BY <1>2, <2>1, <2>2 DEF Connect
<1>3. CASE EnterEnable(d)
  BY <1>3, Stutter DEF EnterEnable, Move, fate
<1>4. CASE Send(d)
  BY <1>4, Stutter DEF Send, Move, fate
<1>5. CASE Close(d)
  <2>1. d \in open /\ open' = open \ {d}
    BY <1>5 DEF Close, IInv, SessionInv, Talking
  <2>2. UNCHANGED <<verdict, fate, report>>
    BY <1>5 DEF Close, Move, verdict, fate
  <2>3. Abstract!HangUp(d)
    BY <2>1, <2>2 DEF Abstract!HangUp, verdict, fate
  <2> QED  BY <2>3 DEF Abstract!Next, Abstract!Devices, Devices
<1>6. CASE Evaluate(d)
  <2>1. future'[d] \in Verdicts /\ future' = [future EXCEPT ![d] = future'[d]]
    BY <1>6, EvaluateVerdict
  <2> QED  BY <1>6, <2>1, AbstractDecide DEF Evaluate
<1>7. CASE Classify(d)
  <2>1. CASE UNCHANGED future
    BY <1>7, <2>1, Stutter DEF Classify, fate
  <2>2. CASE future' = [future EXCEPT ![d] = Raised]
    <3>1. future[d] = Pending
      BY <1>7 DEF Classify, IInv, FutureInv
    <3>2. UNCHANGED verdict
      <4>1. \A e \in Devices : verdict'[e] = verdict[e]
        BY <2>2, <3>1, VerdictMarks DEF verdict, IInv, TypeOK
      <4> QED  BY <4>1 DEF verdict
    <3> QED  BY <1>7, <3>2 DEF Classify, fate, Abstract!vars, verdict
  <2>3. CASE /\ future'[d] \in Verdicts
             /\ future' = [future EXCEPT ![d] = future'[d]]
    BY <1>7, <2>3, AbstractDecide DEF Classify
  <2> QED  BY <1>7, <2>1, <2>2, <2>3, ClassifyVerdict
<1>8. CASE WakeUp(d)
  BY <1>8, Stutter DEF WakeUp, fate
<1> QED  BY <1>1, <1>2, <1>3, <1>4, <1>5, <1>6, <1>7, <1>8 DEF Converse

\* The run behaves as Collection promises: no device gets two verdicts or one
\* while it is talked to, no more than PoolSize sessions are open, and what is
\* returned is one verdict per device in inventory order, or nothing at all.
THEOREM CollectionIsImplemented == Spec => Abstract!Spec
<1>1. Init => Abstract!Init
  BY AbstractInit
<1>2. IInv /\ [Next]_vars => [Abstract!Next]_Abstract!vars
  <2> SUFFICES ASSUME IInv, [Next]_vars  PROVE [Abstract!Next]_Abstract!vars
    OBVIOUS
  <2>1. CASE MainThread \/ Interrupt
    BY <2>1, AbstractMain
  <2>2. CASE \E d \in Devices : Start(d) \/ Converse(d)
    BY <2>2, AbstractTask
  <2>3. CASE UNCHANGED vars
    BY <2>3, Stutter DEF vars, task, fate
  <2> QED  BY <2>1, <2>2, <2>3 DEF Next, Terminated
<1> QED  BY <1>1, <1>2, Invariance, PTL DEF Spec, Abstract!Spec

\* The same, under the name the runs check.
THEOREM RunImplementsCollection == Spec => ImplementsCollection
BY CollectionIsImplemented DEF ImplementsCollection

\* What is handed to the caller, told of Collection and of the run: one verdict for each
\* device, in the order of the inventory, or nothing.
Delivers == IF fate = "returned"
            THEN /\ report = [i \in DOMAIN Inventory |-> verdict[Inventory[i]]]
                 /\ \A d \in Devices : verdict[d] \in Verdicts
            ELSE report = << >>

Delivered == IF main = "returned"
             THEN /\ report = [i \in DOMAIN Inventory |-> future[Inventory[i]]]
                  /\ \A d \in Devices : future[d] \in Verdicts
             ELSE report = << >>

\* A verdict of Collection is not changed, and what is handed over is what was decided.
LEMMA AbstractDelivers ==
  ASSUME [Abstract!Next]_Abstract!vars
  PROVE  /\ Delivers => Delivers'
         /\ \A d \in Devices : verdict[d] \in Verdicts => verdict'[d] = verdict[d]
<1>1. CASE \E d \in Devices : Abstract!Talk(d) \/ Abstract!HangUp(d)
  <2>1. UNCHANGED <<verdict, fate, report>>
    BY <1>1 DEF Abstract!Talk, Abstract!HangUp, verdict, fate
  <2> QED  BY <2>1 DEF Delivers
<1>2. CASE \E d \in Devices : Abstract!Decide(d)
  <2> PICK e \in Devices : Abstract!Decide(e)
    BY <1>2
  <2>1. /\ fate = "running" /\ verdict[e] = Pending /\ UNCHANGED <<fate, report>>
        /\ verdict' = [verdict EXCEPT ![e] = verdict'[e]] /\ DOMAIN verdict = Devices
    BY DEF Abstract!Decide, verdict, fate
  <2> HIDE DEF verdict, fate
  <2>2. \A d \in Devices : verdict[d] \in Verdicts => verdict'[d] = verdict[d]
    BY <2>1, VerdictMarks
  <2> QED  BY <2>1, <2>2 DEF Delivers
<1>3. CASE Abstract!Return
  <2>1. /\ fate = "running" /\ fate' = "returned" /\ UNCHANGED verdict
        /\ \A d \in Devices : verdict[d] \in Verdicts
        /\ report' = [i \in DOMAIN Inventory |-> verdict[Inventory[i]]]
    BY <1>3 DEF Abstract!Return, Abstract!Devices, Devices, verdict, fate
  <2> QED  BY <2>1 DEF Delivers
<1>4. CASE Abstract!GiveUp
  <2>1. fate = "running" /\ fate' = "gave_up" /\ UNCHANGED <<verdict, report>>
    BY <1>4 DEF Abstract!GiveUp, verdict, fate
  <2> QED  BY <2>1 DEF Delivers
<1>5. CASE UNCHANGED Abstract!vars
  <2>1. UNCHANGED <<verdict, fate, report>>
    BY <1>5 DEF Abstract!vars, verdict, fate
  <2> QED  BY <2>1 DEF Delivers
<1> QED  BY <1>1, <1>2, <1>3, <1>4, <1>5 DEF Abstract!Next, Abstract!Devices, Devices

\* What run() hands to its caller is whole and in the order of the inventory, or is
\* nothing, and no result is changed once there is one.
THEOREM ResultsAreFinal ==
  Spec => /\ []Delivered
          /\ [][\A d \in Devices : future[d] \in Verdicts => future'[d] = future[d]]_vars
<1>1. Abstract!Init => Delivers
  BY DEF Abstract!Init, Delivers, fate
<1>2. Delivers => Delivered
  <2> SUFFICES ASSUME Delivers  PROVE Delivered
    OBVIOUS
  <2>1. CASE main = "returned"
    <3>1. fate = "returned"
      BY <2>1 DEF fate
    <3>2. \A d \in Devices : future[d] \in Verdicts /\ verdict[d] = future[d]
      BY <3>1, VerdictMarks DEF Delivers, verdict
    <3>3. \A i \in DOMAIN Inventory : verdict[Inventory[i]] = future[Inventory[i]]
      BY <3>2 DEF Devices
    <3> HIDE DEF verdict
    <3> QED  BY <2>1, <3>1, <3>2, <3>3 DEF Delivers, Delivered
  <2>2. CASE main # "returned"
    BY <2>2 DEF Delivers, Delivered, fate
  <2> QED  BY <2>1, <2>2
<1>3. (\A d \in Devices : verdict[d] \in Verdicts => verdict'[d] = verdict[d])
         => \A d \in Devices : future[d] \in Verdicts => future'[d] = future[d]
  BY VerdictMarks DEF verdict
<1>4. [Abstract!Next]_Abstract!vars
         => /\ Delivers => Delivers'
            /\ \A d \in Devices : future[d] \in Verdicts => future'[d] = future[d]
  BY <1>3, AbstractDelivers
<1>5. Spec => Abstract!Init /\ [][Abstract!Next]_Abstract!vars
  BY CollectionIsImplemented, PTL DEF Abstract!Spec
<1> QED  BY <1>1, <1>2, <1>4, <1>5, PTL

-----------------------------------------------------------------------------
(* Which exceptions are transient.                                          *)

\* The first isinstance test that takes an exception gives its status.
LEMMA FirstHandler ==
  ASSUME NEW k, NEW i \in 1..10, Handles(Handlers[i], k),
         \A j \in 1..10 : j < i => ~Handles(Handlers[j], k)
  PROVE  classify_exception(k) = Handlers[i].status
<1> DEFINE applies == {j \in DOMAIN Handlers : Handles(Handlers[j], k)}
<1>1. \A j \in applies : j \in 1..10 /\ i <= j
  BY HandlerStatus
<1>2. i \in applies
  BY HandlerStatus
<1>3. (CHOOSE j \in applies : \A m \in applies : j <= m) = i
  <2> HIDE DEF applies
  <2>1. \A j \in applies : (\A m \in applies : j <= m) => j = i
    BY <1>1, <1>2
  <2> QED  BY <1>1, <1>2, <2>1
<1> QED  BY <1>3 DEF classify_exception

\* What each of the ten tests does with an exception.
LEMMA Tests ==
  ASSUME NEW k \in ExceptionKinds
  PROVE  /\ Handles(Handlers[1], k) <=> k = "auth"
         /\ Handles(Handlers[2], k) <=> k = "no_tcp_session"
         /\ Handles(Handlers[3], k) <=> k \in {"no_tcp_session", "session_timeout"}
         /\ Handles(Handlers[4], k) <=> k = "read_timeout"
         /\ Handles(Handlers[5], k) <=> k = "gaierror"
         /\ Handles(Handlers[6], k) <=> k = "socket_timeout"
         /\ Handles(Handlers[7], k) <=> k \in {"gaierror", "socket_timeout", "refused"}
         /\ Handles(Handlers[8], k)
              <=> k \in {"auth", "no_tcp_session", "session_timeout", "ssh"}
         /\ Handles(Handlers[9], k) <=> k = "value_error"
         /\ Handles(Handlers[10], k)
<1>1. mro[k] = CASE k = "auth"       -> {"AuthenticationException", "SSHException"}
            [] k \in {"no_tcp_session", "session_timeout"}
                                     -> {"NetmikoTimeoutException", "SSHException"}
            [] k = "read_timeout"    -> {"ReadTimeout"}
            [] k = "gaierror"        -> {"gaierror", "OSError"}
            [] k = "socket_timeout"  -> {"TimeoutError", "OSError"}
            [] k = "refused"         -> {"ConnectionRefusedError", "OSError"}
            [] k = "ssh"             -> {"SSHException"}
            [] k = "value_error"     -> {"ValueError"}
            [] OTHER                 -> {}
  BY DEF mro
<1>2. "none" \notin mro[k]
  BY <1>1 DEF ExceptionKinds
<1>3. "" \notin mro[k]
  BY <1>1 DEF ExceptionKinds
<1>4. /\ "AuthenticationException" \in mro[k] <=> k = "auth"
      /\ "NetmikoTimeoutException" \in mro[k] <=> k \in {"no_tcp_session", "session_timeout"}
      /\ "ReadTimeout" \in mro[k] <=> k = "read_timeout"
  BY <1>1 DEF ExceptionKinds
<1>5. /\ "gaierror" \in mro[k] <=> k = "gaierror"
      /\ "TimeoutError" \in mro[k] <=> k = "socket_timeout"
  BY <1>1 DEF ExceptionKinds
<1>6. "OSError" \in mro[k] <=> k \in {"gaierror", "socket_timeout", "refused"}
  BY <1>1 DEF ExceptionKinds
<1>7. "SSHException" \in mro[k]
        <=> k \in {"auth", "no_tcp_session", "session_timeout", "ssh"}
  BY <1>1 DEF ExceptionKinds
<1>8. "ValueError" \in mro[k] <=> k = "value_error"
  BY <1>1 DEF ExceptionKinds
<1>9. /\ Handles(Handlers[1], k) <=> "AuthenticationException" \in mro[k]
      /\ Handles(Handlers[2], k) <=> "NetmikoTimeoutException" \in mro[k] /\ marked(k)
      /\ Handles(Handlers[3], k) <=> "NetmikoTimeoutException" \in mro[k]
      /\ Handles(Handlers[4], k) <=> "ReadTimeout" \in mro[k]
      /\ Handles(Handlers[5], k) <=> "gaierror" \in mro[k]
  <2>1. Handles(Handlers[1], k) <=> "AuthenticationException" \in mro[k]
    BY <1>2, <1>3 DEF Handlers, Handler, Handles
  <2>2. Handles(Handlers[2], k) <=> "NetmikoTimeoutException" \in mro[k] /\ marked(k)
    BY <1>2, <1>3 DEF Handlers, Handler, Handles
  <2>3. Handles(Handlers[3], k) <=> "NetmikoTimeoutException" \in mro[k]
    BY <1>2, <1>3 DEF Handlers, Handler, Handles
  <2>4. Handles(Handlers[4], k) <=> "ReadTimeout" \in mro[k]
    BY <1>2, <1>3 DEF Handlers, Handler, Handles
  <2>5. Handles(Handlers[5], k) <=> "gaierror" \in mro[k]
    BY <1>2, <1>3 DEF Handlers, Handler, Handles
  <2> QED  BY <2>1, <2>2, <2>3, <2>4, <2>5
<1>10. /\ Handles(Handlers[6], k) <=> "TimeoutError" \in mro[k]
       /\ Handles(Handlers[7], k) <=> "OSError" \in mro[k] /\ "SSHException" \notin mro[k]
       /\ Handles(Handlers[8], k) <=> "SSHException" \in mro[k]
       /\ Handles(Handlers[9], k) <=> "ValueError" \in mro[k]
       /\ Handles(Handlers[10], k)
  <2>6. Handles(Handlers[6], k) <=> "TimeoutError" \in mro[k]
    BY <1>2, <1>3 DEF Handlers, Handler, Handles
  <2>7. Handles(Handlers[7], k) <=> "OSError" \in mro[k] /\ "SSHException" \notin mro[k]
    BY <1>2, <1>3 DEF Handlers, Handler, Handles
  <2>8. Handles(Handlers[8], k) <=> "SSHException" \in mro[k]
    BY <1>2, <1>3 DEF Handlers, Handler, Handles
  <2>9. Handles(Handlers[9], k) <=> "ValueError" \in mro[k]
    BY <1>2, <1>3 DEF Handlers, Handler, Handles
  <2>10. Handles(Handlers[10], k) 
    BY <1>2, <1>3 DEF Handlers, Handler, Handles
  <2> QED  BY <2>6, <2>7, <2>8, <2>9, <2>10
<1>11. marked(k) <=> k = "no_tcp_session"
  BY DEF marked
<1> QED  BY <1>4, <1>5, <1>6, <1>7, <1>8, <1>9, <1>10, <1>11

\* The transient exceptions are those that tell of an address that cannot be
\* reached or of a session that is not answered in time, and no exception is a
\* success.
LEMMA TransientIsRetryable ==
  ASSUME NEW k \in ExceptionKinds
  PROVE  /\ classify_exception(k) \in RETRYABLE_STATUSES <=> k \in TransientKinds
         /\ classify_exception(k) # "success"
<1>0. \E i \in 1..10 : Handles(Handlers[i], k)
                       /\ \A j \in 1..10 : j < i => ~Handles(Handlers[j], k)
  <2> DEFINE P(i) == Handles(Handlers[i], k)
  <2>1. P(10)
    BY Tests
  <2> HIDE DEF P
  <2>2. \E i \in 1..10 : P(i) /\ \A j \in 1..10 : j < i => ~P(j)
    BY <2>1
  <2> QED  BY <2>2 DEF P
<1>1. PICK i \in 1..10 : /\ Handles(Handlers[i], k)
                         /\ \A j \in 1..10 : j < i => ~Handles(Handlers[j], k)
  BY <1>0
<1>2. classify_exception(k) = Handlers[i].status
  BY <1>1, FirstHandler
<1>3. /\ Handlers[1].status = "auth_failed" /\ Handlers[2].status = "unreachable"
      /\ Handlers[3].status = "timeout" /\ Handlers[4].status = "command_failed"
      /\ Handlers[5].status = "unreachable" /\ Handlers[6].status = "timeout"
      /\ Handlers[7].status = "unreachable" /\ Handlers[8].status = "error"
      /\ Handlers[9].status = "config_error" /\ Handlers[10].status = "error"
  BY DEF Handlers, Handler
<1>4. \/ i = 1 \/ i = 2 \/ i = 3 \/ i = 4 \/ i = 5
      \/ i = 6 \/ i = 7 \/ i = 8 \/ i = 9 \/ i = 10
  OBVIOUS
<1>5. Handlers[i].status \in RETRYABLE_STATUSES <=> i \in {2, 3, 5, 6, 7}
  BY <1>3, <1>4 DEF RETRYABLE_STATUSES
<1>6. i \in {2, 3, 5, 6, 7} <=> k \in TransientKinds
  BY <1>1, <1>4, Tests DEF TransientKinds, ExceptionKinds
<1>7. Handlers[i].status # "success"
  BY <1>3, <1>4
<1> QED  BY <1>2, <1>5, <1>6, <1>7

-----------------------------------------------------------------------------
(* OutcomeInv is inductive, given IInv.                                     *)

\* A step of one task leaves the others alone.
LEMMA OtherTasks ==
  ASSUME NEW d \in Devices, TypeOK, Start(d) \/ Converse(d),
         NEW e \in Devices, e # d
  PROVE  /\ phase'[e] = phase[e] /\ attempt'[e] = attempt[e]
         /\ outputs'[e] = outputs[e] /\ raised'[e] = raised[e]
         /\ future'[e] = future[e] /\ tried'[e] = tried[e]
<1>1. CASE Start(d)
  BY <1>1 DEF Start, TypeOK
<1>2. CASE Connect(d) \/ EnterEnable(d)
  BY <1>2 DEF Connect, EnterEnable, Move, Raise, TypeOK
<1>3. CASE Send(d)
  BY <1>3 DEF Send, Move, Raise, TypeOK
<1>4. CASE Close(d)
  BY <1>4 DEF Close, Move, TypeOK
<1>5. CASE Evaluate(d)
  BY <1>5 DEF Evaluate, TypeOK
<1>6. CASE Classify(d)
  BY <1>6 DEF Classify, TypeOK
<1>7. CASE WakeUp(d)
  BY <1>7 DEF WakeUp, TypeOK
<1> QED  BY <1>1, <1>2, <1>3, <1>4, <1>5, <1>6, <1>7 DEF Converse

\* An answer is appended to those of the same attempt.
LEMMA AnswerAppended ==
  ASSUME NEW d \in Devices, TypeOK, AnswersInv, NEW r \in Replies,
         outputs' = [outputs EXCEPT
                       ![d] = Append(@, [attempt |-> attempt[d], reply |-> r])]
  PROVE  /\ Len(outputs'[d]) = Len(outputs[d]) + 1
         /\ \A i \in DOMAIN outputs'[d] : outputs'[d][i].attempt = attempt[d]
<1> DEFINE answer == [attempt |-> attempt[d], reply |-> r]
<1>1. outputs[d] \in Seq(Answers) /\ answer \in Answers
  BY DEF TypeOK, Answers
<1>2. outputs'[d] = Append(outputs[d], answer)
  BY DEF TypeOK
<1>3. answer.attempt = attempt[d]
  OBVIOUS
<1>4. \A i \in DOMAIN outputs[d] : outputs[d][i].attempt = attempt[d]
  BY DEF AnswersInv
<1> HIDE DEF answer
<1> QED  BY <1>1, <1>2, <1>3, <1>4

\* Where a task is tells which answers it holds: none before it sends, one to each
\* command once it has closed its session without an exception.
LEMMA AnswersStep ==
  ASSUME NEW d \in Devices, IInv, AnswersInv, Start(d) \/ Converse(d)
  PROVE  AnswersInv'
<1> DEFINE P(e) ==
      /\ phase[e] \in {"new", "queued", "connect", "enable", "send", "answered"}
            => raised[e] = NoException
      /\ phase[e] \in {"new", "queued", "connect", "enable"} => outputs[e] = << >>
      /\ phase[e] = "send" => Len(outputs[e]) < NumCommands
      /\ phase[e] \in {"close", "answered"} /\ raised[e] = NoException
            => Len(outputs[e]) = NumCommands
      /\ \A i \in DOMAIN outputs[e] : outputs[e][i].attempt = attempt[e]
<1>0. TypeOK /\ \A e \in Devices : P(e)
  BY DEF IInv, AnswersInv
<1>1. ASSUME NEW e \in Devices, e # d  PROVE P(e)'
  BY <1>0, <1>1, OtherTasks
<1>2. P(d)'
  <2>0. /\ P(d) /\ outputs[d] \in Seq(Answers) /\ Len(outputs[d]) \in Nat
        /\ NumCommands \in Nat \ {0}
    BY <1>0, OptionsAssumption DEF TypeOK
  <2>1. CASE Start(d)
    BY <2>1, <2>0, <1>0 DEF Start, TypeOK
  <2>2. CASE Connect(d)
    BY <2>2, <2>0, <1>0, RaisedType DEF Connect, Move, Raise, TypeOK
  <2>3. CASE EnterEnable(d)
    BY <2>3, <2>0, <1>0, RaisedType DEF EnterEnable, Move, Raise, TypeOK
  <2>4. CASE Send(d)
    <3>1. raised[d] = NoException /\ Len(outputs[d]) < NumCommands
      BY <2>4, <2>0 DEF Send
    <3>2. ASSUME NEW r \in Replies,
                 outputs' = [outputs EXCEPT
                               ![d] = Append(@, [attempt |-> attempt[d], reply |-> r])],
                 Move(d, IF Len(outputs'[d]) = NumCommands THEN "close" ELSE "send"),
                 UNCHANGED raised
          PROVE  P(d)'
      <4>1. /\ Len(outputs'[d]) = Len(outputs[d]) + 1
            /\ \A i \in DOMAIN outputs'[d] : outputs'[d][i].attempt = attempt[d]
        BY <1>0, <3>2, AnswerAppended
      <4>2. /\ phase'[d] = IF Len(outputs'[d]) = NumCommands THEN "close" ELSE "send"
            /\ attempt'[d] = attempt[d] /\ raised'[d] = NoException
        BY <3>1, <3>2, <1>0 DEF Move, TypeOK
      <4> QED  BY <4>1, <4>2, <3>1, <2>0
    <3>3. CASE Move(d, "close") /\ Raise(d) /\ UNCHANGED outputs
      <4>1. /\ phase'[d] = "close" /\ attempt'[d] = attempt[d]
            /\ outputs'[d] = outputs[d] /\ raised'[d] # NoException
        BY <3>3, <1>0, RaisedType DEF Move, Raise, TypeOK
      <4> QED  BY <4>1, <2>0
    <3> QED  BY <2>4, <3>2, <3>3 DEF Send
  <2>5. CASE Close(d)
    BY <2>5, <2>0, <1>0 DEF Close, Move, TypeOK
  <2>6. CASE Evaluate(d)
    BY <2>6, <2>0, <1>0 DEF Evaluate, TypeOK
  <2>7. CASE Classify(d)
    <3>1. phase'[d] \in {"sleep", "done"}
      BY <2>7, <1>0, OptionsAssumption DEF Classify, TypeOK
    <3> QED  BY <2>7, <3>1, <2>0 DEF Classify
  <2>8. CASE WakeUp(d)
    BY <2>8, <1>0, <2>0 DEF WakeUp, TypeOK
  <2> QED  BY <2>1, <2>2, <2>3, <2>4, <2>5, <2>6, <2>7, <2>8 DEF Converse
<1> QED  BY <1>1, <1>2 DEF AnswersInv

\* The exception of a failed attempt, and how the failures grow by it.
LEMMA FailureRecorded ==
  ASSUME NEW d \in Devices, IInv, FailuresInv, Classify(d)
  PROVE  /\ raised[d] \in ExceptionKinds
         /\ tried'[d] \in Seq(Exceptions) /\ Len(tried'[d]) = attempt[d]
         /\ tried'[d][attempt[d]] = raised[d]
         /\ attempt[d] \in 1..Attempts /\ Attempts \in Nat
         /\ \A i \in 1..(attempt[d] - 1) : tried'[d][i] \in TransientKinds
<1>1. /\ raised[d] \in Exceptions /\ tried[d] \in Seq(Exceptions)
      /\ attempt[d] \in 1..Attempts /\ Attempts \in Nat
      /\ future[d] = Pending /\ phase[d] = "failed"
  BY Constants DEF Classify, IInv, TypeOK, AttemptInv, FutureInv
<1>2. Len(tried[d]) = attempt[d] - 1
  BY <1>1 DEF FailuresInv
<1>3. \A i \in DOMAIN tried[d] : tried[d][i] \in TransientKinds
  BY <1>1 DEF FailuresInv
<1>4. tried'[d] = Append(tried[d], raised[d])
  BY DEF Classify, IInv, TypeOK
<1> QED  BY <1>1, <1>2, <1>3, <1>4, RaisedType

\* The number of failures is the number of attempts over, and each failure so far
\* was a transient one.
LEMMA FailuresStep ==
  ASSUME NEW d \in Devices, IInv, IInv', FailuresInv, Start(d) \/ Converse(d)
  PROVE  FailuresInv'
<1> DEFINE P(e) == future[e] = Pending =>
      /\ Len(tried[e]) = IF phase[e] = "sleep" THEN attempt[e] ELSE attempt[e] - 1
      /\ \A i \in DOMAIN tried[e] : tried[e][i] \in TransientKinds
<1>0. TypeOK /\ (\A e \in Devices : P(e)) /\ FutureInv /\ FutureInv'
  BY DEF IInv, FailuresInv
<1>1. ASSUME NEW e \in Devices, e # d  PROVE P(e)'
  BY <1>0, <1>1, OtherTasks
<1>2. P(d)'
  <2>0. P(d) /\ attempt[d] \in Nat /\ (phase[d] # "done" => future[d] = Pending)
    BY <1>0, Constants DEF TypeOK, FutureInv
  <2>1. CASE Start(d)
    BY <2>1, <2>0, <1>0 DEF Start, TypeOK
  <2>2. CASE Connect(d) \/ EnterEnable(d) \/ Send(d) \/ Close(d)
    <3>1. /\ phase[d] \in {"connect", "enable", "send", "close"}
          /\ phase'[d] \in {"enable", "send", "close", "answered", "failed"}
          /\ UNCHANGED <<attempt, future, tried>>
      BY <2>2, <1>0 DEF Connect, EnterEnable, Send, Close, Move, TypeOK
    <3> QED  BY <3>1, <2>0
  <2>3. CASE Evaluate(d)
    <3>1. phase'[d] = "done"
      BY <2>3, <1>0 DEF Evaluate, TypeOK
    <3> QED  BY <3>1, <1>0 DEF FutureInv
  <2>4. CASE Classify(d)
    <3>1. CASE phase'[d] = "done"
      BY <3>1, <1>0 DEF FutureInv
    <3>2. CASE phase'[d] # "done"
      <4>1. MayRetry(d) /\ phase'[d] = "sleep" /\ attempt'[d] = attempt[d]
        BY <3>2, <2>4, <1>0, OptionsAssumption DEF Classify, TypeOK
      <4>2. raised[d] \in TransientKinds
        BY <4>1, <2>4, FailureRecorded, TransientIsRetryable DEF MayRetry, Transient
      <4>3. /\ DOMAIN tried'[d] = 1..attempt[d] /\ Len(tried'[d]) = attempt[d]
            /\ \A i \in 1..attempt[d] : i = attempt[d] \/ i \in 1..(attempt[d] - 1)
        BY <2>4, FailureRecorded
      <4>4. \A i \in DOMAIN tried'[d] : tried'[d][i] \in TransientKinds
        BY <4>2, <4>3, <2>4, FailureRecorded
      <4> QED  BY <4>1, <4>3, <4>4
    <3> QED  BY <3>1, <3>2
  <2>5. CASE WakeUp(d)
    <3>1. /\ phase[d] = "sleep" /\ phase'[d] = "connect"
          /\ attempt'[d] = attempt[d] + 1 /\ UNCHANGED <<future, tried>>
      BY <2>5, <1>0 DEF WakeUp, TypeOK
    <3> QED  BY <3>1, <2>0
  <2> QED  BY <2>1, <2>2, <2>3, <2>4, <2>5 DEF Converse
<1> QED  BY <1>1, <1>2 DEF FailuresInv

-----------------------------------------------------------------------------
(* The outcomes.                                                            *)

\* What RetryDiscipline and OneSessionAnswers say of one device.
Disciplined(d) ==
  LET failures == Len(tried[d])
      last     == tried[d][failures]
  IN  /\ failures <= Attempts
      /\ \A i \in 1..(failures - 1) : tried[d][i] \in TransientKinds
      /\ future[d] \in Verdicts =>
           \/ future[d].attempts = failures + 1
           \/ /\ future[d].attempts = failures
              /\ failures > 0
              /\ last \in TransientKinds => failures = Attempts

Answered(d) == future[d] \in Verdicts =>
  LET v == future[d] IN
  /\ v.outputs # << >> => /\ Len(v.outputs) = NumCommands
                          /\ \A i \in DOMAIN v.outputs :
                                v.outputs[i].attempt = v.attempts
  /\ v.status = "success" => v.outputs # << >> /\ ~Rejected(v.outputs)

Outcomes == /\ IInv /\ OutcomeInv
            /\ \A d \in Devices : Disciplined(d) /\ Answered(d)

\* A device that has its answers is judged by these answers.
LEMMA EvaluateOutcome ==
  ASSUME NEW d \in Devices, Outcomes, Evaluate(d)
  PROVE  Disciplined(d)' /\ Answered(d)'
<1> USE DEF Outcomes
<1>1. /\ phase[d] = "answered" /\ future[d] = Pending
      /\ outputs[d] \in Seq(Answers) /\ Len(outputs[d]) = NumCommands
      /\ NumCommands \in Nat \ {0} /\ attempt[d] \in Nat
      /\ \A i \in DOMAIN outputs[d] : outputs[d][i].attempt = attempt[d]
  BY OptionsAssumption, Constants
     DEF Evaluate, IInv, TypeOK, FutureInv, OutcomeInv, AnswersInv
<1>2. future'[d] = Verdict(d, IF Rejected(outputs[d]) THEN "command_failed" ELSE "success",
                           outputs[d])
  BY DEF Evaluate, IInv, TypeOK
<1>3. /\ future'[d].attempts = attempt[d] /\ future'[d].outputs = outputs[d]
      /\ future'[d].status = "success" => ~Rejected(outputs[d])
  BY <1>2 DEF Verdict
<1>4. Len(tried[d]) = attempt[d] - 1 /\ tried' = tried
  BY <1>1 DEF Evaluate, OutcomeInv, FailuresInv
<1>5. Disciplined(d)'
  <2>1. future'[d].attempts = Len(tried'[d]) + 1
    BY <1>1, <1>3, <1>4
  <2>2. Attempts' = Attempts
    BY DEF Attempts
  <2> QED  BY <1>4, <2>1, <2>2 DEF Disciplined
<1>6. Answered(d)'
  <2>1. outputs[d] # << >>
    BY <1>1
  <2> QED  BY <1>1, <1>3, <2>1 DEF Answered, Rejected
<1> QED  BY <1>5, <1>6

\* A device whose attempt has failed is tried again as long as it may be, and
\* keeps no answer.
LEMMA ClassifyOutcome ==
  ASSUME NEW d \in Devices, Outcomes, Classify(d)
  PROVE  Disciplined(d)' /\ Answered(d)'
<1> USE DEF Outcomes
<1>1. /\ raised[d] \in ExceptionKinds
      /\ tried'[d] \in Seq(Exceptions) /\ Len(tried'[d]) = attempt[d]
      /\ tried'[d][attempt[d]] = raised[d]
      /\ attempt[d] \in 1..Attempts /\ Attempts \in Nat
      /\ \A i \in 1..(attempt[d] - 1) : tried'[d][i] \in TransientKinds
  BY FailureRecorded DEF OutcomeInv
<1>2. future[d] = Pending
  BY DEF Classify, IInv, TypeOK, FutureInv
<1>3. CASE MayRetry(d)
  <2>1. future'[d] \in {Pending, Raised}
    BY <1>2, <1>3 DEF Classify, IInv, TypeOK
  <2>2. future'[d] \notin Verdicts'
    BY <2>1, VerdictMarks DEF Verdicts, Answers, Attempts
  <2> QED  BY <1>1, <2>2 DEF Disciplined, Answered, Attempts
<1>4. CASE ~MayRetry(d)
  <2>1. future'[d] = Verdict(d, classify_exception(raised[d]), << >>)
    BY <1>4 DEF Classify, IInv, TypeOK
  <2>2. /\ future'[d].attempts = attempt[d] /\ future'[d].outputs = << >>
        /\ future'[d].status # "success"
    BY <1>1, <2>1, TransientIsRetryable DEF Verdict
  <2>3. raised[d] \in TransientKinds => attempt[d] = Attempts
    BY <1>1, <1>4, TransientIsRetryable DEF MayRetry, Transient
  <2>4. Attempts' = Attempts
    BY DEF Attempts
  <2> QED  BY <1>1, <2>2, <2>3, <2>4 DEF Disciplined, Answered
<1> QED  BY <1>3, <1>4

\* Every step of a task keeps the outcomes right.
LEMMA OutcomesTask ==
  ASSUME NEW d \in Devices, Outcomes, Start(d) \/ Converse(d)
  PROVE  Outcomes'
<1>1. IInv' /\ OutcomeInv'
  BY TaskStep, AnswersStep, FailuresStep DEF Outcomes, OutcomeInv
<1>2. ASSUME NEW e \in Devices, UNCHANGED <<future[e], tried[e]>>
      PROVE  Disciplined(e)' /\ Answered(e)'
  BY <1>2 DEF Outcomes, Disciplined, Answered, Rejected, Verdicts, Answers, Attempts
<1>3. ASSUME NEW e \in Devices, e # d  PROVE Disciplined(e)' /\ Answered(e)'
  BY <1>2, <1>3, OtherTasks DEF Outcomes, IInv
<1>4. Disciplined(d)' /\ Answered(d)'
  <2>1. CASE Evaluate(d)
    BY <2>1, EvaluateOutcome
  <2>2. CASE Classify(d)
    BY <2>2, ClassifyOutcome
  <2>3. CASE Start(d) \/ Connect(d) \/ EnterEnable(d) \/ Send(d) \/ Close(d) \/ WakeUp(d)
    <3>1. UNCHANGED <<future, tried>>
      BY <2>3 DEF Start, Connect, EnterEnable, Send, Close, WakeUp, Move
    <3> QED  BY <3>1, <1>2
  <2> QED  BY <2>1, <2>2, <2>3 DEF Converse
<1> QED  BY <1>1, <1>3, <1>4 DEF Outcomes, Devices

\* In every state of every run, each task holds the answers and the failures of
\* the place it is at, and each outcome is as described.
THEOREM OutcomesHold == Spec => []Outcomes
<1>1. Init => Outcomes
  <2> SUFFICES ASSUME Init  PROVE Outcomes
    OBVIOUS
  <2>1. AnswersInv
    BY OptionsAssumption DEF Init, AnswersInv
  <2>2. FailuresInv
    BY DEF Init, FailuresInv
  <2>3. \A d \in Devices : Disciplined(d) /\ Answered(d)
    BY VerdictMarks, Constants DEF Init, Disciplined, Answered
  <2> QED  BY InitInv, <2>1, <2>2, <2>3 DEF Outcomes, OutcomeInv
<1>2. Outcomes /\ [Next]_vars => Outcomes'
  <2> SUFFICES ASSUME Outcomes, [Next]_vars  PROVE Outcomes'
    OBVIOUS
  <2>1. CASE \E d \in Devices : Start(d) \/ Converse(d)
    BY <2>1, OutcomesTask
  <2>2. CASE MainThread \/ Interrupt \/ UNCHANGED vars
    <3>1. IInv'
      BY NextInv DEF Outcomes
    <3>2. CASE UNCHANGED task
      <4>1. OutcomeInv'
        BY <3>2 DEF task, Outcomes, OutcomeInv, AnswersInv, FailuresInv
      <4>2. \A d \in Devices : Disciplined(d)' /\ Answered(d)'
        BY <3>2 DEF task, Outcomes, Disciplined, Answered, Rejected, Verdicts, Answers,
                    Attempts
      <4> QED  BY <3>1, <4>1, <4>2 DEF Outcomes, Devices
    <3>3. CASE Submit
      <4>0. UNCHANGED <<attempt, outputs, raised, future, tried>>
        BY <3>3 DEF Submit
      <4>1. \A d \in Devices :
              phase'[d] = phase[d] \/ (phase[d] = "new" /\ phase'[d] = "queued")
        <5>a. Len(Inventory) \in Nat /\ DOMAIN Inventory = 1..Len(Inventory)
          BY Constants
        <5>b. submitted \in 0..Len(Inventory) /\ submitted < Len(Inventory)
          BY <3>3 DEF Submit, Outcomes, IInv, TypeOK
        <5>1. submitted + 1 \in DOMAIN Inventory /\ submitted + 1 > submitted
          BY <5>a, <5>b
        <5>2. phase[Inventory[submitted + 1]] = "new"
          BY <5>1 DEF Outcomes, IInv, SubmitInv
        <5>3. PICK x : phase[x] = "new" /\ phase' = [phase EXCEPT ![x] = "queued"]
          BY <3>3, <5>2 DEF Submit
        <5>4. DOMAIN phase = Devices
          BY DEF Outcomes, IInv, TypeOK
        <5> QED  BY <5>3, <5>4
      <4>2. OutcomeInv'
        BY <4>0, <4>1 DEF Outcomes, OutcomeInv, AnswersInv, FailuresInv
      <4>3. \A d \in Devices : Disciplined(d)' /\ Answered(d)'
        BY <4>0 DEF Outcomes, Disciplined, Answered, Rejected, Verdicts, Answers, Attempts
      <4> QED  BY <3>1, <4>2, <4>3 DEF Outcomes, Devices
    <3> QED  BY <2>2, <3>2, <3>3 DEF MainThread, Yield, Return, Leave, Interrupt, vars
  <2> QED  BY <2>1, <2>2 DEF Next, Terminated
<1> QED  BY <1>1, <1>2, PTL DEF Spec

\* Only transient failures are retried, no device gets more attempts than --retries
\* allows, and one that is given up for a transient reason got them all
\* (connect.py:182-184).
THEOREM RetriesAreDisciplined == Spec => []RetryDiscipline
<1>1. Outcomes => RetryDiscipline
  BY DEF Outcomes, Disciplined, RetryDiscipline
<1> QED  BY <1>1, OutcomesHold, PTL

\* The outputs of a result are the answers of its last session, one for each
\* command, and a success holds no rejection (connect.py:216-232).
THEOREM AnswersAreOfOneSession == Spec => []OneSessionAnswers
<1>1. Outcomes => OneSessionAnswers
  BY DEF Outcomes, Answered, OneSessionAnswers
<1> QED  BY <1>1, OutcomesHold, PTL
=============================================================================
