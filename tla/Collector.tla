------------------------------ MODULE Collector ------------------------------
(***************************************************************************)
(* Collecting from every device with a pool of threads: the loop of         *)
(* connect.collect (one session per attempt, retries on transient           *)
(* failures) run by the ThreadPoolExecutor of runner.run, whose main thread *)
(* submits, yields the results as they complete and returns them in         *)
(* inventory order, or is interrupted by Ctrl-C.                            *)
(* netauditor/runner.py, netauditor/connect.py.                             *)
(***************************************************************************)
EXTENDS Integers, Sequences, FiniteSets, Taxonomy

CONSTANTS Inventory,    \* sequence of the devices collected, each once
          Workers,      \* --workers
          Retries,      \* --retries, total attempts per device
          RetryDelay,   \* --retry-delay; argparse takes any number
          NumCommands,  \* the number of commands, no two alike, run on each device
          WithSecret,   \* the devices with an enable secret
          Hung,         \* the devices whose sessions may block for ever
          Replies,      \* the replies a command may get
          Exceptions    \* the kinds of exceptions a session may raise

Devices == {Inventory[i] : i \in DOMAIN Inventory}

\* load_inventory refuses a repeated name, and run() returns [] for no device.
ASSUME InventoryAssumption ==
    /\ Inventory \in Seq(Devices) /\ Inventory # << >>
    /\ \A i, j \in DOMAIN Inventory : Inventory[i] = Inventory[j] => i = j

ASSUME OptionsAssumption ==
    /\ Workers \in Int /\ Retries \in Int /\ RetryDelay \in Int
    /\ NumCommands \in Nat \ {0}

ASSUME EnvironmentAssumption ==
    /\ WithSecret \subseteq Devices /\ Hung \subseteq Devices
    /\ Replies \subseteq ReplyTypes
    /\ Exceptions \subseteq ExceptionKinds

NoException == "no_exception"

AtLeastOne(n) == IF n < 1 THEN 1 ELSE n

Attempts == AtLeastOne(Retries)

\* Mutant: one thread too few.
PoolSize_OneShort ==
    AtLeastOne((IF Workers < Len(Inventory) THEN Workers ELSE Len(Inventory)) - 1)

PoolSize == AtLeastOne(IF Workers < Len(Inventory) THEN Workers ELSE Len(Inventory))

VARIABLES
    main,       \* where the main thread is in run()
    submitted,  \* the number of devices submitted to the pool
    phase,      \* [device -> where its task is]
    attempt,    \* [device -> the attempt collect() is at]
    open,       \* the devices with an open session
    outputs,    \* [device -> the answers gathered by this attempt]
    raised,     \* [device -> the exception this attempt has raised]
    future,     \* [device -> the outcome of its future]
    results,    \* the devices whose future run() has taken the result of
    report,     \* what run() returned
    tried       \* history: [device -> the exceptions of its failed attempts]

task == <<phase, attempt, open, outputs, raised, future, tried>>
vars == <<main, submitted, results, report, task>>

Answers  == [attempt : 1..Attempts, reply : Replies]
Verdicts == [status : DeviceStatus, attempts : 1..Attempts, outputs : Seq(Answers)]
Pending  == [status |-> "pending"]   \* the future is not done
Raised   == [status |-> "raised"]    \* collect() raised instead of returning

Talking == {"enable", "send", "close"}
Busy    == {"connect", "answered", "failed", "sleep"} \cup Talking
Exited  == {"returned", "aborted", "crashed"}

TypeOK ==
    /\ main \in {"submitting", "collecting", "interrupted", "failing"} \cup Exited
    /\ submitted \in 0..Len(Inventory)
    /\ phase \in [Devices -> {"new", "queued", "done"} \cup Busy]
    /\ attempt \in [Devices -> 1..Attempts]
    /\ open \subseteq Devices
    /\ outputs \in [Devices -> Seq(Answers)]
    /\ raised \in [Devices -> Exceptions \cup {NoException}]
    /\ future \in [Devices -> Verdicts \cup {Pending, Raised}]
    /\ results \subseteq Devices
    /\ report \in Seq(Verdicts)
    /\ tried \in [Devices -> Seq(Exceptions)]

Init ==
    /\ main = "submitting"
    /\ submitted = 0
    /\ phase = [d \in Devices |-> "new"]
    /\ attempt = [d \in Devices |-> 1]
    /\ open = {}
    /\ outputs = [d \in Devices |-> << >>]
    /\ raised = [d \in Devices |-> NoException]
    /\ future = [d \in Devices |-> Pending]
    /\ results = {}
    /\ report = << >>
    /\ tried = [d \in Devices |-> << >>]

-----------------------------------------------------------------------------
(* The main thread: runner.run.                                             *)

Submit ==
    /\ main = "submitting"
    /\ submitted < Len(Inventory)
    /\ submitted' = submitted + 1
    /\ phase' = [phase EXCEPT ![Inventory[submitted + 1]] = "queued"]
    /\ main' = IF submitted' = Len(Inventory) THEN "collecting" ELSE "submitting"
    /\ UNCHANGED <<attempt, open, outputs, raised, future, results, report, tried>>

\* as_completed yields the finished futures in no particular order.
Yield(d) ==
    /\ main = "collecting"
    /\ phase[d] = "done"
    /\ d \notin results
    /\ IF future[d] = Raised
       THEN main' = "failing" /\ UNCHANGED results
       ELSE results' = results \cup {d} /\ UNCHANGED main
    /\ UNCHANGED <<submitted, report, task>>

\* Mutant: the results in another order than the inventory's.
Return_Reversed ==
    /\ main = "collecting"
    /\ results = Devices
    /\ main' = "returned"
    /\ report' = [i \in DOMAIN Inventory |-> future[Inventory[Len(Inventory) + 1 - i]]]
    /\ UNCHANGED <<submitted, results, task>>

Return ==
    /\ main = "collecting"
    /\ results = Devices
    /\ main' = "returned"
    /\ report' = [i \in DOMAIN Inventory |-> future[Inventory[i]]]
    /\ UNCHANGED <<submitted, results, task>>

\* One Ctrl-C: KeyboardInterrupt is raised in the main thread.
Interrupt ==
    /\ main \in {"submitting", "collecting"}
    /\ main' = "interrupted"
    /\ UNCHANGED <<submitted, results, report, task>>

\* Mutants: the pool is left without waiting; the devices that were never
\* submitted are waited for.
Drained_NoWait == TRUE
Drained_All == \A d \in Devices : phase[d] = "done"

\* Leaving the with block shuts the pool down and waits for every future,
\* the queued ones included, before the exception goes on.
Drained == \A i \in 1..submitted : phase[Inventory[i]] = "done"

Leave ==
    /\ main \in {"interrupted", "failing"}
    /\ Drained
    /\ main' = IF main = "interrupted" THEN "aborted" ELSE "crashed"
    /\ UNCHANGED <<submitted, results, report, task>>

-----------------------------------------------------------------------------
(* A pool thread: connect.collect on one device.                            *)

Running == {d \in Devices : phase[d] \in Busy}

\* The queue is first in, first out: everything submitted earlier has started.
Start(d) ==
    /\ phase[d] = "queued"
    /\ \A i, j \in DOMAIN Inventory :
          Inventory[i] = d /\ j < i => phase[Inventory[j]] # "queued"
    /\ Cardinality(Running) < PoolSize
    /\ phase' = [phase EXCEPT ![d] = "connect"]
    /\ UNCHANGED <<main, submitted, attempt, open, outputs, raised, future,
                   results, report, tried>>

\* The rest of a step that only moves d through an attempt.
Move(d, to) ==
    /\ phase' = [phase EXCEPT ![d] = to]
    /\ UNCHANGED <<main, submitted, attempt, future, results, report, tried>>

Raise(d) == \E e \in Exceptions : raised' = [raised EXCEPT ![d] = e]

\* netmiko_params and the connector: a session, or an exception.
Connect(d) ==
    /\ phase[d] = "connect"
    /\ \/ Move(d, "enable") /\ open' = open \cup {d} /\ UNCHANGED raised
       \/ Move(d, "failed") /\ Raise(d) /\ UNCHANGED open
    /\ UNCHANGED outputs

\* Mutant: enable mode fails outside the try block that disconnects.
EnterEnable_Leak(d) ==
    /\ phase[d] = "enable"
    /\ \/ Move(d, "send") /\ UNCHANGED raised
       \/ d \in WithSecret /\ Move(d, "failed") /\ Raise(d)
    /\ UNCHANGED <<open, outputs>>

\* Anything raised on the way to enable mode is swallowed, unless the
\* inventory gives the device a secret.
EnterEnable(d) ==
    /\ phase[d] = "enable"
    /\ \/ Move(d, "send") /\ UNCHANGED raised
       \/ d \in WithSecret /\ Move(d, "close") /\ Raise(d)
    /\ UNCHANGED <<open, outputs>>

\* The answers are a dictionary by command; the commands are taken to differ, as they
\* do but for a --command given twice, of which the second answer is kept.
Send(d) ==
    /\ phase[d] = "send"
    /\ \/ \E r \in Replies :
            /\ outputs' = [outputs EXCEPT
                             ![d] = Append(@, [attempt |-> attempt[d], reply |-> r])]
            /\ Move(d, IF Len(outputs'[d]) = NumCommands THEN "close" ELSE "send")
            /\ UNCHANGED raised
       \/ Move(d, "close") /\ Raise(d) /\ UNCHANGED outputs
    /\ UNCHANGED open

Rejected(answers) == \E i \in DOMAIN answers : output_problem(answers[i].reply)

Verdict(d, status, answers) ==
    [status |-> status, attempts |-> attempt[d], outputs |-> answers]

\* The finally clause disconnects, whatever happened and whatever it raises.
Close(d) ==
    /\ phase[d] = "close"
    /\ Move(d, IF raised[d] = NoException THEN "answered" ELSE "failed")
    /\ open' = open \ {d}
    /\ UNCHANGED <<outputs, raised>>

\* The else clause: the SSH layer succeeded, the replies decide.
Evaluate(d) ==
    /\ phase[d] = "answered"
    /\ phase' = [phase EXCEPT ![d] = "done"]
    /\ future' = [future EXCEPT ![d] = Verdict(d,
                    IF Rejected(outputs[d]) THEN "command_failed" ELSE "success",
                    outputs[d])]
    /\ UNCHANGED <<main, submitted, attempt, open, outputs, raised, results,
                   report, tried>>

Transient(d) == classify_exception(raised[d]) \in RETRYABLE_STATUSES

\* Mutant: one attempt too many.
MayRetry_OffByOne(d) == Transient(d) /\ attempt[d] <= Attempts

MayRetry(d) == Transient(d) /\ attempt[d] < Attempts

\* The except clause: sleep and go round, or give the failure as the result.
\* time.sleep refuses a negative delay: collect() itself then raises.
Classify(d) ==
    /\ phase[d] = "failed"
    /\ tried' = [tried EXCEPT ![d] = Append(@, raised[d])]
    /\ \/ /\ MayRetry(d) /\ RetryDelay >= 0
          /\ phase' = [phase EXCEPT ![d] = "sleep"]
          /\ UNCHANGED future
       \/ /\ MayRetry(d) /\ RetryDelay < 0
          /\ phase' = [phase EXCEPT ![d] = "done"]
          /\ future' = [future EXCEPT ![d] = Raised]
       \/ /\ ~MayRetry(d)
          /\ phase' = [phase EXCEPT ![d] = "done"]
          /\ future' = [future EXCEPT
                          ![d] = Verdict(d, classify_exception(raised[d]), << >>)]
    /\ UNCHANGED <<main, submitted, attempt, open, outputs, raised, results, report>>

\* Mutant: the answers of the attempt that failed are kept.
WakeUp_KeepOutputs(d) ==
    /\ phase[d] = "sleep"
    /\ phase' = [phase EXCEPT ![d] = "connect"]
    /\ attempt' = [attempt EXCEPT ![d] = @ + 1]
    /\ raised' = [raised EXCEPT ![d] = NoException]
    /\ UNCHANGED <<main, submitted, open, outputs, future, results, report, tried>>

WakeUp(d) ==
    /\ phase[d] = "sleep"
    /\ phase' = [phase EXCEPT ![d] = "connect"]
    /\ attempt' = [attempt EXCEPT ![d] = @ + 1]
    /\ outputs' = [outputs EXCEPT ![d] = << >>]
    /\ raised' = [raised EXCEPT ![d] = NoException]
    /\ UNCHANGED <<main, submitted, open, future, results, report, tried>>

Converse(d) == \/ Connect(d) \/ EnterEnable(d) \/ Send(d)
               \/ Close(d) \/ Evaluate(d) \/ Classify(d) \/ WakeUp(d)

Terminated == main \in Exited /\ UNCHANGED vars

-----------------------------------------------------------------------------
MainThread == Submit \/ (\E d \in Devices : Yield(d)) \/ Return \/ Leave

Next == \/ MainThread
        \/ Interrupt
        \/ \E d \in Devices : Start(d) \/ Converse(d)
        \/ Terminated

Spec == Init /\ [][Next]_vars

(* netmiko bounds every wait (conn_timeout, read_timeout), so a session goes *)
(* on, except with the devices of Hung; free threads take queued tasks.      *)
Fairness == /\ WF_vars(MainThread)
            /\ \A d \in Devices : WF_vars(Start(d))
            /\ \A d \in Devices \ Hung : WF_vars(Converse(d))

FairSpec == Spec /\ Fairness

-----------------------------------------------------------------------------
(* Properties.                                                              *)

\* "workers: max concurrent SSH sessions" (runner.py:41): whatever fails in an
\* attempt, the sessions open at any moment are no more than the threads of the
\* pool, and none is still open when its device has a result.
SessionsBounded ==
    /\ Cardinality(open) <= PoolSize
    /\ \A d \in open : future[d] = Pending

TransientKinds == {"no_tcp_session", "session_timeout", "gaierror",
                   "socket_timeout", "refused"}

\* "Only transient failures (unreachable / timeout) are retried" and `retries`
\* is the "total attempts, including the first" (connect.py:182-184): all failed
\* attempts but the last failed for a transient reason, the result counts the
\* attempts really made, and a device given up for a transient reason has had
\* all the attempts it was entitled to.
RetryDiscipline ==
    \A d \in Devices :
        LET failures == Len(tried[d])
            last     == tried[d][failures]
        IN  /\ failures <= Attempts
            /\ \A i \in 1..(failures - 1) : tried[d][i] \in TransientKinds
            /\ future[d] \in Verdicts =>
                 \/ future[d].attempts = failures + 1
                 \/ /\ future[d].attempts = failures
                    /\ failures > 0
                    /\ last \in TransientKinds => failures = Attempts

\* What is taken for a device's configuration (connect.py:216-232) was gathered
\* by one session, the last: a success holds an answer to every command, none of
\* them a rejection, and none left over from an attempt that failed half way.
OneSessionAnswers ==
    \A d \in Devices : future[d] \in Verdicts =>
        LET v == future[d] IN
        /\ v.outputs # << >> => /\ Len(v.outputs) = NumCommands
                                /\ \A i \in DOMAIN v.outputs :
                                      v.outputs[i].attempt = v.attempts
        /\ v.status = "success" => /\ v.outputs # << >>
                                   /\ ~Rejected(v.outputs)

\* However run() ends (runner.py:52-69), by its return, Ctrl-C or an exception
\* of collect(), it leaves no session open, no thread at work and no queued task.
NothingLeftBehind ==
    main \in Exited => open = {} /\ \A d \in Devices : phase[d] \in {"new", "done"}

\* run() comes to an end, after Ctrl-C as well, unless a session that blocks for
\* ever keeps its thread: no other device and no retry can hold it up.
RunEnds == \/ <>(main \in Exited)
           \/ \E d \in Hung : <>[](phase[d] \in Busy)

\* "keeps a single unreachable device from stalling the whole run" (runner.py:3-5):
\* while fewer devices hang than there are workers, every other device that was
\* submitted gets its result.
HealthyServed ==
    Cardinality(Hung) < AtLeastOne(Workers) =>
        \A d \in Devices \ Hung : phase[d] = "queued" ~> phase[d] = "done"

\* The run implements Collection: a future is a verdict once it holds a result,
\* and run() gives up when an exception leaves it.
Abstract == INSTANCE Collection WITH
    MaxSessions <- PoolSize,
    Undecided   <- Pending,
    verdict     <- [d \in Devices |-> IF future[d] = Raised THEN Pending ELSE future[d]],
    talking     <- open,
    fate        <- IF main = "returned" THEN "returned"
                   ELSE IF main \in Exited THEN "gave_up" ELSE "running"

ImplementsCollection == Abstract!Spec

-----------------------------------------------------------------------------
(* The inductive invariant behind the safety properties.                    *)

AttemptInv == \A d \in Devices : /\ phase[d] = "sleep" => attempt[d] < Attempts
                                 /\ phase[d] = "failed" => raised[d] # NoException

SessionInv == \A d \in Devices : d \in open <=> phase[d] \in Talking

PoolInv == Cardinality(Running) <= PoolSize

FutureInv == \A d \in Devices : phase[d] = "done" <=> future[d] # Pending

SubmitInv ==
    /\ \A i \in DOMAIN Inventory : phase[Inventory[i]] = "new" <=> i > submitted
    /\ main \in {"collecting", "failing", "returned"} => submitted = Len(Inventory)

ResultInv ==
    /\ \A d \in results : phase[d] = "done" /\ future[d] # Raised
    /\ main = "returned" => results = Devices
    /\ main \in {"aborted", "crashed"} => Drained
    /\ main # "returned" => report = << >>

IInv == /\ TypeOK /\ AttemptInv /\ SessionInv /\ PoolInv
        /\ FutureInv /\ SubmitInv /\ ResultInv

(* And behind what the outcomes say: where a task is tells the answers it    *)
(* holds, and the failures so far.                                           *)

AnswersInv ==
    \A d \in Devices :
        /\ phase[d] \in {"new", "queued", "connect", "enable", "send", "answered"}
              => raised[d] = NoException
        /\ phase[d] \in {"new", "queued", "connect", "enable"} => outputs[d] = << >>
        /\ phase[d] = "send" => Len(outputs[d]) < NumCommands
        /\ phase[d] \in {"close", "answered"} /\ raised[d] = NoException
              => Len(outputs[d]) = NumCommands
        /\ \A i \in DOMAIN outputs[d] : outputs[d][i].attempt = attempt[d]

FailuresInv ==
    \A d \in Devices : future[d] = Pending =>
        /\ Len(tried[d]) = IF phase[d] = "sleep" THEN attempt[d] ELSE attempt[d] - 1
        /\ \A i \in DOMAIN tried[d] : tried[d][i] \in TransientKinds

OutcomeInv == AnswersInv /\ FailuresInv
=============================================================================
