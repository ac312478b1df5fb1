------------------------------ MODULE Workflow ------------------------------
(***************************************************************************)
(* The scheduled job around an audit: the check, whose failure does not end *)
(* the job, the HTML report, the job summary, the upload, and the failure   *)
(* raised again at the end.  .github/workflows/compliance.yml:26-80.        *)
(*                                                                          *)
(* External: GitHub Actions.  A step runs while no step before it failed,   *)
(* unless its `if` says always(); a step with continue-on-error that fails  *)
(* has the outcome "failure" and the conclusion "success".                  *)
(***************************************************************************)
EXTENDS Audit

CONSTANTS StepFaults    \* the steps that may fail by themselves: "install", "upload"

VARIABLES
    job,        \* the step the job is at, then "succeeded" or "failed"; "none" for an
                \* audit outside of the job
    failing,    \* whether a step has failed the job
    outcome,    \* the outcome of the step `check`
    summary     \* what the job summary holds

jobvars == <<job, failing, outcome, summary>>

NoReport == [written |-> "no report"]

\* A fresh checkout, and the options of the step `check`.
JobInit ==
    /\ Init
    /\ job \in {"none"} \cup (IF options = [live |-> FALSE, json |-> FALSE, report |-> "md"]
                              THEN {"install"} ELSE {})
    /\ failing = FALSE
    /\ outcome = "none" /\ summary = NoFile

Install ==
    /\ job = "install"
    /\ \/ job' = "check" /\ UNCHANGED <<failing, outcome>>
       \/ /\ "install" \in StepFaults
          /\ job' = "publish" /\ failing' = TRUE /\ outcome' = "skipped"
    /\ UNCHANGED <<vars, summary>>

\* The audit, with continue-on-error.  Nobody else works in the checkout, a backup of
\* which may be spoiled; to be killed is for the step what Ctrl-C is.
Check ==
    /\ job = "check"
    /\ Run \/ \E d \in Devices : Spoil(d)
    /\ IF pc' = "exited"
       THEN job' = "html" /\ outcome' = IF exit' = 0 THEN "success" ELSE "failure"
       ELSE UNCHANGED <<job, outcome>>
    /\ UNCHANGED <<failing, summary>>

\* Another audit, into another file, with continue-on-error.
WriteHtml ==
    /\ job = "html" /\ job' = "publish"
    /\ UNCHANGED <<vars, failing, outcome, summary>>

\* always(): what is there of reports/compliance.md.
PublishSummary ==
    /\ job = "publish" /\ job' = "upload"
    /\ summary' = IF file = NoFile THEN NoReport ELSE file
    /\ UNCHANGED <<vars, failing, outcome>>

\* always().
Upload ==
    /\ job = "upload" /\ job' = "fail"
    /\ failing' \in {failing} \cup (IF "upload" \in StepFaults THEN {TRUE} ELSE {})
    /\ UNCHANGED <<vars, outcome, summary>>

\* Mutant: the conclusion of the step, which is never a failure.
FailOnDrift_Conclusion ==
    /\ job = "fail"
    /\ job' = IF failing THEN "failed" ELSE "succeeded"
    /\ UNCHANGED <<vars, failing, outcome, summary>>

\* Skipped when a step before has failed, for the job has then failed already.
FailOnDrift ==
    /\ job = "fail"
    /\ job' = IF failing \/ outcome = "failure" THEN "failed" ELSE "succeeded"
    /\ UNCHANGED <<vars, failing, outcome, summary>>

AuditAlone == job = "none" /\ Next /\ UNCHANGED jobvars

JobNext == AuditAlone \/ Install \/ Check \/ WriteHtml \/ PublishSummary \/ Upload
           \/ FailOnDrift

JobSpec == JobInit /\ [][JobNext]_<<vars, jobvars>>

-----------------------------------------------------------------------------
(* Properties.                                                              *)

\* "The report has to be published before the job fails, or the summary is empty
\* exactly when someone needs it" (compliance.yml:45-47): a job that has ended has
\* a summary; one that succeeds has audited every device, and its summary is a
\* report without findings; one that fails for drift has a report that names
\* every device that drifted or was not audited.
JobTellsDrift ==
    /\ job \in {"fail", "succeeded", "failed"} => summary # NoFile
    /\ job = "succeeded" => /\ exit = 0
                            /\ summary = to_markdown(audited)
                            /\ summary.findings = << >>
                            /\ Len(summary.devices) = Len(Inventory)
    /\ job = "failed" /\ exit = 1 =>
          /\ summary = to_markdown(audited)
          /\ {i \in DOMAIN audited : ~compliant(audited[i])} # {}
          /\ \A i \in DOMAIN audited : ~compliant(audited[i]) =>
                \E n \in DOMAIN summary.findings :
                   summary.findings[n].device = audited[i].device

-----------------------------------------------------------------------------
(* The inductive invariant: what every step of the job preserves, besides    *)
(* the invariant of the audit.                                               *)

\* Once the check has ended the audit has, and its outcome is that of its code; the
\* check is skipped only in a job that has failed; and what was there of the report
\* when the summary was published is what there is.
JobInv ==
    /\ job # "none" => options = [live |-> FALSE, json |-> FALSE, report |-> "md"]
    /\ job \in {"install", "check"} => pc # "exited" /\ ~failing
    /\ job \in {"html", "publish", "upload", "fail", "succeeded", "failed"} =>
          \/ outcome = "success" /\ pc = "exited" /\ exit = 0
          \/ outcome = "failure" /\ pc = "exited" /\ exit # 0
          \/ outcome = "skipped" /\ pc # "exited" /\ failing
    /\ job \in {"upload", "fail", "succeeded", "failed"} =>
          summary = IF file = NoFile THEN NoReport ELSE file
    /\ job = "succeeded" => ~failing /\ outcome # "failure"

JobIInv == IInv /\ JobInv
=============================================================================
