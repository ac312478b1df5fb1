---------------------------- MODULE WorkflowProofs ----------------------------
(***************************************************************************)
(* Proofs about Workflow, for any audit and any steps that may fail.  The   *)
(* steps of the audit are proved to keep its invariant in AuditProofs.      *)
(***************************************************************************)
EXTENDS Workflow, AuditProofs

-----------------------------------------------------------------------------
(* The steps of the job.                                                    *)

\* A step of the audit leaves its options alone.
LEMMA OptionsStay ==
  ASSUME Run \/ \E d \in Devices : Spoil(d)
  PROVE  options' = options
BY DEF Run, Collect, LoadGolden, Locate, Read, EvaluateLive, WriteReport, ShowResult,
       Interrupt, Spoil

\* What the job says of the audit depends on nothing else.
LEMMA AuditAloneKeepsInv ==
  ASSUME JobIInv, AuditAlone
  PROVE  JobIInv'
<1>1. IInv'
  BY NextKeepsInv DEF JobIInv, AuditAlone
<1>2. JobInv'
  BY DEF JobInv, AuditAlone, jobvars
<1> QED  BY <1>1, <1>2 DEF JobIInv

\* The end of the audit is the end of the check.
LEMMA CheckKeepsInv ==
  ASSUME JobIInv, Check
  PROVE  JobIInv'
<1>1. IInv'
  BY RunKeepsInv, SpoilKeepsInv DEF JobIInv, Check
<1>2. /\ options = [live |-> FALSE, json |-> FALSE, report |-> "md"]
      /\ ~failing /\ job = "check"
  BY DEF JobIInv, JobInv, Check
<1>3. options' = options /\ failing' = failing
  BY OptionsStay DEF Check
<1>4. CASE pc' = "exited"
  BY <1>1, <1>2, <1>3, <1>4 DEF Check, JobInv, JobIInv
<1>5. CASE pc' # "exited"
  BY <1>1, <1>2, <1>3, <1>5 DEF Check, JobInv, JobIInv
<1> QED  BY <1>4, <1>5

\* The other steps leave the audit as it is.
LEMMA StepKeepsInv ==
  ASSUME JobIInv, UNCHANGED vars,
         Install \/ WriteHtml \/ PublishSummary \/ Upload \/ FailOnDrift
  PROVE  JobIInv'
<1>1. IInv'
  BY NothingKeepsInv DEF JobIInv
<1>2. JobInv /\ UNCHANGED <<options, pc, exit, file>>
  BY DEF JobIInv, vars, output
<1>3. CASE Install
  BY <1>1, <1>2, <1>3 DEF Install, JobInv, JobIInv
<1>4. CASE WriteHtml
  BY <1>1, <1>2, <1>4 DEF WriteHtml, JobInv, JobIInv
<1>5. CASE PublishSummary
  BY <1>1, <1>2, <1>5 DEF PublishSummary, JobInv, JobIInv
<1>6. CASE Upload
  BY <1>1, <1>2, <1>6 DEF Upload, JobInv, JobIInv
<1>7. CASE FailOnDrift
  BY <1>1, <1>2, <1>7 DEF FailOnDrift, JobInv, JobIInv
<1> QED  BY <1>3, <1>4, <1>5, <1>6, <1>7

\* The job begins with the audit, or is not there.
LEMMA JobInitInv == JobInit => JobIInv
<1> SUFFICES ASSUME JobInit  PROVE JobIInv
  OBVIOUS
<1>1. IInv
  BY InitInv DEF JobInit
<1>2. pc \in {"collect", "golden"} /\ job \in {"none", "install"} /\ ~failing
  BY DEF JobInit, Init
<1>3. job = "install" => options = [live |-> FALSE, json |-> FALSE, report |-> "md"]
  BY DEF JobInit
<1>4. JobInv
  BY <1>2, <1>3 DEF JobInv
<1> QED  BY <1>1, <1>4 DEF JobIInv

\* A step that changes nothing keeps them.
LEMMA JobNothingKeepsInv == JobIInv /\ UNCHANGED <<vars, jobvars>> => JobIInv'
<1> SUFFICES ASSUME JobIInv, UNCHANGED <<vars, jobvars>>  PROVE JobIInv'
  OBVIOUS
<1>1. IInv'
  BY NothingKeepsInv DEF JobIInv
<1>2. JobInv /\ UNCHANGED <<options, pc, exit, file, job, failing, outcome, summary>>
  BY DEF JobIInv, vars, output, jobvars
<1>3. JobInv'
  BY <1>2 DEF JobInv
<1> QED  BY <1>1, <1>3 DEF JobIInv

-----------------------------------------------------------------------------
(* The theorems.                                                            *)

\* The job and its audit keep their invariants, step after step.
THEOREM JobInvariance == JobSpec => []JobIInv
<1>1. JobIInv /\ [JobNext]_<<vars, jobvars>> => JobIInv'
  <2> SUFFICES ASSUME JobIInv, [JobNext]_<<vars, jobvars>>  PROVE JobIInv'
    OBVIOUS
  <2>1. CASE AuditAlone
    BY <2>1, AuditAloneKeepsInv
  <2>2. CASE Check
    BY <2>2, CheckKeepsInv
  <2>3. CASE Install \/ WriteHtml \/ PublishSummary \/ Upload \/ FailOnDrift
    <3>1. UNCHANGED vars
      BY <2>3 DEF Install, WriteHtml, PublishSummary, Upload, FailOnDrift
    <3> QED  BY <2>3, <3>1, StepKeepsInv
  <2>4. CASE UNCHANGED <<vars, jobvars>>
    BY <2>4, JobNothingKeepsInv
  <2> QED  BY <2>1, <2>2, <2>3, <2>4 DEF JobNext
<1> QED  BY JobInitInv, <1>1, PTL DEF JobSpec

\* A report is not a missing one.
LEMMA ReportIsThere ==
  to_markdown(audited) # NoFile /\ NoReport # NoFile
<1>1. "numbers" \in DOMAIN to_markdown(audited)
  BY DEF to_markdown
<1>2. "numbers" \notin DOMAIN NoFile
  BY DEF NoFile
<1>3. NoReport.written # NoFile.written
  BY DEF NoReport, NoFile
<1> QED  BY <1>1, <1>2, <1>3

\* A function of no arguments is the empty sequence.
LEMMA NothingIsEmpty ==
  ASSUME NEW f, f = [n \in DOMAIN f |-> f[n]], DOMAIN f = {}
  PROVE  f = << >>
<1>1. f \in [1..0 -> {}]
  OBVIOUS
<1>2. f \in Seq({}) /\ Len(f) = 0
  BY <1>1
<1> QED  BY <1>2, EmptySeq

\* The report of an audit has a line per row, and findings for the rows that are not
\* compliant.
LEMMA ReportOfRows ==
  ASSUME TypeOK
  PROVE  /\ Len(to_markdown(audited).devices) = Len(audited)
         /\ (\A i \in DOMAIN audited : compliant(audited[i]))
               => to_markdown(audited).findings = << >>
         /\ \A i \in DOMAIN audited : ~compliant(audited[i]) =>
               /\ i \in DOMAIN to_markdown(audited).findings
               /\ to_markdown(audited).findings[i].device = audited[i].device
<1>1. to_markdown(audited).devices = Map(audited, DeviceLine)
  BY DEF to_markdown
<1>2. to_markdown(audited).findings = Findings(audited)
  BY DEF to_markdown
<1>3. Len(Map(audited, DeviceLine)) = Len(audited)
  <2> DEFINE lines == [n \in DOMAIN audited |-> DeviceLine(audited[n])]
  <2>1. Len(audited) \in Nat /\ DOMAIN audited = 1..Len(audited)
    BY LenProperties DEF TypeOK
  <2>2. lines \in [1..Len(audited) -> {DeviceLine(audited[n]) : n \in DOMAIN audited}]
    BY <2>1
  <2>3. Len(lines) = Len(audited)
    <3> HIDE DEF lines
    <3> QED  BY <2>1, <2>2
  <2> QED  BY <2>3 DEF Map
<1>4. ASSUME NEW i \in DOMAIN audited, ~compliant(audited[i])
      PROVE  i \in DOMAIN Findings(audited) /\ Findings(audited)[i].device = audited[i].device
  BY <1>4 DEF Findings, Pick, Places, compliant
<1>5. ASSUME \A i \in DOMAIN audited : compliant(audited[i])
      PROVE  Findings(audited) = << >>
  <2>1. DOMAIN Findings(audited) = {}
    BY <1>5 DEF Findings, Pick, Places, compliant
  <2>2. Findings(audited) = [n \in DOMAIN Findings(audited) |-> Findings(audited)[n]]
    BY DEF Findings, Pick
  <2> QED  BY <2>1, <2>2, NothingIsEmpty
<1> QED  BY <1>1, <1>2, <1>3, <1>4, <1>5

\* What the invariant says of the report and the outcome is what is told of the drift.
LEMMA InvTellsDrift == JobIInv => JobTellsDrift
<1> SUFFICES ASSUME JobIInv  PROVE JobTellsDrift
  OBVIOUS
<1>0. TypeOK /\ RowsInv /\ FileInv /\ JobInv
  BY DEF JobIInv, IInv, ToldInv
<1>1. ASSUME job \in {"fail", "succeeded", "failed"}  PROVE summary # NoFile
  BY <1>0, <1>1, ReportIsThere DEF JobInv
<1>2. ASSUME job \in {"succeeded", "failed"}, exit \in {0, 1}
      PROVE  /\ summary = to_markdown(audited) /\ Len(audited) = Len(Inventory)
             /\ exit = ExitCode
  <2>1. options.report = "md"
    BY <1>0, <1>2 DEF JobInv
  <2>2. file = Render("md", audited)
    BY <1>0, <1>2, <2>1 DEF FileInv
  <2>3. Render("md", audited) = to_markdown(audited)
    BY DEF Render, REPORT_RENDERERS
  <2>4. summary = file
    BY <1>0, <1>2, <2>2, <2>3, ReportIsThere DEF JobInv
  <2> QED  BY <1>0, <1>2, <2>2, <2>3, <2>4 DEF RowsInv
<1>3. ASSUME job = "succeeded"
      PROVE  /\ exit = 0 /\ summary = to_markdown(audited) /\ summary.findings = << >>
             /\ Len(summary.devices) = Len(Inventory)
  <2>1. exit = 0
    BY <1>0, <1>3 DEF JobInv
  <2>2. \A i \in DOMAIN audited : compliant(audited[i])
    BY <1>2, <1>3, <2>1 DEF ExitCode
  <2> QED  BY <1>0, <1>2, <1>3, <2>1, <2>2, ReportOfRows
<1>4. ASSUME job = "failed", exit = 1
      PROVE  /\ summary = to_markdown(audited)
             /\ {i \in DOMAIN audited : ~compliant(audited[i])} # {}
             /\ \A i \in DOMAIN audited : ~compliant(audited[i]) =>
                   \E n \in DOMAIN summary.findings :
                      summary.findings[n].device = audited[i].device
  <2>1. \E i \in DOMAIN audited : ~compliant(audited[i])
    BY <1>2, <1>4 DEF ExitCode
  <2> QED  BY <1>0, <1>2, <1>4, <2>1, ReportOfRows
<1> QED  BY <1>1, <1>3, <1>4 DEF JobTellsDrift

\* Whatever fails in the job, it ends with a summary: of every device, when it ends well,
\* and with every device that drifted, when it fails for drift.
THEOREM DriftTheorem == JobSpec => []JobTellsDrift
BY JobInvariance, InvTellsDrift, PTL
=============================================================================
