-------------------------------- MODULE Flow --------------------------------
(***************************************************************************)
(* A pull request from push to report.  GitHub delivers a webhook for      *)
(* every push and every click, none of them, or the same one twice;        *)
(* webhook-receiver (lambda/webhook-receiver/handler.py) starts an         *)
(* execution for each under a name that is the pull request's, the         *)
(* commit's and the trigger's; the executions run side by side over one    *)
(* table and one snapshot.                                                 *)
(***************************************************************************)
EXTENDS Gateway

CONSTANTS Outcomes   \* what the remediation agent makes of a file's findings

ASSUME FlowAssumption ==
    Outcomes \subseteq {"fix-proposed", "needs-human-only", "not-drafted", "mapped"}

flowVars == <<executionVars, scannerVars, gatewayVars>>

othersVars == <<scannerVars, gatewayVars>>

----------------------------------------------------------------------------
(* GitHub and the receiver *)

\* The author pushes the next commit, which changes the pull request's diff.
PushCommit ==
    /\ pushes < Len(history)
    /\ pushes' = pushes + 1
    /\ quiet' = {}
    /\ UNCHANGED <<history, executions, counts, othersVars>>

\* A pull_request event for the commit: opened, synchronized, reopened or ready
\* for review, delivered or redelivered.  A draft's is ignored, as if it were
\* never sent.
PullRequestEvent(k) ==
    /\ k \in 1..pushes
    /\ Start(k, Push, 0)
    /\ UNCHANGED othersVars

\* A click on Draft fixes, on a check run that shows it: for the check run's
\* commit, whatever the head is by now.
ClickDraftFixes(c) ==
    /\ checkRuns[c].button
    /\ Start(executions[checkRuns[c].execution].head, DraftFixes, checkRuns[c].execution)
    /\ UNCHANGED othersVars

\* A click on GitHub's own Re-run, on the check or on its suite.
ClickRerun(c, d) ==
    /\ checkRuns[c].status = "completed"
    /\ Start(executions[checkRuns[c].execution].head, Rerun(d), 0)
    /\ UNCHANGED othersVars

----------------------------------------------------------------------------
(* The remediation agent, as far as this module tells *)

\* The agent on one file (see Remediation and CdkDrafts): fixes that can no
\* longer land are reopened, and every finding left to draft gets a result, or
\* stays mapped where its draft failed.
Workable(file) ==
    {id \in DOMAIN records :
        /\ WorkFile(records[id].file) = file
        /\ ~records[id].gone
        /\ records[id].status \in {"mapped", "not-drafted"} \/ IsStale(id)}

Drafted(id, outcome) ==
    IF outcome = "fix-proposed"
    THEN [records[id] EXCEPT !.status = outcome, !.base = ContentOf(WorkFile(records[id].file))]
    ELSE [records[id] EXCEPT !.status = outcome]

RemediateFile(e, file, outcome) ==
    LET work == Workable(file)
    IN /\ executions[e].state = "Remediate"
       /\ file \in executions[e].left
       /\ records' = [id \in DOMAIN records |->
                        IF id \in work THEN Drafted(id, outcome) ELSE records[id]]
       /\ executions' = [executions EXCEPT ![e].left = @ \ {file},
            ![e].state = IF executions[e].left = {file} THEN "Report" ELSE @]
       /\ Disturbs(e)
       /\ UNCHANGED <<history, pushes, counts, snapshot, seen, gatewayVars>>

----------------------------------------------------------------------------

\* Nothing has run.
Opened ==
    /\ executions = <<>> /\ checkRuns = <<>> /\ reviews = <<>>
    /\ snapshot = NoRead /\ records = <<>> /\ seen = {}
    /\ quiet = {}
    /\ counts = [started |-> 0, faults |-> 0]

\* The first commit's execution has run alone, its app was synthesized and every
\* finding that may be is mapped; a Draft fixes run may have drafted a fix for
\* each since.  Both are states the one above leads to, from which more can
\* happen within the bounds.  Faults are left to the other.
ScannedOnce(drafted) ==
    LET k     == IF history[1].app THEN 1 ELSE 0
        found == On(1, Files \ Templates) \cup On(k, Templates)
        ended(trigger, parent, check) ==
            [NewExecution(1, trigger, parent) EXCEPT !.state = "Succeeded", !.check = check,
                !.scanned = TRUE, !.allowEmpty = Kept(1) = {}]
        said(e, button) == [Completed(NewCheckRun(e), "findings", button)
                              EXCEPT !.unparsed = ScanErrors([files |-> 1, templates |-> k])]
    IN /\ FetchStatus(1) = "ok"
       /\ snapshot = [files |-> 1, templates |-> k]
       /\ seen = found
       /\ records = [id \in {Id(i) : i \in found} |->
            LET new == New(Deduplicate(found)[id])
            IN IF Candidates(id) # {} /\ WorkFile(id.file) \in history[1].changed
               THEN [new EXCEPT !.status = IF drafted THEN "fix-proposed" ELSE "mapped",
                        !.base = IF drafted THEN history[1].content[WorkFile(id.file)] ELSE 0]
               ELSE new]
       /\ executions = IF drafted THEN <<ended(Push, 0, 1), ended(DraftFixes, 1, 2)>>
                       ELSE <<ended(Push, 0, 1)>>
       /\ checkRuns = IF drafted THEN <<said(1, TRUE), said(2, FALSE)>> ELSE <<said(1, TRUE)>>
       /\ reviews = IF drafted THEN <<2>> ELSE <<>>
       /\ quiet = IF drafted THEN {1, 2} ELSE {1}
       /\ counts = [started |-> 0, faults |-> MaxFaults[1]]
       /\ \E id \in DOMAIN records : records[id].status # "raw"

FlowInit ==
    /\ history \in Histories /\ pushes = 1
    /\ Opened \/ \E drafted \in BOOLEAN : ScannedOnce(drafted)

\* Step Functions takes an execution through its states.
ExecutionStep(e) ==
    \/ OpenCheckRun(e)
    \/ Snapshot(e)
    \/ \E ok \in BOOLEAN : Synthesize(e, ok)
    \/ Scan(e) /\ UNCHANGED gatewayVars
    \/ \E failed \in {{}, {"checkov"}} :
          (WriteFindings(e, failed) \/ ScannerError(e, failed)) /\ UNCHANGED gatewayVars
    \/ MapToControls(e) /\ UNCHANGED gatewayVars
    \/ \E mapped \in SUBSET executions[e].todo, yielded \in BOOLEAN :
          MapFindings(e, mapped, yielded) /\ UNCHANGED gatewayVars
    \/ SelectFiles(e)
    \/ \E file \in executions[e].left, outcome \in Outcomes : RemediateFile(e, file, outcome)
    \/ \E shown \in BOOLEAN : PostSuggestions(e, shown)
    \/ Complete(e)
    \/ RecordOffer(e)

FlowNext ==
    \/ PushCommit
    \/ \E k \in 1..pushes : PullRequestEvent(k)
    \/ \E c \in DOMAIN checkRuns :
          \/ ClickDraftFixes(c)
          \/ \E d \in Deliveries : ClickRerun(c, d)
    \/ \E e \in DOMAIN executions :
          \/ ExecutionStep(e)
          \/ Fails(e) /\ UNCHANGED othersVars
          \/ Retried(e) /\ UNCHANGED othersVars
          \/ OnExecutionFailed(e)

FlowSpec == FlowInit /\ [][FlowNext]_flowVars

\* Step Functions runs the executions on, and EventBridge delivers a failure
\* until the gateway has acted on it.
FlowFairSpec ==
    /\ FlowSpec
    /\ WF_flowVars(\E e \in DOMAIN executions : ExecutionStep(e) \/ OnExecutionFailed(e))

----------------------------------------------------------------------------
(* What the flow promises *)

Execution ==
    [head : 1..pushes, trigger : Trigger, parent : 0..Len(executions), state : Tasks \cup Ended,
     check : 0..Len(checkRuns), status : {"ok", "too_large", "too_many", "empty"},
     changed : SUBSET Files, prefixes : SUBSET Templates, allowEmpty : BOOLEAN,
     read : [files : 0..pushes, templates : 0..pushes], scanned : BOOLEAN,
     errors : SUBSET Files,
     todo : SUBSET Ids, files : SUBSET Files, left : SUBSET Files]

\* Every variable has its type: an execution past its fetch knows a check run of
\* its own, and one that is drafting has a file left.
FlowTypeOK ==
    /\ history \in Histories /\ pushes \in DOMAIN history
    /\ snapshot \in [files : 0..pushes, templates : 0..pushes]
    /\ \A id \in DOMAIN records : id \in Ids /\ records[id] \in Record
    /\ \A c \in DOMAIN checkRuns : checkRuns[c] \in CheckRun
    /\ \A e \in DOMAIN executions :
          LET x == executions[e]
          IN /\ x \in Execution
             /\ x.state \in Tasks \ {"Fetch"} => x.check \in ChecksOf(e)
             /\ x.state = "Remediate" => x.left # {} /\ x.left \subseteq x.files
             /\ x.files \subseteq x.changed

\* The records not marked gone are what the last scan found: the same rules on
\* the same resources at the same lines, none twice and none left out, whatever
\* has moved, gone and come back since the first scan.  A template that was not
\* synthesized keeps what was last found in it (_write_findings, _carry_moved_ids).
RecordsAreTheScan ==
    /\ {[file |-> records[id].file, rule |-> records[id].rule, resource |-> records[id].resource,
         line |-> records[id].line] : id \in Unmarked} = {Deduplicate(seen)[id] :
            id \in DOMAIN Deduplicate(seen)}
    /\ \A i, j \in Unmarked :
          i # j => <<records[i].file, records[i].rule, records[i].line>>
                     # <<records[j].file, records[j].rule, records[j].line>>

\* What has been mapped or drafted is in a file some commit of the pull request
\* changed, or in the template of an app it touched: the model calls a pull
\* request costs are its own (mapping-agent, only_files and only_prefixes).
OnlyTouchedIsMapped ==
    \A id \in DOMAIN records :
        records[id].status \notin {"raw", "needs-human-only"} =>
            \E k \in 1..pushes : WorkFile(records[id].file) \in history[k].changed

\* Whoever clicks or delivers twice, one execution runs for it: fixes are drafted
\* once for a commit, and a click on Re-run is one scan (execution_name).
OneExecutionEach ==
    \A a, b \in DOMAIN executions :
        executions[a].head = executions[b].head /\ executions[a].trigger = executions[b].trigger
        => a = b

\* An execution's suggestions are posted in one review, however often its report
\* is made (post_suggestions).
OneReviewEach == \A m, n \in DOMAIN reviews : reviews[m] = reviews[n] => m = n

\* The record of a finding, where it was last found.
RecordOf(i) == {id \in Unmarked : /\ SameGroup(records[id], i)
                                  /\ records[id].line = i.line}

\* A check run that says what was found is one whose execution has fetched the
\* whole commit and scanned it, or one that has nothing but a CDK app to scan:
\* a partial snapshot would read as clean (fetch, scan_directory, report).
WholeIsScanned ==
    \A c \in DOMAIN checkRuns :
        checkRuns[c].says = "findings" =>
            LET x == executions[checkRuns[c].execution]
            IN history[x.head].fits /\ (x.scanned \/ Kept(x.head) = {})

\* A finding's rule, file and line, which its id is made of, are on record.
OnRecord(i) == \E id \in Unmarked : Id(records[id]) = Id(i)

\* While nobody else works on the pull request, whatever is to be found in a file
\* of the commit a check run reports on is on record, or the check run names the
\* file (scan_directory, _write_findings, report).
FindingsAreScanned ==
    \A c \in DOMAIN checkRuns :
        LET e == checkRuns[c].execution
        IN checkRuns[c].says = "findings" /\ e \in quiet =>
              \A i \in history[executions[e].head].instances :
                  \/ i.file \in checkRuns[c].unparsed \cup Templates
                  \/ OnRecord(i)

\* A Draft fixes run has something to draft: the button was only shown because
\* of it, and the fetch, the scan and the mapping between have left it there,
\* unless somebody else worked on the pull request (report, select_files).
ButtonHasWork ==
    \A e \in DOMAIN executions :
        /\ Remediates(e)
        /\ executions[e].status = "ok"
        /\ executions[e].state \in {"Report", "Complete"}
        /\ executions[e].parent \in quiet
        => executions[e].files # {}

\* What a report said stands: the failure of a later state of its execution does
\* not say that the scan did not finish (on_execution_failed).
ReportStands ==
    [][\A c \in DOMAIN checkRuns :
          checkRuns[c].says \in {"findings", "not-scanned"} =>
              checkRuns'[c].says = checkRuns[c].says]_flowVars

\* A scan that finds what the last one found leaves the records as they are, the
\* ids that were carried over included: retried, or run again from GitHub, it takes
\* nothing back of what was decided since (_carry_moved_ids, _write_findings).
RescanKeepsRecords ==
    [][\A e \in DOMAIN executions :
          /\ executions[e].state = "WriteFindings" /\ executions'[e].state = "MapToControls"
          /\ seen' = seen
          => \A id \in Unmarked : id \in DOMAIN records' /\ records'[id] = records[id]]_flowVars

Told(e) == \E c \in DOMAIN checkRuns : /\ checkRuns[c].execution = e
                                       /\ checkRuns[c].status = "completed"

\* Every execution ends with a completed check run of its name: its report's, or
\* the backstop's (report, on_execution_failed, MoreToMap).
EveryRunIsTold == []<>(\A e \in DOMAIN executions : Told(e))

\* "A finding that moved lines keeps its id" (docs/write-back-spec.md): what is
\* found in two scans of a file, of one rule on one resource and once in each, is
\* one record before and after.
OnlyOf(i, found) == \A j \in found : SameGroup(i, j) => i = j

MovedKeepsItsId ==
    [][\A i \in seen, j \in seen' :
          SameGroup(i, j) /\ OnlyOf(i, seen) /\ OnlyOf(j, seen') => RecordOf(i) = RecordOf(j)']_flowVars

=============================================================================
