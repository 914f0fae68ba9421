----------------------------- MODULE Executions -----------------------------
(***************************************************************************)
(* The pipeline's executions (terraform/step_functions.tf) on one pull     *)
(* request, and the pull request itself.  webhook-receiver starts them by  *)
(* name; each then takes its own path through the states, at its own pace, *)
(* and nothing orders two of them.  A state runs one Lambda: the module of *)
(* that Lambda says what it does (Scanner, Mapper, Gateway), this one what *)
(* the state machine keeps between two of them.                            *)
(***************************************************************************)
EXTENDS Integers, FiniteSets, Sequences

CONSTANTS
    Files,           \* paths of infrastructure code and of CDK sources
    Templates,       \* those of synthesized CDK templates
    Origin,          \* the source file of a template's resources
    Histories,       \* what the pull request's author may push, in order
    Deliveries,      \* the clicks on Re-run, by delivery id
    MaxExecutions,   \* bound: executions started from an initial state
    MaxFaults        \* bound: failures and retries while the n-th commit is the head

\* One commit of the pull request: what is to be found in each file, the files'
\* content, those no tool can parse, the files of the diff, and whether it has a
\* CDK app that may be synthesized.
Commit == [instances : SUBSET [file : Files, rule : Nat, resource : Nat, line : Nat],
           content : [Files -> Nat],       \* 0: the commit has no such file
           unparsed : SUBSET Files,
           changed : SUBSET Files,
           app : BOOLEAN,
           fits : BOOLEAN]                 \* is the archive within the limits?

ASSUME ExecutionsAssumption ==
    /\ Templates \subseteq Files
    /\ Origin \in [Templates -> Files \ Templates]
    /\ \A h \in Histories : h \in Seq(Commit) /\ Len(h) > 0
    /\ MaxExecutions \in Nat
    /\ \A h \in Histories : \A k \in DOMAIN h : MaxFaults[k] \in Nat

VARIABLES
    history,         \* the pull request's commits, those not yet pushed included
    pushes,          \* how many are pushed: the last of them is the head
    executions,      \* the executions, in the order they were started
    counts,          \* the executions started and the faults so far
    quiet            \* the executions since whose fetch nobody else has worked on
                     \* the pull request (observed by properties alone)

executionVars == <<history, pushes, executions, counts, quiet>>

\* A template's finding is worked on in the source that made its resource, any
\* other in its own file (remediation, the Draft fixes button, the offer).
WorkFile(file) == IF file \in Templates THEN Origin[file] ELSE file

Sources == {Origin[t] : t \in Templates}

----------------------------------------------------------------------------
(* The state machine *)

\* The states that call a Lambda or the sandbox.  Fetch is two of them, since
\* the check run is opened before the snapshot is read; so are the scanner's
\* run, the mapping agent's and Report's.
Tasks == {"Fetch", "Snapshot", "Synthesize", "Scan", "WriteFindings", "MapToControls",
          "Mapping", "SelectFiles", "Remediate", "Report", "Complete", "RecordOffer"}

Ended == {"Succeeded", "Failed"}

Trigger == [kind : {"push", "fixes", "rerun"}, delivery : Deliveries \cup {0}]

Push == [kind |-> "push", delivery |-> 0]
DraftFixes == [kind |-> "fixes", delivery |-> 0]
Rerun(d) == [kind |-> "rerun", delivery |-> d]

\* "remediate" of the input: only a Draft fixes run drafts.
Remediates(e) == executions[e].trigger.kind = "fixes"

NoRead == [files |-> 0, templates |-> 0]

Goto(e, state) == executions' = [executions EXCEPT ![e].state = state]

\* Execution e works on the findings or on the snapshot: of the others, only
\* the one whose button started it is still undisturbed.
Disturbs(e) == quiet' = quiet \cap {e, executions[e].parent}

\* An execution that has ended has no state of its own left.
End(e, state) ==
    executions' = [executions EXCEPT ![e] =
        [@ EXCEPT !.state = state, !.changed = {}, !.prefixes = {}, !.todo = {},
                  !.files = {}, !.left = {}, !.errors = {}, !.read = NoRead]]

Fault == /\ counts.faults < MaxFaults[pushes]
         /\ counts' = [counts EXCEPT !.faults = @ + 1]

\* A Lambda that raises, or one that runs out of time: the execution fails, and
\* EventBridge tells the gateway.
Fails(e) ==
    /\ executions[e].state \in Tasks \ {"Synthesize"}
    /\ Fault
    /\ End(e, "Failed")
    /\ UNCHANGED <<history, pushes, quiet>>

\* The first half of the state's Lambda, where it has two; RecordOffer is a state
\* of its own, and Report's answer is what can be lost before it.
Again(state) == CASE state = "Snapshot"      -> "Fetch"
                  [] state = "WriteFindings" -> "Scan"
                  [] state = "Mapping"       -> "MapToControls"
                  [] state \in {"Complete", "RecordOffer"} -> "Report"
                  [] OTHER                   -> state

\* A transient error of the service: the call is made again, whatever the first
\* one did.
Retried(e) ==
    /\ executions[e].state \in Tasks
    /\ Again(executions[e].state) # executions[e].state
    /\ Fault
    /\ Goto(e, Again(executions[e].state))
    /\ UNCHANGED <<history, pushes, quiet>>

NewExecution(head, trigger, parent) ==
    [head |-> head, trigger |-> trigger, parent |-> parent, state |-> "Fetch", check |-> 0,
     status |-> "ok", changed |-> {}, prefixes |-> {}, allowEmpty |-> FALSE, read |-> NoRead,
     scanned |-> FALSE, errors |-> {}, todo |-> {}, files |-> {}, left |-> {}]

\* Mutant: the name is as good as new, by the time of the delivery say.
StartAnew(head, trigger, parent) ==
    /\ counts.started < MaxExecutions
    /\ counts' = [counts EXCEPT !.started = @ + 1]
    /\ executions' = Append(executions, NewExecution(head, trigger, parent))
    /\ UNCHANGED <<history, pushes, quiet>>

\* execution_name: the same for the same commit and trigger, and only then.
NameOf(head, trigger) == <<head, trigger>>

\* One execution per name: Step Functions refuses a name used in the last 90
\* days, whatever became of the execution that has it.
Start(head, trigger, parent) ==
    /\ counts.started < MaxExecutions
    /\ counts' = [counts EXCEPT !.started = @ + 1]
    /\ \A e \in DOMAIN executions :
          NameOf(executions[e].head, executions[e].trigger) # NameOf(head, trigger)
    /\ executions' = Append(executions, NewExecution(head, trigger, parent))
    /\ UNCHANGED <<history, pushes, quiet>>

=============================================================================
