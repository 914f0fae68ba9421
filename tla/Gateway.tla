------------------------------ MODULE Gateway ------------------------------
(***************************************************************************)
(* github-gateway (lambda/github-gateway/handler.py): fetch opens the      *)
(* execution's check run and replaces the snapshot with the commit it is   *)
(* for; select_files says what a Draft fixes run works on; report          *)
(* completes the check run, with the Draft fixes button if there is        *)
(* anything to draft; and when an execution fails, EventBridge has the     *)
(* check run completed without one.                                        *)
(***************************************************************************)
EXTENDS Mapper

CONSTANTS MaxChangedFiles   \* over this, the commit is too large to scan

VARIABLES
    checkRuns,       \* CascadeSec's check runs on the pull request's commits
    reviews          \* the executions whose suggestions are on it, one per review

gatewayVars == <<checkRuns, reviews>>

\* execution is its external_id.  What it says: nothing yet, that the commit was
\* not scanned, what the scan found, or that the scan did not finish.
CheckRun == [execution : Nat, status : {"in_progress", "completed"},
             says : {"nothing", "not-scanned", "findings", "unfinished"},
             unparsed : SUBSET Files,        \* the files it says were not scanned
             button : BOOLEAN]

NewCheckRun(e) == [execution |-> e, status |-> "in_progress", says |-> "nothing",
                   unparsed |-> {}, button |-> FALSE]

----------------------------------------------------------------------------
(* fetch *)

OpenCheckRun(e) ==
    /\ executions[e].state = "Fetch"
    /\ checkRuns' = Append(checkRuns, NewCheckRun(e))
    /\ executions' = [executions EXCEPT ![e].state = "Snapshot",
                                        ![e].check = Len(checkRuns) + 1]
    /\ UNCHANGED <<history, pushes, counts, quiet, scannerVars, reviews>>

\* What of a commit's tree a scanner reads, and what the snapshot has of it: with
\* the sources of the CDK apps that may be synthesized.
Kept(k) == {f \in Files \ (Templates \cup Sources) : history[k].content[f] # 0}

Snapshotted(k) ==
    Kept(k) \cup {f \in Sources : history[k].app /\ history[k].content[f] # 0}

\* The diff GitHub gives is the pull request's as it is now, whichever commit
\* the execution is for.
ChangedFiles(k) == history[pushes].changed \cap Snapshotted(k)

TouchedTemplates == {t \in Templates : Origin[t] \in history[pushes].changed}

\* Mutant: what was read within the limits is taken for the tree.
WhateverWasRead(k) == IF Cardinality(ChangedFiles(k)) > MaxChangedFiles THEN "too_many" ELSE "ok"

FetchStatus(k) ==
    CASE ~history[k].fits                        -> "too_large"
      [] Kept(k) = {} /\ ~history[k].app         -> "empty"
      [] Cardinality(ChangedFiles(k)) > MaxChangedFiles -> "too_many"
      [] OTHER                                   -> "ok"

\* replace_snapshot deletes what the commit does not have, templates included.
\* Over the limit on changed files the snapshot has been replaced already.
Snapshot(e) ==
    LET k  == executions[e].head
        st == FetchStatus(k)
    IN /\ executions[e].state = "Snapshot"
       /\ snapshot' = IF st \in {"ok", "too_many"} THEN [files |-> k, templates |-> 0]
                      ELSE snapshot
       /\ executions' = [executions EXCEPT ![e] =
            IF st # "ok" THEN [@ EXCEPT !.status = st, !.state = "Report"]
            ELSE [@ EXCEPT !.changed = ChangedFiles(k),
                           !.prefixes = IF history[k].app THEN TouchedTemplates ELSE {},
                           !.allowEmpty = Kept(k) = {},
                           !.state = IF history[k].app THEN "Synthesize" ELSE "Scan"]]
       /\ quiet' = (quiet \cap {executions[e].parent}) \cup {e}
       /\ UNCHANGED <<history, pushes, counts, records, seen, gatewayVars>>

\* The sandbox run and its Collect, which writes the templates into the scan
\* prefix as it is by then.  A run that fails is a result like any other.
Synthesize(e, ok) ==
    /\ executions[e].state = "Synthesize"
    /\ snapshot' = IF ok THEN [snapshot EXCEPT !.templates = executions[e].head] ELSE snapshot
    /\ Goto(e, "Scan")
    /\ Disturbs(e)
    /\ UNCHANGED <<history, pushes, counts, records, seen, gatewayVars>>

----------------------------------------------------------------------------
(* select_files *)

\* 0 of a file the snapshot does not have.
ContentOf(file) == IF snapshot.files # 0 /\ file \in Snapshotted(snapshot.files)
                   THEN history[snapshot.files].content[file] ELSE 0

\* _stale_reason: the fix was drafted on a file that has changed since.
IsStale(id) ==
    /\ records[id].status \in {"fix-proposed", "resolved"}
    /\ records[id].base # 0
    /\ ~records[id].gone
    /\ records[id].base # ContentOf(WorkFile(records[id].file))

\* A file the snapshot does not have is nothing to redraft on.
StaleFiles(ids) == {f \in {WorkFile(records[id].file) : id \in {i \in ids : IsStale(i)}} :
                        ContentOf(f) # 0}

OnChanged(e) == {id \in Unmarked : WorkFile(records[id].file) \in executions[e].changed}

MappedOn(ids) == {id \in ids : records[id].status = "mapped"}

\* Mutants of FilesToDraft: not only the changed files, and without the stale
\* fixes.
AnyFileToDraft(e) == {WorkFile(records[id].file) : id \in MappedOn(Unmarked)}
                        \cup StaleFiles(OnChanged(e))
OnlyMappedFiles(e) == {WorkFile(records[id].file) : id \in MappedOn(OnChanged(e))}

\* Changed files with a mapped finding, or with a stale fix.
FilesToDraft(e) == {WorkFile(records[id].file) : id \in MappedOn(OnChanged(e))}
                        \cup StaleFiles(OnChanged(e))

SelectFiles(e) ==
    LET files == FilesToDraft(e)
    IN /\ executions[e].state = "SelectFiles"
       /\ executions' = [executions EXCEPT ![e].files = files, ![e].left = files,
            ![e].state = IF files = {} THEN "Report" ELSE "Remediate"]
       /\ UNCHANGED <<history, pushes, counts, quiet, scannerVars, gatewayVars>>

----------------------------------------------------------------------------
(* report *)

\* Mutant: the marker is not looked for.
MarkerUnread(e) == FALSE

\* A review holds every suggestion of one execution, and is posted once: a report
\* made again finds the marker of the first.
Posted(e) == \E n \in DOMAIN reviews : reviews[n] = e

\* Verified fixes drafted on the snapshot: GitHub may be able to show one or not,
\* by the lines its diff has.
Suggestable(e) ==
    {id \in OnChanged(e) : /\ records[id].status = "fix-proposed"
                           /\ records[id].base # 0
                           /\ records[id].base = ContentOf(WorkFile(records[id].file))}

PostSuggestions(e, shown) ==
    /\ executions[e].state = "Report"
    /\ shown => Remediates(e) /\ executions[e].status = "ok" /\ Suggestable(e) # {}
    /\ reviews' = IF shown /\ ~Posted(e) THEN Append(reviews, e) ELSE reviews
    /\ Goto(e, "Complete")
    /\ UNCHANGED <<history, pushes, counts, quiet, scannerVars, checkRuns>>

\* The button: the same test select_files makes.
OffersFixes(e) ==
    /\ ~Remediates(e)
    /\ MappedOn(OnChanged(e)) # {} \/ StaleFiles(OnChanged(e)) # {}

Completed(c, says, button) ==
    [c EXCEPT !.status = "completed", !.says = says, !.button = button]

\* The check run the execution knows of is completed.
Complete(e) ==
    LET ok == executions[e].status = "ok"
    IN /\ executions[e].state = "Complete"
       /\ checkRuns' = [checkRuns EXCEPT ![executions[e].check] =
            IF ok THEN [Completed(@, "findings", OffersFixes(e))
                          EXCEPT !.unparsed = executions[e].errors]
            ELSE Completed(@, "not-scanned", FALSE)]
       /\ Goto(e, "RecordOffer")
       /\ UNCHANGED <<history, pushes, counts, quiet, scannerVars, reviews>>

\* OfferMade and RecordOffer, the last states (see Pipeline for the offer itself).
RecordOffer(e) ==
    /\ executions[e].state = "RecordOffer"
    /\ End(e, "Succeeded")
    /\ UNCHANGED <<history, pushes, counts, quiet, scannerVars, gatewayVars>>

----------------------------------------------------------------------------
(* on_execution_failed *)

ChecksOf(e) == {c \in DOMAIN checkRuns : checkRuns[c].execution = e}

\* Mutant: a completed one as well.
AnyCheckRun(c) == TRUE

InProgress(c) == checkRuns[c].status = "in_progress"

\* Every check run of the execution that is still in progress is completed; with
\* none at all, one is created.  EventBridge may deliver the failure again.
OnExecutionFailed(e) ==
    /\ executions[e].state = "Failed"
    /\ \/ /\ ChecksOf(e) # {}
          /\ \E c \in ChecksOf(e) : InProgress(c)
          /\ checkRuns' = [c \in DOMAIN checkRuns |->
                IF c \in ChecksOf(e) /\ InProgress(c)
                THEN Completed(checkRuns[c], "unfinished", FALSE) ELSE checkRuns[c]]
       \/ /\ ChecksOf(e) = {}
          /\ checkRuns' = Append(checkRuns, Completed(NewCheckRun(e), "unfinished", FALSE))
    /\ UNCHANGED <<executionVars, scannerVars, reviews>>

=============================================================================
