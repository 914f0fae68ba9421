------------------------------ MODULE ReviewApi ------------------------------
(***************************************************************************)
(* review-api (lambda/review-api/handler.py): the dashboard's and the      *)
(* CLI's decisions on fixes (_post_review), and their requests to commit   *)
(* (_post_commit).  A decision is several writes with nothing around them: *)
(* the event first, then an edit's content, the record, and one write and  *)
(* one event for every finding it reopens.                                 *)
(*                                                                         *)
(* A Reviewer is one request to the API being served.  A request the API   *)
(* refuses (401, 403, 404, 409) changes nothing and is a guard here.       *)
(***************************************************************************)
EXTENDS Records

CONSTANTS
    Reviewers,     \* POSTs to /reviews being served at once
    Decisions,     \* the actions reviewers use: approved, edited, rejected
    MaxDecisions,  \* bound: decisions taken
    DashboardRequests, \* requests the dashboard may make
    ApiFaults      \* of "lost", "ambiguous" (the invoke that hands a request to
                   \* the committer raises) and "killed" (the API's own run ends)

ASSUME ReviewAssumption ==
    /\ Decisions \subseteq {"approved", "edited", "rejected"}
    /\ MaxDecisions \in Nat
    /\ DashboardRequests \subseteq Requests

VARIABLES
    review,        \* the decisions being served
    decisions,     \* decisions taken
    asking         \* each POST /commit: its step, and what it confirms

reviewVars == <<review, decisions, asking>>

NoReview == [pc |-> "idle", finding |-> 0, action |-> "none", copy |-> NoFix,
             diff |-> NoFix, content |-> NoContent, now |-> 0, reopen |-> {}]
NotAsked == [pc |-> "no", confirm |-> {}]

Decision == [pc : {"idle", "event", "upload", "update", "cascade", "reopen"},
             finding : Findings \cup {0}, action : Actions \cup {"none"},
             copy : Fix \cup {NoFix}, diff : Diffs \cup {NoFix},
             content : Content \cup {NoContent}, now : Nat,
             reopen : SUBSET [finding : Findings, freed : BOOLEAN]]
Ask      == [pc : {"no", "checked", "recorded", "failing", "done"},
             confirm : SUBSET Confirmation]

\* A decision with what its step works on: the finding, the fix an approval or
\* an edit is of, and somebody left to reopen.
DecisionAtStep ==
    {d \in Decision :
        /\ d.pc # "idle" => d.finding \in Findings
        /\ d.pc # "idle" /\ d.action \in Resolving => d.copy \in Fix /\ d.diff \in Diffs
        /\ d.pc = "reopen" => d.reopen # {}}

ReviewTypeOK ==
    /\ review \in [Reviewers -> DecisionAtStep]
    /\ decisions \in Nat
    /\ asking \in [Requests -> Ask]

ReviewInit == /\ review = [v \in Reviewers |-> NoReview]
              /\ decisions = 0
              /\ asking = [r \in Requests |-> NotAsked]

----------------------------------------------------------------------------
(* _post_review: the checks and the event *)

\* _unmet_prerequisites is empty: every link was approved, by its latest
\* event, with the diff this fix was drafted on.
PrerequisitesMet(f) ==
    \A k \in DOMAIN fix[f].after :
        LET link == fix[f].after[k]
        IN /\ fix[link.finding] # NoFix
           /\ latest[link.finding].action \in Resolving
           /\ fix[link.finding].diff = link.diff

MayDecide(f, action) ==
    action \in Resolving => fix[f] # NoFix /\ PrerequisitesMet(f)

\* The whole file the reviewer sent: the corrected file with this finding's
\* change replaced by theirs.
Edited(content, f, diff) ==
    [content EXCEPT !.fixes = {c \in @ : c[1] # f} \cup {<<f, diff>>}]

\* The finding and its prerequisites are read and the decision checked.  An
\* edit starts from the stored corrected file and may give any diff.
Decide(v, f, action, diff) ==
    /\ review[v].pc = "idle"
    /\ decisions < MaxDecisions
    /\ MayDecide(f, action)
    /\ action = "edited" => stored[f] # NoContent
    /\ decisions' = decisions + 1
    /\ review' = [review EXCEPT ![v] =
        [NoReview EXCEPT !.pc = "event", !.finding = f, !.action = action, !.copy = fix[f],
            !.diff = CASE action = "edited"   -> diff
                       [] action = "approved" -> fix[f].diff
                       [] OTHER               -> NoFix,
            !.content = IF action = "edited" THEN Edited(stored[f], f, diff)
                        ELSE NoContent]]
    /\ UNCHANGED <<recordVars, asking>>

\* The event, under the decision's own time.
PutDecision(v) ==
    LET f      == review[v].finding
        action == review[v].action
    IN /\ review[v].pc = "event"
       /\ clock' = clock + 1
       /\ latest' = [latest EXCEPT ![f] = After(@, clock + 1, Suffix.decision, action)]
       /\ approvals' = IF action \in Resolving THEN approvals \cup {<<f, review[v].diff>>}
                       ELSE approvals
       /\ review' = [review EXCEPT ![v].now = clock + 1,
            ![v].pc = CASE action = "edited" -> "upload"
                        [] action = "rejected" /\ review[v].copy = NoFix -> "cascade"
                        [] OTHER -> "update"]
       /\ UNCHANGED <<branch, snapshot, stored, findingVars, request, checks, queued,
                      decisions, asking>>

----------------------------------------------------------------------------
(* _post_review: the record *)

\* Mutant of UploadEdit: an edit's file is not stored.
UploadForgotten(v) ==
    /\ review[v].pc = "upload"
    /\ review' = [review EXCEPT ![v].pc = "update"]
    /\ UNCHANGED <<recordVars, decisions, asking>>

UploadEdit(v) ==
    LET f == review[v].finding
    IN /\ review[v].pc = "upload"
       /\ stored' = [stored EXCEPT ![f] = review[v].content]
       /\ review' = [review EXCEPT ![v].pc = "update"]
       /\ UNCHANGED <<branch, snapshot, findingVars, eventVars, request, checks, queued,
                      approvals, decisions, asking>>

\* Unconditional.  An edit writes back the proposed_fix it read at the start,
\* with the new diff and no self-check.
UpdateFinding(v) ==
    LET f == review[v].finding
        action == review[v].action
    IN /\ review[v].pc = "update"
       /\ status' = [status EXCEPT ![f] =
                        IF action = "rejected" THEN "needs-human-only" ELSE "resolved"]
       /\ fix' = IF action # "edited" THEN fix
                 ELSE [fix EXCEPT ![f] = [review[v].copy EXCEPT !.diff = review[v].diff,
                                                                !.passed = FALSE]]
       /\ review' = [review EXCEPT ![v] =
                        IF action = "approved" THEN NoReview ELSE [@ EXCEPT !.pc = "cascade"]]
       /\ UNCHANGED <<branch, snapshot, stored, superseder, gone, eventVars, request,
                      checks, queued, approvals, decisions, asking>>

----------------------------------------------------------------------------
(* _reopen_dependents *)

NamedBy(f, g) == /\ fix[g] # NoFix
                 /\ \E k \in DOMAIN fix[g].after : fix[g].after[k].finding = f

\* Mutant of Dependents: nothing depends on a fix.
NoDependents(f) == {}

\* The findings are read once: fixes drafted on f, and whatever f or one of
\* those had superseded.
Dependents(f) == {g \in Findings \ {f} : NamedBy(f, g)}
ReadDependents(v) ==
    LET f == review[v].finding
        roots == {f} \cup Dependents(f)
        freed == {g \in Findings \ {f} : superseder[g] \in roots}
        todo  == {[finding |-> g, freed |-> g \in freed] : g \in Dependents(f) \cup freed}
    IN /\ review[v].pc = "cascade"
       /\ review' = [review EXCEPT ![v] =
            IF todo = {} THEN NoReview ELSE [@ EXCEPT !.pc = "reopen", !.reopen = todo]]
       /\ UNCHANGED <<recordVars, decisions, asking>>

\* One of them: an unconditional write to mapped and a system event, stamped
\* with the decision's time.
Reopen(v) ==
    LET todo == review[v].reopen
        next == CHOOSE t \in todo : \A u \in todo : t.finding <= u.finding
        g    == next.finding
    IN /\ review[v].pc = "reopen"
       /\ status' = [status EXCEPT ![g] = "mapped"]
       /\ superseder' = IF next.freed THEN [superseder EXCEPT ![g] = 0] ELSE superseder
       /\ latest' = [latest EXCEPT ![g] =
                        After(@, review[v].now, Suffix.system, "reopened")]
       /\ review' = [review EXCEPT ![v] =
            IF todo = {next} THEN NoReview
            ELSE [review[v] EXCEPT !.reopen = todo \ {next}]]
       /\ UNCHANGED <<branch, snapshot, stored, fix, gone, clock, request, checks, queued,
                      approvals, decisions, asking>>

\* The API's own run ends between two writes, or a store's call raises.
DecisionDies(v) ==
    /\ "killed" \in ApiFaults
    /\ review[v].pc # "idle"
    /\ review' = [review EXCEPT ![v] = NoReview]
    /\ UNCHANGED <<recordVars, decisions, asking>>

----------------------------------------------------------------------------
(* _post_commit *)

\* The API's own copy of plan_commit and of its approved_tip.
plan_commit(contents, head) == PlanCommit(fix, gone, latest, contents, head)

\* _preview_plan: plan_commit over the snapshot.
Preview == plan_commit(stored, snapshot)
Committable == {[file |-> p.file, tip |-> p.tip, chain |-> <<>>, content |-> p.content] :
                    p \in {q \in Preview : q.outcome = "commit"}}

\* No request is in progress and the plan still offers what is confirmed.  Not
\* a lock: two requests may both pass this before either is recorded.
AskCommit(r) ==
    /\ r \in DashboardRequests
    /\ asking[r].pc = "no"
    /\ \A s \in Requests : request[s].status \notin Active
    /\ \E confirm \in SUBSET (Committable \cap Confirmation) :
        /\ confirm # {}
        /\ asking' = [asking EXCEPT ![r] = [pc |-> "checked", confirm |-> confirm]]
    /\ UNCHANGED <<recordVars, review, decisions>>

RecordRequest(r) ==
    /\ asking[r].pc = "checked"
    /\ request' = [request EXCEPT ![r] = [BlankRequest EXCEPT
                    !.status = "requested", !.confirmed = asking[r].confirm]]
    /\ asking' = [asking EXCEPT ![r] = [pc |-> "recorded", confirm |-> {}]]
    /\ UNCHANGED <<branch, snapshot, stored, findingVars, eventVars, checks, queued,
                   approvals, review, decisions>>

Invoke(r) ==
    /\ asking[r].pc = "recorded"
    /\ queued' = queued \cup {r}
    /\ asking' = [asking EXCEPT ![r].pc = "done"]
    /\ UNCHANGED <<branch, snapshot, stored, findingVars, eventVars, request, checks,
                   approvals, review, decisions>>

\* The invoke raises.  It may have been accepted all the same: a timeout says
\* nothing about the other side.
InvokeFails(r) ==
    /\ asking[r].pc = "recorded"
    /\ \/ "lost" \in ApiFaults /\ UNCHANGED queued
       \/ "ambiguous" \in ApiFaults /\ queued' = queued \cup {r}
    /\ asking' = [asking EXCEPT ![r].pc = "failing"]
    /\ UNCHANGED <<branch, snapshot, stored, findingVars, eventVars, request, checks,
                   approvals, review, decisions>>

\* Unconditional.
MarkNotHandedOver(r) ==
    /\ asking[r].pc = "failing"
    /\ request' = [request EXCEPT ![r].status = "failed"]
    /\ asking' = [asking EXCEPT ![r].pc = "done"]
    /\ UNCHANGED <<branch, snapshot, stored, findingVars, eventVars, checks, queued,
                   approvals, review, decisions>>

\* The same, between recording a request and handing it over.
Killed(r) ==
    /\ "killed" \in ApiFaults
    /\ asking[r].pc = "recorded"
    /\ asking' = [asking EXCEPT ![r].pc = "done"]
    /\ UNCHANGED <<recordVars, review, decisions>>

----------------------------------------------------------------------------

Serve(v) == PutDecision(v) \/ UploadEdit(v) \/ UpdateFinding(v) \/ ReadDependents(v) \/ Reopen(v)
HandOver(r) == RecordRequest(r) \/ Invoke(r) \/ InvokeFails(r) \/ MarkNotHandedOver(r)

ReviewNext ==
    \/ \E v \in Reviewers, f \in Findings, action \in Decisions, diff \in Diffs :
        /\ action # "edited" => diff = CHOOSE d \in Diffs : TRUE
        /\ Decide(v, f, action, diff)
    \/ \E v \in Reviewers : Serve(v) \/ DecisionDies(v)
    \/ \E r \in Requests : AskCommit(r) \/ HandOver(r) \/ Killed(r)

=============================================================================
