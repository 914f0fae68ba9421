------------------------------ MODULE Pipeline ------------------------------
(***************************************************************************)
(* The pipeline's other stages, as far as the write-back depends on them:  *)
(* github-gateway's fetch replaces the snapshot with the commit its        *)
(* execution was started for, iac-scanner marks the findings that stopped  *)
(* firing there, report plans the offer its check run shows, and the state *)
(* machine stores the offer after that.  Each push starts an execution of  *)
(* its own and nothing orders two of them, so commits are fetched in any   *)
(* order.                                                                  *)
(***************************************************************************)
EXTENDS Remediation

CONSTANTS
    MaxFetches,      \* bound: commits fetched, the first one included
    MaxReports,      \* bound: check runs that show an offer
    ClickRequests    \* requests a Commit fixes click may make

ASSUME PipelineAssumption == MaxFetches \in Nat /\ MaxReports \in Nat /\ ClickRequests \subseteq Requests

VARIABLES
    fetched,         \* the commits whose execution has fetched them
    unscanned        \* is there a snapshot no scan has read?

pipelineVars == <<fetched, unscanned>>

PipelineTypeOK == /\ fetched \subseteq Nat /\ IsFiniteSet(fetched)
                  /\ unscanned \in BOOLEAN

PipelineInit == fetched = {1} /\ unscanned = FALSE

\* replace_snapshot.
Fetch(k) ==
    /\ k \in DOMAIN branch /\ k \notin fetched
    /\ Cardinality(fetched) < MaxFetches
    /\ snapshot' = branch[k].tree
    /\ fetched' = fetched \cup {k}
    /\ unscanned' = TRUE
    /\ UNCHANGED <<branch, stored, findingVars, eventVars, request, checks, queued,
                   approvals, remediationVars>>

\* _write_findings, for findings known already: one that still fires loses
\* its no_longer_detected mark, one that does not gets it.
Scan ==
    /\ unscanned
    /\ gone' = [f \in Findings |-> f \notin Present(FileOf[f], snapshot[FileOf[f]])]
    /\ unscanned' = FALSE
    /\ UNCHANGED <<branch, snapshot, stored, status, fix, superseder, eventVars, request,
                   checks, queued, approvals, remediationVars, fetched>>

----------------------------------------------------------------------------
(* plan_offer *)

\* Mutant of Verified: fixes held for a person are offered too.
Unverified(file) ==
    {f \in Findings : /\ FileOf[f] = file
                      /\ status[f] \in {"fix-proposed", "resolved", "needs-human-only"}
                      /\ fix[f] # NoFix
                      /\ fix[f].committed = 0
                      /\ ~gone[f]}

Verified(file) ==
    {f \in Findings : /\ FileOf[f] = file
                      /\ status[f] \in {"fix-proposed", "resolved"}
                      /\ fix[f] # NoFix
                      /\ fix[f].passed
                      /\ fix[f].committed = 0
                      /\ ~gone[f]}

\* chain_tip: the end of the longest chain of verified fixes alone.
VerifiedTip(file) == ChainTip(Verified(file), fix)

\* The end of the file's verified chain, if it was drafted on the snapshot and
\* changes it.
Offerable(file) ==
    LET tip == VerifiedTip(file)
    IN /\ tip # 0
       /\ stored[tip] # NoContent
       /\ fix[tip].base = snapshot[file]
       /\ stored[tip] # snapshot[file]

Offer == {LET tip == VerifiedTip(file)
          IN [file |-> file, tip |-> tip, chain |-> ChainOf(tip, fix),
              content |-> stored[tip]] :
          file \in {p \in Files : Offerable(p)}}

\* The check run is completed, with the Commit fixes button if there is an
\* offer, for the commit its execution was started for.
Report(k) ==
    /\ k \in fetched
    /\ Cardinality(checks) < MaxReports
    /\ Offer # {}
    /\ checks' = checks \cup {[id |-> Cardinality(checks) + 1, head |-> k, files |-> Offer,
                               recorded |-> FALSE]}
    /\ UNCHANGED <<branch, snapshot, stored, findingVars, eventVars, request, queued,
                   approvals, remediationVars, pipelineVars>>

\* RecordOffer, the state after Report.
RecordOffer(c) ==
    /\ c \in checks /\ ~c.recorded
    /\ checks' = (checks \ {c}) \cup {[c EXCEPT !.recorded = TRUE]}
    /\ UNCHANGED <<branch, snapshot, stored, findingVars, eventVars, request, queued,
                   approvals, remediationVars, pipelineVars>>

\* webhook-receiver starts the commit state machine for a click, once per check
\* run: the execution's name is the check run's.
Click(r, c) ==
    /\ r \in ClickRequests /\ c \in checks
    /\ r \notin queued
    /\ \A s \in Requests : request[s].source = "github" => request[s].check # c.id
    /\ clock' = clock + 1
    /\ request' = [request EXCEPT ![r] = [BlankRequest EXCEPT
                    !.source = "github", !.check = c.id, !.at = clock + 1]]
    /\ queued' = queued \cup {r}
    /\ UNCHANGED <<branch, snapshot, stored, findingVars, latest, checks, approvals,
                   remediationVars, pipelineVars>>

----------------------------------------------------------------------------

PipelineNext ==
    \/ RemediationNext /\ UNCHANGED pipelineVars
    \/ \E k \in DOMAIN branch : Fetch(k) \/ Report(k)
    \/ Scan
    \/ \E c \in checks : RecordOffer(c) \/ \E r \in ClickRequests : Click(r, c)

=============================================================================
