----------------------------- MODULE Remediation -----------------------------
(***************************************************************************)
(* remediation-agent's Terraform path (lambda/remediation-agent/handler.py *)
(* handler): the RemediateFile task of a Draft fixes run.  It drafts one   *)
(* fix per open finding of a file, each on the file as the previous        *)
(* verified fix left it, and may stop and be run again where it stopped.   *)
(*                                                                         *)
(* A drafter is one run on one file.  Two Draft fixes executions of a PR   *)
(* are not excluded from each other, so two drafters may be on one file.   *)
(* The model's answer and the scanner's are inputs: the diff is any member *)
(* of Diffs, its self-check passes iff it is in Passing, and a passing fix *)
(* of f clears the findings Clears[f].                                     *)
(***************************************************************************)
EXTENDS Records

CONSTANTS
    Drafters,          \* RemediateFile runs at once
    Passing,           \* the diffs whose self-check passes
    Clears,            \* Clears[f]: the findings a passing fix of f clears
    MaxDraftsPerFile,  \* MAX_DRAFTS_PER_FILE
    MaxRuns,           \* bound: runs started
    DraftFaults        \* of "suppression", "unparsed", "error", "yield", "killed"

ASSUME RemediationAssumption ==
    /\ Passing \subseteq Diffs
    /\ Clears \in [Findings -> SUBSET Findings] /\ \A f \in Findings : f \in Clears[f]
    /\ MaxDraftsPerFile \in Nat /\ MaxRuns \in Nat

VARIABLES
    draft,             \* the runs
    runs               \* runs started

remediationVars == <<draft, runs>>

NoneCleared == [f \in {} |-> 0]

\* todo: the findings left; seen: the file's records as queried; content, base,
\* after: what the next draft is made on; present: the findings the scanner
\* reports there; clearedBy: the fix of this run, or root, that cleared each;
\* drafted: drafts spent; verified: did the pending draft pass the scanner.
NoDraft == [pc |-> "idle", file |-> 0, resume |-> 0, todo |-> {}, seen |-> <<>>,
            content |-> NoContent, base |-> NoContent, after |-> <<>>, present |-> {},
            clearedBy |-> NoneCleared, drafted |-> 0, pending |-> NoFix, verified |-> FALSE]

DraftSeen == [status : [Findings -> Statuses], fix : [Findings -> Fix \cup {NoFix}],
              superseder : [Findings -> Findings \cup {0}], gone : [Findings -> BOOLEAN]]

ClearedFixes == UNION {[cleared -> Findings] : cleared \in SUBSET Findings}
DraftRun == [pc : {"idle", "stale", "root", "draft", "write", "resume"},
             file : Files \cup {0}, resume : Findings \cup {0}, todo : SUBSET Findings,
             seen : DraftSeen \cup {<<>>}, content : Content \cup {NoContent},
             base : Content \cup {NoContent}, after : Seq(Links),
             present : SUBSET Findings, clearedBy : ClearedFixes,
             drafted : Nat, pending : Fix \cup {NoFix}, verified : BOOLEAN]

\* A run with what its step works on: the file, its records, the content the
\* next draft is made on, and a draft to record.
DraftAtStep ==
    {run \in DraftRun :
        /\ run.pc # "idle" => run.file \in Files
        /\ run.pc \in {"stale", "root"} => run.seen \in DraftSeen
        /\ run.pc \in {"draft", "write"} => run.content \in Content /\ run.base \in Content
        /\ run.pc = "write" => run.pending \in Fix /\ run.todo # {}}

RemediationTypeOK ==
    /\ draft \in [Drafters -> DraftAtStep]
    /\ runs \in Nat

RemediationInit == draft = [w \in Drafters |-> NoDraft] /\ runs = 0

OnFile(file) == {f \in Findings : FileOf[f] = file}

\* The scanner's findings in a file: those no passing fix in it clears.
Present(file, content) ==
    {f \in OnFile(file) :
        ~\E c \in content.fixes : c[2] \in Passing /\ f \in Clears[c[1]]}

Lowest(S) == CHOOSE f \in S : \A g \in S : f <= g

----------------------------------------------------------------------------
(* The findings to draft, and the fixes that have gone stale *)

\* A first run on a file, or the continuation of one that stopped early.
Begin(w, file) ==
    /\ \/ draft[w].pc = "idle" /\ runs < MaxRuns /\ runs' = runs + 1
       \/ draft[w].pc = "resume" /\ draft[w].file = file /\ UNCHANGED runs
    /\ draft' = [draft EXCEPT ![w] = [NoDraft EXCEPT
        !.pc = IF draft[w].resume = 0 THEN "stale" ELSE "root",
        !.file = file, !.resume = draft[w].resume, !.drafted = draft[w].drafted,
        !.todo = {f \in OnFile(file) : status[f] \in {"mapped", "not-drafted"}},
        !.seen = [status |-> status, fix |-> fix, superseder |-> superseder, gone |-> gone]]]
    /\ UNCHANGED recordVars

\* _stale_reason: a fix that can neither land nor be built on.
Stale(f, seen, head) ==
    /\ seen.status[f] \in {"fix-proposed", "resolved"}
    /\ seen.fix[f] # NoFix
    /\ seen.fix[f].committed = 0
    /\ ~seen.gone[f]
    /\ seen.fix[f].base # head

\* _reopen_stale_fixes: each goes back to mapped if its status is still what
\* was read, and so does what it had superseded.
ReopenStale(w) ==
    LET run    == draft[w]
        still  == {f \in OnFile(run.file) : status[f] = run.seen.status[f]}
        stale  == {f \in still : Stale(f, run.seen, snapshot[run.file])}
        freed  == {f \in still : run.seen.status[f] = "superseded"
                                 /\ run.seen.superseder[f] \in stale}
        open   == stale \cup freed
        todo   == run.todo \cup open
    IN /\ run.pc = "stale"
       /\ status' = [f \in Findings |-> IF f \in open THEN "mapped" ELSE status[f]]
       /\ superseder' = [f \in Findings |-> IF f \in freed THEN 0 ELSE superseder[f]]
       /\ clock' = IF open = {} THEN clock ELSE clock + 1
       /\ latest' = [f \in Findings |-> IF f \in open
                        THEN After(latest[f], clock + 1, Suffix.system, "reopened")
                        ELSE latest[f]]
       /\ draft' = [draft EXCEPT ![w] = IF todo = {} THEN NoDraft ELSE
            [run EXCEPT !.pc = "root", !.todo = todo,
                        !.seen.status = [f \in Findings |->
                            IF f \in open THEN "mapped" ELSE run.seen.status[f]]]]
       /\ UNCHANGED <<branch, snapshot, stored, fix, gone, request, checks, queued,
                      approvals, runs>>

\* _chain_root: the accepted fix with the longest chain, the fix to resume
\* from, or the snapshot.  A root whose file is missing fails the run.
Root(w) ==
    LET run      == draft[w]
        seen     == run.seen
        accepted == {f \in OnFile(run.file) : /\ seen.status[f] = "resolved"
                                              /\ seen.fix[f] # NoFix
                                              /\ seen.fix[f].committed = 0}
        Longer(f, g) == \/ Len(seen.fix[f].after) > Len(seen.fix[g].after)
                        \/ Len(seen.fix[f].after) = Len(seen.fix[g].after) /\ f <= g
        root     == IF run.resume # 0 THEN run.resume
                    ELSE IF accepted = {} THEN 0
                    ELSE CHOOSE f \in accepted : \A g \in accepted : Longer(f, g)
        Rooted(content, base, after, present) ==
            [run EXCEPT !.pc = "draft", !.seen = <<>>, !.resume = 0, !.content = content,
                        !.base = base, !.after = after, !.present = present,
                        !.clearedBy = NoneCleared]
    IN /\ run.pc = "root"
       /\ draft' = [draft EXCEPT ![w] =
            IF run.todo = {} THEN NoDraft
            ELSE IF root = 0
            THEN Rooted(snapshot[run.file], snapshot[run.file], <<>>, OnFile(run.file))
            ELSE IF seen.fix[root] = NoFix \/ stored[root] = NoContent THEN NoDraft
            ELSE Rooted(stored[root], seen.fix[root].base,
                        Append(seen.fix[root].after,
                               [finding |-> root, diff |-> seen.fix[root].diff]),
                        Present(run.file, stored[root]))]
       /\ UNCHANGED <<recordVars, runs>>

----------------------------------------------------------------------------
(* One finding of the file *)

Current(w) == Lowest(draft[w].todo)
Drafting(w) == draft[w].pc = "draft" /\ draft[w].todo # {}

\* Mutant of ClearedBy: whatever fix came last has cleared it.
AfterAnyFix(run, f) ==
    IF f \in DOMAIN run.clearedBy THEN run.clearedBy[f]
    ELSE IF run.after # <<>> THEN run.after[Len(run.after)].finding ELSE 0

\* The fix that cleared the finding already, 0 if it is still there.
ClearedBy(run, f) ==
    IF f \in DOMAIN run.clearedBy THEN run.clearedBy[f]
    ELSE IF run.after # <<>> /\ f \notin run.present
         THEN run.after[Len(run.after)].finding
    ELSE 0

Supersede(w) ==
    LET f == Current(w)
    IN /\ Drafting(w) /\ ClearedBy(draft[w], f) # 0
       /\ status' = [status EXCEPT ![f] = "superseded"]
       /\ superseder' = [superseder EXCEPT ![f] = ClearedBy(draft[w], f)]
       /\ draft' = [draft EXCEPT ![w].todo = @ \ {f}]
       /\ UNCHANGED <<branch, snapshot, stored, fix, gone, eventVars, request, checks,
                      queued, approvals, runs>>

\* Mutant of NotDrafted: a status nobody knows.
MarkCapped(w) ==
    LET f == Current(w)
    IN /\ Drafting(w) /\ ClearedBy(draft[w], f) = 0
       /\ draft[w].drafted >= MaxDraftsPerFile
       /\ status' = [status EXCEPT ![f] = "capped"]
       /\ draft' = [draft EXCEPT ![w].todo = @ \ {f}]
       /\ UNCHANGED <<branch, snapshot, stored, fix, superseder, gone, eventVars, request,
                      checks, queued, approvals, runs>>

\* MAX_DRAFTS_PER_FILE is spent.
NotDrafted(w) ==
    LET f == Current(w)
    IN /\ Drafting(w) /\ ClearedBy(draft[w], f) = 0
       /\ draft[w].drafted >= MaxDraftsPerFile
       /\ status' = [status EXCEPT ![f] = "not-drafted"]
       /\ draft' = [draft EXCEPT ![w].todo = @ \ {f}]
       /\ UNCHANGED <<branch, snapshot, stored, fix, superseder, gone, eventVars, request,
                      checks, queued, approvals, runs>>

MayDraft(w) == /\ Drafting(w)
               /\ ClearedBy(draft[w], Current(w)) = 0
               /\ draft[w].drafted < MaxDraftsPerFile

Proposed(run, diff, passed) ==
    [diff |-> diff, base |-> run.base, after |-> run.after, passed |-> passed,
     committed |-> 0]

\* The rescan's verdict: the finding has stopped firing and nothing new fires.
\* Of a file that does not parse nothing is proven.
ScannerVerified(diff, parses) == parses /\ diff \in Passing

\* The model drafts and the corrected file is stored, before the self-check
\* and before the record says anything of it.  `held`: assumptions, dropped
\* resources or unanswered questions keep a verified fix for a person.
Upload(w, diff, held, parses) ==
    LET f == Current(w)
        run == draft[w]
        verified == ScannerVerified(diff, parses)
    IN /\ MayDraft(w)
       /\ <<f, diff>> \notin run.content.fixes
       /\ stored' = [stored EXCEPT ![f] =
                        [run.content EXCEPT !.fixes = @ \cup {<<f, diff>>}]]
       /\ draft' = [draft EXCEPT ![w].pc = "write", ![w].verified = verified,
                        ![w].pending = Proposed(run, diff, verified /\ ~held)]
       /\ UNCHANGED <<branch, snapshot, findingVars, eventVars, request, checks, queued,
                      approvals, runs>>

\* A draft that tries to suppress the scanner is recorded and never stored.
Suppression(w, diff) ==
    /\ "suppression" \in DraftFaults
    /\ MayDraft(w)
    /\ draft' = [draft EXCEPT ![w].pc = "write", ![w].verified = FALSE,
                    ![w].pending = Proposed(draft[w], diff, FALSE)]
    /\ UNCHANGED <<recordVars, runs>>

\* The draft raises: counted, and the loop goes on to the next finding.
DraftError(w) ==
    /\ "error" \in DraftFaults
    /\ MayDraft(w)
    /\ draft' = [draft EXCEPT ![w].todo = @ \ {Current(w)}]
    /\ UNCHANGED <<recordVars, runs>>

\* _write_result, unconditional; then a verified fix becomes the next base.
WriteResult(w) ==
    LET f    == Current(w)
        run  == draft[w]
        content == [run.content EXCEPT !.fixes = @ \cup {<<f, run.pending.diff>>}]
        present == Present(run.file, content)
        cleared == run.present \ present
        Rest == [run EXCEPT !.pc = "draft", !.todo = @ \ {f}, !.drafted = @ + 1,
                            !.pending = NoFix, !.verified = FALSE]
    IN /\ run.pc = "write"
       /\ fix' = [fix EXCEPT ![f] = run.pending]
       /\ status' = [status EXCEPT ![f] =
                        IF run.pending.passed THEN "fix-proposed" ELSE "needs-human-only"]
       /\ draft' = [draft EXCEPT ![w] =
            IF ~run.verified THEN Rest
            ELSE [Rest EXCEPT !.content = content, !.present = present,
                              !.after = Append(@, [finding |-> f, diff |-> run.pending.diff]),
                              !.clearedBy = [g \in DOMAIN @ \cup cleared |->
                                    IF g \in cleared THEN f ELSE @[g]]]]
       /\ UNCHANGED <<branch, snapshot, stored, superseder, gone, eventVars, request,
                      checks, queued, approvals, runs>>

\* Out of time: the state machine runs the file again, resuming at the chain's
\* end; with no chain yet it starts over.
Yield(w) ==
    LET run == draft[w]
    IN /\ "yield" \in DraftFaults
       /\ Drafting(w)
       /\ draft' = [draft EXCEPT ![w] = [NoDraft EXCEPT
            !.pc = "resume", !.file = run.file, !.drafted = run.drafted,
            !.resume = IF run.after = <<>> THEN 0 ELSE run.after[Len(run.after)].finding]]
       /\ UNCHANGED <<recordVars, runs>>

\* The run ends where it is: no root could be established (its file is not
\* there, or the scanner cannot read it), or the process was killed.
DraftRunDies(w) ==
    /\ \/ draft[w].pc = "root" /\ "unparsed" \in DraftFaults
       \/ draft[w].pc \in {"stale", "root", "draft", "write"} /\ "killed" \in DraftFaults
    /\ draft' = [draft EXCEPT ![w] = NoDraft]
    /\ UNCHANGED <<recordVars, runs>>

DraftsDone(w) ==
    /\ draft[w].pc = "draft" /\ draft[w].todo = {}
    /\ draft' = [draft EXCEPT ![w] = NoDraft]
    /\ UNCHANGED <<recordVars, runs>>

----------------------------------------------------------------------------

DraftStep(w) ==
    \/ ReopenStale(w) \/ Root(w) \/ Supersede(w) \/ NotDrafted(w)
    \/ \E diff \in Diffs :
        \/ \E held \in BOOLEAN : Upload(w, diff, held, TRUE)
        \/ "unparsed" \in DraftFaults /\ Upload(w, diff, FALSE, FALSE)
        \/ Suppression(w, diff)
    \/ DraftError(w) \/ WriteResult(w) \/ Yield(w) \/ DraftsDone(w)
    \/ DraftRunDies(w)

RemediationNext ==
    \E w \in Drafters : DraftStep(w) \/ \E file \in Files : Begin(w, file)

=============================================================================
