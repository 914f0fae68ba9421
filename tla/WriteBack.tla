------------------------------ MODULE WriteBack ------------------------------
(***************************************************************************)
(* One pull request of CascadeSec, from a drafted fix to a commit on its   *)
(* branch: the pipeline and the remediation agent, the review API, the     *)
(* committer, and the people who push to the branch meanwhile.  The        *)
(* components share the records of Records and nothing else; any step of   *)
(* one may come between any two of another.                                *)
(***************************************************************************)
EXTENDS Committer, ReviewApi, Pipeline

CONSTANTS
    Start,       \* "scanned", "drafted" or "approved": where the behaviour begins
    PushKinds,   \* of "edit", "apply", "revert", "close": what people do
    MaxPushes    \* bound: commits people push

ASSUME PushAssumption == MaxPushes \in Nat
ASSUME StartAssumption == /\ Start \in {"scanned", "drafted", "approved"}
                          /\ Start # "scanned" => Passing # {}
ASSUME RequestIdsAssumption == DashboardRequests \cap ClickRequests = {}

vars == <<recordVars, committerVars, reviewVars, remediationVars, pipelineVars>>

Theirs == {k \in DOMAIN branch : branch[k].by = NoRequest}
HeadTree == branch[Len(branch)].tree

\* What one uninterrupted Draft fixes run leaves of a file: a chain of all its
\* findings in order, every fix verified, and perhaps approved since.
FirstDiff   == CHOOSE diff \in Passing : TRUE
Lower(f)    == {g \in OnFile(FileOf[f]) : g < f}
Ranked(k,f) == CHOOSE g \in Lower(f) : Cardinality(Lower(g)) = k - 1
Drafted(f, base) ==
    [diff |-> FirstDiff, base |-> base, passed |-> TRUE, committed |-> 0,
     after |-> [k \in 1..Cardinality(Lower(f)) |->
                    [finding |-> Ranked(k, f), diff |-> FirstDiff]]]

\* The pull request's first commit has been fetched and scanned, and the
\* findings mapped; from there, as far as Start says.
Init ==
    LET first    == [own |-> 1, fixes |-> {}]
        drafted  == Start # "scanned"
        approved == Start = "approved"
    IN /\ branch = <<[tree |-> [p \in Files |-> first], by |-> NoRequest, wrote |-> {}]>>
       /\ snapshot = [p \in Files |-> first]
       /\ stored = [f \in Findings |-> IF ~drafted THEN NoContent ELSE
                [first EXCEPT !.fixes = {<<g, FirstDiff>> : g \in Lower(f) \cup {f}}]]
       /\ status = [f \in Findings |-> IF approved THEN "resolved"
                ELSE IF drafted THEN "fix-proposed" ELSE "mapped"]
       /\ fix = [f \in Findings |-> IF drafted THEN Drafted(f, first) ELSE NoFix]
       /\ superseder = [f \in Findings |-> 0]
       /\ gone = [f \in Findings |-> FALSE]
       /\ latest = [f \in Findings |-> IF approved
                THEN [at |-> 1, suffix |-> Suffix.decision, action |-> "approved"]
                ELSE NoEvent]
       /\ clock = 1
       /\ request = [r \in Requests |-> BlankRequest]
       /\ checks = {}
       /\ queued = {}
       /\ approvals = IF approved THEN {<<f, FirstDiff>> : f \in Findings} ELSE {}
       /\ CommitterInit /\ ReviewInit /\ RemediationInit /\ PipelineInit

----------------------------------------------------------------------------
(* What people do on GitHub *)

Push(tree) ==
    /\ Cardinality(Theirs) <= MaxPushes
    /\ branch' = Append(branch, [tree |-> tree, by |-> NoRequest, wrote |-> {}])
    /\ UNCHANGED <<snapshot, stored, findingVars, eventVars, request, checks, queued,
                   approvals, committerVars, reviewVars, remediationVars, pipelineVars>>

\* A commit to some IaC files, or to none of them.
Edit(files) ==
    "edit" \in PushKinds /\ Push([p \in Files |->
        IF p \in files THEN [HeadTree[p] EXCEPT !.own = Len(branch) + 1] ELSE HeadTree[p]])

\* GitHub's button on a suggestion that was posted at this head.
ApplySuggestions(f) ==
    /\ "apply" \in PushKinds
    /\ fix[f] # NoFix /\ fix[f].base = HeadTree[FileOf[f]] /\ stored[f] # NoContent
    /\ Push([HeadTree EXCEPT ![FileOf[f]] = stored[f]])

\* Back to an earlier commit's tree.
Revert(k) == "revert" \in PushKinds /\ k < Len(branch) /\ Push(branch[k].tree)

ClosePullRequest ==
    /\ "close" \in PushKinds /\ open
    /\ open' = FALSE
    /\ UNCHANGED <<recordVars, inv, crashes, reviewVars, remediationVars, pipelineVars>>

PeopleNext ==
    \/ \E files \in SUBSET Files : Edit(files)
    \/ \E f \in Findings : ApplySuggestions(f)
    \/ \E k \in DOMAIN branch : Revert(k)
    \/ ClosePullRequest

----------------------------------------------------------------------------

CommitterStep == CommitterNext /\ UNCHANGED <<reviewVars, remediationVars, pipelineVars>>
ReviewStep    == ReviewNext /\ UNCHANGED <<committerVars, remediationVars, pipelineVars>>
PipelineStep  == PipelineNext /\ UNCHANGED <<committerVars, reviewVars>>

Next == CommitterStep \/ ReviewStep \/ PipelineStep \/ PeopleNext

Spec == Init /\ [][Next]_vars

\* What is owed: Lambda delivers an accepted event, runs it to an end unless it
\* crashes and retries it then; the API's own run goes on unless it is killed.
Committing(i) == /\ Work(i) \/ \E r \in Requests : Receive(i, r)
                 /\ UNCHANGED <<reviewVars, remediationVars, pipelineVars>>
Asking(r)     == HandOver(r) /\ UNCHANGED <<committerVars, remediationVars, pipelineVars>>

FairSpec == /\ Spec
            /\ \A i \in Invocations : WF_vars(Committing(i))
            /\ \A r \in Requests : WF_vars(Asking(r))

----------------------------------------------------------------------------
(* Types *)

\* Every variable, of every component, has its type.
TypeOK == /\ RecordsTypeOK /\ CommitterTypeOK /\ ReviewTypeOK
          /\ RemediationTypeOK /\ PipelineTypeOK

----------------------------------------------------------------------------
(* What reaches the branch *)

Ours == {k \in DOMAIN branch : branch[k].by # NoRequest}

\* Only what was confirmed for the request is in its commit: whatever was
\* edited, redrafted or pushed between the plan that was shown and the push.
CommitsAreConfirmed ==
    \A k \in Ours : \A w \in branch[k].wrote :
        \E c \in request[branch[k].by].confirmed : c.file = w.file /\ c.content = w.content

\* A file is written only over the version its chain was drafted on, and the
\* other files are as the parent has them: the ref update is the lock.
NothingReverted ==
    \A k \in Ours :
        /\ k - 1 \in DOMAIN branch
        /\ \A w \in branch[k].wrote :
            /\ branch[k - 1].tree[w.file] = w.base
            /\ branch[k].tree[w.file] = w.content
        /\ \A p \in Files :
            \/ branch[k].tree[p] = branch[k - 1].tree[p]
            \/ \E w \in branch[k].wrote : w.file = p

\* A commit of ours undoes nothing that was on the branch: what people wrote is
\* still there, and so is every fix that had landed.
EditsSurvive ==
    \A k \in Ours, p \in Files :
        /\ branch[k].tree[p].own = branch[k - 1].tree[p].own
        /\ branch[k - 1].tree[p].fixes \subseteq branch[k].tree[p].fixes

\* Nothing lands that nobody decided on: of every change our commits bring,
\* links of a chain included, somebody approved or edited the finding.
OnlyDecidedLands ==
    \A k \in Ours : \A w \in branch[k].wrote :
        \A c \in w.content.fixes \ w.base.fixes : \E a \in approvals : a[1] = c[1]

\* Twin deliveries, retries and two requests for the same fixes make no second
\* commit of one request.
OneCommitPerRequest ==
    \A j, k \in Ours : branch[j].by = branch[k].by => j = k

\* A click lands on the head its check run was about, never on a later one.
ClicksLandOnTheirOffer ==
    \A k \in Ours : request[branch[k].by].source = "github" =>
        k = request[branch[k].by].offerHead + 1

\* A click, which nobody reviewed, brings only changes that passed their check.
ClicksLandVerifiedFixes ==
    \A k \in Ours : request[branch[k].by].source = "github" =>
        \A w \in branch[k].wrote : \A c \in w.content.fixes \ w.base.fixes : c[2] \in Passing

\* The write-back as its users see it: a landing is one step, on the head.
Lands == INSTANCE Landing WITH
    Contents  <- Content,
    head      <- HeadTree,
    theirs    <- Cardinality(Theirs),
    confirmed <- [r \in Requests |-> {[file |-> c.file, content |-> c.content] :
                                            c \in request[r].confirmed}],
    landed    <- {branch[k].by : k \in Ours}

\* The components together implement Landing: reading the head, the records and
\* the stored files in turn, and pushing later, looks like one step.
LandingIsAtomic == Lands!Spec

----------------------------------------------------------------------------
(* What the records say of it *)

\* A request that says committed names files that were on the branch as it says,
\* and the commit it names is its own.
CommittedIsTrue ==
    \A r \in Requests : request[r].status = "committed" =>
        /\ request[r].sha # 0 => branch[request[r].sha].by = r
        /\ \A l \in request[r].landed : \E k \in DOMAIN branch : branch[k].tree[l.file] = l.content

\* A fix marked committed is in the commit the mark names, with the diff it has.
MarksAreTrue ==
    \A f \in Findings : (fix[f] # NoFix /\ fix[f].committed # 0) =>
        <<f, fix[f].diff>> \in branch[fix[f].committed].tree[FileOf[f]].fixes

\* A request that ended "held" has put nothing on the branch.
HeldWroteNothing ==
    \A r \in Requests : request[r].status = "held" => \A k \in Ours : branch[k].by # r

\* An ending stands: no late finisher, twin or backstop writes over it.
EndingsAreFinal ==
    [][\A r \in Requests : request[r].status \in Ended => request'[r] = request[r]]_vars

\* A request in progress ends; until it does it keeps every other one out.
RequestsEnd == \A r \in Requests :
    request[r].status \in Active ~> request[r].status \in Ended

----------------------------------------------------------------------------
(* What the reviews and the drafts leave *)

Quiet == /\ \A v \in Reviewers : review[v].pc = "idle"
         /\ \A w \in Drafters : draft[w].pc = "idle"

\* An accepted fix's links are accepted, with the diffs it was drafted on.
ResolvedChainsStand ==
    Quiet => \A f \in Findings : (status[f] = "resolved" /\ fix[f].committed = 0) =>
        \A k \in DOMAIN fix[f].after :
            LET link == fix[f].after[k]
            IN /\ status[link.finding] = "resolved"
               /\ fix[link.finding].diff = link.diff

\* A fix's stored file is what its record says it is: the base, the links it
\* was drafted on, and its own change.
StoredIsRecorded ==
    Quiet => \A f \in Findings : fix[f] # NoFix =>
        /\ stored[f] # NoContent
        /\ stored[f].own = fix[f].base.own
        /\ stored[f].fixes = fix[f].base.fixes \cup {<<f, fix[f].diff>>} \cup
            {<<fix[f].after[k].finding, fix[f].after[k].diff>> : k \in DOMAIN fix[f].after}

\* What a check run would offer for a file is the snapshot's file with the
\* changes of the offered chain, each of which passed its check: no more.
OfferIsWhole ==
    \A offered \in Offer :
        /\ offered.content.own = snapshot[offered.file].own
        /\ offered.content.fixes = snapshot[offered.file].fixes \cup
            {<<offered.chain[k], fix[offered.chain[k]].diff>> : k \in DOMAIN offered.chain}
        /\ \A k \in DOMAIN offered.chain : fix[offered.chain[k]].diff \in Passing

\* The fix a superseded finding points to is not itself waiting to be drafted,
\* and its file does not have the finding.
SupersededIsCleared ==
    Quiet => \A f \in Findings : status[f] = "superseded" =>
        /\ status[superseder[f]] \in {"fix-proposed", "resolved", "needs-human-only"}
        /\ f \notin Present(FileOf[f], stored[superseder[f]])

\* A finding stays superseded only while the fix that cleared it stands: once
\* a verified fix is rejected, what it had cleared comes back.
Rejected(f) == /\ fix[f] # NoFix /\ fix[f].passed
               /\ status[f] = "needs-human-only" /\ latest[f].action = "rejected"

SupersededComesBack ==
    Quiet => \A f \in Findings : status[f] = "superseded" => ~Rejected(superseder[f])

=============================================================================
