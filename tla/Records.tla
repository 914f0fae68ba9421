------------------------------- MODULE Records -------------------------------
(***************************************************************************)
(* What the stages of CascadeSec share about one pull request, and the     *)
(* pure decisions they take on it.                                         *)
(*                                                                         *)
(* Nothing runs for longer than one request, so everything that lasts is   *)
(* in four stores: the branch on GitHub, the table's FINDING#, EVENT#,     *)
(* COMMIT# and OFFER# items, and two S3 prefixes, scans/ (the snapshot)    *)
(* and fixes/ (each fix's corrected file).  The component modules extend   *)
(* this one and say who reads and writes what, in which order.             *)
(*                                                                         *)
(* Data.  A finding id, and a file name, is a number: ids and paths are    *)
(* compared (ties, sorted order).  A diff is identified by its hash, so it *)
(* is a member of Diffs.  A file's content is what tells two versions      *)
(* apart: the last commit by a person that changed it, and the fixes that  *)
(* are in it.  Two contents have the same sha256 iff they are equal.       *)
(***************************************************************************)
EXTENDS Integers, Sequences, FiniteSets

CONSTANTS
    Findings,     \* finding ids of the PR (not CDK: one file each)
    Files,        \* IaC files on the PR's branch
    FileOf,       \* FileOf[f]: work_file(f), the file the fix edits
    Diffs,        \* the diffs a draft or an edit of a finding may be
    Requests,     \* commit request ids
    NoRequest,    \* the author of a commit that is not ours
    NoFix,        \* proposed_fix is null
    NoContent     \* no object at an S3 key

ASSUME FindingsAssumption == Findings \subseteq Nat \ {0} /\ IsFiniteSet(Findings)
ASSUME FilesAssumption == Files \subseteq Nat /\ FileOf \in [Findings -> Files]
ASSUME RequestsAssumption == NoRequest \notin Requests

VARIABLES
    branch,       \* the PR branch's commits, oldest first; the last is the head
    snapshot,     \* scans/<pr>/<file>
    stored,       \* fixes/<pr>/<finding>/<file>: each fix's corrected file
    status,       \* FINDING#.status
    fix,          \* FINDING#.proposed_fix
    superseder,   \* FINDING#.superseded_by, 0 when absent
    gone,         \* FINDING#.no_longer_detected
    latest,       \* the finding's latest ReviewEvent (the one with the largest sk)
    clock,        \* the last _now() any handler stamped an event with
    request,      \* COMMIT#<request_id>
    checks,       \* the check runs that show an offer, and whether OFFER# is stored
    queued,       \* requests whose committer invocation has been accepted
    approvals     \* history: the changes somebody's event has approved

findingVars == <<status, fix, superseder, gone>>
eventVars   == <<latest, clock>>
recordVars  == <<branch, snapshot, stored, status, fix, superseder, gone,
                 latest, clock, request, checks, queued, approvals>>

----------------------------------------------------------------------------
(* Types *)

Statuses == {"mapped", "fix-proposed", "needs-human-only", "resolved",
             "superseded", "not-drafted"}
Ended    == {"committed", "held", "failed"}
Active   == {"requested", "committing"}

Changes == Findings \X Diffs
Content == [own : Nat, fixes : SUBSET Changes]
Tree    == [Files -> Content]
Links   == [finding : Findings, diff : Diffs]

\* proposed_fix.  base is base_sha256, after is applies_after, passed is
\* self_check_passed, and committed the commit it landed in, 0 for none.
Fix == [diff : Diffs, base : Content, after : Seq(Links),
        passed : BOOLEAN, committed : Nat]

\* Null, and a missing object, are not one of these.
ASSUME AbsentAssumption == NoFix \notin Fix /\ NoContent \notin Content

\* What a reviewer, or a check run's offer, confirmed for a file.
Confirmation == [file : Files, tip : Findings, chain : Seq(Findings),
                 content : Content]

\* One file a commit of ours replaced, and the base it was planned on.
Landed      == [file : Files, content : Content]
Replacement == [file : Files, base : Content, content : Content]
Commit      == [tree : Tree, by : Requests \cup {NoRequest}, wrote : SUBSET Replacement]

\* An event's sk is EVENT#<time><suffix>; sorted as text, the suffixes are in
\* this order.
Actions == {"approved", "edited", "rejected", "reopened", "committed"}
Suffix  == [decision |-> 0, committed |-> 1, github |-> 2, system |-> 3]
Event   == [at : Nat, suffix : 0..3, action : Actions \cup {"none"}]
NoEvent == [at |-> 0, suffix |-> 0, action |-> "none"]

\* A check run that shows an offer (plan_offer); recorded: OFFER# is stored.
Check == [id : Nat, head : Nat, files : SUBSET Confirmation, recorded : BOOLEAN]

\* COMMIT#<request_id>.  check and at are the click's; landed holds the files
\* its ending says are on the branch, and sha its commit_sha, 0 for none.
Request == [status : {"none"} \cup Active \cup Ended, source : {"dashboard", "github"},
            confirmed : SUBSET Confirmation, check : Nat, offerHead : Nat, at : Nat,
            landed : SUBSET Landed, sha : Nat]
BlankRequest == [status |-> "none", source |-> "dashboard", confirmed |-> {},
                 check |-> 0, offerHead |-> 0, at |-> 0, landed |-> {}, sha |-> 0]

RecordsTypeOK ==
    /\ branch \in Seq(Commit) /\ branch # <<>>
    /\ snapshot \in Tree
    /\ stored \in [Findings -> Content \cup {NoContent}]
    /\ status \in [Findings -> Statuses]
    /\ fix \in [Findings -> Fix \cup {NoFix}]
    /\ superseder \in [Findings -> Findings \cup {0}]
    /\ gone \in [Findings -> BOOLEAN]
    /\ latest \in [Findings -> Event]
    /\ clock \in Nat
    /\ request \in [Requests -> Request]
    /\ checks \subseteq Check /\ IsFiniteSet(checks)
    /\ queued \subseteq Requests
    /\ approvals \subseteq Changes

----------------------------------------------------------------------------
(* The event log *)

\* The finding's latest ReviewEvent once one stamped `at` is there too.
After(event, at, suffix, action) ==
    IF at > event.at \/ (at = event.at /\ suffix >= event.suffix)
    THEN [at |-> at, suffix |-> suffix, action |-> action]
    ELSE event

Resolving == {"approved", "edited"}

----------------------------------------------------------------------------
(* Chains *)

\* A fix whose every link is among `fixes` with the diff it was built on.
ValidChain(f, fixes, fx) ==
    \A i \in DOMAIN fx[f].after :
        LET link == fx[f].after[i]
        IN link.finding \in fixes /\ fx[link.finding].diff = link.diff

\* The end of the longest valid chain, the larger id on a tie; 0 if none.
ChainTip(fixes, fx) ==
    LET valid == {f \in fixes : ValidChain(f, fixes, fx)}
        Longer(f, g) == \/ Len(fx[f].after) > Len(fx[g].after)
                        \/ Len(fx[f].after) = Len(fx[g].after) /\ f >= g
    IN IF valid = {} THEN 0
       ELSE CHOOSE f \in valid : \A g \in valid : Longer(f, g)

ChainOf(f, fx) == Append([i \in DOMAIN fx[f].after |-> fx[f].after[i].finding], f)

----------------------------------------------------------------------------
(* plan_commit *)

\* Mutant of Approved: every fix is taken as approved.
DecisionsIgnored(file, fx, ended, events) ==
    {f \in Findings : FileOf[f] = file /\ fx[f] # NoFix /\ fx[f].committed = 0 /\ ~ended[f]}

\* The fixes of `file` whose latest event approves them, given the finding
\* records `fx` and marks `ended` as they were read.
Approved(file, fx, ended, events) ==
    {f \in Findings : /\ FileOf[f] = file
                      /\ fx[f] # NoFix
                      /\ fx[f].committed = 0
                      /\ ~ended[f]
                      /\ events[f].action \in Resolving}

\* Mutant of OnItsBase: the base is not compared.
BaseUnchecked(tip, fx, head) == TRUE

\* base_sha256 must be the head's hash, or committing would revert what changed
\* in between.
OnItsBase(tip, fx, head) == fx[tip].base = head

\* What committing `file` over `head` would do.  A held file's content and
\* base are of no use, and are those of the head.
PlanFile(file, fx, approved, contents, head) ==
    LET tip == ChainTip(approved, fx)
        Plan(outcome, base, content) ==
            [file |-> file, tip |-> tip, outcome |-> outcome, base |-> base,
             content |-> content,
             chain |-> IF tip = 0 THEN <<>> ELSE ChainOf(tip, fx)]
    IN IF tip = 0 THEN Plan("held", head, head)
       ELSE IF contents[tip] = NoContent THEN Plan("held", head, head)
       ELSE IF contents[tip] = head THEN Plan("already", head, head)
       ELSE IF ~OnItsBase(tip, fx, head) THEN Plan("held", head, head)
       ELSE Plan("commit", fx[tip].base, contents[tip])

PlanOfFile == [file : Files, tip : Findings \cup {0}, base : Content, content : Content,
               outcome : {"commit", "already", "held", "committed"}, chain : Seq(Findings)]

PlanCommit(fx, ended, events, contents, tree) ==
    {PlanFile(file, fx, Approved(file, fx, ended, events), contents, tree[file]) :
        file \in {p \in Files : Approved(p, fx, ended, events) # {}}}

\* The confirmed triple the committer and review-api compare: chain is not in it.
Triple(c) == <<c.file, c.tip, c.content>>

=============================================================================
