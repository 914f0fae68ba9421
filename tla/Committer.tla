------------------------------ MODULE Committer ------------------------------
(***************************************************************************)
(* github-committer (lambda/github-committer/handler.py): the only         *)
(* component that can push.  Each invocation is a Lambda run of            *)
(* commit(pr_id, request_id) or commit_from_github(event); between any two *)
(* of its calls to GitHub, the table or S3 another invocation, a reviewer, *)
(* the pipeline or a person may act, so each call is an action.            *)
(*                                                                         *)
(* An invocation slot is one copy of the event.  Lambda delivers an event  *)
(* at least once: a second slot of the same request is a twin delivery.  A *)
(* failed run is run again, up to Attempts times in all, and then    *)
(* the failure destination calls the committer's backstop (on_failure, or  *)
(* the commit state machine's MarkFailed for a click).  Any exception, a   *)
(* timeout and a killed process are one thing here: Crash.                 *)
(***************************************************************************)
EXTENDS Records

CONSTANTS
    Invocations,     \* copies of committer events, used in order
    Attempts,        \* runs of one copy: 3 of an event's, 4 of a click's task
    MaxDeliveries,   \* bound: copies of one event, 2 for a twin delivery
    MaxCrashes,      \* bound: runs that fail, in all
    Permitted,       \* requests whose clicker has write access
    RefusesPush      \* may GitHub refuse a fast-forward (a ruleset)?

ASSUME InvocationsAssumption ==
    Invocations \subseteq Nat /\ Attempts \in Nat \ {0} /\ MaxCrashes \in Nat /\ MaxDeliveries \in Nat

VARIABLES
    inv,             \* the invocations
    crashes,         \* runs that have failed
    open             \* is the pull request open?

committerVars == <<inv, crashes, open>>

\* seen: the finding records as queried; todo: the offered files accept_offer
\* has left; changed: those it held; plans: plan_commit's, filtered; links:
\* the chain links record_commit has left to record; sha: commit_sha; now:
\* record_commit's _now().
Blank == [pc |-> "idle", req |-> NoRequest, tries |-> 0, retry |-> FALSE,
          head |-> 0, onHead |-> FALSE, seen |-> <<>>, todo |-> {},
          changed |-> {}, plans |-> {}, links |-> {}, sha |-> 0, now |-> 0]

Seen == [status : [Findings -> Statuses], fix : [Findings -> Fix \cup {NoFix}],
         gone : [Findings -> BOOLEAN]]
Link == [file : Files, index : Nat, finding : Findings, sha : Nat]
Steps == {"idle", "claim", "head", "find", "accept", "plan", "push", "mark", "event",
          "refuse", "again", "gaveUp", "done"}

Run  == [pc : Steps, req : Requests \cup {NoRequest}, tries : Nat, retry : BOOLEAN,
         head : Nat, onHead : BOOLEAN, seen : Seen \cup {<<>>},
         todo : SUBSET Confirmation, changed : SUBSET Confirmation,
         plans : SUBSET PlanOfFile, links : SUBSET Link, sha : Nat, now : Nat]

\* A run while the branch has n commits: what its step works on has been read.
RunOn(n) ==
    {run \in Run : /\ run.pc # "idle" => run.req \in Requests
                   /\ run.pc \in {"find", "accept", "plan", "push"} => run.head \in 1..n
                   /\ run.pc \in {"accept", "plan"} => run.seen \in Seen
                   /\ run.pc = "event" => run.links # {}}

CommitterTypeOK ==
    /\ inv \in [Invocations -> RunOn(Len(branch))]
    /\ crashes \in Nat
    /\ open \in BOOLEAN

CommitterInit == /\ inv = [i \in Invocations |-> Blank]
                 /\ crashes = 0
                 /\ open = TRUE

Req(i)     == inv[i].req
Runs(r)    == {i \in Invocations : inv[i].req = r}
At(i, pc)  == inv[i].pc = pc
Go(i, run) == inv' = [inv EXCEPT ![i] = run]
End(i)     == Go(i, [Blank EXCEPT !.pc = "done", !.req = Req(i)])

\* _has_trailer: commit k is this request's own.
HasTrailer(k, r) == branch[k].by = r

----------------------------------------------------------------------------
(* commit: read the request, and claim it *)

\* What commit_from_github records for a click, unless it is recorded already:
\* the offer stored under the clicked check run is what is confirmed, and
\* without one the request is held.
ClickedRequest(r) ==
    LET offers == {c \in checks : c.id = request[r].check /\ c.recorded}
        offer  == CHOOSE c \in offers : TRUE
    IN IF request[r].status # "none" THEN request[r]
       ELSE IF offers = {} THEN [request[r] EXCEPT !.status = "held"]
       ELSE [request[r] EXCEPT !.status = "requested", !.offerHead = offer.head,
                               !.confirmed = offer.files]

\* A run starts, on a fresh copy of the event or as the retry of a failed one.
\* A request that has ended, or was just held for want of an offer, is skipped.
Receive(i, r) ==
    /\ \/ /\ At(i, "idle")
          /\ \A j \in Invocations : j < i => ~At(j, "idle")
          /\ Cardinality(Runs(r)) < MaxDeliveries
       \/ At(i, "again") /\ Req(i) = r
    /\ r \in queued
    /\ LET recorded == IF request[r].source = "github" THEN ClickedRequest(r)
                       ELSE request[r]
       IN /\ request' = [request EXCEPT ![r] = recorded]
          /\ Go(i, [Blank EXCEPT !.req = r, !.tries = inv[i].tries,
                        !.pc = IF recorded.status \in Active THEN "claim" ELSE "done"])
    /\ UNCHANGED <<branch, snapshot, stored, findingVars, eventVars, checks, queued,
                   approvals, crashes, open>>

\* The conditional update requested -> committing.  Losing it makes the run a
\* retry, whatever the request's status is by now.
Claim(i) ==
    /\ At(i, "claim")
    /\ LET first == request[Req(i)].status = "requested"
       IN /\ request' = IF first THEN [request EXCEPT ![Req(i)].status = "committing"]
                        ELSE request
          /\ Go(i, [inv[i] EXCEPT !.pc = "head", !.retry = ~first])
    /\ UNCHANGED <<branch, snapshot, stored, findingVars, eventVars, checks, queued,
                   approvals, crashes, open>>

----------------------------------------------------------------------------
(* write: what GitHub and the table say now *)

\* Mutant of OffHead: a click is for any head.
AnyHead(i) == FALSE

\* A click is for the commit its check run is on, and for no later one.
OffHead(i) == request[Req(i)].source = "github" /\ Len(branch) # request[Req(i)].offerHead

\* GET the pull request and its head commit.  A run that is a retry and finds
\* its own commit at the head has landed already.
ReadHead(i) ==
    LET r       == Req(i)
        head    == Len(branch)
        onHead  == inv[i].retry /\ HasTrailer(head, r)
        click   == request[r].source = "github"
        refused == \/ click /\ r \notin Permitted
                   \/ ~open
                   \/ ~onHead /\ OffHead(i)
    IN /\ At(i, "head")
       /\ Go(i, IF refused THEN [inv[i] EXCEPT !.pc = "refuse"]
                ELSE [inv[i] EXCEPT !.pc = "find", !.head = head, !.onHead = onHead])
       /\ UNCHANGED <<recordVars, crashes, open>>

\* _query_findings.
ReadFindings(i) ==
    /\ At(i, "find")
    /\ Go(i, [inv[i] EXCEPT
              !.pc = IF request[Req(i)].source = "github" THEN "accept" ELSE "plan",
              !.seen = [status |-> status, fix |-> fix, gone |-> gone],
              !.todo = IF request[Req(i)].source = "github"
                       THEN request[Req(i)].confirmed ELSE {}])
    /\ UNCHANGED <<recordVars, crashes, open>>

\* Is the offered chain still what the check run showed?
StillOffered(offered, seen) ==
    /\ \A k \in DOMAIN offered.chain :
        LET f == offered.chain[k]
        IN /\ seen.status[f] \in {"fix-proposed", "resolved"}
           /\ seen.fix[f] # NoFix
           /\ seen.fix[f].passed
           /\ seen.fix[f].committed = 0
           /\ ~seen.gone[f]
    /\ stored[offered.tip] = offered.content

\* accept_offer, one offered file: every link is approved under the clicker's
\* identity, at the click's time, and becomes resolved if it is still proposed.
AcceptFile(i, offered) ==
    LET r == Req(i)
        chain == {offered.chain[k] : k \in DOMAIN offered.chain}
    IN /\ At(i, "accept") /\ offered \in inv[i].todo
       /\ \A other \in inv[i].todo : offered.file <= other.file
       /\ IF StillOffered(offered, inv[i].seen)
          THEN /\ latest' = [f \in Findings |-> IF f \in chain
                    THEN After(latest[f], request[r].at, Suffix.github, "approved")
                    ELSE latest[f]]
               /\ status' = [f \in Findings |->
                    IF f \in chain /\ status[f] \in {"fix-proposed", "resolved"}
                    THEN "resolved" ELSE status[f]]
               /\ approvals' = approvals \cup
                    {<<f, inv[i].seen.fix[f].diff>> : f \in chain}
               /\ Go(i, [inv[i] EXCEPT !.todo = @ \ {offered}])
          ELSE /\ Go(i, [inv[i] EXCEPT !.todo = @ \ {offered},
                                       !.changed = @ \cup {offered}])
               /\ UNCHANGED <<latest, status, approvals>>
       /\ UNCHANGED <<branch, snapshot, stored, fix, superseder, gone, clock, request,
                      checks, queued, crashes, open>>

Accepted(i) ==
    /\ At(i, "accept") /\ inv[i].todo = {}
    /\ Go(i, [inv[i] EXCEPT !.pc = "plan"])
    /\ UNCHANGED <<recordVars, crashes, open>>

----------------------------------------------------------------------------
(* write: the plan, and what of it was confirmed *)

Hold(plan) == [plan EXCEPT !.outcome = "held"]

\* Mutant of Confirmed: what was confirmed is told by its name alone.
ConfirmedByName(plan, r) ==
    \E c \in request[r].confirmed : c.file = plan.file /\ c.tip = plan.tip

\* plan_commit's plan of a file, as this run may carry it out: only what was
\* confirmed is committed, and a run that has landed writes nothing more.
Confirmed(plan, r) == Triple(plan) \in {Triple(c) : c \in request[r].confirmed}
Filtered(plan, i) ==
    CASE plan.outcome = "commit" /\ (inv[i].onHead \/ ~Confirmed(plan, Req(i))) -> Hold(plan)
      [] plan.outcome = "already" /\ inv[i].onHead -> [plan EXCEPT !.outcome = "committed"]
      [] OTHER -> plan

\* A click commits the offered files only, and not those accept_offer held.
\* (The held ones stay in the answer; they have no chain and nothing to record.)
InScope(plan, i) ==
    request[Req(i)].source = "github" =>
        /\ plan.file \in {c.file : c \in request[Req(i)].confirmed}
        /\ plan.file \notin {c.file : c \in inv[i].changed}

\* Mutant of LandedIn: what landed now and what was there are marked alike.
FoundIn(p, sha, head) == head

\* The commit a file's fixes are marked with: this run's own, or the head they
\* were found in.
LandedIn(p, sha, head) == IF p.outcome = "committed" THEN sha ELSE head

\* The links record_commit goes through: file by file, each chain in order.
LinksOf(plans, sha, head) ==
    UNION {{[file |-> p.file, index |-> k, finding |-> p.chain[k],
             sha |-> LandedIn(p, sha, head)] : k \in DOMAIN p.chain} :
           p \in {q \in plans : q.outcome \in {"committed", "already"}}}

\* Mutant of StartRecord: the marks name the commit's parent.
RecordParent(i, plans, sha) ==
    /\ clock' = clock + 1
    /\ Go(i, [inv[i] EXCEPT !.pc = "mark", !.plans = plans, !.sha = inv[i].head,
                            !.now = clock + 1, !.seen = <<>>, !.changed = {},
                            !.links = LinksOf(plans, sha, inv[i].head)])

\* record_commit starts, with what this run found or put on the branch.
StartRecord(i, plans, sha) ==
    /\ clock' = clock + 1
    /\ Go(i, [inv[i] EXCEPT !.pc = "mark", !.plans = plans, !.sha = sha, !.now = clock + 1,
                            !.seen = <<>>, !.changed = {},
                            !.links = LinksOf(plans, sha, inv[i].head)])

\* The event log and S3 are read, and the plan made.  With nothing to write
\* the run goes straight to the record.
Plan(i) ==
    LET seen  == inv[i].seen
        plans == {Filtered(p, i) : p \in
                    {q \in PlanCommit(seen.fix, seen.gone, latest, stored,
                                      branch[inv[i].head].tree) : InScope(q, i)}}
    IN /\ At(i, "plan")
       /\ IF ~inv[i].onHead /\ \E p \in plans : p.outcome = "commit"
          THEN /\ Go(i, [inv[i] EXCEPT !.pc = "push", !.plans = plans,
                                       !.seen = <<>>, !.changed = {}])
               /\ UNCHANGED clock
          ELSE StartRecord(i, plans, IF inv[i].onHead THEN inv[i].head ELSE 0)
       /\ UNCHANGED <<branch, snapshot, stored, findingVars, latest, request, checks,
                      queued, approvals, crashes, open>>

----------------------------------------------------------------------------
(* write: the ref update *)

ToWrite(plans) ==
    {[file |-> p.file, base |-> p.base, content |-> p.content] :
        p \in {q \in plans : q.outcome = "commit"}}

\* Mutant of CanUpdateRef: force: true.
ForceUpdate(i) == TRUE

\* The blobs, the tree on the head's and the commit on it are ours alone until
\* the ref moves; force: false makes it move only over the head that was read.
CanUpdateRef(i) == Len(branch) = inv[i].head

Written(writes, tree) ==
    [p \in Files |-> IF \E w \in writes : w.file = p
                     THEN (CHOOSE w \in writes : w.file = p).content ELSE tree[p]]

\* Mutant of NewCommit: the tree is built on the snapshot.
CommitOnSnapshot(i) ==
    [tree |-> Written(ToWrite(inv[i].plans), snapshot),
     by |-> Req(i), wrote |-> ToWrite(inv[i].plans)]

NewCommit(i) ==
    [tree |-> Written(ToWrite(inv[i].plans), branch[inv[i].head].tree),
     by |-> Req(i), wrote |-> ToWrite(inv[i].plans)]

UpdateRef(i) ==
    /\ At(i, "push")
    /\ CanUpdateRef(i)
    /\ branch' = Append(branch, NewCommit(i))
    /\ StartRecord(i, {IF p.outcome = "commit" THEN [p EXCEPT !.outcome = "committed"] ELSE p :
                        p \in inv[i].plans}, Len(branch) + 1)
    /\ UNCHANGED <<snapshot, stored, findingVars, latest, request, checks, queued,
                   approvals, crashes, open>>

\* The ref did not move, and the branch is read again.  At its head is this
\* request's own commit: a twin won, and will record it.
StepAside(i) ==
    /\ At(i, "push")
    /\ ~CanUpdateRef(i)
    /\ HasTrailer(Len(branch), Req(i))
    /\ End(i)
    /\ UNCHANGED <<recordVars, crashes, open>>

\* Otherwise the request is refused: the branch moved, or a ruleset answered.
RefRefused(i) ==
    /\ At(i, "push")
    /\ ~CanUpdateRef(i) \/ RefusesPush
    /\ ~HasTrailer(Len(branch), Req(i))
    /\ Go(i, [inv[i] EXCEPT !.pc = "refuse"])
    /\ UNCHANGED <<recordVars, crashes, open>>

----------------------------------------------------------------------------
(* record_commit: two writes per link *)

NextLink(links) ==
    CHOOSE l \in links : \A m \in links :
        l.file < m.file \/ (l.file = m.file /\ l.index <= m.index)

MarkCommitted(i) ==
    LET l == NextLink(inv[i].links)
    IN /\ At(i, "mark") /\ inv[i].links # {}
       /\ fix[l.finding] # NoFix
       /\ fix' = [fix EXCEPT ![l.finding].committed = l.sha]
       /\ Go(i, [inv[i] EXCEPT !.pc = "event"])
       /\ UNCHANGED <<branch, snapshot, stored, status, superseder, gone, eventVars,
                      request, checks, queued, approvals, crashes, open>>

PutCommittedEvent(i) ==
    LET l == NextLink(inv[i].links)
    IN /\ At(i, "event")
       /\ latest' = [latest EXCEPT ![l.finding] =
                        After(@, inv[i].now, Suffix.committed, "committed")]
       /\ Go(i, [inv[i] EXCEPT !.pc = "mark", !.links = @ \ {l}])
       /\ UNCHANGED <<branch, snapshot, stored, findingVars, clock, request, checks,
                      queued, approvals, crashes, open>>

----------------------------------------------------------------------------
(* _finish, and what happens to a run that fails *)

\* Mutant of MayEnd: an ending is unconditional.
AlwaysEnds(r) == TRUE

\* An ending is written only over "committing".
MayEnd(r) == request[r].status = "committing"

Finish(i) ==
    LET landed == {p \in inv[i].plans : p.outcome \in {"committed", "already"}}
    IN /\ At(i, "mark") /\ inv[i].links = {}
       /\ request' = IF ~MayEnd(Req(i)) THEN request
                     ELSE [request EXCEPT ![Req(i)] = [@ EXCEPT
                        !.status = IF landed = {} THEN "held" ELSE "committed",
                        !.sha = inv[i].sha,
                        !.landed = {[file |-> p.file, content |-> p.content] : p \in landed}]]
       /\ End(i)
       /\ UNCHANGED <<branch, snapshot, stored, findingVars, eventVars, checks, queued,
                      approvals, crashes, open>>

\* Mutant of FinishRefused: a status nobody knows.
FinishUnnamed(i) ==
    /\ At(i, "refuse")
    /\ request' = [request EXCEPT ![Req(i)].status = "refused"]
    /\ End(i)
    /\ UNCHANGED <<branch, snapshot, stored, findingVars, eventVars, checks, queued,
                   approvals, crashes, open>>

FinishRefused(i) ==
    /\ At(i, "refuse")
    /\ request' = IF MayEnd(Req(i)) THEN [request EXCEPT ![Req(i)].status = "held"]
                  ELSE request
    /\ End(i)
    /\ UNCHANGED <<branch, snapshot, stored, findingVars, eventVars, checks, queued,
                   approvals, crashes, open>>

\* A click's run that fails for a reason the state machine does not retry goes
\* to MarkFailed at once.
Crash(i) ==
    /\ ~At(i, "idle") /\ ~At(i, "done") /\ ~At(i, "again") /\ ~At(i, "gaveUp")
    /\ crashes < MaxCrashes
    /\ crashes' = crashes + 1
    /\ \E next \in {"again", "gaveUp"} :
        /\ next = "again" => inv[i].tries + 1 < Attempts
        /\ next = "gaveUp" => \/ inv[i].tries + 1 = Attempts
                              \/ request[Req(i)].source = "github"
        /\ Go(i, [Blank EXCEPT !.pc = next, !.req = Req(i), !.tries = inv[i].tries + 1])
    /\ UNCHANGED <<recordVars, open>>

\* Mutant of Unfinished: a claimed request is taken for finished.
OnlyUnclaimed(r) == request[r].status = "requested"

\* The requests a failure leaves unfinished.
Unfinished(r) == \/ request[r].status \in Active
                 \/ request[r].source = "github" /\ request[r].status = "none"

\* on_failure and mark_github_failed: the latter also records a request whose
\* failure came before it existed.
Backstop(i) ==
    /\ At(i, "gaveUp")
    /\ request' = IF Unfinished(Req(i)) THEN [request EXCEPT ![Req(i)].status = "failed"]
                  ELSE request
    /\ End(i)
    /\ UNCHANGED <<branch, snapshot, stored, findingVars, eventVars, checks, queued,
                   approvals, crashes, open>>

----------------------------------------------------------------------------

\* What an invocation does once it has begun, failing aside.
Work(i) ==
    \/ Claim(i) \/ ReadHead(i) \/ ReadFindings(i)
    \/ \E offered \in inv[i].todo : AcceptFile(i, offered)
    \/ Accepted(i) \/ Plan(i)
    \/ UpdateRef(i) \/ StepAside(i) \/ RefRefused(i)
    \/ MarkCommitted(i) \/ PutCommittedEvent(i)
    \/ Finish(i) \/ FinishRefused(i) \/ Backstop(i)

CommitterNext ==
    \E i \in Invocations :
        \/ \E r \in Requests : Receive(i, r)
        \/ Work(i)
        \/ Crash(i)

=============================================================================
