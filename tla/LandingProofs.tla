---------------------------- MODULE LandingProofs ----------------------------
(***************************************************************************)
(* What the committer puts on the branch, for every number of requests,    *)
(* runs, deliveries, crashes, reviewers, drafters and pushes: only what    *)
(* was confirmed, only over the version it was drafted on, a click only    *)
(* over the head it was for; and, seen from outside, in one step.          *)
(*                                                                         *)
(* The argument.  A run makes its plan over the head it read, long before  *)
(* it pushes, and keeps of it what the request confirmed.  That stays true *)
(* until the push for two reasons: a request's confirmation is settled     *)
(* before any run of it exists (Settled), and the head's commit never      *)
(* changes once it is on the branch.  The fast-forward then makes the head *)
(* it read the parent (Prepared).  What a request says when it has ended   *)
(* is true (Truth), and is not written over (HandingOver).                 *)
(*                                                                         *)
(* Three properties are false while fixes are drafted and decided anew:    *)
(* what lands was decided (DecidedInv), what is marked is on the branch    *)
(* (MarkedInv), and an accepted fix stands on accepted fixes               *)
(* (ReviewsStand). They are proved from where drafting is over             *)
(* (DraftingIsOver), the first also where deciding is (DecidingIsOver):    *)
(* the drafter opens no accepted finding, and an accepted chain keeps its  *)
(* fixes (ApprovedApart).                                                  *)
(*                                                                         *)
(* What DecidedInv says of a landing also says how often there is one. A   *)
(* file that something has landed in is not the first version again unless *)
(* somebody takes the branch back (FirstIsLeft), and every fix was drafted *)
(* on the first version: so no file is written twice (FilesLandOnce).      *)
(***************************************************************************)
EXTENDS WriteBackProofs

\* A request is recorded, handed over, and run, in this order; its confirmation
\* is empty until it is recorded.
Settled(r) ==
    /\ asking[r].pc # "no" => r \in DashboardRequests
    /\ (r \in DashboardRequests /\ r \in queued) => asking[r].pc \notin {"no", "checked"}
    /\ asking[r].pc \notin {"no", "checked"} => request[r].status # "none"
    /\ (r \notin queued /\ asking[r].pc \in {"no", "checked"}) => request[r].status = "none"
    /\ (r \in queued /\ request[r].source # "github") => request[r].status # "none"
    /\ request[r].status = "none" => request[r].confirmed = {}
    /\ \A i \in Invocations : inv[i].req = r => r \in queued /\ request[r].status # "none"
    /\ \A k \in DOMAIN branch : branch[k].by = r => r \in queued /\ request[r].status # "none"

\* A run about to push writes something, and each file it writes was confirmed
\* and is planned over the head it read; a click's head is the offer's.
Prepared(i) ==
    /\ (/\ inv[i].pc \in {"find", "accept", "plan", "push"}
        /\ ~inv[i].onHead
        /\ request[inv[i].req].source = "github") => inv[i].head = request[inv[i].req].offerHead
    /\ inv[i].pc = "push" =>
        /\ ~inv[i].onHead
        /\ \E p \in inv[i].plans : p.outcome = "commit"
        /\ \A p \in inv[i].plans : p.outcome = "commit" =>
            /\ Confirmed(p, inv[i].req)
            /\ p.base = branch[inv[i].head].tree[p.file]
        /\ \A p, q \in inv[i].plans : p.file = q.file => p = q

AllSettled  == \A r \in Requests : Settled(r)
AllPrepared == \A i \in Invocations : Prepared(i)

IInv == TypeOK /\ AllSettled /\ AllPrepared

----------------------------------------------------------------------------
(* What the steps leave alone *)

\* The confirmation of a request stands, and so does its offer.
Kept(r) == /\ request'[r].confirmed = request[r].confirmed
           /\ request'[r].source = request[r].source
           /\ request'[r].offerHead = request[r].offerHead
           /\ request[r].status # "none" => request'[r].status # "none"

LEMMA RequestType ==
    ASSUME TypeOK
    PROVE  /\ request \in [Requests -> Request]
           /\ inv \in [Invocations -> RunOn(Len(branch))]
           /\ asking \in [Requests -> Ask]
           /\ Len(branch) \in Nat
           /\ \A k \in DOMAIN branch : branch[k] \in Commit
BY DEF TypeOK, RecordsTypeOK, CommitterTypeOK, ReviewTypeOK

LEMMA StartRecordFrame ==
    ASSUME TypeOK, NEW i \in Invocations
    PROVE  \A plans, sha : StartRecord(i, plans, sha) =>
                inv'[i].req = Req(i) /\ \A j \in Invocations : j # i => inv'[j] = inv[j]
<1> TAKE plans, sha
<1>1. inv \in [Invocations -> RunOn(Len(branch))] /\ inv[i] \in Run
    BY RequestType DEF RunOn
<1> QED BY <1>1 DEF StartRecord, Go, Req, Run

\* A step of accept_offer changes of its run what is left to do and what it held.
LEMMA AcceptFileRun ==
    ASSUME inv \in [Invocations -> RunOn(Len(branch))], NEW i \in Invocations,
           NEW offered \in inv[i].todo, AcceptFile(i, offered)
    PROVE  /\ UNCHANGED <<queued, request, branch>>
           /\ inv[i].pc = "accept" /\ inv'[i].pc = "accept"
           /\ inv'[i].req = inv[i].req /\ inv'[i].head = inv[i].head
           /\ inv'[i].onHead = inv[i].onHead
           /\ \A j \in Invocations : j # i => inv'[j] = inv[j]
<1> DEFINE left == [inv[i] EXCEPT !.todo = @ \ {offered}]
           held == [inv[i] EXCEPT !.todo = @ \ {offered}, !.changed = @ \cup {offered}]
           Same(run) == /\ run.pc = inv[i].pc /\ run.req = inv[i].req
                        /\ run.head = inv[i].head /\ run.onHead = inv[i].onHead
<1>1. inv \in [Invocations -> Run]
    BY DEF RunOn
<1>2. inv[i] \in Run
    BY <1>1
<1>3. Same(left) /\ Same(held)
    BY <1>2 DEF Run
<1>4. /\ UNCHANGED <<queued, request, branch>> /\ inv[i].pc = "accept"
      /\ inv' = [inv EXCEPT ![i] = left] \/ inv' = [inv EXCEPT ![i] = held]
    BY DEF AcceptFile, Go, At
<1> HIDE DEF left, held
<1> QED BY <1>1, <1>3, <1>4

\* A run works on its own request, and on its own slot.
LEMMA WorkFrame ==
    ASSUME TypeOK, NEW i \in Invocations, Work(i) \/ Crash(i)
    PROVE  /\ queued' = queued
           /\ Req(i) \in Requests /\ inv'[i].req = Req(i)
           /\ \A j \in Invocations : j # i => inv'[j] = inv[j]
           /\ \A r \in Requests : r # Req(i) => request'[r] = request[r]
           /\ Kept(Req(i))
           /\ UpdateRef(i) \/ branch' = branch
<1>1. inv \in [Invocations -> RunOn(Len(branch))] /\ request \in [Requests -> Request]
    BY RequestType
<1>2. Req(i) \in Requests
    <2>1. inv[i].pc # "idle"
        BY DEF Work, Claim, ReadHead, ReadFindings, AcceptFile, Accepted, Plan, UpdateRef,
            StepAside, RefRefused, MarkCommitted, PutCommittedEvent, Finish, FinishRefused,
            Backstop, Crash, At
    <2> QED BY <1>1, <2>1 DEF RunOn, Req
<1>3. request[Req(i)] \in Request
    BY <1>1, <1>2
<1>4. ASSUME NEW offered \in inv[i].todo, AcceptFile(i, offered)
      PROVE  /\ queued' = queued /\ request' = request /\ branch' = branch
             /\ inv'[i].req = Req(i)
             /\ \A j \in Invocations : j # i => inv'[j] = inv[j]
    BY <1>1, <1>4, AcceptFileRun DEF Req
<1>5. CASE Claim(i)
    BY <1>1, <1>2, <1>3, <1>5 DEF Claim, Go, Req, Kept, Request
<1>6. CASE ReadHead(i)
    BY <1>1, <1>2, <1>3, <1>6 DEF ReadHead, recordVars, Go, Req, Kept, Request
<1>7. CASE ReadFindings(i)
    BY <1>1, <1>2, <1>3, <1>7 DEF ReadFindings, recordVars, Go, Req, Kept, Request
<1>8. CASE Accepted(i)
    BY <1>1, <1>2, <1>3, <1>8 DEF Accepted, recordVars, Go, Req, Kept, Request
<1>9. CASE Plan(i)
    <2>1. inv'[i].req = Req(i) /\ \A j \in Invocations : j # i => inv'[j] = inv[j]
        BY <1>1, <1>9, StartRecordFrame DEF Plan, Go, Req, RunOn, Run
    <2> QED BY <1>2, <1>9, <2>1 DEF Plan, Kept
<1>10. CASE UpdateRef(i)
    <2>1. inv'[i].req = Req(i) /\ \A j \in Invocations : j # i => inv'[j] = inv[j]
        BY <1>10, StartRecordFrame DEF UpdateRef
    <2> QED BY <1>2, <1>10, <2>1 DEF UpdateRef, Kept
<1>11. CASE StepAside(i)
    BY <1>1, <1>2, <1>3, <1>11 DEF StepAside, End, Blank, recordVars, Go, Req, Kept, Request
<1>12. CASE RefRefused(i)
    BY <1>1, <1>2, <1>3, <1>12 DEF RefRefused, recordVars, Go, Req, Kept, Request
<1>13. CASE MarkCommitted(i)
    <2>1. /\ Go(i, [inv[i] EXCEPT !.pc = "event"])
          /\ request' = request /\ queued' = queued /\ branch' = branch
        BY <1>13 DEF MarkCommitted
    <2> QED BY <1>1, <1>2, <1>3, <2>1 DEF Go, Req, Kept
<1>14. CASE PutCommittedEvent(i)
    BY <1>1, <1>2, <1>3, <1>14 DEF PutCommittedEvent, Go, Req, Kept, Request
<1>15. CASE Finish(i)
    BY <1>1, <1>2, <1>3, <1>15 DEF Finish, End, Blank, Go, Req, Kept, Request
<1>16. CASE FinishRefused(i)
    BY <1>1, <1>2, <1>3, <1>16 DEF FinishRefused, End, Blank, Go, Req, Kept, Request
<1>17. CASE Backstop(i)
    BY <1>1, <1>2, <1>3, <1>17 DEF Backstop, End, Blank, Go, Req, Kept, Request
<1>18. CASE Crash(i)
    BY <1>1, <1>2, <1>3, <1>18 DEF Crash, Blank, recordVars, Go, Req, Kept, Request
<1> QED BY <1>2, <1>3, <1>4, <1>5, <1>6, <1>7, <1>8, <1>9, <1>10, <1>11, <1>12, <1>13, <1>14, <1>15, <1>16, <1>17, <1>18 DEF Work, Kept

\* A run starts on a request that was handed over, and records it if it is a
\* click's: by then its confirmation is settled.
LEMMA ReceiveFrame ==
    ASSUME TypeOK, NEW i \in Invocations, NEW r \in Requests, Receive(i, r)
    PROVE  /\ r \in queued /\ queued' = queued /\ branch' = branch
           /\ inv'[i].req = r /\ inv'[i].pc \in {"claim", "done"}
           /\ \A j \in Invocations : j # i => inv'[j] = inv[j]
           /\ \A s \in Requests : s # r => request'[s] = request[s]
           /\ request[r].status # "none" => request'[r] = request[r]
           /\ request[r].source = "github" => request'[r].status # "none"
           /\ request'[r].source = request[r].source
           /\ request'[r].status = "none" => request'[r] = request[r]
<1>1. inv \in [Invocations -> RunOn(Len(branch))] /\ request \in [Requests -> Request]
    BY RequestType
<1>2. request[r] \in Request
    BY <1>1
<1> DEFINE recorded == IF request[r].source = "github" THEN ClickedRequest(r) ELSE request[r]
<1>3. /\ request[r].status # "none" => recorded = request[r]
      /\ request[r].source = "github" => recorded.status # "none"
      /\ recorded.source = request[r].source
      /\ recorded.status = "none" => recorded = request[r]
    BY <1>2 DEF ClickedRequest, Request
<1>4. /\ r \in queued /\ queued' = queued /\ branch' = branch
      /\ request' = [request EXCEPT ![r] = recorded]
      /\ Go(i, [Blank EXCEPT !.req = r, !.tries = inv[i].tries,
                    !.pc = IF recorded.status \in Active THEN "claim" ELSE "done"])
    BY DEF Receive
<1> HIDE DEF recorded
<1>5. inv' = [inv EXCEPT ![i] = [Blank EXCEPT !.req = r, !.tries = inv[i].tries,
                    !.pc = IF recorded.status \in Active THEN "claim" ELSE "done"]]
    BY <1>4 DEF Go
<1>6. inv'[i].req = r /\ inv'[i].pc \in {"claim", "done"}
    BY <1>1, <1>5 DEF Blank
<1>7. \A j \in Invocations : j # i => inv'[j] = inv[j]
    BY <1>1, <1>5
<1>8. request'[r] = recorded /\ \A s \in Requests : s # r => request'[s] = request[s]
    BY <1>1, <1>4
<1> QED BY <1>3, <1>4, <1>6, <1>7, <1>8

\* A decision does not touch the requests.
LEMMA ReviewFrame ==
    ASSUME ReviewNext
    PROVE  /\ branch' = branch
           /\ \/ request' = request /\ queued' = queued /\ asking' = asking
              \/ \E r \in Requests : AskCommit(r) \/ HandOver(r) \/ Killed(r)
<1>1. ASSUME NEW v \in Reviewers, Serve(v) \/ DecisionDies(v)
      PROVE  branch' = branch /\ request' = request /\ queued' = queued /\ asking' = asking
    BY <1>1 DEF Serve, DecisionDies, PutDecision, UploadEdit, UpdateFinding, ReadDependents,
        Reopen, recordVars
<1>2. ASSUME NEW v \in Reviewers, NEW f \in Findings, NEW action \in Decisions, NEW diff \in Diffs,
             Decide(v, f, action, diff)
      PROVE  branch' = branch /\ request' = request /\ queued' = queued /\ asking' = asking
    BY <1>2 DEF Decide, recordVars
<1>3. ASSUME NEW r \in Requests, AskCommit(r) \/ HandOver(r) \/ Killed(r)
      PROVE  branch' = branch
    BY <1>3 DEF AskCommit, HandOver, Killed, RecordRequest, Invoke, InvokeFails,
        MarkNotHandedOver, recordVars
<1> QED BY <1>1, <1>2, <1>3 DEF ReviewNext

\* Of the pipeline's steps only a click touches the requests.
LEMMA PipelineFrame ==
    ASSUME PipelineNext
    PROVE  /\ branch' = branch
           /\ \/ request' = request /\ queued' = queued
              \/ \E r \in ClickRequests, c \in checks : Click(r, c)
<1>1. ASSUME RemediationNext
      PROVE  branch' = branch /\ request' = request /\ queued' = queued
    <2>1. ASSUME NEW w \in Drafters, DraftStep(w) \/ \E file \in Files : Begin(w, file)
          PROVE  branch' = branch /\ request' = request /\ queued' = queued
        BY <2>1 DEF DraftStep, Begin, ReopenStale, Root, Supersede, NotDrafted, Upload, Suppression,
            DraftError, WriteResult, Yield, DraftsDone, DraftRunDies, recordVars
    <2> QED BY <1>1, <2>1 DEF RemediationNext
<1> QED BY <1>1 DEF PipelineNext, Fetch, Report, Scan, RecordOffer, Click, recordVars

----------------------------------------------------------------------------
(* A request is settled before it runs *)

LEMMA InitSettled == Init => AllSettled
<1> SUFFICES ASSUME Init, NEW r \in Requests PROVE Settled(r)
    BY DEF AllSettled
<1>1. r # NoRequest
    BY RequestsAssumption
<1>2. /\ asking[r].pc = "no" /\ queued = {}
      /\ request[r].status = "none" /\ request[r].confirmed = {}
      /\ \A i \in Invocations : inv[i].req = NoRequest
    BY DEF Init, ReviewInit, NotAsked, CommitterInit, Blank, BlankRequest
<1>3. \A k \in DOMAIN branch : branch[k].by = NoRequest
    BY DEF Init
<1> QED BY <1>1, <1>2, <1>3 DEF Settled

\* The requests of an invocation's steps: its own was handed over.
LEMMA CommitterSettled ==
    ASSUME TypeOK, AllSettled, CommitterNext, UNCHANGED reviewVars
    PROVE  AllSettled'
<1> SUFFICES ASSUME NEW r \in Requests PROVE Settled(r)'
    BY DEF AllSettled
<1>1. Settled(r) /\ asking' = asking /\ Len(branch) \in Nat
    BY RequestType DEF AllSettled, reviewVars
<1>2. PICK i \in Invocations : \/ \E s \in Requests : Receive(i, s)
                               \/ Work(i) \/ Crash(i)
    BY DEF CommitterNext
<1>3. CASE \E s \in Requests : Receive(i, s)
    <2>1. PICK s \in Requests : Receive(i, s)
        BY <1>3
    <2>2. /\ s \in queued /\ queued' = queued /\ branch' = branch
          /\ inv'[i].req = s
          /\ \A j \in Invocations : j # i => inv'[j] = inv[j]
          /\ r # s => request'[r] = request[r]
          /\ request[s].status # "none" => request'[s] = request[s]
          /\ request[s].source = "github" => request'[s].status # "none"
          /\ request'[s].source = request[s].source
          /\ request'[s].status = "none" => request'[s] = request[s]
        BY <2>1, ReceiveFrame
    <2>3. \A j \in Invocations : inv'[j].req = r => r = s \/ inv[j].req = r
        BY <2>2
    <2>4. CASE r = s
        <3>1. request'[r].status # "none"
            BY <1>1, <2>2, <2>4 DEF Settled
        <3> QED BY <1>1, <2>2, <2>3, <2>4, <3>1 DEF Settled
    <2>5. CASE r # s
        BY <1>1, <2>2, <2>3, <2>5 DEF Settled
    <2> QED BY <2>4, <2>5
<1>4. CASE Work(i) \/ Crash(i)
    <2>1. /\ queued' = queued
          /\ Req(i) \in Requests /\ inv'[i].req = Req(i)
          /\ \A j \in Invocations : j # i => inv'[j] = inv[j]
          /\ r # Req(i) => request'[r] = request[r]
          /\ Kept(Req(i))
          /\ UpdateRef(i) \/ branch' = branch
        BY <1>4, WorkFrame
    <2>2. \A j \in Invocations : inv'[j].req = inv[j].req
        BY <2>1 DEF Req
    <2>3. \A k \in DOMAIN branch' : branch'[k].by = r =>
                r = Req(i) \/ \E j \in DOMAIN branch : branch[j].by = r
        <3>1. CASE UpdateRef(i)
            <4>1. branch' = Append(branch, NewCommit(i)) /\ NewCommit(i).by = Req(i)
                BY <3>1 DEF UpdateRef, NewCommit
            <4>2. branch \in Seq(Commit)
                BY DEF TypeOK, RecordsTypeOK
            <4>3. \A k \in DOMAIN branch' : k \in DOMAIN branch \/ k = Len(branch) + 1
                BY <4>1, <4>2
            <4>4. /\ \A k \in DOMAIN branch : branch'[k] = branch[k]
                  /\ branch'[Len(branch) + 1] = NewCommit(i)
                BY <4>1, <4>2
            <4> QED BY <4>1, <4>3, <4>4
        <3> QED BY <2>1, <3>1
    <2>4. CASE r = Req(i)
        <3>1. r \in queued /\ request[r].status # "none"
            BY <1>1, <2>4 DEF Settled, Req
        <3> QED BY <1>1, <2>1, <2>2, <2>3, <2>4, <3>1 DEF Settled, Kept
    <2>5. CASE r # Req(i)
        BY <1>1, <2>1, <2>2, <2>3, <2>5 DEF Settled
    <2> QED BY <2>4, <2>5
<1> QED BY <1>2, <1>3, <1>4

\* A request is confirmed before it is recorded, and recorded before it is
\* handed over.
LEMMA ReviewSettled ==
    ASSUME TypeOK, AllSettled, ReviewNext, inv' = inv
    PROVE  AllSettled'
<1> SUFFICES ASSUME NEW r \in Requests PROVE Settled(r)'
    BY DEF AllSettled
<1>1. /\ Settled(r) /\ branch' = branch
      /\ request \in [Requests -> Request] /\ asking \in [Requests -> Ask]
    BY RequestType, ReviewFrame DEF AllSettled
<1>2. CASE request' = request /\ queued' = queued /\ asking' = asking
    BY <1>1, <1>2 DEF Settled
<1>3. ASSUME NEW s \in Requests, AskCommit(s) \/ HandOver(s) \/ Killed(s), s # r
      PROVE  Settled(r)'
    <2>1. request'[r] = request[r] /\ asking'[r] = asking[r] /\ (r \in queued' <=> r \in queued)
        BY <1>1, <1>3 DEF AskCommit, HandOver, Killed, RecordRequest, Invoke, InvokeFails,
            MarkNotHandedOver, recordVars
    <2> QED BY <1>1, <2>1 DEF Settled
<1>4. CASE AskCommit(r)
    <2>1. /\ r \in DashboardRequests /\ asking[r].pc = "no" /\ asking'[r].pc = "checked"
          /\ request' = request /\ queued' = queued
        BY <1>1, <1>4 DEF AskCommit, recordVars
    <2> QED BY <1>1, <2>1 DEF Settled
<1>5. CASE RecordRequest(r)
    <2>1. /\ asking[r].pc = "checked" /\ asking'[r].pc = "recorded" /\ queued' = queued
          /\ request'[r].status = "requested" /\ request'[r].source = "dashboard"
        BY <1>1, <1>5 DEF RecordRequest, BlankRequest
    <2> QED BY <1>1, <2>1 DEF Settled
<1>6. CASE Invoke(r)
    <2>1. /\ asking[r].pc = "recorded" /\ asking'[r].pc = "done" /\ r \in queued'
          /\ request' = request
        BY <1>1, <1>6 DEF Invoke
    <2> QED BY <1>1, <2>1 DEF Settled
<1>7. CASE InvokeFails(r)
    <2>1. /\ asking[r].pc = "recorded" /\ asking'[r].pc = "failing"
          /\ request' = request /\ (r \in queued => r \in queued')
        BY <1>1, <1>7 DEF InvokeFails
    <2> QED BY <1>1, <2>1 DEF Settled
<1>8. CASE MarkNotHandedOver(r)
    <2>1. /\ asking[r].pc = "failing" /\ asking'[r].pc = "done" /\ queued' = queued
          /\ request'[r].status = "failed"
        BY <1>1, <1>8 DEF MarkNotHandedOver
    <2> QED BY <1>1, <2>1 DEF Settled
<1>9. CASE Killed(r)
    <2>1. /\ asking[r].pc = "recorded" /\ asking'[r].pc = "done"
          /\ request' = request /\ queued' = queued
        BY <1>1, <1>9 DEF Killed, recordVars
    <2> QED BY <1>1, <2>1 DEF Settled
<1> QED BY <1>2, <1>3, <1>4, <1>5, <1>6, <1>7, <1>8, <1>9, ReviewFrame DEF HandOver

\* A click is handed over before its request is recorded, by its own run.
LEMMA PipelineSettled ==
    ASSUME TypeOK, AllSettled, PipelineNext, inv' = inv, asking' = asking
    PROVE  AllSettled'
<1> SUFFICES ASSUME NEW r \in Requests PROVE Settled(r)'
    BY DEF AllSettled
<1>1. Settled(r) /\ branch' = branch /\ request \in [Requests -> Request]
    BY RequestType, PipelineFrame DEF AllSettled
<1>2. CASE request' = request /\ queued' = queued
    BY <1>1, <1>2 DEF Settled
<1>3. ASSUME NEW s \in ClickRequests, NEW c \in checks, Click(s, c)
      PROVE  Settled(r)'
    <2>1. s \notin DashboardRequests /\ s \in Requests
        BY RequestIdsAssumption, PipelineAssumption
    <2>2. /\ s \notin queued /\ queued' = queued \cup {s}
          /\ request'[s] = [BlankRequest EXCEPT !.source = "github", !.check = c.id, !.at = clock + 1]
          /\ s # r => request'[r] = request[r]
        BY <1>1, <1>3, <2>1 DEF Click
    <2>3. CASE s = r
        BY <1>1, <2>1, <2>2, <2>3 DEF Settled, BlankRequest
    <2>4. CASE s # r
        BY <1>1, <2>2, <2>4 DEF Settled
    <2> QED BY <2>3, <2>4
<1> QED BY <1>2, <1>3, PipelineFrame

LEMMA PeopleSettled ==
    ASSUME TypeOK, AllSettled, PeopleNext
    PROVE  AllSettled' /\ inv' = inv /\ request' = request
           /\ \/ branch' = branch
              \/ \E tree : branch' = Append(branch, [tree |-> tree, by |-> NoRequest, wrote |-> {}])
<1>1. /\ inv' = inv /\ request' = request /\ asking' = asking /\ queued' = queued
      /\ \/ branch' = branch
         \/ \E tree : branch' = Append(branch, [tree |-> tree, by |-> NoRequest, wrote |-> {}])
    <2>1. CASE ClosePullRequest
        BY <2>1 DEF ClosePullRequest, recordVars, reviewVars
    <2>2. ASSUME NEW tree, Push(tree)
          PROVE  /\ inv' = inv /\ request' = request /\ asking' = asking /\ queued' = queued
                 /\ branch' = Append(branch, [tree |-> tree, by |-> NoRequest, wrote |-> {}])
        BY <2>2 DEF Push, committerVars, reviewVars
    <2> QED BY <2>1, <2>2 DEF PeopleNext, Edit, ApplySuggestions, Revert
<1>2. ASSUME NEW r \in Requests PROVE Settled(r)'
    <2>1. Settled(r) /\ branch \in Seq(Commit) /\ r # NoRequest
        BY RequestsAssumption DEF AllSettled, TypeOK, RecordsTypeOK
    <2>2. \A k \in DOMAIN branch' : branch'[k].by = r => \E j \in DOMAIN branch : branch[j].by = r
        <3>1. CASE branch' = branch
            BY <3>1
        <3>2. ASSUME NEW tree, branch' = Append(branch, [tree |-> tree, by |-> NoRequest, wrote |-> {}])
              PROVE  \A k \in DOMAIN branch' : branch'[k].by = r => \E j \in DOMAIN branch : branch[j].by = r
            BY <2>1, <3>2
        <3> QED BY <1>1, <3>1, <3>2
    <2> QED BY <1>1, <2>1, <2>2 DEF Settled
<1> QED BY <1>1, <1>2 DEF AllSettled

\* The steps of the four parties, and nothing else.
LEMMA SettledStep == TypeOK /\ AllSettled /\ [Next]_vars => AllSettled'
<1> SUFFICES ASSUME TypeOK, AllSettled, [Next]_vars PROVE AllSettled'
    OBVIOUS
<1>1. CASE CommitterStep
    BY <1>1, CommitterSettled DEF CommitterStep
<1>2. CASE ReviewStep
    BY <1>2, ReviewSettled DEF ReviewStep, committerVars
<1>3. CASE PipelineStep
    BY <1>3, PipelineSettled DEF PipelineStep, committerVars, reviewVars
<1>4. CASE PeopleNext
    BY <1>4, PeopleSettled
<1>5. CASE UNCHANGED vars
    BY <1>5 DEF vars, recordVars, committerVars, reviewVars, AllSettled, Settled
<1> QED BY <1>1, <1>2, <1>3, <1>4, <1>5 DEF Next

\* What was confirmed for a recorded request stands.
LEMMA Stands ==
    ASSUME TypeOK, AllSettled, [Next]_vars, NEW r \in Requests, request[r].status # "none"
    PROVE  Kept(r)
<1>1. Settled(r) /\ request \in [Requests -> Request] /\ request[r] \in Request
    BY RequestType DEF AllSettled
<1>2. request'[r] = request[r] => Kept(r)
    BY DEF Kept
<1>3. CASE CommitterStep
    <2>1. PICK i \in Invocations : \/ \E s \in Requests : Receive(i, s)
                                   \/ Work(i) \/ Crash(i)
        BY <1>3 DEF CommitterStep, CommitterNext
    <2>2. CASE \E s \in Requests : Receive(i, s)
        BY <1>2, <2>2, ReceiveFrame
    <2>3. CASE Work(i) \/ Crash(i)
        BY <1>2, <2>3, WorkFrame
    <2> QED BY <2>1, <2>2, <2>3
<1>4. CASE ReviewStep
    <2>1. ASSUME NEW s \in Requests, AskCommit(s) \/ HandOver(s) \/ Killed(s)
          PROVE  Kept(r)
        <3>1. CASE RecordRequest(s)
            BY <1>1, <1>2, <3>1 DEF RecordRequest, Settled
        <3>2. CASE MarkNotHandedOver(s)
            BY <1>1, <3>2 DEF MarkNotHandedOver, Kept, Request
        <3>3. CASE AskCommit(s) \/ Killed(s) \/ Invoke(s) \/ InvokeFails(s)
            BY <1>2, <3>3 DEF AskCommit, Killed, Invoke, InvokeFails, recordVars
        <3> QED BY <2>1, <3>1, <3>2, <3>3 DEF HandOver
    <2> QED BY <1>2, <1>4, <2>1, ReviewFrame DEF ReviewStep
<1>5. CASE PipelineStep
    <2>1. ASSUME NEW s \in ClickRequests, NEW c \in checks, Click(s, c)
          PROVE  Kept(r)
        <3>1. s \notin DashboardRequests /\ s \in Requests
            BY RequestIdsAssumption, PipelineAssumption
        <3>2. CASE s = r
            <4>1. asking[r].pc = "no" /\ r \notin queued
                BY <1>1, <2>1, <3>1, <3>2 DEF Settled, Click
            <4> QED BY <1>1, <4>1 DEF Settled
        <3>3. CASE s # r
            BY <1>1, <1>2, <2>1, <3>3 DEF Click
        <3> QED BY <3>2, <3>3
    <2> QED BY <1>2, <1>5, <2>1, PipelineFrame DEF PipelineStep
<1>6. CASE PeopleNext
    BY <1>2, <1>6, PeopleSettled
<1>7. CASE UNCHANGED vars
    BY <1>2, <1>7 DEF vars, recordVars
<1> QED BY <1>3, <1>4, <1>5, <1>6, <1>7 DEF Next

----------------------------------------------------------------------------
(* The branch only grows *)

\* The commits that are on the branch stay, and at most one is added.
LEMMA BranchGrows ==
    ASSUME TypeOK, [Next]_vars
    PROVE  /\ \/ branch' = branch
              \/ \E i \in Invocations : UpdateRef(i) /\ CommitterStep
              \/ \E tree : branch' = Append(branch, [tree |-> tree, by |-> NoRequest, wrote |-> {}])
           /\ \A k \in DOMAIN branch : k \in DOMAIN branch' /\ branch'[k] = branch[k]
<1>1. \/ branch' = branch
      \/ \E i \in Invocations : UpdateRef(i) /\ CommitterStep
      \/ \E tree : branch' = Append(branch, [tree |-> tree, by |-> NoRequest, wrote |-> {}])
    <2>1. CASE CommitterStep
        <3>1. PICK i \in Invocations : \/ \E s \in Requests : Receive(i, s)
                                       \/ Work(i) \/ Crash(i)
            BY <2>1 DEF CommitterStep, CommitterNext
        <3>2. CASE \E s \in Requests : Receive(i, s)
            BY <3>2, ReceiveFrame
        <3>3. CASE Work(i) \/ Crash(i)
            BY <2>1, <3>3, WorkFrame
        <3> QED BY <3>1, <3>2, <3>3
    <2>2. CASE ReviewStep
        BY <2>2, ReviewFrame DEF ReviewStep
    <2>3. CASE PipelineStep
        BY <2>3, PipelineFrame DEF PipelineStep
    <2>4. CASE PeopleNext
        <3>1. CASE ClosePullRequest
            BY <3>1 DEF ClosePullRequest, recordVars
        <3>2. ASSUME NEW tree, Push(tree)
              PROVE  branch' = Append(branch, [tree |-> tree, by |-> NoRequest, wrote |-> {}])
            BY <3>2 DEF Push
        <3> QED BY <2>4, <3>1, <3>2 DEF PeopleNext, Edit, ApplySuggestions, Revert
    <2>5. CASE UNCHANGED vars
        BY <2>5 DEF vars, recordVars
    <2> QED BY <2>1, <2>2, <2>3, <2>4, <2>5 DEF Next
<1>2. branch \in Seq(Commit)
    BY DEF TypeOK, RecordsTypeOK
<1>3. branch' = branch \/ \E c : branch' = Append(branch, c)
    BY <1>1 DEF UpdateRef
<1>4. \A k \in DOMAIN branch : k \in DOMAIN branch' /\ branch'[k] = branch[k]
    BY <1>2, <1>3
<1> QED BY <1>1, <1>4

----------------------------------------------------------------------------
(* What a run has prepared *)

LEMMA InitPrepared == Init => AllPrepared
BY DEF Init, CommitterInit, Blank, AllPrepared, Prepared

\* A run that waits stays prepared, whatever the others do.
LEMMA WaitingPrepared ==
    ASSUME TypeOK, AllSettled, [Next]_vars, NEW i \in Invocations, Prepared(i), inv'[i] = inv[i]
    PROVE  Prepared(i)'
<1>1. inv \in [Invocations -> RunOn(Len(branch))] /\ branch \in Seq(Commit)
    BY DEF TypeOK, CommitterTypeOK, RecordsTypeOK
<1>2. CASE inv[i].pc \notin {"find", "accept", "plan", "push"}
    BY <1>2 DEF Prepared
<1>3. CASE inv[i].pc \in {"find", "accept", "plan", "push"}
    <2>1. inv[i].req \in Requests /\ inv[i].head \in 1..Len(branch)
        BY <1>1, <1>3 DEF RunOn
    <2>2. request[inv[i].req].status # "none"
        BY <2>1 DEF AllSettled, Settled
    <2>3. Kept(inv[i].req)
        BY <2>1, <2>2, Stands
    <2>4. branch'[inv[i].head] = branch[inv[i].head]
        BY <1>1, <2>1, BranchGrows
    <2>5. ASSUME NEW p PROVE Confirmed(p, inv[i].req)' <=> Confirmed(p, inv[i].req)
        BY <2>3 DEF Confirmed, Kept
    <2>6. \A p : p \in inv'[i].plans <=> p \in inv[i].plans
        OBVIOUS
    <2> QED BY <2>3, <2>4, <2>5, <2>6 DEF Prepared, Kept
<1> QED BY <1>2, <1>3

\* The head a run reads is the offer's, if a click's run goes on from there.
LEMMA HeadPrepared ==
    ASSUME TypeOK, NEW i \in Invocations, ReadHead(i)
    PROVE  Prepared(i)'
<1>1. inv \in [Invocations -> RunOn(Len(branch))]
    BY RequestType
<1> DEFINE onHead  == inv[i].retry /\ HasTrailer(Len(branch), Req(i))
           refused == \/ request[Req(i)].source = "github" /\ Req(i) \notin Permitted
                      \/ ~open
                      \/ ~onHead /\ OffHead(i)
           run     == IF refused THEN [inv[i] EXCEPT !.pc = "refuse"]
                      ELSE [inv[i] EXCEPT !.pc = "find", !.head = Len(branch), !.onHead = onHead]
<1>2. inv' = [inv EXCEPT ![i] = run] /\ request' = request
    BY DEF ReadHead, Go, recordVars
<1>3. inv'[i] = run
    BY <1>1, <1>2
<1>4. inv[i] \in Run
    BY <1>1 DEF RunOn
<1>5. CASE refused
    <2>1. inv'[i].pc = "refuse"
        BY <1>3, <1>4, <1>5 DEF Run
    <2> QED BY <2>1 DEF Prepared
<1>6. CASE ~refused
    <2>1. /\ inv'[i].pc = "find" /\ inv'[i].head = Len(branch) /\ inv'[i].onHead = onHead
          /\ inv'[i].req = inv[i].req
        BY <1>3, <1>4, <1>6 DEF Run
    <2>2. ~onHead /\ request[Req(i)].source = "github" => Len(branch) = request[Req(i)].offerHead
        BY <1>6 DEF OffHead
    <2> QED BY <1>2, <2>1, <2>2 DEF Prepared, Req
<1> QED BY <1>5, <1>6

\* The plan is made over the head that was read, and what was not confirmed is
\* held.
LEMMA PlanPrepared ==
    ASSUME TypeOK, NEW i \in Invocations, Plan(i), Prepared(i)
    PROVE  Prepared(i)'
<1> DEFINE seen   == inv[i].seen
           tree   == branch[inv[i].head].tree
           drawn  == {q \in PlanCommit(seen.fix, seen.gone, latest, stored, tree) : InScope(q, i)}
           plans  == {Filtered(p, i) : p \in drawn}
<1>1. /\ inv \in [Invocations -> RunOn(Len(branch))] /\ branch \in Seq(Commit)
      /\ stored \in [Findings -> Content \cup {NoContent}]
    BY DEF TypeOK, CommitterTypeOK, RecordsTypeOK
<1>2. inv[i] \in Run /\ inv[i].pc = "plan" /\ seen \in Seen /\ inv[i].head \in 1..Len(branch)
    BY <1>1 DEF Plan, At, RunOn
<1>3. seen.fix \in Fixes /\ tree \in Tree
    <2>1. branch[inv[i].head] \in Commit
        BY <1>1, <1>2
    <2> QED BY <1>2, <2>1 DEF Seen, Fixes, Commit
<1>4. request' = request /\ branch' = branch
    BY DEF Plan
<1>5. CASE ~inv[i].onHead /\ \E p \in plans : p.outcome = "commit"
    <2>1. Go(i, [inv[i] EXCEPT !.pc = "push", !.plans = plans, !.seen = <<>>, !.changed = {}])
        BY <1>5 DEF Plan
    <2>2. /\ inv'[i].pc = "push" /\ inv'[i].plans = plans /\ inv'[i].onHead = inv[i].onHead
          /\ inv'[i].head = inv[i].head /\ inv'[i].req = inv[i].req
        BY <1>1, <1>2, <2>1 DEF Go, Run
    <2>3. /\ drawn \subseteq PlanOfFile
          /\ \A p \in drawn : p.base = tree[p.file]
          /\ \A p, q \in drawn : p.file = q.file => p = q
        BY <1>1, <1>3, PlanCommitType
    <2>4. ASSUME NEW p \in drawn
          PROVE  /\ Filtered(p, i).file = p.file /\ Filtered(p, i).base = p.base
                 /\ Filtered(p, i).outcome = "commit" => Filtered(p, i) = p /\ Confirmed(p, Req(i))
        BY <1>5, <2>3 DEF Filtered, Hold, PlanOfFile
    <2> HIDE DEF drawn
    <2>5. \A p \in plans : p.outcome = "commit" => Confirmed(p, Req(i)) /\ p.base = tree[p.file]
        BY <2>3, <2>4
    <2>6. \A p, q \in plans : p.file = q.file => p = q
        BY <2>3, <2>4
    <2> HIDE DEF plans, tree
    <2>7. ASSUME NEW p PROVE Confirmed(p, inv[i].req)' <=> Confirmed(p, Req(i))
        BY <1>4, <2>2 DEF Confirmed, Req
    <2>8. /\ \E p \in inv'[i].plans : p.outcome = "commit"
          /\ \A p \in inv'[i].plans : p.outcome = "commit" => Confirmed(p, inv[i].req)'
          /\ \A p, q \in inv'[i].plans : p.file = q.file => p = q
        BY <1>5, <2>2, <2>5, <2>6, <2>7
    <2>9. \A p \in inv'[i].plans : p.outcome = "commit" => p.base = branch'[inv'[i].head].tree[p.file]
        BY <1>4, <2>2, <2>5 DEF tree
    <2> QED BY <1>2, <1>4, <1>5, <2>2, <2>8, <2>9 DEF Prepared, Confirmed
<1>6. CASE ~(~inv[i].onHead /\ \E p \in plans : p.outcome = "commit")
    <2>1. StartRecord(i, plans, IF inv[i].onHead THEN inv[i].head ELSE 0)
        BY <1>6 DEF Plan
    <2> HIDE DEF plans
    <2>2. inv'[i].pc = "mark"
        BY <1>1, <1>2, <2>1 DEF StartRecord, Go, Run
    <2> QED BY <2>2 DEF Prepared
<1> QED BY <1>5, <1>6

\* The other steps of a run carry over what it has prepared, or are past it.
LEMMA WorkPrepared ==
    ASSUME TypeOK, NEW i \in Invocations, Work(i) \/ Crash(i), Prepared(i)
    PROVE  Prepared(i)'
<1>1. inv \in [Invocations -> RunOn(Len(branch))] /\ inv[i] \in Run
    BY RequestType DEF RunOn
<1>2. ASSUME inv'[i].pc \notin {"find", "accept", "plan", "push"}
      PROVE  Prepared(i)'
    BY <1>2 DEF Prepared
<1>3. ASSUME inv'[i].pc # "push", inv[i].pc \in {"find", "accept"}, request' = request,
             inv'[i].onHead = inv[i].onHead, inv'[i].req = inv[i].req, inv'[i].head = inv[i].head
      PROVE  Prepared(i)'
    BY <1>3 DEF Prepared
<1>4. CASE Claim(i) \/ StepAside(i) \/ RefRefused(i)
    <2>1. CASE Claim(i)
        <3>1. inv'[i].pc \in {"head", "done"}
            BY <1>1, <2>1 DEF Claim, Go, End, Blank, Run
        <3> QED BY <1>2, <3>1
    <2>2. CASE StepAside(i) \/ RefRefused(i)
        <3>1. inv'[i].pc \in {"done", "refuse"}
            BY <1>1, <2>2, ZenonT(40) DEF StepAside, RefRefused, Go, End, Blank, Run
        <3> QED BY <1>2, <3>1
    <2> QED BY <1>4, <2>1, <2>2
<1>5. CASE MarkCommitted(i) \/ PutCommittedEvent(i)
    <2>1. inv'[i].pc \in {"event", "mark"}
        <3>1. CASE MarkCommitted(i)
            <4>1. Go(i, [inv[i] EXCEPT !.pc = "event"])
                BY <3>1 DEF MarkCommitted
            <4> QED BY <1>1, <4>1 DEF Go, Run
        <3>2. CASE PutCommittedEvent(i)
            <4> DEFINE l == NextLink(inv[i].links)
            <4>1. Go(i, [inv[i] EXCEPT !.pc = "mark", !.links = @ \ {l}])
                BY <3>2 DEF PutCommittedEvent
            <4> HIDE DEF l
            <4> QED BY <1>1, <4>1 DEF Go, Run
        <3> QED BY <1>5, <3>1, <3>2
    <2> QED BY <1>2, <2>1
<1>6. CASE Finish(i) \/ FinishRefused(i) \/ Backstop(i)
    <2>1. inv'[i].pc = "done"
        BY <1>1, <1>6 DEF Finish, FinishRefused, Backstop, End, Go, Blank
    <2> QED BY <1>2, <2>1
<1>7. CASE Crash(i)
    <2>1. inv'[i].pc \in {"again", "gaveUp"}
        BY <1>1, <1>7 DEF Crash, Go, Blank
    <2> QED BY <1>2, <2>1
<1>8. CASE UpdateRef(i)
    <2> DEFINE plans == {IF p.outcome = "commit" THEN [p EXCEPT !.outcome = "committed"] ELSE p :
                            p \in inv[i].plans}
    <2>1. StartRecord(i, plans, Len(branch) + 1)
        BY <1>8 DEF UpdateRef
    <2> HIDE DEF plans
    <2>2. inv'[i].pc = "mark"
        BY <1>1, <2>1 DEF StartRecord, Go, Run
    <2> QED BY <1>2, <2>2
<1>9. CASE ReadHead(i)
    BY <1>9, HeadPrepared
<1>10. CASE Plan(i)
    BY <1>10, PlanPrepared
<1>11. CASE ReadFindings(i)
    <2> DEFINE click == request[Req(i)].source = "github"
               next  == IF click THEN "accept" ELSE "plan"
               todo  == IF click THEN request[Req(i)].confirmed ELSE {}
               seen  == [status |-> status, fix |-> fix, gone |-> gone]
    <2>1. /\ inv[i].pc = "find" /\ request' = request
          /\ inv' = [inv EXCEPT ![i] = [inv[i] EXCEPT !.pc = next, !.seen = seen, !.todo = todo]]
        BY <1>11 DEF ReadFindings, At, Go, recordVars
    <2>2. next # "push"
        OBVIOUS
    <2> HIDE DEF next, seen, todo
    <2> QED BY <1>1, <1>3, <2>1, <2>2 DEF Run
<1>12. ASSUME NEW offered \in inv[i].todo, AcceptFile(i, offered)
       PROVE  Prepared(i)'
    BY <1>3, <1>12, RequestType, AcceptFileRun
<1>13. CASE Accepted(i)
    <2>1. /\ inv[i].pc = "accept" /\ request' = request
          /\ inv' = [inv EXCEPT ![i] = [inv[i] EXCEPT !.pc = "plan"]]
        BY <1>13 DEF Accepted, At, Go, recordVars
    <2> QED BY <1>1, <1>3, <2>1 DEF Run
<1> QED BY <1>4, <1>5, <1>6, <1>7, <1>8, <1>9, <1>10, <1>11, <1>12, <1>13 DEF Work

LEMMA PreparedStep == IInv /\ [Next]_vars => AllPrepared'
<1> SUFFICES ASSUME TypeOK, AllSettled, AllPrepared, [Next]_vars, NEW i \in Invocations
             PROVE  Prepared(i)'
    BY DEF IInv, AllPrepared
<1>1. Prepared(i)
    BY DEF AllPrepared
<1>2. inv'[i] = inv[i] => Prepared(i)'
    BY <1>1, WaitingPrepared
<1>3. CASE CommitterStep
    <2>1. PICK j \in Invocations : \/ \E r \in Requests : Receive(j, r)
                                   \/ Work(j) \/ Crash(j)
        BY <1>3 DEF CommitterStep, CommitterNext
    <2>2. CASE j # i
        BY <1>2, <2>1, <2>2, ReceiveFrame, WorkFrame
    <2>3. CASE j = i /\ \E r \in Requests : Receive(j, r)
        <3>1. inv'[i].pc \in {"claim", "done"}
            BY <2>3, ReceiveFrame
        <3> QED BY <3>1 DEF Prepared
    <2>4. CASE j = i /\ (Work(j) \/ Crash(j))
        BY <1>1, <2>4, WorkPrepared
    <2> QED BY <2>1, <2>2, <2>3, <2>4
<1>4. CASE ReviewStep \/ PipelineStep
    BY <1>2, <1>4 DEF ReviewStep, PipelineStep, committerVars
<1>5. CASE PeopleNext
    BY <1>2, <1>5, PeopleSettled
<1>6. CASE UNCHANGED vars
    BY <1>2, <1>6 DEF vars, committerVars
<1> QED BY <1>3, <1>4, <1>5, <1>6 DEF Next

\* The inductive invariant: types, requests settled before their runs, runs
\* prepared for what they push.
THEOREM InductiveInvariant == Spec => []IInv
<1>1. Init => IInv
    BY InitTypes, InitSettled, InitPrepared DEF IInv
<1>2. IInv /\ [Next]_vars => IInv'
    BY NextTypes, SettledStep, PreparedStep DEF IInv
<1> QED BY <1>1, <1>2, PTL DEF Spec

----------------------------------------------------------------------------
(* What a push puts on the branch *)

\* A push goes over the head its plan was made on, and writes confirmed
\* contents over the versions the plan found there, and nothing else.
LEMMA PushedCommit ==
    ASSUME IInv, NEW i \in Invocations, UpdateRef(i)
    PROVE  LET c == NewCommit(i)
               r == Req(i)
               n == Len(branch)
           IN /\ branch' = Append(branch, c) /\ request' = request
              /\ n \in DOMAIN branch /\ c.by = r /\ r \in Requests
              /\ c.wrote # {}
              /\ \A w \in c.wrote :
                    /\ w.file \in Files
                    /\ \E x \in request[r].confirmed : x.file = w.file /\ x.content = w.content
                    /\ w.base = branch[n].tree[w.file]
                    /\ c.tree[w.file] = w.content
              /\ \A p \in Files : \/ c.tree[p] = branch[n].tree[p]
                                  \/ \E w \in c.wrote : w.file = p
              /\ request[r].source = "github" => n = request[r].offerHead
<1> DEFINE c == NewCommit(i)
           r == Req(i)
           n == Len(branch)
           writes == ToWrite(inv[i].plans)
           tree == branch[n].tree
<1>1. /\ inv \in [Invocations -> RunOn(Len(branch))] /\ branch \in Seq(Commit)
      /\ inv[i].pc = "push" /\ inv[i].head = n /\ branch' = Append(branch, c) /\ request' = request
    BY DEF IInv, TypeOK, CommitterTypeOK, RecordsTypeOK, UpdateRef, At, CanUpdateRef
<1>2. r \in Requests /\ inv[i] \in Run /\ inv[i].plans \subseteq PlanOfFile /\ n \in DOMAIN branch
    BY <1>1 DEF RunOn, Run, Req
<1>3. /\ ~inv[i].onHead
      /\ \E p \in inv[i].plans : p.outcome = "commit"
      /\ \A p \in inv[i].plans : p.outcome = "commit" =>
            Confirmed(p, r) /\ p.base = tree[p.file]
      /\ \A p, q \in inv[i].plans : p.file = q.file => p = q
      /\ request[r].source = "github" => n = request[r].offerHead
    BY <1>1 DEF IInv, AllPrepared, Prepared, Req
<1>4. c.by = r /\ c.wrote = writes /\ c.tree = Written(writes, tree)
    BY <1>1 DEF NewCommit
<1>5. \A w \in writes : \E p \in inv[i].plans :
            p.outcome = "commit" /\ w = [file |-> p.file, base |-> p.base, content |-> p.content]
    BY DEF ToWrite
<1>6. writes # {}
    BY <1>3 DEF ToWrite
<1>7. \A v, w \in writes : v.file = w.file => v = w
    <2> SUFFICES ASSUME NEW v \in writes, NEW w \in writes, v.file = w.file PROVE v = w
        OBVIOUS
    <2>1. PICK p \in inv[i].plans : v = [file |-> p.file, base |-> p.base, content |-> p.content]
        BY <1>5
    <2>2. PICK q \in inv[i].plans : w = [file |-> q.file, base |-> q.base, content |-> q.content]
        BY <1>5
    <2>3. p = q
        BY <1>3, <2>1, <2>2
    <2> QED BY <2>1, <2>2, <2>3
<1> HIDE DEF c, writes, tree
<1>8. ASSUME NEW w \in writes
      PROVE  /\ w.file \in Files
             /\ \E x \in request[r].confirmed : x.file = w.file /\ x.content = w.content
             /\ w.base = tree[w.file]
             /\ c.tree[w.file] = w.content
    <2>1. PICK p \in inv[i].plans :
            p.outcome = "commit" /\ w = [file |-> p.file, base |-> p.base, content |-> p.content]
        BY <1>5
    <2>2. w.file = p.file /\ w.base = p.base /\ w.content = p.content /\ w.file \in Files
        BY <1>2, <2>1 DEF PlanOfFile
    <2>3. PICK x \in request[r].confirmed : Triple(p) = Triple(x)
        BY <1>3, <2>1 DEF Confirmed
    <2>4. x.file = w.file /\ x.content = w.content
        BY <2>2, <2>3 DEF Triple
    <2>5. (CHOOSE v \in writes : v.file = w.file) = w
        BY <1>7
    <2>6. c.tree[w.file] = w.content
        BY <1>4, <2>2, <2>5 DEF Written
    <2> QED BY <1>3, <2>1, <2>2, <2>4, <2>6
<1>9. \A p \in Files : c.tree[p] = tree[p] \/ \E w \in writes : w.file = p
    BY <1>4 DEF Written
<1>10. c = NewCommit(i) /\ tree = branch[n].tree
    BY DEF c, tree
<1> HIDE DEF r, n
<1>11. r = Req(i) /\ n = Len(branch)
    BY DEF r, n
<1> QED BY <1>1, <1>2, <1>3, <1>4, <1>6, <1>8, <1>9, <1>10, <1>11

\* The author of a commit of ours, and what it confirmed, as it was before.
LEMMA AuthorStands ==
    ASSUME IInv, [Next]_vars, NEW k \in Ours
    PROVE  branch[k].by \in Requests /\ Kept(branch[k].by)
<1>1. branch \in Seq(Commit) /\ k \in DOMAIN branch /\ branch[k].by # NoRequest
    BY DEF Ours, IInv, TypeOK, RecordsTypeOK
<1>2. branch[k] \in Commit
    BY <1>1
<1>3. branch[k].by \in Requests
    BY <1>1, <1>2 DEF Commit
<1>4. request[branch[k].by].status # "none"
    BY <1>1, <1>3 DEF IInv, AllSettled, Settled
<1> QED BY <1>3, <1>4, Stands DEF IInv

\* A commit of ours was there before the step, or the step pushed it.
LEMMA OursNext ==
    ASSUME IInv, [Next]_vars, NEW k \in Ours'
    PROVE  \/ k \in Ours /\ branch'[k] = branch[k]
           \/ \E i \in Invocations : /\ UpdateRef(i) /\ k = Len(branch) + 1
                                     /\ branch'[k] = NewCommit(i)
<1>1. branch \in Seq(Commit)
    BY DEF IInv, TypeOK, RecordsTypeOK
<1>2. k \in DOMAIN branch' /\ branch'[k].by # NoRequest
    BY DEF Ours
<1>3. \A j \in DOMAIN branch : branch'[j] = branch[j]
    BY BranchGrows DEF IInv
<1>4. CASE k \in DOMAIN branch
    BY <1>2, <1>3, <1>4 DEF Ours
<1>5. CASE k \notin DOMAIN branch
    <2>1. ASSUME NEW c, branch' = Append(branch, c)
          PROVE  k = Len(branch) + 1 /\ branch'[k] = c
        BY <1>1, <1>2, <1>5, <2>1
    <2>2. branch' # branch
        BY <1>2, <1>5
    <2>3. ASSUME NEW tree, branch' = Append(branch, [tree |-> tree, by |-> NoRequest, wrote |-> {}])
          PROVE  FALSE
        BY <1>2, <2>1, <2>3
    <2>4. PICK i \in Invocations : UpdateRef(i)
        BY <2>2, <2>3, BranchGrows DEF IInv
    <2> QED BY <2>1, <2>4 DEF UpdateRef
<1> QED BY <1>4, <1>5

----------------------------------------------------------------------------
(* What reaches the branch *)

LEMMA NoneOfOurs == Init => Ours = {}
BY DEF Init, Ours

\* Only what was confirmed for a request is in its commit, for every number of
\* edits, redrafts, deliveries and retries between the showing of the plan and
\* the push (write's filter of plan_commit's plans).
THEOREM OnlyTheConfirmed == Spec => []CommitsAreConfirmed
<1>1. Init => CommitsAreConfirmed
    BY NoneOfOurs DEF CommitsAreConfirmed
<1>2. IInv /\ CommitsAreConfirmed /\ [Next]_vars => CommitsAreConfirmed'
    <2> SUFFICES ASSUME IInv, CommitsAreConfirmed, [Next]_vars, NEW k \in Ours', NEW w \in branch'[k].wrote
                 PROVE  \E c \in request'[branch'[k].by].confirmed :
                            c.file = w.file /\ c.content = w.content
        BY DEF CommitsAreConfirmed
    <2>1. CASE k \in Ours /\ branch'[k] = branch[k]
        BY <2>1, AuthorStands DEF CommitsAreConfirmed, Kept
    <2>2. CASE \E i \in Invocations : UpdateRef(i) /\ k = Len(branch) + 1 /\ branch'[k] = NewCommit(i)
        BY <2>2, PushedCommit
    <2> QED BY <2>1, <2>2, OursNext
<1> QED BY <1>1, <1>2, InductiveInvariant, PTL DEF Spec

\* A file is written only over the version its chain was drafted on, and every
\* other file stays as the parent commit has it: base_sha256 checked against
\* the head that was read, and force: false on the ref.
THEOREM NothingIsReverted == Spec => []NothingReverted
<1>1. Init => NothingReverted
    BY NoneOfOurs DEF NothingReverted
<1>2. IInv /\ NothingReverted /\ [Next]_vars => NothingReverted'
    <2> SUFFICES ASSUME IInv, NothingReverted, [Next]_vars, NEW k \in Ours'
                 PROVE  /\ k - 1 \in DOMAIN branch'
                        /\ \A w \in branch'[k].wrote :
                            /\ branch'[k - 1].tree[w.file] = w.base
                            /\ branch'[k].tree[w.file] = w.content
                        /\ \A p \in Files :
                            \/ branch'[k].tree[p] = branch'[k - 1].tree[p]
                            \/ \E w \in branch'[k].wrote : w.file = p
        BY DEF NothingReverted
    <2>1. CASE k \in Ours /\ branch'[k] = branch[k]
        <3>1. k - 1 \in DOMAIN branch
            BY <2>1 DEF NothingReverted
        <3>2. k - 1 \in DOMAIN branch' /\ branch'[k - 1] = branch[k - 1]
            BY <3>1, BranchGrows DEF IInv
        <3> QED BY <2>1, <3>2 DEF NothingReverted
    <2>2. CASE \E i \in Invocations : UpdateRef(i) /\ k = Len(branch) + 1 /\ branch'[k] = NewCommit(i)
        <3>1. PICK i \in Invocations : UpdateRef(i) /\ k = Len(branch) + 1 /\ branch'[k] = NewCommit(i)
            BY <2>2
        <3>2. k - 1 = Len(branch) /\ Len(branch) \in DOMAIN branch
            BY <3>1, PushedCommit, RequestType DEF IInv
        <3>3. k - 1 \in DOMAIN branch' /\ branch'[k - 1] = branch[k - 1]
            BY <3>2, BranchGrows DEF IInv
        <3> QED BY <3>1, <3>2, <3>3, PushedCommit
    <2> QED BY <2>1, <2>2, OursNext
<1> QED BY <1>1, <1>2, InductiveInvariant, PTL DEF Spec

\* A click lands on the commit its check run was about and on no later one
\* (the head_moved check, then force: false).
THEOREM ClicksLandThere == Spec => []ClicksLandOnTheirOffer
<1>1. Init => ClicksLandOnTheirOffer
    BY NoneOfOurs DEF ClicksLandOnTheirOffer
<1>2. IInv /\ ClicksLandOnTheirOffer /\ [Next]_vars => ClicksLandOnTheirOffer'
    <2> SUFFICES ASSUME IInv, ClicksLandOnTheirOffer, [Next]_vars, NEW k \in Ours',
                        request'[branch'[k].by].source = "github"
                 PROVE  k = request'[branch'[k].by].offerHead + 1
        BY DEF ClicksLandOnTheirOffer
    <2>1. CASE k \in Ours /\ branch'[k] = branch[k]
        BY <2>1, AuthorStands DEF ClicksLandOnTheirOffer, Kept
    <2>2. CASE \E i \in Invocations : UpdateRef(i) /\ k = Len(branch) + 1 /\ branch'[k] = NewCommit(i)
        BY <2>2, PushedCommit
    <2> QED BY <2>1, <2>2, OursNext
<1> QED BY <1>1, <1>2, InductiveInvariant, PTL DEF Spec

----------------------------------------------------------------------------
(* A landing is one step *)

ConfirmedOf(r) == {[file |-> c.file, content |-> c.content] : c \in request[r].confirmed}
Authors        == {branch[k].by : k \in Ours}

LEMMA InitLands == Init => Lands!Init
<1> SUFFICES ASSUME Init PROVE Lands!Init
    OBVIOUS
<1> DEFINE first == [own |-> 1, fixes |-> {}]
           c     == [tree |-> [p \in Files |-> first], by |-> NoRequest, wrote |-> {}]
<1>1. branch = <<c>>
    BY DEF Init
<1>2. HeadTree \in [Files -> Content]
    BY <1>1 DEF HeadTree, Content
<1>3. Theirs = {1} /\ Ours = {}
    BY <1>1 DEF Theirs, Ours
<1>4. Cardinality(Theirs) = 1
    BY <1>3, FS_Singleton
<1>5. \A r \in Requests : request[r].confirmed = {}
    BY DEF Init, BlankRequest
<1>6. [r \in Requests |-> {[file |-> x.file, content |-> x.content] : x \in request[r].confirmed}]
        = [r \in Requests |-> {}]
    BY <1>5
<1>7. {branch[k].by : k \in Ours} = {}
    BY <1>3
<1> QED BY <1>2, <1>4, <1>6, <1>7 DEF Lands!Init

\* The people's commits are counted, and one more is one more.
LEMMA OneMoreOfTheirs ==
    ASSUME branch \in Seq(Commit), NEW c, branch' = Append(branch, c)
    PROVE  /\ c.by = NoRequest => Cardinality(Theirs') = Cardinality(Theirs) + 1
           /\ c.by # NoRequest => Theirs' = Theirs
           /\ c.by = NoRequest => Ours' = Ours
           /\ c.by # NoRequest => Ours' = Ours \cup {Len(branch) + 1}
           /\ \A k \in Ours : branch'[k] = branch[k]
           /\ HeadTree' = c.tree
           /\ branch'[Len(branch) + 1] = c
<1>1. /\ Len(branch) \in Nat /\ DOMAIN branch = 1..Len(branch)
      /\ DOMAIN branch' = 1..(Len(branch) + 1) /\ Len(branch') = Len(branch) + 1
      /\ \A k \in DOMAIN branch : branch'[k] = branch[k]
      /\ branch'[Len(branch) + 1] = c
    OBVIOUS
<1>2. c.by = NoRequest => Theirs' = Theirs \cup {Len(branch) + 1}
    BY <1>1 DEF Theirs
<1>3. c.by # NoRequest => Theirs' = Theirs
    BY <1>1 DEF Theirs
<1>4. /\ c.by = NoRequest => Ours' = Ours
      /\ c.by # NoRequest => Ours' = Ours \cup {Len(branch) + 1}
    BY <1>1 DEF Ours
<1>5. IsFiniteSet(Theirs) /\ Len(branch) + 1 \notin Theirs
    <2>1. IsFiniteSet(1..Len(branch))
        BY <1>1, FS_Interval
    <2>2. Theirs \subseteq 1..Len(branch)
        BY <1>1 DEF Theirs
    <2>3. Len(branch) + 1 \notin Theirs
        BY <1>1, <2>2
    <2> QED BY <2>1, <2>2, <2>3, FS_Subset
<1>6. Cardinality(Theirs \cup {Len(branch) + 1}) = Cardinality(Theirs) + 1
    BY <1>5, FS_AddElement
<1> QED BY <1>1, <1>2, <1>3, <1>4, <1>6 DEF HeadTree, Ours

\* At most one request is written at a time.
LEMMA OneRequestWritten ==
    ASSUME TypeOK, [Next]_vars
    PROVE  \/ request' = request
           \/ \E r \in Requests : \A s \in Requests : s # r => request'[s] = request[s]
<1>0. request \in [Requests -> Request]
    BY RequestType
<1>1. CASE CommitterStep
    <2>1. PICK i \in Invocations : \/ \E s \in Requests : Receive(i, s)
                                   \/ Work(i) \/ Crash(i)
        BY <1>1 DEF CommitterStep, CommitterNext
    <2> QED BY <2>1, ReceiveFrame, WorkFrame
<1>2. CASE ReviewStep
    <2>1. ASSUME NEW s \in Requests, AskCommit(s) \/ HandOver(s) \/ Killed(s)
          PROVE  request' = request \/ \A t \in Requests : t # s => request'[t] = request[t]
        BY <1>0, <2>1 DEF AskCommit, HandOver, Killed, RecordRequest, Invoke, InvokeFails,
            MarkNotHandedOver, recordVars
    <2> QED BY <1>2, <2>1, ReviewFrame DEF ReviewStep
<1>3. CASE PipelineStep
    <2>1. ASSUME NEW s \in ClickRequests, NEW c \in checks, Click(s, c)
          PROVE  s \in Requests /\ \A t \in Requests : t # s => request'[t] = request[t]
        BY <1>0, <2>1, PipelineAssumption DEF Click
    <2> QED BY <1>3, <2>1, PipelineFrame DEF PipelineStep
<1>4. CASE PeopleNext
    <2>1. ASSUME NEW tree, Push(tree) PROVE request' = request
        BY <2>1 DEF Push
    <2> QED BY <1>4, <2>1 DEF PeopleNext, Edit, ApplySuggestions, Revert, ClosePullRequest, recordVars
<1>5. CASE UNCHANGED vars
    BY <1>5 DEF vars, recordVars
<1> QED BY <1>1, <1>2, <1>3, <1>4, <1>5 DEF Next

\* A step that leaves the branch alone confirms a request, or is not seen.
LEMMA QuietLands ==
    ASSUME IInv, IInv', [Next]_vars, branch' = branch
    PROVE  [Lands!Next]_(Lands!vars)
<1> DEFINE confirmed == [r \in Requests |-> ConfirmedOf(r)]
<1>1. HeadTree' = HeadTree /\ Theirs' = Theirs /\ Ours' = Ours /\ Authors' = Authors
    BY DEF HeadTree, Theirs, Ours, Authors
<1>2. ASSUME NEW r \in Requests, request[r].status # "none"
      PROVE  ConfirmedOf(r)' = ConfirmedOf(r)
    BY <1>2, Stands DEF IInv, Kept, ConfirmedOf
<1>3. ASSUME NEW r \in Requests, request'[r] = request[r]
      PROVE  ConfirmedOf(r)' = ConfirmedOf(r)
    BY <1>3 DEF ConfirmedOf
<1>4. CASE \A r \in Requests : ConfirmedOf(r)' = ConfirmedOf(r)
    <2>1. confirmed' = confirmed
        BY <1>4
    <2> QED BY <1>1, <2>1 DEF Lands!vars, ConfirmedOf, Authors
<1>5. CASE \E r \in Requests : ConfirmedOf(r)' # ConfirmedOf(r)
    <2>1. PICK r \in Requests : ConfirmedOf(r)' # ConfirmedOf(r)
        BY <1>5
    <2>2. request[r].status = "none" /\ request'[r] # request[r]
        BY <1>2, <1>3, <2>1
    <2>3. \A s \in Requests : s # r => request'[s] = request[s]
        BY <2>2, OneRequestWritten DEF IInv
    <2>4. \A s \in Requests : s # r => ConfirmedOf(s)' = ConfirmedOf(s)
        BY <1>3, <2>3
    <2>5. ConfirmedOf(r) = {} /\ r \notin Authors
        <3>1. Settled(r)
            BY DEF IInv, AllSettled
        <3> QED BY <2>2, <3>1 DEF Settled, ConfirmedOf, Authors, Ours
    <2>6. ConfirmedOf(r)' \subseteq [file : Files, content : Content]
        <3>1. request'[r] \in Request
            BY DEF IInv, TypeOK, RecordsTypeOK
        <3> QED BY <3>1 DEF ConfirmedOf, Request, Confirmation
    <2>7. confirmed' = [confirmed EXCEPT ![r] = ConfirmedOf(r)']
        BY <2>4
    <2>8. Lands!Confirm(r)
        BY <1>1, <2>5, <2>6, <2>7 DEF Lands!Confirm, Lands!Confirmable, ConfirmedOf, Authors
    <2> QED BY <2>8 DEF Lands!Next
<1> QED BY <1>4, <1>5

\* A push of the committer's lands its request.
LEMMA PushLands ==
    ASSUME IInv, IInv', NEW i \in Invocations, UpdateRef(i)
    PROVE  \E r \in Requests : Lands!Land(r)
<1> DEFINE n == Len(branch)
<1>0. PICK r \in Requests : r = Req(i)
    BY PushedCommit
<1>a. PICK c : c = NewCommit(i)
    OBVIOUS
<1> DEFINE writes == {[file |-> w.file, content |-> w.content] : w \in c.wrote}
<1>1. /\ branch' = Append(branch, c) /\ request' = request
      /\ n \in DOMAIN branch /\ c.by = r /\ r \in Requests /\ c.wrote # {}
      /\ \A w \in c.wrote :
            /\ \E x \in request[r].confirmed : x.file = w.file /\ x.content = w.content
            /\ c.tree[w.file] = w.content
      /\ \A p \in Files : c.tree[p] = branch[n].tree[p] \/ \E w \in c.wrote : w.file = p
    BY <1>0, <1>a, PushedCommit
<1>2. r # NoRequest /\ branch \in Seq(Commit) /\ branch' \in Seq(Commit) /\ branch' # <<>>
    BY <1>1, RequestsAssumption DEF IInv, TypeOK, RecordsTypeOK
<1> HIDE DEF n
<1>3. /\ Theirs' = Theirs /\ Ours' = Ours \cup {Len(branch) + 1}
      /\ \A k \in Ours : branch'[k] = branch[k]
      /\ HeadTree' = c.tree /\ branch'[Len(branch) + 1] = c
    BY <1>1, <1>2, OneMoreOfTheirs
<1>4. Authors' = Authors \cup {r}
    <2>1. branch'[Len(branch) + 1].by = r
        BY <1>1, <1>3
    <2>2. \A k \in Ours : branch'[k].by = branch[k].by
        BY <1>3
    <2>3. Authors' = {branch'[k].by : k \in Ours'}
        BY DEF Authors
    <2> QED BY <1>3, <2>1, <2>2, <2>3 DEF Authors
<1>5. HeadTree = branch[n].tree
    BY DEF HeadTree, n
<1>6. HeadTree' \in [Files -> Content]
    <2>1. branch'[Len(branch')] \in Commit
        BY <1>2
    <2> QED BY <2>1 DEF HeadTree, Commit, Tree
<1>7. writes \in SUBSET ConfirmedOf(r) /\ writes # {}
    <2>1. ASSUME NEW w \in c.wrote
          PROVE  [file |-> w.file, content |-> w.content] \in ConfirmedOf(r)
        <3>1. PICK x \in request[r].confirmed : x.file = w.file /\ x.content = w.content
            BY <1>1
        <3> QED BY <3>1 DEF ConfirmedOf
    <2>2. PICK w \in c.wrote : TRUE
        BY <1>1
    <2>3. [file |-> w.file, content |-> w.content] \in writes
        BY <2>2
    <2> QED BY <2>1, <2>3
<1>8. ASSUME NEW p \in Files
      PROVE  IF \E w \in writes : w.file = p
             THEN \E w \in writes : w.file = p /\ HeadTree'[p] = w.content
             ELSE HeadTree'[p] = HeadTree[p]
    <2>1. CASE \E w \in c.wrote : w.file = p
        <3>1. PICK w \in c.wrote : w.file = p
            BY <2>1
        <3> DEFINE v == [file |-> w.file, content |-> w.content]
        <3>2. v \in writes /\ v.file = p /\ v.content = w.content
            BY <3>1
        <3>3. HeadTree'[p] = v.content
            BY <1>1, <1>3, <3>1, <3>2
        <3> HIDE DEF v, writes
        <3> QED BY <3>2, <3>3
    <2>2. CASE ~\E w \in c.wrote : w.file = p
        <3>1. \A w \in writes : w.file # p
            BY <2>2
        <3> QED BY <1>1, <1>3, <1>5, <2>2, <3>1
    <2> QED BY <2>1, <2>2
<1> HIDE DEF writes
<1>9. /\ [s \in Requests |-> ConfirmedOf(s)][r] = ConfirmedOf(r)
      /\ [s \in Requests |-> ConfirmedOf(s)]' = [s \in Requests |-> ConfirmedOf(s)]
    BY <1>1 DEF ConfirmedOf
<1>10. Lands!Land(r)
    BY <1>3, <1>4, <1>6, <1>7, <1>8, <1>9 DEF Lands!Land, ConfirmedOf, Authors
<1> QED BY <1>1, <1>10

\* What people do is a push, or not seen.
LEMMA PeopleLand ==
    ASSUME IInv, IInv', PeopleNext
    PROVE  [Lands!Next]_(Lands!vars)
<1>1. request' = request /\ branch \in Seq(Commit) /\ branch' \in Seq(Commit) /\ branch' # <<>>
    BY PeopleSettled DEF IInv, TypeOK, RecordsTypeOK
<1>2. [s \in Requests |-> ConfirmedOf(s)]' = [s \in Requests |-> ConfirmedOf(s)]
    BY <1>1 DEF ConfirmedOf
<1>3. CASE branch' = branch
    <2>1. HeadTree' = HeadTree /\ Theirs' = Theirs /\ Authors' = Authors
        BY <1>3 DEF HeadTree, Theirs, Authors, Ours
    <2> QED BY <1>2, <2>1 DEF Lands!vars, ConfirmedOf, Authors
<1>4. ASSUME NEW tree, branch' = Append(branch, [tree |-> tree, by |-> NoRequest, wrote |-> {}])
      PROVE  Lands!Push
    <2> DEFINE c == [tree |-> tree, by |-> NoRequest, wrote |-> {}]
    <2>1. branch' = Append(branch, c) /\ c.by = NoRequest
        BY <1>4
    <2> HIDE DEF c
    <2>2. /\ Cardinality(Theirs') = Cardinality(Theirs) + 1 /\ Ours' = Ours
          /\ \A k \in Ours : branch'[k] = branch[k]
        BY <1>1, <2>1, OneMoreOfTheirs
    <2>3. Authors' = Authors
        BY <2>2 DEF Authors
    <2>4. HeadTree' \in [Files -> Content]
        <3>1. branch'[Len(branch')] \in Commit
            BY <1>1
        <3> QED BY <3>1 DEF HeadTree, Commit, Tree
    <2> QED BY <1>2, <2>2, <2>3, <2>4 DEF Lands!Push, ConfirmedOf, Authors
<1> QED BY <1>3, <1>4, PeopleSettled DEF Lands!Next, IInv

\* The components together implement Landing: a run that reads the head, the
\* records, the event log and S3 in turn and pushes later, among any number of
\* others, looks as if it had replaced confirmed files in one step.
THEOREM Landings == Spec => LandingIsAtomic
<1>1. IInv /\ IInv' /\ [Next]_vars => [Lands!Next]_(Lands!vars)
    <2> SUFFICES ASSUME IInv, IInv', [Next]_vars PROVE [Lands!Next]_(Lands!vars)
        OBVIOUS
    <2>1. CASE branch' = branch
        BY <2>1, QuietLands
    <2>2. CASE \E i \in Invocations : UpdateRef(i)
        BY <2>2, PushLands DEF Lands!Next
    <2>3. CASE PeopleNext
        BY <2>3, PeopleLand
    <2>4. CASE CommitterStep
        <3>1. PICK i \in Invocations : \/ \E s \in Requests : Receive(i, s)
                                       \/ Work(i) \/ Crash(i)
            BY <2>4 DEF CommitterStep, CommitterNext
        <3> QED BY <2>1, <2>2, <3>1, ReceiveFrame, WorkFrame DEF IInv
    <2>5. CASE ReviewStep \/ PipelineStep
        BY <2>1, <2>5, ReviewFrame, PipelineFrame DEF ReviewStep, PipelineStep
    <2>6. CASE UNCHANGED vars
        BY <2>1, <2>6 DEF vars, recordVars
    <2> QED BY <2>2, <2>3, <2>4, <2>5, <2>6 DEF Next
<1> QED BY <1>1, InitLands, InductiveInvariant, PTL DEF Spec, LandingIsAtomic, Lands!Spec

----------------------------------------------------------------------------
(* What a request says of its ending *)

\* A version of a file that has been on the branch.
OnBranch(l) == \E k \in DOMAIN branch : branch[k].tree[l.file] = l.content

\* A run that goes on from a commit of its own request has read it at the head;
\* what it is about to say is on the branch, by then, is.
Truthful(i) ==
    /\ (inv[i].pc \in {"find", "accept", "plan", "push"} /\ inv[i].onHead) =>
            branch[inv[i].head].by = inv[i].req
    /\ inv[i].pc \in {"push", "mark", "event"} =>
            \A p \in inv[i].plans : p.outcome \in {"committed", "already"} => OnBranch(p)
    /\ (inv[i].pc \in {"mark", "event"} /\ inv[i].sha # 0) =>
            inv[i].sha \in DOMAIN branch /\ branch[inv[i].sha].by = inv[i].req

Reported(r) ==
    /\ request[r].sha # 0 => request[r].sha \in DOMAIN branch /\ branch[request[r].sha].by = r
    /\ \A l \in request[r].landed : OnBranch(l)

Truth == /\ \A i \in Invocations : Truthful(i)
         /\ \A r \in Requests : Reported(r)

\* What has been on the branch has been there for good.
LEMMA OnBranchStays ==
    ASSUME IInv, [Next]_vars
    PROVE  \A l : OnBranch(l) => OnBranch(l)'
BY BranchGrows DEF IInv, OnBranch

\* A plan that finds a fix already there has the head's version of the file.
LEMMA AlreadyThere ==
    ASSUME NEW fx \in Fixes, NEW ended, NEW events,
           NEW contents \in [Findings -> Content \cup {NoContent}],
           NEW tree \in Tree
    PROVE  \A p \in PlanCommit(fx, ended, events, contents, tree) :
                /\ p.outcome # "committed"
                /\ p.outcome = "already" => p.content = p.base
<1>1. ASSUME NEW file, NEW approved, NEW head
      PROVE  LET p == PlanFile(file, fx, approved, contents, head)
             IN p.outcome # "committed" /\ (p.outcome = "already" => p.content = p.base)
    BY DEF PlanFile
<1> QED BY <1>1 DEF PlanCommit

LEMMA InitTruth == Init => Truth
<1> SUFFICES ASSUME Init PROVE Truth
    OBVIOUS
<1>1. \A r \in Requests : request[r].sha = 0 /\ request[r].landed = {}
    BY DEF Init, BlankRequest
<1>2. \A i \in Invocations : inv[i].pc = "idle"
    BY DEF Init, CommitterInit, Blank
<1> QED BY <1>1, <1>2 DEF Truth, Truthful, Reported

\* A run that waits has said nothing new.
LEMMA WaitingTruthful ==
    ASSUME IInv, [Next]_vars, NEW i \in Invocations, Truthful(i), inv'[i] = inv[i]
    PROVE  Truthful(i)'
<1>1. inv \in [Invocations -> RunOn(Len(branch))] /\ branch \in Seq(Commit)
    BY DEF IInv, TypeOK, CommitterTypeOK, RecordsTypeOK
<1>2. inv[i].pc \in {"find", "accept", "plan", "push"} => inv[i].head \in DOMAIN branch
    BY <1>1 DEF RunOn
<1>3. \A k \in DOMAIN branch : k \in DOMAIN branch' /\ branch'[k] = branch[k]
    BY BranchGrows DEF IInv
<1>4. \A l : OnBranch(l) => OnBranch(l)'
    BY OnBranchStays
<1>5. \A p \in inv'[i].plans : p \in inv[i].plans
    OBVIOUS
<1> QED BY <1>2, <1>3, <1>4, <1>5 DEF Truthful

\* The plan: what is found at the head is on the branch, and a run that goes on
\* from its own commit says so of what it finds there.
LEMMA PlanTruthful ==
    ASSUME IInv, NEW i \in Invocations, Plan(i), Truthful(i)
    PROVE  Truthful(i)'
<1> DEFINE seen   == inv[i].seen
           tree   == branch[inv[i].head].tree
           drawn  == {q \in PlanCommit(seen.fix, seen.gone, latest, stored, tree) : InScope(q, i)}
           plans  == {Filtered(p, i) : p \in drawn}
<1>1. /\ inv \in [Invocations -> RunOn(Len(branch))] /\ branch \in Seq(Commit)
      /\ stored \in [Findings -> Content \cup {NoContent}]
    BY DEF IInv, TypeOK, CommitterTypeOK, RecordsTypeOK
<1>2. inv[i] \in Run /\ inv[i].pc = "plan" /\ seen \in Seen /\ inv[i].head \in 1..Len(branch)
    BY <1>1 DEF Plan, At, RunOn
<1>3. seen.fix \in Fixes /\ tree \in Tree /\ inv[i].head \in DOMAIN branch
    <2>1. branch[inv[i].head] \in Commit
        BY <1>1, <1>2
    <2> QED BY <1>1, <1>2, <2>1 DEF Seen, Fixes, Commit
<1>4. branch' = branch
    BY DEF Plan
<1>5. ASSUME NEW p \in drawn, Filtered(p, i).outcome \in {"committed", "already"}
      PROVE  OnBranch(Filtered(p, i))
    <2>1. p \in PlanOfFile /\ p.base = tree[p.file] /\ p.outcome # "committed"
          /\ (p.outcome = "already" => p.content = p.base)
        BY <1>1, <1>3, PlanCommitType, AlreadyThere
    <2>2. /\ Filtered(p, i).file = p.file /\ Filtered(p, i).content = p.content
          /\ p.outcome = "already"
        BY <1>5, <2>1 DEF Filtered, Hold, PlanOfFile
    <2> QED BY <1>3, <2>1, <2>2 DEF OnBranch
<1>6. \A p \in plans : p.outcome \in {"committed", "already"} => OnBranch(p)
    BY <1>5
<1> HIDE DEF drawn
<1>7. \A p : OnBranch(p)' <=> OnBranch(p)
    BY <1>4 DEF OnBranch
<1>8. CASE ~inv[i].onHead /\ \E p \in plans : p.outcome = "commit"
    <2>1. Go(i, [inv[i] EXCEPT !.pc = "push", !.plans = plans, !.seen = <<>>, !.changed = {}])
        BY <1>8 DEF Plan, drawn
    <2> HIDE DEF plans
    <2>2. /\ inv'[i].pc = "push" /\ inv'[i].plans = plans /\ inv'[i].onHead = inv[i].onHead
        BY <1>1, <1>2, <2>1 DEF Go, Run
    <2> QED BY <1>6, <1>7, <1>8, <2>2 DEF Truthful
<1>9. CASE ~(~inv[i].onHead /\ \E p \in plans : p.outcome = "commit")
    <2> DEFINE sha == IF inv[i].onHead THEN inv[i].head ELSE 0
    <2>1. StartRecord(i, plans, sha)
        BY <1>9 DEF Plan, drawn
    <2> HIDE DEF plans, sha
    <2>2. /\ inv'[i].pc = "mark" /\ inv'[i].plans = plans /\ inv'[i].sha = sha
          /\ inv'[i].req = inv[i].req
        BY <1>1, <1>2, <2>1 DEF StartRecord, Go, Run
    <2>3. sha # 0 => sha \in DOMAIN branch /\ branch[sha].by = inv[i].req
        BY <1>2, <1>3 DEF Truthful, sha
    <2> QED BY <1>4, <1>6, <1>7, <2>2, <2>3 DEF Truthful
<1> QED BY <1>8, <1>9

\* The push: what was planned is on the branch now, in a commit of its own.
LEMMA PushTruthful ==
    ASSUME IInv, [Next]_vars, NEW i \in Invocations, UpdateRef(i), Truthful(i)
    PROVE  Truthful(i)'
<1> DEFINE done(p) == IF p.outcome = "commit" THEN [p EXCEPT !.outcome = "committed"] ELSE p
           plans == {done(p) : p \in inv[i].plans}
           c == NewCommit(i)
           n == Len(branch)
<1>1. /\ inv \in [Invocations -> RunOn(n)] /\ branch \in Seq(Commit) /\ inv[i].pc = "push"
    BY DEF IInv, TypeOK, CommitterTypeOK, RecordsTypeOK, UpdateRef, At
<1>2. inv[i] \in Run /\ inv[i].plans \subseteq PlanOfFile
    BY <1>1 DEF RunOn, Run
<1>3. /\ branch' = Append(branch, c) /\ c.by = Req(i)
      /\ \A w \in c.wrote : c.tree[w.file] = w.content
    BY PushedCommit
<1>4. c.wrote = ToWrite(inv[i].plans)
    BY DEF NewCommit
<1> HIDE DEF c
<1>5. n + 1 \in DOMAIN branch' /\ branch'[n + 1] = c
    BY <1>1, <1>3
<1>6. ASSUME NEW p \in inv[i].plans, done(p).outcome \in {"committed", "already"}
      PROVE  OnBranch(done(p))'
    <2>1. CASE p.outcome = "commit"
        <3>1. done(p).file = p.file /\ done(p).content = p.content
            BY <1>2, <2>1 DEF PlanOfFile
        <3>2. [file |-> p.file, base |-> p.base, content |-> p.content] \in c.wrote
            BY <1>4, <2>1 DEF ToWrite
        <3>3. c.tree[p.file] = p.content
            BY <1>3, <3>2
        <3> QED BY <1>5, <3>1, <3>3 DEF OnBranch
    <2>2. CASE p.outcome # "commit"
        BY <1>1, <1>6, <2>2, OnBranchStays DEF Truthful
    <2> QED BY <2>1, <2>2
<1>7. StartRecord(i, plans, n + 1)
    BY DEF UpdateRef
<1>8. \A p \in plans : p.outcome \in {"committed", "already"} => OnBranch(p)'
    BY <1>6
<1> HIDE DEF plans
<1>9. /\ inv'[i].pc = "mark" /\ inv'[i].plans = plans /\ inv'[i].sha = n + 1
      /\ inv'[i].req = Req(i)
    BY <1>1, <1>2, <1>7 DEF StartRecord, Go, Run, Req
<1> QED BY <1>3, <1>5, <1>8, <1>9 DEF Truthful

\* The other steps of a run.
LEMMA WorkTruthful ==
    ASSUME IInv, [Next]_vars, NEW i \in Invocations, Work(i) \/ Crash(i), Truthful(i)
    PROVE  Truthful(i)'
<1>1. inv \in [Invocations -> RunOn(Len(branch))] /\ inv[i] \in Run /\ branch \in Seq(Commit)
    BY RequestType DEF RunOn, IInv, TypeOK, RecordsTypeOK
<1>2. ASSUME inv'[i].pc \notin {"find", "accept", "plan", "push", "mark", "event"}
      PROVE  Truthful(i)'
    BY <1>2 DEF Truthful
<1>3. ASSUME branch' = branch, inv[i].pc \in {"find", "accept"}, inv'[i].pc \in {"accept", "plan"},
             inv'[i].onHead = inv[i].onHead, inv'[i].req = inv[i].req, inv'[i].head = inv[i].head
      PROVE  Truthful(i)'
    BY <1>3 DEF Truthful
<1>4. ASSUME branch' = branch, inv[i].pc \in {"mark", "event"}, inv'[i].pc \in {"mark", "event"},
             inv'[i].plans = inv[i].plans, inv'[i].req = inv[i].req, inv'[i].sha = inv[i].sha
      PROVE  Truthful(i)'
    BY <1>4 DEF Truthful, OnBranch
<1>5. CASE Claim(i) \/ StepAside(i) \/ RefRefused(i) \/ Finish(i) \/ FinishRefused(i) \/ Backstop(i)
           \/ Crash(i)
    <2>1. CASE Claim(i) \/ RefRefused(i)
        <3>1. inv'[i].pc \in {"head", "done", "refuse"}
            BY <1>1, <2>1 DEF Claim, RefRefused, Go, End, Blank, Run
        <3> QED BY <1>2, <3>1
    <2>2. CASE StepAside(i) \/ Finish(i) \/ FinishRefused(i) \/ Backstop(i)
        <3>1. End(i)
            BY <2>2 DEF StepAside, Finish, FinishRefused, Backstop
        <3>2. inv'[i].pc = "done"
            BY <1>1, <3>1 DEF End, Go, Blank
        <3> QED BY <1>2, <3>2
    <2>3. CASE Crash(i)
        <3>1. inv'[i].pc \in {"again", "gaveUp"}
            BY <1>1, <2>3 DEF Crash, Go, Blank
        <3> QED BY <1>2, <3>1
    <2> QED BY <1>5, <2>1, <2>2, <2>3
<1>6. CASE MarkCommitted(i)
    <2>1. Go(i, [inv[i] EXCEPT !.pc = "event"]) /\ branch' = branch /\ inv[i].pc = "mark"
        BY <1>6 DEF MarkCommitted, At
    <2> QED BY <1>1, <1>4, <2>1 DEF Go, Run
<1>7. CASE PutCommittedEvent(i)
    <2> DEFINE l == NextLink(inv[i].links)
    <2>1. /\ Go(i, [inv[i] EXCEPT !.pc = "mark", !.links = @ \ {l}])
          /\ branch' = branch /\ inv[i].pc = "event"
        BY <1>7 DEF PutCommittedEvent, At
    <2> HIDE DEF l
    <2> QED BY <1>1, <1>4, <2>1 DEF Go, Run
<1>8. CASE ReadHead(i)
    <2> DEFINE onHead  == inv[i].retry /\ HasTrailer(Len(branch), Req(i))
               refused == \/ request[Req(i)].source = "github" /\ Req(i) \notin Permitted
                          \/ ~open
                          \/ ~onHead /\ OffHead(i)
               run     == IF refused THEN [inv[i] EXCEPT !.pc = "refuse"]
                          ELSE [inv[i] EXCEPT !.pc = "find", !.head = Len(branch),
                                              !.onHead = onHead]
    <2>1. inv' = [inv EXCEPT ![i] = run] /\ branch' = branch
        BY <1>8 DEF ReadHead, Go, recordVars
    <2>2. inv'[i] = run
        BY <1>1, <2>1
    <2>3. CASE refused
        <3>1. inv'[i].pc = "refuse"
            BY <1>1, <2>2, <2>3 DEF Run
        <3> QED BY <1>2, <3>1
    <2>4. CASE ~refused
        <3>1. /\ inv'[i].pc = "find" /\ inv'[i].head = Len(branch) /\ inv'[i].onHead = onHead
              /\ inv'[i].req = inv[i].req
            BY <1>1, <2>2, <2>4 DEF Run
        <3> QED BY <2>1, <3>1 DEF Truthful, HasTrailer, Req
    <2> QED BY <2>3, <2>4
<1>9. CASE ReadFindings(i)
    <2> DEFINE click == request[Req(i)].source = "github"
               next  == IF click THEN "accept" ELSE "plan"
               todo  == IF click THEN request[Req(i)].confirmed ELSE {}
               seen  == [status |-> status, fix |-> fix, gone |-> gone]
    <2>1. /\ inv[i].pc = "find" /\ branch' = branch
          /\ inv' = [inv EXCEPT ![i] = [inv[i] EXCEPT !.pc = next, !.seen = seen, !.todo = todo]]
        BY <1>9 DEF ReadFindings, At, Go, recordVars
    <2>2. next \in {"accept", "plan"}
        OBVIOUS
    <2> HIDE DEF next, seen, todo
    <2> QED BY <1>1, <1>3, <2>1, <2>2 DEF Run
<1>10. ASSUME NEW offered \in inv[i].todo, AcceptFile(i, offered)
       PROVE  Truthful(i)'
    BY <1>1, <1>3, <1>10, AcceptFileRun
<1>11. CASE Accepted(i)
    <2>1. /\ inv[i].pc = "accept" /\ branch' = branch
          /\ inv' = [inv EXCEPT ![i] = [inv[i] EXCEPT !.pc = "plan"]]
        BY <1>11 DEF Accepted, At, Go, recordVars
    <2> QED BY <1>1, <1>3, <2>1 DEF Run
<1>12. CASE Plan(i)
    BY <1>12, PlanTruthful
<1>13. CASE UpdateRef(i)
    BY <1>13, PushTruthful
<1> QED BY <1>5, <1>6, <1>7, <1>8, <1>9, <1>10, <1>11, <1>12, <1>13 DEF Work

\* An ending is said by the finishing run alone; a request that is recorded anew
\* says nothing.
LEMMA EndingSaid ==
    ASSUME IInv, [Next]_vars, NEW r \in Requests
    PROVE  \/ request'[r].sha = request[r].sha /\ request'[r].landed = request[r].landed
           \/ request'[r].sha = 0 /\ request'[r].landed = {}
           \/ \E i \in Invocations :
                /\ Finish(i) /\ Req(i) = r /\ branch' = branch
                /\ request'[r].sha = inv[i].sha
                /\ request'[r].landed = {[file |-> p.file, content |-> p.content] :
                        p \in {q \in inv[i].plans : q.outcome \in {"committed", "already"}}}
<1>1. request \in [Requests -> Request] /\ request[r] \in Request
    BY RequestType DEF IInv
<1> DEFINE same == request'[r].sha = request[r].sha /\ request'[r].landed = request[r].landed
<1>2. CASE CommitterStep
    <2>1. PICK i \in Invocations : \/ \E s \in Requests : Receive(i, s)
                                   \/ Work(i) \/ Crash(i)
        BY <1>2 DEF CommitterStep, CommitterNext
    <2>2. CASE \E s \in Requests : Receive(i, s)
        <3>1. PICK s \in Requests : Receive(i, s)
            BY <2>2
        <3>2. CASE s # r
            BY <3>1, <3>2, ReceiveFrame DEF IInv
        <3>3. CASE s = r
            <4>1. request' = [request EXCEPT ![r] = IF request[r].source = "github"
                                                    THEN ClickedRequest(r) ELSE request[r]]
                BY <3>1, <3>3 DEF Receive
            <4>2. ClickedRequest(r).sha = request[r].sha /\ ClickedRequest(r).landed = request[r].landed
                BY <1>1 DEF ClickedRequest, Request
            <4> QED BY <1>1, <4>1, <4>2
        <3> QED BY <3>2, <3>3
    <2>3. CASE Work(i) \/ Crash(i)
        <3>1. CASE Req(i) # r
            BY <2>3, <3>1, WorkFrame DEF IInv
        <3>2. CASE Req(i) = r
            <4>1. CASE Finish(i)
                <5> DEFINE said == {q \in inv[i].plans : q.outcome \in {"committed", "already"}}
                           landed == {[file |-> p.file, content |-> p.content] : p \in said}
                           now == IF said = {} THEN "held" ELSE "committed"
                <5>1. /\ branch' = branch
                      /\ request' = IF ~MayEnd(r) THEN request
                                    ELSE [request EXCEPT ![r] = [@ EXCEPT !.status = now,
                                            !.sha = inv[i].sha, !.landed = landed]]
                    BY <3>2, <4>1 DEF Finish
                <5> HIDE DEF landed, now
                <5>2. CASE ~MayEnd(r)
                    BY <5>1, <5>2
                <5>3. CASE MayEnd(r)
                    <6>1. request'[r].sha = inv[i].sha /\ request'[r].landed = landed
                        BY <1>1, <5>1, <5>3 DEF Request
                    <6> QED BY <3>2, <4>1, <5>1, <6>1 DEF landed
                <5> QED BY <5>2, <5>3
            <4>2. CASE Claim(i) \/ FinishRefused(i) \/ Backstop(i)
                BY <1>1, <3>2, <4>2 DEF Claim, FinishRefused, Backstop, Request
            <4>3. CASE request' = request
                BY <4>3
            <4> QED BY <2>3, <4>1, <4>2, <4>3 DEF Work, Crash, ReadHead, ReadFindings, AcceptFile,
                    Accepted, Plan, UpdateRef, StepAside, RefRefused, MarkCommitted,
                    PutCommittedEvent, recordVars
        <3> QED BY <3>1, <3>2
    <2> QED BY <2>1, <2>2, <2>3
<1>3. CASE ReviewStep
    <2>1. ASSUME NEW s \in Requests, RecordRequest(s)
          PROVE  same \/ (request'[r].sha = 0 /\ request'[r].landed = {})
        <3>1. request' = [request EXCEPT ![s] = [BlankRequest EXCEPT
                    !.status = "requested", !.confirmed = asking[s].confirm]]
            BY <2>1 DEF RecordRequest
        <3> QED BY <1>1, <3>1 DEF BlankRequest
    <2>2. ASSUME NEW s \in Requests, MarkNotHandedOver(s) PROVE same
        BY <1>1, <2>2 DEF MarkNotHandedOver, Request
    <2>3. ASSUME NEW s \in Requests, AskCommit(s) \/ Killed(s) \/ Invoke(s) \/ InvokeFails(s)
          PROVE  same
        BY <2>3 DEF AskCommit, Killed, Invoke, InvokeFails, recordVars
    <2> QED BY <1>3, <2>1, <2>2, <2>3, ReviewFrame DEF ReviewStep, HandOver
<1>4. CASE PipelineStep
    <2>1. ASSUME NEW s \in ClickRequests, NEW c \in checks, Click(s, c)
          PROVE  same \/ (request'[r].sha = 0 /\ request'[r].landed = {})
        <3>1. request' = [request EXCEPT ![s] = [BlankRequest EXCEPT
                    !.source = "github", !.check = c.id, !.at = clock + 1]]
            BY <2>1 DEF Click
        <3> QED BY <1>1, <3>1 DEF BlankRequest
    <2> QED BY <1>4, <2>1, PipelineFrame DEF PipelineStep
<1>5. CASE PeopleNext
    BY <1>5, PeopleSettled DEF IInv
<1>6. CASE UNCHANGED vars
    BY <1>6 DEF vars, recordVars
<1> QED BY <1>2, <1>3, <1>4, <1>5, <1>6 DEF Next

LEMMA TruthStep == IInv /\ Truth /\ [Next]_vars => Truth'
<1> SUFFICES ASSUME IInv, Truth, [Next]_vars PROVE Truth'
    OBVIOUS
<1>1. ASSUME NEW i \in Invocations PROVE Truthful(i)'
    <2>1. Truthful(i)
        BY DEF Truth
    <2>2. inv'[i] = inv[i] => Truthful(i)'
        BY <2>1, WaitingTruthful
    <2>3. CASE CommitterStep
        <3>1. PICK j \in Invocations : \/ \E r \in Requests : Receive(j, r)
                                       \/ Work(j) \/ Crash(j)
            BY <2>3 DEF CommitterStep, CommitterNext
        <3>2. CASE j # i
            BY <2>2, <3>1, <3>2, ReceiveFrame, WorkFrame DEF IInv
        <3>3. CASE j = i /\ \E r \in Requests : Receive(j, r)
            <4>1. inv'[i].pc \in {"claim", "done"}
                BY <3>3, ReceiveFrame DEF IInv
            <4> QED BY <4>1 DEF Truthful
        <3>4. CASE j = i /\ (Work(j) \/ Crash(j))
            BY <2>1, <3>4, WorkTruthful
        <3> QED BY <3>1, <3>2, <3>3, <3>4
    <2>4. CASE ReviewStep \/ PipelineStep
        BY <2>2, <2>4 DEF ReviewStep, PipelineStep, committerVars
    <2>5. CASE PeopleNext
        BY <2>2, <2>5, PeopleSettled DEF IInv
    <2>6. CASE UNCHANGED vars
        BY <2>2, <2>6 DEF vars, committerVars
    <2> QED BY <2>3, <2>4, <2>5, <2>6 DEF Next
<1>2. ASSUME NEW r \in Requests PROVE Reported(r)'
    <2>1. \A k \in DOMAIN branch : k \in DOMAIN branch' /\ branch'[k] = branch[k]
        BY BranchGrows DEF IInv
    <2>2. \A l : OnBranch(l) => OnBranch(l)'
        BY OnBranchStays
    <2>3. CASE request'[r].sha = request[r].sha /\ request'[r].landed = request[r].landed
        BY <2>1, <2>2, <2>3 DEF Truth, Reported
    <2>4. CASE request'[r].sha = 0 /\ request'[r].landed = {}
        BY <2>4 DEF Reported
    <2>5. ASSUME NEW i \in Invocations, Finish(i), Req(i) = r,
                 request'[r].sha = inv[i].sha,
                 request'[r].landed = {[file |-> p.file, content |-> p.content] :
                        p \in {q \in inv[i].plans : q.outcome \in {"committed", "already"}}}
          PROVE  Reported(r)'
        <3>1. inv[i].pc = "mark" /\ Truthful(i)
            BY <2>5 DEF Finish, At, Truth
        <3>2. inv[i].sha # 0 => inv[i].sha \in DOMAIN branch /\ branch[inv[i].sha].by = r
            BY <2>5, <3>1 DEF Truthful, Req
        <3>3. \A l \in request'[r].landed : OnBranch(l)
            <4>1. \A p \in inv[i].plans : p.outcome \in {"committed", "already"} => OnBranch(p)
                BY <3>1 DEF Truthful
            <4> QED BY <2>5, <4>1 DEF OnBranch
        <3> QED BY <2>1, <2>2, <2>5, <3>2, <3>3 DEF Reported
    <2> QED BY <2>3, <2>4, <2>5, EndingSaid
<1> QED BY <1>1, <1>2 DEF Truth

\* CommittedIsTrue is an invariant, for every interleaving of twins, retries,
\* crashes and pushes: a request that says committed names versions that were on
\* the branch, and a commit of its own (_finish, record_commit, _has_trailer).
THEOREM CommittedAsSaid == Spec => []CommittedIsTrue
<1>1. Truth => CommittedIsTrue
    BY DEF Truth, Reported, OnBranch, CommittedIsTrue
<1> QED BY <1>1, InitTruth, TruthStep, InductiveInvariant, PTL DEF Spec

----------------------------------------------------------------------------
(* Endings stand *)

\* A request that is being handed over waits, and no run has it yet.
HandingOver ==
    \A r \in Requests : asking[r].pc \in {"recorded", "failing"} =>
        r \notin queued /\ request[r].status = "requested"

\* An ending is written over by nobody but the API, whose invoke has raised.
LEMMA EndingStands ==
    ASSUME IInv, [Next]_vars, NEW r \in Requests, request[r].status \in Ended,
           ~MarkNotHandedOver(r)
    PROVE  request'[r] = request[r]
<1>1. /\ request \in [Requests -> Request] /\ Settled(r)
      /\ request[r].status \notin Active /\ request[r].status # "none"
    BY RequestType DEF IInv, AllSettled, Active, Ended
<1>2. CASE CommitterStep
    <2>1. PICK i \in Invocations : \/ \E s \in Requests : Receive(i, s)
                                   \/ Work(i) \/ Crash(i)
        BY <1>2 DEF CommitterStep, CommitterNext
    <2>2. CASE \E s \in Requests : Receive(i, s)
        BY <1>1, <2>2, ReceiveFrame DEF IInv
    <2>3. CASE Work(i) \/ Crash(i)
        <3>1. CASE Req(i) # r
            BY <2>3, <3>1, WorkFrame DEF IInv
        <3>2. CASE Req(i) = r
            BY <1>1, <2>3, <3>2 DEF Work, Claim, Finish, FinishRefused, MayEnd, Backstop,
                Unfinished, Active, Crash, ReadHead, ReadFindings, AcceptFile, Accepted, Plan,
                UpdateRef, StepAside, RefRefused, MarkCommitted, PutCommittedEvent, recordVars
        <3> QED BY <3>1, <3>2
    <2> QED BY <2>1, <2>2, <2>3
<1>3. CASE ReviewStep
    <2>1. ASSUME NEW s \in Requests, RecordRequest(s) PROVE request'[r] = request[r]
        <3>1. s # r
            BY <1>1, <2>1 DEF RecordRequest, Settled
        <3> QED BY <1>1, <2>1, <3>1 DEF RecordRequest
    <2>2. ASSUME NEW s \in Requests, MarkNotHandedOver(s) PROVE request'[r] = request[r]
        <3>1. s # r
            BY <2>2
        <3> QED BY <1>1, <2>2, <3>1 DEF MarkNotHandedOver
    <2>3. ASSUME NEW s \in Requests, AskCommit(s) \/ Killed(s) \/ Invoke(s) \/ InvokeFails(s)
          PROVE  request' = request
        BY <2>3 DEF AskCommit, Killed, Invoke, InvokeFails, recordVars
    <2> QED BY <1>3, <2>1, <2>2, <2>3, ReviewFrame DEF ReviewStep, HandOver
<1>4. CASE PipelineStep
    <2>1. ASSUME NEW s \in ClickRequests, NEW c \in checks, Click(s, c)
          PROVE  request'[r] = request[r]
        <3>1. s # r
            <4>1. s \notin DashboardRequests /\ s \in Requests
                BY RequestIdsAssumption, PipelineAssumption
            <4> QED BY <1>1, <2>1, <4>1 DEF Click, Settled
        <3> QED BY <1>1, <2>1, <3>1 DEF Click
    <2> QED BY <1>4, <2>1, PipelineFrame DEF PipelineStep
<1>5. CASE PeopleNext
    BY <1>5, PeopleSettled DEF IInv
<1>6. CASE UNCHANGED vars
    BY <1>6 DEF vars, recordVars
<1> QED BY <1>2, <1>3, <1>4, <1>5, <1>6 DEF Next

\* While an invoke that raises was not accepted, a request is handed over before
\* anybody has it.
LEMMA HandingOverStep ==
    ASSUME "ambiguous" \notin ApiFaults, IInv, HandingOver, [Next]_vars
    PROVE  HandingOver'
<1> SUFFICES ASSUME NEW r \in Requests, asking'[r].pc \in {"recorded", "failing"}
             PROVE  r \notin queued' /\ request'[r].status = "requested"
    BY DEF HandingOver
<1>1. /\ request \in [Requests -> Request] /\ asking \in [Requests -> Ask] /\ Settled(r)
    BY RequestType DEF IInv, AllSettled
<1> DEFINE waits == r \notin queued /\ request[r].status = "requested"
<1>2. asking'[r] = asking[r] => waits
    BY DEF HandingOver
<1>3. CASE CommitterStep
    <2>1. waits
        BY <1>2, <1>3 DEF CommitterStep, reviewVars
    <2>2. PICK i \in Invocations : \/ \E s \in Requests : Receive(i, s)
                                   \/ Work(i) \/ Crash(i)
        BY <1>3 DEF CommitterStep, CommitterNext
    <2>3. CASE \E s \in Requests : Receive(i, s)
        BY <2>1, <2>3, ReceiveFrame DEF IInv
    <2>4. CASE Work(i) \/ Crash(i)
        <3>1. Req(i) \in Requests /\ queued' = queued
              /\ (r # Req(i) => request'[r] = request[r])
            BY <2>4, WorkFrame DEF IInv
        <3>2. Req(i) \in queued
            BY <3>1 DEF IInv, AllSettled, Settled, Req
        <3> QED BY <2>1, <3>1, <3>2
    <2> QED BY <2>2, <2>3, <2>4
<1>4. CASE ReviewStep
    <2>1. CASE request' = request /\ queued' = queued /\ asking' = asking
        BY <1>2, <2>1
    <2>2. ASSUME NEW s \in Requests, s # r, AskCommit(s) \/ HandOver(s) \/ Killed(s)
          PROVE  r \notin queued' /\ request'[r].status = "requested"
        <3>1. asking'[r] = asking[r] /\ request'[r] = request[r] /\ (r \in queued' <=> r \in queued)
            BY <1>1, <2>2 DEF AskCommit, HandOver, Killed, RecordRequest, Invoke, InvokeFails,
                MarkNotHandedOver, recordVars
        <3> QED BY <1>2, <3>1
    <2>3. CASE RecordRequest(r)
        <3>1. asking[r].pc = "checked" /\ request'[r].status = "requested" /\ queued' = queued
            BY <1>1, <2>3 DEF RecordRequest, BlankRequest
        <3> QED BY <1>1, <3>1 DEF Settled
    <2>4. CASE InvokeFails(r)
        <3>1. asking[r].pc = "recorded" /\ request' = request /\ queued' = queued
            BY <2>4 DEF InvokeFails
        <3> QED BY <3>1 DEF HandingOver
    <2>5. CASE AskCommit(r) \/ Invoke(r) \/ MarkNotHandedOver(r) \/ Killed(r)
        <3>1. asking'[r].pc \in {"checked", "done"}
            BY <1>1, <2>5 DEF AskCommit, Invoke, MarkNotHandedOver, Killed, Ask
        <3> QED BY <3>1
    <2> QED BY <1>4, <2>1, <2>2, <2>3, <2>4, <2>5, ReviewFrame DEF ReviewStep, HandOver
<1>5. CASE PipelineStep
    <2>1. asking' = asking /\ waits
        BY <1>2, <1>5 DEF PipelineStep, reviewVars
    <2>2. ASSUME NEW s \in ClickRequests, NEW c \in checks, Click(s, c)
          PROVE  r \notin queued' /\ request'[r] = request[r]
        <3>1. s # r
            BY <1>1, <2>1, RequestIdsAssumption DEF Settled
        <3> QED BY <1>1, <2>1, <2>2, <3>1 DEF Click
    <2> QED BY <1>5, <2>1, <2>2, PipelineFrame DEF PipelineStep
<1>6. CASE PeopleNext
    <2>1. request' = request /\ queued' = queued /\ asking' = asking
        <3>1. ASSUME NEW tree, Push(tree)
              PROVE  request' = request /\ queued' = queued /\ asking' = asking
            BY <3>1 DEF Push, reviewVars
        <3> QED BY <1>6, <3>1 DEF PeopleNext, Edit, ApplySuggestions, Revert, ClosePullRequest,
                recordVars, reviewVars
    <2> QED BY <1>2, <2>1
<1>7. CASE UNCHANGED vars
    BY <1>2, <1>7 DEF vars, recordVars, reviewVars
<1> QED BY <1>3, <1>4, <1>5, <1>6, <1>7 DEF Next

\* EndingsAreFinal, whatever crashes, is delivered twice or comes late, as long as
\* an invoke that raised was not accepted all the same: what an ending says is
\* never written over (the conditions of _finish, on_failure and
\* mark_github_failed; _post_commit's own write has none).
THEOREM EndingsStand ==
    ASSUME "ambiguous" \notin ApiFaults
    PROVE  Spec => EndingsAreFinal
<1>1. Init => HandingOver
    BY DEF Init, ReviewInit, NotAsked, HandingOver
<1>2. IInv /\ HandingOver /\ [Next]_vars => HandingOver'
    BY HandingOverStep
<1>3. IInv /\ HandingOver /\ [Next]_vars =>
        [\A r \in Requests : request[r].status \in Ended => request'[r] = request[r]]_vars
    <2> SUFFICES ASSUME IInv, HandingOver, [Next]_vars, NEW r \in Requests,
                        request[r].status \in Ended
                 PROVE  request'[r] = request[r]
        OBVIOUS
    <2>1. ~MarkNotHandedOver(r)
        BY DEF HandingOver, MarkNotHandedOver, Ended
    <2> QED BY <2>1, EndingStands
<1> QED BY <1>1, <1>2, <1>3, InductiveInvariant, PTL DEF Spec, EndingsAreFinal

----------------------------------------------------------------------------
(* What lands once drafting, or deciding, is over *)

\* No Draft fixes run starts any more: the fixes are those there are, and what
\* remains is to decide on them and to land them.
DraftingIsOver == MaxRuns = 0

\* Or fixes are drafted as before, and decided on no more: what remains to be
\* landed is what has been approved.
DecidingIsOver == NobodyDecides /\ ClickRequests = {}

First == [own |-> 1, fixes |-> {}]

\* The fix still is on its first base and chain, edited or marked as it may be;
\* a file of it has changes of that chain alone.
AsDrafted(f, x) == x # NoFix => x.base = First /\ x.after = Drafted(f, First).after
OfChain(f, c) == c # NoContent =>
    c.own = 1 /\ \A change \in c.fixes : change[1] \in Lower(f) \cup {f}

DraftsStand ==
    /\ \A w \in Drafters : draft[w].pc = "idle"
    /\ \A f \in Findings : AsDrafted(f, fix[f]) /\ OfChain(f, stored[f])
    /\ \A v \in Reviewers : review[v].pc # "idle" =>
            /\ AsDrafted(review[v].finding, review[v].copy)
            /\ OfChain(review[v].finding, review[v].content)
    /\ \A i \in Invocations : inv[i].pc \in {"accept", "plan"} =>
            \A f \in Findings : AsDrafted(f, inv[i].seen.fix[f])

\* Somebody has approved or edited the finding.  What is written is some finding's
\* fix, over the first version, which it changes: it has what the base has, and
\* beside it only what was decided on.
Decided(f) == \E a \in approvals : a[1] = f
WellMade(w) == /\ \E f \in Findings : w.file = FileOf[f]
               /\ w.base = First /\ w.content # First
               /\ w.content.own = w.base.own
               /\ w.base.fixes \subseteq w.content.fixes
               /\ \A c \in w.content.fixes \ w.base.fixes : Decided(c[1])

\* Requests are the dashboard's, and what the committer records is not of the future.
FromDashboard ==
    /\ \A r \in Requests : request[r].source = "dashboard"
    /\ \A i \in Invocations : /\ inv[i].pc # "accept"
                              /\ inv[i].pc \in {"mark", "event"} => inv[i].now <= clock

\* What a plan takes is as it was drafted first, and was decided on.
HasRead(i) == inv[i].pc \in {"accept", "plan"}
ApprovedStand == \A f \in Findings : latest[f].action \in Resolving =>
    /\ Decided(f) /\ OfChain(f, stored[f])
    /\ \A i \in Invocations : HasRead(i) => AsDrafted(f, inv[i].seen.fix[f])

\* An approved fix is in nobody's hands, and as it was drafted first.
Apart(f) == /\ status[f] = "resolved" /\ \A w \in Drafters : f \notin draft[w].todo
            /\ AsDrafted(f, fix[f]) /\ latest[f].at <= clock
ApprovedApart == /\ AllIdle /\ FromDashboard /\ ApprovedStand
                 /\ \A f \in Findings : latest[f].action \in Resolving => Apart(f)

LatestDecided == \A f \in Findings : latest[f].action \in Resolving => Decided(f)
PlansWellMade == \A i \in Invocations : inv[i].pc = "push" =>
    \A p \in inv[i].plans : p.outcome = "commit" => WellMade(p)
OursWellMade  == \A k \in Ours : \A w \in branch[k].wrote : WellMade(w)

\* Nothing drafts, then: a step is the committer's, a decision's, or leaves what
\* is drafted, decided and planned alone.
LEMMA OverFrame ==
    ASSUME TypeOK, DraftingIsOver, \A w \in Drafters : draft[w].pc = "idle", [Next]_vars
    PROVE  \/ CommitterStep
           \/ /\ inv' = inv /\ draft' = draft /\ branch' = branch
              /\ \E v \in Reviewers : \/ \E f \in Findings, action \in Decisions, diff \in Diffs :
                                            Decide(v, f, action, diff)
                                      \/ Serve(v) \/ DecisionDies(v)
           \/ /\ UNCHANGED <<fix, status, stored, superseder, latest, approvals, review, draft, inv>>
              /\ clock' \in {clock, clock + 1}
<1>1. CASE ReviewStep
    <2>1. inv' = inv /\ draft' = draft
        BY <1>1 DEF ReviewStep, committerVars, remediationVars
    <2>2. CASE \E r \in Requests : AskCommit(r) \/ HandOver(r) \/ Killed(r)
        BY <2>1, <2>2 DEF AskCommit, HandOver, RecordRequest, Invoke, InvokeFails,
            MarkNotHandedOver, Killed, recordVars, findingVars, eventVars
    <2> QED BY <1>1, <2>1, <2>2, ReviewFrame DEF ReviewStep, ReviewNext
<1>2. CASE PipelineStep
    <2>1. inv' = inv /\ review' = review
        BY <1>2 DEF PipelineStep, committerVars, reviewVars
    <2>2. ASSUME NEW w \in Drafters, NEW file \in Files, Begin(w, file) PROVE FALSE
        <3>1. ~(runs < MaxRuns)
            BY DEF DraftingIsOver, TypeOK, RemediationTypeOK
        <3> QED BY <2>2, <3>1 DEF Begin
    <2>3. ASSUME NEW w \in Drafters, DraftStep(w) PROVE FALSE
        BY <2>3 DEF DraftStep, ReopenStale, Root, Supersede, NotDrafted, Upload, Suppression,
            DraftError, WriteResult, Yield, DraftsDone, DraftRunDies, MayDraft, Drafting
    <2>4. ~RemediationNext
        BY <2>2, <2>3 DEF RemediationNext
    <2> QED BY <1>2, <2>1, <2>4 DEF PipelineStep, PipelineNext, Fetch, Report, Scan, RecordOffer,
                Click, remediationVars, findingVars, eventVars
<1>3. CASE PeopleNext \/ UNCHANGED vars
    BY <1>3 DEF PeopleNext, Edit, ApplySuggestions, Revert, Push, ClosePullRequest, vars,
        recordVars, findingVars, eventVars, committerVars, remediationVars, reviewVars
<1> QED BY <1>1, <1>2, <1>3 DEF Next

\* Which step of the committer brings a run to its plan, its push and its record.
LEMMA WorkLeads ==
    ASSUME TypeOK, NEW i \in Invocations, Work(i) \/ Crash(i),
           inv'[i].pc \in {"accept", "plan", "push", "mark", "event"}
    PROVE  \/ /\ inv'[i].pc \in {"accept", "plan"}
              /\ \/ ReadFindings(i)
                 \/ \E offered \in inv[i].todo : AcceptFile(i, offered)
                 \/ Accepted(i)
           \/ inv'[i].pc = "push" /\ Plan(i)
           \/ inv'[i].pc = "mark" /\ (Plan(i) \/ UpdateRef(i) \/ PutCommittedEvent(i))
           \/ inv'[i].pc = "event" /\ MarkCommitted(i)
<1>1. inv \in [Invocations -> RunOn(Len(branch))]
    BY RequestType
<1>2. inv[i] \in Run
    BY <1>1 DEF RunOn
<1>3. ASSUME Claim(i) \/ StepAside(i) \/ RefRefused(i) \/ ReadHead(i) PROVE FALSE
    <2>1. CASE Claim(i) \/ StepAside(i) \/ RefRefused(i)
        <3>1. CASE Claim(i)
            <4> DEFINE first == request[Req(i)].status = "requested"
            <4>1. inv' = [inv EXCEPT ![i] = [inv[i] EXCEPT !.pc = "head", !.retry = ~first]]
                BY <3>1 DEF Claim, Go
            <4> HIDE DEF first
            <4>2. inv'[i].pc = "head"
                BY <1>1, <1>2, <4>1 DEF Run
            <4> QED BY <4>2
        <3>2. CASE StepAside(i)
            <4>1. inv'[i].pc = "done"
                BY <1>1, <3>2 DEF StepAside, End, Go, Blank
            <4> QED BY <4>1
        <3>3. CASE RefRefused(i)
            <4>1. inv' = [inv EXCEPT ![i] = [inv[i] EXCEPT !.pc = "refuse"]]
                BY <3>3 DEF RefRefused, Go
            <4>2. inv'[i].pc = "refuse"
                BY <1>1, <1>2, <4>1 DEF Run
            <4> QED BY <4>2
        <3> QED BY <2>1, <3>1, <3>2, <3>3
    <2>2. CASE ReadHead(i)
        <3>1. PICK head, onHead : \/ Go(i, [inv[i] EXCEPT !.pc = "refuse"])
                                  \/ Go(i, [inv[i] EXCEPT !.pc = "find", !.head = head, !.onHead = onHead])
            BY <2>2 DEF ReadHead
        <3>2. CASE Go(i, [inv[i] EXCEPT !.pc = "refuse"])
            <4>1. inv'[i].pc = "refuse"
                BY <1>1, <1>2, <3>2 DEF Go, Run
            <4> QED BY <4>1
        <3>3. CASE Go(i, [inv[i] EXCEPT !.pc = "find", !.head = head, !.onHead = onHead])
            <4>1. inv'[i].pc = "find"
                BY <1>1, <1>2, <3>3 DEF Go, Run
            <4> QED BY <4>1
        <3> QED BY <3>1, <3>2, <3>3
    <2> QED BY <1>3, <2>1, <2>2
<1>4. CASE MarkCommitted(i)
    <2>1. Go(i, [inv[i] EXCEPT !.pc = "event"])
        BY <1>4 DEF MarkCommitted
    <2>2. inv'[i].pc = "event"
        BY <1>1, <1>2, <2>1 DEF Go, Run
    <2> QED BY <1>4, <2>2
<1>5. CASE PutCommittedEvent(i)
    <2> DEFINE l == NextLink(inv[i].links)
    <2>1. Go(i, [inv[i] EXCEPT !.pc = "mark", !.links = @ \ {l}])
        BY <1>5 DEF PutCommittedEvent
    <2> HIDE DEF l
    <2>2. inv'[i].pc = "mark"
        BY <1>1, <1>2, <2>1 DEF Go, Run
    <2> QED BY <1>5, <2>2
<1>6. ASSUME Finish(i) \/ FinishRefused(i) \/ Backstop(i) \/ Crash(i) PROVE FALSE
    <2>1. inv'[i].pc \in {"done", "again", "gaveUp"}
        BY <1>1, <1>6 DEF Finish, FinishRefused, Backstop, Crash, End, Go, Blank
    <2> QED BY <2>1
<1>7. ASSUME NEW plans, NEW sha, StartRecord(i, plans, sha) PROVE inv'[i].pc = "mark"
    BY <1>1, <1>2, <1>7 DEF StartRecord, Go, Run
<1>8. CASE Plan(i)
    <2>1. CASE \E plans : Go(i, [inv[i] EXCEPT !.pc = "push", !.plans = plans,
                                              !.seen = <<>>, !.changed = {}])
        <3>1. inv'[i].pc = "push"
            BY <1>1, <1>2, <2>1 DEF Go, Run
        <3> QED BY <1>8, <3>1
    <2> QED BY <1>7, <1>8, <2>1 DEF Plan
<1>9. CASE UpdateRef(i)
    <2>1. inv'[i].pc = "mark"
        BY <1>7, <1>9 DEF UpdateRef
    <2> QED BY <1>9, <2>1
<1>10. CASE ReadFindings(i)
    <2> DEFINE click == request[Req(i)].source = "github"
               next  == IF click THEN "accept" ELSE "plan"
               seen  == [status |-> status, fix |-> fix, gone |-> gone]
               todo  == IF click THEN request[Req(i)].confirmed ELSE {}
    <2>1. inv' = [inv EXCEPT ![i] = [inv[i] EXCEPT !.pc = next, !.seen = seen, !.todo = todo]]
        BY <1>10 DEF ReadFindings, Go
    <2>2. next \in {"accept", "plan"}
        OBVIOUS
    <2> HIDE DEF next, seen, todo
    <2>3. inv'[i].pc = next
        BY <1>1, <1>2, <2>1 DEF Run
    <2> QED BY <1>10, <2>2, <2>3
<1>11. CASE \E offered \in inv[i].todo : AcceptFile(i, offered)
    <2>1. PICK offered \in inv[i].todo :
            /\ inv[i].pc = "accept"
            /\ \/ Go(i, [inv[i] EXCEPT !.todo = @ \ {offered}])
               \/ Go(i, [inv[i] EXCEPT !.todo = @ \ {offered}, !.changed = @ \cup {offered}])
        BY <1>11 DEF AcceptFile, At
    <2>2. inv'[i].pc = "accept"
        BY <1>1, <1>2, <2>1 DEF Go, Run
    <2> QED BY <1>11, <2>2
<1>12. CASE Accepted(i)
    <2>1. inv'[i].pc = "plan"
        BY <1>1, <1>2, <1>12 DEF Accepted, Go, Run
    <2> QED BY <1>12, <2>1
<1> QED BY <1>3, <1>4, <1>5, <1>6, <1>8, <1>9, <1>10, <1>11, <1>12 DEF Work

\* What a run of the committer has read of the findings.
LEMMA SeenFrame ==
    ASSUME TypeOK, CommitterStep, NEW i \in Invocations, inv'[i].pc \in {"accept", "plan"}
    PROVE  \/ inv[i].pc \in {"accept", "plan"} /\ inv'[i].seen = inv[i].seen
           \/ inv'[i].seen.fix = fix
<1>1. inv \in [Invocations -> RunOn(Len(branch))]
    BY RequestType
<1>2. PICK j \in Invocations : (\E r \in Requests : Receive(j, r)) \/ Work(j) \/ Crash(j)
    BY DEF CommitterStep, CommitterNext
<1>3. CASE j # i \/ inv'[i] = inv[i]
    BY <1>2, <1>3, ReceiveFrame, WorkFrame
<1>4. CASE j = i /\ inv'[i] # inv[i]
    <2>1. ~(\E r \in Requests : Receive(i, r))
        BY ReceiveFrame
    <2>2. Work(i) \/ Crash(i)
        BY <1>2, <1>4, <2>1
    <2>3. inv[i] \in Run
        BY <1>1 DEF RunOn
    <2>4. CASE ReadFindings(i)
        <3> DEFINE click == request[Req(i)].source = "github"
                   next  == IF click THEN "accept" ELSE "plan"
                   todo  == IF click THEN request[Req(i)].confirmed ELSE {}
                   seen  == [status |-> status, fix |-> fix, gone |-> gone]
        <3>1. inv' = [inv EXCEPT ![i] = [inv[i] EXCEPT !.pc = next, !.seen = seen, !.todo = todo]]
            BY <2>4 DEF ReadFindings, Go
        <3>2. seen.fix = fix
            OBVIOUS
        <3> HIDE DEF next, todo, seen
        <3>3. inv'[i].seen = seen
            BY <1>1, <2>3, <3>1 DEF Run
        <3> QED BY <3>2, <3>3
    <2>5. CASE \E offered \in inv[i].todo : AcceptFile(i, offered)
        <3>1. inv[i].pc = "accept"
            BY <2>5 DEF AcceptFile, At
        <3>2. PICK offered \in inv[i].todo :
                \/ Go(i, [inv[i] EXCEPT !.todo = @ \ {offered}])
                \/ Go(i, [inv[i] EXCEPT !.todo = @ \ {offered}, !.changed = @ \cup {offered}])
            BY <2>5 DEF AcceptFile
        <3>3. inv'[i].seen = inv[i].seen
            BY <1>1, <2>3, <3>2 DEF Go, Run
        <3> QED BY <3>1, <3>3
    <2>6. CASE Accepted(i)
        BY <1>1, <2>3, <2>6 DEF Accepted, At, Go, Run
    <2> QED BY <1>1, <2>2, <2>4, <2>5, <2>6, WorkLeads
<1> QED BY <1>3, <1>4

LEMMA DraftsStandBegin == Init => DraftsStand
<1> SUFFICES ASSUME Init PROVE DraftsStand
    OBVIOUS
<1>1. \A w \in Drafters : draft[w].pc = "idle"
    BY DEF Init, RemediationInit, NoDraft
<1>2. /\ \A v \in Reviewers : review[v].pc = "idle"
      /\ \A i \in Invocations : inv[i].pc = "idle"
    BY DEF Init, ReviewInit, NoReview, CommitterInit, Blank
<1>3. ASSUME NEW f \in Findings PROVE AsDrafted(f, fix[f]) /\ OfChain(f, stored[f])
    <2>1. fix[f] = NoFix \/ fix[f] = Drafted(f, First)
        BY DEF Init, First
    <2>2. Drafted(f, First).base = First
        BY DEF Drafted
    <2>3. AsDrafted(f, fix[f])
        BY <2>1, <2>2 DEF AsDrafted
    <2>4. \/ stored[f] = NoContent
          \/ stored[f] = [First EXCEPT !.fixes = {<<g, FirstDiff>> : g \in Lower(f) \cup {f}}]
        BY DEF Init, First
    <2>5. CASE stored[f] = [First EXCEPT !.fixes = {<<g, FirstDiff>> : g \in Lower(f) \cup {f}}]
        <3>1. stored[f].own = 1 /\ stored[f].fixes = {<<g, FirstDiff>> : g \in Lower(f) \cup {f}}
            BY <2>5 DEF First
        <3> QED BY <2>3, <3>1 DEF OfChain
    <2> QED BY <2>3, <2>4, <2>5 DEF OfChain
<1> QED BY <1>1, <1>2, <1>3 DEF DraftsStand

\* A decision keeps the base, the chain and the others' changes in the file.
LEMMA DecisionStands ==
    ASSUME TypeOK, DraftsStand, NEW v \in Reviewers,
           \/ \E f \in Findings, action \in Decisions, diff \in Diffs : Decide(v, f, action, diff)
           \/ Serve(v) \/ DecisionDies(v),
           inv' = inv, draft' = draft
    PROVE  DraftsStand'
<1>1. /\ review \in [Reviewers -> DecisionAtStep] /\ review[v] \in Decision
      /\ stored \in [Findings -> Content \cup {NoContent}]
      /\ fix \in [Findings -> Fix \cup {NoFix}]
    BY DEF TypeOK, ReviewTypeOK, RecordsTypeOK, DecisionAtStep
<1> DEFINE f == review[v].finding
           Sound(d) == d.pc # "idle" => AsDrafted(d.finding, d.copy) /\ OfChain(d.finding, d.content)
<1>2. Sound(review[v]) /\ \A u \in Reviewers : Sound(review[u])
    BY DEF DraftsStand
<1>3. ASSUME \A u \in Reviewers : Sound(review'[u]),
             \A g \in Findings : AsDrafted(g, fix'[g]) /\ OfChain(g, stored'[g])
      PROVE  DraftsStand'
    BY <1>3 DEF DraftsStand, AsDrafted, OfChain
<1>4. ASSUME NEW d, review' = [review EXCEPT ![v] = d], Sound(d)
      PROVE  \A u \in Reviewers : Sound(review'[u])
    BY <1>1, <1>2, <1>4
<1>5. Sound(NoReview)
    BY DEF NoReview
<1>6. \A g \in Findings : AsDrafted(g, fix[g]) /\ OfChain(g, stored[g])
    BY DEF DraftsStand
<1>7. ASSUME NEW g \in Findings, NEW action \in Decisions, NEW diff \in Diffs,
             Decide(v, g, action, diff)
      PROVE  DraftsStand'
    <2> DEFINE shown   == CASE action = "edited"   -> diff
                            [] action = "approved" -> fix[g].diff
                            [] OTHER               -> NoFix
               content == IF action = "edited" THEN Edited(stored[g], g, diff) ELSE NoContent
               d == [NoReview EXCEPT !.pc = "event", !.finding = g, !.action = action,
                        !.copy = fix[g], !.diff = shown, !.content = content]
    <2>1. /\ review' = [review EXCEPT ![v] = d] /\ fix' = fix /\ stored' = stored
          /\ action = "edited" => stored[g] # NoContent
        BY <1>7 DEF Decide, recordVars, findingVars
    <2>2. OfChain(g, content)
        <3>1. CASE action = "edited"
            <4>1. stored[g] \in Content /\ OfChain(g, stored[g])
                BY <1>1, <1>6, <2>1, <3>1
            <4> QED BY <2>1, <3>1, <4>1 DEF OfChain, Edited, Content
        <3> QED BY <3>1 DEF OfChain
    <2> HIDE DEF shown, content
    <2>3. d.finding = g /\ d.copy = fix[g] /\ d.content = content
        BY DEF NoReview
    <2> HIDE DEF d
    <2>4. Sound(d)
        BY <1>6, <2>2, <2>3
    <2> QED BY <1>3, <1>4, <1>6, <2>1, <2>4
<1>8. CASE PutDecision(v)
    <2> DEFINE next == CASE review[v].action = "edited" -> "upload"
                         [] review[v].action = "rejected" /\ review[v].copy = NoFix -> "cascade"
                         [] OTHER -> "update"
               d == [review[v] EXCEPT !.now = clock + 1, !.pc = next]
    <2>1. review' = [review EXCEPT ![v] = d] /\ fix' = fix /\ stored' = stored /\ review[v].pc = "event"
        BY <1>1, <1>8 DEF PutDecision, findingVars
    <2> HIDE DEF next
    <2>2. d.finding = review[v].finding /\ d.copy = review[v].copy /\ d.content = review[v].content
        BY <1>1 DEF Decision
    <2> HIDE DEF d
    <2>3. Sound(d)
        BY <1>2, <2>1, <2>2
    <2> QED BY <1>3, <1>4, <1>6, <2>1, <2>3
<1>9. CASE UploadEdit(v)
    <2> DEFINE d == [review[v] EXCEPT !.pc = "update"]
    <2>1. /\ review' = [review EXCEPT ![v] = d] /\ fix' = fix /\ review[v].pc = "upload"
          /\ stored' = [stored EXCEPT ![f] = review[v].content] /\ f \in Findings
        BY <1>1, <1>9 DEF UploadEdit, findingVars, DecisionAtStep
    <2>2. d.finding = f /\ d.copy = review[v].copy /\ d.content = review[v].content
        BY <1>1 DEF Decision
    <2> HIDE DEF d
    <2>3. Sound(d)
        BY <1>2, <2>1, <2>2
    <2>4. \A g \in Findings : OfChain(g, stored'[g])
        BY <1>1, <1>2, <1>6, <2>1
    <2> QED BY <1>3, <1>4, <1>6, <2>1, <2>3, <2>4
<1>10. CASE UpdateFinding(v)
    <2> DEFINE changed == [review[v].copy EXCEPT !.diff = review[v].diff, !.passed = FALSE]
               d == IF review[v].action = "approved" THEN NoReview
                    ELSE [review[v] EXCEPT !.pc = "cascade"]
    <2>1. /\ review' = [review EXCEPT ![v] = d] /\ stored' = stored /\ review[v].pc = "update"
          /\ f \in Findings
          /\ fix' = IF review[v].action # "edited" THEN fix ELSE [fix EXCEPT ![f] = changed]
        BY <1>1, <1>10 DEF UpdateFinding, DecisionAtStep
    <2>2. Sound(d)
        BY <1>1, <1>2, <1>5, <2>1 DEF Decision
    <2> HIDE DEF d
    <2>3. ASSUME review[v].action = "edited" PROVE AsDrafted(f, changed)
        <3>1. review[v].copy \in Fix
            BY <1>1, <2>1, <2>3 DEF DecisionAtStep, Resolving
        <3>2. changed.base = review[v].copy.base /\ changed.after = review[v].copy.after
            BY <3>1 DEF Fix
        <3> QED BY <1>2, <2>1, <3>1, <3>2, AbsentAssumption DEF AsDrafted
    <2> HIDE DEF changed
    <2>4. \A g \in Findings : AsDrafted(g, fix'[g])
        BY <1>1, <1>6, <2>1, <2>3
    <2> QED BY <1>3, <1>4, <1>6, <2>1, <2>2, <2>4
<1>11. CASE ReadDependents(v) \/ Reopen(v) \/ DecisionDies(v)
    <2>1. fix' = fix /\ stored' = stored
        BY <1>11 DEF ReadDependents, Reopen, DecisionDies, recordVars, findingVars
    <2>2. PICK d : review' = [review EXCEPT ![v] = d]
                   /\ (d = NoReview \/ \E pc, todo : d = [review[v] EXCEPT !.pc = pc, !.reopen = todo])
                   /\ review[v].pc # "idle"
        <3>1. CASE ReadDependents(v)
            <4> DEFINE roots == {f} \cup Dependents(f)
                       freed == {g \in Findings \ {f} : superseder[g] \in roots}
                       todo  == {[finding |-> g, freed |-> g \in freed] : g \in Dependents(f) \cup freed}
                       d == IF todo = {} THEN NoReview
                            ELSE [review[v] EXCEPT !.pc = "reopen", !.reopen = todo]
            <4>1. review' = [review EXCEPT ![v] = d] /\ review[v].pc = "cascade"
                BY <1>1, <3>1 DEF ReadDependents
            <4> HIDE DEF todo
            <4>2. d = NoReview \/ d = [review[v] EXCEPT !.pc = "reopen", !.reopen = todo]
                OBVIOUS
            <4> HIDE DEF d
            <4> QED BY <4>1, <4>2
        <3>2. CASE Reopen(v)
            <4> DEFINE todo == review[v].reopen
                       next == CHOOSE t \in todo : \A u \in todo : t.finding <= u.finding
                       d == IF todo = {next} THEN NoReview
                            ELSE [review[v] EXCEPT !.reopen = todo \ {next}]
            <4>1. review' = [review EXCEPT ![v] = d] /\ review[v].pc = "reopen"
                BY <1>1, <3>2 DEF Reopen
            <4> HIDE DEF next
            <4>2. [review[v] EXCEPT !.reopen = todo \ {next}]
                    = [review[v] EXCEPT !.pc = "reopen", !.reopen = todo \ {next}]
                BY <1>1, <4>1 DEF Decision
            <4>3. d = NoReview \/ d = [review[v] EXCEPT !.pc = "reopen", !.reopen = todo \ {next}]
                BY <4>2
            <4> HIDE DEF d
            <4> QED BY <4>1, <4>3
        <3>3. CASE DecisionDies(v)
            BY <1>1, <3>3 DEF DecisionDies
        <3> QED BY <1>11, <3>1, <3>2, <3>3
    <2>3. Sound(d)
        <3>1. CASE d = NoReview
            BY <1>5, <3>1
        <3>2. ASSUME NEW pc, NEW todo, d = [review[v] EXCEPT !.pc = pc, !.reopen = todo]
              PROVE  Sound(d)
            <4>1. d.finding = review[v].finding /\ d.copy = review[v].copy
                  /\ d.content = review[v].content
                BY <1>1, <3>2 DEF Decision
            <4> QED BY <1>2, <2>2, <4>1
        <3> QED BY <2>2, <3>1, <3>2
    <2> QED BY <1>3, <1>4, <1>6, <2>1, <2>2, <2>3
<1> QED BY <1>7, <1>8, <1>9, <1>10, <1>11 DEF Serve

LEMMA DraftsStandStep ==
    ASSUME TypeOK, DraftingIsOver, DraftsStand, [Next]_vars
    PROVE  DraftsStand'
<1>1. CASE CommitterStep
    <2>1. Undisturbed /\ review' = review
        BY <1>1, CommitterUndisturbed
    <2>2. ASSUME NEW f \in Findings PROVE AsDrafted(f, fix'[f]) /\ OfChain(f, stored'[f])
        <3>1. SameFix(fix[f], fix'[f]) /\ stored' = stored
            BY <2>1 DEF Undisturbed
        <3> QED BY <3>1 DEF SameFix, SameDraft, DraftsStand, AsDrafted
    <2>3. ASSUME NEW i \in Invocations, inv'[i].pc \in {"accept", "plan"}, NEW f \in Findings
          PROVE  AsDrafted(f, inv'[i].seen.fix[f])
        BY <1>1, <2>3, SeenFrame DEF DraftsStand
    <2> QED BY <2>1, <2>2, <2>3 DEF DraftsStand, Undisturbed, AsDrafted, OfChain
<1>2. CASE /\ inv' = inv /\ draft' = draft
           /\ \E v \in Reviewers : \/ \E f \in Findings, action \in Decisions, diff \in Diffs :
                                            Decide(v, f, action, diff)
                                   \/ Serve(v) \/ DecisionDies(v)
    BY <1>2, DecisionStands
<1>3. CASE UNCHANGED <<fix, status, stored, superseder, latest, approvals, review, draft, inv>>
    BY <1>3 DEF DraftsStand, AsDrafted, OfChain
<1> QED BY <1>1, <1>2, <1>3, OverFrame DEF DraftsStand

\* A latest event that accepts a finding is somebody's approval or edit of it,
\* and what was decided stays decided.
LEMMA LatestDecidedStep ==
    ASSUME TypeOK, DraftingIsOver, DraftsStand, LatestDecided, [Next]_vars
    PROVE  LatestDecided' /\ approvals \subseteq approvals'
<1>1. latest \in [Findings -> Event]
    BY DEF TypeOK, RecordsTypeOK
<1>2. ASSUME latest' = latest, approvals' = approvals
      PROVE  LatestDecided' /\ approvals \subseteq approvals'
    BY <1>2 DEF LatestDecided, Decided
<1>3. ASSUME approvals \subseteq approvals',
             \A f \in Findings :
                \/ latest'[f] = latest[f]
                \/ latest'[f].action \notin Resolving
                \/ \E a \in approvals' : a[1] = f
      PROVE  LatestDecided' /\ approvals \subseteq approvals'
    BY <1>3 DEF LatestDecided, Decided
<1>4. CASE CommitterStep
    <2>1. PICK i \in Invocations : (\E r \in Requests : Receive(i, r)) \/ Work(i) \/ Crash(i)
        BY <1>4 DEF CommitterStep, CommitterNext
    <2>2. ASSUME NEW offered \in inv[i].todo, AcceptFile(i, offered)
          PROVE  LatestDecided' /\ approvals \subseteq approvals'
        <3> DEFINE r == Req(i)
                   chain == {offered.chain[k] : k \in DOMAIN offered.chain}
        <3>1. CASE UNCHANGED <<latest, status, approvals>>
            BY <1>2, <3>1
        <3>2. CASE /\ latest' = [f \in Findings |-> IF f \in chain
                        THEN After(latest[f], request[r].at, Suffix.github, "approved")
                        ELSE latest[f]]
                   /\ approvals' = approvals \cup {<<f, inv[i].seen.fix[f].diff>> : f \in chain}
            <4> HIDE DEF chain
            <4>1. ASSUME NEW f \in chain PROVE \E a \in approvals' : a[1] = f
                <5>1. <<f, inv[i].seen.fix[f].diff>> \in approvals'
                    BY <3>2
                <5> QED BY <5>1
            <4> QED BY <1>3, <3>2, <4>1
        <3> QED BY <2>2, <3>1, <3>2 DEF AcceptFile
    <2>3. CASE PutCommittedEvent(i)
        <3> DEFINE l == NextLink(inv[i].links)
        <3>1. /\ latest' = [latest EXCEPT ![l.finding] =
                                After(@, inv[i].now, Suffix.committed, "committed")]
              /\ approvals' = approvals
            BY <2>3 DEF PutCommittedEvent
        <3> HIDE DEF l
        <3>2. ASSUME NEW f \in Findings
              PROVE  latest'[f] = latest[f] \/ latest'[f].action = "committed"
            BY <1>1, <3>1 DEF After
        <3> QED BY <1>3, <3>1, <3>2 DEF Resolving
    <2>4. CASE \/ \E r \in Requests : Receive(i, r)
               \/ Claim(i) \/ ReadHead(i) \/ ReadFindings(i) \/ Accepted(i)
               \/ Plan(i) \/ UpdateRef(i) \/ StepAside(i) \/ RefRefused(i)
               \/ MarkCommitted(i) \/ Finish(i) \/ FinishRefused(i) \/ Backstop(i) \/ Crash(i)
        <3>1. latest' = latest /\ approvals' = approvals
            BY <2>4 DEF Receive, Claim, ReadHead, ReadFindings, Accepted, Plan, UpdateRef, StepAside,
                RefRefused, MarkCommitted, Finish, FinishRefused, Backstop, Crash, recordVars, eventVars
        <3> QED BY <1>2, <3>1
    <2> QED BY <2>1, <2>2, <2>3, <2>4 DEF Work
<1>5. ASSUME NEW v \in Reviewers,
             \/ \E f \in Findings, action \in Decisions, diff \in Diffs : Decide(v, f, action, diff)
             \/ Serve(v) \/ DecisionDies(v)
      PROVE  LatestDecided' /\ approvals \subseteq approvals'
    <2>1. CASE PutDecision(v)
        <3> DEFINE f == review[v].finding
                   action == review[v].action
        <3>1. /\ latest' = [latest EXCEPT ![f] = After(@, clock + 1, Suffix.decision, action)]
              /\ approvals' = IF action \in Resolving THEN approvals \cup {<<f, review[v].diff>>}
                              ELSE approvals
            BY <2>1 DEF PutDecision
        <3> HIDE DEF f, action
        <3>2. ASSUME NEW g \in Findings, latest'[g] # latest[g]
              PROVE  g = f /\ latest'[g].action = action
            BY <1>1, <3>1, <3>2 DEF After
        <3>3. action \in Resolving => <<f, review[v].diff>> \in approvals' /\ <<f, review[v].diff>>[1] = f
            BY <3>1
        <3> QED BY <1>3, <3>1, <3>2, <3>3
    <2>2. CASE Reopen(v)
        <3> DEFINE todo == review[v].reopen
                   g    == (CHOOSE t \in todo : \A u \in todo : t.finding <= u.finding).finding
        <3>1. /\ latest' = [latest EXCEPT ![g] = After(@, review[v].now, Suffix.system, "reopened")]
              /\ approvals' = approvals
            BY <2>2 DEF Reopen
        <3> HIDE DEF g
        <3>2. ASSUME NEW f \in Findings
              PROVE  latest'[f] = latest[f] \/ latest'[f].action = "reopened"
            BY <1>1, <3>1 DEF After
        <3> QED BY <1>3, <3>1, <3>2 DEF Resolving
    <2>3. CASE \/ \E f \in Findings, action \in Decisions, diff \in Diffs : Decide(v, f, action, diff)
               \/ UploadEdit(v) \/ UpdateFinding(v) \/ ReadDependents(v) \/ DecisionDies(v)
        <3>1. latest' = latest /\ approvals' = approvals
            BY <2>3 DEF Decide, UploadEdit, UpdateFinding, ReadDependents, DecisionDies,
                recordVars, eventVars
        <3> QED BY <1>2, <3>1
    <2> QED BY <1>5, <2>1, <2>2, <2>3 DEF Serve
<1> QED BY <1>2, <1>4, <1>5, OverFrame DEF DraftsStand

LEMMA DashboardStep ==
    ASSUME TypeOK, ClickRequests = {}, \A r \in Requests : request[r].source = "dashboard",
           [Next]_vars, NEW r \in Requests
    PROVE  request'[r].source = "dashboard"
<1>1. request \in [Requests -> Request]
    BY RequestType
<1>2. CASE request' = request
    BY <1>2
<1>3. CASE CommitterStep
    <2>1. PICK i \in Invocations : (\E s \in Requests : Receive(i, s)) \/ Work(i) \/ Crash(i)
        BY <1>3 DEF CommitterStep, CommitterNext
    <2>2. CASE \E s \in Requests : Receive(i, s)
        BY <2>2, ReceiveFrame
    <2>3. CASE Work(i) \/ Crash(i)
        BY <2>3, WorkFrame DEF Kept
    <2> QED BY <2>1, <2>2, <2>3
<1>4. CASE ReviewStep
    <2>1. CASE \E s \in Requests : AskCommit(s) \/ HandOver(s) \/ Killed(s)
        <3>1. PICK s \in Requests : AskCommit(s) \/ HandOver(s) \/ Killed(s)
            BY <2>1
        <3>2. CASE RecordRequest(s)
            BY <1>1, <3>2 DEF RecordRequest, BlankRequest
        <3>3. CASE MarkNotHandedOver(s)
            BY <1>1, <3>3 DEF MarkNotHandedOver, Request
        <3>4. CASE AskCommit(s) \/ Invoke(s) \/ InvokeFails(s) \/ Killed(s)
            BY <1>2, <3>4 DEF AskCommit, Invoke, InvokeFails, Killed, recordVars
        <3> QED BY <3>1, <3>2, <3>3, <3>4 DEF HandOver
    <2> QED BY <1>2, <1>4, <2>1, ReviewFrame DEF ReviewStep
<1>5. CASE PipelineStep
    BY <1>2, <1>5, PipelineFrame DEF PipelineStep
<1>6. CASE PeopleNext \/ UNCHANGED vars
    BY <1>2, <1>6 DEF PeopleNext, Edit, ApplySuggestions, Revert, Push, ClosePullRequest, vars, recordVars
<1> QED BY <1>3, <1>4, <1>5, <1>6 DEF Next

\* The committer takes back what it recorded, and accepts nothing by itself.
LEMMA CommitterQuiet ==
    ASSUME TypeOK, FromDashboard, CommitterStep
    PROVE  /\ status' = status /\ superseder' = superseder /\ clock' \in {clock, clock + 1}
           /\ \A f \in Findings :
                \/ latest'[f] = latest[f]
                \/ latest'[f].action = "committed" /\ latest'[f].at <= clock'
           /\ \A i \in Invocations :
                /\ inv'[i].pc # "accept"
                /\ inv'[i].pc \in {"mark", "event"} => inv'[i].now <= clock'
<1>1. /\ inv \in [Invocations -> RunOn(Len(branch))] /\ latest \in [Findings -> Event] /\ clock \in Nat
    BY DEF TypeOK, CommitterTypeOK, RecordsTypeOK
<1>2. PICK i \in Invocations : (\E r \in Requests : Receive(i, r)) \/ Work(i) \/ Crash(i)
    BY DEF CommitterStep, CommitterNext
<1>3. inv[i] \in Run /\ inv[i].pc # "accept"
    BY <1>1 DEF RunOn, FromDashboard
<1>4. ASSUME NEW offered PROVE ~AcceptFile(i, offered)
    BY <1>3 DEF AcceptFile, At
<1>5. ~Accepted(i)
    BY <1>3 DEF Accepted, At
<1>6. CASE PutCommittedEvent(i)
    <2> DEFINE l == NextLink(inv[i].links)
    <2>1. /\ latest' = [latest EXCEPT ![l.finding] =
                            After(@, inv[i].now, Suffix.committed, "committed")]
          /\ inv' = [inv EXCEPT ![i] = [inv[i] EXCEPT !.pc = "mark", !.links = @ \ {l}]]
          /\ inv[i].pc = "event"
          /\ UNCHANGED <<status, superseder, clock>>
        BY <1>6 DEF PutCommittedEvent, At, Go, findingVars
    <2> HIDE DEF l
    <2>2. inv[i].now <= clock
        BY <2>1 DEF FromDashboard
    <2>3. ASSUME NEW f \in Findings
          PROVE  \/ latest'[f] = latest[f]
                 \/ latest'[f].action = "committed" /\ latest'[f].at <= clock'
        BY <1>1, <2>1, <2>2 DEF After
    <2>4. inv'[i].pc = "mark" /\ inv'[i].now = inv[i].now
        BY <1>1, <1>3, <2>1 DEF Run
    <2>5. \A j \in Invocations : j # i => inv'[j] = inv[j]
        BY <1>1, <2>1
    <2> QED BY <2>1, <2>2, <2>3, <2>4, <2>5 DEF FromDashboard
<1>7. CASE ~PutCommittedEvent(i)
    <2>1. /\ status' = status /\ superseder' = superseder /\ latest' = latest
          /\ clock' \in {clock, clock + 1}
        BY <1>2, <1>4, <1>7 DEF Work, Receive, Claim, ReadHead, ReadFindings, Accepted, Plan,
            UpdateRef, StartRecord, StepAside, RefRefused, MarkCommitted, Finish, FinishRefused,
            Backstop, Crash, recordVars, findingVars, eventVars
    <2>2. \A j \in Invocations : j # i => inv'[j] = inv[j]
        BY <1>2, WorkFrame, ReceiveFrame
    <2>3. \A j \in Invocations : j # i =>
                /\ inv'[j].pc # "accept"
                /\ inv'[j].pc \in {"mark", "event"} => inv'[j].now <= clock'
        BY <1>1, <2>1, <2>2 DEF FromDashboard, RunOn, Run
    <2>4. /\ inv'[i].pc # "accept"
          /\ inv'[i].pc \in {"mark", "event"} => inv'[i].now <= clock'
        <3>1. CASE \E r \in Requests : Receive(i, r)
            <4>1. inv'[i].pc \in {"claim", "done"}
                BY <3>1, ReceiveFrame
            <4> QED BY <4>1
        <3>2. CASE inv'[i].pc \in {"accept", "plan"} /\ ReadFindings(i)
            <4> DEFINE click == request[Req(i)].source = "github"
                       next  == IF click THEN "accept" ELSE "plan"
                       todo  == IF click THEN request[Req(i)].confirmed ELSE {}
                       seen  == [status |-> status, fix |-> fix, gone |-> gone]
            <4>1. inv' = [inv EXCEPT ![i] = [inv[i] EXCEPT !.pc = next, !.seen = seen, !.todo = todo]]
                  /\ inv[i].pc # "idle"
                BY <3>2 DEF ReadFindings, Go, At
            <4>2. Req(i) \in Requests
                BY <1>1, <4>1 DEF RunOn, Req
            <4>3. next = "plan"
                BY <4>2 DEF FromDashboard
            <4> HIDE DEF next, todo, seen
            <4>4. inv'[i].pc = "plan"
                BY <1>1, <1>3, <4>1, <4>3 DEF Run
            <4> QED BY <4>4
        <3>3. ASSUME NEW plans, NEW sha, StartRecord(i, plans, sha)
              PROVE  /\ inv'[i].pc # "accept"
                     /\ inv'[i].pc \in {"mark", "event"} => inv'[i].now <= clock'
            <4> DEFINE links == LinksOf(plans, sha, inv[i].head)
            <4>1. /\ inv' = [inv EXCEPT ![i] = [inv[i] EXCEPT !.pc = "mark", !.plans = plans,
                                !.sha = sha, !.now = clock + 1, !.seen = <<>>, !.changed = {},
                                !.links = links]]
                  /\ clock' = clock + 1
                BY <3>3 DEF StartRecord, Go
            <4> HIDE DEF links
            <4>2. inv'[i].pc = "mark" /\ inv'[i].now = clock + 1
                BY <1>1, <1>3, <4>1 DEF Run
            <4> QED BY <1>1, <4>1, <4>2
        <3>4. CASE Plan(i)
            <4>1. CASE \E plans : Go(i, [inv[i] EXCEPT !.pc = "push", !.plans = plans,
                                              !.seen = <<>>, !.changed = {}])
                <5>1. inv'[i].pc = "push"
                    BY <1>1, <1>3, <4>1 DEF Go, Run
                <5> QED BY <5>1
            <4> QED BY <3>3, <3>4, <4>1 DEF Plan
        <3>5. CASE UpdateRef(i)
            BY <3>3, <3>5 DEF UpdateRef
        <3>6. CASE MarkCommitted(i)
            <4>1. inv' = [inv EXCEPT ![i] = [inv[i] EXCEPT !.pc = "event"]] /\ inv[i].pc = "mark"
                  /\ clock' = clock
                BY <3>6 DEF MarkCommitted, At, Go, eventVars
            <4>2. inv'[i].pc = "event" /\ inv'[i].now = inv[i].now
                BY <1>1, <1>3, <4>1 DEF Run
            <4> QED BY <4>1, <4>2 DEF FromDashboard
        <3>7. CASE Work(i) \/ Crash(i)
            BY <1>4, <1>5, <1>7, <3>2, <3>4, <3>5, <3>6, <3>7, WorkLeads
        <3> QED BY <1>2, <3>1, <3>7
    <2> QED BY <2>1, <2>3, <2>4
<1> QED BY <1>6, <1>7

\* What somebody approved stays on record, and only the committer moves its runs.
LEMMA ApprovalsGrow ==
    ASSUME [Next]_vars
    PROVE  approvals \subseteq approvals'
<1>1. CASE CommitterStep
    <2>1. ASSUME NEW i \in Invocations, NEW r \in Requests, Receive(i, r) PROVE approvals' = approvals
        BY <2>1 DEF Receive, recordVars
    <2>2. ASSUME NEW i \in Invocations, Crash(i) PROVE approvals' = approvals
        BY <2>2 DEF Crash, recordVars
    <2>3. ASSUME NEW i \in Invocations, NEW o \in inv[i].todo, AcceptFile(i, o)
          PROVE  approvals \subseteq approvals'
        BY <2>3 DEF AcceptFile
    <2>4. ASSUME NEW i \in Invocations,
                 \/ Claim(i) \/ ReadHead(i) \/ ReadFindings(i) \/ Accepted(i) \/ Plan(i)
                 \/ UpdateRef(i) \/ StepAside(i) \/ RefRefused(i)
          PROVE  approvals' = approvals
        BY <2>4 DEF Claim, ReadHead, ReadFindings, Accepted, Plan, UpdateRef, StepAside,
            RefRefused, recordVars
    <2>5. ASSUME NEW i \in Invocations,
                 \/ MarkCommitted(i) \/ PutCommittedEvent(i) \/ Finish(i) \/ FinishRefused(i)
                 \/ Backstop(i)
          PROVE  approvals' = approvals
        BY <2>5 DEF MarkCommitted, PutCommittedEvent, Finish, FinishRefused, Backstop, recordVars
    <2> QED BY <1>1, <2>1, <2>2, <2>3, <2>4, <2>5 DEF CommitterStep, CommitterNext, Work
<1>2. CASE ReviewStep
    BY <1>2 DEF ReviewStep, ReviewNext, Decide, Serve, PutDecision, UploadEdit, UpdateFinding,
        ReadDependents, Reopen, DecisionDies, AskCommit, HandOver, RecordRequest, Invoke,
        InvokeFails, MarkNotHandedOver, Killed, recordVars
<1>3. CASE PipelineStep
    <2>1. ASSUME NEW w \in Drafters, DraftStep(w) \/ \E file \in Files : Begin(w, file)
          PROVE  approvals' = approvals
        BY <2>1 DEF DraftStep, Begin, ReopenStale, Root, Supersede, NotDrafted, Upload, Suppression,
            DraftError, WriteResult, Yield, DraftsDone, DraftRunDies, recordVars
    <2> QED BY <1>3, <2>1 DEF PipelineStep, PipelineNext, RemediationNext, Fetch, Report, Scan,
                RecordOffer, Click
<1>4. CASE PeopleNext \/ UNCHANGED vars
    BY <1>4 DEF PeopleNext, Edit, ApplySuggestions, Revert, Push, ClosePullRequest, vars, recordVars
<1> QED BY <1>1, <1>2, <1>3, <1>4 DEF Next

LEMMA OthersLeaveRuns == [Next]_vars => CommitterStep \/ inv' = inv
BY DEF Next, ReviewStep, PipelineStep, PeopleNext, Edit, ApplySuggestions, Revert, Push,
    ClosePullRequest, vars, committerVars

\* Where drafting is over, what is approved stands as it was drafted.
LEMMA DraftsAreApproved == DraftsStand /\ LatestDecided => ApprovedStand
BY DEF DraftsStand, LatestDecided, ApprovedStand, HasRead

\* A drafter accepts nothing.
LEMMA StaysUnaccepted ==
    ASSUME TypeOK, NEW w \in Drafters, DraftStep(w) \/ (\E file \in Files : Begin(w, file)),
           NEW f \in Findings
    PROVE  latest'[f] = latest[f] \/ latest'[f].action = "reopened"
<1>1. latest \in [Findings -> Event]
    BY DEF TypeOK, RecordsTypeOK
<1>2. CASE ReopenStale(w)
    <2>1. PICK opened : latest' = [g \in Findings |-> IF g \in opened
                                    THEN After(latest[g], clock + 1, Suffix.system, "reopened")
                                    ELSE latest[g]]
        BY <1>2 DEF ReopenStale
    <2> QED BY <1>1, <2>1 DEF After
<1>3. CASE ~ReopenStale(w)
    BY <1>3 DEF DraftStep, Begin, Root, Supersede, NotDrafted, Upload, Suppression, DraftError,
        WriteResult, Yield, DraftsDone, DraftRunDies, recordVars, eventVars
<1> QED BY <1>2, <1>3

\* A drafter takes up only what is not accepted, and what it reopens is accepted
\* no more: the event of _reopen_stale_fixes is later than the approval.
LEMMA DraftsApart ==
    ASSUME TypeOK, NEW w \in Drafters, DraftStep(w) \/ (\E file \in Files : Begin(w, file)),
           NEW f \in Findings, Apart(f), latest'[f].action \in Resolving
    PROVE  /\ latest'[f] = latest[f] /\ status'[f] = status[f] /\ fix'[f] = fix[f]
           /\ stored'[f] = stored[f] /\ clock' \in {clock, clock + 1}
           /\ \A u \in Drafters : f \notin draft'[u].todo
<1>1. /\ draft \in [Drafters -> DraftAtStep] /\ draft[w] \in DraftRun /\ draft[w].todo \in SUBSET Findings
      /\ stored \in [Findings -> Content \cup {NoContent}] /\ fix \in [Findings -> Fix \cup {NoFix}]
      /\ status \in [Findings -> Statuses] /\ latest \in [Findings -> Event] /\ clock \in Nat
    BY DEF TypeOK, RemediationTypeOK, RecordsTypeOK, DraftAtStep, DraftRun
<1>2. f \notin draft[w].todo /\ status[f] = "resolved" /\ \A u \in Drafters : f \notin draft[u].todo
    BY DEF Apart
<1>3. ASSUME NEW run, draft' = [draft EXCEPT ![w] = run], f \notin run.todo
      PROVE  \A u \in Drafters : f \notin draft'[u].todo
    BY <1>1, <1>2, <1>3
<1>4. ASSUME draft[w].todo # {} PROVE Current(w) \in draft[w].todo /\ Current(w) # f
    BY <1>1, <1>2, <1>4, LowestChosen DEF Current
<1>5. f \notin NoDraft.todo
    BY DEF NoDraft
<1>6. ASSUME NEW file \in Files, Begin(w, file)
      PROVE  /\ UNCHANGED <<latest, status, fix, stored, clock>>
             /\ \A u \in Drafters : f \notin draft'[u].todo
    <2>1. PICK run : run = [NoDraft EXCEPT
            !.pc = IF draft[w].resume = 0 THEN "stale" ELSE "root",
            !.file = file, !.resume = draft[w].resume, !.drafted = draft[w].drafted,
            !.todo = {g \in OnFile(file) : status[g] \in {"mapped", "not-drafted"}},
            !.seen = [status |-> status, fix |-> fix, superseder |-> superseder, gone |-> gone]]
        OBVIOUS
    <2>2. run.todo = {g \in OnFile(file) : status[g] \in {"mapped", "not-drafted"}}
        BY <2>1 DEF NoDraft
    <2>3. draft' = [draft EXCEPT ![w] = run]
        BY <1>6, <2>1 DEF Begin
    <2> QED BY <1>2, <1>3, <1>6, <2>2, <2>3 DEF Begin, recordVars, findingVars, eventVars
<1>7. ASSUME ReopenStale(w)
      PROVE  /\ latest'[f] = latest[f] /\ status'[f] = status[f] /\ fix' = fix /\ stored' = stored
             /\ clock' \in {clock, clock + 1}
             /\ \A u \in Drafters : f \notin draft'[u].todo
    <2> DEFINE still == {g \in OnFile(draft[w].file) : status[g] = draft[w].seen.status[g]}
               stale == {g \in still : Stale(g, draft[w].seen, snapshot[draft[w].file])}
               freed == {g \in still : draft[w].seen.status[g] = "superseded"
                                       /\ draft[w].seen.superseder[g] \in stale}
    <2>1. PICK opened : opened = stale \cup freed
        OBVIOUS
    <2>2. PICK run : run = [draft[w] EXCEPT !.pc = "root", !.todo = draft[w].todo \cup opened,
                        !.seen.status = [g \in Findings |->
                            IF g \in opened THEN "mapped" ELSE draft[w].seen.status[g]]]
        OBVIOUS
    <2>3. /\ status' = [g \in Findings |-> IF g \in opened THEN "mapped" ELSE status[g]]
          /\ clock' = IF opened = {} THEN clock ELSE clock + 1
          /\ latest' = [g \in Findings |-> IF g \in opened
                          THEN After(latest[g], clock + 1, Suffix.system, "reopened")
                          ELSE latest[g]]
          /\ draft' = [draft EXCEPT ![w] = IF draft[w].todo \cup opened = {} THEN NoDraft ELSE run]
          /\ fix' = fix /\ stored' = stored
        BY <1>7, <2>1, <2>2 DEF ReopenStale
    <2> HIDE DEF still, stale, freed
    <2>4. run.todo = draft[w].todo \cup opened
        BY <1>1, <2>2 DEF DraftRun
    <2>5. f \notin opened
        <3> SUFFICES ASSUME f \in opened PROVE FALSE
            OBVIOUS
        <3>1. latest[f].at \in Nat /\ latest[f].at <= clock
            BY <1>1 DEF Apart, Event
        <3>2. latest'[f].action = "reopened"
            BY <1>1, <2>3, <3>1 DEF After
        <3> QED BY <3>2 DEF Resolving
    <2>6. PICK next : /\ next = IF draft[w].todo \cup opened = {} THEN NoDraft ELSE run
                      /\ f \notin next.todo
        BY <1>2, <1>5, <2>4, <2>5
    <2>7. \A u \in Drafters : f \notin draft'[u].todo
        BY <1>3, <2>3, <2>6
    <2> QED BY <2>3, <2>5, <2>7
<1>8. ASSUME Root(w)
      PROVE  \A u \in Drafters : f \notin draft'[u].todo
    <2>1. PICK run : /\ draft' = [draft EXCEPT ![w] = run]
                     /\ \/ run = NoDraft
                        \/ \E content, base, after, present :
                            run = [draft[w] EXCEPT !.pc = "draft", !.seen = <<>>, !.resume = 0,
                                    !.content = content, !.base = base, !.after = after,
                                    !.present = present, !.clearedBy = NoneCleared]
        <3> DEFINE seen == draft[w].seen
                   accepted == {g \in OnFile(draft[w].file) : /\ seen.status[g] = "resolved"
                                                              /\ seen.fix[g] # NoFix
                                                              /\ seen.fix[g].committed = 0}
                   Longer(g, h) == \/ Len(seen.fix[g].after) > Len(seen.fix[h].after)
                                   \/ Len(seen.fix[g].after) = Len(seen.fix[h].after) /\ g <= h
                   root == IF draft[w].resume # 0 THEN draft[w].resume
                           ELSE IF accepted = {} THEN 0
                           ELSE CHOOSE g \in accepted : \A h \in accepted : Longer(g, h)
                   Rooted(content, base, after, present) ==
                        [draft[w] EXCEPT !.pc = "draft", !.seen = <<>>, !.resume = 0,
                            !.content = content, !.base = base, !.after = after,
                            !.present = present, !.clearedBy = NoneCleared]
                   file == draft[w].file
                   run == IF draft[w].todo = {} THEN NoDraft
                          ELSE IF root = 0
                          THEN Rooted(snapshot[file], snapshot[file], <<>>, OnFile(file))
                          ELSE IF seen.fix[root] = NoFix \/ stored[root] = NoContent THEN NoDraft
                          ELSE Rooted(stored[root], seen.fix[root].base,
                                      Append(seen.fix[root].after,
                                             [finding |-> root, diff |-> seen.fix[root].diff]),
                                      Present(file, stored[root]))
        <3>1. draft' = [draft EXCEPT ![w] = run]
            BY <1>8 DEF Root
        <3> HIDE DEF root, file
        <3>2. run = NoDraft \/ \E content, base, after, present :
                                    run = Rooted(content, base, after, present)
            OBVIOUS
        <3> HIDE DEF run
        <3> QED BY <3>1, <3>2
    <2>2. f \notin run.todo
        <3>1. CASE run = NoDraft
            BY <1>5, <3>1
        <3>2. CASE run # NoDraft
            <4>1. PICK content, base, after, present :
                    run = [draft[w] EXCEPT !.pc = "draft", !.seen = <<>>, !.resume = 0,
                            !.content = content, !.base = base, !.after = after,
                            !.present = present, !.clearedBy = NoneCleared]
                BY <2>1, <3>2
            <4>2. run.todo = draft[w].todo
                BY <1>1, <4>1 DEF DraftRun
            <4> QED BY <1>2, <4>2
        <3> QED BY <3>1, <3>2
    <2> QED BY <1>3, <2>1, <2>2
<1>9. ASSUME Supersede(w) \/ NotDrafted(w)
      PROVE  /\ status'[f] = status[f] /\ UNCHANGED <<latest, fix, stored, clock>>
             /\ \A u \in Drafters : f \notin draft'[u].todo
    <2>1. PICK run : run = [draft[w] EXCEPT !.todo = @ \ {Current(w)}]
        OBVIOUS
    <2>2. f \notin run.todo
        BY <1>1, <1>2, <2>1 DEF DraftRun
    <2>3. draft' = [draft EXCEPT ![w] = run]
        BY <1>1, <1>9, <2>1 DEF Supersede, NotDrafted
    <2>4. Current(w) # f
        BY <1>4, <1>9 DEF Supersede, NotDrafted, Drafting
    <2> QED BY <1>1, <1>3, <1>9, <2>2, <2>3, <2>4 DEF Supersede, NotDrafted, eventVars
<1>10. ASSUME NEW diff \in Diffs, NEW held, NEW parses, Upload(w, diff, held, parses)
       PROVE  /\ stored'[f] = stored[f] /\ UNCHANGED <<latest, fix, status, clock>>
              /\ \A u \in Drafters : f \notin draft'[u].todo
    <2> DEFINE verified == ScannerVerified(diff, parses)
               pending  == Proposed(draft[w], diff, verified /\ ~held)
    <2>1. PICK run : run = [draft[w] EXCEPT !.pc = "write", !.verified = verified, !.pending = pending]
        OBVIOUS
    <2>2. draft' = [draft EXCEPT ![w] = run]
        BY <1>1, <1>10, <2>1 DEF Upload
    <2> HIDE DEF verified, pending
    <2>3. f \notin run.todo
        BY <1>1, <1>2, <2>1 DEF DraftRun
    <2>4. Current(w) # f
        BY <1>4, <1>10 DEF Upload, MayDraft, Drafting
    <2> QED BY <1>1, <1>3, <1>10, <2>2, <2>3, <2>4 DEF Upload, eventVars, findingVars
<1>11. ASSUME NEW diff \in Diffs, Suppression(w, diff)
       PROVE  \A u \in Drafters : f \notin draft'[u].todo
    <2>1. PICK run : run = [draft[w] EXCEPT !.pc = "write", !.verified = FALSE,
                                !.pending = Proposed(draft[w], diff, FALSE)]
        OBVIOUS
    <2>2. draft' = [draft EXCEPT ![w] = run]
        BY <1>1, <1>11, <2>1 DEF Suppression
    <2>3. f \notin run.todo
        BY <1>1, <1>2, <2>1 DEF DraftRun
    <2> QED BY <1>3, <2>2, <2>3
<1>12. ASSUME DraftError(w)
       PROVE  \A u \in Drafters : f \notin draft'[u].todo
    <2>1. PICK run : run = [draft[w] EXCEPT !.todo = @ \ {Current(w)}]
        OBVIOUS
    <2>2. draft' = [draft EXCEPT ![w] = run]
        BY <1>1, <1>12, <2>1 DEF DraftError
    <2>3. f \notin run.todo
        BY <1>1, <1>2, <2>1 DEF DraftRun
    <2> QED BY <1>3, <2>2, <2>3
<1>13. ASSUME WriteResult(w)
       PROVE  /\ status'[f] = status[f] /\ fix'[f] = fix[f] /\ UNCHANGED <<latest, stored, clock>>
              /\ \A u \in Drafters : f \notin draft'[u].todo
    <2>1. draft[w].pc = "write" /\ draft[w].todo # {}
        BY <1>1, <1>13 DEF WriteResult, DraftAtStep
    <2>2. PICK rest : rest = [draft[w] EXCEPT !.pc = "draft", !.todo = @ \ {Current(w)},
                                !.drafted = @ + 1, !.pending = NoFix, !.verified = FALSE]
        OBVIOUS
    <2>3. f \notin rest.todo /\ rest = [rest EXCEPT !.todo = rest.todo]
        BY <1>1, <1>2, <2>2 DEF DraftRun
    <2>4. PICK run : draft' = [draft EXCEPT ![w] = run] /\ run.todo = rest.todo
        <3> DEFINE content == [draft[w].content EXCEPT !.fixes = @ \cup {<<Current(w), draft[w].pending.diff>>}]
                   present == Present(draft[w].file, content)
                   cleared == draft[w].present \ present
                   full == [rest EXCEPT !.content = content, !.present = present,
                              !.after = Append(@, [finding |-> Current(w), diff |-> draft[w].pending.diff]),
                              !.clearedBy = [g \in DOMAIN @ \cup cleared |->
                                    IF g \in cleared THEN Current(w) ELSE @[g]]]
        <3>1. draft' = [draft EXCEPT ![w] = IF ~draft[w].verified THEN rest ELSE full]
            BY <1>13, <2>2 DEF WriteResult
        <3> HIDE DEF content, present, cleared
        <3>2. full.todo = rest.todo
            BY <1>1, <2>2 DEF DraftRun
        <3> QED BY <3>1, <3>2
    <2>5. Current(w) # f
        BY <1>4, <2>1
    <2> QED BY <1>1, <1>3, <1>13, <2>3, <2>4, <2>5 DEF WriteResult, eventVars
<1>14. ASSUME Yield(w) \/ DraftsDone(w) \/ DraftRunDies(w)
       PROVE  \A u \in Drafters : f \notin draft'[u].todo
    <2>1. CASE Yield(w)
        <3>1. PICK run : run = [NoDraft EXCEPT
                !.pc = "resume", !.file = draft[w].file, !.drafted = draft[w].drafted,
                !.resume = IF draft[w].after = <<>> THEN 0
                           ELSE draft[w].after[Len(draft[w].after)].finding]
            OBVIOUS
        <3>2. draft' = [draft EXCEPT ![w] = run]
            BY <2>1, <3>1 DEF Yield
        <3>3. f \notin run.todo
            BY <3>1 DEF NoDraft
        <3> QED BY <1>3, <3>2, <3>3
    <2>2. CASE DraftsDone(w) \/ DraftRunDies(w)
        BY <1>3, <1>5, <2>2 DEF DraftsDone, DraftRunDies
    <2> QED BY <1>14, <2>1, <2>2
<1>15. Root(w) \/ (\E diff \in Diffs : Suppression(w, diff)) \/ DraftError(w) \/ Yield(w)
        \/ DraftsDone(w) \/ DraftRunDies(w)
        => UNCHANGED <<latest, status, fix, stored, clock>>
    BY DEF Root, Suppression, DraftError, Yield, DraftsDone, DraftRunDies, recordVars
<1> QED BY <1>6, <1>7, <1>8, <1>9, <1>10, <1>11, <1>12, <1>13, <1>14, <1>15 DEF DraftStep

\* Where deciding is over, an accepted fix is left alone until it has landed or
\* is accepted no more, whatever is drafted beside it.
LEMMA ApartStep ==
    ASSUME TypeOK, DecidingIsOver, ApprovedApart, [Next]_vars
    PROVE  ApprovedApart'
<1>1. /\ clock \in Nat /\ latest \in [Findings -> Event]
      /\ inv \in [Invocations -> RunOn(Len(branch))]
    BY DEF TypeOK, RecordsTypeOK, CommitterTypeOK
<1>2. approvals \subseteq approvals'
    BY ApprovalsGrow
<1>3. \A r \in Requests : request'[r].source = "dashboard"
    BY DashboardStep DEF DecidingIsOver, ApprovedApart, FromDashboard
<1>4. \A i \in Invocations : inv[i] \in Run
    BY <1>1 DEF RunOn
<1>5. ASSUME AllIdle', clock' \in {clock, clock + 1},
             \/ inv' = inv
             \/ /\ CommitterStep
                /\ \A i \in Invocations : /\ inv'[i].pc # "accept"
                                          /\ inv'[i].pc \in {"mark", "event"} => inv'[i].now <= clock',
             \A f \in Findings : latest'[f].action \in Resolving =>
                /\ latest'[f] = latest[f] /\ status'[f] = status[f] /\ stored'[f] = stored[f]
                /\ AsDrafted(f, fix'[f]) /\ \A u \in Drafters : f \notin draft'[u].todo
      PROVE  ApprovedApart'
    <2>1. FromDashboard'
        <3>1. ASSUME NEW i \in Invocations, inv' = inv
              PROVE  /\ inv'[i].pc # "accept"
                     /\ inv'[i].pc \in {"mark", "event"} => inv'[i].now <= clock'
            BY <1>1, <1>4, <1>5, <3>1 DEF ApprovedApart, FromDashboard, Run
        <3> QED BY <1>3, <1>5, <3>1 DEF FromDashboard
    <2>2. ASSUME NEW f \in Findings, latest'[f].action \in Resolving
          PROVE  Apart(f)'
        <3>1. Apart(f) /\ latest'[f] = latest[f] /\ latest[f].at \in Nat
            BY <1>1, <1>5, <2>2 DEF ApprovedApart, Event
        <3> QED BY <1>1, <1>5, <2>2, <3>1 DEF Apart, AsDrafted
    <2>3. ASSUME NEW f \in Findings, latest'[f].action \in Resolving
          PROVE  /\ \E a \in approvals' : a[1] = f
                 /\ OfChain(f, stored'[f])
                 /\ \A i \in Invocations : inv'[i].pc \in {"accept", "plan"} =>
                        AsDrafted(f, inv'[i].seen.fix[f])
        <3>1. latest[f].action \in Resolving
            BY <1>5, <2>3
        <3>2. ASSUME NEW i \in Invocations, inv'[i].pc \in {"accept", "plan"}
              PROVE  AsDrafted(f, inv'[i].seen.fix[f])
            <4>1. CASE inv' = inv
                BY <3>1, <3>2, <4>1 DEF ApprovedApart, ApprovedStand, HasRead
            <4>2. CASE CommitterStep
                BY <3>1, <3>2, <4>2, SeenFrame DEF ApprovedApart, ApprovedStand, HasRead, Apart
            <4> QED BY <1>5, <4>1, <4>2
        <3> QED BY <1>2, <1>5, <2>3, <3>1, <3>2 DEF ApprovedApart, ApprovedStand, Decided
    <2>4. ApprovedStand'
        BY <2>3 DEF ApprovedStand, HasRead, Decided, AsDrafted, OfChain
    <2> QED BY <1>5, <2>1, <2>2, <2>4 DEF ApprovedApart
<1>6. ASSUME UNCHANGED <<latest, status, stored, fix, draft, inv, review>>,
             clock' \in {clock, clock + 1}
      PROVE  ApprovedApart'
    <2>1. AllIdle'
        BY <1>6 DEF ApprovedApart, AllIdle
    <2> QED BY <1>5, <1>6, <2>1 DEF ApprovedApart, Apart
<1>7. CASE CommitterStep
    <2>1. Undisturbed /\ review' = review
        BY <1>7, CommitterUndisturbed
    <2>2. FromDashboard
        BY DEF ApprovedApart
    <2>3. /\ status' = status /\ clock' \in {clock, clock + 1}
          /\ \A f \in Findings : latest'[f] = latest[f] \/ latest'[f].action = "committed"
          /\ \A i \in Invocations : /\ inv'[i].pc # "accept"
                                    /\ inv'[i].pc \in {"mark", "event"} => inv'[i].now <= clock'
        BY <1>7, <2>2, CommitterQuiet
    <2>4. ASSUME NEW f \in Findings, latest'[f].action \in Resolving
          PROVE  /\ latest'[f] = latest[f] /\ status'[f] = status[f] /\ stored'[f] = stored[f]
                 /\ AsDrafted(f, fix'[f]) /\ \A u \in Drafters : f \notin draft'[u].todo
        <3>1. latest'[f] = latest[f]
            BY <2>3, <2>4 DEF Resolving
        <3>2. SameFix(fix[f], fix'[f]) /\ stored' = stored /\ draft' = draft
            BY <2>1 DEF Undisturbed
        <3> QED BY <2>3, <2>4, <3>1, <3>2 DEF SameFix, SameDraft, ApprovedApart, Apart, AsDrafted
    <2>5. AllIdle'
        BY <2>1 DEF ApprovedApart, AllIdle
    <2> QED BY <1>5, <1>7, <2>3, <2>4, <2>5
<1>8. CASE ReviewStep
    <2>1. ASSUME NEW v \in Reviewers, NEW f, NEW action \in Decisions, NEW diff,
                 Decide(v, f, action, diff)
          PROVE  FALSE
        BY <2>1 DEF Decide, DecidingIsOver, NobodyDecides, TypeOK, ReviewTypeOK
    <2>2. ASSUME NEW v \in Reviewers, Serve(v) \/ DecisionDies(v) PROVE FALSE
        BY <2>2 DEF ApprovedApart, AllIdle, Serve, DecisionDies, PutDecision, UploadEdit,
            UpdateFinding, ReadDependents, Reopen
    <2>3. PICK r \in Requests : AskCommit(r) \/ HandOver(r) \/ Killed(r)
        BY <1>8, <2>1, <2>2 DEF ReviewStep, ReviewNext
    <2> QED BY <1>6, <1>8, <2>3 DEF AskCommit, HandOver, Killed, RecordRequest, Invoke, InvokeFails,
                MarkNotHandedOver, recordVars, findingVars, eventVars, ReviewStep, remediationVars,
                committerVars
<1>9. CASE PipelineStep
    <2>1. inv' = inv /\ review' = review
        BY <1>9 DEF PipelineStep, reviewVars, committerVars
    <2>2. ASSUME NEW w \in Drafters, DraftStep(w) \/ \E file \in Files : Begin(w, file)
          PROVE  ApprovedApart'
        <3>1. ASSUME NEW f \in Findings, latest'[f].action \in Resolving
              PROVE  /\ latest'[f] = latest[f] /\ status'[f] = status[f] /\ stored'[f] = stored[f]
                     /\ AsDrafted(f, fix'[f]) /\ \A u \in Drafters : f \notin draft'[u].todo
            <4>1. Apart(f)
                BY <2>2, <3>1, StaysUnaccepted DEF ApprovedApart, Resolving
            <4> QED BY <2>2, <3>1, <4>1, DraftsApart DEF Apart
        <3>2. clock' \in {clock, clock + 1}
            BY <2>2 DEF DraftStep, Begin, ReopenStale, Root, Supersede, NotDrafted, Upload, Suppression,
                DraftError, WriteResult, Yield, DraftsDone, DraftRunDies, recordVars, eventVars
        <3>3. AllIdle'
            BY <2>1 DEF ApprovedApart, AllIdle
        <3> QED BY <1>5, <2>1, <3>1, <3>2, <3>3
    <2>3. \/ RemediationNext
          \/ /\ UNCHANGED <<latest, status, stored, fix, draft>>
             /\ clock' \in {clock, clock + 1}
        BY <1>9 DEF PipelineStep, PipelineNext, Fetch, Report, Scan, RecordOffer, Click,
            remediationVars, findingVars, eventVars
    <2> QED BY <1>6, <2>1, <2>2, <2>3 DEF RemediationNext
<1>10. CASE PeopleNext \/ UNCHANGED vars
    BY <1>6, <1>10 DEF PeopleNext, Edit, ApplySuggestions, Revert, Push, ClosePullRequest, vars,
        recordVars, findingVars, eventVars, remediationVars, reviewVars, committerVars
<1> QED BY <1>7, <1>8, <1>9, <1>10 DEF Next

LEMMA ApartBegins == Init => ApprovedApart
<1> SUFFICES ASSUME Init PROVE ApprovedApart
    OBVIOUS
<1>1. /\ AllIdle /\ \A i \in Invocations : inv[i].pc = "idle"
      /\ \A r \in Requests : request[r].source = "dashboard"
      /\ clock = 1 /\ \A w \in Drafters : draft[w].todo = {}
    BY DEF Init, ReviewInit, NoReview, CommitterInit, Blank, BlankRequest, AllIdle,
        RemediationInit, NoDraft
<1>2. \A f \in Findings : AsDrafted(f, fix[f]) /\ OfChain(f, stored[f])
    BY DraftsStandBegin DEF DraftsStand
<1>3. \A f \in Findings : latest[f].action \in Resolving =>
            Decided(f) /\ latest[f].at <= clock /\ status[f] = "resolved"
    <2>1. CASE Start = "approved"
        <3>1. /\ approvals = {<<f, FirstDiff>> : f \in Findings}
              /\ \A f \in Findings : latest[f].at = 1 /\ status[f] = "resolved"
            BY <2>1 DEF Init
        <3>2. ASSUME NEW f \in Findings PROVE \E a \in approvals : a[1] = f
            <4>1. <<f, FirstDiff>> \in approvals
                BY <3>1
            <4> QED BY <4>1
        <3> QED BY <1>1, <3>1, <3>2 DEF Decided
    <2>2. CASE Start # "approved"
        <3>1. \A f \in Findings : latest[f].action = "none"
            BY <2>2 DEF Init, NoEvent
        <3> QED BY <3>1 DEF Resolving
    <2> QED BY <2>1, <2>2
<1> QED BY <1>1, <1>2, <1>3 DEF ApprovedApart, FromDashboard, ApprovedStand, HasRead, Apart

\* What a plan may commit is a chain that stands, and so a file to which it adds
\* only what was decided on.
LEMMA PlanWellMade ==
    ASSUME TypeOK, ApprovedStand, NEW i \in Invocations, Plan(i),
           inv'[i].pc = "push", NEW p \in inv'[i].plans, p.outcome = "commit"
    PROVE  WellMade(p)
<1> DEFINE seen   == inv[i].seen
           tree   == branch[inv[i].head].tree
           drawn  == {q \in PlanCommit(seen.fix, seen.gone, latest, stored, tree) : InScope(q, i)}
           plans  == {Filtered(q, i) : q \in drawn}
<1>1. /\ inv \in [Invocations -> RunOn(Len(branch))] /\ branch \in Seq(Commit)
      /\ stored \in [Findings -> Content \cup {NoContent}]
    BY DEF TypeOK, CommitterTypeOK, RecordsTypeOK
<1>2. inv[i] \in Run /\ inv[i].pc = "plan" /\ seen \in Seen /\ inv[i].head \in 1..Len(branch)
    BY <1>1 DEF Plan, At, RunOn
<1>3. seen.fix \in Fixes /\ tree \in Tree
    <2>1. branch[inv[i].head] \in Commit
        BY <1>1, <1>2
    <2> QED BY <1>2, <2>1 DEF Seen, Fixes, Commit
<1>4. Go(i, [inv[i] EXCEPT !.pc = "push", !.plans = plans, !.seen = <<>>, !.changed = {}])
    <2>1. ASSUME NEW sha, StartRecord(i, plans, sha) PROVE FALSE
        <3> HIDE DEF plans
        <3> QED BY <1>1, <1>2, <2>1 DEF StartRecord, Go, Run
    <2> QED BY <2>1 DEF Plan
<1>5. p \in plans
    <2> HIDE DEF plans
    <2> QED BY <1>1, <1>2, <1>4 DEF Go, Run
<1>6. PICK q \in drawn : p = Filtered(q, i)
    BY <1>5
<1>7. drawn \subseteq PlanOfFile
    BY <1>1, <1>3, PlanCommitType
<1>8. p = q
    <2> HIDE DEF drawn
    <2> QED BY <1>6, <1>7 DEF Filtered, Hold, PlanOfFile
<1> DEFINE ApprovedOn(file) == Approved(file, seen.fix, seen.gone, latest)
<1>9. PICK file \in Files : q = PlanFile(file, seen.fix, ApprovedOn(file), stored, tree[file])
    BY <1>6 DEF PlanCommit
<1> DEFINE approved == ApprovedOn(file)
           tip == ChainTip(approved, seen.fix)
<1>10. /\ approved \subseteq Findings
       /\ \A f \in approved : /\ FileOf[f] = file /\ seen.fix[f] # NoFix
                              /\ latest[f].action \in Resolving
    BY DEF Approved
<1> HIDE DEF ApprovedOn
<1>11. /\ tip # 0 /\ stored[tip] # NoContent /\ p.file = file
       /\ p.base = seen.fix[tip].base /\ p.content = stored[tip]
       /\ p.base = tree[file] /\ p.content # tree[file]
    BY <1>8, <1>9 DEF PlanFile, OnItsBase
<1>12. tip \in approved /\ ValidChain(tip, approved, seen.fix)
    BY <1>3, <1>10, <1>11, ChainTipChosen
<1> HIDE DEF tip, approved
<1>13. tip \in Findings /\ AsDrafted(tip, seen.fix[tip]) /\ seen.fix[tip] # NoFix
       /\ OfChain(tip, stored[tip])
    BY <1>2, <1>10, <1>12 DEF ApprovedStand, HasRead
<1>14. seen.fix[tip].base = First /\ seen.fix[tip].after = Drafted(tip, First).after
    BY <1>13 DEF AsDrafted
<1>15. ASSUME NEW g \in Lower(tip) PROVE g \in approved
    <2>1. PICK k \in 1..Cardinality(Lower(tip)) : g = Ranked(k, tip)
        BY <1>13, AllAreRanked
    <2>2. k \in DOMAIN seen.fix[tip].after /\ seen.fix[tip].after[k].finding = g
        BY <1>14, <2>1 DEF Drafted
    <2> QED BY <1>12, <2>2 DEF ValidChain
<1>16. ASSUME NEW g \in Lower(tip) \cup {tip} PROVE Decided(g)
    BY <1>10, <1>12, <1>15, <1>16 DEF ApprovedStand
<1>17. \E f \in Findings : p.file = FileOf[f]
    BY <1>10, <1>11, <1>12, <1>13
<1>18. p.base = First /\ p.content # First
    BY <1>11, <1>14
<1>19. p.content.own = 1 /\ \A c \in p.content.fixes : Decided(c[1])
    BY <1>11, <1>13, <1>16 DEF OfChain
<1> QED BY <1>17, <1>18, <1>19 DEF WellMade, First

\* The run keeps its plan until it pushes.
LEMMA PlansWellMadeStep ==
    ASSUME TypeOK, ApprovedStand, PlansWellMade, [Next]_vars
    PROVE  PlansWellMade'
<1>1. approvals \subseteq approvals'
    BY ApprovalsGrow
<1>2. ASSUME NEW w, WellMade(w) PROVE WellMade(w)'
    BY <1>1, <1>2 DEF WellMade, Decided
<1>3. SUFFICES ASSUME NEW i \in Invocations, inv'[i].pc = "push",
                      NEW p \in inv'[i].plans, p.outcome = "commit"
               PROVE  WellMade(p)'
    BY DEF PlansWellMade, WellMade, Decided
<1>4. CASE inv'[i] = inv[i]
    BY <1>2, <1>3, <1>4 DEF PlansWellMade
<1>5. CASE CommitterStep /\ inv'[i] # inv[i]
    <2>1. PICK j \in Invocations : (\E r \in Requests : Receive(j, r)) \/ Work(j) \/ Crash(j)
        BY <1>5 DEF CommitterStep, CommitterNext
    <2>2. j = i /\ ~(\E r \in Requests : Receive(i, r))
        BY <1>3, <1>5, <2>1, ReceiveFrame, WorkFrame
    <2>3. Plan(i)
        BY <1>3, <2>1, <2>2, WorkLeads
    <2> QED BY <1>2, <1>3, <2>3, PlanWellMade
<1> QED BY <1>4, <1>5, OthersLeaveRuns

LEMMA OursWellMadeStep ==
    ASSUME IInv, PlansWellMade, OursWellMade, [Next]_vars
    PROVE  OursWellMade'
<1>1. approvals \subseteq approvals'
    BY ApprovalsGrow
<1>2. ASSUME NEW w, WellMade(w) PROVE WellMade(w)'
    BY <1>1, <1>2 DEF WellMade, Decided
<1>3. SUFFICES ASSUME NEW k \in Ours', NEW w \in branch'[k].wrote PROVE WellMade(w)'
    BY DEF OursWellMade, WellMade, Decided
<1>4. CASE k \in Ours /\ branch'[k] = branch[k]
    BY <1>2, <1>4 DEF OursWellMade
<1>5. ASSUME NEW i \in Invocations, UpdateRef(i), branch'[k] = NewCommit(i)
      PROVE  WellMade(w)'
    <2>1. inv[i].pc = "push" /\ NewCommit(i).wrote = ToWrite(inv[i].plans)
        BY <1>5 DEF UpdateRef, At, NewCommit
    <2>2. PICK p \in inv[i].plans : /\ p.outcome = "commit" /\ w.file = p.file
                                   /\ w.base = p.base /\ w.content = p.content
        BY <1>3, <1>5, <2>1 DEF ToWrite
    <2>3. WellMade(p)
        BY <2>1, <2>2 DEF PlansWellMade
    <2> QED BY <1>2, <2>2, <2>3 DEF WellMade
<1> QED BY <1>4, <1>5, OursNext

\* What is approved as it was drafted and decided on, then planned, then landed.
DecidedInv == ApprovedStand /\ PlansWellMade /\ OursWellMade

LEMMA DecidedBegins == Init => LatestDecided /\ DecidedInv
<1> SUFFICES ASSUME Init PROVE LatestDecided /\ DecidedInv
    OBVIOUS
<1>1. ApprovedStand
    BY ApartBegins DEF ApprovedApart
<1>2. PlansWellMade
    BY DEF Init, CommitterInit, Blank, PlansWellMade
<1> QED BY <1>1, <1>2, NoneOfOurs DEF DecidedInv, OursWellMade, LatestDecided, ApprovedStand

LEMMA DecidedAlways == DraftingIsOver \/ DecidingIsOver => (Spec => []DecidedInv)
<1>1. IInv /\ DecidedInv /\ ApprovedStand' /\ [Next]_vars => DecidedInv'
    BY PlansWellMadeStep, OursWellMadeStep DEF IInv, DecidedInv
<1>2. CASE DraftingIsOver
    <2>1. IInv /\ (DraftsStand /\ LatestDecided) /\ [Next]_vars => (DraftsStand /\ LatestDecided)'
        BY <1>2, DraftsStandStep, LatestDecidedStep DEF IInv
    <2>2. Init => DraftsStand /\ LatestDecided
        BY DraftsStandBegin, DecidedBegins
    <2>3. Spec => []ApprovedStand
        BY <2>1, <2>2, DraftsAreApproved, InductiveInvariant, PTL DEF Spec
    <2>4. Init => DecidedInv
        BY DecidedBegins
    <2>5. Spec => []DecidedInv
        BY <1>1, <2>3, <2>4, InductiveInvariant, PTL DEF Spec
    <2> QED BY <2>5
<1>3. CASE DecidingIsOver
    <2>1. IInv /\ ApprovedApart /\ [Next]_vars => ApprovedApart'
        BY <1>3, ApartStep DEF IInv
    <2>2. ApprovedApart => ApprovedStand
        BY DEF ApprovedApart
    <2>3. Spec => []ApprovedStand
        BY <2>1, <2>2, ApartBegins, InductiveInvariant, PTL DEF Spec
    <2>4. Init => DecidedInv
        BY DecidedBegins
    <2>5. Spec => []DecidedInv
        BY <1>1, <2>3, <2>4, InductiveInvariant, PTL DEF Spec
    <2> QED BY <2>5
<1> QED BY <1>2, <1>3

\* Once drafting is over, or deciding, a commit of ours leaves what people wrote in
\* the files it changes, and every fix that had landed there: plan_commit takes a
\* chain's corrected file only over the base it was drafted on, however decisions,
\* edits, clicks, retries and pushes come between, or other fixes are drafted again.
THEOREM LandedEditsSurvive ==
    DraftingIsOver \/ DecidingIsOver => (Spec => []EditsSurvive)
<1> SUFFICES ASSUME DraftingIsOver \/ DecidingIsOver PROVE Spec => []EditsSurvive
    OBVIOUS
<1>1. DecidedInv /\ NothingReverted => EditsSurvive
    <2> SUFFICES ASSUME DecidedInv, NothingReverted, NEW k \in Ours, NEW p \in Files
                 PROVE  /\ branch[k].tree[p].own = branch[k - 1].tree[p].own
                        /\ branch[k - 1].tree[p].fixes \subseteq branch[k].tree[p].fixes
        BY DEF EditsSurvive
    <2>1. CASE branch[k].tree[p] = branch[k - 1].tree[p]
        BY <2>1
    <2>2. CASE \E w \in branch[k].wrote : w.file = p
        <3>1. PICK w \in branch[k].wrote : w.file = p
            BY <2>2
        <3>2. branch[k - 1].tree[p] = w.base /\ branch[k].tree[p] = w.content
            BY <3>1 DEF NothingReverted
        <3>3. WellMade(w)
            BY <3>1 DEF DecidedInv, OursWellMade
        <3> QED BY <3>2, <3>3 DEF WellMade
    <2> QED BY <2>1, <2>2 DEF NothingReverted
<1> QED BY <1>1, DecidedAlways, NothingIsReverted, PTL

\* Then, nothing lands that nobody decided on: of a chain, each link was approved
\* or edited by somebody, or confirmed by a click, before its change is on the
\* branch (approved_tip's walk over the latest events), also while what went stale
\* is reopened and drafted again.
THEOREM OnlyTheDecidedLands ==
    DraftingIsOver \/ DecidingIsOver => (Spec => []OnlyDecidedLands)
<1>1. DecidedInv => OnlyDecidedLands
    BY DEF DecidedInv, OursWellMade, WellMade, Decided, OnlyDecidedLands
<1> QED BY <1>1, DecidedAlways, PTL

----------------------------------------------------------------------------
(* How often a file is written *)

\* People go back to no earlier version; the findings are all in one file.
NobodyReverts == "revert" \notin PushKinds
OneFileAlone  == \A f, g \in Findings : FileOf[f] = FileOf[g]

\* A file that has left its first version behind does not come back to it, and
\* no commit of ours is empty.
FirstIsLeft == \A p \in Files, k \in DOMAIN branch :
    branch[k].tree[p] = First => \A j \in 1..k : branch[j].tree[p] = First
OursWrite   == \A k \in Ours : branch[k].wrote # {}

\* A file is written by one commit of ours at the most.
FilesLandOnce ==
    \A j, k \in Ours : \A w \in branch[j].wrote, v \in branch[k].wrote :
        w.file = v.file => j = k

\* A file that is stored, or about to be, has a change.
StoredChanges == \A f \in Findings : stored[f] # NoContent => stored[f].fixes # {}
Changing == /\ StoredChanges
            /\ \A v \in Reviewers : review[v].content # NoContent => review[v].content.fixes # {}

LEMMA ChangingStep ==
    ASSUME TypeOK, Changing, [Next]_vars
    PROVE  Changing'
<1>1. /\ stored \in [Findings -> Content \cup {NoContent}] /\ review \in [Reviewers -> DecisionAtStep]
      /\ \A v \in Reviewers : review[v] \in Decision
    BY DEF TypeOK, RecordsTypeOK, ReviewTypeOK, DecisionAtStep
<1>2. CASE UNCHANGED <<stored, review>>
    BY <1>2 DEF Changing, StoredChanges
<1>3. ASSUME NEW v \in Reviewers, NEW d, review' = [review EXCEPT ![v] = d], stored' = stored,
             d.content # NoContent => d.content.fixes # {}
      PROVE  Changing'
    BY <1>1, <1>3 DEF Changing, StoredChanges
<1>4. ASSUME NEW v \in Reviewers, NEW f \in Findings, NEW action \in Decisions, NEW diff \in Diffs,
             Decide(v, f, action, diff)
      PROVE  Changing'
    <2> DEFINE shown   == CASE action = "edited"   -> diff
                            [] action = "approved" -> fix[f].diff
                            [] OTHER               -> NoFix
               content == IF action = "edited" THEN Edited(stored[f], f, diff) ELSE NoContent
    <2>1. PICK d : d = [NoReview EXCEPT !.pc = "event", !.finding = f, !.action = action,
                            !.copy = fix[f], !.diff = shown, !.content = content]
        OBVIOUS
    <2>2. /\ review' = [review EXCEPT ![v] = d] /\ stored' = stored
          /\ action = "edited" => stored[f] # NoContent
        BY <1>4, <2>1 DEF Decide, recordVars
    <2>3. content # NoContent => content.fixes # {}
        BY <1>1, <2>2 DEF Edited, Content
    <2> HIDE DEF content, shown
    <2>4. d.content = content
        BY <2>1 DEF NoReview
    <2> QED BY <1>3, <2>2, <2>3, <2>4
<1>5. ASSUME NEW v \in Reviewers, Serve(v) \/ DecisionDies(v)
      PROVE  Changing'
    <2>1. PICK d : review' = [review EXCEPT ![v] = d]
                   /\ (d = NoReview \/ d.content = review[v].content)
        <3>1. CASE PutDecision(v)
            <4> DEFINE next == CASE review[v].action = "edited" -> "upload"
                                 [] review[v].action = "rejected" /\ review[v].copy = NoFix -> "cascade"
                                 [] OTHER -> "update"
            <4>1. PICK d : d = [review[v] EXCEPT !.now = clock + 1, !.pc = next]
                OBVIOUS
            <4>2. review' = [review EXCEPT ![v] = d]
                BY <1>1, <3>1, <4>1 DEF PutDecision
            <4> HIDE DEF next
            <4>3. d.content = review[v].content
                BY <1>1, <4>1 DEF Decision
            <4> QED BY <4>2, <4>3
        <3>2. CASE UploadEdit(v)
            <4>1. PICK d : d = [review[v] EXCEPT !.pc = "update"]
                OBVIOUS
            <4>2. review' = [review EXCEPT ![v] = d]
                BY <1>1, <3>2, <4>1 DEF UploadEdit
            <4>3. d.content = review[v].content
                BY <1>1, <4>1 DEF Decision
            <4> QED BY <4>2, <4>3
        <3>3. CASE UpdateFinding(v)
            <4>1. PICK d : d = [review[v] EXCEPT !.pc = "cascade"]
                OBVIOUS
            <4>2. review' = [review EXCEPT ![v] = IF review[v].action = "approved" THEN NoReview ELSE d]
                BY <1>1, <3>3, <4>1 DEF UpdateFinding
            <4>3. d.content = review[v].content
                BY <1>1, <4>1 DEF Decision
            <4> QED BY <4>2, <4>3
        <3>4. CASE ReadDependents(v)
            <4> DEFINE roots == {review[v].finding} \cup Dependents(review[v].finding)
                       freed == {g \in Findings \ {review[v].finding} : superseder[g] \in roots}
                       todo  == {[finding |-> g, freed |-> g \in freed] :
                                    g \in Dependents(review[v].finding) \cup freed}
            <4>1. PICK d : d = [review[v] EXCEPT !.pc = "reopen", !.reopen = todo]
                OBVIOUS
            <4>2. review' = [review EXCEPT ![v] = IF todo = {} THEN NoReview ELSE d]
                BY <1>1, <3>4, <4>1 DEF ReadDependents
            <4> HIDE DEF todo
            <4>3. d.content = review[v].content
                BY <1>1, <4>1 DEF Decision
            <4> QED BY <4>2, <4>3
        <3>5. CASE Reopen(v)
            <4> DEFINE todo == review[v].reopen
                       next == CHOOSE t \in todo : \A u \in todo : t.finding <= u.finding
            <4>1. PICK d : d = [review[v] EXCEPT !.reopen = todo \ {next}]
                OBVIOUS
            <4>2. review' = [review EXCEPT ![v] = IF todo = {next} THEN NoReview ELSE d]
                BY <1>1, <3>5, <4>1 DEF Reopen
            <4> HIDE DEF next
            <4>3. d.content = review[v].content
                BY <1>1, <4>1 DEF Decision
            <4> QED BY <4>2, <4>3
        <3>6. CASE DecisionDies(v)
            BY <3>6 DEF DecisionDies
        <3> QED BY <1>5, <3>1, <3>2, <3>3, <3>4, <3>5, <3>6 DEF Serve
    <2>2. d.content # NoContent => d.content.fixes # {}
        BY <2>1 DEF NoReview, Changing
    <2>3. CASE UploadEdit(v)
        <3>1. stored' = [stored EXCEPT ![review[v].finding] = review[v].content]
            BY <2>3 DEF UploadEdit
        <3> QED BY <1>1, <2>1, <2>2, <3>1 DEF Changing, StoredChanges
    <2>4. CASE ~UploadEdit(v)
        <3>1. stored' = stored
            BY <1>5, <2>4 DEF Serve, DecisionDies, PutDecision, UpdateFinding, ReadDependents, Reopen,
                recordVars
        <3> QED BY <1>3, <2>1, <2>2, <3>1
    <2> QED BY <2>3, <2>4
<1>6. ASSUME NEW w \in Drafters, review' = review, DraftStep(w) \/ \E file \in Files : Begin(w, file)
      PROVE  Changing'
    <2>1. ASSUME NEW diff \in Diffs, NEW held, NEW parses, Upload(w, diff, held, parses)
          PROVE  Changing'
        <3> DEFINE f == Current(w)
                   content == [draft[w].content EXCEPT !.fixes = @ \cup {<<f, diff>>}]
        <3>1. stored' = [stored EXCEPT ![f] = content] /\ draft[w].content \in Content
            BY <2>1 DEF Upload, MayDraft, Drafting, TypeOK, RemediationTypeOK, DraftAtStep
        <3>2. content.fixes # {}
            BY <3>1 DEF Content
        <3> HIDE DEF content, f
        <3> QED BY <1>1, <1>6, <3>1, <3>2 DEF Changing, StoredChanges
    <2>2. CASE ~\E diff \in Diffs, held, parses \in BOOLEAN : Upload(w, diff, held, parses)
        BY <1>2, <1>6, <2>2 DEF DraftStep, Begin, ReopenStale, Root, Supersede, NotDrafted, Suppression,
            DraftError, WriteResult, Yield, DraftsDone, DraftRunDies, recordVars
    <2> QED BY <2>1, <2>2
<1>7. CASE CommitterStep
    <2>1. stored' = stored /\ review' = review
        BY <1>7, CommitterUndisturbed DEF Undisturbed
    <2> QED BY <1>2, <2>1
<1>8. CASE ReviewStep
    <2>1. CASE \E r \in Requests : AskCommit(r) \/ HandOver(r) \/ Killed(r)
        BY <1>2, <2>1 DEF AskCommit, HandOver, RecordRequest, Invoke, InvokeFails, MarkNotHandedOver,
            Killed, recordVars
    <2> QED BY <1>4, <1>5, <1>8, <2>1 DEF ReviewStep, ReviewNext
<1>9. CASE PipelineStep
    <2>1. review' = review
        BY <1>9 DEF PipelineStep, reviewVars
    <2>2. RemediationNext \/ stored' = stored
        BY <1>9 DEF PipelineStep, PipelineNext, Fetch, Report, Scan, RecordOffer, Click
    <2> QED BY <1>2, <1>6, <2>1, <2>2 DEF RemediationNext
<1>10. CASE PeopleNext \/ UNCHANGED vars
    BY <1>2, <1>10 DEF PeopleNext, Edit, ApplySuggestions, Revert, Push, ClosePullRequest, vars,
        recordVars, reviewVars
<1> QED BY <1>7, <1>8, <1>9, <1>10 DEF Next

LEMMA ChangingAlways == Spec => []Changing
<1>1. Init => Changing
    <2> SUFFICES ASSUME Init PROVE Changing
        OBVIOUS
    <2>1. \A v \in Reviewers : review[v].content = NoContent
        BY DEF Init, ReviewInit, NoReview
    <2>2. ASSUME NEW f \in Findings, stored[f] # NoContent PROVE stored[f].fixes # {}
        <3>1. stored[f] = [First EXCEPT !.fixes = {<<g, FirstDiff>> : g \in Lower(f) \cup {f}}]
            BY <2>2 DEF Init, First
        <3>2. stored[f].fixes = {<<g, FirstDiff>> : g \in Lower(f) \cup {f}}
            BY <3>1 DEF First
        <3>3. <<f, FirstDiff>> \in stored[f].fixes
            BY <3>2
        <3> QED BY <3>3
    <2> QED BY <2>1, <2>2 DEF Changing, StoredChanges
<1> QED BY <1>1, ChangingStep, TypeCorrect, PTL DEF Spec

\* What people push leaves a file that is not at its first version elsewhere: an
\* edit is a version of its own, and a suggestion has a change.
LEMMA PushLeavesFirst ==
    ASSUME TypeOK, StoredChanges, NobodyReverts, PeopleNext, NEW p \in Files, NEW tree,
           branch' = Append(branch, [tree |-> tree, by |-> NoRequest, wrote |-> {}]),
           tree[p] = First
    PROVE  HeadTree[p] = First
<1>1. branch \in Seq(Commit) /\ Len(branch) \in Nat /\ branch # <<>>
    BY DEF TypeOK, RecordsTypeOK
<1>2. Len(branch) + 1 # 1 /\ Len(branch) \in DOMAIN branch
    BY <1>1
<1>3. HeadTree \in Tree /\ HeadTree[p] \in Content
    <2>1. branch[Len(branch)] \in Commit
        BY <1>1, <1>2
    <2> QED BY <2>1 DEF HeadTree, Commit, Tree
<1>4. ASSUME NEW pushed, Push(pushed) PROVE pushed[p] = First
    <2> DEFINE c == [tree |-> tree, by |-> NoRequest, wrote |-> {}]
               d == [tree |-> pushed, by |-> NoRequest, wrote |-> {}]
    <2>1. Append(branch, c) = Append(branch, d)
        BY <1>4 DEF Push
    <2>2. c.tree = tree /\ d.tree = pushed
        OBVIOUS
    <2> HIDE DEF c, d
    <2>3. Append(branch, c)[Len(branch) + 1] = c /\ Append(branch, d)[Len(branch) + 1] = d
        BY <1>1
    <2> QED BY <2>1, <2>2, <2>3
<1>5. ASSUME NEW files, Edit(files) PROVE HeadTree[p] = First
    <2> DEFINE pushed == [q \in Files |-> IF q \in files THEN [HeadTree[q] EXCEPT !.own = Len(branch) + 1]
                                          ELSE HeadTree[q]]
    <2>1. pushed[p] = First
        BY <1>4, <1>5 DEF Edit
    <2>2. p \notin files
        <3> SUFFICES ASSUME p \in files PROVE FALSE
            OBVIOUS
        <3>1. pushed[p] = [HeadTree[p] EXCEPT !.own = Len(branch) + 1]
            OBVIOUS
        <3> HIDE DEF pushed
        <3>2. pushed[p].own = Len(branch) + 1
            BY <1>3, <3>1 DEF Content
        <3> QED BY <1>2, <2>1, <3>2 DEF First
    <2> QED BY <2>1, <2>2
<1>6. ASSUME NEW f \in Findings, ApplySuggestions(f) PROVE HeadTree[p] = First
    <2>1. stored[f] # NoContent /\ Push([HeadTree EXCEPT ![FileOf[f]] = stored[f]])
        BY <1>6 DEF ApplySuggestions
    <2>2. stored[f] # First
        BY <2>1 DEF StoredChanges, First
    <2>3. [HeadTree EXCEPT ![FileOf[f]] = stored[f]][p] = First
        BY <1>4, <2>1
    <2> QED BY <1>3, <2>2, <2>3 DEF Tree
<1>7. ~ClosePullRequest
    <2>1. branch' # branch
        BY <1>1
    <2> QED BY <2>1 DEF ClosePullRequest, recordVars
<1>8. ASSUME NEW k, Revert(k) PROVE FALSE
    BY <1>8 DEF Revert, NobodyReverts
<1> QED BY <1>5, <1>6, <1>7, <1>8 DEF PeopleNext

LEMMA FirstIsLeftStep ==
    ASSUME IInv, StoredChanges, DecidedInv', NobodyReverts, FirstIsLeft, OursWrite, [Next]_vars
    PROVE  FirstIsLeft' /\ OursWrite'
<1>1. /\ branch \in Seq(Commit) /\ Len(branch) \in Nat /\ branch # <<>>
      /\ TypeOK
    BY DEF IInv, TypeOK, RecordsTypeOK
<1>2. OursWrite'
    BY OursNext, PushedCommit DEF OursWrite
<1>3. CASE branch' = branch
    BY <1>2, <1>3 DEF FirstIsLeft
<1>4. ASSUME NEW c, branch' = Append(branch, c),
             \A p \in Files : c.tree[p] = First => branch[Len(branch)].tree[p] = First
      PROVE  FirstIsLeft'
    <2> SUFFICES ASSUME NEW p \in Files, NEW k \in DOMAIN branch',
                        branch'[k].tree[p] = First, NEW j \in 1..k
                 PROVE  branch'[j].tree[p] = First
        BY DEF FirstIsLeft
    <2>1. /\ \A m \in DOMAIN branch : branch'[m] = branch[m]
          /\ DOMAIN branch = 1..Len(branch) /\ DOMAIN branch' = 1..(Len(branch) + 1)
          /\ branch'[Len(branch) + 1] = c
        BY <1>1, <1>4
    <2>2. CASE k \in DOMAIN branch
        BY <1>1, <2>1, <2>2 DEF FirstIsLeft
    <2>3. CASE k = Len(branch) + 1
        <3>1. Len(branch) \in DOMAIN branch /\ branch[Len(branch)].tree[p] = First
            BY <1>1, <1>4, <2>1, <2>3
        <3>2. \A m \in 1..Len(branch) : branch[m].tree[p] = First
            BY <3>1 DEF FirstIsLeft
        <3> QED BY <1>1, <2>1, <2>3, <3>2
    <2> QED BY <1>1, <2>1, <2>2, <2>3
<1>5. ASSUME NEW i \in Invocations, UpdateRef(i) PROVE FirstIsLeft'
    <2>1. PICK c : c = NewCommit(i)
        OBVIOUS
    <2>2. /\ branch' = Append(branch, c) /\ c.by \in Requests
          /\ \A w \in c.wrote : c.tree[w.file] = w.content
          /\ \A p \in Files : \/ c.tree[p] = branch[Len(branch)].tree[p]
                               \/ \E w \in c.wrote : w.file = p
        BY <1>5, <2>1, PushedCommit
    <2>3. branch'[Len(branch) + 1] = c /\ Len(branch) + 1 \in DOMAIN branch'
        BY <1>1, <2>2
    <2>4. Len(branch) + 1 \in Ours'
        BY <2>2, <2>3, RequestsAssumption DEF Ours
    <2>5. \A w \in c.wrote : WellMade(w)'
        BY <2>3, <2>4 DEF DecidedInv, OursWellMade
    <2>6. \A w \in c.wrote : w.content # First
        BY <2>5 DEF WellMade
    <2> QED BY <1>4, <2>2, <2>6
<1>6. CASE branch' # branch /\ PeopleNext
    <2>1. PICK tree : branch' = Append(branch, [tree |-> tree, by |-> NoRequest, wrote |-> {}])
        BY <1>6 DEF PeopleNext, Edit, ApplySuggestions, Revert, Push, ClosePullRequest, recordVars
    <2>2. \A p \in Files : tree[p] = First => branch[Len(branch)].tree[p] = First
        BY <1>1, <1>6, <2>1, PushLeavesFirst DEF HeadTree
    <2> QED BY <1>2, <1>4, <2>1, <2>2
<1>7. branch' = branch \/ (\E i \in Invocations : UpdateRef(i)) \/ PeopleNext
    <2>1. CASE CommitterStep
        <3>1. PICK i \in Invocations : (\E r \in Requests : Receive(i, r)) \/ Work(i) \/ Crash(i)
            BY <2>1 DEF CommitterStep, CommitterNext
        <3> QED BY <1>1, <3>1, ReceiveFrame, WorkFrame
    <2>2. CASE ReviewStep \/ PipelineStep
        BY <1>1, <2>2, ReviewFrame, PipelineFrame DEF ReviewStep, PipelineStep
    <2>3. CASE UNCHANGED vars
        BY <2>3 DEF vars, recordVars
    <2> QED BY <2>1, <2>2, <2>3 DEF Next
<1>8. CASE \E i \in Invocations : UpdateRef(i)
    BY <1>2, <1>5, <1>8
<1>9. CASE PeopleNext
    BY <1>3, <1>6, <1>9
<1> QED BY <1>3, <1>7, <1>8, <1>9

\* What a run writes is over the first version, and not that version: a file that
\* was written is past it.
LEMMA WrittenOnce == DecidedInv /\ NothingReverted /\ FirstIsLeft /\ TypeOK => FilesLandOnce
<1> SUFFICES ASSUME DecidedInv, NothingReverted, FirstIsLeft, TypeOK PROVE FilesLandOnce
    OBVIOUS
<1>1. ASSUME NEW j \in Ours, NEW k \in Ours, NEW w \in branch[j].wrote,
             NEW v \in branch[k].wrote, w.file = v.file, j < k
      PROVE  FALSE
    <2>1. /\ w.content # First /\ v.base = First /\ w.file \in Files
        BY FilesAssumption DEF DecidedInv, OursWellMade, WellMade
    <2>2. /\ k - 1 \in DOMAIN branch /\ branch[k - 1].tree[v.file] = v.base
          /\ branch[j].tree[w.file] = w.content
        BY DEF NothingReverted
    <2>3. j \in 1..(k - 1)
        BY <1>1 DEF Ours, TypeOK, RecordsTypeOK
    <2> QED BY <1>1, <2>1, <2>2, <2>3 DEF FirstIsLeft
<1>2. \A m \in Ours : m \in Nat
    BY DEF Ours, TypeOK, RecordsTypeOK
<1> QED BY <1>1, <1>2 DEF FilesLandOnce

LEMMA FirstIsLeftAlways ==
    ASSUME DraftingIsOver \/ DecidingIsOver, NobodyReverts
    PROVE  Spec => [](FirstIsLeft /\ OursWrite)
<1>1. Init => FirstIsLeft /\ OursWrite
    <2> SUFFICES ASSUME Init PROVE FirstIsLeft
        BY NoneOfOurs DEF OursWrite
    <2>1. DOMAIN branch = 1..1
        BY DEF Init
    <2> QED BY <2>1 DEF FirstIsLeft
<1>2. IInv /\ Changing /\ DecidedInv' /\ (FirstIsLeft /\ OursWrite) /\ [Next]_vars
        => (FirstIsLeft /\ OursWrite)'
    BY FirstIsLeftStep DEF Changing
<1>3. Spec => []DecidedInv
    BY DecidedAlways
<1> QED BY <1>1, <1>2, <1>3, ChangingAlways, InductiveInvariant, PTL DEF Spec

\* Once drafting is over, or deciding, and unless somebody takes the branch back to
\* an earlier version, no file is written twice: by one request or by two, by a twin, a
\* retry, or a click beside a request of the dashboard.  plan_commit takes a chain
\* only over the version it was drafted on, and holds one whose file is already
\* what it would write.
THEOREM FilesAreWrittenOnce ==
    (DraftingIsOver \/ DecidingIsOver) /\ NobodyReverts => (Spec => []FilesLandOnce)
<1> SUFFICES ASSUME DraftingIsOver \/ DecidingIsOver, NobodyReverts PROVE Spec => []FilesLandOnce
    OBVIOUS
<1>1. Spec => [](FirstIsLeft /\ OursWrite)
    BY FirstIsLeftAlways
<1>2. Spec => []DecidedInv
    BY DecidedAlways
<1>3. IInv => TypeOK
    BY DEF IInv
<1> QED BY <1>1, <1>2, <1>3, WrittenOnce, NothingIsReverted, InductiveInvariant, PTL

\* A request that confirmed one file alone makes one commit at the most.
OneFileCommitsOnce ==
    \A j, k \in Ours :
        LET confirmed == request[branch[j].by].confirmed
        IN (branch[j].by = branch[k].by /\ \A c, d \in confirmed : c.file = d.file) => j = k

\* So a request for one file makes no second commit, however often its event is
\* delivered, fails and is run again: where the trailer at the head does not tell
\* a retry that it has landed, because somebody pushed since, the base that has
\* moved on does.
THEOREM RequestsOfOneFile ==
    (DraftingIsOver \/ DecidingIsOver) /\ NobodyReverts => (Spec => []OneFileCommitsOnce)
<1> SUFFICES ASSUME DraftingIsOver \/ DecidingIsOver, NobodyReverts PROVE Spec => []OneFileCommitsOnce
    OBVIOUS
<1>1. FilesLandOnce /\ OursWrite /\ CommitsAreConfirmed => OneFileCommitsOnce
    <2> SUFFICES ASSUME FilesLandOnce, OursWrite, CommitsAreConfirmed,
                        NEW j \in Ours, NEW k \in Ours, branch[j].by = branch[k].by,
                        \A c, d \in request[branch[j].by].confirmed : c.file = d.file
                 PROVE  j = k
        BY DEF OneFileCommitsOnce
    <2>1. PICK w \in branch[j].wrote : TRUE
        BY DEF OursWrite
    <2>2. PICK v \in branch[k].wrote : TRUE
        BY DEF OursWrite
    <2>3. w.file = v.file
        BY <2>1, <2>2 DEF CommitsAreConfirmed
    <2> QED BY <2>3 DEF FilesLandOnce
<1>2. Spec => [](FirstIsLeft /\ OursWrite)
    BY FirstIsLeftAlways
<1>3. Spec => []FilesLandOnce
    BY FilesAreWrittenOnce
<1> QED BY <1>1, <1>2, <1>3, OnlyTheConfirmed, PTL

\* Where the findings are all in one file, that is every request.
THEOREM CommitsOnce ==
    (DraftingIsOver \/ DecidingIsOver) /\ NobodyReverts /\ OneFileAlone
        => (Spec => []OneCommitPerRequest)
<1> SUFFICES ASSUME DraftingIsOver \/ DecidingIsOver, NobodyReverts, OneFileAlone
             PROVE  Spec => []OneCommitPerRequest
    OBVIOUS
<1>1. DecidedInv /\ FilesLandOnce /\ OursWrite => OneCommitPerRequest
    <2> SUFFICES ASSUME DecidedInv, FilesLandOnce, OursWrite, NEW j \in Ours, NEW k \in Ours
                 PROVE  j = k
        BY DEF OneCommitPerRequest
    <2>1. PICK w \in branch[j].wrote : TRUE
        BY DEF OursWrite
    <2>2. PICK v \in branch[k].wrote : TRUE
        BY DEF OursWrite
    <2>3. w.file = v.file
        BY <2>1, <2>2 DEF DecidedInv, OursWellMade, WellMade, OneFileAlone
    <2> QED BY <2>3 DEF FilesLandOnce
<1>2. Spec => [](FirstIsLeft /\ OursWrite)
    BY FirstIsLeftAlways
<1>3. Spec => []FilesLandOnce
    BY FilesAreWrittenOnce
<1> QED BY <1>1, <1>2, <1>3, DecidedAlways, PTL

----------------------------------------------------------------------------
(* What the marks say once drafting is over and nothing is edited *)

\* The fix has its first diff; its file has its whole chain's.
Unedited(x) == x # NoFix => x.diff = FirstDiff
Whole(f, c) == c # NoContent => \A g \in Lower(f) \cup {f} : <<g, FirstDiff>> \in c.fixes
FixesStand == /\ \A f \in Findings : Unedited(fix[f]) /\ Whole(f, stored[f])
              /\ \A v \in Reviewers : review[v].action # "edited" /\ review[v].pc # "upload"

\* The finding's change is in the commit.
LandedAt(f, k) == k \in DOMAIN branch /\ <<f, FirstDiff>> \in branch[k].tree[FileOf[f]].fixes

\* A chain that is planned is of the file, and the planned content has it; what
\* is found at the head is there.  A link to record is in the commit it names.
ChainIn(p) == \A k \in DOMAIN p.chain :
    FileOf[p.chain[k]] = p.file /\ <<p.chain[k], FirstDiff>> \in p.content.fixes
Recording(i) ==
    /\ inv[i].pc = "push" => \A p \in inv[i].plans :
            /\ p.outcome \in {"commit", "already"} => ChainIn(p)
            /\ p.outcome = "already" => branch[inv[i].head].tree[p.file] = p.content
            /\ p.outcome # "committed"
    /\ inv[i].pc \in {"mark", "event"} => \A l \in inv[i].links : LandedAt(l.finding, l.sha)
MarksStand ==
    /\ \A i \in Invocations : Recording(i)
    /\ \A f \in Findings : (fix[f] # NoFix /\ fix[f].committed # 0) =>
            LandedAt(f, fix[f].committed)

\* The version a plan speaks of is in the commit.
There(p, k) == k \in DOMAIN branch /\ branch[k].tree[p.file] = p.content

\* Without edits a fix keeps its first diff, and its file its whole chain.
NothingIsEdited == "edited" \notin Decisions

LEMMA FixesStandBegin == Init => FixesStand
<1> SUFFICES ASSUME Init PROVE FixesStand
    OBVIOUS
<1>1. \A v \in Reviewers : review[v].action = "none" /\ review[v].pc = "idle"
    BY DEF Init, ReviewInit, NoReview
<1>2. ASSUME NEW f \in Findings PROVE Unedited(fix[f]) /\ Whole(f, stored[f])
    <2>1. fix[f] = NoFix \/ fix[f] = Drafted(f, First)
        BY DEF Init, First
    <2>2. Drafted(f, First).diff = FirstDiff
        BY DEF Drafted
    <2>3. Unedited(fix[f])
        BY <2>1, <2>2 DEF Unedited
    <2>4. \/ stored[f] = NoContent
          \/ stored[f] = [First EXCEPT !.fixes = {<<g, FirstDiff>> : g \in Lower(f) \cup {f}}]
        BY DEF Init, First
    <2>5. CASE stored[f] = [First EXCEPT !.fixes = {<<g, FirstDiff>> : g \in Lower(f) \cup {f}}]
        <3>1. stored[f].fixes = {<<g, FirstDiff>> : g \in Lower(f) \cup {f}}
            BY <2>5 DEF First
        <3> QED BY <2>3, <3>1 DEF Whole
    <2> QED BY <2>3, <2>4, <2>5 DEF Whole
<1> QED BY <1>1, <1>2 DEF FixesStand

LEMMA FixesStandStep ==
    ASSUME TypeOK, DraftingIsOver, NothingIsEdited, DraftsStand, FixesStand, [Next]_vars
    PROVE  FixesStand'
<1>1. /\ review \in [Reviewers -> DecisionAtStep] /\ \A v \in Reviewers : review[v] \in Decision
      /\ fix \in [Findings -> Fix \cup {NoFix}]
    BY DEF TypeOK, ReviewTypeOK, RecordsTypeOK, DecisionAtStep
<1>2. CASE CommitterStep
    <2>1. Undisturbed /\ review' = review
        BY <1>2, CommitterUndisturbed
    <2>2. ASSUME NEW f \in Findings PROVE Unedited(fix'[f]) /\ Whole(f, stored'[f])
        <3>1. SameFix(fix[f], fix'[f]) /\ stored' = stored
            BY <2>1 DEF Undisturbed
        <3> QED BY <3>1 DEF SameFix, SameDraft, FixesStand, Unedited
    <2> QED BY <2>1, <2>2 DEF FixesStand
<1>3. ASSUME NEW v \in Reviewers,
             \/ \E f \in Findings, action \in Decisions, diff \in Diffs : Decide(v, f, action, diff)
             \/ Serve(v) \/ DecisionDies(v)
      PROVE  FixesStand'
    <2>1. ASSUME fix' = fix, stored' = stored, NEW d, review' = [review EXCEPT ![v] = d],
                 d.action # "edited", d.pc # "upload"
          PROVE  FixesStand'
        BY <1>1, <2>1 DEF FixesStand
    <2>2. review[v].action # "edited" /\ review[v].pc # "upload"
        BY DEF FixesStand
    <2>3. NoReview.action # "edited" /\ NoReview.pc # "upload"
        BY DEF NoReview
    <2>4. ASSUME NEW f \in Findings, NEW action \in Decisions, NEW diff \in Diffs,
                 Decide(v, f, action, diff)
          PROVE  FixesStand'
        <3>1. PICK copy, shown, content :
                review' = [review EXCEPT ![v] = [NoReview EXCEPT !.pc = "event", !.finding = f,
                    !.action = action, !.copy = copy, !.diff = shown, !.content = content]]
            BY <2>4 DEF Decide
        <3> DEFINE d == [NoReview EXCEPT !.pc = "event", !.finding = f,
                    !.action = action, !.copy = copy, !.diff = shown, !.content = content]
        <3>2. d.action = action /\ d.pc = "event" /\ action # "edited"
            BY DEF NoReview, NothingIsEdited
        <3> HIDE DEF d
        <3> QED BY <2>1, <2>4, <3>1, <3>2 DEF d, Decide, recordVars, findingVars
    <2>5. CASE PutDecision(v)
        <3> DEFINE next == CASE review[v].action = "edited" -> "upload"
                             [] review[v].action = "rejected" /\ review[v].copy = NoFix -> "cascade"
                             [] OTHER -> "update"
                   d == [review[v] EXCEPT !.now = clock + 1, !.pc = next]
        <3>1. review' = [review EXCEPT ![v] = d] /\ fix' = fix /\ stored' = stored
            BY <1>1, <2>5 DEF PutDecision, findingVars
        <3>2. next # "upload"
            BY <2>2
        <3> HIDE DEF next
        <3>3. d.action = review[v].action /\ d.pc = next
            BY <1>1 DEF Decision
        <3> HIDE DEF d
        <3> QED BY <2>1, <2>2, <3>1, <3>2, <3>3
    <2>6. CASE UploadEdit(v)
        BY <2>2, <2>6 DEF UploadEdit
    <2>7. CASE UpdateFinding(v)
        <3> DEFINE d == IF review[v].action = "approved" THEN NoReview
                        ELSE [review[v] EXCEPT !.pc = "cascade"]
        <3>1. review' = [review EXCEPT ![v] = d] /\ fix' = fix /\ stored' = stored
            BY <1>1, <2>2, <2>7 DEF UpdateFinding
        <3>2. d.action # "edited" /\ d.pc # "upload"
            BY <1>1, <2>2, <2>3 DEF Decision
        <3> HIDE DEF d
        <3> QED BY <2>1, <3>1, <3>2
    <2>8. CASE ReadDependents(v) \/ Reopen(v) \/ DecisionDies(v)
        <3>1. fix' = fix /\ stored' = stored
            BY <2>8 DEF ReadDependents, Reopen, DecisionDies, recordVars, findingVars
        <3>2. CASE ReadDependents(v)
            <4>1. PICK todo : review' = [review EXCEPT ![v] =
                    IF todo = {} THEN NoReview ELSE [@ EXCEPT !.pc = "reopen", !.reopen = todo]]
                BY <3>2 DEF ReadDependents
            <4> DEFINE d == IF todo = {} THEN NoReview
                            ELSE [review[v] EXCEPT !.pc = "reopen", !.reopen = todo]
            <4>2. d.action # "edited" /\ d.pc # "upload"
                BY <1>1, <2>2, <2>3 DEF Decision
            <4>3. review' = [review EXCEPT ![v] = d]
                BY <1>1, <4>1
            <4> HIDE DEF d
            <4> QED BY <2>1, <3>1, <4>2, <4>3
        <3>3. CASE Reopen(v)
            <4> DEFINE todo == review[v].reopen
                       next == CHOOSE t \in todo : \A u \in todo : t.finding <= u.finding
                       d == IF todo = {next} THEN NoReview
                            ELSE [review[v] EXCEPT !.reopen = todo \ {next}]
            <4>1. review' = [review EXCEPT ![v] = d]
                BY <3>3 DEF Reopen
            <4> HIDE DEF next
            <4>2. d.action # "edited" /\ d.pc # "upload"
                BY <1>1, <2>2, <2>3 DEF Decision
            <4> HIDE DEF d
            <4> QED BY <2>1, <3>1, <4>1, <4>2
        <3>4. CASE DecisionDies(v)
            <4>1. review' = [review EXCEPT ![v] = NoReview]
                BY <3>4 DEF DecisionDies
            <4> QED BY <2>1, <2>3, <3>1, <4>1
        <3> QED BY <2>8, <3>2, <3>3, <3>4
    <2> QED BY <1>3, <2>4, <2>5, <2>6, <2>7, <2>8 DEF Serve
<1>4. CASE UNCHANGED <<fix, status, stored, superseder, latest, approvals, review, draft, inv>>
    BY <1>4 DEF FixesStand, Unedited, Whole
<1> QED BY <1>2, <1>3, <1>4, OverFrame DEF DraftsStand

LEMMA LandedStays ==
    ASSUME TypeOK, [Next]_vars
    PROVE  \A f, k : LandedAt(f, k) => LandedAt(f, k)'
BY BranchGrows DEF LandedAt

\* The links to record of a plan are in the commit they name.
LEMMA LinksLanded ==
    ASSUME NEW plans, NEW sha, NEW head, NEW l \in LinksOf(plans, sha, head),
           \A p \in plans : p.outcome \in {"committed", "already"} =>
                /\ ChainIn(p)
                /\ LandedIn(p, sha, head) \in DOMAIN branch'
                /\ branch'[LandedIn(p, sha, head)].tree[p.file] = p.content
    PROVE  LandedAt(l.finding, l.sha)'
<1>1. PICK p \in plans :
        /\ p.outcome \in {"committed", "already"}
        /\ \E k \in DOMAIN p.chain : l.finding = p.chain[k] /\ l.sha = LandedIn(p, sha, head)
    BY DEF LinksOf
<1> QED BY <1>1 DEF ChainIn, LandedAt

\* The chain of a plan is the tip's and what is below it in the file; the tip's
\* corrected file has all their changes.
LEMMA PlannedChain ==
    ASSUME TypeOK, NEW seen \in Fixes, NEW ended, NEW tree \in Tree,
           \A f \in Findings : AsDrafted(f, seen[f]) /\ Whole(f, stored[f]),
           NEW p \in PlanCommit(seen, ended, latest, stored, tree),
           p.outcome \in {"commit", "already"}
    PROVE  ChainIn(p)
<1> DEFINE ApprovedOn(file) == Approved(file, seen, ended, latest)
<1>1. PICK file \in Files : p = PlanFile(file, seen, ApprovedOn(file), stored, tree[file])
    BY DEF PlanCommit
<1> DEFINE approved == ApprovedOn(file)
           tip == ChainTip(approved, seen)
<1>2. /\ approved \subseteq Findings
      /\ \A f \in approved : seen[f] # NoFix /\ FileOf[f] = file
    BY DEF Approved
<1> HIDE DEF ApprovedOn
<1>3. /\ tip # 0 /\ stored[tip] # NoContent
      /\ p.file = file /\ p.content = stored[tip] /\ p.chain = ChainOf(tip, seen)
    BY <1>1 DEF PlanFile
<1>4. tip \in approved
    BY <1>2, <1>3, ChainTipChosen
<1> HIDE DEF tip, approved
<1>5. /\ tip \in Findings /\ FileOf[tip] = file /\ seen[tip] \in Fix
      /\ seen[tip].after = Drafted(tip, First).after
      /\ \A g \in Lower(tip) \cup {tip} : <<g, FirstDiff>> \in p.content.fixes
    BY <1>2, <1>3, <1>4 DEF AsDrafted, Whole, Fixes
<1> DEFINE below == [k \in DOMAIN seen[tip].after |-> seen[tip].after[k].finding]
<1>6. \A k \in DOMAIN below : below[k] \in Lower(tip)
    <2> SUFFICES ASSUME NEW k \in DOMAIN below PROVE below[k] \in Lower(tip)
        OBVIOUS
    <2>1. k \in 1..Cardinality(Lower(tip)) /\ below[k] = Ranked(k, tip)
        BY <1>5 DEF Drafted
    <2> QED BY <1>5, <2>1, AllAreRanked
<1>7. below \in Seq(Findings) /\ p.chain = Append(below, tip)
    <2>1. seen[tip].after \in Seq(Links)
        BY <1>5 DEF Fix
    <2>2. \A k \in DOMAIN seen[tip].after : seen[tip].after[k].finding \in Findings
        BY <1>6 DEF Lower, OnFile
    <2>3. below \in Seq(Findings)
        BY <2>1, <2>2
    <2> QED BY <1>3, <2>3 DEF ChainOf
<1> HIDE DEF below
<1>8. ASSUME NEW k \in DOMAIN p.chain PROVE p.chain[k] \in Lower(tip) \cup {tip}
    BY <1>5, <1>6, <1>7
<1>9. \A g \in Lower(tip) : FileOf[g] = file
    BY <1>5 DEF Lower, OnFile
<1> QED BY <1>3, <1>5, <1>8, <1>9 DEF ChainIn

\* A plan that is recorded at once, or kept for the push.
LEMMA PlanRecords ==
    ASSUME IInv, DraftsStand, FixesStand, NEW i \in Invocations, Plan(i)
    PROVE  Recording(i)'
<1> DEFINE seen   == inv[i].seen
           head   == inv[i].head
           tree   == branch[head].tree
           drawn  == {q \in PlanCommit(seen.fix, seen.gone, latest, stored, tree) : InScope(q, i)}
           plans  == {Filtered(q, i) : q \in drawn}
<1>1. /\ inv \in [Invocations -> RunOn(Len(branch))] /\ branch \in Seq(Commit)
      /\ stored \in [Findings -> Content \cup {NoContent}]
    BY DEF IInv, TypeOK, CommitterTypeOK, RecordsTypeOK
<1>2. inv[i] \in Run /\ inv[i].pc = "plan" /\ seen \in Seen /\ head \in 1..Len(branch)
    BY <1>1 DEF Plan, At, RunOn
<1>3. seen.fix \in Fixes /\ tree \in Tree /\ head \in DOMAIN branch
    <2>1. branch[head] \in Commit
        BY <1>1, <1>2
    <2> QED BY <1>1, <1>2, <2>1 DEF Seen, Fixes, Commit
<1>4. branch' = branch
    BY DEF Plan
<1>5. ASSUME NEW q \in drawn
      PROVE  /\ Filtered(q, i).outcome \in {"commit", "already", "committed"} => ChainIn(Filtered(q, i))
             /\ Filtered(q, i).outcome \in {"already", "committed"} => There(Filtered(q, i), head)
             /\ Filtered(q, i).outcome = "committed" => inv[i].onHead
    <2>1. /\ q \in PlanOfFile /\ q.base = tree[q.file] /\ q.outcome # "committed"
          /\ (q.outcome = "already" => q.content = q.base)
        BY <1>1, <1>3, PlanCommitType, AlreadyThere
    <2>2. q.outcome \in {"commit", "already"} => ChainIn(q)
        <3>1. \A f \in Findings : AsDrafted(f, seen.fix[f]) /\ Whole(f, stored[f])
            BY <1>2 DEF DraftsStand, FixesStand
        <3> QED BY <1>3, <3>1, PlannedChain DEF IInv
    <2>3. CASE Filtered(q, i) = q
        BY <1>3, <2>1, <2>2, <2>3 DEF There
    <2>4. CASE Filtered(q, i) = Hold(q)
        <3>1. Filtered(q, i).outcome = "held"
            BY <2>1, <2>4 DEF Hold, PlanOfFile
        <3> QED BY <3>1
    <2>5. CASE /\ q.outcome = "already" /\ inv[i].onHead
               /\ Filtered(q, i) = [q EXCEPT !.outcome = "committed"]
        <3>1. /\ Filtered(q, i).file = q.file /\ Filtered(q, i).content = q.content
              /\ Filtered(q, i).chain = q.chain
            BY <2>1, <2>5 DEF PlanOfFile
        <3> QED BY <1>3, <2>1, <2>2, <2>5, <3>1 DEF There, ChainIn
    <2> QED BY <2>3, <2>4, <2>5 DEF Filtered
<1>6. \A p \in plans : /\ p.outcome \in {"commit", "already", "committed"} => ChainIn(p)
                       /\ p.outcome \in {"already", "committed"} => There(p, head)
                       /\ p.outcome = "committed" => inv[i].onHead
    BY <1>5
<1> HIDE DEF drawn
<1>7. CASE ~inv[i].onHead /\ \E p \in plans : p.outcome = "commit"
    <2>1. Go(i, [inv[i] EXCEPT !.pc = "push", !.plans = plans, !.seen = <<>>, !.changed = {}])
        BY <1>7 DEF Plan, drawn
    <2> HIDE DEF plans
    <2>2. inv'[i].pc = "push" /\ inv'[i].plans = plans /\ inv'[i].head = head
        BY <1>1, <1>2, <2>1 DEF Go, Run
    <2> QED BY <1>4, <1>6, <1>7, <2>2 DEF Recording, There, ChainIn
<1>8. CASE ~(~inv[i].onHead /\ \E p \in plans : p.outcome = "commit")
    <2> DEFINE sha == IF inv[i].onHead THEN head ELSE 0
               links == LinksOf(plans, sha, head)
    <2>1. StartRecord(i, plans, sha)
        BY <1>8 DEF Plan, drawn
    <2> HIDE DEF plans
    <2>2. ASSUME NEW p \in plans, p.outcome \in {"committed", "already"}
          PROVE  /\ ChainIn(p)
                 /\ LandedIn(p, sha, head) \in DOMAIN branch'
                 /\ branch'[LandedIn(p, sha, head)].tree[p.file] = p.content
        <3>1. LandedIn(p, sha, head) = head
            BY <1>6, <2>2 DEF LandedIn
        <3> QED BY <1>4, <1>6, <2>2, <3>1 DEF There
    <2> HIDE DEF sha
    <2>3. \A l \in links : LandedAt(l.finding, l.sha)'
        BY <2>2, LinksLanded
    <2>4. inv' = [inv EXCEPT ![i] = [inv[i] EXCEPT !.pc = "mark", !.plans = plans, !.sha = sha,
                    !.now = clock + 1, !.seen = <<>>, !.changed = {}, !.links = links]]
        BY <2>1 DEF StartRecord, Go
    <2> HIDE DEF links
    <2>5. inv'[i].pc = "mark" /\ inv'[i].links = links
        BY <1>1, <1>2, <2>4 DEF Run
    <2> QED BY <2>3, <2>5 DEF Recording, LandedAt
<1> QED BY <1>7, <1>8

\* The push: what was planned is in the commit it made.
LEMMA PushRecords ==
    ASSUME IInv, [Next]_vars, NEW i \in Invocations, UpdateRef(i), Recording(i)
    PROVE  Recording(i)'
<1> DEFINE done(p) == IF p.outcome = "commit" THEN [p EXCEPT !.outcome = "committed"] ELSE p
           plans == {done(p) : p \in inv[i].plans}
           head  == inv[i].head
           c     == NewCommit(i)
           n     == Len(branch)
           links == LinksOf(plans, n + 1, head)
<1>1. /\ inv \in [Invocations -> RunOn(n)] /\ branch \in Seq(Commit) /\ inv[i].pc = "push"
    BY DEF IInv, TypeOK, CommitterTypeOK, RecordsTypeOK, UpdateRef, At
<1>2. inv[i] \in Run /\ inv[i].plans \subseteq PlanOfFile /\ head \in DOMAIN branch
    BY <1>1 DEF RunOn, Run
<1>3. /\ branch' = Append(branch, c)
      /\ \A w \in c.wrote : c.tree[w.file] = w.content
    BY PushedCommit
<1>4. c.wrote = ToWrite(inv[i].plans)
    BY DEF NewCommit
<1> HIDE DEF c
<1>5. n + 1 \in DOMAIN branch' /\ branch'[n + 1] = c
    BY <1>1, <1>3
<1>6. ASSUME NEW p \in inv[i].plans, done(p).outcome \in {"committed", "already"}
      PROVE  /\ ChainIn(done(p))
             /\ LandedIn(done(p), n + 1, head) \in DOMAIN branch'
             /\ branch'[LandedIn(done(p), n + 1, head)].tree[done(p).file] = done(p).content
    <2>1. CASE p.outcome = "commit"
        <3>1. /\ done(p).file = p.file /\ done(p).content = p.content /\ done(p).chain = p.chain
              /\ done(p).outcome = "committed"
            BY <1>2, <2>1 DEF PlanOfFile
        <3>2. [file |-> p.file, base |-> p.base, content |-> p.content] \in c.wrote
            BY <1>4, <2>1 DEF ToWrite
        <3>3. c.tree[p.file] = p.content
            BY <1>3, <3>2
        <3>4. LandedIn(done(p), n + 1, head) = n + 1
            BY <3>1 DEF LandedIn
        <3>5. ChainIn(done(p))
            BY <1>1, <2>1, <3>1 DEF Recording, ChainIn
        <3> HIDE DEF done
        <3> QED BY <1>5, <3>1, <3>3, <3>4, <3>5
    <2>2. CASE p.outcome # "commit"
        <3>1. done(p) = p /\ p.outcome = "already"
            BY <1>1, <1>6, <2>2 DEF Recording
        <3>2. ChainIn(p) /\ branch[head].tree[p.file] = p.content /\ LandedIn(p, n + 1, head) = head
            BY <1>1, <3>1 DEF Recording, LandedIn
        <3>3. head \in DOMAIN branch' /\ branch'[head] = branch[head]
            BY <1>2, BranchGrows DEF IInv
        <3> HIDE DEF done
        <3> QED BY <3>1, <3>2, <3>3
    <2> QED BY <2>1, <2>2
<1>7. StartRecord(i, plans, n + 1)
    BY DEF UpdateRef
<1>8. \A p \in plans : p.outcome \in {"committed", "already"} =>
        /\ ChainIn(p)
        /\ LandedIn(p, n + 1, head) \in DOMAIN branch'
        /\ branch'[LandedIn(p, n + 1, head)].tree[p.file] = p.content
    BY <1>6
<1> HIDE DEF plans
<1>9. \A l \in links : LandedAt(l.finding, l.sha)'
    BY <1>8, LinksLanded
<1>10. inv' = [inv EXCEPT ![i] = [inv[i] EXCEPT !.pc = "mark", !.plans = plans, !.sha = n + 1,
                !.now = clock + 1, !.seen = <<>>, !.changed = {}, !.links = links]]
    BY <1>7 DEF StartRecord, Go
<1> HIDE DEF links, n
<1>11. inv'[i].pc = "mark" /\ inv'[i].links = links
    BY <1>1, <1>2, <1>10 DEF Run
<1> QED BY <1>9, <1>11 DEF Recording, LandedAt

\* Every run keeps what it has to record until it has recorded it.
LEMMA RecordingStep ==
    ASSUME IInv, DraftsStand, FixesStand, [Next]_vars, DraftingIsOver,
           NEW i \in Invocations, Recording(i)
    PROVE  Recording(i)'
<1>1. /\ inv \in [Invocations -> RunOn(Len(branch))] /\ inv[i] \in Run /\ branch \in Seq(Commit)
    BY RequestType DEF RunOn, IInv, TypeOK, RecordsTypeOK
<1>2. \A f, k : LandedAt(f, k) => LandedAt(f, k)'
    BY LandedStays DEF IInv
<1>3. CASE inv'[i] = inv[i]
    <2>1. inv[i].pc = "push" => inv[i].head \in DOMAIN branch
        BY <1>1 DEF RunOn
    <2>2. \A k \in DOMAIN branch : k \in DOMAIN branch' /\ branch'[k] = branch[k]
        BY BranchGrows DEF IInv
    <2>3. inv[i].pc \in {"mark", "event"} => \A l \in inv[i].links : LandedAt(l.finding, l.sha)'
        BY <1>2 DEF Recording
    <2>4. inv[i].pc = "push" => branch'[inv[i].head] = branch[inv[i].head]
        BY <2>1, <2>2
    <2>5. inv[i].pc = "push" => \A p \in inv[i].plans :
            /\ p.outcome \in {"commit", "already"} => ChainIn(p)
            /\ p.outcome = "already" => branch'[inv[i].head].tree[p.file] = p.content
            /\ p.outcome # "committed"
        BY <2>4 DEF Recording
    <2> QED BY <1>3, <2>3, <2>5 DEF Recording, ChainIn, LandedAt
<1>4. CASE CommitterStep /\ inv'[i] # inv[i]
    <2>1. CASE inv'[i].pc \notin {"push", "mark", "event"}
        BY <2>1 DEF Recording
    <2>2. CASE inv'[i].pc \in {"push", "mark", "event"}
        <3>1. PICK j \in Invocations : (\E r \in Requests : Receive(j, r)) \/ Work(j) \/ Crash(j)
            BY <1>4 DEF CommitterStep, CommitterNext
        <3>2. j = i /\ ~(\E r \in Requests : Receive(i, r))
            BY <1>4, <2>2, <3>1, ReceiveFrame, WorkFrame DEF IInv
        <3>3. Plan(i) \/ UpdateRef(i) \/ PutCommittedEvent(i) \/ MarkCommitted(i)
            BY <2>2, <3>1, <3>2, WorkLeads DEF IInv
        <3>4. CASE PutCommittedEvent(i) \/ MarkCommitted(i)
            <4> DEFINE l == NextLink(inv[i].links)
            <4>1. \/ Go(i, [inv[i] EXCEPT !.pc = "mark", !.links = @ \ {l}])
                  \/ Go(i, [inv[i] EXCEPT !.pc = "event"])
                BY <3>4 DEF PutCommittedEvent, MarkCommitted
            <4> HIDE DEF l
            <4>2. inv'[i].links \subseteq inv[i].links /\ inv'[i].pc \in {"mark", "event"}
                <5>1. CASE Go(i, [inv[i] EXCEPT !.pc = "mark", !.links = @ \ {l}])
                    <6>1. inv'[i].pc = "mark" /\ inv'[i].links = inv[i].links \ {l}
                        BY <1>1, <5>1 DEF Go, Run
                    <6> QED BY <6>1
                <5>2. CASE Go(i, [inv[i] EXCEPT !.pc = "event"])
                    <6>1. inv'[i].pc = "event" /\ inv'[i].links = inv[i].links
                        BY <1>1, <5>2 DEF Go, Run
                    <6> QED BY <6>1
                <5> QED BY <4>1, <5>1, <5>2
            <4>3. inv[i].pc \in {"mark", "event"}
                BY <3>4 DEF PutCommittedEvent, MarkCommitted, At
            <4>4. \A m \in inv'[i].links : LandedAt(m.finding, m.sha)'
                BY <1>2, <4>2, <4>3 DEF Recording
            <4> QED BY <4>2, <4>4 DEF Recording, LandedAt
        <3> QED BY <3>3, <3>4, PlanRecords, PushRecords
    <2> QED BY <2>1, <2>2
<1> QED BY <1>3, <1>4, OverFrame DEF DraftsStand, IInv

\* A mark names the commit its link is in.
LEMMA MarksStandStep ==
    ASSUME IInv, DraftsStand, FixesStand, MarksStand, DraftingIsOver, NothingIsEdited, [Next]_vars
    PROVE  MarksStand'
<1>1. /\ inv \in [Invocations -> RunOn(Len(branch))] /\ fix \in [Findings -> Fix \cup {NoFix}]
    BY DEF IInv, TypeOK, CommitterTypeOK, RecordsTypeOK
<1> DEFINE Stays(f, k) == k \in DOMAIN branch' /\ <<f, FirstDiff>> \in branch'[k].tree[FileOf[f]].fixes
<1>2. \A f, k : LandedAt(f, k) => Stays(f, k)
    BY LandedStays DEF IInv, LandedAt
<1>3. \A i \in Invocations : Recording(i)'
    BY RecordingStep DEF MarksStand
<1>4. ASSUME fix' = fix PROVE MarksStand'
    <2>1. \A f \in Findings : (fix[f] # NoFix /\ fix[f].committed # 0) =>
            Stays(f, fix[f].committed)
        BY <1>2 DEF MarksStand
    <2> QED BY <1>3, <1>4, <2>1 DEF MarksStand, LandedAt
<1>5. CASE CommitterStep
    <2>1. PICK i \in Invocations : (\E r \in Requests : Receive(i, r)) \/ Work(i) \/ Crash(i)
        BY <1>5 DEF CommitterStep, CommitterNext
    <2>2. CASE MarkCommitted(i)
        <3> DEFINE l == NextLink(inv[i].links)
        <3>1. inv[i] \in Run /\ inv[i].links \subseteq Link /\ inv[i].pc = "mark" /\ inv[i].links # {}
            BY <1>1, <2>2 DEF MarkCommitted, At, RunOn, Run
        <3>2. l \in inv[i].links
            BY <3>1, NextLinkChosen
        <3>3. fix' = [fix EXCEPT ![l.finding] = [fix[l.finding] EXCEPT !.committed = l.sha]]
              /\ fix[l.finding] # NoFix
            BY <2>2 DEF MarkCommitted
        <3> HIDE DEF l
        <3>4. Stays(l.finding, l.sha) /\ l.finding \in Findings
            BY <1>2, <3>1, <3>2 DEF MarksStand, Recording, Link
        <3>5. fix'[l.finding].committed = l.sha
            BY <1>1, <3>3, <3>4 DEF Fix
        <3>6. ASSUME NEW f \in Findings, fix'[f] # NoFix, fix'[f].committed # 0
              PROVE  Stays(f, fix'[f].committed)
            <4>1. CASE f = l.finding
                BY <3>4, <3>5, <4>1
            <4>2. CASE f # l.finding
                <5>1. fix'[f] = fix[f]
                    BY <1>1, <3>3, <4>2
                <5>2. LandedAt(f, fix[f].committed)
                    BY <3>6, <5>1 DEF MarksStand
                <5> QED BY <1>2, <5>1, <5>2
            <4> QED BY <4>1, <4>2
        <3> QED BY <1>3, <3>6 DEF MarksStand, LandedAt
    <2>3. CASE ~MarkCommitted(i)
        <3>1. fix' = fix
            BY <2>1, <2>3 DEF Work, Receive, Claim, ReadHead, ReadFindings, AcceptFile, Accepted, Plan,
                UpdateRef, StepAside, RefRefused, PutCommittedEvent, Finish, FinishRefused,
                Backstop, Crash, recordVars, findingVars
        <3> QED BY <1>4, <3>1
    <2> QED BY <2>2, <2>3
<1>6. ASSUME NEW v \in Reviewers,
             \/ \E f \in Findings, action \in Decisions, diff \in Diffs : Decide(v, f, action, diff)
             \/ Serve(v) \/ DecisionDies(v)
      PROVE  MarksStand'
    <2>1. fix' = fix
        BY <1>6 DEF FixesStand, Serve, Decide, PutDecision, UploadEdit, UpdateFinding, ReadDependents,
            Reopen, DecisionDies, recordVars, findingVars
    <2> QED BY <1>4, <2>1
<1> QED BY <1>4, <1>5, <1>6, OverFrame DEF DraftsStand, IInv

MarkedInv == DraftsStand /\ FixesStand /\ MarksStand

LEMMA MarkedBegins == Init => MarkedInv
<1> SUFFICES ASSUME Init PROVE MarkedInv
    OBVIOUS
<1>1. \A i \in Invocations : Recording(i)
    BY DEF Init, CommitterInit, Blank, Recording
<1>2. ASSUME NEW f \in Findings, fix[f] # NoFix PROVE fix[f].committed = 0
    <2>1. fix[f] = Drafted(f, First)
        BY <1>2 DEF Init, First
    <2> QED BY <2>1 DEF Drafted
<1> QED BY <1>1, <1>2, DraftsStandBegin, FixesStandBegin DEF MarkedInv, MarksStand

\* Once drafting is over and while nobody edits, a fix that says it is committed
\* is in the commit it names with the diff it has: record_commit marks a link
\* only of what landed or was found at the head, however runs are repeated,
\* twins race, files are reverted and findings rejected meanwhile.
THEOREM MarksHold == DraftingIsOver /\ NothingIsEdited => (Spec => []MarksAreTrue)
<1> SUFFICES ASSUME DraftingIsOver, NothingIsEdited PROVE Spec => []MarksAreTrue
    OBVIOUS
<1>1. IInv /\ MarkedInv /\ [Next]_vars => MarkedInv'
    BY DraftsStandStep, FixesStandStep, MarksStandStep DEF IInv, MarkedInv
<1>2. MarkedInv => MarksAreTrue
    <2> SUFFICES ASSUME MarkedInv, NEW f \in Findings, fix[f] # NoFix, fix[f].committed # 0
                 PROVE  <<f, fix[f].diff>> \in branch[fix[f].committed].tree[FileOf[f]].fixes
        BY DEF MarksAreTrue
    <2>1. fix[f].diff = FirstDiff /\ LandedAt(f, fix[f].committed)
        BY DEF MarkedInv, FixesStand, Unedited, MarksStand
    <2> QED BY <2>1 DEF LandedAt
<1> QED BY <1>1, <1>2, MarkedBegins, InductiveInvariant, PTL DEF Spec

----------------------------------------------------------------------------
(* What one reviewer leaves accepted, once drafting is over *)

OneReviewer == \A v, w \in Reviewers : v = w

\* The fixes below in the file are accepted, each with its first diff; the fixes
\* above were drafted on the finding's.
LinksStand(f) == fix[f] # NoFix /\ \A g \in Lower(f) :
    status[g] = "resolved" /\ fix[g] # NoFix /\ fix[g].diff = FirstDiff
Above(f) == {g \in Findings : fix[g] # NoFix /\ f \in Lower(g)}

\* No click approves anything, nothing is superseded, and no event is of a time
\* to come.
NoClicks ==
    /\ FromDashboard
    /\ \A f \in Findings : /\ latest[f].at <= clock /\ superseder[f] = 0
                           /\ latest[f].action \in Resolving => latest[f].suffix = Suffix.decision

\* What an event accepts is resolved or about to be; what is resolved has its
\* links, or is about to be reopened.
Settling(v) == review[v].pc \in {"cascade", "reopen"}
Pending(v, f) == /\ Settling(v) /\ f \in Above(review[v].finding)
                 /\ review[v].pc = "reopen" => \E t \in review[v].reopen : t.finding = f
Resolves(v, f) == /\ review[v].pc \in {"upload", "update"}
                  /\ review[v].finding = f /\ review[v].action \in Resolving
AcceptedStand == \A f \in Findings :
    /\ latest[f].action \in Resolving => status[f] = "resolved" \/ \E v \in Reviewers : Resolves(v, f)
    /\ status[f] = "resolved" => LinksStand(f) \/ \E v \in Reviewers : Pending(v, f)

\* A decision between two of its writes: nothing it rests on has moved, and it
\* is later than every acceptance there is.
Deciding(v) == review[v].pc # "idle" =>
    LET d == review[v]
    IN /\ d.action \in Decisions
       /\ d.action \in Resolving => LinksStand(d.finding)
       /\ d.copy = NoFix <=> fix[d.finding] = NoFix
       /\ d.pc # "event" =>
            /\ d.now <= clock
            /\ \A f \in Findings : latest[f].action \in Resolving => latest[f].at <= d.now
            /\ d.action = "rejected" => latest[d.finding].action \notin Resolving
       /\ Settling(v) => d.action # "approved"
       /\ Settling(v) /\ d.action # "edited" => status[d.finding] # "resolved"
       /\ d.pc = "reopen" => /\ \A t \in d.reopen : ~t.freed /\ t.finding \in Above(d.finding)
                             /\ \A f \in Above(d.finding) :
                                    status[f] = "resolved" => \E t \in d.reopen : t.finding = f
ReviewsStand == NoClicks /\ AcceptedStand /\ \A v \in Reviewers : Deciding(v)

\* The links of a fix are the fixes below it in its file, with their first diffs.
LEMMA LinksBelow ==
    ASSUME TypeOK, DraftsStand, NEW f \in Findings, fix[f] # NoFix
    PROVE  /\ \A k \in DOMAIN fix[f].after :
                fix[f].after[k].finding \in Lower(f) /\ fix[f].after[k].diff = FirstDiff
           /\ \A g \in Lower(f) : \E k \in DOMAIN fix[f].after : fix[f].after[k].finding = g
<1>1. fix[f].after = Drafted(f, First).after
    BY DEF DraftsStand, AsDrafted
<1>2. /\ DOMAIN fix[f].after = 1..Cardinality(Lower(f))
      /\ \A k \in DOMAIN fix[f].after :
            fix[f].after[k].finding = Ranked(k, f) /\ fix[f].after[k].diff = FirstDiff
    BY <1>1 DEF Drafted
<1> QED BY <1>2, AllAreRanked

LEMMA DependentsAbove ==
    ASSUME TypeOK, DraftsStand, NEW f \in Findings
    PROVE  Dependents(f) = Above(f)
<1>1. ASSUME NEW g \in Findings PROVE NamedBy(f, g) <=> fix[g] # NoFix /\ f \in Lower(g)
    BY LinksBelow DEF NamedBy
<1>2. \A g \in Findings : f \in Lower(g) => g # f
    BY FindingsAssumption DEF Lower
<1> QED BY <1>1, <1>2 DEF Dependents, Above

\* What no decision does leaves what they rest on.
LEMMA ReviewsKept ==
    ASSUME TypeOK, AcceptedStand, \A v \in Reviewers : Deciding(v), review' = review,
           status' = status, \A f \in Findings : SameFix(fix[f], fix'[f]),
           clock' \in {clock, clock + 1},
           \A f \in Findings : latest'[f] = latest[f] \/ latest'[f].action \notin Resolving
    PROVE  AcceptedStand' /\ \A v \in Reviewers : Deciding(v)'
<1>1. /\ clock \in Nat /\ review \in [Reviewers -> DecisionAtStep]
      /\ \A v \in Reviewers : review[v] \in Decision
    BY DEF TypeOK, RecordsTypeOK, ReviewTypeOK, DecisionAtStep
<1>2. ASSUME NEW f \in Findings
      PROVE  /\ fix'[f] = NoFix <=> fix[f] = NoFix
             /\ fix[f] # NoFix => fix'[f].diff = fix[f].diff
    BY DEF SameFix, SameDraft
<1>3. \A f \in Findings : Lower(f) \subseteq Findings
    BY DEF Lower, OnFile
<1>4. ASSUME NEW f \in Findings PROVE LinksStand(f) => LinksStand(f)'
    BY <1>2, <1>3 DEF LinksStand
<1>5. ASSUME NEW f PROVE Above(f)' = Above(f)
    BY <1>2 DEF Above
<1>6. ASSUME NEW v, NEW f PROVE /\ Pending(v, f) => Pending(v, f)'
                                /\ Resolves(v, f) => Resolves(v, f)'
    BY <1>5 DEF Pending, Settling, Resolves
<1>7. AcceptedStand'
    BY <1>4, <1>6 DEF AcceptedStand
<1>8. ASSUME NEW v \in Reviewers PROVE Deciding(v)'
    <2>1. CASE review[v].pc = "idle"
        BY <2>1 DEF Deciding
    <2>2. CASE review[v].pc # "idle"
        <3> DEFINE f == review[v].finding
        <3>1. f \in Findings /\ review[v].now \in Nat
            BY <1>1, <2>2 DEF DecisionAtStep, Decision
        <3>2. review[v].action \in Resolving => LinksStand(f)'
            BY <1>4, <2>2, <3>1 DEF Deciding
        <3>3. review[v].copy = NoFix <=> fix'[f] = NoFix
            BY <1>2, <2>2, <3>1 DEF Deciding
        <3>4. review[v].pc # "event" =>
                /\ review[v].now <= clock'
                /\ \A g \in Findings : latest'[g].action \in Resolving => latest'[g].at <= review[v].now
                /\ review[v].action = "rejected" => latest'[f].action \notin Resolving
            BY <1>1, <2>2, <3>1 DEF Deciding
        <3>5. review[v].pc = "reopen" =>
                /\ \A t \in review[v].reopen : ~t.freed /\ t.finding \in Above(f)'
                /\ \A g \in Above(f)' : status'[g] = "resolved" =>
                        \E t \in review[v].reopen : t.finding = g
            BY <1>5, <2>2 DEF Deciding
        <3> QED BY <2>2, <3>2, <3>3, <3>4, <3>5 DEF Deciding, Settling
    <2> QED BY <2>1, <2>2
<1> QED BY <1>7, <1>8

\* The decision is checked: every link was accepted by its latest event, and is
\* resolved.
LEMMA DecideReviews ==
    ASSUME TypeOK, DraftsStand, AcceptedStand, NEW v \in Reviewers, Reviewers = {v},
           NEW f \in Findings, NEW action \in Decisions, NEW diff \in Diffs,
           Decide(v, f, action, diff)
    PROVE  AcceptedStand' /\ Deciding(v)'
<1> DEFINE shown   == CASE action = "edited"   -> diff
                        [] action = "approved" -> fix[f].diff
                        [] OTHER               -> NoFix
           content == IF action = "edited" THEN Edited(stored[f], f, diff) ELSE NoContent
           d == [NoReview EXCEPT !.pc = "event", !.finding = f, !.action = action,
                    !.copy = fix[f], !.diff = shown, !.content = content]
<1>1. /\ review' = [review EXCEPT ![v] = d] /\ review[v].pc = "idle" /\ MayDecide(f, action)
      /\ fix' = fix /\ status' = status /\ latest' = latest
    BY DEF Decide, recordVars, findingVars, eventVars
<1> HIDE DEF shown, content
<1>2. d.pc = "event" /\ d.finding = f /\ d.action = action /\ d.copy = fix[f]
    BY DEF NoReview
<1> HIDE DEF d
<1>3. review'[v] = d
    BY <1>1 DEF TypeOK, ReviewTypeOK
<1>4. \A g \in Findings : /\ latest[g].action \in Resolving => status[g] = "resolved"
                          /\ status[g] = "resolved" => LinksStand(g)
    BY <1>1 DEF AcceptedStand, Pending, Settling, Resolves
<1>5. \A g \in Findings : LinksStand(g)' <=> LinksStand(g)
    BY <1>1 DEF LinksStand
<1>6. AcceptedStand'
    BY <1>1, <1>4, <1>5 DEF AcceptedStand
<1>7. ASSUME action \in Resolving PROVE LinksStand(f)
    <2>1. fix[f] # NoFix /\ PrerequisitesMet(f)
        BY <1>1, <1>7 DEF MayDecide
    <2>2. ASSUME NEW g \in Lower(f)
          PROVE  status[g] = "resolved" /\ fix[g] # NoFix /\ fix[g].diff = FirstDiff
        <3>1. PICK k \in DOMAIN fix[f].after : fix[f].after[k].finding = g
            BY <2>1, LinksBelow
        <3>2. fix[f].after[k].diff = FirstDiff
            BY <2>1, LinksBelow
        <3>3. g \in Findings
            BY DEF Lower, OnFile
        <3> QED BY <1>4, <2>1, <3>1, <3>2, <3>3 DEF PrerequisitesMet
    <2> QED BY <2>1, <2>2 DEF LinksStand
<1>8. Deciding(v)'
    BY <1>1, <1>2, <1>3, <1>5, <1>7 DEF Deciding, Settling
<1> QED BY <1>6, <1>8

\* Its event is the finding's latest.
LEMMA PutReviews ==
    ASSUME TypeOK, NoClicks, AcceptedStand, NEW v \in Reviewers, Reviewers = {v}, Deciding(v),
           PutDecision(v)
    PROVE  AcceptedStand' /\ Deciding(v)'
<1>0. PICK f, action : f = review[v].finding /\ action = review[v].action
    OBVIOUS
<1> DEFINE next   == CASE action = "edited" -> "upload"
                       [] action = "rejected" /\ review[v].copy = NoFix -> "cascade"
                       [] OTHER -> "update"
           d == [review[v] EXCEPT !.now = clock + 1, !.pc = next]
<1>1. /\ review \in [Reviewers -> DecisionAtStep] /\ review[v] \in Decision
      /\ latest \in [Findings -> Event] /\ clock \in Nat
    BY DEF TypeOK, ReviewTypeOK, RecordsTypeOK, DecisionAtStep
<1>2. /\ review[v].pc = "event" /\ review' = [review EXCEPT ![v] = d]
      /\ latest' = [latest EXCEPT ![f] = After(@, clock + 1, Suffix.decision, action)]
      /\ clock' = clock + 1 /\ fix' = fix /\ status' = status
    BY <1>0, <1>1 DEF PutDecision, findingVars
<1>3. f \in Findings /\ action \in Decisions
    BY <1>0, <1>1, <1>2 DEF DecisionAtStep, Deciding
<1>4. action \in {"approved", "edited", "rejected"}
    BY <1>3, ReviewAssumption
<1>5. /\ next \in {"upload", "update", "cascade"}
      /\ next = "cascade" => action = "rejected" /\ review[v].copy = NoFix
    BY <1>4
<1> HIDE DEF next
<1>6. d.pc = next /\ d.finding = f /\ d.action = action /\ d.copy = review[v].copy /\ d.now = clock + 1
    BY <1>0, <1>1 DEF Decision
<1>7. review'[v] = d
    BY <1>1, <1>2
<1> HIDE DEF d
<1>8. latest'[f] = [at |-> clock + 1, suffix |-> Suffix.decision, action |-> action]
    <2>1. latest[f].at <= clock /\ latest[f].at \in Nat
        BY <1>1, <1>3 DEF NoClicks, FromDashboard, Event
    <2> QED BY <1>1, <1>2, <1>3, <2>1 DEF After
<1>9. \A g \in Findings \ {f} : latest'[g] = latest[g]
    BY <1>1, <1>2
<1>10. \A g \in Findings : /\ latest[g].action \in Resolving => status[g] = "resolved"
                           /\ status[g] = "resolved" => LinksStand(g)
    BY <1>2 DEF AcceptedStand, Pending, Settling, Resolves
<1>11. \A g \in Findings : LinksStand(g)' <=> LinksStand(g)
    BY <1>2 DEF LinksStand
<1>12. action \in Resolving => Resolves(v, f)'
    BY <1>5, <1>6, <1>7 DEF Resolves, Resolving
<1>13. AcceptedStand'
    <2>1. ASSUME NEW g \in Findings
          PROVE  /\ latest'[g].action \in Resolving =>
                        status'[g] = "resolved" \/ \E u \in Reviewers : Resolves(u, g)'
                 /\ status'[g] = "resolved" => LinksStand(g)'
        <3>1. CASE g = f
            BY <1>2, <1>8, <1>10, <1>11, <1>12, <3>1
        <3>2. CASE g # f
            BY <1>2, <1>9, <1>10, <1>11, <3>2
        <3> QED BY <3>1, <3>2
    <2> QED BY <2>1 DEF AcceptedStand
<1>14. Deciding(v)'
    <2>1. action \in Resolving => LinksStand(f)'
        BY <1>0, <1>2, <1>3, <1>11 DEF Deciding
    <2>2. review[v].copy = NoFix <=> fix'[f] = NoFix
        BY <1>0, <1>2 DEF Deciding
    <2>3. \A g \in Findings : latest'[g].action \in Resolving => latest'[g].at <= clock + 1
        <3> SUFFICES ASSUME NEW g \in Findings PROVE latest'[g].at <= clock + 1
            OBVIOUS
        <3>1. latest[g].at \in Nat /\ latest[g].at <= clock
            BY <1>1 DEF NoClicks, FromDashboard, Event
        <3> QED BY <1>1, <1>8, <1>9, <3>1
    <2>4. action = "rejected" => latest'[f].action \notin Resolving
        BY <1>8 DEF Resolving
    <2>5. next = "cascade" => status'[f] # "resolved"
        BY <1>2, <1>3, <1>5, <1>10, <2>2 DEF LinksStand
    <2> QED BY <1>1, <1>2, <1>3, <1>5, <1>6, <1>7, <2>1, <2>2, <2>3, <2>4, <2>5 DEF Deciding, Settling
<1> QED BY <1>13, <1>14

LEMMA UploadReviews ==
    ASSUME TypeOK, AcceptedStand, NEW v \in Reviewers, Reviewers = {v}, Deciding(v), UploadEdit(v)
    PROVE  AcceptedStand' /\ Deciding(v)'
<1> DEFINE d == [review[v] EXCEPT !.pc = "update"]
<1>1. /\ review \in [Reviewers -> DecisionAtStep] /\ review[v] \in Decision
    BY DEF TypeOK, ReviewTypeOK, DecisionAtStep
<1>2. /\ review[v].pc = "upload" /\ review' = [review EXCEPT ![v] = d]
      /\ UNCHANGED <<latest, clock, fix, status>>
    BY <1>1 DEF UploadEdit, findingVars, eventVars
<1>3. /\ d.pc = "update" /\ d.finding = review[v].finding /\ d.action = review[v].action
      /\ d.copy = review[v].copy /\ d.now = review[v].now
    BY <1>1 DEF Decision
<1>4. review'[v] = d
    BY <1>1, <1>2
<1> HIDE DEF d
<1>5. \A g \in Findings : /\ LinksStand(g)' <=> LinksStand(g)
                          /\ Resolves(v, g) => Resolves(v, g)'
                          /\ ~Pending(v, g)
    BY <1>2, <1>3, <1>4 DEF LinksStand, Resolves, Pending, Settling
<1>6. AcceptedStand'
    BY <1>2, <1>5 DEF AcceptedStand
<1>7. Deciding(v)'
    <2>1. review[v].finding \in Findings
        BY <1>1, <1>2 DEF DecisionAtStep
    <2> QED BY <1>2, <1>3, <1>4, <1>5, <2>1 DEF Deciding, Settling
<1> QED BY <1>6, <1>7

\* The record follows: what was drafted on an edited or rejected fix is to be
\* reopened from here on.
LEMMA UpdateReviews ==
    ASSUME TypeOK, AcceptedStand, NEW v \in Reviewers, Reviewers = {v}, Deciding(v), UpdateFinding(v)
    PROVE  AcceptedStand' /\ Deciding(v)'
<1>1. /\ review \in [Reviewers -> DecisionAtStep] /\ review[v] \in Decision
      /\ fix \in [Findings -> Fix \cup {NoFix}] /\ status \in [Findings -> Statuses]
    BY DEF TypeOK, ReviewTypeOK, RecordsTypeOK, DecisionAtStep
<1>2. PICK f, action, copy, diff :
        /\ f = review[v].finding /\ action = review[v].action
        /\ copy = review[v].copy /\ diff = review[v].diff
    OBVIOUS
<1> DEFINE changed == [copy EXCEPT !.diff = diff, !.passed = FALSE]
           d == IF action = "approved" THEN NoReview ELSE [review[v] EXCEPT !.pc = "cascade"]
           s == IF action = "rejected" THEN "needs-human-only" ELSE "resolved"
<1>3. /\ review[v].pc = "update" /\ review' = [review EXCEPT ![v] = d]
      /\ status' = [status EXCEPT ![f] = s]
      /\ fix' = IF action # "edited" THEN fix ELSE [fix EXCEPT ![f] = changed]
      /\ UNCHANGED <<latest, clock>>
    BY <1>1, <1>2 DEF UpdateFinding, eventVars
<1>4. f \in Findings /\ action \in {"approved", "edited", "rejected"}
    BY <1>1, <1>2, <1>3, ReviewAssumption DEF DecisionAtStep, Deciding
<1>5. action = "edited" => copy \in Fix /\ changed \in Fix /\ changed # NoFix /\ copy # NoFix
    <2>1. action = "edited" => copy \in Fix /\ diff \in Diffs
        BY <1>1, <1>2, <1>3 DEF DecisionAtStep, Resolving
    <2> QED BY <2>1, AbsentAssumption DEF Fix
<1> HIDE DEF changed
<1>6. /\ \A g \in Findings \ {f} : fix'[g] = fix[g] /\ status'[g] = status[g]
      /\ status'[f] = s /\ (fix'[f] = NoFix <=> fix[f] = NoFix)
      /\ action # "edited" => fix'[f] = fix[f]
    <2>1. action = "edited" => fix[f] # NoFix
        BY <1>2, <1>3, <1>5 DEF Deciding
    <2> QED BY <1>1, <1>3, <1>4, <1>5, <2>1
<1>7. \A g \in Findings : Lower(g) \subseteq Findings /\ g \notin Lower(g)
    BY FindingsAssumption DEF Lower, OnFile
<1>8. \A g \in Findings : (LinksStand(g) /\ (f \in Lower(g) => action = "approved")) => LinksStand(g)'
    <2> SUFFICES ASSUME NEW g \in Findings, LinksStand(g), f \in Lower(g) => action = "approved"
                 PROVE  LinksStand(g)'
        OBVIOUS
    <2>1. fix'[g] # NoFix
        BY <1>6 DEF LinksStand
    <2>2. ASSUME NEW h \in Lower(g)
          PROVE  status'[h] = "resolved" /\ fix'[h] # NoFix /\ fix'[h].diff = FirstDiff
        <3>1. h \in Findings /\ status[h] = "resolved" /\ fix[h] # NoFix /\ fix[h].diff = FirstDiff
            BY <1>7 DEF LinksStand
        <3>2. CASE h = f
            BY <1>6, <2>2, <3>1, <3>2
        <3>3. CASE h # f
            BY <1>6, <3>1, <3>3
        <3> QED BY <3>2, <3>3
    <2> QED BY <2>1, <2>2 DEF LinksStand
<1>9. \A g \in Findings : /\ (latest[g].action \in Resolving /\ g # f) => status[g] = "resolved"
                          /\ status[g] = "resolved" => LinksStand(g)
    BY <1>2, <1>3 DEF AcceptedStand, Resolves, Pending, Settling
<1>10. /\ action \in Resolving => LinksStand(f)
       /\ action = "rejected" => latest[f].action \notin Resolving
    BY <1>2, <1>3 DEF Deciding
<1>11. review'[v] = d
    BY <1>1, <1>3
<1>12. action # "approved" =>
        /\ d.pc = "cascade" /\ d.finding = f /\ d.action = action /\ d.copy = copy
        /\ d.now = review[v].now
    BY <1>1, <1>2 DEF Decision
<1>13. action = "approved" => d.pc = "idle"
    BY DEF NoReview
<1> HIDE DEF d
<1>14. AcceptedStand'
    <2>1. ASSUME NEW g \in Findings, latest'[g].action \in Resolving
          PROVE  status'[g] = "resolved"
        BY <1>3, <1>6, <1>9, <1>10, <2>1
    <2>2. ASSUME NEW g \in Findings, status'[g] = "resolved"
          PROVE  LinksStand(g)' \/ Pending(v, g)'
        <3>1. CASE g = f
            <4>1. action # "rejected"
                BY <1>6, <2>2, <3>1
            <4>2. LinksStand(f)
                BY <1>4, <1>10, <4>1 DEF Resolving
            <4> QED BY <1>4, <1>7, <1>8, <3>1, <4>2
        <3>2. CASE g # f
            <4>1. LinksStand(g)
                BY <1>6, <1>9, <2>2, <3>2
            <4>2. CASE f \in Lower(g) /\ action # "approved"
                <5>1. fix'[g] # NoFix
                    BY <1>6, <3>2, <4>1 DEF LinksStand
                <5> QED BY <1>11, <1>12, <4>2, <5>1 DEF Pending, Settling, Above
            <4> QED BY <1>8, <4>1, <4>2
        <3> QED BY <3>1, <3>2
    <2> QED BY <2>1, <2>2 DEF AcceptedStand
<1>15. Deciding(v)'
    <2>1. CASE action = "approved"
        BY <1>11, <1>13, <2>1 DEF Deciding
    <2>2. CASE action # "approved"
        <3>1. action \in Decisions /\ review[v].now <= clock
              /\ \A g \in Findings : latest[g].action \in Resolving => latest[g].at <= review[v].now
            BY <1>2, <1>3 DEF Deciding
        <3>2. action \in Resolving => LinksStand(f)'
            BY <1>4, <1>7, <1>8, <1>10
        <3>3. copy = NoFix <=> fix'[f] = NoFix
            BY <1>2, <1>3, <1>6 DEF Deciding
        <3>4. action # "edited" => status'[f] # "resolved"
            BY <1>4, <1>6, <2>2
        <3> QED BY <1>3, <1>10, <1>11, <1>12, <2>2, <3>1, <3>2, <3>3, <3>4 DEF Deciding, Settling
    <2> QED BY <2>1, <2>2
<1> QED BY <1>14, <1>15

\* The dependents are read once, and every one of them is on the list.
LEMMA ReadReviews ==
    ASSUME TypeOK, DraftsStand, NoClicks, AcceptedStand, NEW v \in Reviewers, Reviewers = {v},
           Deciding(v), ReadDependents(v)
    PROVE  AcceptedStand' /\ Deciding(v)'
<1>1. /\ review \in [Reviewers -> DecisionAtStep] /\ review[v] \in Decision
    BY DEF TypeOK, ReviewTypeOK, DecisionAtStep
<1>2. PICK f : f = review[v].finding
    OBVIOUS
<1> DEFINE roots == {f} \cup Dependents(f)
           freed == {g \in Findings \ {f} : superseder[g] \in roots}
           todo  == {[finding |-> g, freed |-> g \in freed] : g \in Dependents(f) \cup freed}
           d == IF todo = {} THEN NoReview ELSE [review[v] EXCEPT !.pc = "reopen", !.reopen = todo]
<1>3. /\ review[v].pc = "cascade" /\ review' = [review EXCEPT ![v] = d]
      /\ UNCHANGED <<latest, clock, fix, status>>
    BY <1>1, <1>2 DEF ReadDependents, recordVars, findingVars, eventVars
<1>4. f \in Findings
    BY <1>1, <1>2, <1>3 DEF DecisionAtStep
<1>5. Dependents(f) = Above(f) /\ Above(f) \subseteq Findings
    BY <1>4, DependentsAbove DEF Above
<1>6. freed = {}
    BY <1>4, <1>5, FindingsAssumption DEF NoClicks, FromDashboard
<1>7. /\ \A t \in todo : ~t.freed /\ t.finding \in Above(f)
      /\ \A g \in Above(f) : \E t \in todo : t.finding = g
    <2> HIDE DEF freed
    <2>1. Dependents(f) \cup freed = Above(f) /\ \A g : g \notin freed
        BY <1>5, <1>6
    <2>2. ASSUME NEW t \in todo PROVE ~t.freed /\ t.finding \in Above(f)
        <3>1. PICK g \in Dependents(f) \cup freed : t = [finding |-> g, freed |-> g \in freed]
            OBVIOUS
        <3>2. t.finding = g /\ t.freed = (g \in freed)
            BY <3>1
        <3> QED BY <2>1, <3>2
    <2>3. ASSUME NEW g \in Above(f) PROVE \E t \in todo : t.finding = g
        <3>1. [finding |-> g, freed |-> g \in freed] \in todo
            BY <2>1
        <3> HIDE DEF todo
        <3> QED BY <3>1
    <2> QED BY <2>2, <2>3
<1> HIDE DEF todo
<1>8. review'[v] = d
    BY <1>1, <1>3
<1>9. todo # {} =>
        /\ d.pc = "reopen" /\ d.finding = f /\ d.action = review[v].action
        /\ d.copy = review[v].copy /\ d.now = review[v].now /\ d.reopen = todo
    BY <1>1, <1>2 DEF Decision
<1>10. todo = {} => d.pc = "idle"
    BY DEF NoReview
<1> HIDE DEF d
<1>11. \A g \in Findings : /\ LinksStand(g)' <=> LinksStand(g)
                           /\ ~Resolves(v, g)
    BY <1>3 DEF LinksStand, Resolves
<1>12. Above(f)' = Above(f)
    BY <1>3 DEF Above
<1>13. ASSUME NEW g \in Findings, Pending(v, g) PROVE Pending(v, g)'
    <2>1. g \in Above(f)
        BY <1>2, <1>13 DEF Pending
    <2>2. todo # {} /\ \E t \in todo : t.finding = g
        BY <1>7, <2>1
    <2> QED BY <1>8, <1>9, <1>12, <2>1, <2>2 DEF Pending, Settling
<1>14. AcceptedStand'
    BY <1>3, <1>11, <1>13 DEF AcceptedStand
<1>15. Deciding(v)'
    <2>1. CASE todo = {}
        BY <1>8, <1>10, <2>1 DEF Deciding
    <2>2. CASE todo # {}
        BY <1>2, <1>3, <1>4, <1>7, <1>8, <1>9, <1>11, <1>12, <2>2 DEF Deciding, Settling
    <2> QED BY <2>1, <2>2
<1> QED BY <1>14, <1>15

\* One of them is reopened; those that were drafted on it are on the list too.
LEMMA ReopenReviews ==
    ASSUME TypeOK, DraftsStand, NoClicks, AcceptedStand, NEW v \in Reviewers, Reviewers = {v},
           Deciding(v), Reopen(v)
    PROVE  AcceptedStand' /\ Deciding(v)'
<1>1. /\ review \in [Reviewers -> DecisionAtStep] /\ review[v] \in Decision
      /\ latest \in [Findings -> Event] /\ status \in [Findings -> Statuses]
    BY DEF TypeOK, ReviewTypeOK, RecordsTypeOK, DecisionAtStep
<1>2. PICK f, now, todo : /\ f = review[v].finding /\ now = review[v].now
                          /\ todo = review[v].reopen
    OBVIOUS
<1>3. review[v].pc = "reopen"
    BY DEF Reopen
<1>4. f \in Findings /\ todo \in SUBSET [finding : Findings, freed : BOOLEAN] /\ todo # {}
      /\ now \in Nat
    BY <1>1, <1>2, <1>3 DEF DecisionAtStep, Decision
<1>5. PICK next \in todo : next = CHOOSE t \in todo : \A u \in todo : t.finding <= u.finding
    BY <1>4, NextReopened
<1>6. PICK g \in Findings : g = next.finding
    BY <1>4
<1> DEFINE d == IF todo = {next} THEN NoReview ELSE [review[v] EXCEPT !.reopen = todo \ {next}]
<1>7. /\ status' = [status EXCEPT ![g] = "mapped"]
      /\ latest' = [latest EXCEPT ![g] = After(@, now, Suffix.system, "reopened")]
      /\ review' = [review EXCEPT ![v] = d]
      /\ UNCHANGED <<clock, fix>>
    BY <1>2, <1>5, <1>6 DEF Reopen
<1>8. /\ \A t \in todo : t.finding \in Above(f)
      /\ \A h \in Above(f) : status[h] = "resolved" => \E t \in todo : t.finding = h
    BY <1>2, <1>3 DEF Deciding
<1>9. g \in Above(f) /\ f \in Lower(g) /\ fix[g] # NoFix
    BY <1>5, <1>6, <1>8 DEF Above
<1>10. latest'[g].action \notin Resolving
    <2>1. CASE latest[g].action \in Resolving
        <3>1. latest[g].at <= now /\ latest[g].suffix = 0 /\ latest[g].at \in Nat
            BY <1>1, <1>2, <1>3, <2>1 DEF Deciding, NoClicks, FromDashboard, Suffix, Event
        <3>2. latest'[g].action = "reopened"
            BY <1>1, <1>4, <1>7, <3>1 DEF After, Suffix
        <3> QED BY <3>2 DEF Resolving
    <2>2. CASE latest[g].action \notin Resolving
        BY <1>1, <1>7, <2>2 DEF After, Resolving
    <2> QED BY <2>1, <2>2
<1>11. /\ \A h \in Findings \ {g} : latest'[h] = latest[h] /\ status'[h] = status[h]
       /\ status'[g] = "mapped"
    BY <1>1, <1>7
<1>12. review'[v] = d
    BY <1>1, <1>7
<1>13. todo # {next} =>
        /\ d.pc = "reopen" /\ d.finding = f /\ d.action = review[v].action
        /\ d.copy = review[v].copy /\ d.now = now /\ d.reopen = todo \ {next}
    BY <1>1, <1>2, <1>3 DEF Decision
<1>14. todo = {next} => d.pc = "idle"
    BY DEF NoReview
<1> HIDE DEF d
<1>15. \A h : Above(h)' = Above(h)
    BY <1>7 DEF Above
<1>16. ASSUME NEW h \in Findings, h \in Above(f), status'[h] = "resolved"
       PROVE  todo # {next} /\ \E t \in todo \ {next} : t.finding = h
    <2>1. h # g /\ status[h] = "resolved"
        BY <1>11, <1>16
    <2>2. PICK t \in todo : t.finding = h
        BY <1>8, <1>16, <2>1
    <2> QED BY <1>6, <2>1, <2>2
<1>17. ASSUME NEW h \in Findings, h \in Above(f), status'[h] = "resolved"
       PROVE  Pending(v, h)'
    BY <1>12, <1>13, <1>15, <1>16, <1>17 DEF Pending, Settling
<1>18. ASSUME NEW h \in Findings, LinksStand(h), g \notin Lower(h)
       PROVE  LinksStand(h)'
    <2>1. \A k \in Lower(h) : k \in Findings /\ k # g
        BY <1>18 DEF Lower, OnFile
    <2> QED BY <1>7, <1>11, <1>18, <2>1 DEF LinksStand
<1>19. \A h \in Findings : ~Resolves(v, h)
    BY <1>3 DEF Resolves
<1>20. AcceptedStand'
    <2>1. ASSUME NEW h \in Findings, latest'[h].action \in Resolving
          PROVE  status'[h] = "resolved"
        BY <1>10, <1>11, <1>19, <2>1 DEF AcceptedStand
    <2>2. ASSUME NEW h \in Findings, status'[h] = "resolved"
          PROVE  LinksStand(h)' \/ Pending(v, h)'
        <3>1. h # g /\ status[h] = "resolved"
            BY <1>11, <2>2
        <3>2. CASE Pending(v, h)
            <4>1. h \in Above(f)
                BY <1>2, <3>2 DEF Pending
            <4> QED BY <1>17, <2>2, <4>1
        <3>3. CASE LinksStand(h) /\ g \in Lower(h)
            <4>1. f \in Lower(h) /\ fix[h] # NoFix
                BY <1>4, <1>9, <3>3, FindingsAssumption DEF Lower, OnFile, LinksStand
            <4>2. h \in Above(f)
                BY <4>1 DEF Above
            <4> QED BY <1>17, <2>2, <4>2
        <3>4. CASE LinksStand(h) /\ g \notin Lower(h)
            BY <1>18, <3>4
        <3> QED BY <3>1, <3>2, <3>3, <3>4 DEF AcceptedStand
    <2> QED BY <2>1, <2>2 DEF AcceptedStand
<1>21. Deciding(v)'
    <2>1. CASE todo = {next}
        BY <1>12, <1>14, <2>1 DEF Deciding
    <2>2. CASE todo # {next}
        <3>1. /\ review[v].action \in Decisions
              /\ review[v].copy = NoFix <=> fix[f] = NoFix
              /\ now <= clock /\ review[v].action # "approved"
              /\ \A h \in Findings : latest[h].action \in Resolving => latest[h].at <= now
              /\ review[v].action = "rejected" => latest[f].action \notin Resolving
              /\ review[v].action # "edited" => status[f] # "resolved"
              /\ review[v].action \in Resolving => LinksStand(f)
              /\ \A t \in todo : ~t.freed
            BY <1>2, <1>3 DEF Deciding, Settling
        <3>2. f # g /\ g \notin Lower(f)
            BY <1>4, <1>9, FindingsAssumption DEF Lower
        <3>3. review[v].action \in Resolving => LinksStand(f)'
            BY <1>4, <1>18, <3>1, <3>2
        <3>4. \A h \in Above(f)' : status'[h] = "resolved" => \E t \in todo \ {next} : t.finding = h
            BY <1>15, <1>16 DEF Above
        <3>5. \A t \in todo \ {next} : ~t.freed /\ t.finding \in Above(f)'
            BY <1>8, <1>15, <3>1
        <3>6. \A h \in Findings : latest'[h].action \in Resolving => latest'[h].at <= now
            BY <1>10, <1>11, <3>1
        <3> QED BY <1>4, <1>7, <1>11, <1>12, <1>13, <2>2, <3>1, <3>2, <3>3, <3>4, <3>5, <3>6
                DEF Deciding, Settling
    <2> QED BY <2>1, <2>2
<1> QED BY <1>20, <1>21

\* A decision stamps its events with a time that has come, and frees nothing.
LEMMA DecisionQuiet ==
    ASSUME TypeOK, NoClicks, NEW v \in Reviewers, Deciding(v),
           (\E f \in Findings, action \in Decisions, diff \in Diffs : Decide(v, f, action, diff))
                \/ Serve(v)
    PROVE  /\ clock' \in {clock, clock + 1}
           /\ \A f \in Findings :
                /\ latest'[f].at <= clock' /\ superseder'[f] = 0
                /\ latest'[f].action \in Resolving => latest'[f].suffix = Suffix.decision
<1>1. /\ review \in [Reviewers -> DecisionAtStep] /\ review[v] \in Decision
      /\ latest \in [Findings -> Event] /\ clock \in Nat
      /\ superseder \in [Findings -> Findings \cup {0}]
    BY DEF TypeOK, ReviewTypeOK, RecordsTypeOK, DecisionAtStep
<1>2. \A f \in Findings : latest[f].at \in Nat
    BY <1>1 DEF Event
<1>3. CASE PutDecision(v)
    <2>1. PICK g, action : latest' = [latest EXCEPT ![g] = After(@, clock + 1, Suffix.decision, action)]
        BY <1>3 DEF PutDecision
    <2>2. clock' = clock + 1 /\ superseder' = superseder
        BY <1>3 DEF PutDecision, findingVars
    <2>3. ASSUME NEW f \in Findings
          PROVE  \/ latest'[f] = latest[f]
                 \/ latest'[f].at = clock + 1 /\ latest'[f].suffix = Suffix.decision
        BY <1>1, <2>1 DEF After
    <2> QED BY <1>1, <1>2, <2>2, <2>3 DEF NoClicks, FromDashboard
<1>4. CASE Reopen(v)
    <2> DEFINE todo == review[v].reopen
               next == CHOOSE t \in todo : \A u \in todo : t.finding <= u.finding
               g    == next.finding
               now  == review[v].now
    <2>1. /\ latest' = [latest EXCEPT ![g] = After(@, now, Suffix.system, "reopened")]
          /\ superseder' = IF next.freed THEN [superseder EXCEPT ![g] = 0] ELSE superseder
          /\ clock' = clock /\ review[v].pc = "reopen"
        BY <1>4 DEF Reopen
    <2>2. now <= clock /\ now \in Nat
        BY <1>1, <2>1 DEF Deciding, Decision
    <2> HIDE DEF next, g, now
    <2>3. ASSUME NEW f \in Findings
          PROVE  \/ latest'[f] = latest[f]
                 \/ latest'[f].at = now /\ latest'[f].action = "reopened"
        BY <1>1, <2>1 DEF After
    <2>4. \A f \in Findings : superseder'[f] = superseder[f] \/ superseder'[f] = 0
        BY <1>1, <2>1
    <2> QED BY <1>1, <1>2, <2>1, <2>2, <2>3, <2>4 DEF NoClicks, FromDashboard, Resolving
<1>5. CASE \/ \E f \in Findings, action \in Decisions, diff \in Diffs : Decide(v, f, action, diff)
           \/ UploadEdit(v) \/ UpdateFinding(v) \/ ReadDependents(v)
    <2>1. UNCHANGED <<latest, clock, superseder>>
        BY <1>5 DEF Decide, UploadEdit, UpdateFinding, ReadDependents, recordVars, findingVars, eventVars
    <2> QED BY <2>1 DEF NoClicks, FromDashboard
<1> QED BY <1>3, <1>4, <1>5 DEF Serve

LEMMA ReviewsStandStep ==
    ASSUME TypeOK, DraftingIsOver, OneReviewer, "killed" \notin ApiFaults, ClickRequests = {},
           DraftsStand, ReviewsStand, [Next]_vars
    PROVE  ReviewsStand'
<1>1. NoClicks /\ AcceptedStand /\ \A v \in Reviewers : Deciding(v)
    BY DEF ReviewsStand
<1>2. \A r \in Requests : request'[r].source = "dashboard"
    BY <1>1, DashboardStep DEF NoClicks, FromDashboard
<1>3. /\ clock \in Nat /\ inv \in [Invocations -> RunOn(Len(branch))]
      /\ \A i \in Invocations : inv[i] \in Run
    BY DEF TypeOK, RecordsTypeOK, CommitterTypeOK, RunOn
<1>4. CASE CommitterStep
    <2>1. Undisturbed /\ review' = review
        BY <1>4, CommitterUndisturbed
    <2>2. \A f \in Findings : SameFix(fix[f], fix'[f])
        BY <2>1 DEF Undisturbed
    <2>3. /\ status' = status /\ superseder' = superseder /\ clock' \in {clock, clock + 1}
          /\ \A f \in Findings :
                \/ latest'[f] = latest[f]
                \/ latest'[f].action = "committed" /\ latest'[f].at <= clock'
          /\ \A i \in Invocations :
                /\ inv'[i].pc # "accept"
                /\ inv'[i].pc \in {"mark", "event"} => inv'[i].now <= clock'
        BY <1>1, <1>4, CommitterQuiet DEF NoClicks
    <2>4. \A f \in Findings : latest'[f] = latest[f] \/ latest'[f].action \notin Resolving
        BY <2>3 DEF Resolving
    <2>5. AcceptedStand' /\ \A v \in Reviewers : Deciding(v)'
        BY <1>1, <2>1, <2>2, <2>3, <2>4, ReviewsKept
    <2>6. ASSUME NEW f \in Findings
          PROVE  /\ latest'[f].at <= clock' /\ superseder'[f] = 0
                 /\ latest'[f].action \in Resolving => latest'[f].suffix = Suffix.decision
        <3>1. latest[f].at \in Nat /\ latest[f].at <= clock /\ superseder[f] = 0
            BY <1>1 DEF NoClicks, FromDashboard, TypeOK, RecordsTypeOK, Event
        <3>2. latest'[f].at <= clock'
            BY <1>3, <2>3, <3>1
        <3> QED BY <1>1, <2>3, <2>4, <3>1, <3>2 DEF NoClicks, FromDashboard
    <2> QED BY <1>2, <2>3, <2>5, <2>6 DEF ReviewsStand, NoClicks, FromDashboard
<1>5. ASSUME NEW v \in Reviewers, inv' = inv, draft' = draft,
             \/ \E f \in Findings, action \in Decisions, diff \in Diffs : Decide(v, f, action, diff)
             \/ Serve(v) \/ DecisionDies(v)
      PROVE  ReviewsStand'
    <2>1. Reviewers = {v}
        BY DEF OneReviewer
    <2>2. ~DecisionDies(v)
        BY DEF DecisionDies
    <2>3. AcceptedStand' /\ Deciding(v)'
        <3>1. CASE \E f \in Findings, action \in Decisions, diff \in Diffs : Decide(v, f, action, diff)
            BY <1>1, <2>1, <3>1, DecideReviews
        <3>2. CASE PutDecision(v)
            BY <1>1, <2>1, <3>2, PutReviews
        <3>3. CASE UploadEdit(v)
            BY <1>1, <2>1, <3>3, UploadReviews
        <3>4. CASE UpdateFinding(v)
            BY <1>1, <2>1, <3>4, UpdateReviews
        <3>5. CASE ReadDependents(v)
            BY <1>1, <2>1, <3>5, ReadReviews
        <3>6. CASE Reopen(v)
            BY <1>1, <2>1, <3>6, ReopenReviews
        <3> QED BY <1>5, <2>2, <3>1, <3>2, <3>3, <3>4, <3>5, <3>6 DEF Serve
    <2>4. /\ clock' \in {clock, clock + 1}
          /\ \A f \in Findings :
                /\ latest'[f].at <= clock' /\ superseder'[f] = 0
                /\ latest'[f].action \in Resolving => latest'[f].suffix = Suffix.decision
        BY <1>1, <1>5, <2>2, DecisionQuiet
    <2>5. \A i \in Invocations : /\ inv'[i].pc # "accept"
                                 /\ inv'[i].pc \in {"mark", "event"} => inv'[i].now <= clock'
        <3> SUFFICES ASSUME NEW i \in Invocations
                     PROVE  /\ inv[i].pc # "accept"
                            /\ inv[i].pc \in {"mark", "event"} => inv[i].now <= clock'
            BY <1>5
        <3>1. inv[i].now \in Nat
            BY <1>3 DEF Run
        <3> QED BY <1>1, <1>3, <2>4, <3>1 DEF NoClicks, FromDashboard
    <2> QED BY <1>2, <2>1, <2>3, <2>4, <2>5 DEF ReviewsStand, NoClicks, FromDashboard
<1>6. CASE /\ UNCHANGED <<fix, status, stored, superseder, latest, approvals, review, draft, inv>>
           /\ clock' \in {clock, clock + 1}
    <2>1. \A f \in Findings : SameFix(fix[f], fix'[f])
        BY <1>6 DEF SameFix, SameDraft
    <2>2. AcceptedStand' /\ \A v \in Reviewers : Deciding(v)'
        BY <1>1, <1>6, <2>1, ReviewsKept
    <2>3. \A i \in Invocations : /\ inv[i].pc # "accept"
                                 /\ inv[i].pc \in {"mark", "event"} => inv[i].now <= clock'
        <3> SUFFICES ASSUME NEW i \in Invocations
                     PROVE  /\ inv[i].pc # "accept"
                            /\ inv[i].pc \in {"mark", "event"} => inv[i].now <= clock'
            OBVIOUS
        <3>1. inv[i].now \in Nat
            BY <1>3 DEF Run
        <3> QED BY <1>1, <1>3, <1>6, <3>1 DEF NoClicks, FromDashboard
    <2>4. \A f \in Findings : /\ latest[f].at <= clock' /\ superseder[f] = 0
                              /\ latest[f].action \in Resolving => latest[f].suffix = Suffix.decision
        <3> SUFFICES ASSUME NEW f \in Findings
                     PROVE  /\ latest[f].at <= clock' /\ superseder[f] = 0
                            /\ latest[f].action \in Resolving => latest[f].suffix = Suffix.decision
            OBVIOUS
        <3>1. latest[f].at \in Nat
            BY DEF TypeOK, RecordsTypeOK, Event
        <3> QED BY <1>1, <1>3, <1>6, <3>1 DEF NoClicks, FromDashboard
    <2> QED BY <1>2, <1>6, <2>2, <2>3, <2>4 DEF ReviewsStand, NoClicks, FromDashboard
<1> QED BY <1>4, <1>5, <1>6, OverFrame DEF DraftsStand

LEMMA ReviewsBegin == Init => ReviewsStand
<1> SUFFICES ASSUME Init PROVE ReviewsStand
    OBVIOUS
<1>1. /\ \A v \in Reviewers : review[v].pc = "idle"
      /\ \A i \in Invocations : inv[i].pc = "idle"
      /\ \A r \in Requests : request[r].source = "dashboard"
      /\ clock = 1 /\ \A f \in Findings : superseder[f] = 0
    BY DEF Init, ReviewInit, NoReview, CommitterInit, Blank, BlankRequest
<1>2. CASE Start = "approved"
    <2>1. ASSUME NEW f \in Findings
          PROVE  /\ latest[f].at = 1 /\ latest[f].suffix = Suffix.decision
                 /\ status[f] = "resolved" /\ fix[f] = Drafted(f, First)
        BY <1>2 DEF Init, First
    <2>2. \A f \in Findings : Drafted(f, First) \in Fix /\ Drafted(f, First).diff = FirstDiff
        <3> SUFFICES ASSUME NEW f \in Findings
                     PROVE  Drafted(f, First) \in Fix /\ Drafted(f, First).diff = FirstDiff
            OBVIOUS
        <3>1. First \in Content
            BY DEF First, Content
        <3>2. FirstDiff \in Diffs
            BY <1>2, StartAssumption, RemediationAssumption DEF FirstDiff
        <3>3. Drafted(f, First) \in Fix
            BY <3>1, <3>2, DraftedType
        <3>4. Drafted(f, First).diff = FirstDiff
            BY DEF Drafted
        <3> QED BY <3>3, <3>4
    <2>3. ASSUME NEW f \in Findings PROVE LinksStand(f)
        BY <2>1, <2>2, AbsentAssumption DEF LinksStand, Lower, OnFile
    <2> QED BY <1>1, <2>1, <2>3 DEF ReviewsStand, NoClicks, FromDashboard, AcceptedStand, Deciding
<1>3. CASE Start # "approved"
    <2>1. ASSUME NEW f \in Findings
          PROVE  latest[f].at = 0 /\ latest[f].action = "none" /\ status[f] # "resolved"
        BY <1>3 DEF Init, NoEvent
    <2> QED BY <1>1, <2>1 DEF ReviewsStand, NoClicks, FromDashboard, AcceptedStand, Deciding, Resolving
<1> QED BY <1>2, <1>3

\* Once drafting is over, one reviewer after the other leaves no accepted fix on
\* a link that is not: the cascade of an edit or a rejection reopens everything
\* drafted on it, below and above, before the next decision, and the event of
\* the decision is later than the approvals it takes back, while the committer
\* records what it landed between any two of these writes.
THEOREM AcceptedChainsStand ==
    /\ DraftingIsOver /\ OneReviewer
    /\ "killed" \notin ApiFaults /\ ClickRequests = {}
    => (Spec => []ResolvedChainsStand)
<1> SUFFICES ASSUME DraftingIsOver, OneReviewer, "killed" \notin ApiFaults, ClickRequests = {}
             PROVE  Spec => []ResolvedChainsStand
    OBVIOUS
<1>1. TypeOK /\ DraftsStand /\ ReviewsStand /\ [Next]_vars => (DraftsStand /\ ReviewsStand)'
    BY DraftsStandStep, ReviewsStandStep
<1>2. TypeOK /\ DraftsStand /\ ReviewsStand => ResolvedChainsStand
    <2> SUFFICES ASSUME TypeOK, DraftsStand, ReviewsStand, Quiet, NEW f \in Findings,
                        status[f] = "resolved", NEW k \in DOMAIN fix[f].after
                 PROVE  LET link == fix[f].after[k]
                        IN status[link.finding] = "resolved" /\ fix[link.finding].diff = link.diff
        BY DEF ResolvedChainsStand
    <2>1. LinksStand(f)
        BY DEF ReviewsStand, AcceptedStand, Quiet, Pending, Settling
    <2>2. fix[f].after[k].finding \in Lower(f) /\ fix[f].after[k].diff = FirstDiff
        BY <2>1, LinksBelow DEF LinksStand
    <2> QED BY <2>1, <2>2 DEF LinksStand
<1> QED BY <1>1, <1>2, DraftsStandBegin, ReviewsBegin, TypeCorrect, PTL DEF Spec

=============================================================================
