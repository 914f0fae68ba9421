--------------------------- MODULE CommitterProofs ---------------------------
(***************************************************************************)
(* Type correctness of the committer: every step of an invocation leaves   *)
(* the records and the invocations with their types.                       *)
(***************************************************************************)
EXTENDS Committer, RecordsProofs

----------------------------------------------------------------------------
(* What plan_commit's plans become *)

LEMMA FilteredType ==
    ASSUME NEW p \in PlanOfFile, NEW i
    PROVE  /\ Filtered(p, i) \in PlanOfFile
           /\ Filtered(p, i) \in {p, Hold(p), [p EXCEPT !.outcome = "committed"]}
BY DEF Filtered, Hold, PlanOfFile

LEMMA LinksOfType ==
    ASSUME NEW plans \in SUBSET PlanOfFile, NEW sha \in Nat, NEW head \in Nat
    PROVE  LinksOf(plans, sha, head) \in SUBSET Link
<1>1. ASSUME NEW p \in plans, NEW k \in DOMAIN p.chain
      PROVE  [file |-> p.file, index |-> k, finding |-> p.chain[k],
              sha |-> LandedIn(p, sha, head)] \in Link
    <2>1. p.file \in Files /\ p.chain \in Seq(Findings)
        BY DEF PlanOfFile
    <2>2. k \in Nat /\ p.chain[k] \in Findings
        BY <2>1
    <2>3. LandedIn(p, sha, head) \in Nat
        BY DEF LandedIn
    <2> QED BY <2>1, <2>2, <2>3 DEF Link
<1> QED BY <1>1 DEF LinksOf

LEMMA ToWriteType ==
    ASSUME NEW plans \in SUBSET PlanOfFile
    PROVE  ToWrite(plans) \in SUBSET Replacement
BY DEF ToWrite, PlanOfFile, Replacement

\* The new tree has every file, each as written or as it was.
LEMMA WrittenType ==
    ASSUME NEW writes \in SUBSET Replacement, NEW tree \in Tree
    PROVE  Written(writes, tree) \in Tree
<1>1. ASSUME NEW p \in Files, \E w \in writes : w.file = p
      PROVE  (CHOOSE w \in writes : w.file = p).content \in Content
    <2>1. (CHOOSE w \in writes : w.file = p) \in writes
        BY <1>1
    <2> QED BY <2>1 DEF Replacement
<1> QED BY <1>1 DEF Written, Tree

\* There is a next link to record as long as there is any: the first of the
\* first file.
LEMMA NextLinkChosen ==
    ASSUME NEW links \in SUBSET Link, links # {}
    PROVE  NextLink(links) \in links
<1> DEFINE files == {l.file : l \in links}
<1>1. \A l \in links : l.file \in Nat /\ l.index \in Nat
    BY FilesAssumption DEF Link
<1>2. PICK p \in files : \A q \in files : p <= q
    <2>1. files \in SUBSET Nat /\ files # {}
        BY <1>1
    <2> HIDE DEF files
    <2> QED BY <2>1, LeastExists
<1> DEFINE indices == {l.index : l \in {m \in links : m.file = p}}
<1>3. PICK k \in indices : \A j \in indices : k <= j
    <2>1. indices \in SUBSET Nat /\ indices # {}
        BY <1>1, <1>2
    <2> HIDE DEF indices
    <2> QED BY <2>1, LeastExists
<1>4. PICK l \in links : l.file = p /\ l.index = k
    BY <1>3
<1>5. ASSUME NEW m \in links
      PROVE  l.file < m.file \/ (l.file = m.file /\ l.index <= m.index)
    <2>1. p <= m.file
        BY <1>2
    <2>2. m.file = p => k <= m.index
        BY <1>3
    <2> QED BY <1>1, <1>4, <2>1, <2>2
<1> QED BY <1>5 DEF NextLink

----------------------------------------------------------------------------
(* The steps of an invocation *)

\* The types the committer works with, and those its steps leave alone.
CommitterTypes == RecordsTypeOK /\ CommitterTypeOK

LEMMA RunReplaced ==
    ASSUME NEW n \in Nat, NEW m \in Nat, n <= m
    PROVE  \A runs \in [Invocations -> RunOn(n)], i \in Invocations, run \in RunOn(m) :
                [runs EXCEPT ![i] = run] \in [Invocations -> RunOn(m)]
<1>1. RunOn(n) \subseteq RunOn(m)
    BY DEF RunOn
<1> QED BY <1>1

LEMMA BlankRun ==
    ASSUME NEW n \in Nat, NEW pc \in {"again", "gaveUp", "done"},
           NEW r \in Requests, NEW tries \in Nat
    PROVE  [Blank EXCEPT !.pc = pc, !.req = r, !.tries = tries] \in RunOn(n)
BY DEF Blank, RunOn, Run, Steps

\* The request a click makes of itself when its run starts.
LEMMA ClickedRequestType ==
    ASSUME RecordsTypeOK, NEW r \in Requests
    PROVE  ClickedRequest(r) \in Request
<1> DEFINE offers == {c \in checks : c.id = request[r].check /\ c.recorded}
           offer  == CHOOSE c \in offers : TRUE
<1>1. request[r] \in Request
    BY DEF RecordsTypeOK
<1>2. offers # {} => offer \in Check
    BY DEF RecordsTypeOK
<1>3. offers # {} => offer.head \in Nat /\ offer.files \in SUBSET Confirmation
    <2> HIDE DEF offer
    <2> QED BY <1>2 DEF Check
<1>4. [request[r] EXCEPT !.status = "held"] \in Request
    BY <1>1 DEF Request, Ended
<1>5. offers # {} => [request[r] EXCEPT !.status = "requested", !.offerHead = offer.head,
                               !.confirmed = offer.files] \in Request
    <2> HIDE DEF offer
    <2> QED BY <1>1, <1>3 DEF Request, Active
<1> HIDE DEF offer
<1> QED BY <1>1, <1>4, <1>5 DEF ClickedRequest, offer

LEMMA RequestReplaced ==
    ASSUME RecordsTypeOK, NEW r \in Requests
    PROVE  \A rec \in Request : [request EXCEPT ![r] = rec] \in [Requests -> Request]
BY DEF RecordsTypeOK

LEMMA StatusReplaced ==
    ASSUME RecordsTypeOK, NEW r \in Requests
    PROVE  \A s \in Active \cup Ended :
                [request EXCEPT ![r].status = s] \in [Requests -> Request]
<1>1. request[r] \in Request
    BY DEF RecordsTypeOK
<1>2. \A s \in Active \cup Ended : [request[r] EXCEPT !.status = s] \in Request
    BY <1>1 DEF Request
<1>3. \A s : [request EXCEPT ![r].status = s] = [request EXCEPT ![r] = [request[r] EXCEPT !.status = s]]
    OBVIOUS
<1> QED BY <1>2, <1>3, RequestReplaced

\* Every step of an invocation keeps the types, its own and the records'.
LEMMA CommitterStepTypes ==
    ASSUME CommitterTypes, NEW i \in Invocations,
           (\E r \in Requests : Receive(i, r)) \/ Work(i) \/ Crash(i)
    PROVE  CommitterTypes'
<1> DEFINE n == Len(branch)
<1>1. n \in Nat \ {0} /\ 1..n = DOMAIN branch
    BY DEF CommitterTypes, RecordsTypeOK
<1>2. inv[i] \in RunOn(n)
    BY DEF CommitterTypes, CommitterTypeOK
<1>3. \A run \in RunOn(n) : (Go(i, run) /\ branch' = branch) =>
            inv' \in [Invocations -> RunOn(Len(branch'))]
    <2> TAKE run \in RunOn(n)
    <2> HAVE Go(i, run) /\ branch' = branch
    <2> QED BY <1>1, RunReplaced DEF CommitterTypes, CommitterTypeOK, Go
<1>4. inv[i].pc # "idle" => Req(i) \in Requests
    BY <1>2 DEF RunOn, Req
<1>5. (Req(i) \in Requests /\ End(i) /\ branch' = branch) =>
            inv' \in [Invocations -> RunOn(Len(branch'))]
    <2> SUFFICES ASSUME Req(i) \in Requests PROVE [Blank EXCEPT !.pc = "done", !.req = Req(i)] \in RunOn(n)
        BY <1>3 DEF End
    <2> QED BY DEF Blank, RunOn, Run, Steps
<1>6. \A k \in DOMAIN branch : branch[k] \in Commit
    BY DEF CommitterTypes, RecordsTypeOK
<1> HIDE DEF n
<1>7. ASSUME NEW r \in Requests, Receive(i, r) PROVE CommitterTypes'
    <2> DEFINE recorded == IF request[r].source = "github" THEN ClickedRequest(r)
                           ELSE request[r]
    <2>1. recorded \in Request
        BY ClickedRequestType DEF CommitterTypes, RecordsTypeOK
    <2>2. request' \in [Requests -> Request]
        <3>1. request' = [request EXCEPT ![r] = recorded]
            BY <1>7 DEF Receive
        <3> HIDE DEF recorded
        <3> QED BY <2>1, <3>1, RequestReplaced DEF CommitterTypes
    <2>3. [Blank EXCEPT !.req = r, !.tries = inv[i].tries,
                        !.pc = IF recorded.status \in Active THEN "claim" ELSE "done"] \in RunOn(n)
        <3>1. inv[i].tries \in Nat
            BY <1>2 DEF RunOn, Run
        <3> DEFINE pc == IF recorded.status \in Active THEN "claim" ELSE "done"
        <3>2. pc \in {"claim", "done"}
            OBVIOUS
        <3> HIDE DEF pc
        <3>3. [Blank EXCEPT !.req = r, !.tries = inv[i].tries, !.pc = pc] \in RunOn(n)
            BY <3>1, <3>2 DEF Blank, RunOn, Run, Steps
        <3> QED BY <3>3 DEF pc
    <2>4. inv' \in [Invocations -> RunOn(Len(branch'))]
        BY <1>3, <1>7, <2>3 DEF Receive
    <2> QED BY <1>7, <2>2, <2>4
            DEF Receive, CommitterTypes, RecordsTypeOK, CommitterTypeOK, findingVars, eventVars
<1>8. CASE Claim(i)
    <2>1. inv[i].pc = "claim"
        BY <1>8 DEF Claim, At
    <2>2. request' \in [Requests -> Request]
        <3>1. Req(i) \in Requests /\ RecordsTypeOK
            BY <1>4, <2>1 DEF CommitterTypes
        <3>2. [request EXCEPT ![Req(i)].status = "committing"] \in [Requests -> Request]
            BY <3>1, StatusReplaced DEF Active
        <3> QED BY <1>8, <3>1, <3>2 DEF Claim, RecordsTypeOK
    <2>3. [inv[i] EXCEPT !.pc = "head", !.retry = ~(request[Req(i)].status = "requested")] \in RunOn(n)
        BY <1>2, <2>1 DEF RunOn, Run, Steps
    <2>4. inv' \in [Invocations -> RunOn(Len(branch'))]
        BY <1>3, <1>8, <2>3 DEF Claim
    <2> QED BY <1>8, <2>2, <2>4
            DEF Claim, CommitterTypes, RecordsTypeOK, CommitterTypeOK, findingVars, eventVars
<1>9. CASE ReadHead(i)
    <2> DEFINE onHead == inv[i].retry /\ HasTrailer(Len(branch), Req(i))
    <2>1. [inv[i] EXCEPT !.pc = "refuse"] \in RunOn(n)
        BY <1>2, <1>9 DEF ReadHead, At, RunOn, Run, Steps
    <2>2. onHead \in BOOLEAN
        BY <1>2 DEF RunOn, Run
    <2>3. [inv[i] EXCEPT !.pc = "find", !.head = Len(branch), !.onHead = onHead] \in RunOn(n)
        <3> HIDE DEF onHead
        <3>1. n \in Nat /\ n \in 1..n
            BY <1>1
        <3>2. [inv[i] EXCEPT !.pc = "find", !.head = n, !.onHead = onHead] \in RunOn(n)
            BY <1>2, <1>9, <2>2, <3>1 DEF ReadHead, At, RunOn, Run, Steps
        <3> QED BY <3>2 DEF n
    <2>4. inv' \in [Invocations -> RunOn(Len(branch'))]
        BY <1>3, <1>9, <2>1, <2>3 DEF ReadHead, recordVars
    <2> QED BY <1>9, <2>4 DEF ReadHead, CommitterTypes, RecordsTypeOK, CommitterTypeOK,
                recordVars, findingVars, eventVars
<1>10. CASE ReadFindings(i)
    <2> DEFINE seen == [status |-> status, fix |-> fix, gone |-> gone]
    <2>1. seen \in Seen
        BY DEF CommitterTypes, RecordsTypeOK, Seen
    <2>2. inv[i].pc = "find" /\ Req(i) \in Requests
        BY <1>4, <1>10 DEF ReadFindings, At
    <2>3. request[Req(i)].confirmed \in SUBSET Confirmation
        BY <2>2 DEF CommitterTypes, RecordsTypeOK, Request
    <2> DEFINE click == request[Req(i)].source = "github"
    <2>4. [inv[i] EXCEPT !.pc = IF click THEN "accept" ELSE "plan", !.seen = seen,
              !.todo = IF click THEN request[Req(i)].confirmed ELSE {}] \in RunOn(n)
        <3> HIDE DEF seen, click
        <3> QED BY <1>2, <2>1, <2>2, <2>3 DEF RunOn, Run, Steps
    <2>5. inv' \in [Invocations -> RunOn(Len(branch'))]
        BY <1>3, <1>10, <2>4 DEF ReadFindings, recordVars
    <2> QED BY <1>10, <2>5 DEF ReadFindings, CommitterTypes, RecordsTypeOK, CommitterTypeOK,
                recordVars, findingVars, eventVars
<1>11. ASSUME NEW offered \in inv[i].todo, AcceptFile(i, offered) PROVE CommitterTypes'
    <2> DEFINE r == Req(i)
               chain == {offered.chain[k] : k \in DOMAIN offered.chain}
    <2>1. inv[i].pc = "accept" /\ r \in Requests /\ inv[i].seen \in Seen /\ inv[i] \in Run
        BY <1>2, <1>4, <1>11 DEF AcceptFile, At, RunOn
    <2>2. offered \in Confirmation
        BY <2>1 DEF Run
    <2>3. chain \in SUBSET Findings
        BY <2>2 DEF Confirmation
    <2>4. /\ [inv[i] EXCEPT !.todo = @ \ {offered}] \in RunOn(n)
          /\ [inv[i] EXCEPT !.todo = @ \ {offered}, !.changed = @ \cup {offered}] \in RunOn(n)
        BY <1>2, <2>1, <2>2 DEF RunOn, Run
    <2>5. inv' \in [Invocations -> RunOn(Len(branch'))]
        BY <1>3, <1>11, <2>4 DEF AcceptFile
    <2>6. CASE StillOffered(offered, inv[i].seen)
        <3> USE <2>6
        <3>1. latest' \in [Findings -> Event]
            <4>1. request[r].at \in Nat
                BY <2>1 DEF CommitterTypes, RecordsTypeOK, Request
            <4>2. \A f \in Findings : latest[f] \in Event
                BY DEF CommitterTypes, RecordsTypeOK
            <4>3. \A f \in Findings :
                    After(latest[f], request[r].at, Suffix.github, "approved") \in Event
                <5>1. Suffix.github \in 0..3 /\ "approved" \in Actions \cup {"none"}
                    BY DEF Suffix, Actions
                <5> QED BY <4>1, <4>2, <5>1, AfterType
            <4>4. latest' = [f \in Findings |-> IF f \in chain
                    THEN After(latest[f], request[r].at, Suffix.github, "approved")
                    ELSE latest[f]]
                BY <1>11 DEF AcceptFile
            <4> QED BY <4>2, <4>3, <4>4
        <3>2. status' \in [Findings -> Statuses]
            BY <1>11 DEF AcceptFile, CommitterTypes, RecordsTypeOK, Statuses
        <3>3. approvals' \in SUBSET Changes
            <4>1. \A f \in chain : inv[i].seen.fix[f] \in Fix
                BY <2>1, <2>2, <2>3 DEF StillOffered, Seen
            <4>2. \A f \in chain : <<f, inv[i].seen.fix[f].diff>> \in Changes
                BY <2>3, <4>1 DEF Changes, Fix
            <4>3. approvals' = approvals \cup {<<f, inv[i].seen.fix[f].diff>> : f \in chain}
                BY <1>11 DEF AcceptFile
            <4> QED BY <4>2, <4>3 DEF CommitterTypes, RecordsTypeOK
        <3> QED BY <1>11, <2>5, <3>1, <3>2, <3>3
                DEF AcceptFile, CommitterTypes, RecordsTypeOK, CommitterTypeOK
    <2>7. CASE ~StillOffered(offered, inv[i].seen)
        BY <1>11, <2>5, <2>7 DEF AcceptFile, CommitterTypes, RecordsTypeOK, CommitterTypeOK
    <2> QED BY <2>6, <2>7
<1>12. CASE Accepted(i)
    <2>1. [inv[i] EXCEPT !.pc = "plan"] \in RunOn(n)
        BY <1>2, <1>12 DEF Accepted, At, RunOn, Run, Steps
    <2>2. inv' \in [Invocations -> RunOn(Len(branch'))]
        BY <1>3, <1>12, <2>1 DEF Accepted, recordVars
    <2> QED BY <1>12, <2>2 DEF Accepted, CommitterTypes, RecordsTypeOK, CommitterTypeOK,
                recordVars, findingVars, eventVars
<1>13. \A plans \in SUBSET PlanOfFile, sha, now, m \in Nat :
            [inv[i] EXCEPT !.pc = "mark", !.plans = plans, !.sha = sha, !.now = now,
                           !.seen = <<>>, !.changed = {},
                           !.links = LinksOf(plans, sha, inv[i].head)] \in RunOn(m)
               \/ inv[i].pc = "idle"
    <2> TAKE plans \in SUBSET PlanOfFile, sha, now, m \in Nat
    <2>1. inv[i] \in Run /\ inv[i].head \in Nat
        BY <1>2 DEF RunOn, Run
    <2>2. LinksOf(plans, sha, inv[i].head) \in SUBSET Link
        BY <2>1, LinksOfType
    <2> QED BY <1>2, <2>1, <2>2 DEF RunOn, Run, Steps
<1>14. CASE Plan(i)
    <2> DEFINE seen  == inv[i].seen
               tree  == branch[inv[i].head].tree
               asIs  == PlanCommit(seen.fix, seen.gone, latest, stored, tree)
               plans == {Filtered(p, i) : p \in {q \in asIs : InScope(q, i)}}
    <2>1. /\ inv[i].pc = "plan" /\ seen \in Seen
          /\ inv[i].head \in DOMAIN branch /\ inv[i].head \in Nat
        BY <1>1, <1>2, <1>14 DEF Plan, At, RunOn
    <2>2. asIs \in SUBSET PlanOfFile
        <3>1. tree \in Tree
            BY <1>6, <2>1 DEF Commit
        <3>2. stored \in [Findings -> Content \cup {NoContent}]
            BY DEF CommitterTypes, RecordsTypeOK
        <3>3. seen.fix \in Fixes
            BY <2>1 DEF Seen, Fixes
        <3> QED BY <3>1, <3>2, <3>3, PlanCommitType
    <2>3. plans \in SUBSET PlanOfFile
        <3> HIDE DEF asIs
        <3> QED BY <2>2, FilteredType
    <2> HIDE DEF plans
    <2>4. CASE ~inv[i].onHead /\ \E p \in plans : p.outcome = "commit"
        <3>1. [inv[i] EXCEPT !.pc = "push", !.plans = plans, !.seen = <<>>,
                             !.changed = {}] \in RunOn(n)
            BY <1>2, <2>1, <2>3 DEF RunOn, Run, Steps
        <3>2. Go(i, [inv[i] EXCEPT !.pc = "push", !.plans = plans,
                                   !.seen = <<>>, !.changed = {}]) /\ UNCHANGED clock
            BY <1>14, <2>4 DEF Plan, plans
        <3>3. inv' \in [Invocations -> RunOn(Len(branch'))]
            BY <1>3, <1>14, <3>1, <3>2 DEF Plan
        <3> QED BY <1>14, <3>2, <3>3 DEF Plan, CommitterTypes, RecordsTypeOK,
                    CommitterTypeOK, findingVars
    <2>5. CASE ~(~inv[i].onHead /\ \E p \in plans : p.outcome = "commit")
        <3> DEFINE sha == IF inv[i].onHead THEN inv[i].head ELSE 0
        <3>1. sha \in Nat /\ clock + 1 \in Nat
            BY <2>1 DEF CommitterTypes, RecordsTypeOK
        <3>2. StartRecord(i, plans, sha)
            BY <1>14, <2>5 DEF Plan, plans
        <3> HIDE DEF sha
        <3>3. inv' \in [Invocations -> RunOn(Len(branch'))]
            BY <1>1, <1>3, <1>13, <1>14, <2>1, <2>3, <3>1, <3>2 DEF Plan, StartRecord, n
        <3> QED BY <1>14, <3>1, <3>2, <3>3 DEF Plan, StartRecord, CommitterTypes,
                    RecordsTypeOK, CommitterTypeOK, findingVars
    <2> QED BY <2>4, <2>5
<1>15. CASE UpdateRef(i)
    <2> DEFINE plans == {IF p.outcome = "commit" THEN [p EXCEPT !.outcome = "committed"]
                         ELSE p : p \in inv[i].plans}
    <2>1. /\ inv[i].pc = "push" /\ inv[i].head \in DOMAIN branch
          /\ inv[i].plans \in SUBSET PlanOfFile /\ Req(i) \in Requests
        BY <1>1, <1>2, <1>4, <1>15 DEF UpdateRef, At, RunOn, Run
    <2>2. NewCommit(i) \in Commit
        <3>1. branch[inv[i].head].tree \in Tree
            BY <1>6, <2>1 DEF Commit
        <3>2. ToWrite(inv[i].plans) \in SUBSET Replacement
            BY <2>1, ToWriteType
        <3>3. Written(ToWrite(inv[i].plans), branch[inv[i].head].tree) \in Tree
            BY <3>1, <3>2, WrittenType
        <3> QED BY <2>1, <3>2, <3>3 DEF NewCommit, Commit
    <2>3. /\ branch' = Append(branch, NewCommit(i))
          /\ StartRecord(i, plans, n + 1)
        BY <1>15 DEF UpdateRef, n
    <2>4. branch' \in Seq(Commit) /\ branch' # <<>> /\ Len(branch') = n + 1
        BY <2>2, <2>3 DEF CommitterTypes, RecordsTypeOK, n
    <2>5. plans \in SUBSET PlanOfFile
        BY <2>1 DEF PlanOfFile
    <2> HIDE DEF plans
    <2>6. clock + 1 \in Nat /\ clock' = clock + 1
        BY <2>3 DEF StartRecord, CommitterTypes, RecordsTypeOK
    <2> DEFINE run == [inv[i] EXCEPT !.pc = "mark", !.plans = plans, !.sha = n + 1,
                            !.now = clock + 1, !.seen = <<>>, !.changed = {},
                            !.links = LinksOf(plans, n + 1, inv[i].head)]
    <2>7. run \in RunOn(n + 1)
        <3>1. n + 1 \in Nat /\ inv[i].pc # "idle"
            BY <1>1, <2>1
        <3> QED BY <1>13, <2>5, <2>6, <3>1
    <2>8. inv' = [inv EXCEPT ![i] = run]
        BY <2>3 DEF StartRecord, Go
    <2> HIDE DEF run
    <2>9. inv' \in [Invocations -> RunOn(n + 1)]
        BY <1>1, <2>7, <2>8, RunReplaced DEF CommitterTypes, CommitterTypeOK, n
    <2> QED BY <1>15, <2>4, <2>6, <2>9 DEF UpdateRef, CommitterTypes, RecordsTypeOK,
                CommitterTypeOK, findingVars
<1>16. CASE StepAside(i)
    <2>1. inv' \in [Invocations -> RunOn(Len(branch'))]
        BY <1>4, <1>5, <1>16 DEF StepAside, At, recordVars
    <2> QED BY <1>16, <2>1 DEF StepAside, CommitterTypes, RecordsTypeOK, CommitterTypeOK,
                recordVars, findingVars, eventVars
<1>17. CASE RefRefused(i)
    <2>1. [inv[i] EXCEPT !.pc = "refuse"] \in RunOn(n)
        BY <1>2, <1>17 DEF RefRefused, At, RunOn, Run, Steps
    <2>2. inv' \in [Invocations -> RunOn(Len(branch'))]
        BY <1>3, <1>17, <2>1 DEF RefRefused, recordVars
    <2> QED BY <1>17, <2>2 DEF RefRefused, CommitterTypes, RecordsTypeOK, CommitterTypeOK,
                recordVars, findingVars, eventVars
<1>18. CASE MarkCommitted(i)
    <2> DEFINE l == NextLink(inv[i].links)
    <2>1. l \in Link
        BY <1>2, <1>18, NextLinkChosen DEF MarkCommitted, RunOn, Run
    <2>2. l.finding \in Findings /\ l.sha \in Nat /\ fix[l.finding] # NoFix
        BY <1>18, <2>1 DEF MarkCommitted, Link
    <2>3. fix' = [fix EXCEPT ![l.finding].committed = l.sha]
        BY <1>18 DEF MarkCommitted
    <2> HIDE DEF l
    <2>4. fix' \in [Findings -> Fix \cup {NoFix}]
        <3>1. fix \in [Findings -> Fix \cup {NoFix}] /\ fix[l.finding] \in Fix
            BY <2>2 DEF CommitterTypes, RecordsTypeOK
        <3>2. [fix[l.finding] EXCEPT !.committed = l.sha] \in Fix
            BY <2>2, <3>1 DEF Fix
        <3> QED BY <2>2, <2>3, <3>1, <3>2
    <2>5. [inv[i] EXCEPT !.pc = "event"] \in RunOn(n)
        BY <1>2, <1>18 DEF MarkCommitted, At, RunOn, Run, Steps
    <2>6. inv' \in [Invocations -> RunOn(Len(branch'))]
        BY <1>3, <1>18, <2>5 DEF MarkCommitted
    <2> QED BY <1>18, <2>4, <2>6 DEF MarkCommitted, CommitterTypes, RecordsTypeOK,
                CommitterTypeOK, eventVars
<1>19. CASE PutCommittedEvent(i)
    <2> DEFINE l == NextLink(inv[i].links)
    <2>1. inv[i].pc = "event" /\ inv[i].links \in SUBSET Link /\ inv[i].links # {} /\ inv[i].now \in Nat
        BY <1>2, <1>19 DEF PutCommittedEvent, At, RunOn, Run
    <2>2. l.finding \in Findings
        BY <2>1, NextLinkChosen DEF Link
    <2>3. latest' = [latest EXCEPT ![l.finding] =
                        After(@, inv[i].now, Suffix.committed, "committed")]
        BY <1>19 DEF PutCommittedEvent
    <2>4. [inv[i] EXCEPT !.pc = "mark", !.links = @ \ {l}] \in RunOn(n)
        <3> HIDE DEF l
        <3> QED BY <1>2, <2>1 DEF RunOn, Run, Steps
    <2>5. inv' \in [Invocations -> RunOn(Len(branch'))]
        BY <1>3, <1>19, <2>4 DEF PutCommittedEvent
    <2> HIDE DEF l
    <2>6. latest' \in [Findings -> Event]
        <3>1. latest \in [Findings -> Event] /\ latest[l.finding] \in Event
            BY <2>2 DEF CommitterTypes, RecordsTypeOK
        <3>2. Suffix.committed \in 0..3 /\ "committed" \in Actions \cup {"none"}
            BY DEF Suffix, Actions
        <3>3. After(latest[l.finding], inv[i].now, Suffix.committed, "committed") \in Event
            BY <2>1, <3>1, <3>2, AfterType
        <3> QED BY <2>2, <2>3, <3>1, <3>3
    <2> QED BY <1>19, <2>5, <2>6 DEF PutCommittedEvent, CommitterTypes, RecordsTypeOK,
                CommitterTypeOK, findingVars
<1>20. CASE Finish(i)
    <2> DEFINE landed == {p \in inv[i].plans : p.outcome \in {"committed", "already"}}
               files  == {[file |-> p.file, content |-> p.content] : p \in landed}
               ending == IF landed = {} THEN "held" ELSE "committed"
    <2>1. Req(i) \in Requests /\ inv[i].plans \in SUBSET PlanOfFile /\ inv[i].sha \in Nat
        BY <1>2, <1>4, <1>20 DEF Finish, At, RunOn, Run
    <2>2. files \in SUBSET Landed
        BY <2>1 DEF Landed, PlanOfFile
    <2>3. ending \in Ended
        BY DEF Ended
    <2>4. request' = IF ~MayEnd(Req(i)) THEN request
                     ELSE [request EXCEPT ![Req(i)] = [@ EXCEPT
                        !.status = ending, !.sha = inv[i].sha, !.landed = files]]
        BY <1>20 DEF Finish
    <2> HIDE DEF files, ending
    <2>5. request' \in [Requests -> Request]
        <3>1. request \in [Requests -> Request] /\ request[Req(i)] \in Request
            BY <2>1 DEF CommitterTypes, RecordsTypeOK
        <3>2. [request[Req(i)] EXCEPT !.status = ending, !.sha = inv[i].sha,
                                      !.landed = files] \in Request
            BY <2>1, <2>2, <2>3, <3>1 DEF Request
        <3> QED BY <2>1, <2>4, <3>1, <3>2
    <2>6. inv' \in [Invocations -> RunOn(Len(branch'))]
        BY <1>5, <1>20, <2>1 DEF Finish
    <2> QED BY <1>20, <2>5, <2>6 DEF Finish, CommitterTypes, RecordsTypeOK, CommitterTypeOK,
                findingVars, eventVars
<1>21. CASE FinishRefused(i)
    <2>1. Req(i) \in Requests
        BY <1>4, <1>21 DEF FinishRefused, At
    <2>2. request' \in [Requests -> Request]
        BY <1>21, <2>1, StatusReplaced DEF FinishRefused, CommitterTypes, RecordsTypeOK, Ended
    <2>3. inv' \in [Invocations -> RunOn(Len(branch'))]
        BY <1>5, <1>21, <2>1 DEF FinishRefused
    <2> QED BY <1>21, <2>2, <2>3 DEF FinishRefused, CommitterTypes, RecordsTypeOK,
                CommitterTypeOK, findingVars, eventVars
<1>22. CASE Backstop(i)
    <2>1. Req(i) \in Requests
        BY <1>4, <1>22 DEF Backstop, At
    <2>2. request' \in [Requests -> Request]
        BY <1>22, <2>1, StatusReplaced DEF Backstop, CommitterTypes, RecordsTypeOK, Ended
    <2>3. inv' \in [Invocations -> RunOn(Len(branch'))]
        BY <1>5, <1>22, <2>1 DEF Backstop
    <2> QED BY <1>22, <2>2, <2>3 DEF Backstop, CommitterTypes, RecordsTypeOK,
                CommitterTypeOK, findingVars, eventVars
<1>23. CASE Crash(i)
    <2>1. Req(i) \in Requests /\ inv[i].tries + 1 \in Nat
        BY <1>2, <1>4, <1>23 DEF Crash, At, RunOn, Run
    <2>2. PICK next \in {"again", "gaveUp"} :
            Go(i, [Blank EXCEPT !.pc = next, !.req = Req(i), !.tries = inv[i].tries + 1])
        BY <1>23 DEF Crash
    <2>3. [Blank EXCEPT !.pc = next, !.req = Req(i), !.tries = inv[i].tries + 1] \in RunOn(n)
        BY <2>1, BlankRun, <1>1 DEF n
    <2>4. inv' \in [Invocations -> RunOn(Len(branch'))]
        BY <1>3, <1>23, <2>2, <2>3 DEF Crash, recordVars
    <2> QED BY <1>23, <2>4 DEF Crash, CommitterTypes, RecordsTypeOK, CommitterTypeOK,
                recordVars, findingVars, eventVars
<1> QED BY <1>7, <1>8, <1>9, <1>10, <1>11, <1>12, <1>14, <1>15, <1>16, <1>17, <1>18,
            <1>19, <1>20, <1>21, <1>22, <1>23 DEF Work

=============================================================================
