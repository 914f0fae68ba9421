--------------------------- MODULE WriteBackProofs ---------------------------
(***************************************************************************)
(* Type correctness of the composition: whatever the components and the    *)
(* people do, in whatever order, every variable keeps its type, and every  *)
(* step of a handler finds what it works on.  And what one drafter leaves  *)
(* while nobody decides on the findings it drafts, whatever is committed,  *)
(* pushed, fetched, scanned and reported meanwhile.                        *)
(***************************************************************************)
EXTENDS WriteBack, CommitterProofs, ReviewProofs, PipelineProofs

----------------------------------------------------------------------------
(* The beginning *)

\* Each rank below a finding, on its file, is somebody's.
LEMMA RankedChosen ==
    ASSUME NEW f \in Findings, NEW k \in 1..Cardinality(Lower(f))
    PROVE  Ranked(k, f) \in Lower(f) /\ Cardinality(Lower(Ranked(k, f))) = k - 1
<1>1. Lower(f) \in SUBSET Findings /\ Lower(f) \in SUBSET Nat
    BY FindingsAssumption DEF Lower, OnFile
<1>2. IsFiniteSet(Lower(f))
    BY <1>1, FS_Subset, FindingsAssumption
<1>3. PICK g \in Lower(f) : Cardinality({h \in Lower(f) : h < g}) = k - 1
    BY <1>1, <1>2, RankExists
<1>4. Lower(g) = {h \in Lower(f) : h < g}
    <2>1. FileOf[g] = FileOf[f] /\ g < f /\ g \in Nat /\ f \in Nat
        BY <1>1, FindingsAssumption DEF Lower, OnFile
    <2>2. \A h \in Findings : h \in Nat
        BY FindingsAssumption
    <2>3. \A h \in Nat : h < g => h < f
        BY <2>1
    <2> QED BY <2>1, <2>2, <2>3 DEF Lower, OnFile
<1> QED BY <1>3, <1>4 DEF Ranked

LEMMA DraftedType ==
    ASSUME NEW f \in Findings, NEW base \in Content, FirstDiff \in Diffs
    PROVE  Drafted(f, base) \in Fix
<1> DEFINE n == Cardinality(Lower(f))
           after == [k \in 1..n |-> [finding |-> Ranked(k, f), diff |-> FirstDiff]]
<1>1. n \in Nat
    <2>1. Lower(f) \in SUBSET Findings
        BY DEF Lower, OnFile
    <2> QED BY <2>1, FS_Subset, FS_CardinalityType, FindingsAssumption
<1>2. ASSUME NEW k \in 1..n PROVE [finding |-> Ranked(k, f), diff |-> FirstDiff] \in Links
    <2>1. Ranked(k, f) \in Findings
        BY RankedChosen DEF Lower, OnFile
    <2> QED BY <2>1 DEF Links
<1>3. after \in Seq(Links)
    <2> HIDE DEF n
    <2>1. after \in [1..n -> Links]
        BY <1>2
    <2> QED BY <1>1, <2>1
<1>4. Drafted(f, base) = [diff |-> FirstDiff, base |-> base, passed |-> TRUE,
                          committed |-> 0, after |-> after]
    BY DEF Drafted
<1> HIDE DEF after
<1> QED BY <1>3, <1>4 DEF Fix

LEMMA InitTypes == Init => TypeOK
<1> SUFFICES ASSUME Init PROVE TypeOK
    OBVIOUS
<1> DEFINE first == [own |-> 1, fixes |-> {}]
           drafted == Start # "scanned"
<1>1. first \in Content
    BY DEF Content
<1>2. [p \in Files |-> first] \in Tree
    BY <1>1 DEF Tree
<1>3. drafted => FirstDiff \in Diffs
    BY StartAssumption, RemediationAssumption DEF FirstDiff
<1>4. branch \in Seq(Commit) /\ branch # <<>> /\ Len(branch) = 1
    <2> DEFINE c == [tree |-> [p \in Files |-> first], by |-> NoRequest, wrote |-> {}]
    <2>1. c \in Commit
        BY <1>2 DEF Commit
    <2>2. branch = <<c>>
        BY DEF Init
    <2> HIDE DEF c
    <2> QED BY <2>1, <2>2
<1>5. snapshot \in Tree
    BY <1>2 DEF Init
<1>6. stored \in [Findings -> Content \cup {NoContent}]
    <2>1. ASSUME drafted, NEW f \in Findings
          PROVE  [first EXCEPT !.fixes = {<<g, FirstDiff>> : g \in Lower(f) \cup {f}}] \in Content
        <3>1. \A g \in Lower(f) \cup {f} : <<g, FirstDiff>> \in Changes
            BY <1>3, <2>1 DEF Changes, Lower, OnFile
        <3> QED BY <1>1, <3>1 DEF Content
    <2>2. stored = [f \in Findings |-> IF ~drafted THEN NoContent ELSE
                [first EXCEPT !.fixes = {<<g, FirstDiff>> : g \in Lower(f) \cup {f}}]]
        BY DEF Init
    <2> HIDE DEF first, drafted
    <2> QED BY <2>1, <2>2
<1>7. status \in [Findings -> Statuses]
    BY DEF Init, Statuses
<1>8. fix \in [Findings -> Fix \cup {NoFix}]
    <2>1. drafted => \A f \in Findings : Drafted(f, first) \in Fix
        BY <1>1, <1>3, DraftedType
    <2>2. fix = [f \in Findings |-> IF drafted THEN Drafted(f, first) ELSE NoFix]
        BY DEF Init
    <2> HIDE DEF first, drafted
    <2> QED BY <2>1, <2>2
<1>9. superseder \in [Findings -> Findings \cup {0}] /\ gone \in [Findings -> BOOLEAN]
    BY DEF Init
<1>10. latest \in [Findings -> Event]
    <2>1. [at |-> 1, suffix |-> Suffix.decision, action |-> "approved"] \in Event
        BY DEF Event, Suffix, Actions
    <2>2. NoEvent \in Event
        BY DEF Event, NoEvent
    <2> QED BY <2>1, <2>2 DEF Init
<1>11. clock \in Nat /\ queued \subseteq Requests
    BY DEF Init
<1>12. request \in [Requests -> Request]
    <2>1. BlankRequest \in Request
        BY DEF BlankRequest, Request
    <2> QED BY <2>1 DEF Init
<1>13. checks \subseteq Check /\ IsFiniteSet(checks)
    BY FS_EmptySet DEF Init
<1>14. approvals \subseteq Changes
    <2>1. drafted => {<<f, FirstDiff>> : f \in Findings} \subseteq Changes
        BY <1>3 DEF Changes
    <2> QED BY <2>1 DEF Init
<1>15. CommitterTypeOK
    <2>1. Blank \in RunOn(1)
        BY DEF Blank, RunOn, Run, Steps
    <2> QED BY <1>4, <2>1 DEF Init, CommitterInit, CommitterTypeOK
<1>16. ReviewTypeOK
    <2>1. NoReview \in DecisionAtStep
        BY DEF NoReview, DecisionAtStep, Decision
    <2>2. NotAsked \in Ask
        BY DEF NotAsked, Ask
    <2> QED BY <2>1, <2>2 DEF Init, ReviewInit, ReviewTypeOK
<1>17. RemediationTypeOK
    BY NoDraftType DEF Init, RemediationInit, RemediationTypeOK
<1>18. PipelineTypeOK
    <2>1. IsFiniteSet({1})
        BY FS_Singleton
    <2>2. fetched = {1} /\ unscanned = FALSE
        BY DEF Init, PipelineInit
    <2>3. IsFiniteSet(fetched)
        BY <2>1, <2>2, Zenon
    <2>4. fetched \subseteq Nat
        BY <2>2
    <2> QED BY <2>2, <2>3, <2>4 DEF PipelineTypeOK
<1> HIDE DEF first, drafted
<1> QED BY <1>4, <1>5, <1>6, <1>7, <1>8, <1>9, <1>10, <1>11, <1>12, <1>13, <1>14, <1>15,
           <1>16, <1>17, <1>18 DEF TypeOK, RecordsTypeOK

----------------------------------------------------------------------------
(* The steps *)

\* A commit that people push.
LEMMA PushTypes ==
    ASSUME TypeOK, \E tree \in Tree : Push(tree)
    PROVE  TypeOK'
<1> PICK tree \in Tree : Push(tree)
    OBVIOUS
<1> DEFINE c == [tree |-> tree, by |-> NoRequest, wrote |-> {}]
           n == Len(branch)
<1>1. c \in Commit
    BY DEF Commit
<1>2. branch \in Seq(Commit) /\ branch' = Append(branch, c)
    BY DEF Push, TypeOK, RecordsTypeOK
<1> HIDE DEF c
<1>3. branch' \in Seq(Commit) /\ branch' # <<>> /\ Len(branch') = n + 1 /\ n \in Nat
    BY <1>1, <1>2
<1>4. RecordsTypeOK'
    BY <1>3 DEF Push, TypeOK, RecordsTypeOK, findingVars, eventVars
<1>5. CommitterTypeOK'
    <2>1. RunOn(n) \subseteq RunOn(n + 1)
        BY <1>3 DEF RunOn
    <2>2. inv' \in [Invocations -> RunOn(n + 1)]
        BY <2>1 DEF Push, TypeOK, CommitterTypeOK, committerVars
    <2> QED BY <1>3, <2>2 DEF Push, TypeOK, CommitterTypeOK, committerVars
<1> QED BY <1>4, <1>5 DEF Push, TypeOK, ReviewTypeOK, RemediationTypeOK, PipelineTypeOK,
            committerVars, reviewVars, remediationVars, pipelineVars

LEMMA NextTypes == TypeOK /\ [Next]_vars => TypeOK'
<1> SUFFICES ASSUME TypeOK, [Next]_vars PROVE TypeOK'
    OBVIOUS
<1>1. CASE CommitterStep
    <2>1. PICK i \in Invocations : (\E r \in Requests : Receive(i, r)) \/ Work(i) \/ Crash(i)
        BY <1>1 DEF CommitterStep, CommitterNext
    <2>2. CommitterTypes'
        BY <2>1, CommitterStepTypes DEF TypeOK, CommitterTypes
    <2> QED BY <1>1, <2>2 DEF CommitterStep, CommitterTypes, TypeOK, ReviewTypeOK,
                RemediationTypeOK, PipelineTypeOK, reviewVars, remediationVars, pipelineVars
<1>2. CASE ReviewStep
    <2>1. ReviewTypes' /\ branch' = branch
        BY <1>2, ReviewStepTypes DEF ReviewStep, TypeOK, ReviewTypes
    <2> QED BY <1>2, <2>1 DEF ReviewStep, ReviewTypes, TypeOK, CommitterTypeOK,
                RemediationTypeOK, PipelineTypeOK, committerVars, remediationVars, pipelineVars
<1>3. CASE PipelineStep
    <2>1. StageTypes' /\ branch' = branch
        BY <1>3, PipelineStepTypes DEF PipelineStep, TypeOK, StageTypes, DraftTypes
    <2> QED BY <1>3, <2>1 DEF PipelineStep, StageTypes, DraftTypes, TypeOK, CommitterTypeOK,
                ReviewTypeOK, committerVars, reviewVars
<1>4. ASSUME \E tree \in Tree : Push(tree) PROVE TypeOK'
    BY <1>4, PushTypes
<1>5. \A k \in DOMAIN branch : branch[k] \in Commit /\ branch[k].tree \in Tree
    <2>1. \A k \in DOMAIN branch : branch[k] \in Commit
        BY DEF TypeOK, RecordsTypeOK
    <2> QED BY <2>1 DEF Commit
<1>6. Len(branch) \in DOMAIN branch /\ Len(branch) + 1 \in Nat /\ HeadTree \in Tree
    <2>1. Len(branch) \in DOMAIN branch /\ Len(branch) + 1 \in Nat
        BY DEF TypeOK, RecordsTypeOK
    <2> QED BY <1>5, <2>1 DEF HeadTree
<1>7. ASSUME NEW files \in SUBSET Files, Edit(files) PROVE TypeOK'
    <2> DEFINE tree == [p \in Files |-> IF p \in files
                            THEN [HeadTree[p] EXCEPT !.own = Len(branch) + 1] ELSE HeadTree[p]]
    <2>1. \A p \in Files : HeadTree[p] \in Content
        BY <1>6 DEF Tree
    <2>2. \A p \in Files : [HeadTree[p] EXCEPT !.own = Len(branch) + 1] \in Content
        BY <1>6, <2>1 DEF Content
    <2>3. tree \in Tree
        BY <2>1, <2>2 DEF Tree
    <2>4. Push(tree)
        BY <1>7 DEF Edit
    <2> HIDE DEF tree
    <2> QED BY <1>4, <2>3, <2>4
<1>8. ASSUME NEW f \in Findings, ApplySuggestions(f) PROVE TypeOK'
    <2>1. stored[f] \in Content
        BY <1>8 DEF ApplySuggestions, TypeOK, RecordsTypeOK
    <2>2. [HeadTree EXCEPT ![FileOf[f]] = stored[f]] \in Tree
        BY <1>6, <2>1, FilesAssumption DEF Tree
    <2> QED BY <1>4, <1>8, <2>2 DEF ApplySuggestions
<1>9. ASSUME NEW k \in DOMAIN branch, Revert(k) PROVE TypeOK'
    BY <1>4, <1>5, <1>9 DEF Revert
<1>10. CASE ClosePullRequest
    BY <1>10 DEF ClosePullRequest, TypeOK, RecordsTypeOK, CommitterTypeOK, ReviewTypeOK,
        RemediationTypeOK, PipelineTypeOK, recordVars, findingVars, eventVars, reviewVars,
        remediationVars, pipelineVars
<1>11. CASE UNCHANGED vars
    BY <1>11 DEF vars, TypeOK, RecordsTypeOK, CommitterTypeOK, ReviewTypeOK,
        RemediationTypeOK, PipelineTypeOK, recordVars, findingVars, eventVars, committerVars,
        reviewVars, remediationVars, pipelineVars
<1> QED BY <1>1, <1>2, <1>3, <1>7, <1>8, <1>9, <1>10, <1>11 DEF Next, PeopleNext

\* Every variable of every component always has its type, and every handler's
\* step what it works on: the finding, the fix, the head, the draft it is about.
THEOREM TypeCorrect == Spec => []TypeOK
BY InitTypes, NextTypes, PTL DEF Spec

----------------------------------------------------------------------------
(* What one drafter leaves that nobody decides beside *)

\* Nobody reviews: what a run drafts is not decided on under it.
NobodyDecides == Decisions = {} \/ MaxDecisions = 0

AllIdle == \A v \in Reviewers : review[v].pc = "idle"

\* Of two findings of a file, fewer are below the lower.
LEMMA LowerIsFewer ==
    ASSUME NEW g \in Findings, NEW f \in Findings, FileOf[g] = FileOf[f], g < f
    PROVE  /\ Cardinality(Lower(g)) \in Nat /\ Cardinality(Lower(f)) \in Nat
           /\ Cardinality(Lower(g)) < Cardinality(Lower(f))
<1>1. \A h \in Findings : h \in Nat
    BY FindingsAssumption
<1>2. Lower(f) \in SUBSET Findings /\ IsFiniteSet(Lower(f)) /\ IsFiniteSet(Lower(g))
    BY FS_Subset, FindingsAssumption DEF Lower, OnFile
<1>3. Lower(g) \in SUBSET Lower(f)
    <2>1. \A h \in Findings : h < g => h < f
        BY <1>1
    <2> QED BY <2>1 DEF Lower, OnFile
<1>4. g \in Lower(f) /\ g \notin Lower(g)
    BY <1>1 DEF Lower, OnFile
<1>5. Cardinality(Lower(g)) <= Cardinality(Lower(f)) /\ Cardinality(Lower(g)) # Cardinality(Lower(f))
    BY <1>2, <1>3, <1>4, FS_Subset
<1> QED BY <1>2, <1>5, FS_CardinalityType

\* The links of the chain that Init drafts are all the findings below.
LEMMA AllAreRanked ==
    ASSUME NEW f \in Findings
    PROVE  {Ranked(k, f) : k \in 1..Cardinality(Lower(f))} = Lower(f)
<1>1. ASSUME NEW g \in Lower(f)
      PROVE  \E k \in 1..Cardinality(Lower(f)) : Ranked(k, f) = g
    <2> DEFINE k == Cardinality(Lower(g)) + 1
    <2>1. g \in Findings /\ FileOf[g] = FileOf[f] /\ g < f /\ \A h \in Findings : h \in Nat
        BY <1>1, FindingsAssumption DEF Lower, OnFile
    <2>2. k \in 1..Cardinality(Lower(f))
        BY <2>1, LowerIsFewer
    <2> HIDE DEF k
    <2>3. PICK h \in Lower(f) : h = Ranked(k, f) /\ Cardinality(Lower(h)) = k - 1
        BY <2>2, RankedChosen
    <2>4. h \in Findings /\ FileOf[h] = FileOf[g] /\ h \in Nat /\ g \in Nat
        BY <2>1, <2>3 DEF Lower, OnFile
    <2>5. IsFiniteSet(Lower(g))
        BY FS_Subset, FindingsAssumption DEF Lower, OnFile
    <2>6. Cardinality(Lower(h)) = Cardinality(Lower(g)) /\ Cardinality(Lower(g)) \in Nat
        BY <2>3, <2>5, FS_CardinalityType DEF k
    <2>7. ~(h < g) /\ ~(g < h)
        BY <2>1, <2>4, <2>6, LowerIsFewer
    <2>8. h = g
        BY <2>4, <2>7
    <2> QED BY <2>2, <2>3, <2>8
<1> QED BY <1>1, RankedChosen

\* Such a draft is what its stored file is made of.
LEMMA DraftedIsChanged ==
    ASSUME NEW f \in Findings, NEW base
    PROVE  Changed(Drafted(f, base).after) = {<<g, FirstDiff>> : g \in Lower(f)}
<1> DEFINE n == Cardinality(Lower(f))
           after == [k \in 1..n |-> [finding |-> Ranked(k, f), diff |-> FirstDiff]]
<1>1. Drafted(f, base).after = after
    BY DEF Drafted
<1>2. Changed(after) = {<<Ranked(k, f), FirstDiff>> : k \in 1..n}
    BY DEF Changed
<1>3. {<<Ranked(k, f), FirstDiff>> : k \in 1..n} = {<<g, FirstDiff>> : g \in {Ranked(k, f) : k \in 1..n}}
    OBVIOUS
<1> HIDE DEF after
<1> QED BY <1>1, <1>2, <1>3, AllAreRanked

LEMMA DraftsBegin == Init => DraftsOK /\ AllIdle
<1> SUFFICES ASSUME Init PROVE DraftsOK /\ AllIdle
    OBVIOUS
<1>1. AllIdle
    BY DEF Init, ReviewInit, NoReview, AllIdle
<1>2. \A w \in Drafters : RunOK(w)
    BY DEF Init, RemediationInit, RunOK, TodoOK, ResumeOK, SeenOK, ChainOK, ClearedOK,
        PendingOK, NoDraft, NoneCleared
<1>3. SupersededOK
    BY DEF Init, SupersededOK
<1> DEFINE first == [own |-> 1, fixes |-> {}]
<1>4. CASE Start = "scanned"
    BY <1>2, <1>3, <1>1, <1>4 DEF Init, DraftsOK, ProposedOK, StoredOK
<1>5. CASE Start # "scanned"
    <2>1. FirstDiff \in Passing /\ FirstDiff \in Diffs
        BY <1>5, StartAssumption, RemediationAssumption DEF FirstDiff
    <2>2. first \in Content
        BY DEF Content
    <2>3. ASSUME NEW f \in Findings
          PROVE  Recorded(f) /\ fix[f].passed /\ fix[f].diff \in Passing
        <3>1. fix[f] = Drafted(f, first) /\ fix[f] \in Fix
            BY <1>5, <2>1, <2>2, DraftedType DEF Init
        <3>2. stored[f] = [first EXCEPT !.fixes = {<<g, FirstDiff>> : g \in Lower(f) \cup {f}}]
            BY <1>5 DEF Init
        <3>3. fix[f].base = first /\ fix[f].diff = FirstDiff /\ fix[f].passed
            BY <3>1 DEF Drafted
        <3>4. Changed(fix[f].after) = {<<g, FirstDiff>> : g \in Lower(f)}
            BY <3>1, DraftedIsChanged
        <3>5. {<<g, FirstDiff>> : g \in Lower(f) \cup {f}}
                = {<<g, FirstDiff>> : g \in Lower(f)} \cup {<<f, FirstDiff>>}
            OBVIOUS
        <3>6. stored[f] = [own |-> 1, fixes |-> Changed(fix[f].after) \cup {<<f, FirstDiff>>}]
            BY <3>2, <3>4, <3>5
        <3>7. stored[f] = Made(f)
            BY <3>3, <3>6 DEF Made
        <3> QED BY <2>1, <3>1, <3>3, <3>7, AbsentAssumption DEF Recorded
    <2> QED BY <1>2, <1>3, <1>1, <2>3 DEF DraftsOK, ProposedOK, StoredOK
<1> QED BY <1>4, <1>5

\* A step of anybody else: what it writes of a fix is its mark, and of a status
\* that a proposed fix is resolved.
LEMMA StillUndisturbed ==
    ASSUME UNCHANGED <<draft, stored, superseder, fix, status>>
    PROVE  Undisturbed
BY DEF Undisturbed, SameFix, SameDraft

LEMMA CommitterUndisturbed ==
    ASSUME TypeOK, CommitterStep
    PROVE  Undisturbed /\ review' = review
<1>1. draft' = draft /\ review' = review
    BY DEF CommitterStep, reviewVars, remediationVars
<1>2. PICK i \in Invocations : (\E r \in Requests : Receive(i, r)) \/ Work(i) \/ Crash(i)
    BY DEF CommitterStep, CommitterNext
<1>3. CASE MarkCommitted(i)
    <2> DEFINE l == NextLink(inv[i].links)
    <2>1. inv[i].links \in SUBSET Link /\ inv[i].links # {}
        BY <1>3 DEF MarkCommitted, TypeOK, CommitterTypeOK, RunOn, Run
    <2>2. PICK m \in Link : m = l
        BY <2>1, NextLinkChosen
    <2>3. m.finding \in Findings /\ m.sha \in Nat
        BY DEF Link
    <2>4. /\ fix[m.finding] # NoFix /\ fix' = [fix EXCEPT ![m.finding].committed = m.sha]
          /\ UNCHANGED <<stored, superseder, status>>
        BY <1>3, <2>2 DEF MarkCommitted
    <2>5. fix \in [Findings -> Fix \cup {NoFix}] /\ fix[m.finding] \in Fix
        BY <2>3, <2>4 DEF TypeOK, RecordsTypeOK
    <2>6. fix'[m.finding] = [fix[m.finding] EXCEPT !.committed = m.sha]
        BY <2>3, <2>4, <2>5
    <2>7. fix'[m.finding] \in Fix
        BY <2>3, <2>5, <2>6 DEF Fix
    <2>8. SameFix(fix[m.finding], fix'[m.finding])
        BY <2>5, <2>6, <2>7, AbsentAssumption DEF SameFix, SameDraft, Fix
    <2>9. \A f \in Findings \ {m.finding} : fix'[f] = fix[f]
        BY <2>3, <2>4, <2>5
    <2>10. \A f \in Findings : SameFix(fix[f], fix'[f])
        BY <2>8, <2>9 DEF SameFix, SameDraft
    <2> QED BY <1>1, <2>4, <2>10 DEF Undisturbed
<1>4. ASSUME NEW offered, AcceptFile(i, offered) PROVE Undisturbed
    <2>1. UNCHANGED <<stored, superseder, fix>>
        BY <1>4 DEF AcceptFile
    <2>2. \A f \in Findings : \/ status'[f] = status[f]
                              \/ status[f] = "fix-proposed" /\ status'[f] = "resolved"
        BY <1>4 DEF AcceptFile
    <2> QED BY <1>1, <2>1, <2>2 DEF Undisturbed, SameFix, SameDraft
<1>5. CASE UNCHANGED <<stored, superseder, fix, status>>
    BY <1>1, <1>5, StillUndisturbed
<1>6. UNCHANGED <<stored, superseder, fix, status>> \/ MarkCommitted(i)
        \/ \E offered \in inv[i].todo : AcceptFile(i, offered)
    BY <1>2 DEF Receive, Work, Crash, Claim, ReadHead, ReadFindings, Accepted, Plan, UpdateRef,
        StepAside, RefRefused, PutCommittedEvent, Finish, FinishRefused, Backstop, recordVars,
        findingVars
<1> QED BY <1>1, <1>3, <1>4, <1>5, <1>6

LEMMA DraftsStep ==
    ASSUME TypeOK, AllIdle, DraftsOK, OneDrafter, NobodyDecides, [Next]_vars
    PROVE  DraftsOK' /\ AllIdle'
<1>1. CASE CommitterStep
    BY <1>1, CommitterUndisturbed, UndisturbedKeeps DEF AllIdle, TypeOK, DraftTypes
<1>2. CASE ReviewStep
    <2>1. ASSUME NEW v \in Reviewers, NEW f, NEW action \in Decisions, NEW diff,
                 Decide(v, f, action, diff)
          PROVE  FALSE
        BY <2>1 DEF Decide, NobodyDecides, TypeOK, ReviewTypeOK
    <2>2. ASSUME NEW v \in Reviewers, Serve(v) \/ DecisionDies(v) PROVE FALSE
        BY <2>2 DEF AllIdle, Serve, DecisionDies, PutDecision, UploadEdit, UpdateFinding,
            ReadDependents, Reopen
    <2>3. PICK r \in Requests : AskCommit(r) \/ HandOver(r) \/ Killed(r)
        BY <1>2, <2>1, <2>2 DEF ReviewStep, ReviewNext
    <2>4. UNCHANGED <<stored, superseder, fix, status>> /\ review' = review
        BY <2>3 DEF AskCommit, HandOver, Killed, RecordRequest, Invoke, InvokeFails,
            MarkNotHandedOver, recordVars, findingVars
    <2> QED BY <1>2, <2>4, StillUndisturbed, UndisturbedKeeps
        DEF ReviewStep, remediationVars, AllIdle, TypeOK, DraftTypes
<1>3. CASE PipelineStep
    <2>1. review' = review
        BY <1>3 DEF PipelineStep, reviewVars
    <2>2. ASSUME NEW w \in Drafters, DraftStep(w) \/ \E file \in Files : Begin(w, file)
          PROVE  DraftsOK'
        BY <2>2, DraftStepKeeps DEF TypeOK, DraftTypes
    <2>3. CASE UNCHANGED <<draft, stored, superseder, fix, status>>
        BY <2>1, <2>3, StillUndisturbed, UndisturbedKeeps DEF AllIdle, TypeOK, DraftTypes
    <2>4. RemediationNext \/ UNCHANGED <<draft, stored, superseder, fix, status>>
        BY <1>3 DEF PipelineStep, PipelineNext, Fetch, Report, Scan, RecordOffer, Click,
            remediationVars, findingVars
    <2> QED BY <2>1, <2>2, <2>3, <2>4 DEF RemediationNext, AllIdle
<1>4. CASE PeopleNext \/ UNCHANGED vars
    <2>1. UNCHANGED <<draft, stored, superseder, fix, status>> /\ review' = review
        BY <1>4 DEF PeopleNext, Edit, ApplySuggestions, Revert, Push, ClosePullRequest, vars,
            recordVars, findingVars, remediationVars, reviewVars
    <2> QED BY <2>1, StillUndisturbed, UndisturbedKeeps DEF AllIdle, TypeOK, DraftTypes
<1> QED BY <1>1, <1>2, <1>3, <1>4 DEF Next

LEMMA DraftsAlways ==
    ASSUME OneDrafter, NobodyDecides
    PROVE  Spec => [](TypeOK /\ DraftsOK /\ AllIdle)
<1>1. Init => TypeOK /\ DraftsOK /\ AllIdle
    BY InitTypes, DraftsBegin
<1>2. TypeOK /\ DraftsOK /\ AllIdle /\ [Next]_vars => (TypeOK /\ DraftsOK /\ AllIdle)'
    BY NextTypes, DraftsStep
<1> QED BY <1>1, <1>2, PTL DEF Spec

\* What is stored under a fix is a file.
LEMMA MadeIsContent ==
    ASSUME TypeOK, NEW f \in Findings, Recorded(f)
    PROVE  stored[f] # NoContent
<1>1. fix[f] \in Fix
    BY DEF Recorded, TypeOK, RecordsTypeOK
<1>2. /\ fix[f].base \in Content /\ fix[f].diff \in Diffs /\ fix[f].after \in Seq(Links)
    BY <1>1 DEF Fix
<1>3. Changed(fix[f].after) \subseteq Changes
    <2>1. \A k \in DOMAIN fix[f].after : fix[f].after[k] \in Links
        BY <1>2
    <2> QED BY <2>1 DEF Changed, Changes, Links
<1>4. Made(f) \in Content
    BY <1>2, <1>3 DEF Made, Content, Changes
<1> QED BY <1>4, AbsentAssumption DEF Recorded

\* One drafter that nobody decides beside leaves every fix's stored file as the
\* record says, provided no draft suppresses the scanner and no run is killed
\* between the two (_upload_corrected and _write_result are two calls).
THEOREM StoredAsRecorded ==
    ASSUME OneDrafter, NobodyDecides, DraftFaults \cap {"suppression", "killed"} = {}
    PROVE  Spec => []StoredIsRecorded
<1>1. TypeOK /\ DraftsOK /\ AllIdle => StoredIsRecorded
    <2> SUFFICES ASSUME TypeOK, DraftsOK, Quiet, NEW f \in Findings, fix[f] # NoFix
                 PROVE  /\ stored[f] # NoContent
                        /\ stored[f].own = fix[f].base.own
                        /\ stored[f].fixes = fix[f].base.fixes \cup {<<f, fix[f].diff>>}
                              \cup Changed(fix[f].after)
        BY DEF StoredIsRecorded, Changed
    <2>1. Recorded(f)
        BY DEF DraftsOK, StoredOK, Quiet
    <2>2. stored[f].own = fix[f].base.own
        BY <2>1 DEF Recorded, Made
    <2>3. stored[f].fixes = fix[f].base.fixes \cup Changed(fix[f].after) \cup {<<f, fix[f].diff>>}
        BY <2>1 DEF Recorded, Made
    <2> QED BY <2>1, <2>2, <2>3, MadeIsContent
<1> QED BY <1>1, DraftsAlways, PTL

\* Nor is what such a run superseded still there: the fix it points to is not
\* waiting to be drafted again, and the scanner does not find it in that fix's
\* file (_already_fixed_by, and the reopening of what a stale fix superseded).
THEOREM SupersededAreCleared ==
    ASSUME OneDrafter, NobodyDecides
    PROVE  Spec => []SupersededIsCleared
<1>1. DraftsOK => SupersededIsCleared
    BY DEF DraftsOK, SupersededOK, Cleared, Standing, SupersededIsCleared
<1> QED BY <1>1, DraftsAlways, PTL

\* What a check run offers of a file that one such drafter works on is the
\* snapshot's file with the changes of the chain it shows and nothing else, and
\* every one of them passed its check.
THEOREM OfferedIsWhole ==
    ASSUME OneDrafter, NobodyDecides
    PROVE  Spec => []OfferIsWhole
<1>1. TypeOK /\ DraftsOK => OfferIsWhole
    <2> SUFFICES ASSUME TypeOK, DraftsOK, NEW file \in Files, Offerable(file)
                 PROVE  LET tip == VerifiedTip(file)
                            chain == ChainOf(tip, fix)
                        IN /\ stored[tip].own = snapshot[file].own
                           /\ stored[tip].fixes = snapshot[file].fixes \cup
                                {<<chain[k], fix[chain[k]].diff>> : k \in DOMAIN chain}
                           /\ \A k \in DOMAIN chain : fix[chain[k]].diff \in Passing
        BY DEF OfferIsWhole, Offer
    <2>1. fix \in Fixes
        BY DEF TypeOK, RecordsTypeOK, Fixes
    <2>2. Verified(file) \in SUBSET Findings /\ \A f \in Verified(file) : fix[f] # NoFix
        BY DEF Verified
    <2>3. PICK tip \in Verified(file) : tip = VerifiedTip(file) /\ ValidChain(tip, Verified(file), fix)
        BY <2>1, <2>2, ChainTipChosen DEF VerifiedTip, Offerable
    <2> DEFINE after == fix[tip].after
               n == Len(after)
               chain == ChainOf(tip, fix)
    <2>4. \A f \in Verified(file) : f \in Findings /\ Recorded(f) /\ fix[f].diff \in Passing
        BY DEF Verified, DraftsOK, ProposedOK
    <2>5. fix[tip] \in Fix /\ after \in Seq(Links) /\ fix[tip].base = snapshot[file]
        BY <2>2, <2>3 DEF TypeOK, RecordsTypeOK, Fix, Offerable
    <2>6. \A k \in 1..n : /\ after[k] \in Links /\ after[k].finding \in Verified(file)
                          /\ fix[after[k].finding].diff = after[k].diff
        BY <2>3, <2>5 DEF ValidChain
    <2>7. /\ n \in Nat /\ DOMAIN chain = 1..(n + 1) /\ chain[n + 1] = tip
          /\ \A k \in 1..n : chain[k] = after[k].finding
        BY <2>5 DEF ChainOf
    <2> HIDE DEF chain
    <2>8. {<<chain[k], fix[chain[k]].diff>> : k \in DOMAIN chain}
            = Changed(after) \cup {<<tip, fix[tip].diff>>}
        <3>1. \A k \in 1..n : <<chain[k], fix[chain[k]].diff>> = <<after[k].finding, after[k].diff>>
            BY <2>6, <2>7
        <3>2. Changed(after) = {<<after[k].finding, after[k].diff>> : k \in 1..n}
            BY <2>5 DEF Changed
        <3>3. 1..(n + 1) = (1..n) \cup {n + 1}
            BY <2>7
        <3> HIDE DEF after, n
        <3> QED BY <2>7, <3>1, <3>2, <3>3
    <2>9. \A k \in DOMAIN chain : fix[chain[k]].diff \in Passing
        <3>1. \A k \in 1..(n + 1) : k \in 1..n \/ k = n + 1
            BY <2>7
        <3> QED BY <2>3, <2>4, <2>6, <2>7, <3>1
    <2>10. /\ stored[tip].own = snapshot[file].own
           /\ stored[tip].fixes = snapshot[file].fixes \cup Changed(after) \cup {<<tip, fix[tip].diff>>}
        <3>1. stored[tip] = [own |-> snapshot[file].own,
                             fixes |-> snapshot[file].fixes \cup Changed(after)
                                        \cup {<<tip, fix[tip].diff>>}]
            BY <2>4, <2>5 DEF Recorded, Made
        <3> QED BY <3>1
    <2> QED BY <2>3, <2>8, <2>9, <2>10 DEF chain
<1> QED BY <1>1, DraftsAlways, PTL

=============================================================================
