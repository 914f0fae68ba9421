---------------------------- MODULE ReviewProofs ----------------------------
(***************************************************************************)
(* Type correctness of the review API: every step of a decision, and of a  *)
(* POST /commit, leaves the records and its own state with their types.    *)
(***************************************************************************)
EXTENDS ReviewApi, RecordsProofs

\* The types the API works with, and those its steps leave alone.
ReviewTypes == RecordsTypeOK /\ ReviewTypeOK

LEMMA EditedType ==
    ASSUME NEW content \in Content, NEW f \in Findings, NEW diff \in Diffs
    PROVE  Edited(content, f, diff) \in Content
BY DEF Edited, Content, Changes

\* Somebody left to reopen: the one with the smallest id.
LEMMA NextReopened ==
    ASSUME NEW todo \in SUBSET [finding : Findings, freed : BOOLEAN], todo # {}
    PROVE  (CHOOSE t \in todo : \A u \in todo : t.finding <= u.finding) \in todo
<1> DEFINE ids == {t.finding : t \in todo}
<1>1. ids \in SUBSET Nat /\ ids # {}
    BY FindingsAssumption
<1>2. \E m \in ids : \A k \in ids : m <= k
    <2> HIDE DEF ids
    <2> QED BY <1>1, LeastExists
<1> QED BY <1>2

----------------------------------------------------------------------------
(* The steps of a decision *)

\* Every step of a decision keeps the types, and leaves the branch alone.
LEMMA DecisionTypes ==
    ASSUME ReviewTypes, NEW v \in Reviewers,
           \/ \E f \in Findings, action \in Decisions, diff \in Diffs : Decide(v, f, action, diff)
           \/ Serve(v)
           \/ DecisionDies(v)
    PROVE  ReviewTypes' /\ branch' = branch
<1>1. review[v] \in DecisionAtStep /\ review[v] \in Decision
    BY DEF ReviewTypes, ReviewTypeOK, DecisionAtStep
<1>2. \A d \in DecisionAtStep : review' = [review EXCEPT ![v] = d] =>
            review' \in [Reviewers -> DecisionAtStep]
    BY DEF ReviewTypes, ReviewTypeOK
<1>3. NoReview \in DecisionAtStep
    BY DEF NoReview, DecisionAtStep, Decision
<1>4. ASSUME NEW f \in Findings, NEW action \in Decisions, NEW diff \in Diffs,
             Decide(v, f, action, diff)
      PROVE  ReviewTypes' /\ branch' = branch
    <2> DEFINE d == CASE action = "edited"   -> diff
                      [] action = "approved" -> fix[f].diff
                      [] OTHER               -> NoFix
               content == IF action = "edited" THEN Edited(stored[f], f, diff) ELSE NoContent
               next == [NoReview EXCEPT !.pc = "event", !.finding = f, !.action = action,
                            !.copy = fix[f], !.diff = d, !.content = content]
    <2>1. action \in {"approved", "edited", "rejected"}
        BY ReviewAssumption
    <2>2. action \in Resolving => fix[f] \in Fix
        BY <1>4 DEF Decide, MayDecide, ReviewTypes, RecordsTypeOK
    <2>3. fix[f] \in Fix \cup {NoFix}
        BY DEF ReviewTypes, RecordsTypeOK
    <2>4. d \in Diffs \cup {NoFix} /\ (action \in Resolving => d \in Diffs)
        BY <2>1, <2>2 DEF Resolving, Fix
    <2>5. content \in Content \cup {NoContent}
        <3>1. action = "edited" => stored[f] \in Content
            BY <1>4 DEF Decide, ReviewTypes, RecordsTypeOK
        <3> QED BY <3>1, EditedType
    <2>6. review' = [review EXCEPT ![v] = next]
        BY <1>4 DEF Decide
    <2> HIDE DEF d, content
    <2>7. next \in DecisionAtStep
        BY <2>1, <2>2, <2>3, <2>4, <2>5 DEF NoReview, DecisionAtStep, Decision, Actions
    <2> HIDE DEF next
    <2>8. review' \in [Reviewers -> DecisionAtStep]
        BY <1>2, <2>6, <2>7
    <2>9. decisions' \in Nat
        <3>1. decisions \in Nat /\ decisions' = decisions + 1
            BY <1>4 DEF Decide, ReviewTypes, ReviewTypeOK
        <3> QED BY <3>1
    <2> QED BY <1>4, <2>8, <2>9 DEF Decide, ReviewTypes, RecordsTypeOK, ReviewTypeOK,
                recordVars, findingVars, eventVars
<1>5. CASE PutDecision(v)
    <2> DEFINE f == review[v].finding
               action == review[v].action
               pc == CASE action = "edited" -> "upload"
                       [] action = "rejected" /\ review[v].copy = NoFix -> "cascade"
                       [] OTHER -> "update"
    <2>1. f \in Findings /\ (action \in Resolving => review[v].diff \in Diffs)
        BY <1>1, <1>5 DEF PutDecision, DecisionAtStep
    <2>2. clock + 1 \in Nat /\ clock' = clock + 1
        BY <1>5 DEF PutDecision, ReviewTypes, RecordsTypeOK
    <2>3. latest' \in [Findings -> Event]
        <3>1. latest[f] \in Event /\ latest \in [Findings -> Event]
            BY <2>1 DEF ReviewTypes, RecordsTypeOK
        <3>2. Suffix.decision \in 0..3 /\ action \in Actions \cup {"none"}
            BY <1>1 DEF Suffix, Decision
        <3>3. After(latest[f], clock + 1, Suffix.decision, action) \in Event
            BY <2>2, <3>1, <3>2, AfterType
        <3>4. latest' = [latest EXCEPT ![f] = After(@, clock + 1, Suffix.decision, action)]
            BY <1>5 DEF PutDecision
        <3> QED BY <2>1, <3>1, <3>3, <3>4
    <2>4. approvals' \in SUBSET Changes
        BY <1>5, <2>1 DEF PutDecision, ReviewTypes, RecordsTypeOK, Changes
    <2>5. review' \in [Reviewers -> DecisionAtStep]
        <3>1. pc \in {"upload", "cascade", "update"}
            OBVIOUS
        <3>2. review' = [review EXCEPT ![v] = [review[v] EXCEPT !.now = clock + 1, !.pc = pc]]
            BY <1>5 DEF PutDecision
        <3> HIDE DEF pc
        <3>3. [review[v] EXCEPT !.now = clock + 1, !.pc = pc] \in DecisionAtStep
            BY <1>1, <1>5, <2>2, <3>1 DEF PutDecision, DecisionAtStep, Decision
        <3> QED BY <1>2, <3>2, <3>3
    <2> QED BY <1>5, <2>2, <2>3, <2>4, <2>5 DEF PutDecision, ReviewTypes, RecordsTypeOK,
                ReviewTypeOK, findingVars
<1>6. CASE UploadEdit(v)
    <2>1. review[v].finding \in Findings /\ review[v].content \in Content \cup {NoContent}
        BY <1>1, <1>6 DEF UploadEdit, DecisionAtStep, Decision
    <2>2. stored' \in [Findings -> Content \cup {NoContent}]
        BY <1>6, <2>1 DEF UploadEdit, ReviewTypes, RecordsTypeOK
    <2>3. [review[v] EXCEPT !.pc = "update"] \in DecisionAtStep
        BY <1>1, <1>6 DEF UploadEdit, DecisionAtStep, Decision
    <2>4. review' \in [Reviewers -> DecisionAtStep]
        BY <1>2, <1>6, <2>3 DEF UploadEdit
    <2> QED BY <1>6, <2>2, <2>4 DEF UploadEdit, ReviewTypes, RecordsTypeOK, ReviewTypeOK,
                findingVars, eventVars
<1>7. CASE UpdateFinding(v)
    <2> DEFINE f == review[v].finding
               action == review[v].action
    <2>1. /\ f \in Findings
          /\ action = "edited" => review[v].copy \in Fix /\ review[v].diff \in Diffs
        BY <1>1, <1>7 DEF UpdateFinding, DecisionAtStep, Resolving
    <2>2. status' \in [Findings -> Statuses]
        BY <1>7, <2>1 DEF UpdateFinding, ReviewTypes, RecordsTypeOK, Statuses
    <2>3. fix' \in [Findings -> Fix \cup {NoFix}]
        <3>1. action = "edited" =>
                [review[v].copy EXCEPT !.diff = review[v].diff, !.passed = FALSE] \in Fix
            BY <2>1 DEF Fix
        <3> QED BY <1>7, <2>1, <3>1 DEF UpdateFinding, ReviewTypes, RecordsTypeOK
    <2>4. [review[v] EXCEPT !.pc = "cascade"] \in DecisionAtStep
        BY <1>1, <1>7 DEF UpdateFinding, DecisionAtStep, Decision
    <2>5. review' \in [Reviewers -> DecisionAtStep]
        BY <1>2, <1>3, <1>7, <2>4 DEF UpdateFinding
    <2> QED BY <1>7, <2>2, <2>3, <2>5 DEF UpdateFinding, ReviewTypes, RecordsTypeOK,
                ReviewTypeOK, eventVars
<1>8. CASE ReadDependents(v)
    <2> DEFINE f == review[v].finding
               roots == {f} \cup Dependents(f)
               freed == {g \in Findings \ {f} : superseder[g] \in roots}
               todo  == {[finding |-> g, freed |-> g \in freed] : g \in Dependents(f) \cup freed}
    <2>1. todo \in SUBSET [finding : Findings, freed : BOOLEAN]
        <3>1. Dependents(f) \cup freed \in SUBSET Findings
            BY DEF Dependents
        <3>2. \A g \in Findings : (g \in freed) \in BOOLEAN
            OBVIOUS
        <3> HIDE DEF freed
        <3>3. \A g \in Findings, b \in BOOLEAN :
                [finding |-> g, freed |-> b] \in [finding : Findings, freed : BOOLEAN]
            OBVIOUS
        <3>4. \A g \in Findings :
                [finding |-> g, freed |-> g \in freed] \in [finding : Findings, freed : BOOLEAN]
            BY <3>2, <3>3, Zenon
        <3> QED BY <3>1, <3>4, Zenon
    <2>2. review' = [review EXCEPT ![v] =
            IF todo = {} THEN NoReview ELSE [@ EXCEPT !.pc = "reopen", !.reopen = todo]]
        BY <1>8 DEF ReadDependents
    <2> HIDE DEF todo
    <2>3. todo # {} => [review[v] EXCEPT !.pc = "reopen", !.reopen = todo] \in DecisionAtStep
        BY <1>1, <1>8, <2>1 DEF ReadDependents, DecisionAtStep, Decision
    <2>4. review' \in [Reviewers -> DecisionAtStep]
        BY <1>2, <1>3, <2>2, <2>3
    <2> QED BY <1>8, <2>4 DEF ReadDependents, ReviewTypes, RecordsTypeOK, ReviewTypeOK,
                recordVars, findingVars, eventVars
<1>9. CASE Reopen(v)
    <2> DEFINE todo == review[v].reopen
               next == CHOOSE t \in todo : \A u \in todo : t.finding <= u.finding
               g    == next.finding
               d    == IF todo = {next} THEN NoReview
                       ELSE [review[v] EXCEPT !.reopen = todo \ {next}]
    <2>1. /\ todo \in SUBSET [finding : Findings, freed : BOOLEAN] /\ todo # {}
          /\ review[v].now \in Nat
        BY <1>1, <1>9 DEF Reopen, DecisionAtStep, Decision
    <2>2. next \in todo
        BY <2>1, NextReopened
    <2>3. /\ status' = [status EXCEPT ![g] = "mapped"]
          /\ superseder' = IF next.freed THEN [superseder EXCEPT ![g] = 0] ELSE superseder
          /\ latest' = [latest EXCEPT ![g] =
                            After(@, review[v].now, Suffix.system, "reopened")]
          /\ review' = [review EXCEPT ![v] = d]
        BY <1>9 DEF Reopen
    <2> HIDE DEF next
    <2>4. g \in Findings
        BY <2>1, <2>2
    <2> HIDE DEF g
    <2>5. status' \in [Findings -> Statuses]
        BY <2>3, <2>4 DEF ReviewTypes, RecordsTypeOK, Statuses
    <2>6. superseder' \in [Findings -> Findings \cup {0}]
        BY <2>3, <2>4 DEF ReviewTypes, RecordsTypeOK
    <2>7. latest' \in [Findings -> Event]
        <3>1. latest \in [Findings -> Event] /\ latest[g] \in Event
            BY <2>4 DEF ReviewTypes, RecordsTypeOK
        <3>2. Suffix.system \in 0..3 /\ "reopened" \in Actions \cup {"none"}
            BY DEF Suffix, Actions
        <3>3. After(latest[g], review[v].now, Suffix.system, "reopened") \in Event
            BY <2>1, <3>1, <3>2, AfterType
        <3> QED BY <2>3, <2>4, <3>1, <3>3
    <2>8. todo # {next} => [review[v] EXCEPT !.reopen = todo \ {next}] \in DecisionAtStep
        BY <1>1, <1>9, <2>1, <2>2 DEF Reopen, DecisionAtStep, Decision
    <2>9. review' \in [Reviewers -> DecisionAtStep]
        <3>1. d \in DecisionAtStep
            BY <1>3, <2>8
        <3> HIDE DEF d
        <3> QED BY <1>2, <2>3, <3>1
    <2> QED BY <1>9, <2>5, <2>6, <2>7, <2>9 DEF Reopen, ReviewTypes, RecordsTypeOK, ReviewTypeOK
<1>10. CASE DecisionDies(v)
    <2>1. review' \in [Reviewers -> DecisionAtStep]
        BY <1>2, <1>3, <1>10 DEF DecisionDies
    <2> QED BY <1>10, <2>1 DEF DecisionDies, ReviewTypes, RecordsTypeOK, ReviewTypeOK,
                recordVars, findingVars, eventVars
<1> QED BY <1>4, <1>5, <1>6, <1>7, <1>8, <1>9, <1>10 DEF Serve

----------------------------------------------------------------------------
(* The steps of a POST /commit *)

\* Every step of a request to commit keeps the types, and leaves the branch alone.
LEMMA AskingTypes ==
    ASSUME ReviewTypes, NEW r \in Requests, AskCommit(r) \/ HandOver(r) \/ Killed(r)
    PROVE  ReviewTypes' /\ branch' = branch
<1>1. asking[r] \in Ask
    BY DEF ReviewTypes, ReviewTypeOK
<1>2. \A a \in Ask : asking' = [asking EXCEPT ![r] = a] => asking' \in [Requests -> Ask]
    BY DEF ReviewTypes, ReviewTypeOK
<1>3. \A pc \in {"failing", "done"} : [asking[r] EXCEPT !.pc = pc] \in Ask
    BY <1>1 DEF Ask
<1>4. CASE AskCommit(r)
    <2>1. PICK confirm \in SUBSET (Committable \cap Confirmation) :
            asking' = [asking EXCEPT ![r] = [pc |-> "checked", confirm |-> confirm]]
        BY <1>4 DEF AskCommit
    <2>2. asking' \in [Requests -> Ask]
        BY <1>2, <2>1 DEF Ask
    <2> QED BY <1>4, <2>2 DEF AskCommit, ReviewTypes, RecordsTypeOK, ReviewTypeOK,
                recordVars, findingVars, eventVars
<1>5. CASE RecordRequest(r)
    <2>1. asking' \in [Requests -> Ask]
        BY <1>2, <1>5 DEF RecordRequest, Ask
    <2>2. request' \in [Requests -> Request]
        <3>1. asking[r].confirm \in SUBSET Confirmation
            BY <1>1 DEF Ask
        <3>2. [BlankRequest EXCEPT !.status = "requested", !.confirmed = asking[r].confirm] \in Request
            BY <3>1 DEF BlankRequest, Request, Active
        <3> QED BY <1>5, <3>2 DEF RecordRequest, ReviewTypes, RecordsTypeOK
    <2> QED BY <1>5, <2>1, <2>2 DEF RecordRequest, ReviewTypes, RecordsTypeOK, ReviewTypeOK,
                findingVars, eventVars
<1>6. CASE Invoke(r)
    <2>1. asking' \in [Requests -> Ask]
        BY <1>2, <1>3, <1>6 DEF Invoke
    <2> QED BY <1>6, <2>1 DEF Invoke, ReviewTypes, RecordsTypeOK, ReviewTypeOK,
                findingVars, eventVars
<1>7. CASE InvokeFails(r)
    <2>1. asking' \in [Requests -> Ask]
        BY <1>2, <1>3, <1>7 DEF InvokeFails
    <2> QED BY <1>7, <2>1 DEF InvokeFails, ReviewTypes, RecordsTypeOK, ReviewTypeOK,
                findingVars, eventVars
<1>8. CASE MarkNotHandedOver(r)
    <2>1. asking' \in [Requests -> Ask]
        BY <1>2, <1>3, <1>8 DEF MarkNotHandedOver
    <2>2. request' \in [Requests -> Request]
        <3>1. request[r] \in Request
            BY DEF ReviewTypes, RecordsTypeOK
        <3>2. [request[r] EXCEPT !.status = "failed"] \in Request
            BY <3>1 DEF Request, Ended
        <3>3. request' = [request EXCEPT ![r] = [request[r] EXCEPT !.status = "failed"]]
            BY <1>8 DEF MarkNotHandedOver
        <3> QED BY <3>2, <3>3 DEF ReviewTypes, RecordsTypeOK
    <2> QED BY <1>8, <2>1, <2>2 DEF MarkNotHandedOver, ReviewTypes, RecordsTypeOK, ReviewTypeOK,
                findingVars, eventVars
<1>9. CASE Killed(r)
    <2>1. asking' \in [Requests -> Ask]
        BY <1>2, <1>3, <1>9 DEF Killed
    <2> QED BY <1>9, <2>1 DEF Killed, ReviewTypes, RecordsTypeOK, ReviewTypeOK,
                recordVars, findingVars, eventVars
<1> QED BY <1>4, <1>5, <1>6, <1>7, <1>8, <1>9 DEF HandOver

\* Every step of the API keeps the types, and leaves the branch alone.
LEMMA ReviewStepTypes ==
    ASSUME ReviewTypes, ReviewNext
    PROVE  ReviewTypes' /\ branch' = branch
BY DecisionTypes, AskingTypes DEF ReviewNext

=============================================================================
