------------------------------ MODULE CdkDrafts ------------------------------
(***************************************************************************)
(* remediation-agent's CDK path (lambda/remediation-agent/handler.py,      *)
(* _remediate_cdk_file): one Draft fixes execution's work on one source    *)
(* file, and the sandbox runs that verify each draft.                      *)
(*                                                                         *)
(* The handler never waits for a re-synth: it returns a continuation,      *)
(* which the state machine keeps, runs the sandbox on it, and calls the    *)
(* handler again with the answer.  `token` is that continuation, `call`    *)
(* what a call in progress has made of it; a call that fails is run again  *)
(* from the token, over whatever it had already written, or ends the       *)
(* execution.                                                              *)
(*                                                                         *)
(* One drafting execution is at work on the file at a time, and the next   *)
(* starts when no sandbox run is left of it.  Any other execution of the   *)
(* pull request may replace the snapshot meanwhile.                        *)
(***************************************************************************)
EXTENDS Sandbox

CONSTANTS
    MaxDraftsPerFile,  \* MAX_DRAFTS_PER_FILE
    MaxExecutions,     \* bound: Draft fixes executions
    MaxFaults,         \* bound: calls retried and sandbox runs given up on, in all,
                       \* by the number of commits
    Starts,            \* what has been drafted already: NoDraft, or one draft
    DraftFaults,       \* of "error", "unparsed", "yield", "killed"
    NoFix              \* proposed_fix is null

ASSUME CdkDraftsAssumption ==
    /\ MaxDraftsPerFile \in Nat /\ MaxExecutions \in Nat
    /\ MaxFaults \in Seq(Nat)
    /\ Starts \subseteq Answers \cup {NoDraft}

VARIABLES
    status,       \* FINDING#.status
    fix,          \* FINDING#.proposed_fix
    superseder,   \* FINDING#.superseded_by, 0 when absent
    head,         \* the number of commits on the branch, which stands still
    stage,        \* the state of the execution
    synth,        \* this execution's cdk-synth run and whether it answered ok
    token,        \* the continuation in the execution's state
    call,         \* the handler's call in progress
    resynth,      \* the re-synth the execution waits for, 0 for none
    executions, faults, overruns, spent
                  \* executions begun, calls retried, runs given up on, drafts made

cdkVars == <<status, fix, superseder, head, stage, synth, token, call, resynth,
             executions, faults, overruns, spent>>
vars    == <<artifactVars, sandbox, cdkVars>>

Statuses == {"mapped", "fix-proposed", "needs-human-only", "superseded", "not-drafted"}
Open     == {"mapped", "not-drafted"}
Groups   == Paths \cup {NoPath}
Links    == [finding : Findings, draft : Answers]
CdkFix   == [draft : Answers, base : Nat, after : Seq(Links), passed : BOOLEAN]

ASSUME NoFixAssumption == NoFix \notin CdkFix

\* The chain the next draft is made on: tip is the fix whose file is
\* content_key, 0 for the snapshot's; base stands for base_sha256; known and
\* paths are the baseline.
Chain   == [tip : Findings \cup {0}, base : Nat, after : Seq(Links),
            known : SUBSET Triples, paths : SUBSET Paths]
NoChain == [tip |-> 0, base |-> 0, after |-> <<>>, known |-> {}, paths |-> {}]

Counts   == [proposed : Nat, human : Nat, superseded : Nat, undrafted : Nat, errors : Nat]
NoCounts == [proposed |-> 0, human |-> 0, superseded |-> 0, undrafted |-> 0, errors |-> 0]

Pending   == [ids : SUBSET Findings, attempt : Attempts]
NoPending == [ids |-> {}, attempt |-> 1]

\* answer and stacks: sandbox_result, of which the handler asks only whether it
\* is ok.  opened (history): what was open at first.
Token == [first : BOOLEAN, done : SUBSET Groups, chain : Chain, drafts : Nat,
          pending : Pending, counts : Counts, answer : {"none", "ok", "error"},
          stacks : SUBSET Stacks, opened : SUBSET Findings, complete : BOOLEAN]
NewToken == [first |-> TRUE, done |-> {}, chain |-> NoChain, drafts |-> 0,
             pending |-> NoPending, counts |-> NoCounts, answer |-> "none", stacks |-> {},
             opened |-> {}, complete |-> FALSE]

\* A call: the continuation as it has become, the findings it saw open, whether
\* it has spent time already, and the fix whose group it has yet to record.
Call == [pc : {"none", "look", "judge", "rest", "next"}, at : Token,
         open : SUBSET Findings, worked : BOOLEAN, lead : Findings \cup {0}]
NoCall == [pc |-> "none", at |-> NewToken, open |-> {}, worked |-> FALSE, lead |-> 0]

CdkTypeOK ==
    /\ ArtifactsTypeOK /\ SandboxTypeOK
    /\ status \in [Findings -> Statuses]
    /\ fix \in [Findings -> CdkFix \cup {NoFix}]
    /\ superseder \in [Findings -> Findings \cup {0}]
    /\ head \in Nat /\ stage \in {"idle", "synth", "call", "resynth"}
    /\ synth \in [run : SandboxRuns \cup {0}, ok : BOOLEAN]
    /\ token \in Token /\ call \in Call
    /\ resynth \in SandboxRuns \cup {0}
    /\ executions \in Nat /\ faults \in Nat /\ overruns \in Nat /\ spent \in Nat

Lowest(S) == CHOOSE f \in S : \A g \in S : f <= g
GroupOf(p, open) == {f \in open : PathOf[f] = p}

\* The pull request's first commit has been scanned and its findings mapped.
Fresh ==
    /\ stored = [f \in Findings |-> NoContent]
    /\ pendingJson = [f \in Findings |-> NoDraft]
    /\ templates = [x \in Prefixes |-> [s \in Stacks |->
                        IF x = ScanPrefix THEN Built(snapshot, s) ELSE NoTemplate]]
    /\ status = [f \in Findings |-> "mapped"]
    /\ fix = [f \in Findings |-> NoFix]
    /\ superseder = [f \in Findings |-> 0]
    /\ head = 1

\* An execution on it drafted `answer` for one resource, which was verified at
\* once, and a second commit has been pushed.  The other resources were left.
AfterOne(answer) ==
    LET path    == PathOf[Lowest(Findings)]
        group   == GroupOf(path, Findings)
        cleared == group \cap answer.clears
        content == [own |-> 1, drafts |-> {<<path, answer>>}]
        lead    == Lowest(cleared)
        passed  == answer.drops = {} /\ ~answer.unsure
    IN /\ path # NoPath /\ cleared # {}
       /\ ~answer.breaks /\ ~answer.suppresses /\ ~answer.brings
       /\ stored = [f \in Findings |-> IF f \in {Lowest(group), lead} THEN content
                                      ELSE NoContent]
       /\ pendingJson = [f \in Findings |-> IF f = Lowest(group) THEN answer ELSE NoDraft]
       /\ templates = [x \in Prefixes |-> [s \in Stacks |->
            IF x = ScanPrefix THEN Built(snapshot, s)
            ELSE IF x = <<Lowest(group), 1>> /\ s \in BuiltStacks(content)
            THEN Built(content, s) ELSE NoTemplate]]
       /\ fix = [f \in Findings |-> IF f # lead THEN NoFix ELSE
                    [draft |-> answer, base |-> 1, after |-> <<>>, passed |-> passed]]
       /\ status = [f \in Findings |-> IF f \notin cleared THEN "not-drafted"
                        ELSE IF f # lead THEN "superseded"
                        ELSE IF passed THEN "fix-proposed" ELSE "needs-human-only"]
       /\ superseder = [f \in Findings |-> IF f \in cleared \ {lead} THEN lead ELSE 0]
       /\ head = 2

CdkInit ==
    /\ snapshot = [own |-> 1, drafts |-> {}]
    /\ \/ NoDraft \in Starts /\ Fresh
       \/ \E answer \in Starts \cap Answers : AfterOne(answer)
    /\ SandboxInit
    /\ stage = "idle"
    /\ synth = [run |-> 0, ok |-> FALSE]
    /\ token = NewToken /\ call = NoCall /\ resynth = 0
    /\ executions = 0 /\ faults = 0 /\ overruns = 0 /\ spent = 0

----------------------------------------------------------------------------
(* The execution: fetch, synthesize, and one Map iteration on the file *)

\* Fetch and Synthesize of a Draft fixes execution on the newest commit.
BeginExecution ==
    /\ stage = "idle" /\ executions < MaxExecutions
    /\ \A r \in SandboxRuns : sandbox[r].pc = "none"
    /\ snapshot' = [own |-> head, drafts |-> {}]
    /\ StartSandbox([kind |-> "cdk-synth", phases |-> Phases, project |-> head, patch |-> 0,
                     deps |-> 0, prefix |-> ScanPrefix])
    /\ stage' = "synth" /\ synth' = [run |-> NextRun, ok |-> FALSE]
    /\ executions' = executions + 1 /\ spent' = 0
    /\ token' = NewToken
    /\ UNCHANGED <<stored, pendingJson, templates, status, fix, superseder, head,
                   call, resynth, faults, overruns>>

\* A run that no draft waits for: the Pulumi program or the Helm chart of the
\* pull request, or an operator's leak test or held task.
OtherRun(kind, phases) ==
    /\ stage = "idle" /\ executions = 0 /\ head = 1
    /\ \A r \in SandboxRuns : sandbox[r].pc = "none"
    /\ StartSandbox([NoJob EXCEPT !.kind = kind, !.phases = phases, !.project = head])
    /\ UNCHANGED <<artifactVars, cdkVars>>

\* The synth has answered, and the scan and the mapping leave the findings as
\* they are; RemediateFile is called.
SynthAnswered ==
    /\ stage = "synth" /\ sandbox[synth.run].pc = "done"
    /\ LET ok == sandbox[synth.run].status = "ok"
       IN /\ synth' = [run |-> IF ok THEN synth.run ELSE 0, ok |-> ok]
          /\ sandbox' = IF ok THEN sandbox ELSE [sandbox EXCEPT ![synth.run] = NoRun]
    /\ stage' = "call" /\ call' = [NoCall EXCEPT !.pc = "look", !.at = token]
    /\ UNCHANGED <<artifactVars, status, fix, superseder, head, token, resynth,
                   executions, faults, overruns, spent>>

\* The handler returns its continuation, and perhaps a re-synth to run.
Return(at, request) ==
    /\ call' = NoCall
    /\ IF request = NoJob
       THEN /\ token' = at
            /\ UNCHANGED <<stage, sandbox, resynth>>
       ELSE /\ token' = [at EXCEPT !.answer = "none", !.stacks = {}]
            /\ stage' = "resynth" /\ StartSandbox(request) /\ resynth' = NextRun

\* MoreInThisFile: a reply with something left is the next call's input.
CallAgain ==
    /\ stage = "call" /\ call.pc = "none" /\ ~token.complete
    /\ call' = [NoCall EXCEPT !.pc = "look", !.at = token]
    /\ UNCHANGED <<artifactVars, sandbox, status, fix, superseder, head, stage, synth, token,
                   resynth, executions, faults, overruns, spent>>

\* FileDone; what the execution's runs left in the sandbox is not read again.
FileDone ==
    /\ stage = "call" /\ call.pc = "none" /\ token.complete
    /\ stage' = "idle" /\ synth' = [run |-> 0, ok |-> FALSE]
    /\ sandbox' = IF synth.ok THEN [sandbox EXCEPT ![synth.run] = NoRun] ELSE sandbox
    /\ UNCHANGED <<artifactVars, status, fix, superseder, head, token, call, resynth,
                   executions, faults, overruns, spent>>

\* Resynthesize ends: the run has answered, or has failed.
ResynthAnswered ==
    LET run == sandbox[resynth]
    IN /\ stage = "resynth" /\ run.pc = "done"
       /\ token' = [token EXCEPT !.answer = IF run.status = "ok" THEN "ok" ELSE "error",
                                 !.stacks = run.stacks]
       /\ sandbox' = [sandbox EXCEPT ![resynth] = NoRun]
       /\ stage' = "call" /\ resynth' = 0
       /\ call' = [NoCall EXCEPT !.pc = "look", !.at = token']
       /\ UNCHANGED <<artifactVars, status, fix, superseder, head, synth, executions, faults,
                      overruns, spent>>

\* ResynthesizeFailed, on the state's own timeout: the run goes on without it.
\* It allows the run 300 s more than its Execute state has, so what is late is
\* reaping or collecting.
ResynthOverruns ==
    /\ faults + overruns < MaxFaults[head] /\ overruns' = overruns + 1
    /\ stage = "resynth" /\ sandbox[resynth].pc \in {"reap", "collect"}
    /\ token' = [token EXCEPT !.answer = "error"]
    /\ stage' = "call" /\ resynth' = 0
    /\ call' = [NoCall EXCEPT !.pc = "look", !.at = token']
    /\ UNCHANGED <<artifactVars, sandbox, status, fix, superseder, head, synth, executions,
                   faults, spent>>

\* A run nobody waits for has ended, and nothing refers to it.
Forget(r) ==
    /\ sandbox[r].pc = "done" /\ r # synth.run /\ r # resynth
    /\ sandbox' = [sandbox EXCEPT ![r] = NoRun]
    /\ UNCHANGED <<artifactVars, cdkVars>>

----------------------------------------------------------------------------
(* A call, up to the answer it was given *)

InCall(pc) == stage = "call" /\ call.pc = pc

\* _reopen_stale_fixes, the first time this execution looks at the file: what
\* it finds is the snapshot at the moment.
StaleFixes == {f \in Findings : /\ status[f] = "fix-proposed" /\ fix[f] # NoFix
                                /\ fix[f].base # snapshot.own}
Reopened == LET stale == StaleFixes
            IN stale \cup {f \in Findings : status[f] = "superseded" /\ superseder[f] \in stale}

\* The file's chain is rooted at the snapshot, and the app's own templates.
RootChain(chain) ==
    IF chain # NoChain \/ ~synth.ok THEN chain
    ELSE [NoChain EXCEPT !.base = snapshot.own, !.known = Findings,
                         !.paths = ConstructsIn(sandbox[synth.run].stacks)]

Look ==
    LET reopened == IF call.at.first THEN Reopened ELSE {}
        now      == [f \in Findings |-> IF f \in reopened THEN "mapped" ELSE status[f]]
        open     == {f \in Findings : now[f] \in Open}
        at       == [call.at EXCEPT !.first = FALSE, !.chain = RootChain(@),
                        !.opened = IF call.at.first THEN open ELSE @]
        unsynthesized == [at EXCEPT !.complete = TRUE,
                                    !.counts.undrafted = Cardinality(open)]
    IN /\ InCall("look")
       /\ status' = IF synth.ok THEN now
                    ELSE [f \in Findings |-> IF f \in open THEN "not-drafted" ELSE now[f]]
       /\ superseder' = [f \in Findings |-> IF f \in reopened THEN 0 ELSE superseder[f]]
       /\ IF ~synth.ok
          THEN Return(unsynthesized, NoJob)
          ELSE /\ call' = [call EXCEPT !.at = at, !.open = open,
                    !.pc = IF at.answer # "none" /\ at.pending # NoPending THEN "judge"
                           ELSE "next"]
               /\ UNCHANGED <<stage, token, sandbox, resynth>>
       /\ UNCHANGED <<artifactVars, fix, head, synth, executions, faults, overruns, spent>>

----------------------------------------------------------------------------
(* _cdk_draft *)

BaseContent(chain) == IF chain.tip = 0 THEN snapshot ELSE stored[chain.tip]

\* base_sha256 is the chain's, whatever the base is by now.
Recorded(chain, draft, passed) ==
    [draft |-> draft, base |-> chain.base, after |-> chain.after, passed |-> passed]

\* Two drafts, when the first one asks context-agent.
Spend(draft) == IF draft.asked THEN 2 ELSE 1

ResynthJob(lead, attempt) ==
    [kind |-> "cdk-resynth", phases |-> {"execute"}, patch |-> lead, deps |-> synth.run,
     project |-> sandbox[synth.run].job.project, prefix |-> <<lead, attempt>>]

\* The draft of a group is uploaded, with what the judging will need, and the
\* re-synth asked for.
UploadDraft(group, attempt, draft) ==
    LET lead == Lowest(group)
        chain == call.at.chain
        path == PathOf[lead]
    IN /\ ~draft.suppresses
       /\ stored' = [stored EXCEPT ![lead] =
            [BaseContent(chain) EXCEPT !.drafts = @ \cup {<<path, draft>>}]]
       /\ pendingJson' = [pendingJson EXCEPT ![lead] = draft]
       /\ spent' = spent + Spend(draft)
       /\ Return([call.at EXCEPT !.pending = [ids |-> group, attempt |-> attempt],
                                 !.drafts = @ + Spend(draft)],
                 ResynthJob(lead, attempt))
       /\ UNCHANGED <<snapshot, templates, status, fix, superseder>>

\* A draft that silences the scanner is recorded on the lead and not uploaded;
\* the group's others wait for another run.
RefuseDraft(group, draft) ==
    LET lead == Lowest(group)
    IN /\ draft.suppresses
       /\ fix' = [fix EXCEPT ![lead] = Recorded(call.at.chain, draft, FALSE)]
       /\ status' = [f \in Findings |-> IF f = lead THEN "needs-human-only"
                                        ELSE IF f \in group THEN "not-drafted" ELSE status[f]]
       /\ spent' = spent + Spend(draft)
       /\ call' = [call EXCEPT !.pc = "next", !.worked = TRUE,
            !.at = [call.at EXCEPT !.done = @ \cup {PathOf[lead]}, !.pending = NoPending,
                             !.answer = "none", !.stacks = {}, !.drafts = @ + Spend(draft),
                             !.counts.human = @ + 1,
                             !.counts.undrafted = @ + Cardinality(group) - 1]]
       /\ UNCHANGED <<artifactVars, sandbox, superseder, stage, token, resynth>>

Drafted(group, attempt) ==
    /\ \E draft \in Answers :
        \/ UploadDraft(group, attempt, draft) /\ UNCHANGED fix
        \/ RefuseDraft(group, draft)
    /\ UNCHANGED <<head, synth, executions, faults, overruns>>

----------------------------------------------------------------------------
(* _cdk_judge *)

Lead0    == Lowest(call.at.pending.ids)
Rescan   == ScanOf(<<Lead0, call.at.pending.attempt>>)

\* Mutant of Cleared: the whole group is, whatever the re-synth still finds.
WholeGroup == call.at.pending.ids \cap call.at.chain.known

Cleared  == (call.at.pending.ids \cap call.at.chain.known) \ Rescan

\* Mutant of NewFound: new findings are looked for on the resource alone.
NewInGroup == (Rescan \ call.at.chain.known) \cap call.at.pending.ids

NewFound == Rescan \ call.at.chain.known
Dropped  == call.at.chain.paths \ ConstructsIn(call.at.stacks)
Lead     == IF Cleared = {} THEN Lead0 ELSE Lowest(Cleared)
Verified == Lead \in Cleared /\ NewFound = {}
Passed   == Verified /\ Dropped = {} /\ ~pendingJson[Lead0].unsure

\* Mutant of MayRedraft: a redraft is not part of the budget.
RedraftFreely == NewFound # {} /\ Cleared # {} /\ call.at.pending.attempt < 2

MayRedraft == /\ NewFound # {} /\ Cleared # {}
              /\ call.at.pending.attempt < 2
              /\ call.at.drafts < MaxDraftsPerFile

\* Mutant of Settled: the counts are lost on the way into the continuation.
SettledUncounted(at) == [call EXCEPT !.pc = "next", !.worked = TRUE, !.lead = 0,
                    !.at = [at EXCEPT !.done = @ \cup {PathOf[Lead0]}, !.pending = NoPending,
                                      !.answer = "none", !.stacks = {},
                                      !.counts = call.at.counts]]

\* The group is settled, and the call goes on to the next.
Settled(at) == [call EXCEPT !.pc = "next", !.worked = TRUE, !.lead = 0,
                    !.at = [at EXCEPT !.done = @ \cup {PathOf[Lead0]}, !.pending = NoPending,
                                      !.answer = "none", !.stacks = {}]]

\* The app did not synthesize with the fix, or its templates did not parse.
Unverified ==
    LET ids == call.at.pending.ids
    IN /\ InCall("judge")
       /\ call.at.answer # "ok" \/ "unparsed" \in DraftFaults
       /\ fix' = [fix EXCEPT ![Lead0] = Recorded(call.at.chain, pendingJson[Lead0], FALSE)]
       /\ status' = [f \in Findings |-> IF f = Lead0 THEN "needs-human-only"
                                        ELSE IF f \in ids THEN "not-drafted" ELSE status[f]]
       /\ call' = Settled([call.at EXCEPT !.counts.human = @ + 1,
                                !.counts.undrafted = @ + Cardinality(ids) - 1])
       /\ UNCHANGED <<artifactVars, sandbox, superseder, head, stage, synth, token, resynth,
                      executions, faults, overruns, spent>>

\* One redraft, when the fix brought new findings with what it cleared.
Redraft ==
    /\ InCall("judge") /\ call.at.answer = "ok" /\ MayRedraft
    /\ Drafted(call.at.pending.ids, call.at.pending.attempt + 1)

\* The fix is recorded on the first finding it cleared, its file copied there.
RecordLead ==
    /\ InCall("judge") /\ call.at.answer = "ok" /\ ~MayRedraft
    /\ stored' = [stored EXCEPT ![Lead] = stored[Lead0]]
    /\ fix' = [fix EXCEPT ![Lead] = Recorded(call.at.chain, pendingJson[Lead0], Passed)]
    /\ status' = [status EXCEPT ![Lead] = IF Passed THEN "fix-proposed" ELSE "needs-human-only"]
    /\ call' = [call EXCEPT !.pc = "rest", !.lead = Lead,
                    !.at.counts.proposed = IF Passed THEN @ + 1 ELSE @,
                    !.at.counts.human = IF Passed THEN @ ELSE @ + 1]
    /\ UNCHANGED <<snapshot, pendingJson, templates, sandbox, superseder, head, stage,
                   synth, token, resynth, executions, faults, overruns, spent>>

\* Mutant of LinkedBy: the next chain does not name the fix it is drafted on.
RebuiltOn(chain, lead) == [chain EXCEPT !.tip = lead, !.known = Rescan,
                                        !.paths = ConstructsIn(call.at.stacks)]

\* The others it cleared are superseded by it, and the rest wait; a fix that
\* passed outright is what the next resource's fix is drafted on.
LinkedBy(chain, lead) ==
    [chain EXCEPT !.tip = lead, !.known = Rescan, !.paths = ConstructsIn(call.at.stacks),
                  !.after = Append(@, [finding |-> lead, draft |-> pendingJson[Lead0]])]

RecordRest ==
    LET others     == call.at.pending.ids \ {call.lead}
        superseded == IF Verified THEN others \cap Cleared ELSE {}
    IN /\ InCall("rest")
       /\ status' = [f \in Findings |-> IF f \in superseded THEN "superseded"
                                        ELSE IF f \in others THEN "not-drafted" ELSE status[f]]
       /\ superseder' = [f \in Findings |-> IF f \in superseded THEN call.lead
                                            ELSE superseder[f]]
       /\ call' = Settled([call.at EXCEPT
            !.counts.superseded = @ + Cardinality(superseded),
            !.counts.undrafted = @ + Cardinality(others \ superseded),
            !.chain = IF Passed THEN LinkedBy(@, call.lead) ELSE @])
       /\ UNCHANGED <<artifactVars, sandbox, fix, head, stage, synth, token, resynth, executions,
                      faults, overruns, spent>>

----------------------------------------------------------------------------
(* The next resource *)

Left == {p \in Groups : p \notin call.at.done /\ GroupOf(p, call.open) # {}}
\* The resource whose creation line comes first.
NextPath == CHOOSE p \in Left : \A q \in Left :
                Lowest(GroupOf(p, call.open)) <= Lowest(GroupOf(q, call.open))
Group == GroupOf(NextPath, call.open)

\* About the stack as a whole, or MAX_DRAFTS_PER_FILE is spent.
SkipGroup ==
    /\ InCall("next") /\ Left # {}
    /\ NextPath = NoPath \/ call.at.drafts >= MaxDraftsPerFile
    /\ status' = [f \in Findings |-> IF f \in Group THEN "not-drafted" ELSE status[f]]
    /\ call' = [call EXCEPT !.at.done = @ \cup {NextPath},
                            !.at.counts.undrafted = @ + Cardinality(Group)]
    /\ UNCHANGED <<artifactVars, sandbox, fix, superseder, head, stage, synth, token, resynth,
                   executions, faults, overruns, spent>>

MayDraft == /\ InCall("next") /\ Left # {} /\ NextPath # NoPath
            /\ call.at.drafts < MaxDraftsPerFile

DraftGroup == MayDraft /\ Drafted(Group, 1)

\* The draft raises, perhaps after a first answer: the group is left as it is.
DraftFails ==
    /\ "error" \in DraftFaults /\ MayDraft
    /\ \E n \in {0, 1} :
        /\ spent' = spent + n
        /\ call' = [call EXCEPT !.worked = TRUE, !.at.done = @ \cup {NextPath},
                                !.at.drafts = @ + n,
                                !.at.counts.errors = @ + Cardinality(Group)]
    /\ UNCHANGED <<artifactVars, sandbox, status, fix, superseder, head, stage, synth, token,
                   resynth, executions, faults, overruns>>

\* Out of time, having spent some: the state machine calls again.
YieldCall ==
    /\ "yield" \in DraftFaults
    /\ InCall("next") /\ Left # {} /\ call.worked
    /\ Return(call.at, NoJob)
    /\ UNCHANGED <<artifactVars, status, fix, superseder, head, synth, executions, faults,
                   overruns, spent>>

EndCall ==
    /\ InCall("next") /\ Left = {}
    /\ Return([call.at EXCEPT !.complete = TRUE], NoJob)
    /\ UNCHANGED <<artifactVars, status, fix, superseder, head, synth, executions, faults,
                   overruns, spent>>

\* A call fails: the transient errors are retried on the same input, and any
\* other ends the execution.
CallFails ==
    /\ stage = "call" /\ call.pc # "none"
    /\ \/ /\ faults + overruns < MaxFaults[head] /\ faults' = faults + 1
          /\ call' = [NoCall EXCEPT !.pc = "look", !.at = token]
          /\ UNCHANGED <<sandbox, stage, synth>>
       \/ /\ "killed" \in DraftFaults
          /\ stage' = "idle" /\ call' = NoCall
          /\ sandbox' = IF synth.ok THEN [sandbox EXCEPT ![synth.run] = NoRun] ELSE sandbox
          /\ synth' = [run |-> 0, ok |-> FALSE]
          /\ UNCHANGED faults
    /\ UNCHANGED <<artifactVars, status, fix, superseder, head, token, resynth, executions,
                   overruns, spent>>

----------------------------------------------------------------------------
(* Meanwhile *)

\* Another execution of the pull request fetches: a push's, or a Re-run of any
\* commit's check.
OtherFetch(h) ==
    /\ snapshot' = [own |-> h, drafts |-> {}]
    /\ UNCHANGED <<stored, pendingJson, templates, sandbox, cdkVars>>

----------------------------------------------------------------------------

CallStep ==
    \/ Look \/ Unverified \/ Redraft \/ RecordLead \/ RecordRest
    \/ SkipGroup \/ DraftGroup \/ DraftFails \/ YieldCall \/ EndCall

ExecutionStep ==
    \/ SynthAnswered \/ CallAgain \/ FileDone \/ ResynthAnswered \/ CallStep

CdkNext ==
    \/ \E kind \in Kinds \ SynthKinds, phases \in SUBSET Phases : OtherRun(kind, phases)
    \/ BeginExecution \/ \E h \in 1..head : OtherFetch(h)
    \/ ExecutionStep \/ ResynthOverruns \/ CallFails
    \/ \E r \in SandboxRuns : Forget(r)
    \/ SandboxNext /\ UNCHANGED cdkVars

CdkSpec == CdkInit /\ [][CdkNext]_vars

\* Step Functions goes from state to state and times out those that hang; a
\* task may hang forever.
CdkFairSpec ==
    /\ CdkSpec
    /\ WF_vars(ExecutionStep)
    /\ WF_vars(\E r \in SandboxRuns : StateStep(r) /\ UNCHANGED cdkVars)

----------------------------------------------------------------------------
(* What the drafts come to *)

\* Whatever was late, hostile, stale or tried twice: a fix that is proposed
\* builds, and the app built with its stored file is without its finding, has
\* no finding it did not have, and has every resource it had.
ProposedFixesBuild ==
    \A f \in Findings : status[f] = "fix-proposed" =>
        /\ stored[f] # NoContent
        /\ Synthesizes(stored[f])
        /\ f \notin BuildOf(stored[f])
        /\ BuildOf(stored[f]) \subseteq Findings
        /\ ConstructsIn(BuiltStacks(stored[f])) = Paths

\* A proposed fix's file has the drafts its record names, its chain's links'
\* and its own, and no other.
ProposedFilesAreChains ==
    \A f \in Findings : status[f] = "fix-proposed" =>
        stored[f].drafts = {<<PathOf[f], fix[f].draft>>} \cup
            {<<PathOf[fix[f].after[k].finding], fix[f].after[k].draft>> :
                k \in DOMAIN fix[f].after}

\* A finding that is superseded is gone from the app built with the fix it
\* points to, which is recorded.
SupersededIsBuiltAway ==
    \A f \in Findings : status[f] = "superseded" =>
        /\ fix[superseder[f]] # NoFix /\ stored[superseder[f]] # NoContent
        /\ f \notin BuildOf(stored[superseder[f]])

\* What the execution reports of the file is what became of its findings, and
\* none of them is left out.
CountsAreTrue ==
    token.complete =>
        LET c == token.counts
            Of(s) == Cardinality({f \in token.opened : status[f] = s})
        IN /\ c.proposed = Of("fix-proposed") /\ c.superseded = Of("superseded")
           /\ faults = 0 => /\ c.human = Of("needs-human-only")
                            /\ c.proposed + c.human + c.superseded + c.undrafted + c.errors =
                                    Cardinality(token.opened)

\* MAX_DRAFTS_PER_FILE bounds what one execution spends on a file, but for a
\* lookup's second draft; and a call that is retried has forgotten what it
\* spent, so each may spend that much again.
BudgetIsKept == spent <= (MaxDraftsPerFile + 1) * (1 + faults)

\* Every execution gets to the end of the file, whatever the sandbox does.
DraftingEnds == stage # "idle" ~> stage = "idle"

=============================================================================
