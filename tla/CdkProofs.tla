------------------------------ MODULE CdkProofs ------------------------------
(***************************************************************************)
(* What the drafts on a CDK file come to, whatever the sandbox, the calls  *)
(* and the other executions do, for every app and every set of drafts.     *)
(***************************************************************************)
EXTENDS CdkDrafts, FiniteSetTheorems, WellFoundedInduction, TLAPS

----------------------------------------------------------------------------
(* The operators *)

\* A set of numbers that has one has a least.
LEMMA LeastExists ==
    ASSUME NEW S \in SUBSET Nat, S # {}
    PROVE  \E m \in S : \A n \in S : m <= n
<1> DEFINE Less == {p \in Nat \X Nat : p[1] < p[2]}
<1>1. IsWellFoundedOn(Less, Nat)
    <2>1. Less = OpToRel(<, Nat)
        BY DEF OpToRel
    <2> QED BY <2>1, NatLessThanWellFounded
<1>2. PICK m \in S : \A n \in S : ~(<<n, m>> \in Less)
    <2> HIDE DEF Less
    <2> QED BY <1>1, WFMin
<1>3. ASSUME NEW n \in S PROVE m <= n
    <2>1. m \in Nat /\ n \in Nat
        OBVIOUS
    <2>2. (n < m) => <<n, m>> \in Less
        BY <2>1
    <2> HIDE DEF Less
    <2> QED BY <1>2, <2>1, <2>2
<1> QED BY <1>3

LEMMA LowestIn ==
    ASSUME NEW S \in SUBSET Findings, S # {}
    PROVE  Lowest(S) \in S
<1>1. \E f \in S : \A g \in S : f <= g
    BY LeastExists, CdkAppAssumption
<1> QED BY <1>1 DEF Lowest

\* The next run is a free one.
LEMMA NextRunIsFree ==
    ASSUME Free # {}
    PROVE  NextRun \in SandboxRuns /\ NextRun # 0 /\ sandbox[NextRun].pc = "none"
<1>1. Free \in SUBSET Nat /\ Free \subseteq SandboxRuns /\ 0 \notin SandboxRuns
    BY SandboxRunsAssumption DEF Free
<1>2. \E r \in Free : \A q \in Free : r <= q
    BY <1>1, LeastExists
<1>3. NextRun \in Free
    BY <1>2 DEF NextRun
<1> QED BY <1>1, <1>3 DEF Free

\* The next resource is one that is left.
LEMMA NextPathIsLeft ==
    ASSUME call.open \in SUBSET Findings, Left # {}
    PROVE  NextPath \in Left
<1> DEFINE low(p) == Lowest(GroupOf(p, call.open))
           lows == {low(p) : p \in Left}
<1>1. ASSUME NEW p \in Left PROVE low(p) \in Nat
    <2>1. GroupOf(p, call.open) \in SUBSET Findings /\ GroupOf(p, call.open) # {}
        BY DEF Left, GroupOf
    <2> QED BY <2>1, LowestIn, CdkAppAssumption
<1>2. lows \in SUBSET Nat /\ lows # {}
    <2> HIDE DEF low
    <2> QED BY <1>1
<1>3. PICK m \in lows : \A n \in lows : m <= n
    <2> HIDE DEF lows
    <2> QED BY <1>2, LeastExists
<1>4. PICK p \in Left : m = low(p)
    BY <1>3
<1>5. \A q \in Left : low(p) <= low(q)
    <2> HIDE DEF low
    <2> QED BY <1>3, <1>4
<1>6. \E x \in Left : \A q \in Left : Lowest(GroupOf(x, call.open)) <= Lowest(GroupOf(q, call.open))
    BY <1>5
<1> QED BY <1>6 DEF NextPath

\* A group is of one resource, and there is one of it at least.
LEMMA GroupFacts ==
    ASSUME call.open \in SUBSET Findings, Left # {}
    PROVE  /\ NextPath \in Groups /\ NextPath \notin call.at.done
           /\ Group \in SUBSET Findings /\ Group # {} /\ Group \subseteq call.open
           /\ \A f \in Group : PathOf[f] = NextPath
BY NextPathIsLeft DEF Left, Group, GroupOf

LEMMA CountsOf ==
    ASSUME NEW S \in SUBSET Findings
    PROVE  /\ Cardinality(S) \in Nat
           /\ S # {} => Cardinality(S) - 1 \in Nat
<1>1. IsFiniteSet(S)
    BY CdkAppAssumption, FS_Subset
<1>2. Cardinality(S) \in Nat
    BY <1>1, FS_CardinalityType
<1>3. S # {} => Cardinality(S) # 0
    BY <1>1, FS_EmptySet
<1> QED BY <1>2, <1>3

\* What is built has no more stacks and no finding but the app's and the
\* drafts' own.
LEMMA BuildTypes ==
    ASSUME NEW content
    PROVE  /\ BuiltStacks(content) \in SUBSET Stacks
           /\ \A s \in Stacks : Built(content, s) \in SUBSET Triples
BY DEF BuiltStacks, Built, Triples

----------------------------------------------------------------------------
(* The types: the sandbox *)

LEMMA NoRunTypes ==
    /\ NoJob \in Job /\ NoRun \in SandboxRun
    /\ \A job \in Job : [NoRun EXCEPT !.pc = "prepare", !.job = job] \in SandboxRun
<1>1. ScanPrefix \in Prefixes
    BY DEF Prefixes
<1>2. NoJob \in Job
    BY <1>1 DEF NoJob, Job, Kinds, SynthKinds
<1>3. NoRun \in SandboxRun
    BY <1>2 DEF NoRun, SandboxRun, Tasks, Results, Archives, Replies
<1>4. ASSUME NEW job \in Job PROVE [NoRun EXCEPT !.pc = "prepare", !.job = job] \in SandboxRun
    <2> DEFINE run == NoRun
    <2>1. run \in SandboxRun
        BY <1>3
    <2> HIDE DEF run
    <2>2. [run EXCEPT !.pc = "prepare", !.job = job] \in SandboxRun
        BY <2>1 DEF SandboxRun
    <2> QED BY <2>2 DEF run
<1> QED BY <1>2, <1>3, <1>4

LEMMA StartTypes ==
    ASSUME SandboxTypeOK, NEW job \in Job, StartSandbox(job)
    PROVE  SandboxTypeOK' /\ NextRun \in SandboxRuns
BY NoRunTypes, NextRunIsFree DEF StartSandbox, SetRun, SandboxTypeOK

LEMMA FreedTypes ==
    ASSUME SandboxTypeOK, NEW r, sandbox' = [sandbox EXCEPT ![r] = NoRun]
    PROVE  SandboxTypeOK'
BY NoRunTypes DEF SandboxTypeOK

LEMMA TemplateTypes ==
    ASSUME ArtifactsTypeOK, SandboxTypeOK, NEW r \in SandboxRuns, NEW stacks
    PROVE  WithTemplates(r, stacks) \in [Prefixes -> [Stacks -> (SUBSET Triples) \cup {NoTemplate}]]
<1>1. sandbox[r].job.prefix \in Prefixes
    BY DEF SandboxTypeOK, SandboxRun, Job
<1>2. \A s \in Stacks : Built(sandbox[r].source, s) \in SUBSET Triples
    BY BuildTypes
<1> DEFINE x == sandbox[r].job.prefix
           now == [s \in Stacks |-> IF s \in stacks THEN Built(sandbox[r].source, s)
                                    ELSE templates[x][s]]
<1>3. now \in [Stacks -> (SUBSET Triples) \cup {NoTemplate}]
    <2>1. templates[x] \in [Stacks -> (SUBSET Triples) \cup {NoTemplate}]
        BY <1>1 DEF ArtifactsTypeOK
    <2> HIDE DEF x
    <2> QED BY <1>2, <2>1
<1>4. WithTemplates(r, stacks) = [templates EXCEPT ![x] = now]
    BY DEF WithTemplates
<1> HIDE DEF now, x
<1> QED BY <1>3, <1>4 DEF ArtifactsTypeOK

LEMMA OutcomeTypes ==
    ASSUME NEW r \in SandboxRuns, NEW phase \in Phases,
           NEW outcome \in Honest(r, phase) \cup HostileOutcomes(r, phase)
    PROVE  outcome[1] \in Results /\ outcome[2] \in Archives
BY DEF Honest, HostileOutcomes, Results, Archives, SynthKinds

LEMMA StatusTypes ==
    ASSUME NEW r \in SandboxRuns, NEW outside \in BOOLEAN
    PROVE  StatusOf(r, outside) \in Replies
BY DEF StatusOf, LeakStatus, PulumiStatus, HelmStatus, SynthStatus, PhasesStatus, PhaseProblem,
       SynthArchive, PulumiArchive, HelmArchive, Replies

LEMMA SandboxTypes ==
    ASSUME ArtifactsTypeOK, SandboxTypeOK, NEW r \in SandboxRuns, SandboxStep(r)
    PROVE  ArtifactsTypeOK' /\ SandboxTypeOK'
<1> DEFINE run == sandbox[r]
<1>1. run \in SandboxRun
    BY DEF SandboxTypeOK
<1>2. ASSUME NEW now \in SandboxRun, SetRun(r, now) PROVE SandboxTypeOK'
    BY <1>2 DEF SetRun, SandboxTypeOK
<1>3. ASSUME UNCHANGED artifactVars PROVE ArtifactsTypeOK'
    BY <1>3 DEF artifactVars, ArtifactsTypeOK
<1>4. CASE Prepare(r)
    <2>1. SourceOf(run.job) \in Content \cup {NoContent}
        BY <1>1, CdkAppAssumption DEF SourceOf, SandboxRun, Job, Content, ArtifactsTypeOK
    <2>2. FirstState(run.job.phases) \in {"fetch", "execute", "reap"}
        BY DEF FirstState
    <2> DEFINE dead == [run EXCEPT !.pc = "done", !.status = "dead"]
               begun == [run EXCEPT !.pc = FirstState(run.job.phases), !.source = SourceOf(run.job)]
    <2>3. dead \in SandboxRun
        BY <1>1 DEF SandboxRun, Replies
    <2>4. begun \in SandboxRun
        BY <1>1, <2>1, <2>2 DEF SandboxRun
    <2>5. SetRun(r, dead) \/ SetRun(r, begun)
        BY <1>4 DEF Prepare
    <2> HIDE DEF dead, begun
    <2> QED BY <1>2, <1>3, <1>4, <2>3, <2>4, <2>5 DEF Prepare
<1>5. CASE Unavailable(r)
    <2>1. [run EXCEPT !.pc = "reap", !.off = TRUE] \in SandboxRun
        BY <1>1 DEF SandboxRun
    <2> QED BY <1>2, <1>3, <1>5, <2>1 DEF Unavailable
<1>6. ASSUME NEW p \in Phases, RunTask(r, p) PROVE ArtifactsTypeOK' /\ SandboxTypeOK'
    <2>1. [run EXCEPT !.task[p] = "running"] \in SandboxRun
        BY <1>1 DEF SandboxRun, Tasks
    <2> QED BY <1>2, <1>3, <1>6, <2>1 DEF RunTask
<1>7. ASSUME NEW p \in Phases, StateEnds(r, p) PROVE ArtifactsTypeOK' /\ SandboxTypeOK'
    <2>1. [run EXCEPT !.pc = StateAfter(r, p)] \in SandboxRun
        BY <1>1 DEF SandboxRun, StateAfter
    <2> QED BY <1>2, <1>3, <1>7, <2>1 DEF StateEnds
<1>8. ASSUME NEW p \in Phases, StateFails(r, p) PROVE ArtifactsTypeOK' /\ SandboxTypeOK'
    <2>1. [run EXCEPT !.pc = StateAfter(r, p), !.errors = @ \cup {p}] \in SandboxRun
        BY <1>1 DEF SandboxRun, StateAfter
    <2> QED BY <1>2, <1>3, <1>8, <2>1 DEF StateFails
<1>9. CASE Reap(r)
    <2>1. [run EXCEPT !.pc = "collect",
             !.task = [p \in Phases |-> IF @[p] = "running" THEN "stopping" ELSE @[p]]] \in SandboxRun
        BY <1>1 DEF SandboxRun, Tasks
    <2> QED BY <1>2, <1>3, <1>9, <2>1 DEF Reap
<1>10. ASSUME NEW outside \in BOOLEAN, Collect(r, outside) PROVE ArtifactsTypeOK' /\ SandboxTypeOK'
    <2> DEFINE status1 == StatusOf(r, outside)
               synth1 == status1 = "ok" /\ run.job.kind \in SynthKinds
               stacks1 == IF synth1 THEN BuiltStacks(run.source) ELSE {}
    <2>1. status1 \in Replies
        BY StatusTypes
    <2>2. stacks1 \in SUBSET Stacks
        BY BuildTypes
    <2>3. /\ SetRun(r, [run EXCEPT !.pc = "done", !.status = status1, !.stacks = stacks1])
          /\ templates' = WithTemplates(r, stacks1)
          /\ UNCHANGED <<snapshot, stored, pendingJson>>
        BY <1>10 DEF Collect
    <2> HIDE DEF status1, stacks1, run
    <2>4. [run EXCEPT !.pc = "done", !.status = status1, !.stacks = stacks1] \in SandboxRun
        BY <1>1, <2>1, <2>2 DEF SandboxRun
    <2>5. ArtifactsTypeOK'
        BY <2>3, TemplateTypes DEF ArtifactsTypeOK
    <2> QED BY <1>2, <2>3, <2>4, <2>5
<1>11. CASE CollectDies(r)
    <2>1. [run EXCEPT !.pc = "done", !.status = "dead"] \in SandboxRun
        BY <1>1 DEF SandboxRun, Replies
    <2>2. PICK stacks : templates' = WithTemplates(r, stacks)
        BY <1>11 DEF CollectDies
    <2>3. ArtifactsTypeOK'
        BY <1>11, <2>2, TemplateTypes DEF ArtifactsTypeOK, CollectDies
    <2> QED BY <1>2, <1>11, <2>1, <2>3 DEF CollectDies
<1>12. ASSUME NEW p \in Phases, TaskEnds(r, p) PROVE ArtifactsTypeOK' /\ SandboxTypeOK'
    <2>1. PICK outcome \in Honest(r, p) \cup HostileOutcomes(r, p) :
            SetRun(r, [run EXCEPT !.task[p] = "stopped", !.result[p] = outcome[1],
                                  !.archive[p] = outcome[2]])
        BY <1>12 DEF TaskEnds
    <2>2. outcome[1] \in Results /\ outcome[2] \in Archives
        BY OutcomeTypes
    <2>3. [run EXCEPT !.task[p] = "stopped", !.result[p] = outcome[1],
                      !.archive[p] = outcome[2]] \in SandboxRun
        BY <1>1, <2>2 DEF SandboxRun, Tasks
    <2> QED BY <1>2, <1>3, <1>12, <2>1, <2>3 DEF TaskEnds
<1> QED BY <1>4, <1>5, <1>6, <1>7, <1>8, <1>9, <1>10, <1>11, <1>12 DEF SandboxStep, StateStep

----------------------------------------------------------------------------
(* The execution's shape: its states, its continuation and its call *)

First(at) == Lowest(at.pending.ids)

\* What a continuation says is there: the file of its chain's tip, and of the
\* draft that waits, on one resource.
Continues(at) ==
    /\ at.chain # NoChain => at.chain.base # 0
    /\ at.chain.tip # 0 => stored[at.chain.tip] # NoContent
    /\ at.pending.ids = {} => at.pending = NoPending
    /\ at.pending.ids # {} =>
        /\ at.chain.base # 0
        /\ \E p \in Paths : \A f \in at.pending.ids : PathOf[f] = p
        /\ stored[First(at)] # NoContent /\ pendingJson[First(at)] # NoDraft

StageShape ==
    /\ head # 0 /\ snapshot.own # 0
    /\ stage = "idle" => synth = [run |-> 0, ok |-> FALSE]
    /\ stage = "synth" => synth.run # 0 /\ token = NewToken
    /\ synth.ok => synth.run # 0
    /\ resynth # 0 <=> stage = "resynth"
    /\ stage # "call" => call = NoCall

TokenShape ==
    /\ Continues(token)
    /\ stage = "call" => (token.pending.ids = {} <=> token.answer = "none")
    /\ stage = "resynth" => synth.ok /\ token.answer = "none" /\ token.pending.ids # {}

\* A call judges what its input asks it to; then it has settled that.
CallShape ==
    /\ call.pc # "rest" => call.lead = 0
    /\ call.pc = "none" => call = NoCall
    /\ call.pc = "look" => call.at = token
    /\ call.pc \in {"judge", "rest", "next"} =>
        synth.ok /\ ~call.at.first /\ call.at.chain.base # 0 /\ Continues(call.at)
    /\ call.pc \in {"judge", "rest"} =>
        /\ call.at.pending = token.pending /\ call.at.pending.ids # {}
        /\ call.at.answer = token.answer /\ call.at.stacks = token.stacks
        /\ call.at.done = token.done /\ call.at.drafts = token.drafts
        /\ call.at.chain = token.chain
    /\ call.pc = "rest" =>
        /\ call.at.answer = "ok"
        /\ call.lead \in call.at.pending.ids /\ stored[call.lead] # NoContent
    /\ call.pc = "next" =>
        /\ call.at.pending = NoPending /\ call.at.answer = "none"
        /\ token.done \subseteq call.at.done
        /\ \A f \in token.pending.ids : PathOf[f] \in call.at.done

Shape == CdkTypeOK /\ StageShape /\ TokenShape /\ CallShape

----------------------------------------------------------------------------
(* The shape at the beginning *)

LEMMA NewTypes ==
    /\ NoChain \in Chain /\ NoPending \in Pending /\ NewToken \in Token /\ NoCall \in Call
    /\ NewToken.pending.ids = {} /\ NewToken.chain.tip = 0
<1>1. NoChain \in Chain
    BY DEF NoChain, Chain
<1>2. NoPending \in Pending
    BY DEF NoPending, Pending, Attempts
<1>3. NoCounts \in Counts
    BY DEF NoCounts, Counts
<1>4. NewToken \in Token
    BY <1>1, <1>2, <1>3 DEF NewToken, Token
<1>5. NoCall \in Call
    BY <1>4 DEF NoCall, Call
<1> QED BY <1>1, <1>2, <1>4, <1>5 DEF NewToken, NoPending, NoChain

LEMMA AfterOneTypes ==
    ASSUME NEW answer \in Answers, AfterOne(answer)
    PROVE  /\ stored \in [Findings -> Content \cup {NoContent}]
           /\ pendingJson \in [Findings -> Answers \cup {NoDraft}]
           /\ templates \in [Prefixes -> [Stacks -> (SUBSET Triples) \cup {NoTemplate}]]
           /\ status \in [Findings -> Statuses]
           /\ fix \in [Findings -> CdkFix \cup {NoFix}]
           /\ superseder \in [Findings -> Findings \cup {0}]
           /\ head = 2
<1> DEFINE path    == PathOf[Lowest(Findings)]
           group   == GroupOf(path, Findings)
           cleared == group \cap answer.clears
           content == [own |-> 1, drafts |-> {<<path, answer>>}]
           lead    == Lowest(cleared)
           passed  == answer.drops = {} /\ ~answer.unsure
           recorded == [draft |-> answer, base |-> 1, after |-> <<>>, passed |-> passed]
<1>1. path # NoPath /\ cleared # {}
    BY DEF AfterOne
<1>2. cleared \in SUBSET Findings /\ lead \in cleared
    <2>1. cleared \in SUBSET Findings
        BY DEF GroupOf
    <2> HIDE DEF cleared
    <2> QED BY <1>1, <2>1, LowestIn
<1>3. lead \in Findings
    BY <1>2
<1>4. path \in Paths
    <2>1. Findings # {} /\ Lowest(Findings) \in Findings
        BY <1>3, LowestIn
    <2> QED BY <1>1, <2>1, CdkAppAssumption
<1>5. content \in Content
    BY <1>4 DEF Content
<1>6. recorded \in CdkFix
    <2>1. <<>> \in Seq(Links) /\ passed \in BOOLEAN
        OBVIOUS
    <2> HIDE DEF passed
    <2> QED BY <2>1 DEF CdkFix
<1>7. /\ stored = [f \in Findings |-> IF f \in {Lowest(group), lead} THEN content ELSE NoContent]
      /\ pendingJson = [f \in Findings |-> IF f = Lowest(group) THEN answer ELSE NoDraft]
      /\ templates = [x \in Prefixes |-> [s \in Stacks |->
            IF x = ScanPrefix THEN Built(snapshot, s)
            ELSE IF x = <<Lowest(group), 1>> /\ s \in BuiltStacks(content)
            THEN Built(content, s) ELSE NoTemplate]]
      /\ fix = [f \in Findings |-> IF f # lead THEN NoFix ELSE recorded]
      /\ status = [f \in Findings |-> IF f \notin cleared THEN "not-drafted"
                        ELSE IF f # lead THEN "superseded"
                        ELSE IF passed THEN "fix-proposed" ELSE "needs-human-only"]
      /\ superseder = [f \in Findings |-> IF f \in cleared \ {lead} THEN lead ELSE 0]
      /\ head = 2
    BY DEF AfterOne
<1> HIDE DEF content, recorded, lead, cleared, group, passed, path
<1>8. stored \in [Findings -> Content \cup {NoContent}]
    BY <1>5, <1>7
<1>9. pendingJson \in [Findings -> Answers \cup {NoDraft}]
    BY <1>7
<1>10. templates \in [Prefixes -> [Stacks -> (SUBSET Triples) \cup {NoTemplate}]]
    BY <1>7, BuildTypes
<1>11. status \in [Findings -> Statuses]
    BY <1>7 DEF Statuses
<1>12. fix \in [Findings -> CdkFix \cup {NoFix}]
    BY <1>6, <1>7
<1>13. superseder \in [Findings -> Findings \cup {0}]
    BY <1>3, <1>7
<1> QED BY <1>7, <1>8, <1>9, <1>10, <1>11, <1>12, <1>13

LEMMA InitShape == CdkInit => Shape
<1> SUFFICES ASSUME CdkInit PROVE Shape
    OBVIOUS
<1>1. snapshot \in Content /\ snapshot.own = 1
    BY DEF CdkInit, Content
<1> DEFINE typed == /\ stored \in [Findings -> Content \cup {NoContent}]
                    /\ pendingJson \in [Findings -> Answers \cup {NoDraft}]
                    /\ templates \in [Prefixes -> [Stacks -> (SUBSET Triples) \cup {NoTemplate}]]
                    /\ status \in [Findings -> Statuses]
                    /\ fix \in [Findings -> CdkFix \cup {NoFix}]
                    /\ superseder \in [Findings -> Findings \cup {0}]
                    /\ head \in {1, 2}
<1>2. typed
    <2>1. Fresh => typed
        BY BuildTypes DEF Fresh, Statuses
    <2>2. ASSUME NEW answer \in Answers, AfterOne(answer) PROVE typed
        BY <2>2, AfterOneTypes
    <2> HIDE DEF typed
    <2> QED BY <2>1, <2>2 DEF CdkInit
<1>3. SandboxTypeOK
    BY NoRunTypes DEF CdkInit, SandboxInit, SandboxTypeOK
<1>4. /\ stage = "idle" /\ synth = [run |-> 0, ok |-> FALSE] /\ token = NewToken
      /\ call = NoCall /\ resynth = 0
      /\ executions = 0 /\ faults = 0 /\ overruns = 0 /\ spent = 0
    BY DEF CdkInit
<1>5. CdkTypeOK
    BY <1>1, <1>2, <1>3, <1>4, NewTypes DEF CdkTypeOK, ArtifactsTypeOK
<1>6. StageShape
    BY <1>1, <1>2, <1>4 DEF StageShape
<1>7. TokenShape
    BY <1>4 DEF TokenShape, Continues, NewToken, NoPending, NoChain
<1>8. CallShape
    BY <1>4 DEF CallShape, NoCall
<1> QED BY <1>5, <1>6, <1>7, <1>8 DEF Shape

----------------------------------------------------------------------------
(* The shape, step by step *)

\* A sandbox run writes templates, and nothing else of the artifacts.
LEMMA SandboxKeeps ==
    ASSUME NEW r \in SandboxRuns, SandboxStep(r)
    PROVE  UNCHANGED <<snapshot, stored, pendingJson>>
BY DEF SandboxStep, StateStep, Prepare, Unavailable, RunTask, StateEnds, StateFails, Reap, Collect,
       CollectDies, TaskEnds, artifactVars

LEMMA SandboxShape ==
    ASSUME Shape, NEW r \in SandboxRuns, SandboxStep(r), UNCHANGED cdkVars
    PROVE  Shape'
<1>1. ArtifactsTypeOK' /\ SandboxTypeOK'
    BY SandboxTypes DEF Shape, CdkTypeOK
<1>2. UNCHANGED <<snapshot, stored, pendingJson>>
    BY SandboxKeeps
<1>3. CdkTypeOK'
    BY <1>1 DEF Shape, CdkTypeOK, cdkVars
<1> QED BY <1>2, <1>3 DEF Shape, StageShape, TokenShape, CallShape, Continues, First, cdkVars

LEMMA FreeingShape ==
    ASSUME Shape, NEW r, sandbox' = [sandbox EXCEPT ![r] = NoRun],
           UNCHANGED <<artifactVars, cdkVars>>
    PROVE  Shape'
<1>1. SandboxTypeOK'
    BY FreedTypes DEF Shape, CdkTypeOK
<1>2. CdkTypeOK'
    BY <1>1 DEF Shape, CdkTypeOK, ArtifactsTypeOK, artifactVars, cdkVars
<1> QED BY <1>2 DEF Shape, StageShape, TokenShape, CallShape, Continues, First, artifactVars, cdkVars

LEMMA OtherRunShape ==
    ASSUME Shape, NEW kind \in Kinds \ SynthKinds, NEW phases \in SUBSET Phases,
           OtherRun(kind, phases)
    PROVE  Shape'
<1> DEFINE job == [NoJob EXCEPT !.kind = kind, !.phases = phases, !.project = head]
<1>1. job \in Job
    BY NoRunTypes DEF Shape, CdkTypeOK, Job
<1>2. SandboxTypeOK'
    <2>1. StartSandbox(job)
        BY DEF OtherRun
    <2> HIDE DEF job
    <2> QED BY <1>1, <2>1, StartTypes DEF Shape, CdkTypeOK
<1>3. UNCHANGED <<artifactVars, cdkVars>>
    BY DEF OtherRun
<1>4. CdkTypeOK'
    BY <1>2, <1>3 DEF Shape, CdkTypeOK, ArtifactsTypeOK, artifactVars, cdkVars
<1> QED BY <1>3, <1>4 DEF Shape, StageShape, TokenShape, CallShape, Continues, First, artifactVars,
                         cdkVars

LEMMA BeginShape ==
    ASSUME Shape, BeginExecution
    PROVE  Shape'
<1> DEFINE job == [kind |-> "cdk-synth", phases |-> Phases, project |-> head, patch |-> 0,
                   deps |-> 0, prefix |-> ScanPrefix]
<1>1. job \in Job
    BY DEF Shape, CdkTypeOK, Job, Kinds, SynthKinds, Prefixes
<1>2. SandboxTypeOK' /\ NextRun \in SandboxRuns /\ NextRun # 0
    <2>1. StartSandbox(job)
        BY DEF BeginExecution
    <2> HIDE DEF job
    <2>2. SandboxTypeOK' /\ NextRun \in SandboxRuns
        BY <1>1, <2>1, StartTypes DEF Shape, CdkTypeOK
    <2> QED BY <2>2, SandboxRunsAssumption
<1>3. /\ snapshot' = [own |-> head, drafts |-> {}]
      /\ stage' = "synth" /\ synth' = [run |-> NextRun, ok |-> FALSE]
      /\ executions' = executions + 1 /\ spent' = 0 /\ token' = NewToken
      /\ UNCHANGED <<stored, pendingJson, templates, status, fix, superseder, head, call, resynth,
                     faults, overruns>>
    BY DEF BeginExecution
<1>4. stage = "idle"
    BY DEF BeginExecution
<1>5. snapshot' \in Content
    BY <1>3 DEF Content, Shape, CdkTypeOK
<1>6. CdkTypeOK'
    BY <1>2, <1>3, <1>5, NewTypes DEF Shape, CdkTypeOK, ArtifactsTypeOK
<1>7. StageShape'
    BY <1>2, <1>3, <1>4 DEF Shape, StageShape
<1>8. TokenShape'
    BY <1>3 DEF TokenShape, Continues, NewToken, NoPending, NoChain
<1>9. CallShape'
    <2>1. call' = NoCall
        BY <1>3, <1>4 DEF Shape, StageShape
    <2> QED BY <2>1 DEF CallShape, NoCall
<1> QED BY <1>6, <1>7, <1>8, <1>9 DEF Shape

LEMMA OtherFetchShape ==
    ASSUME Shape, NEW h \in 1..head, OtherFetch(h)
    PROVE  Shape'
<1>1. snapshot' = [own |-> h, drafts |-> {}] /\ UNCHANGED <<stored, pendingJson, templates, sandbox>>
    BY DEF OtherFetch
<1>2. h \in Nat /\ h # 0
    BY DEF Shape, CdkTypeOK
<1>3. CdkTypeOK'
    <2>1. snapshot' \in Content
        BY <1>1, <1>2 DEF Content
    <2> QED BY <1>1, <2>1 DEF OtherFetch, Shape, CdkTypeOK, ArtifactsTypeOK, SandboxTypeOK, cdkVars
<1> QED BY <1>1, <1>2, <1>3 DEF OtherFetch, Shape, StageShape, TokenShape, CallShape, Continues, First,
                               cdkVars

LEMMA SynthAnsweredShape ==
    ASSUME Shape, SynthAnswered
    PROVE  Shape'
<1>1. /\ stage = "synth" /\ stage' = "call"
      /\ call' = [NoCall EXCEPT !.pc = "look", !.at = token]
      /\ UNCHANGED <<artifactVars, status, fix, superseder, head, token, resynth, executions, faults,
                     overruns, spent>>
    BY DEF SynthAnswered
<1>2. \/ synth' = [run |-> synth.run, ok |-> TRUE] /\ UNCHANGED sandbox
      \/ synth' = [run |-> 0, ok |-> FALSE] /\ sandbox' = [sandbox EXCEPT ![synth.run] = NoRun]
    BY DEF SynthAnswered
<1>3. SandboxTypeOK'
    <2>1. CASE UNCHANGED sandbox
        BY <2>1 DEF SandboxTypeOK, Shape, CdkTypeOK
    <2> QED BY <1>2, <2>1, FreedTypes DEF Shape, CdkTypeOK
<1>4. call' \in Call /\ call'.pc = "look" /\ call'.at = token /\ call'.lead = 0
    <2>1. token \in Token
        BY DEF Shape, CdkTypeOK
    <2> QED BY <1>1, <2>1 DEF Call, NoCall
<1>5. CdkTypeOK'
    <2>1. synth' \in [run : SandboxRuns \cup {0}, ok : BOOLEAN]
        <3>1. synth.run \in SandboxRuns \cup {0}
            BY DEF Shape, CdkTypeOK
        <3>2. \A x \in SandboxRuns \cup {0}, b \in BOOLEAN :
                [run |-> x, ok |-> b] \in [run : SandboxRuns \cup {0}, ok : BOOLEAN]
            OBVIOUS
        <3>3. \E x \in SandboxRuns \cup {0}, b \in BOOLEAN : synth' = [run |-> x, ok |-> b]
            BY <1>2, <3>1
        <3> QED BY <3>2, <3>3
    <2> QED BY <1>1, <1>3, <1>4, <2>1 DEF Shape, CdkTypeOK, ArtifactsTypeOK, artifactVars
<1>6. StageShape'
    BY <1>1, <1>2 DEF Shape, StageShape, artifactVars
<1>7. TokenShape'
    <2>1. token.pending.ids = {} /\ token.answer = "none"
        BY <1>1 DEF Shape, StageShape, NewToken, NoPending
    <2> QED BY <1>1, <2>1 DEF Shape, TokenShape, Continues, First, artifactVars
<1>8. CallShape'
    BY <1>1, <1>4 DEF CallShape
<1> QED BY <1>5, <1>6, <1>7, <1>8 DEF Shape

LEMMA CallAgainShape ==
    ASSUME Shape, CallAgain
    PROVE  Shape'
<1>1. /\ stage = "call" /\ call' = [NoCall EXCEPT !.pc = "look", !.at = token]
      /\ UNCHANGED <<artifactVars, sandbox, status, fix, superseder, head, stage, synth, token,
                     resynth, executions, faults, overruns, spent>>
    BY DEF CallAgain
<1>2. call' \in Call /\ call'.pc = "look" /\ call'.at = token /\ call'.lead = 0
    <2>1. token \in Token
        BY DEF Shape, CdkTypeOK
    <2> QED BY <1>1, <2>1 DEF Call, NoCall
<1>3. CdkTypeOK'
    BY <1>1, <1>2 DEF Shape, CdkTypeOK, ArtifactsTypeOK, SandboxTypeOK, artifactVars
<1>4. StageShape' /\ TokenShape'
    BY <1>1 DEF Shape, StageShape, TokenShape, Continues, First, artifactVars
<1>5. CallShape'
    BY <1>1, <1>2 DEF CallShape
<1> QED BY <1>3, <1>4, <1>5 DEF Shape

\* The execution ends, after its last reply or by a call that failed.
LEMMA EndingShape ==
    ASSUME Shape, stage = "call", stage' = "idle", synth' = [run |-> 0, ok |-> FALSE], call' = NoCall,
           sandbox' = IF synth.ok THEN [sandbox EXCEPT ![synth.run] = NoRun] ELSE sandbox,
           UNCHANGED <<artifactVars, status, fix, superseder, head, token, resynth, executions,
                       faults, overruns, spent>>
    PROVE  Shape'
<1>1. SandboxTypeOK'
    <2>1. CASE UNCHANGED sandbox
        BY <2>1 DEF SandboxTypeOK, Shape, CdkTypeOK
    <2> QED BY <2>1, FreedTypes DEF Shape, CdkTypeOK
<1>2. CdkTypeOK'
    BY <1>1, NewTypes DEF Shape, CdkTypeOK, ArtifactsTypeOK, artifactVars
<1>3. StageShape' /\ TokenShape'
    BY DEF Shape, StageShape, TokenShape, Continues, First, artifactVars
<1>4. CallShape'
    BY DEF CallShape, NoCall
<1> QED BY <1>2, <1>3, <1>4 DEF Shape

LEMMA FileDoneShape ==
    ASSUME Shape, FileDone
    PROVE  Shape'
<1>1. call.pc = "none" => UNCHANGED call
    BY DEF FileDone
<1>2. call = NoCall
    BY DEF FileDone, Shape, CallShape
<1> QED BY <1>2, EndingShape DEF FileDone

LEMMA CallFailsShape ==
    ASSUME Shape, CallFails
    PROVE  Shape'
<1>1. CASE call' = NoCall /\ stage' = "idle"
    BY <1>1, EndingShape DEF CallFails
<1>2. CASE /\ call' = [NoCall EXCEPT !.pc = "look", !.at = token] /\ faults' = faults + 1
           /\ UNCHANGED <<sandbox, stage, synth>>
    <2>1. /\ stage = "call"
          /\ UNCHANGED <<artifactVars, status, fix, superseder, head, token, resynth, executions,
                         overruns, spent>>
        BY DEF CallFails
    <2>2. call' \in Call /\ call'.pc = "look" /\ call'.at = token /\ call'.lead = 0
        <3>1. token \in Token
            BY DEF Shape, CdkTypeOK
        <3> QED BY <1>2, <3>1 DEF Call, NoCall
    <2>3. CdkTypeOK'
        BY <1>2, <2>1, <2>2 DEF Shape, CdkTypeOK, ArtifactsTypeOK, SandboxTypeOK, artifactVars
    <2>4. StageShape' /\ TokenShape'
        BY <1>2, <2>1 DEF Shape, StageShape, TokenShape, Continues, First, artifactVars
    <2>5. CallShape'
        BY <2>1, <2>2 DEF CallShape
    <2> QED BY <2>3, <2>4, <2>5 DEF Shape
<1> QED BY <1>1, <1>2 DEF CallFails

LEMMA ResynthEndsShape ==
    ASSUME Shape, NEW answer \in {"ok", "error"}, NEW stacks \in SUBSET Stacks,
           stage = "resynth", stage' = "call", resynth' = 0, SandboxTypeOK',
           token' = [token EXCEPT !.answer = answer, !.stacks = stacks],
           call' = [NoCall EXCEPT !.pc = "look", !.at = token'],
           UNCHANGED <<artifactVars, status, fix, superseder, head, synth, executions, faults, spent>>,
           overruns' \in Nat
    PROVE  Shape'
<1>1. /\ token' \in Token /\ token'.answer = answer /\ token'.pending = token.pending
      /\ token'.chain = token.chain
    <2>1. token \in Token
        BY DEF Shape, CdkTypeOK
    <2> QED BY <2>1 DEF Token
<1>2. call' \in Call /\ call'.pc = "look" /\ call'.at = token' /\ call'.lead = 0
    BY <1>1 DEF Call, NoCall
<1>3. CdkTypeOK'
    BY <1>1, <1>2 DEF Shape, CdkTypeOK, ArtifactsTypeOK, artifactVars
<1>4. StageShape'
    BY DEF Shape, StageShape, TokenShape, artifactVars
<1>5. TokenShape'
    BY <1>1 DEF Shape, TokenShape, Continues, First, artifactVars
<1>6. CallShape'
    BY <1>2 DEF CallShape
<1> QED BY <1>3, <1>4, <1>5, <1>6 DEF Shape

LEMMA ResynthAnsweredShape ==
    ASSUME Shape, ResynthAnswered
    PROVE  Shape'
<1> DEFINE answer == IF sandbox[resynth].status = "ok" THEN "ok" ELSE "error"
<1>1. stage = "resynth" /\ resynth \in SandboxRuns
    BY DEF ResynthAnswered, Shape, CdkTypeOK, StageShape
<1>2. SandboxTypeOK'
    BY FreedTypes DEF ResynthAnswered, Shape, CdkTypeOK
<1>3. sandbox[resynth].stacks \in SUBSET Stacks
    BY <1>1 DEF Shape, CdkTypeOK, SandboxTypeOK, SandboxRun
<1>4. token' = [token EXCEPT !.answer = answer, !.stacks = sandbox[resynth].stacks]
    BY DEF ResynthAnswered
<1>5. answer \in {"ok", "error"} /\ overruns \in Nat
    BY DEF Shape, CdkTypeOK
<1> HIDE DEF answer
<1> QED BY <1>1, <1>2, <1>3, <1>4, <1>5, ResynthEndsShape DEF ResynthAnswered

LEMMA ResynthOverrunsShape ==
    ASSUME Shape, ResynthOverruns
    PROVE  Shape'
<1>1. token \in Token /\ overruns \in Nat
    BY DEF Shape, CdkTypeOK
<1>2. token' = [token EXCEPT !.answer = "error", !.stacks = token.stacks]
    BY <1>1 DEF ResynthOverruns, Token
<1>3. token.stacks \in SUBSET Stacks
    BY <1>1 DEF Token
<1>4. SandboxTypeOK'
    BY DEF ResynthOverruns, Shape, CdkTypeOK, SandboxTypeOK
<1>5. overruns' \in Nat
    BY <1>1 DEF ResynthOverruns
<1> QED BY <1>2, <1>3, <1>4, <1>5, ResynthEndsShape DEF ResynthOverruns

----------------------------------------------------------------------------
(* The shape: a call's replies *)

\* A call that has settled its group, and goes on to the next.
LEMMA SettledShape ==
    ASSUME Shape, call.pc \in {"judge", "rest", "next"},
           call'.pc = "next", call'.lead = 0, call'.at.first = call.at.first,
           call'.at.pending = NoPending, call'.at.answer = "none",
           call'.at.chain.base # 0,
           call'.at.chain.tip # 0 => stored[call'.at.chain.tip] # NoContent,
           call.at.done \subseteq call'.at.done,
           call.pc # "next" => \A f \in call.at.pending.ids : PathOf[f] \in call'.at.done,
           UNCHANGED <<snapshot, stored, pendingJson, head, stage, synth, token, resynth>>
    PROVE  StageShape' /\ TokenShape' /\ CallShape'
<1>1. stage = "call"
    BY DEF Shape, StageShape, NoCall
<1>2. StageShape' /\ TokenShape'
    BY <1>1 DEF Shape, StageShape, TokenShape, Continues, First
<1>3. CallShape'
    BY DEF Shape, CallShape, Continues, NoPending
<1> QED BY <1>2, <1>3

\* A reply with nothing to run is the next input.
LEMMA ReplyShape ==
    ASSUME Shape, stage = "call", NEW at \in Token, Return(at, NoJob),
           Continues(at), at.pending.ids = {} <=> at.answer = "none",
           status' \in [Findings -> Statuses], superseder' \in [Findings -> Findings \cup {0}],
           UNCHANGED <<artifactVars, fix, head, synth, executions, faults, overruns, spent>>
    PROVE  Shape'
<1>1. call' = NoCall /\ token' = at /\ UNCHANGED <<stage, sandbox, resynth>>
    BY DEF Return
<1>2. CdkTypeOK'
    BY <1>1, NewTypes DEF Shape, CdkTypeOK, ArtifactsTypeOK, SandboxTypeOK, artifactVars
<1>3. StageShape' /\ TokenShape'
    BY <1>1 DEF Shape, StageShape, TokenShape, Continues, First, artifactVars
<1>4. CallShape'
    BY <1>1 DEF CallShape, NoCall
<1> QED BY <1>2, <1>3, <1>4 DEF Shape

LEMMA YieldCallShape ==
    ASSUME Shape, YieldCall
    PROVE  Shape'
<1>1. stage = "call" /\ call.pc = "next" /\ Return(call.at, NoJob)
    BY DEF YieldCall, InCall
<1>2. call.at \in Token
    BY DEF Shape, CdkTypeOK, Call
<1>3. /\ Continues(call.at) /\ call.at.pending.ids = {} /\ call.at.answer = "none"
    BY <1>1 DEF Shape, CallShape, NoPending
<1>4. status' \in [Findings -> Statuses] /\ superseder' \in [Findings -> Findings \cup {0}]
    BY DEF YieldCall, Shape, CdkTypeOK
<1> QED BY <1>1, <1>2, <1>3, <1>4, ReplyShape DEF YieldCall

LEMMA EndCallShape ==
    ASSUME Shape, EndCall
    PROVE  Shape'
<1> DEFINE at == [call.at EXCEPT !.complete = TRUE]
<1>1. stage = "call" /\ call.pc = "next" /\ Return(at, NoJob)
    BY DEF EndCall, InCall
<1>2. call.at \in Token
    BY DEF Shape, CdkTypeOK, Call
<1>3. /\ Continues(call.at) /\ call.at.pending.ids = {} /\ call.at.answer = "none"
    BY <1>1 DEF Shape, CallShape, NoPending
<1>4. /\ at \in Token /\ at.pending = call.at.pending /\ at.answer = call.at.answer
      /\ at.chain = call.at.chain
    BY <1>2 DEF Token
<1>5. status' \in [Findings -> Statuses] /\ superseder' \in [Findings -> Findings \cup {0}]
    BY DEF EndCall, Shape, CdkTypeOK
<1> HIDE DEF at
<1>6. Continues(at)
    BY <1>3, <1>4 DEF Continues, First
<1> QED BY <1>1, <1>3, <1>4, <1>5, <1>6, ReplyShape DEF EndCall

\* The chain a file is drafted on has the snapshot's commit.
LEMMA RootTypes ==
    ASSUME Shape, NEW chain \in Chain
    PROVE  /\ RootChain(chain) \in Chain
           /\ RootChain(chain).tip # 0 => RootChain(chain).tip = chain.tip
           /\ synth.ok /\ (chain # NoChain => chain.base # 0) => RootChain(chain).base # 0
           /\ ~synth.ok \/ chain # NoChain => RootChain(chain) = chain
<1>1. CASE chain # NoChain \/ ~synth.ok
    BY <1>1 DEF RootChain
<1>2. CASE chain = NoChain /\ synth.ok
    <2> DEFINE root == [NoChain EXCEPT !.base = snapshot.own, !.known = Findings,
                            !.paths = ConstructsIn(sandbox[synth.run].stacks)]
    <2>1. RootChain(chain) = root
        BY <1>2 DEF RootChain
    <2>2. snapshot.own \in Nat /\ snapshot.own # 0 /\ Findings \subseteq Triples
          /\ ConstructsIn(sandbox[synth.run].stacks) \in SUBSET Paths
        BY DEF Shape, CdkTypeOK, ArtifactsTypeOK, Content, StageShape, Triples, ConstructsIn
    <2>3. root \in Chain /\ root.tip = 0 /\ root.base = snapshot.own
        <3>1. root = [NoChain EXCEPT !.base = root.base, !.known = root.known, !.paths = root.paths]
            BY DEF NoChain
        <3>2. root.base = snapshot.own /\ root.known \in SUBSET Triples /\ root.paths \in SUBSET Paths
              /\ root.tip = 0
            BY <2>2 DEF NoChain
        <3> HIDE DEF root
        <3> QED BY <2>2, <3>1, <3>2, NewTypes DEF Chain
    <2> HIDE DEF root
    <2> QED BY <1>2, <2>1, <2>2, <2>3
<1> QED BY <1>1, <1>2

LEMMA LookShape ==
    ASSUME Shape, Look
    PROVE  Shape'
<1> DEFINE reopened == IF call.at.first THEN Reopened ELSE {}
           now      == [f \in Findings |-> IF f \in reopened THEN "mapped" ELSE status[f]]
           open     == {f \in Findings : now[f] \in Open}
           at       == [call.at EXCEPT !.first = FALSE, !.chain = RootChain(@),
                            !.opened = IF call.at.first THEN open ELSE @]
           unsynthesized == [at EXCEPT !.complete = TRUE, !.counts.undrafted = Cardinality(open)]
<1>1. /\ stage = "call" /\ call.pc = "look"
      /\ status' = IF synth.ok THEN now
                   ELSE [f \in Findings |-> IF f \in open THEN "not-drafted" ELSE now[f]]
      /\ superseder' = [f \in Findings |-> IF f \in reopened THEN 0 ELSE superseder[f]]
      /\ UNCHANGED <<artifactVars, fix, head, synth, executions, faults, overruns, spent>>
    BY DEF Look, InCall
<1>2. \/ ~synth.ok /\ Return(unsynthesized, NoJob)
      \/ /\ synth.ok
         /\ call' = [call EXCEPT !.at = at, !.open = open,
                !.pc = IF at.answer # "none" /\ at.pending # NoPending THEN "judge" ELSE "next"]
         /\ UNCHANGED <<stage, token, sandbox, resynth>>
    BY DEF Look
<1>3. call.at = token /\ token \in Token /\ call \in Call
    BY <1>1 DEF Shape, CdkTypeOK, CallShape
<1>4. now \in [Findings -> Statuses] /\ open \in SUBSET Findings
    BY DEF Shape, CdkTypeOK, Statuses
<1>5. status' \in [Findings -> Statuses] /\ superseder' \in [Findings -> Findings \cup {0}]
    <2>1. "not-drafted" \in Statuses
        BY DEF Statuses
    <2> HIDE DEF reopened, now
    <2> QED BY <1>1, <1>4, <2>1 DEF Shape, CdkTypeOK
<1> HIDE DEF reopened, now, open
<1>6. /\ RootChain(token.chain) \in Chain
      /\ RootChain(token.chain).tip # 0 => RootChain(token.chain).tip = token.chain.tip
      /\ synth.ok /\ (token.chain # NoChain => token.chain.base # 0) =>
            RootChain(token.chain).base # 0
      /\ ~synth.ok \/ token.chain # NoChain => RootChain(token.chain) = token.chain
    <2>1. token.chain \in Chain
        BY <1>3 DEF Token
    <2> QED BY <2>1, RootTypes
<1>7. /\ at \in Token /\ at.pending = token.pending /\ at.answer = token.answer /\ ~at.first
      /\ at.stacks = token.stacks /\ at.done = token.done /\ at.drafts = token.drafts
      /\ at.chain = RootChain(token.chain)
    BY <1>3, <1>4, <1>6 DEF Token
<1> HIDE DEF at
<1>8. Continues(token)
    BY DEF Shape, TokenShape
<1>9. CASE ~synth.ok
    <2>1. /\ unsynthesized \in Token /\ unsynthesized.pending = token.pending
          /\ unsynthesized.answer = token.answer /\ unsynthesized.chain = token.chain
        <3>1. Cardinality(open) \in Nat
            BY <1>4, CountsOf
        <3>2. at.chain = token.chain
            BY <1>6, <1>7, <1>9
        <3> QED BY <1>7, <3>1, <3>2 DEF Token, Counts
    <2>2. Return(unsynthesized, NoJob)
        BY <1>2, <1>9
    <2> HIDE DEF unsynthesized
    <2>3. Continues(unsynthesized)
        BY <1>8, <2>1 DEF Continues, First
    <2>4. unsynthesized.pending.ids = {} <=> unsynthesized.answer = "none"
        BY <1>1, <2>1 DEF Shape, TokenShape
    <2> QED BY <1>1, <1>5, <2>1, <2>2, <2>3, <2>4, ReplyShape
<1>10. CASE synth.ok
    <2>1. /\ call' = [call EXCEPT !.at = at, !.open = open,
                !.pc = IF at.answer # "none" /\ at.pending # NoPending THEN "judge" ELSE "next"]
          /\ UNCHANGED <<stage, token, sandbox, resynth>>
        BY <1>2, <1>10
    <2>2. /\ call' \in Call /\ call'.at = at /\ call'.lead = call.lead
          /\ call'.pc = IF at.answer # "none" /\ at.pending # NoPending THEN "judge" ELSE "next"
        BY <1>3, <1>4, <1>7, <2>1 DEF Call
    <2>3. CdkTypeOK'
        BY <1>1, <1>5, <2>1, <2>2 DEF Shape, CdkTypeOK, ArtifactsTypeOK, SandboxTypeOK, artifactVars
    <2>4. StageShape' /\ TokenShape'
        BY <1>1, <2>1 DEF Shape, StageShape, TokenShape, Continues, First, artifactVars
    <2>5. at.chain.tip # 0 => stored[at.chain.tip] # NoContent
        BY <1>6, <1>7, <1>8 DEF Continues
    <2>6. token.pending.ids # {} => at.chain = token.chain /\ at.chain.base # 0
        <3>1. token.pending.ids # {} => token.chain.base # 0
            BY <1>8 DEF Continues
        <3>2. NoChain.base = 0
            BY DEF NoChain
        <3> QED BY <1>6, <1>7, <3>1, <3>2
    <2>7. Continues(at)
        <3>1. at.chain.base # 0
            BY <1>6, <1>7, <1>8, <1>10 DEF Continues
        <3> QED BY <1>7, <1>8, <2>5, <3>1 DEF Continues, First
    <2>8. token.pending.ids = {} <=> token.answer = "none"
        BY <1>1 DEF Shape, TokenShape
    <2>9. token.pending.ids = {} <=> token.pending = NoPending
        BY <1>8 DEF Continues, NoPending
    <2>10. call.lead = 0
        BY <1>1 DEF Shape, CallShape
    <2>11. call'.pc = "judge" \/ call'.pc = "next"
        BY <2>2
    <2>12. at.chain.base # 0
        BY <1>6, <1>7, <1>8, <1>10 DEF Continues
    <2>13. CallShape'
        BY <1>1, <1>7, <1>10, <2>1, <2>2, <2>6, <2>7, <2>8, <2>9, <2>10, <2>11, <2>12
           DEF CallShape, Continues, First, artifactVars
    <2> QED BY <2>3, <2>4, <2>13 DEF Shape
<1> QED BY <1>9, <1>10

----------------------------------------------------------------------------
(* The shape: drafting and judging *)

LEMMA RecordedTypes ==
    ASSUME Shape, NEW draft \in Answers, NEW passed \in BOOLEAN
    PROVE  Recorded(call.at.chain, draft, passed) \in CdkFix
<1>1. call.at.chain \in Chain
    BY DEF Shape, CdkTypeOK, Call, Token
<1> QED BY <1>1 DEF Recorded, CdkFix, Chain

LEMMA UploadShape ==
    ASSUME Shape, stage = "call", call.pc \in {"judge", "next"},
           NEW group \in SUBSET Findings, group # {}, NEW p \in Paths,
           \A f \in group : PathOf[f] = p,
           NEW attempt \in Attempts, NEW draft \in Answers,
           UploadDraft(group, attempt, draft),
           UNCHANGED <<fix, head, synth, executions, faults, overruns>>
    PROVE  Shape'
<1> DEFINE lead == Lowest(group)
           at   == [call.at EXCEPT !.pending = [ids |-> group, attempt |-> attempt],
                                   !.drafts = @ + Spend(draft)]
           file == [BaseContent(call.at.chain) EXCEPT !.drafts = @ \cup {<<PathOf[lead], draft>>}]
           job  == ResynthJob(lead, attempt)
<1>1. /\ stored' = [stored EXCEPT ![lead] = file]
      /\ pendingJson' = [pendingJson EXCEPT ![lead] = draft]
      /\ spent' = spent + Spend(draft)
      /\ Return(at, job)
      /\ UNCHANGED <<snapshot, templates, status, fix, superseder>>
    BY DEF UploadDraft
<1>2. lead \in group /\ lead \in Findings /\ PathOf[lead] = p
    BY LowestIn
<1>3. call \in Call /\ call.at \in Token /\ call.at.chain \in Chain
    BY DEF Shape, CdkTypeOK, Call, Token
<1>4. /\ synth.ok /\ call.at.chain.base # 0 /\ Continues(call.at)
      /\ synth.run \in SandboxRuns /\ synth.run # 0
    BY SandboxRunsAssumption DEF Shape, CallShape, StageShape, CdkTypeOK
<1>5. file \in Content
    <2>1. BaseContent(call.at.chain) \in Content
        BY <1>3, <1>4 DEF BaseContent, Shape, CdkTypeOK, ArtifactsTypeOK, Chain, Continues
    <2> HIDE DEF lead
    <2> QED BY <1>2, <2>1 DEF Content
<1>6. job \in Job /\ job # NoJob
    <2>1. sandbox[synth.run].job.project \in Nat
        BY <1>4 DEF Shape, CdkTypeOK, SandboxTypeOK, SandboxRun, Job
    <2>2. <<lead, attempt>> \in Prefixes
        BY <1>2 DEF Prefixes
    <2> HIDE DEF lead
    <2>3. job \in Job
        BY <1>2, <1>4, <2>1, <2>2 DEF ResynthJob, Job, Kinds, SynthKinds, Phases
    <2>4. job.kind = "cdk-resynth" /\ NoJob.kind = "sleep"
        BY DEF ResynthJob, NoJob
    <2> QED BY <2>3, <2>4
<1>7. Spend(draft) \in Nat
    BY DEF Spend
<1>8. /\ at \in Token /\ at.pending.ids = group /\ at.chain = call.at.chain
    <2> DEFINE pending == [ids |-> group, attempt |-> attempt]
    <2>1. pending \in Pending /\ pending.ids = group
        BY DEF Pending
    <2>2. call.at.drafts + Spend(draft) \in Nat
        BY <1>3, <1>7 DEF Token
    <2>3. at = [call.at EXCEPT !.pending = pending, !.drafts = call.at.drafts + Spend(draft)]
        OBVIOUS
    <2> HIDE DEF pending, at
    <2> QED BY <1>3, <2>1, <2>2, <2>3 DEF Token
<1> HIDE DEF lead, file, job, at
<1>9. /\ call' = NoCall /\ token' = [at EXCEPT !.answer = "none", !.stacks = {}]
      /\ stage' = "resynth" /\ StartSandbox(job) /\ resynth' = NextRun
    BY <1>1, <1>6 DEF Return
<1>10. SandboxTypeOK' /\ NextRun \in SandboxRuns /\ NextRun # 0
    BY <1>6, <1>9, StartTypes, SandboxRunsAssumption DEF Shape, CdkTypeOK
<1>11. /\ token' \in Token /\ token'.answer = "none" /\ token'.chain = call.at.chain
       /\ token'.pending.ids = group
    <2> DEFINE now == [at EXCEPT !.answer = "none", !.stacks = {}]
    <2>1. /\ now \in Token /\ now.answer = "none" /\ now.chain = at.chain /\ now.pending = at.pending
        BY <1>8 DEF Token
    <2>2. token' = now
        BY <1>9
    <2> HIDE DEF now
    <2> QED BY <1>8, <2>1, <2>2
<1>12. /\ stored' \in [Findings -> Content \cup {NoContent}]
       /\ pendingJson' \in [Findings -> Answers \cup {NoDraft}]
    BY <1>1, <1>2, <1>5 DEF Shape, CdkTypeOK, ArtifactsTypeOK
<1>13. CdkTypeOK'
    BY <1>1, <1>7, <1>9, <1>10, <1>11, <1>12, NewTypes DEF Shape, CdkTypeOK, ArtifactsTypeOK
<1>14. StageShape'
    BY <1>1, <1>4, <1>9, <1>10 DEF Shape, StageShape
<1>15. TokenShape'
    <2>1. token'.chain.tip # 0 => stored'[token'.chain.tip] # NoContent
        BY <1>1, <1>2, <1>3, <1>4, <1>5, <1>11, NoContentAssumption
           DEF Continues, Chain, Shape, CdkTypeOK, ArtifactsTypeOK
    <2>2. stored'[lead] # NoContent /\ pendingJson'[lead] # NoDraft
        BY <1>1, <1>2, <1>5, NoContentAssumption, NoDraftAssumption DEF Shape, CdkTypeOK, ArtifactsTypeOK
    <2>3. First(token') = lead
        BY <1>11 DEF First, lead
    <2>4. Continues(token)'
        BY <1>2, <1>4, <1>11, <2>1, <2>2, <2>3 DEF Continues, First
    <2> QED BY <1>4, <1>9, <1>11, <2>4 DEF TokenShape
<1>16. CallShape'
    BY <1>9 DEF CallShape, NoCall
<1> QED BY <1>13, <1>14, <1>15, <1>16 DEF Shape

LEMMA RefuseShape ==
    ASSUME Shape, stage = "call", call.pc \in {"judge", "next"},
           NEW group \in SUBSET Findings, group # {}, NEW p \in Groups,
           \A f \in group : PathOf[f] = p,
           call.pc = "judge" => group = call.at.pending.ids,
           NEW draft \in Answers, RefuseDraft(group, draft),
           UNCHANGED <<head, synth, executions, faults, overruns>>
    PROVE  Shape'
<1> DEFINE lead == Lowest(group)
           at == [call.at EXCEPT !.done = @ \cup {PathOf[lead]}, !.pending = NoPending,
                             !.answer = "none", !.stacks = {}, !.drafts = @ + Spend(draft),
                             !.counts.human = @ + 1,
                             !.counts.undrafted = @ + Cardinality(group) - 1]
<1>1. /\ fix' = [fix EXCEPT ![lead] = Recorded(call.at.chain, draft, FALSE)]
      /\ status' = [f \in Findings |-> IF f = lead THEN "needs-human-only"
                                        ELSE IF f \in group THEN "not-drafted" ELSE status[f]]
      /\ spent' = spent + Spend(draft)
      /\ UNCHANGED <<artifactVars, sandbox, superseder, stage, token, resynth>>
    BY DEF RefuseDraft
<1>2. lead \in group /\ lead \in Findings /\ PathOf[lead] = p
    BY LowestIn
<1>3. call \in Call /\ call.at \in Token /\ call.at.counts \in Counts /\ Spend(draft) \in Nat
    BY DEF Shape, CdkTypeOK, Call, Token, Spend
<1>4. /\ call.at.counts.human + 1 \in Nat
      /\ call.at.counts.undrafted + Cardinality(group) - 1 \in Nat
      /\ call.at.drafts + Spend(draft) \in Nat
      /\ call.at.done \cup {PathOf[lead]} \in SUBSET Groups
    <2>1. Cardinality(group) - 1 \in Nat /\ Cardinality(group) \in Nat
        BY CountsOf
    <2> QED BY <1>2, <1>3, <2>1 DEF Token, Counts
<1>5. /\ at \in Token /\ at.first = call.at.first /\ at.pending = NoPending /\ at.answer = "none"
      /\ at.chain = call.at.chain /\ at.done = call.at.done \cup {PathOf[lead]}
    <2> HIDE DEF lead
    <2> QED BY <1>3, <1>4, NewTypes, ZenonT(40) DEF Token, Counts
<1>12. call' = [call EXCEPT !.pc = "next", !.worked = TRUE, !.at = at]
    BY DEF RefuseDraft
<1> HIDE DEF at
<1>6. /\ call' \in Call /\ call'.pc = "next" /\ call'.at = at /\ call'.lead = call.lead
    BY <1>3, <1>5, <1>12 DEF Call
<1>7. fix' \in [Findings -> CdkFix \cup {NoFix}] /\ status' \in [Findings -> Statuses]
    <2>1. Recorded(call.at.chain, draft, FALSE) \in CdkFix
        BY RecordedTypes
    <2> HIDE DEF lead
    <2> QED BY <1>1, <1>2, <2>1 DEF Shape, CdkTypeOK, Statuses
<1>8. CdkTypeOK'
    <2>1. ArtifactsTypeOK' /\ SandboxTypeOK'
        BY <1>1 DEF Shape, CdkTypeOK, ArtifactsTypeOK, SandboxTypeOK, artifactVars
    <2>2. spent' \in Nat /\ UNCHANGED <<superseder, stage, token, resynth>>
        BY <1>1, <1>3 DEF Shape, CdkTypeOK
    <2> QED BY <1>6, <1>7, <2>1, <2>2 DEF Shape, CdkTypeOK
<1>9. /\ call.at.chain.base # 0 /\ Continues(call.at) /\ call.lead = 0
    BY DEF Shape, CallShape
<1>10. call.pc # "next" => \A f \in call.at.pending.ids : PathOf[f] \in call'.at.done
    BY <1>2, <1>5, <1>6
<1>11. StageShape' /\ TokenShape' /\ CallShape'
    BY <1>1, <1>5, <1>6, <1>9, <1>10, SettledShape DEF Continues, artifactVars
<1> QED BY <1>8, <1>11 DEF Shape

\* What is judged is of one resource.
LEMMA JudgedFacts ==
    ASSUME Shape, call.pc \in {"judge", "rest"}
    PROVE  /\ stage = "call"
           /\ call.at.pending.ids \in SUBSET Findings /\ call.at.pending.ids # {}
           /\ Lead0 \in call.at.pending.ids /\ Lead0 \in Findings
           /\ Lead \in call.at.pending.ids /\ Lead \in Findings
           /\ call.at.pending.attempt \in Attempts
           /\ pendingJson[Lead0] \in Answers /\ stored[Lead0] \in Content
           /\ PathOf[Lead0] \in Paths
           /\ \A f \in call.at.pending.ids : PathOf[f] = PathOf[Lead0]
<1>1. stage = "call"
    BY DEF Shape, StageShape, NoCall
<1>2. call.at.pending \in Pending
    BY DEF Shape, CdkTypeOK, Call, Token
<1>3. call.at.pending.ids # {} /\ Continues(call.at)
    BY DEF Shape, CallShape
<1>4. call.at.pending.ids \in SUBSET Findings /\ call.at.pending.attempt \in Attempts
    BY <1>2 DEF Pending
<1>5. Lead0 \in call.at.pending.ids
    BY <1>3, <1>4, LowestIn DEF Lead0
<1>6. Lead \in call.at.pending.ids
    <2>1. Cleared \in SUBSET Findings /\ Cleared \subseteq call.at.pending.ids
        BY <1>4 DEF Cleared
    <2> QED BY <1>5, <2>1, LowestIn DEF Lead
<1>7. First(call.at) = Lead0
    BY DEF First, Lead0
<1>8. pendingJson[Lead0] # NoDraft /\ stored[Lead0] # NoContent
    BY <1>3, <1>7 DEF Continues
<1>9. PathOf[Lead0] \in Paths /\ \A f \in call.at.pending.ids : PathOf[f] = PathOf[Lead0]
    BY <1>3, <1>5 DEF Continues
<1> QED BY <1>1, <1>3, <1>4, <1>5, <1>6, <1>8, <1>9 DEF Shape, CdkTypeOK, ArtifactsTypeOK

LEMMA SettledTypes ==
    ASSUME Shape, call.pc \in {"judge", "rest"}, NEW at \in Token
    PROVE  /\ Settled(at) \in Call
           /\ Settled(at).pc = "next" /\ Settled(at).lead = 0 /\ Settled(at).open = call.open
           /\ Settled(at).at.pending = NoPending /\ Settled(at).at.answer = "none"
           /\ Settled(at).at.done = at.done \cup {PathOf[Lead0]}
           /\ Settled(at).at.first = at.first /\ Settled(at).at.chain = at.chain
           /\ Settled(at).at.drafts = at.drafts
<1> DEFINE now == [at EXCEPT !.done = @ \cup {PathOf[Lead0]}, !.pending = NoPending,
                             !.answer = "none", !.stacks = {}]
<1>1. at.done \cup {PathOf[Lead0]} \in SUBSET Groups
    BY JudgedFacts DEF Groups, Token
<1>2. /\ now \in Token /\ now.pending = NoPending /\ now.answer = "none"
      /\ now.done = at.done \cup {PathOf[Lead0]} /\ now.first = at.first /\ now.chain = at.chain
      /\ now.drafts = at.drafts
    BY <1>1, NewTypes DEF Token
<1>3. Settled(at) = [call EXCEPT !.pc = "next", !.worked = TRUE, !.lead = 0, !.at = now]
    BY DEF Settled
<1>4. call \in Call
    BY DEF Shape, CdkTypeOK
<1> HIDE DEF now
<1> QED BY <1>2, <1>3, <1>4 DEF Call

LEMMA UnverifiedShape ==
    ASSUME Shape, Unverified
    PROVE  Shape'
<1> DEFINE ids == call.at.pending.ids
           at == [call.at EXCEPT !.counts.human = @ + 1,
                                 !.counts.undrafted = @ + Cardinality(ids) - 1]
<1>1. /\ call.pc = "judge"
      /\ fix' = [fix EXCEPT ![Lead0] = Recorded(call.at.chain, pendingJson[Lead0], FALSE)]
      /\ status' = [f \in Findings |-> IF f = Lead0 THEN "needs-human-only"
                                        ELSE IF f \in ids THEN "not-drafted" ELSE status[f]]
      /\ call' = Settled(at)
      /\ UNCHANGED <<artifactVars, sandbox, superseder, head, stage, synth, token, resynth,
                     executions, faults, overruns, spent>>
    BY DEF Unverified, InCall
<1>2. /\ ids \in SUBSET Findings /\ ids # {} /\ pendingJson[Lead0] \in Answers /\ Lead0 \in Findings
      /\ \A f \in ids : PathOf[f] = PathOf[Lead0]
    BY <1>1, JudgedFacts
<1>3. call \in Call /\ call.at \in Token /\ call.at.counts \in Counts
    BY DEF Shape, CdkTypeOK, Call, Token
<1>4. /\ call.at.counts.human + 1 \in Nat
      /\ call.at.counts.undrafted + Cardinality(ids) - 1 \in Nat
    <2>1. Cardinality(ids) - 1 \in Nat /\ Cardinality(ids) \in Nat
        BY <1>2, CountsOf
    <2> HIDE DEF ids
    <2> QED BY <1>3, <2>1 DEF Counts
<1>5. /\ at \in Token /\ at.first = call.at.first /\ at.chain = call.at.chain /\ at.done = call.at.done
    <2> HIDE DEF ids
    <2> QED BY <1>3, <1>4 DEF Token, Counts
<1> HIDE DEF at
<1>6. /\ call' \in Call /\ call'.pc = "next" /\ call'.lead = 0
      /\ call'.at.pending = NoPending /\ call'.at.answer = "none"
      /\ call'.at.done = call.at.done \cup {PathOf[Lead0]}
      /\ call'.at.first = call.at.first /\ call'.at.chain = call.at.chain
    BY <1>1, <1>5, SettledTypes
<1>7. fix' \in [Findings -> CdkFix \cup {NoFix}] /\ status' \in [Findings -> Statuses]
    <2>1. Recorded(call.at.chain, pendingJson[Lead0], FALSE) \in CdkFix
        BY <1>2, RecordedTypes
    <2> QED BY <1>1, <1>2, <2>1 DEF Shape, CdkTypeOK, Statuses
<1>8. CdkTypeOK'
    BY <1>1, <1>6, <1>7 DEF Shape, CdkTypeOK, ArtifactsTypeOK, SandboxTypeOK, artifactVars
<1>9. call.at.chain.base # 0 /\ Continues(call.at)
    BY <1>1 DEF Shape, CallShape
<1>10. StageShape' /\ TokenShape' /\ CallShape'
    BY <1>1, <1>2, <1>6, <1>9, SettledShape DEF Continues, artifactVars
<1> QED BY <1>8, <1>10 DEF Shape

LEMMA RedraftShape ==
    ASSUME Shape, Redraft
    PROVE  Shape'
<1> DEFINE ids == call.at.pending.ids
           attempt == call.at.pending.attempt + 1
<1>1. call.pc = "judge" /\ MayRedraft /\ Drafted(ids, attempt)
    BY DEF Redraft, InCall
<1>2. /\ stage = "call" /\ ids \in SUBSET Findings /\ ids # {}
      /\ PathOf[Lead0] \in Paths /\ \A f \in ids : PathOf[f] = PathOf[Lead0]
      /\ call.at.pending.attempt \in Attempts
    BY <1>1, JudgedFacts
<1>3. attempt \in Attempts
    BY <1>1, <1>2 DEF MayRedraft, Attempts
<1> HIDE DEF attempt
<1>4. PICK draft \in Answers : \/ UploadDraft(ids, attempt, draft) /\ UNCHANGED fix
                               \/ RefuseDraft(ids, draft)
    BY <1>1 DEF Drafted
<1>5. UNCHANGED <<head, synth, executions, faults, overruns>>
    BY <1>1 DEF Drafted
<1>6. CASE UploadDraft(ids, attempt, draft) /\ UNCHANGED fix
    BY <1>1, <1>2, <1>3, <1>5, <1>6, UploadShape
<1>7. CASE RefuseDraft(ids, draft)
    <2>1. PathOf[Lead0] \in Groups
        BY <1>2 DEF Groups
    <2> QED BY <1>1, <1>2, <1>5, <1>7, <2>1, RefuseShape
<1> QED BY <1>4, <1>6, <1>7

LEMMA DraftGroupShape ==
    ASSUME Shape, DraftGroup
    PROVE  Shape'
<1>1. call.pc = "next" /\ stage = "call" /\ Left # {} /\ NextPath # NoPath /\ Drafted(Group, 1)
    BY DEF DraftGroup, MayDraft, InCall
<1>2. call.open \in SUBSET Findings
    BY DEF Shape, CdkTypeOK, Call
<1>3. /\ Group \in SUBSET Findings /\ Group # {} /\ \A f \in Group : PathOf[f] = NextPath
      /\ NextPath \in Groups /\ NextPath \in Paths
    BY <1>1, <1>2, GroupFacts DEF Groups
<1>4. PICK draft \in Answers : \/ UploadDraft(Group, 1, draft) /\ UNCHANGED fix
                               \/ RefuseDraft(Group, draft)
    BY <1>1 DEF Drafted
<1>5. UNCHANGED <<head, synth, executions, faults, overruns>>
    BY <1>1 DEF Drafted
<1>6. CASE UploadDraft(Group, 1, draft) /\ UNCHANGED fix
    <2>1. 1 \in Attempts
        BY DEF Attempts
    <2> QED BY <1>1, <1>3, <1>5, <1>6, <2>1, UploadShape
<1>7. CASE RefuseDraft(Group, draft)
    BY <1>1, <1>3, <1>5, <1>7, RefuseShape
<1> QED BY <1>4, <1>6, <1>7

LEMMA RecordLeadShape ==
    ASSUME Shape, RecordLead
    PROVE  Shape'
<1>1. /\ call.pc = "judge" /\ call.at.answer = "ok"
      /\ stored' = [stored EXCEPT ![Lead] = stored[Lead0]]
      /\ fix' = [fix EXCEPT ![Lead] = Recorded(call.at.chain, pendingJson[Lead0], Passed)]
      /\ status' = [status EXCEPT ![Lead] = IF Passed THEN "fix-proposed" ELSE "needs-human-only"]
      /\ UNCHANGED <<snapshot, pendingJson, templates, sandbox, superseder, head, stage,
                     synth, token, resynth, executions, faults, overruns, spent>>
    BY DEF RecordLead, InCall
<1>2. /\ stage = "call" /\ Lead0 \in Findings /\ Lead \in Findings
      /\ Lead \in call.at.pending.ids
      /\ pendingJson[Lead0] \in Answers /\ stored[Lead0] \in Content
    BY <1>1, JudgedFacts
<1> DEFINE at == [call.at EXCEPT !.counts.proposed = IF Passed THEN @ + 1 ELSE @,
                                 !.counts.human = IF Passed THEN @ ELSE @ + 1]
<1>3. call \in Call /\ call.at \in Token /\ call.at.counts \in Counts
    BY DEF Shape, CdkTypeOK, Call, Token
<1>4. /\ call' \in Call /\ call'.pc = "rest" /\ call'.lead = Lead
      /\ call'.at.first = call.at.first /\ call'.at.pending = call.at.pending
      /\ call'.at.answer = call.at.answer /\ call'.at.stacks = call.at.stacks
      /\ call'.at.done = call.at.done /\ call'.at.drafts = call.at.drafts
      /\ call'.at.chain = call.at.chain
    <2>1. call' = [call EXCEPT !.pc = "rest", !.lead = Lead,
                        !.at.counts.proposed = IF Passed THEN @ + 1 ELSE @,
                        !.at.counts.human = IF Passed THEN @ ELSE @ + 1]
        BY DEF RecordLead
    <2>2. /\ (IF Passed THEN call.at.counts.proposed + 1 ELSE call.at.counts.proposed) \in Nat
          /\ (IF Passed THEN call.at.counts.human ELSE call.at.counts.human + 1) \in Nat
        BY <1>3 DEF Counts
    <2> QED BY <1>2, <1>3, <2>1, <2>2 DEF Call, Token, Counts
<1>5. fix' \in [Findings -> CdkFix \cup {NoFix}] /\ status' \in [Findings -> Statuses]
    <2>1. Passed \in BOOLEAN
        BY DEF Passed, Verified
    <2>2. Recorded(call.at.chain, pendingJson[Lead0], Passed) \in CdkFix
        BY <1>2, <2>1, RecordedTypes
    <2> QED BY <1>1, <1>2, <2>2 DEF Shape, CdkTypeOK, Statuses
<1>6. /\ stored' \in [Findings -> Content \cup {NoContent}]
      /\ stored'[Lead] # NoContent
      /\ \A f \in Findings : stored[f] # NoContent => stored'[f] # NoContent
    BY <1>1, <1>2, NoContentAssumption DEF Shape, CdkTypeOK, ArtifactsTypeOK
<1>7. CdkTypeOK'
    BY <1>1, <1>4, <1>5, <1>6 DEF Shape, CdkTypeOK, ArtifactsTypeOK, SandboxTypeOK
<1>8. ASSUME NEW at1 \in Token, Continues(at1) PROVE Continues(at1)'
    <2>1. at1.chain.tip # 0 => at1.chain.tip \in Findings
        BY DEF Token, Chain
    <2>2. at1.pending.ids # {} => First(at1) \in Findings
        BY LowestIn DEF First, Token, Pending
    <2> QED BY <1>1, <1>6, <1>8, <2>1, <2>2 DEF Continues, First
<1>9. token \in Token /\ Continues(token) /\ Continues(call.at)
    BY <1>1 DEF Shape, CdkTypeOK, TokenShape, CallShape
<1>10. StageShape'
    BY <1>1, <1>2 DEF Shape, StageShape
<1>11. TokenShape'
    <2>1. Continues(token)'
        BY <1>1, <1>8, <1>9 DEF Continues, First
    <2> QED BY <1>1, <2>1 DEF Shape, TokenShape
<1>12. CallShape'
    <2>1. Continues(call.at)'
        BY <1>3, <1>4, <1>8, <1>9 DEF Continues, First
    <2> QED BY <1>1, <1>2, <1>4, <1>6, <2>1 DEF Shape, CallShape
<1> QED BY <1>7, <1>10, <1>11, <1>12 DEF Shape

LEMMA RecordRestShape ==
    ASSUME Shape, RecordRest
    PROVE  Shape'
<1> DEFINE others == call.at.pending.ids \ {call.lead}
           gone == IF Verified THEN others \cap Cleared ELSE {}
           at == [call.at EXCEPT
                    !.counts.superseded = @ + Cardinality(gone),
                    !.counts.undrafted = @ + Cardinality(others \ gone),
                    !.chain = IF Passed THEN LinkedBy(@, call.lead) ELSE @]
<1>1. /\ call.pc = "rest"
      /\ status' = [f \in Findings |-> IF f \in gone THEN "superseded"
                                        ELSE IF f \in others THEN "not-drafted" ELSE status[f]]
      /\ superseder' = [f \in Findings |-> IF f \in gone THEN call.lead ELSE superseder[f]]
      /\ call' = Settled(at)
      /\ UNCHANGED <<artifactVars, sandbox, fix, head, stage, synth, token, resynth, executions,
                     faults, overruns, spent>>
    BY DEF RecordRest, InCall
<1>2. /\ call.at.pending.ids \in SUBSET Findings /\ pendingJson[Lead0] \in Answers
      /\ \A f \in call.at.pending.ids : PathOf[f] = PathOf[Lead0]
    BY <1>1, JudgedFacts
<1>3. /\ call.at.chain.base # 0 /\ Continues(call.at)
      /\ call.lead \in call.at.pending.ids /\ stored[call.lead] # NoContent
    BY <1>1 DEF Shape, CallShape
<1>4. call.lead \in Findings /\ call.at \in Token /\ call.at.counts \in Counts /\ call.at.chain \in Chain
    BY <1>2, <1>3 DEF Shape, CdkTypeOK, Call, Token
<1>5. others \in SUBSET Findings /\ gone \in SUBSET Findings /\ others \ gone \in SUBSET Findings
    BY <1>2
<1>6. LinkedBy(call.at.chain, call.lead) \in Chain
      /\ LinkedBy(call.at.chain, call.lead).tip = call.lead
      /\ LinkedBy(call.at.chain, call.lead).base = call.at.chain.base
    <2> DEFINE link == [finding |-> call.lead, draft |-> pendingJson[Lead0]]
    <2>1. link \in Links
        BY <1>2, <1>4 DEF Links
    <2>2. Rescan \in SUBSET Triples
        <3>1. <<Lead0, call.at.pending.attempt>> \in Prefixes
            BY <1>1, JudgedFacts DEF Prefixes
        <3>2. \A s \in Stacks : templates[<<Lead0, call.at.pending.attempt>>][s] \in
                                    (SUBSET Triples) \cup {NoTemplate}
            BY <3>1 DEF Shape, CdkTypeOK, ArtifactsTypeOK
        <3> QED BY <3>2 DEF Rescan, ScanOf
    <2>3. ConstructsIn(call.at.stacks) \in SUBSET Paths
        BY DEF ConstructsIn
    <2> HIDE DEF link
    <2>4. Append(call.at.chain.after, link) \in Seq(Links)
        BY <1>4, <2>1 DEF Chain
    <2>5. LinkedBy(call.at.chain, call.lead) =
            [call.at.chain EXCEPT !.tip = call.lead, !.known = Rescan,
                !.paths = ConstructsIn(call.at.stacks), !.after = Append(call.at.chain.after, link)]
        BY DEF LinkedBy, link
    <2> QED BY <1>4, <2>2, <2>3, <2>4, <2>5 DEF Chain
<1>7. /\ at \in Token /\ at.first = call.at.first /\ at.done = call.at.done
      /\ at.chain = IF Passed THEN LinkedBy(call.at.chain, call.lead) ELSE call.at.chain
    <2>1. Cardinality(gone) \in Nat /\ Cardinality(others \ gone) \in Nat
        BY <1>5, CountsOf
    <2>2. /\ call.at.counts.superseded + Cardinality(gone) \in Nat
          /\ call.at.counts.undrafted + Cardinality(others \ gone) \in Nat
        BY <1>4, <2>1 DEF Counts
    <2>3. (IF Passed THEN LinkedBy(call.at.chain, call.lead) ELSE call.at.chain) \in Chain
        BY <1>4, <1>6
    <2> HIDE DEF gone, others
    <2> QED BY <1>4, <2>2, <2>3 DEF Token, Counts
<1> HIDE DEF at, gone, others
<1>8. /\ call' \in Call /\ call'.pc = "next" /\ call'.lead = 0
      /\ call'.at.pending = NoPending /\ call'.at.answer = "none"
      /\ call'.at.done = call.at.done \cup {PathOf[Lead0]}
      /\ call'.at.first = call.at.first /\ call'.at.chain = at.chain
    BY <1>1, <1>7, SettledTypes
<1>9. status' \in [Findings -> Statuses] /\ superseder' \in [Findings -> Findings \cup {0}]
    BY <1>1, <1>4 DEF Shape, CdkTypeOK, Statuses
<1>10. CdkTypeOK'
    BY <1>1, <1>8, <1>9 DEF Shape, CdkTypeOK, ArtifactsTypeOK, SandboxTypeOK, artifactVars
<1>11. /\ call'.at.chain.base # 0
       /\ call'.at.chain.tip # 0 => stored[call'.at.chain.tip] # NoContent
    BY <1>3, <1>6, <1>7, <1>8 DEF Continues
<1>12. StageShape' /\ TokenShape' /\ CallShape'
    BY <1>1, <1>2, <1>8, <1>11, SettledShape DEF artifactVars
<1> QED BY <1>10, <1>12 DEF Shape

\* A call that passes a group over: what becomes of its continuation.
LEMMA PassedOverShape ==
    ASSUME Shape, call.pc = "next", call' \in Call, call'.pc = "next", call'.lead = call.lead,
           call'.at.first = call.at.first, call'.at.pending = call.at.pending,
           call'.at.answer = call.at.answer, call'.at.chain = call.at.chain,
           call.at.done \subseteq call'.at.done,
           status' \in [Findings -> Statuses], spent' \in Nat,
           UNCHANGED <<artifactVars, sandbox, fix, superseder, head, stage, synth, token, resynth,
                       executions, faults, overruns>>
    PROVE  Shape'
<1>1. CdkTypeOK'
    BY DEF Shape, CdkTypeOK, ArtifactsTypeOK, SandboxTypeOK, artifactVars
<1>2. /\ call.at.chain.base # 0 /\ Continues(call.at) /\ call.lead = 0
      /\ call.at.pending = NoPending /\ call.at.answer = "none"
    BY DEF Shape, CallShape
<1>3. StageShape' /\ TokenShape' /\ CallShape'
    BY <1>2, SettledShape DEF Continues, artifactVars
<1> QED BY <1>1, <1>3 DEF Shape

LEMMA SkipGroupShape ==
    ASSUME Shape, SkipGroup
    PROVE  Shape'
<1>1. /\ call.pc = "next" /\ Left # {}
      /\ status' = [f \in Findings |-> IF f \in Group THEN "not-drafted" ELSE status[f]]
      /\ call' = [call EXCEPT !.at.done = @ \cup {NextPath},
                              !.at.counts.undrafted = @ + Cardinality(Group)]
      /\ UNCHANGED <<artifactVars, sandbox, fix, superseder, head, stage, synth, token, resynth,
                     executions, faults, overruns, spent>>
    BY DEF SkipGroup, InCall
<1>2. call \in Call /\ call.at \in Token /\ call.at.counts \in Counts /\ call.open \in SUBSET Findings
    BY DEF Shape, CdkTypeOK, Call, Token
<1>3. NextPath \in Groups /\ Group \in SUBSET Findings
    BY <1>1, <1>2, GroupFacts
<1>4. call.at.counts.undrafted + Cardinality(Group) \in Nat /\ call.at.done \cup {NextPath} \in SUBSET Groups
    <2>1. Cardinality(Group) \in Nat
        BY <1>3, CountsOf
    <2> QED BY <1>2, <1>3, <2>1 DEF Counts, Token
<1>5. /\ call' \in Call /\ call'.pc = "next" /\ call'.lead = call.lead
      /\ call'.at.first = call.at.first /\ call'.at.pending = call.at.pending
      /\ call'.at.answer = call.at.answer /\ call'.at.chain = call.at.chain
      /\ call'.at.done = call.at.done \cup {NextPath}
    BY <1>1, <1>2, <1>4 DEF Call, Token, Counts
<1>6. status' \in [Findings -> Statuses] /\ spent' \in Nat
    BY <1>1 DEF Shape, CdkTypeOK, Statuses
<1> QED BY <1>1, <1>5, <1>6, PassedOverShape

LEMMA DraftFailsShape ==
    ASSUME Shape, DraftFails
    PROVE  Shape'
<1>1. PICK n \in {0, 1} :
        /\ spent' = spent + n
        /\ call' = [call EXCEPT !.worked = TRUE, !.at.done = @ \cup {NextPath},
                                !.at.drafts = @ + n,
                                !.at.counts.errors = @ + Cardinality(Group)]
    BY DEF DraftFails
<1>2. /\ call.pc = "next" /\ Left # {}
      /\ UNCHANGED <<artifactVars, sandbox, status, fix, superseder, head, stage, synth, token,
                     resynth, executions, faults, overruns>>
    BY DEF DraftFails, MayDraft, InCall
<1>3. call \in Call /\ call.at \in Token /\ call.at.counts \in Counts /\ call.open \in SUBSET Findings
    BY DEF Shape, CdkTypeOK, Call, Token
<1>4. NextPath \in Groups /\ Group \in SUBSET Findings
    BY <1>2, <1>3, GroupFacts
<1>5. /\ call.at.counts.errors + Cardinality(Group) \in Nat /\ call.at.drafts + n \in Nat
      /\ call.at.done \cup {NextPath} \in SUBSET Groups
    <2>1. Cardinality(Group) \in Nat
        BY <1>4, CountsOf
    <2> QED BY <1>3, <1>4, <2>1 DEF Counts, Token
<1>6. /\ call' \in Call /\ call'.pc = "next" /\ call'.lead = call.lead
      /\ call'.at.first = call.at.first /\ call'.at.pending = call.at.pending
      /\ call'.at.answer = call.at.answer /\ call'.at.chain = call.at.chain
      /\ call'.at.done = call.at.done \cup {NextPath}
    BY <1>1, <1>2, <1>3, <1>5 DEF Call, Token, Counts
<1>7. status' \in [Findings -> Statuses] /\ spent' \in Nat
    BY <1>1, <1>2 DEF Shape, CdkTypeOK
<1> QED BY <1>2, <1>6, <1>7, PassedOverShape

----------------------------------------------------------------------------
(* Type correctness *)

LEMMA StutterShape ==
    ASSUME Shape, UNCHANGED vars
    PROVE  Shape'
BY DEF Shape, CdkTypeOK, ArtifactsTypeOK, SandboxTypeOK, StageShape, TokenShape, CallShape, Continues,
       First, vars, artifactVars, cdkVars

LEMMA NextShape ==
    ASSUME Shape, [CdkNext]_vars
    PROVE  Shape'
<1>1. ASSUME NEW kind \in Kinds \ SynthKinds, NEW phases \in SUBSET Phases, OtherRun(kind, phases)
      PROVE  Shape'
    BY <1>1, OtherRunShape
<1>2. ASSUME NEW h \in 1..head, OtherFetch(h) PROVE Shape'
    BY <1>2, OtherFetchShape
<1>3. ASSUME NEW r \in SandboxRuns, Forget(r) PROVE Shape'
    BY <1>3, FreeingShape DEF Forget
<1>4. CASE SandboxNext /\ UNCHANGED cdkVars
    BY <1>4, SandboxShape DEF SandboxNext
<1>5. CASE ExecutionStep
    BY <1>5, SynthAnsweredShape, CallAgainShape, FileDoneShape, ResynthAnsweredShape, LookShape,
       UnverifiedShape, RedraftShape, RecordLeadShape, RecordRestShape, SkipGroupShape,
       DraftGroupShape, DraftFailsShape, YieldCallShape, EndCallShape
       DEF ExecutionStep, CallStep
<1> QED BY <1>1, <1>2, <1>3, <1>4, <1>5, BeginShape, ResynthOverrunsShape, CallFailsShape,
           StutterShape DEF CdkNext

\* The types, and which state of a call goes with which token and which stage, are
\* an invariant: no step of the execution or of a run leaves them.
THEOREM ShapeHolds == CdkSpec => []Shape
<1>1. CdkInit => Shape
    BY InitShape
<1>2. Shape /\ [CdkNext]_vars => Shape'
    BY NextShape
<1> QED BY <1>1, <1>2, PTL DEF CdkSpec

\* Every variable of a CDK file's drafting and of its sandbox runs keeps its
\* type, whatever is retried, overruns or is fetched meanwhile: a call finds the
\* draft, the file and the chain its continuation speaks of.
THEOREM CdkTypeCorrect == CdkSpec => []CdkTypeOK
<1>1. Shape => CdkTypeOK
    BY DEF Shape
<1> QED BY <1>1, ShapeHolds, PTL

----------------------------------------------------------------------------
(* The sandbox runs, one by one *)

JobOK(job) ==
    /\ job.kind = "cdk-synth" => job.patch = 0 /\ job.prefix = ScanPrefix
    /\ job.kind = "cdk-resynth" => job.patch # 0 /\ job.prefix \in {job.patch} \X Attempts

\* What an answer of ok stands on.
AnswerOK(run) ==
    /\ run.job.kind # "sleep" =>
        \A p \in run.job.phases : /\ run.task[p] = "stopped" /\ run.result[p] = "ok"
                                  /\ run.job.kind # "leak-test" => p \notin run.errors
    /\ run.job.kind \in SynthKinds =>
        /\ run.source # NoContent /\ Synthesizes(run.source)
        /\ run.stacks = BuiltStacks(run.source)

\* A task has run on the file the run was prepared with; what it has built, the
\* file builds; and once its run is reaped it is running no more.
RunOK(run) ==
    /\ JobOK(run.job)
    /\ run.pc \in {"none", "prepare"} =>
        /\ run.source = NoContent
        /\ \A p \in Phases : run.task[p] = "none" /\ run.result[p] = "bad" /\ run.archive[p] = "bad"
    /\ run.pc # "done" => run.status = "none"
    /\ run.pc \in {"collect", "done"} => \A p \in Phases : run.task[p] # "running"
    /\ run.pc \in {"fetch", "execute"} => run.source # NoContent
    /\ \A p \in Phases :
        /\ run.task[p] # "none" => run.source # NoContent
        /\ run.result[p] = "ok" => run.task[p] = "stopped"
        /\ run.archive[p] = "built" => run.source # NoContent /\ Synthesizes(run.source)
    /\ run.job.patch = 0 /\ run.source # NoContent => run.source.drafts = {}
    /\ run.status = "ok" => AnswerOK(run)

RunsOK == \A r \in SandboxRuns : RunOK(sandbox[r])

LEMMA NewRunOK ==
    /\ RunOK(NoRun)
    /\ \A job \in Job : JobOK(job) => RunOK([NoRun EXCEPT !.pc = "prepare", !.job = job])
BY DEF RunOK, JobOK, NoRun, NoJob, AnswerOK, SynthKinds, Phases

LEMMA PrepareOK ==
    ASSUME Shape, NEW r \in SandboxRuns, RunOK(sandbox[r]), Prepare(r)
    PROVE  RunOK(sandbox'[r])
<1> DEFINE run == sandbox[r]
<1>1. run \in SandboxRun /\ run.pc = "prepare" /\ sandbox'[r] =
        (IF ~ValidJob(run.job) \/ SourceOf(run.job) = NoContent
         THEN [run EXCEPT !.pc = "done", !.status = "dead"]
         ELSE [run EXCEPT !.pc = FirstState(run.job.phases), !.source = SourceOf(run.job)])
    BY DEF Prepare, SetRun, Shape, CdkTypeOK, SandboxTypeOK
<1>2. RunOK(run)
    OBVIOUS
<1>3. run.job.patch = 0 => SourceOf(run.job).drafts = {}
    BY DEF SourceOf
<1>4. FirstState(run.job.phases) \in {"fetch", "execute", "reap"}
    BY DEF FirstState
<1> HIDE DEF run
<1>5. CASE sandbox'[r] = [run EXCEPT !.pc = "done", !.status = "dead"]
    <2> DEFINE now == [run EXCEPT !.pc = "done", !.status = "dead"]
    <2>1. /\ now.pc = "done" /\ now.status = "dead" /\ now.job = run.job /\ now.source = run.source
          /\ now.task = run.task /\ now.result = run.result /\ now.archive = run.archive
        BY <1>1 DEF SandboxRun
    <2> HIDE DEF now
    <2>2. RunOK(now)
        BY <1>1, <1>2, <2>1 DEF RunOK
    <2> QED BY <1>5, <2>2 DEF now
<1>6. CASE /\ SourceOf(run.job) # NoContent
           /\ sandbox'[r] = [run EXCEPT !.pc = FirstState(run.job.phases), !.source = SourceOf(run.job)]
    BY <1>1, <1>2, <1>3, <1>4, <1>6 DEF RunOK, SandboxRun
<1> QED BY <1>1, <1>5, <1>6

LEMMA StatesOK ==
    ASSUME Shape, NEW r \in SandboxRuns, RunOK(sandbox[r]),
           \/ Unavailable(r) \/ Reap(r)
           \/ \E p \in Phases : RunTask(r, p) \/ StateEnds(r, p) \/ StateFails(r, p)
    PROVE  RunOK(sandbox'[r])
<1> DEFINE run == sandbox[r]
<1>1. run \in SandboxRun /\ RunOK(run)
    BY DEF Shape, CdkTypeOK, SandboxTypeOK
<1>2. \A now : SetRun(r, now) => sandbox'[r] = now
    BY DEF SetRun, Shape, CdkTypeOK, SandboxTypeOK
<1>3. CASE Unavailable(r)
    <2>1. sandbox'[r] = [run EXCEPT !.pc = "reap", !.off = TRUE] /\ run.pc = "prepare"
        BY <1>2, <1>3 DEF Unavailable
    <2> HIDE DEF run
    <2> QED BY <1>1, <2>1 DEF RunOK, SandboxRun
<1>4. CASE Reap(r)
    <2> DEFINE task == [p \in Phases |-> IF run.task[p] = "running" THEN "stopping" ELSE run.task[p]]
    <2>1. sandbox'[r] = [run EXCEPT !.pc = "collect", !.task = task] /\ run.pc = "reap"
        BY <1>2, <1>4 DEF Reap
    <2>2. \A p \in Phases : /\ task[p] # "running"
                            /\ task[p] # "none" => run.task[p] # "none"
                            /\ run.task[p] = "stopped" => task[p] = "stopped"
        OBVIOUS
    <2> DEFINE now == [run EXCEPT !.pc = "collect", !.task = task]
    <2> HIDE DEF run, task
    <2>3. /\ now.pc = "collect" /\ now.status = run.status /\ now.job = run.job
          /\ now.source = run.source /\ now.task = task /\ now.result = run.result
          /\ now.archive = run.archive
        BY <1>1 DEF SandboxRun
    <2> HIDE DEF now
    <2>4. RunOK(now)
        BY <1>1, <2>1, <2>2, <2>3 DEF RunOK
    <2> QED BY <2>1, <2>4 DEF now
<1>5. ASSUME NEW p \in Phases, RunTask(r, p) PROVE RunOK(sandbox'[r])
    <2>1. sandbox'[r] = [run EXCEPT !.task[p] = "running"] /\ run.pc = p /\ run.task[p] = "none"
        BY <1>2, <1>5 DEF RunTask
    <2> HIDE DEF run
    <2> QED BY <1>1, <2>1 DEF RunOK, SandboxRun, Phases
<1>6. ASSUME NEW p \in Phases, StateEnds(r, p) PROVE RunOK(sandbox'[r])
    <2>1. sandbox'[r] = [run EXCEPT !.pc = StateAfter(r, p)] /\ run.pc = p
        BY <1>2, <1>6 DEF StateEnds
    <2>2. StateAfter(r, p) \in {"execute", "reap"}
        BY DEF StateAfter
    <2> HIDE DEF run
    <2> QED BY <1>1, <2>1, <2>2 DEF RunOK, SandboxRun, Phases
<1>7. ASSUME NEW p \in Phases, StateFails(r, p) PROVE RunOK(sandbox'[r])
    <2>1. sandbox'[r] = [run EXCEPT !.pc = StateAfter(r, p), !.errors = @ \cup {p}] /\ run.pc = p
        BY <1>2, <1>7 DEF StateFails
    <2>2. StateAfter(r, p) \in {"execute", "reap"}
        BY DEF StateAfter
    <2> HIDE DEF run
    <2> QED BY <1>1, <2>1, <2>2 DEF RunOK, SandboxRun, Phases
<1> QED BY <1>3, <1>4, <1>5, <1>6, <1>7

\* What a container can leave that says the app was built, it builds.
LEMMA TaskEndsOK ==
    ASSUME Shape, NEW r \in SandboxRuns, RunOK(sandbox[r]), NEW p \in Phases, TaskEnds(r, p)
    PROVE  RunOK(sandbox'[r])
<1> DEFINE run == sandbox[r]
<1>1. run \in SandboxRun /\ RunOK(run)
    BY DEF Shape, CdkTypeOK, SandboxTypeOK
<1>2. run.pc # "done" /\ run.task[p] \in {"running", "stopping"}
    BY DEF TaskEnds
<1>3. PICK outcome \in Honest(r, p) \cup HostileOutcomes(r, p) :
        sandbox'[r] = [run EXCEPT !.task[p] = "stopped", !.result[p] = outcome[1],
                                  !.archive[p] = outcome[2]]
    BY DEF TaskEnds, SetRun, Shape, CdkTypeOK, SandboxTypeOK
<1>4. outcome[2] = "built" => Synthesizes(run.source)
    BY DEF Honest, HostileOutcomes, SynthKinds
<1> HIDE DEF run
<1> QED BY <1>1, <1>2, <1>3, <1>4 DEF RunOK, SandboxRun

\* A status of ok is each phase's own word.
LEMMA StatusOK ==
    ASSUME NEW r \in SandboxRuns, NEW outside \in BOOLEAN, sandbox[r] \in SandboxRun,
           StatusOf(r, outside) = "ok"
    PROVE  /\ sandbox[r].job.kind # "sleep" =>
                \A p \in sandbox[r].job.phases :
                    /\ sandbox[r].result[p] = "ok"
                    /\ sandbox[r].job.kind # "leak-test" => p \notin sandbox[r].errors
           /\ sandbox[r].job.kind \in SynthKinds => sandbox[r].archive["execute"] = "built"
<1> DEFINE run == sandbox[r]
<1>1. run.job.phases \subseteq Phases /\ run.job.kind \in Kinds
    BY DEF SandboxRun, Job
<1>2. ASSUME PhasesStatus(r) = "ok"
      PROVE  \A p \in run.job.phases : run.result[p] = "ok" /\ p \notin run.errors
    <2>1. \A p \in run.job.phases : PhaseProblem(r, p) = "ok"
        BY <1>1, <1>2 DEF PhasesStatus, Phases
    <2> QED BY <2>1 DEF PhaseProblem
<1>3. CASE run.job.kind \in {"sleep", "leak-test"}
    BY <1>3 DEF StatusOf, LeakStatus, SynthKinds
<1>4. CASE run.job.kind \notin {"sleep", "leak-test"}
    <2>1. PhasesStatus(r) = "ok"
        BY <1>4 DEF StatusOf, PulumiStatus, HelmStatus, SynthStatus
    <2>2. run.job.kind \in SynthKinds => SynthArchive(run.archive["execute"]) = "ok"
        BY <2>1 DEF StatusOf, SynthStatus, SynthKinds
    <2>3. run.job.kind \in SynthKinds => run.archive["execute"] = "built"
        BY <2>2 DEF SynthArchive
    <2> QED BY <1>2, <1>4, <2>1, <2>3
<1> QED BY <1>3, <1>4

LEMMA CollectOK ==
    ASSUME Shape, NEW r \in SandboxRuns, RunOK(sandbox[r]), NEW outside \in BOOLEAN, Collect(r, outside)
    PROVE  RunOK(sandbox'[r])
<1> DEFINE run == sandbox[r]
           answer == StatusOf(r, outside)
           stacks == IF answer = "ok" /\ run.job.kind \in SynthKinds THEN BuiltStacks(run.source) ELSE {}
<1>1. run \in SandboxRun /\ RunOK(run)
    BY DEF Shape, CdkTypeOK, SandboxTypeOK
<1>2. run.pc = "collect" /\ sandbox'[r] = [run EXCEPT !.pc = "done", !.status = answer, !.stacks = stacks]
    BY DEF Collect, SetRun, Shape, CdkTypeOK, SandboxTypeOK
<1>3. answer = "ok" =>
        /\ run.job.kind # "sleep" => \A p \in run.job.phases :
                /\ run.result[p] = "ok"
                /\ run.job.kind # "leak-test" => p \notin run.errors
        /\ run.job.kind \in SynthKinds => run.archive["execute"] = "built"
    BY <1>1, StatusOK
<1>4. run.job.phases \subseteq Phases /\ "execute" \in Phases
    BY <1>1 DEF SandboxRun, Job, Phases
<1>5. answer = "ok" /\ run.job.kind \in SynthKinds => stacks = BuiltStacks(run.source)
    OBVIOUS
<1> HIDE DEF run, answer, stacks
<1> DEFINE now == [run EXCEPT !.pc = "done", !.status = answer, !.stacks = stacks]
<1>6. /\ now.pc = "done" /\ now.status = answer /\ now.stacks = stacks
      /\ now.job = run.job /\ now.source = run.source /\ now.task = run.task
      /\ now.result = run.result /\ now.archive = run.archive /\ now.errors = run.errors
    BY <1>1 DEF SandboxRun
<1> HIDE DEF now
<1>7. answer = "ok" => AnswerOK(now)
    BY <1>1, <1>3, <1>4, <1>5, <1>6 DEF AnswerOK, RunOK
<1>8. RunOK(now)
    BY <1>1, <1>2, <1>6, <1>7 DEF RunOK
<1> QED BY <1>2, <1>8 DEF now

LEMMA CollectDiesOK ==
    ASSUME Shape, NEW r \in SandboxRuns, RunOK(sandbox[r]), CollectDies(r)
    PROVE  RunOK(sandbox'[r])
<1> DEFINE run == sandbox[r]
<1>1. run \in SandboxRun /\ RunOK(run)
    BY DEF Shape, CdkTypeOK, SandboxTypeOK
<1>2. run.pc = "collect" /\ sandbox'[r] = [run EXCEPT !.pc = "done", !.status = "dead"]
    BY DEF CollectDies, SetRun, Shape, CdkTypeOK, SandboxTypeOK
<1> HIDE DEF run
<1> QED BY <1>1, <1>2 DEF RunOK, SandboxRun

\* A sandbox run's step is its own.
LEMMA OneRunSteps ==
    ASSUME SandboxTypeOK, NEW r \in SandboxRuns, SandboxStep(r), NEW q \in SandboxRuns, q # r
    PROVE  sandbox'[q] = sandbox[q]
<1>1. \E now : SetRun(r, now)
    BY DEF SandboxStep, StateStep, Prepare, Unavailable, RunTask, StateEnds, StateFails, Reap, Collect,
           CollectDies, TaskEnds
<1> QED BY <1>1 DEF SetRun, SandboxTypeOK

LEMMA SandboxStepOK ==
    ASSUME Shape, RunsOK, NEW r \in SandboxRuns, SandboxStep(r)
    PROVE  RunsOK'
<1>1. RunOK(sandbox[r])
    BY DEF RunsOK
<1>2. RunOK(sandbox'[r])
    BY <1>1, PrepareOK, StatesOK, TaskEndsOK, CollectOK, CollectDiesOK DEF SandboxStep, StateStep
<1>3. \A q \in SandboxRuns : q # r => sandbox'[q] = sandbox[q]
    BY OneRunSteps DEF Shape, CdkTypeOK
<1> QED BY <1>2, <1>3 DEF RunsOK

\* Nothing but a run's own steps changes it, but its beginning and its being
\* forgotten.
LEMMA SandboxMoves ==
    ASSUME Shape, [CdkNext]_vars
    PROVE  \/ UNCHANGED sandbox
           \/ \E r : sandbox' = [sandbox EXCEPT ![r] = NoRun]
           \/ \E job \in Job : JobOK(job) /\ StartSandbox(job)
           \/ \E r \in SandboxRuns : SandboxStep(r)
<1> DEFINE moves == \/ UNCHANGED sandbox
                    \/ \E r : sandbox' = [sandbox EXCEPT ![r] = NoRun]
                    \/ \E job \in Job : JobOK(job) /\ StartSandbox(job)
                    \/ \E r \in SandboxRuns : SandboxStep(r)
<1> SUFFICES moves
    OBVIOUS
<1>1. ASSUME NEW kind \in Kinds \ SynthKinds, NEW phases \in SUBSET Phases, OtherRun(kind, phases)
      PROVE  moves
    <2> DEFINE job == [NoJob EXCEPT !.kind = kind, !.phases = phases, !.project = head]
    <2>1. job \in Job /\ JobOK(job)
        BY NoRunTypes DEF Shape, CdkTypeOK, Job, JobOK, SynthKinds
    <2>2. StartSandbox(job)
        BY <1>1 DEF OtherRun
    <2> QED BY <2>1, <2>2
<1>2. CASE BeginExecution
    <2> DEFINE job == [kind |-> "cdk-synth", phases |-> Phases, project |-> head, patch |-> 0,
                       deps |-> 0, prefix |-> ScanPrefix]
    <2>1. job \in Job /\ JobOK(job)
        BY DEF Shape, CdkTypeOK, Job, JobOK, Kinds, SynthKinds, Prefixes
    <2>2. StartSandbox(job)
        BY <1>2 DEF BeginExecution
    <2> QED BY <2>1, <2>2
<1>3. ASSUME NEW group \in SUBSET Findings, group # {}, call.pc \in {"judge", "next"},
             NEW attempt \in Attempts, NEW draft \in Answers,
             \/ UploadDraft(group, attempt, draft) \/ RefuseDraft(group, draft)
      PROVE  moves
    <2>1. CASE RefuseDraft(group, draft)
        BY <2>1 DEF RefuseDraft
    <2>2. CASE UploadDraft(group, attempt, draft)
        <3> DEFINE job == ResynthJob(Lowest(group), attempt)
        <3>1. Lowest(group) \in Findings /\ Lowest(group) # 0
            BY <1>3, LowestIn, CdkAppAssumption
        <3>2. synth.run \in SandboxRuns
            BY <1>3 DEF Shape, CallShape, StageShape, CdkTypeOK
        <3>3. sandbox[synth.run].job.project \in Nat
            BY <3>2 DEF Shape, CdkTypeOK, SandboxTypeOK, SandboxRun, Job
        <3>4. job \in Job /\ JobOK(job) /\ job # NoJob
            <4> DEFINE lead == Lowest(group)
            <4>1. lead \in Findings /\ lead # 0
                BY <3>1
            <4> HIDE DEF lead
            <4>2. ResynthJob(lead, attempt) \in Job
                BY <3>2, <3>3, <4>1 DEF ResynthJob, Job, Kinds, SynthKinds, Phases, Prefixes
            <4>3. JobOK(ResynthJob(lead, attempt))
                BY <4>1 DEF ResynthJob, JobOK
            <4>4. ResynthJob(lead, attempt).kind = "cdk-resynth" /\ NoJob.kind = "sleep"
                BY DEF ResynthJob, NoJob
            <4> QED BY <4>2, <4>3, <4>4 DEF lead
        <3>5. StartSandbox(job)
            <4>1. \E at : Return(at, job)
                BY <2>2 DEF UploadDraft
            <4> HIDE DEF job
            <4> QED BY <3>4, <4>1 DEF Return
        <3> HIDE DEF job
        <3> QED BY <3>4, <3>5
    <2> QED BY <1>3, <2>1, <2>2
<1>4. CASE DraftGroup
    <2>1. /\ call.pc = "next" /\ Left # {} /\ call.open \in SUBSET Findings /\ 1 \in Attempts
        BY <1>4 DEF DraftGroup, MayDraft, InCall, Shape, CdkTypeOK, Call, Attempts
    <2>2. Group \in SUBSET Findings /\ Group # {}
        BY <2>1, GroupFacts
    <2> HIDE DEF moves
    <2> QED BY <1>3, <1>4, <2>1, <2>2 DEF DraftGroup, Drafted
<1>5. CASE Redraft
    <2> DEFINE ids == call.at.pending.ids
               attempt == call.at.pending.attempt + 1
    <2>1. call.pc = "judge" /\ MayRedraft /\ Drafted(ids, attempt)
        BY <1>5 DEF Redraft, InCall
    <2>2. ids \in SUBSET Findings /\ ids # {} /\ call.at.pending.attempt \in Attempts
        BY <2>1, JudgedFacts
    <2>3. attempt \in Attempts
        BY <2>1, <2>2 DEF MayRedraft, Attempts
    <2> HIDE DEF moves, attempt, ids
    <2> QED BY <1>3, <2>1, <2>2, <2>3 DEF Drafted
<1>6. CASE ExecutionStep /\ ~DraftGroup /\ ~Redraft
    BY <1>6 DEF ExecutionStep, CallStep, SynthAnswered, CallAgain, FileDone, ResynthAnswered, Look, Return,
                Unverified, RecordLead, RecordRest, SkipGroup, DraftFails, YieldCall, EndCall
<1>7. CASE \/ \E h \in 1..head : OtherFetch(h)
           \/ ResynthOverruns \/ CallFails \/ (\E r \in SandboxRuns : Forget(r)) \/ UNCHANGED vars
    BY <1>7 DEF OtherFetch, ResynthOverruns, CallFails, Forget, vars
<1>8. CASE SandboxNext
    BY <1>8 DEF SandboxNext
<1> HIDE DEF moves
<1> QED BY <1>1, <1>2, <1>4, <1>5, <1>6, <1>7, <1>8 DEF CdkNext, ExecutionStep, CallStep

LEMMA NextRunsOK ==
    ASSUME Shape, RunsOK, [CdkNext]_vars
    PROVE  RunsOK'
<1>1. CASE UNCHANGED sandbox
    BY <1>1 DEF RunsOK
<1>2. ASSUME NEW r, sandbox' = [sandbox EXCEPT ![r] = NoRun] PROVE RunsOK'
    BY <1>2, NewRunOK DEF RunsOK, Shape, CdkTypeOK, SandboxTypeOK
<1>3. ASSUME NEW job \in Job, JobOK(job), StartSandbox(job) PROVE RunsOK'
    BY <1>3, NewRunOK, NextRunIsFree DEF StartSandbox, SetRun, RunsOK, Shape, CdkTypeOK, SandboxTypeOK
<1> QED BY <1>1, <1>2, <1>3, SandboxStepOK, SandboxMoves

\* What is known of each sandbox run by its state is an invariant: which tasks may
\* still be at work, which errors it caught, and what its answer stands for.
THEOREM RunsHold == CdkSpec => []RunsOK
<1>1. CdkInit => RunsOK
    BY NewRunOK DEF CdkInit, SandboxInit, RunsOK
<1>2. Shape /\ RunsOK /\ [CdkNext]_vars => RunsOK'
    BY NextRunsOK
<1> QED BY <1>1, <1>2, ShapeHolds, PTL DEF CdkSpec

\* No sandbox run answers ok while a phase of it is still at work or was given
\* up on: Collect reads what finished tasks uploaded.
THEOREM OkRunsAreFinished == CdkSpec => []OkRunsFinished
<1>1. ASSUME RunsOK, NEW r \in SandboxRuns, sandbox[r].status = "ok" PROVE AnswerOK(sandbox[r])
    <2>1. RunOK(sandbox[r])
        BY <1>1 DEF RunsOK
    <2> QED BY <1>1, <2>1 DEF RunOK
<1>2. ASSUME RunsOK PROVE OkRunsFinished
    <2> SUFFICES ASSUME NEW r \in SandboxRuns, sandbox[r].status = "ok", sandbox[r].job.kind # "sleep",
                        NEW p \in sandbox[r].job.phases
                 PROVE  /\ sandbox[r].task[p] = "stopped" /\ sandbox[r].result[p] = "ok"
                        /\ sandbox[r].job.kind # "leak-test" => p \notin sandbox[r].errors
        BY DEF OkRunsFinished
    <2>1. AnswerOK(sandbox[r])
        BY <1>1, <1>2
    <2> QED BY <2>1 DEF AnswerOK
<1> QED BY <1>2, RunsHold, PTL

\* No task of a run that has answered is left running.
THEOREM TasksAreStopped == CdkSpec => []NothingOutlivesItsRun
<1>1. RunsOK => NothingOutlivesItsRun
    BY DEF RunsOK, RunOK, NothingOutlivesItsRun
<1> QED BY <1>1, RunsHold, PTL

----------------------------------------------------------------------------
(* What an execution spends *)

Limit == MaxDraftsPerFile + 1

\* What the execution's continuation, or the call on it, has counted.
Counted == IF call.pc = "none" THEN token.drafts ELSE call.at.drafts

\* A call has counted what was spent, but for what each failed call forgot.
BudgetOK ==
    /\ BudgetIsKept
    /\ stage # "idle" => /\ token.drafts <= Limit /\ Counted <= Limit
                         /\ spent <= Counted + Limit * faults

LEMMA BudgetTypes ==
    ASSUME Shape
    PROVE  /\ Limit \in Nat /\ Counted \in Nat /\ token.drafts \in Nat /\ call.at.drafts \in Nat
           /\ spent \in Nat /\ faults \in Nat
           /\ Limit * faults \in Nat /\ Limit * (1 + faults) = Limit + Limit * faults
<1>1. /\ token.drafts \in Nat /\ call.at.drafts \in Nat /\ spent \in Nat /\ faults \in Nat
    BY DEF Shape, CdkTypeOK, Token, Call
<1>2. Limit \in Nat
    BY CdkDraftsAssumption DEF Limit
<1>3. \A x, y \in Nat : x * y \in Nat /\ x * (1 + y) = x + x * y
    OBVIOUS
<1> QED BY <1>1, <1>2, <1>3 DEF Counted

\* A step that spends n counts n, and may not be beyond the limit.
LEMMA BudgetAfter ==
    ASSUME Shape, Shape', BudgetOK, NEW n \in Nat, spent' = spent + n, faults' = faults,
           stage # "idle", token'.drafts <= Limit, Counted' = Counted + n, Counted' <= Limit
    PROVE  BudgetOK'
<1>1. Limit' = Limit
    BY DEF Limit
<1>2. /\ Counted \in Nat /\ spent \in Nat /\ faults \in Nat /\ Limit \in Nat
      /\ Limit * faults \in Nat /\ Limit * (1 + faults) = Limit + Limit * faults
    BY BudgetTypes
<1>3. spent <= Counted + Limit * faults
    BY DEF BudgetOK
<1> DEFINE used == Limit * faults
<1>4. Limit' * faults' = used /\ Limit' * (1 + faults') = Limit + used /\ used \in Nat
    BY <1>1, <1>2
<1> HIDE DEF used
<1>5. spent' <= Counted' + used /\ spent' <= Limit + used
    BY <1>2, <1>3 DEF used
<1> QED BY <1>1, <1>4, <1>5 DEF BudgetOK, BudgetIsKept, Limit

\* The execution ends, or none is at work, and nothing is spent.
LEMMA BudgetIdle ==
    ASSUME BudgetOK, UNCHANGED <<spent, faults>>, stage' = "idle"
    PROVE  BudgetOK'
BY DEF BudgetOK, BudgetIsKept

LEMMA BudgetOtherwise ==
    ASSUME Shape, Shape', BudgetOK, stage # "idle", UNCHANGED <<spent, faults, token>>,
           call'.pc # "none" => call'.at.drafts = Counted,
           call'.pc = "none" => token.drafts = Counted
    PROVE  BudgetOK'
<1>1. Counted' = Counted + 0
    BY BudgetTypes DEF Counted
<1>2. spent' = spent + 0 /\ 0 \in Nat
    BY BudgetTypes
<1>3. Counted' <= Limit /\ token'.drafts <= Limit
    BY <1>1, BudgetTypes DEF BudgetOK
<1> QED BY <1>1, <1>2, <1>3, BudgetAfter

LEMMA BudgetDrafted ==
    ASSUME Shape, Shape', BudgetOK, stage = "call", call.pc \in {"judge", "next"},
           call.at.drafts < MaxDraftsPerFile,
           NEW group, NEW attempt, NEW draft,
           \/ UploadDraft(group, attempt, draft) \/ RefuseDraft(group, draft),
           faults' = faults
    PROVE  BudgetOK'
<1>1. /\ Limit \in Nat /\ MaxDraftsPerFile \in Nat /\ Limit = MaxDraftsPerFile + 1
      /\ call.at.drafts \in Nat
    BY BudgetTypes, CdkDraftsAssumption DEF Limit
<1>2. Spend(draft) \in {1, 2} /\ Spend(draft) \in Nat
    BY DEF Spend
<1>3. call.at.drafts + Spend(draft) <= Limit
    BY <1>1, <1>2
<1>4. Counted = call.at.drafts /\ token.drafts <= Limit
    BY DEF Counted, BudgetOK
<1>5. call \in Call /\ call.at \in Token
    BY DEF Shape, CdkTypeOK, Call
<1>6. CASE UploadDraft(group, attempt, draft)
    <2> DEFINE job == ResynthJob(Lowest(group), attempt)
               at == [call.at EXCEPT !.pending = [ids |-> group, attempt |-> attempt],
                                     !.drafts = @ + Spend(draft)]
    <2>1. spent' = spent + Spend(draft) /\ Return(at, job)
        BY <1>6 DEF UploadDraft
    <2>2. job # NoJob
        <3>1. job.kind = "cdk-resynth" /\ NoJob.kind = "sleep"
            BY DEF ResynthJob, NoJob
        <3> QED BY <3>1
    <2>3. at.drafts = call.at.drafts + Spend(draft)
        BY <1>5 DEF Token
    <2> HIDE DEF job
    <2>4. call' = NoCall /\ token' = [at EXCEPT !.answer = "none", !.stacks = {}]
        BY <2>1, <2>2 DEF Return
    <2>5. token'.drafts = at.drafts
        <3>1. DOMAIN at = DOMAIN call.at
            OBVIOUS
        <3>2. token' \in Token
            BY DEF Shape, CdkTypeOK
        <3> HIDE DEF at
        <3> QED BY <2>4, <3>1, <1>5 DEF Token
    <2>6. Counted' = Counted + Spend(draft)
        BY <1>4, <2>3, <2>4, <2>5 DEF Counted, NoCall
    <2>7. token'.drafts <= Limit /\ Counted' <= Limit
        BY <1>3, <1>4, <2>3, <2>5, <2>6
    <2> QED BY <1>2, <2>1, <2>6, <2>7, BudgetAfter
<1>7. CASE RefuseDraft(group, draft)
    <2>1. spent' = spent + Spend(draft) /\ token' = token
        BY <1>7 DEF RefuseDraft
    <2>2. call'.pc = "next" /\ call'.at.drafts = call.at.drafts + Spend(draft)
        <3>1. call' = [call EXCEPT !.pc = "next", !.worked = TRUE,
                !.at = [call.at EXCEPT !.done = @ \cup {PathOf[Lowest(group)]}, !.pending = NoPending,
                             !.answer = "none", !.stacks = {}, !.drafts = @ + Spend(draft),
                             !.counts.human = @ + 1,
                             !.counts.undrafted = @ + Cardinality(group) - 1]]
            BY <1>7 DEF RefuseDraft
        <3> QED BY <3>1, <1>5 DEF Call, Token
    <2>3. Counted' = Counted + Spend(draft)
        BY <1>4, <2>2 DEF Counted
    <2>4. token'.drafts <= Limit /\ Counted' <= Limit
        BY <1>3, <1>4, <2>1, <2>3
    <2> QED BY <1>2, <2>1, <2>3, <2>4, BudgetAfter
<1> QED BY <1>6, <1>7

LEMMA BudgetReturned ==
    ASSUME Shape, Shape', BudgetOK, stage = "call", call.pc # "none", UNCHANGED <<spent, faults>>,
           NEW at, Return(at, NoJob), at.drafts = call.at.drafts
    PROVE  BudgetOK'
<1>1. call' = NoCall /\ token' = at
    BY DEF Return
<1>2. Counted' = Counted + 0 /\ Counted \in Nat /\ token'.drafts = Counted
    BY <1>1, BudgetTypes DEF Counted, NoCall
<1>3. spent' = spent + 0 /\ 0 \in Nat
    BY BudgetTypes
<1>4. Counted' <= Limit /\ token'.drafts <= Limit
    BY <1>2, BudgetTypes DEF BudgetOK
<1> QED BY <1>2, <1>3, <1>4, BudgetAfter

LEMMA BudgetBegins ==
    ASSUME Shape, Shape', BudgetOK, BeginExecution
    PROVE  BudgetOK'
<1>1. /\ spent' = 0 /\ faults' = faults /\ token' = NewToken /\ call' = call /\ stage = "idle"
    BY DEF BeginExecution
<1>2. call = NoCall
    BY <1>1 DEF Shape, StageShape
<1>3. Counted' = 0 /\ token'.drafts = 0
    BY <1>1, <1>2 DEF Counted, NoCall, NewToken
<1>4. /\ Limit \in Nat /\ Limit * faults \in Nat /\ Limit * (1 + faults) = Limit + Limit * faults
    BY BudgetTypes
<1> DEFINE used == Limit * faults
<1>5. used \in Nat /\ Limit' * faults' = used /\ Limit' * (1 + faults') = Limit + used /\ Limit' = Limit
    BY <1>1, <1>4 DEF Limit
<1> HIDE DEF used
<1>6. spent' <= Counted' + used /\ spent' <= Limit + used
    BY <1>1, <1>3, <1>4, <1>5
<1> QED BY <1>3, <1>4, <1>5, <1>6 DEF BudgetOK, BudgetIsKept, Limit

LEMMA BudgetFailed ==
    ASSUME Shape, Shape', BudgetOK, CallFails
    PROVE  BudgetOK'
<1>1. stage = "call" /\ spent' = spent /\ token' = token
    BY DEF CallFails
<1>2. CASE stage' = "idle" /\ faults' = faults
    BY <1>1, <1>2, BudgetIdle
<1>3. CASE /\ faults' = faults + 1 /\ stage' = stage
           /\ call' = [NoCall EXCEPT !.pc = "look", !.at = token]
    <2>1. call'.pc = "look" /\ call'.at = token
        BY <1>3 DEF NoCall
    <2>2. Counted' = token.drafts
        BY <2>1 DEF Counted
    <2>3. /\ Limit \in Nat /\ faults \in Nat /\ spent \in Nat /\ Counted \in Nat /\ token.drafts \in Nat
          /\ Limit * faults \in Nat /\ Limit * (1 + faults) = Limit + Limit * faults
        BY BudgetTypes
    <2>4. \A x, y \in Nat : x * (y + 1) = x + x * y /\ x * (1 + (y + 1)) = x + (x + x * y)
        OBVIOUS
    <2>5. /\ spent <= Counted + Limit * faults /\ Counted <= Limit /\ token.drafts <= Limit
        BY <1>1 DEF BudgetOK
    <2> DEFINE used == Limit * faults
    <2>6. /\ Limit' = Limit /\ Limit' * faults' = Limit + used
          /\ Limit' * (1 + faults') = Limit + (Limit + used) /\ used \in Nat
        BY <1>3, <2>3, <2>4 DEF Limit
    <2> HIDE DEF used
    <2>7. /\ spent' <= Counted' + (Limit + used) /\ spent' <= Limit + (Limit + used)
        BY <1>1, <2>2, <2>3, <2>5 DEF used
    <2> QED BY <1>1, <2>2, <2>5, <2>6, <2>7 DEF BudgetOK, BudgetIsKept, Limit
<1> QED BY <1>1, <1>2, <1>3 DEF CallFails

LEMMA NextBudget ==
    ASSUME Shape, Shape', BudgetOK, [CdkNext]_vars
    PROVE  BudgetOK'
<1>0. token \in Token /\ call \in Call /\ call.at \in Token
    BY DEF Shape, CdkTypeOK, Call
<1>1. CASE UNCHANGED <<spent, faults, token, call, stage>>
    BY <1>1 DEF BudgetOK, BudgetIsKept, Counted
<1>2. CASE SynthAnswered \/ CallAgain
    <2>1. /\ stage # "idle" /\ UNCHANGED <<spent, faults, token>> /\ call.pc = "none"
          /\ call' = [NoCall EXCEPT !.pc = "look", !.at = token]
        BY <1>2 DEF SynthAnswered, CallAgain, Shape, StageShape, NoCall
    <2>2. call'.pc = "look" /\ call'.at = token
        BY <2>1 DEF NoCall
    <2>3. call'.at.drafts = Counted
        BY <2>1, <2>2 DEF Counted
    <2> QED BY <2>1, <2>2, <2>3, BudgetOtherwise
<1>3. CASE FileDone
    BY <1>3, BudgetIdle DEF FileDone
<1>4. CASE ResynthAnswered \/ ResynthOverruns
    <2>1. /\ stage = "resynth" /\ UNCHANGED <<spent, faults>>
          /\ call' = [NoCall EXCEPT !.pc = "look", !.at = token']
        BY <1>4 DEF ResynthAnswered, ResynthOverruns
    <2>2. token'.drafts = token.drafts
        BY <1>0, <1>4 DEF ResynthAnswered, ResynthOverruns, Token
    <2>3. call.pc = "none" /\ call'.pc = "look" /\ call'.at = token'
        BY <2>1 DEF Shape, StageShape, NoCall
    <2>4. Counted' = Counted + 0 /\ Counted' = token'.drafts /\ Counted \in Nat
        BY <2>2, <2>3, BudgetTypes DEF Counted
    <2>5. spent' = spent + 0 /\ 0 \in Nat
        BY <2>1, BudgetTypes
    <2>6. Counted' <= Limit
        BY <2>1, <2>4 DEF BudgetOK
    <2> QED BY <2>1, <2>4, <2>5, <2>6, BudgetAfter
<1>5. CASE Look
    <2> DEFINE open == {f \in Findings : [g \in Findings |->
                    IF g \in (IF call.at.first THEN Reopened ELSE {}) THEN "mapped" ELSE status[g]][f] \in Open}
               at == [call.at EXCEPT !.first = FALSE, !.chain = RootChain(@),
                        !.opened = IF call.at.first THEN open ELSE @]
    <2>1. /\ stage = "call" /\ call.pc = "look" /\ UNCHANGED <<spent, faults>>
        BY <1>5 DEF Look, InCall
    <2>2. \/ Return([at EXCEPT !.complete = TRUE, !.counts.undrafted = Cardinality(open)], NoJob)
          \/ /\ call' = [call EXCEPT !.at = at, !.open = open,
                    !.pc = IF at.answer # "none" /\ at.pending # NoPending THEN "judge" ELSE "next"]
             /\ UNCHANGED <<stage, token, sandbox, resynth>>
        BY <1>5 DEF Look
    <2> HIDE DEF open
    <2>3. at.drafts = call.at.drafts
        BY <1>0 DEF Token
    <2>4. [at EXCEPT !.complete = TRUE, !.counts.undrafted = Cardinality(open)].drafts = call.at.drafts
        BY <1>0 DEF Token
    <2> HIDE DEF at
    <2>5. CASE Return([at EXCEPT !.complete = TRUE, !.counts.undrafted = Cardinality(open)], NoJob)
        BY <2>1, <2>4, <2>5, BudgetReturned
    <2>6. CASE /\ call' = [call EXCEPT !.at = at, !.open = open,
                    !.pc = IF at.answer # "none" /\ at.pending # NoPending THEN "judge" ELSE "next"]
               /\ UNCHANGED <<stage, token, sandbox, resynth>>
        <3>1. call'.pc \in {"judge", "next"} /\ call'.at = at
            BY <1>0, <2>6 DEF Call
        <3>2. call'.at.drafts = Counted
            BY <2>1, <2>3, <3>1 DEF Counted
        <3> QED BY <2>1, <2>6, <3>1, <3>2, BudgetOtherwise
    <2> QED BY <2>2, <2>5, <2>6
<1>6. CASE Unverified \/ RecordRest
    <2>1. /\ call.pc \in {"judge", "rest"} /\ UNCHANGED <<spent, faults, token>> /\ stage = "call"
        BY <1>6 DEF Unverified, RecordRest, InCall
    <2>2. call'.pc = "next" /\ call'.at.drafts = call.at.drafts
        <3>1. ASSUME NEW at, NEW c, NEW d, NEW h,
                     \/ at = [call.at EXCEPT !.counts.human = h, !.counts.undrafted = d]
                     \/ at = [call.at EXCEPT !.counts.superseded = h, !.counts.undrafted = d, !.chain = c]
              PROVE  Settled(at).pc = "next" /\ Settled(at).at.drafts = call.at.drafts
            <4> DEFINE now == [at EXCEPT !.done = @ \cup {PathOf[Lead0]}, !.pending = NoPending,
                                         !.answer = "none", !.stacks = {}]
            <4>1. now.drafts = call.at.drafts
                BY <1>0, <3>1 DEF Token
            <4>2. Settled(at) = [call EXCEPT !.pc = "next", !.worked = TRUE, !.lead = 0, !.at = now]
                BY DEF Settled
            <4> HIDE DEF now
            <4> QED BY <1>0, <4>1, <4>2 DEF Call
        <3>2. CASE Unverified
            <4> DEFINE h == call.at.counts.human + 1
                       d == [call.at EXCEPT !.counts.human = h].counts.undrafted
                                + Cardinality(call.at.pending.ids) - 1
            <4>1. call' = Settled([call.at EXCEPT !.counts.human = h, !.counts.undrafted = d])
                BY <3>2 DEF Unverified
            <4> HIDE DEF h, d
            <4> QED BY <3>1, <4>1
        <3>3. CASE RecordRest
            <4> DEFINE others == call.at.pending.ids \ {call.lead}
                       gone == IF Verified THEN others \cap Cleared ELSE {}
                       h == call.at.counts.superseded + Cardinality(gone)
                       d == [call.at EXCEPT !.counts.superseded = h].counts.undrafted
                                + Cardinality(others \ gone)
                       c == IF Passed THEN LinkedBy(call.at.chain, call.lead) ELSE call.at.chain
            <4>1. call' = Settled([call.at EXCEPT !.counts.superseded = h, !.counts.undrafted = d,
                                                  !.chain = c])
                BY <3>3 DEF RecordRest
            <4> HIDE DEF h, d, c
            <4> QED BY <3>1, <4>1
        <3> QED BY <1>6, <3>2, <3>3
    <2> QED BY <2>1, <2>2, BudgetOtherwise DEF Counted
<1>7. CASE RecordLead
    <2>1. /\ call.pc = "judge" /\ UNCHANGED <<spent, faults, token>> /\ stage = "call"
        BY <1>7 DEF RecordLead, InCall
    <2>2. call'.pc = "rest" /\ call'.at.drafts = call.at.drafts
        BY <1>0, <1>7 DEF RecordLead, Call, Token
    <2> QED BY <2>1, <2>2, BudgetOtherwise DEF Counted
<1>8. CASE SkipGroup
    <2>1. /\ call.pc = "next" /\ UNCHANGED <<spent, faults, token>> /\ stage = "call"
        BY <1>8 DEF SkipGroup, InCall
    <2>2. call'.pc = "next" /\ call'.at.drafts = call.at.drafts
        BY <1>0, <1>8, <2>1 DEF SkipGroup, Call, Token
    <2> QED BY <2>1, <2>2, BudgetOtherwise DEF Counted
<1>9. CASE DraftGroup \/ Redraft
    <2>1. /\ stage = "call" /\ call.pc \in {"judge", "next"} /\ call.at.drafts < MaxDraftsPerFile
          /\ faults' = faults
        BY <1>9 DEF DraftGroup, Redraft, MayDraft, MayRedraft, InCall, Drafted
    <2>2. \E group, attempt : Drafted(group, attempt)
        BY <1>9 DEF DraftGroup, Redraft
    <2>3. \E group, attempt, draft : UploadDraft(group, attempt, draft) \/ RefuseDraft(group, draft)
        BY <2>2 DEF Drafted
    <2> QED BY <2>1, <2>3, BudgetDrafted
<1>10. CASE DraftFails
    <2>1. /\ call.pc = "next" /\ UNCHANGED <<faults, token>> /\ stage = "call"
          /\ call.at.drafts < MaxDraftsPerFile
        BY <1>10 DEF DraftFails, MayDraft, InCall
    <2>2. PICK n \in {0, 1} :
            /\ spent' = spent + n
            /\ call' = [call EXCEPT !.worked = TRUE, !.at.done = @ \cup {NextPath},
                                    !.at.drafts = @ + n,
                                    !.at.counts.errors = @ + Cardinality(Group)]
        BY <1>10 DEF DraftFails
    <2>3. call'.pc = "next" /\ call'.at.drafts = call.at.drafts + n
        BY <1>0, <2>1, <2>2 DEF Call, Token
    <2>4. Counted = call.at.drafts /\ Counted' = Counted + n
        BY <2>1, <2>3 DEF Counted
    <2>5. Counted' <= Limit /\ token'.drafts <= Limit
        <3>1. MaxDraftsPerFile \in Nat /\ Counted \in Nat /\ n \in {0, 1}
            BY BudgetTypes, CdkDraftsAssumption
        <3>2. Counted + n <= MaxDraftsPerFile + 1
            BY <2>1, <2>4, <3>1
        <3> QED BY <2>1, <2>4, <3>2 DEF Limit, BudgetOK
    <2>6. n \in Nat
        OBVIOUS
    <2> QED BY <2>1, <2>2, <2>4, <2>5, <2>6, BudgetAfter
<1>11. CASE YieldCall
    BY <1>11, BudgetReturned DEF YieldCall, InCall
<1>12. CASE EndCall
    <2>1. [call.at EXCEPT !.complete = TRUE].drafts = call.at.drafts
        BY <1>0 DEF Token
    <2> QED BY <1>12, <2>1, BudgetReturned DEF EndCall, InCall
<1>13. CASE \/ \E kind \in Kinds \ SynthKinds, phases \in SUBSET Phases : OtherRun(kind, phases)
            \/ \E h \in 1..head : OtherFetch(h)
            \/ \E r \in SandboxRuns : Forget(r)
            \/ SandboxNext /\ UNCHANGED cdkVars
            \/ UNCHANGED vars
    BY <1>1, <1>13 DEF OtherRun, OtherFetch, Forget, vars, cdkVars
<1> QED BY <1>2, <1>3, <1>4, <1>5, <1>6, <1>7, <1>8, <1>9, <1>10, <1>11, <1>12, <1>13,
           BudgetBegins, BudgetFailed DEF CdkNext, ExecutionStep, CallStep

\* No execution makes more drafts of a file than MAX_DRAFTS_PER_FILE and a
\* lookup's second one, and that much again for each call that failed and was
\* retried.
THEOREM BudgetsAreKept == CdkSpec => []BudgetIsKept
<1>1. CdkInit => BudgetOK
    <2>1. CdkInit => stage = "idle" /\ spent = 0 /\ faults = 0
        BY DEF CdkInit
    <2> QED BY <2>1, CdkDraftsAssumption DEF BudgetOK, BudgetIsKept
<1>2. Shape /\ Shape' /\ BudgetOK /\ [CdkNext]_vars => BudgetOK'
    BY NextBudget
<1>3. BudgetOK => BudgetIsKept
    BY DEF BudgetOK
<1> QED BY <1>1, <1>2, <1>3, ShapeHolds, PTL DEF CdkSpec

----------------------------------------------------------------------------
(* What is known of a draft: from its file to its verification *)

\* A run at work that no state waits for is of a resource this execution is done
\* with, or of the draft it waited for too long.
StraysOK ==
    \A r \in SandboxRuns \ {resynth} :
        (sandbox[r].pc \notin {"none", "done"} /\ sandbox[r].job.kind = "cdk-resynth") =>
            \/ PathOf[sandbox[r].job.patch] \in token.done
            \/ token.answer = "error" /\ \E f \in token.pending.ids : PathOf[f] = PathOf[sandbox[r].job.patch]

\* The detection run has built the pull request's app as it is.
SynthRunOK ==
    /\ stage = "synth" => sandbox[synth.run].pc # "none" /\ sandbox[synth.run].job.kind = "cdk-synth"
    /\ synth.ok => /\ sandbox[synth.run].pc = "done" /\ sandbox[synth.run].job.kind = "cdk-synth"
                   /\ sandbox[synth.run].stacks = Stacks

Prefix(at) == <<First(at), at.pending.attempt>>

\* A re-synth that answered ok built the file, and put the templates of each of
\* its stacks under the prefix.  (What an earlier draft left of other stacks is
\* still there, and is scanned with them.)
Answered(prefix, content, stacks) ==
    /\ content # NoContent /\ Synthesizes(content)
    /\ stacks = BuiltStacks(content)
    /\ \A s \in stacks : templates[prefix][s] = Built(content, s)

ResynthOK ==
    stage = "resynth" =>
        LET run == sandbox[resynth]
        IN /\ run.pc # "none" /\ run.job.kind = "cdk-resynth"
           /\ run.job.patch = First(token) /\ run.job.prefix = Prefix(token)
           /\ run.source # NoContent => run.source = stored[First(token)]
           /\ run.status = "ok" => Answered(Prefix(token), stored[First(token)], run.stacks)

\* The continuation: its draft is of a resource it is not done with, and the
\* answer it has is about that draft.
AnswersOK ==
    /\ \A f \in token.pending.ids : PathOf[f] \notin token.done
    /\ token.answer = "ok" => /\ token.pending.ids # {}
                              /\ Answered(Prefix(token), stored[First(token)], token.stacks)

TraceOK == StraysOK /\ SynthRunOK /\ ResynthOK /\ AnswersOK

LEMMA RunFacts ==
    ASSUME Shape, RunsOK, NEW r \in SandboxRuns, SandboxStep(r)
    PROVE  /\ sandbox[r].pc \notin {"none", "done"} /\ sandbox[r].status = "none"
           /\ sandbox'[r].job = sandbox[r].job /\ sandbox'[r].pc # "none"
           /\ sandbox'[r].source # sandbox[r].source => sandbox'[r].source = SourceOf(sandbox[r].job)
           /\ sandbox'[r].status = "ok" => \E outside \in BOOLEAN : Collect(r, outside)
<1> DEFINE run == sandbox[r]
<1>1. run \in SandboxRun
    BY DEF Shape, CdkTypeOK, SandboxTypeOK
<1>2. \A now : SetRun(r, now) => sandbox'[r] = now
    BY DEF SetRun, Shape, CdkTypeOK, SandboxTypeOK
<1>3. run.pc \notin {"none", "done"}
    <2>1. RunOK(run)
        BY DEF RunsOK
    <2>2. run.pc = "none" => \A p \in Phases : run.task[p] = "none"
        BY <2>1 DEF RunOK
    <2> QED BY <2>2 DEF SandboxStep, StateStep, Prepare, Unavailable, RunTask, StateEnds, StateFails, Reap,
                       Collect, CollectDies, TaskEnds, Phases
<1>4. run.status = "none"
    <2>1. RunOK(run)
        BY DEF RunsOK
    <2> QED BY <1>3, <2>1 DEF RunOK
<1>5. CASE Prepare(r)
    <2>1. sandbox'[r] = IF ~ValidJob(run.job) \/ SourceOf(run.job) = NoContent
                        THEN [run EXCEPT !.pc = "done", !.status = "dead"]
                        ELSE [run EXCEPT !.pc = FirstState(run.job.phases), !.source = SourceOf(run.job)]
        BY <1>2, <1>5 DEF Prepare
    <2>2. FirstState(run.job.phases) # "none"
        BY DEF FirstState
    <2> HIDE DEF run
    <2> QED BY <1>1, <1>3, <1>4, <2>1, <2>2 DEF SandboxRun, run
<1> DEFINE kept(now) == /\ now.job = run.job /\ now.pc # "none" /\ now.source = run.source
                        /\ now.status # "ok"
<1>6. ASSUME NEW p \in Phases, RunTask(r, p) \/ StateEnds(r, p) \/ StateFails(r, p) \/ TaskEnds(r, p)
      PROVE  kept(sandbox'[r])
    <2>1. StateAfter(r, p) # "none"
        BY DEF StateAfter
    <2>2. CASE RunTask(r, p)
        <3>1. sandbox'[r] = [run EXCEPT !.task[p] = "running"]
            BY <1>2, <2>2 DEF RunTask
        <3> HIDE DEF run
        <3> QED BY <1>1, <1>3, <1>4, <3>1 DEF SandboxRun
    <2>3. CASE StateEnds(r, p)
        <3>1. sandbox'[r] = [run EXCEPT !.pc = StateAfter(r, p)]
            BY <1>2, <2>3 DEF StateEnds
        <3> HIDE DEF run
        <3> QED BY <1>1, <1>3, <1>4, <2>1, <3>1 DEF SandboxRun
    <2>4. CASE StateFails(r, p)
        <3>1. sandbox'[r] = [run EXCEPT !.pc = StateAfter(r, p), !.errors = @ \cup {p}]
            BY <1>2, <2>4 DEF StateFails
        <3> HIDE DEF run
        <3> QED BY <1>1, <1>3, <1>4, <2>1, <3>1 DEF SandboxRun
    <2>5. CASE TaskEnds(r, p)
        <3>1. PICK outcome : sandbox'[r] = [run EXCEPT !.task[p] = "stopped", !.result[p] = outcome[1],
                                                       !.archive[p] = outcome[2]]
            BY <1>2, <2>5 DEF TaskEnds
        <3> HIDE DEF run
        <3> QED BY <1>1, <1>3, <1>4, <3>1 DEF SandboxRun
    <2> QED BY <1>6, <2>2, <2>3, <2>4, <2>5
<1>7. ASSUME Unavailable(r) \/ Reap(r) \/ CollectDies(r) PROVE kept(sandbox'[r])
    <2>1. \E task : \/ sandbox'[r] = [run EXCEPT !.pc = "reap", !.off = TRUE]
                    \/ sandbox'[r] = [run EXCEPT !.pc = "collect", !.task = task]
                    \/ sandbox'[r] = [run EXCEPT !.pc = "done", !.status = "dead"]
        <3>1. CASE Reap(r)
            <4> DEFINE task == [p \in Phases |-> IF run.task[p] = "running" THEN "stopping" ELSE run.task[p]]
            <4>1. sandbox'[r] = [run EXCEPT !.pc = "collect", !.task = task]
                BY <1>2, <3>1 DEF Reap
            <4> QED BY <4>1
        <3>2. CASE Unavailable(r) \/ CollectDies(r)
            BY <1>2, <3>2 DEF Unavailable, CollectDies
        <3> QED BY <1>7, <3>1, <3>2
    <2> HIDE DEF run
    <2> QED BY <1>1, <1>4, <2>1 DEF SandboxRun
<1>8. ASSUME NEW outside \in BOOLEAN, Collect(r, outside)
      PROVE  /\ sandbox'[r].job = run.job /\ sandbox'[r].pc # "none" /\ sandbox'[r].source = run.source
    <2> DEFINE answer == StatusOf(r, outside)
               stacks == IF answer = "ok" /\ run.job.kind \in SynthKinds THEN BuiltStacks(run.source) ELSE {}
    <2>1. sandbox'[r] = [run EXCEPT !.pc = "done", !.status = answer, !.stacks = stacks]
        BY <1>2, <1>8 DEF Collect
    <2> HIDE DEF run, answer, stacks
    <2> QED BY <1>1, <2>1 DEF SandboxRun
<1> HIDE DEF run
<1>9. CASE \E outside \in BOOLEAN : Collect(r, outside)
    BY <1>3, <1>4, <1>8, <1>9 DEF run
<1>10. CASE ~(\E outside \in BOOLEAN : Collect(r, outside)) /\ ~Prepare(r)
    BY <1>3, <1>4, <1>6, <1>7, <1>10 DEF run, SandboxStep, StateStep
<1> QED BY <1>5, <1>9, <1>10

\* A sandbox run writes under its own prefix, when it collects what it built.
LEMMA TemplatesWritten ==
    ASSUME Shape, NEW r \in SandboxRuns, SandboxStep(r), NEW x \in Prefixes,
           x # sandbox[r].job.prefix \/ sandbox[r].job.kind \notin SynthKinds
    PROVE  templates'[x] = templates[x]
<1>1. CASE UNCHANGED templates
    BY <1>1
<1>2. ASSUME NEW stacks, templates' = WithTemplates(r, stacks),
             sandbox[r].job.kind \notin SynthKinds => stacks = {}
      PROVE  templates'[x] = templates[x]
    <2> DEFINE now(y) == [s \in Stacks |-> IF s \in stacks THEN Built(sandbox[r].source, s)
                                           ELSE templates[y][s]]
    <2>1. templates' = [templates EXCEPT ![sandbox[r].job.prefix] = now(sandbox[r].job.prefix)]
        BY <1>2 DEF WithTemplates
    <2>2. templates \in [Prefixes -> [Stacks -> (SUBSET Triples) \cup {NoTemplate}]]
        BY DEF Shape, CdkTypeOK, ArtifactsTypeOK
    <2>3. stacks = {} => now(x) = templates[x]
        BY <2>2
    <2> HIDE DEF now
    <2> QED BY <1>2, <2>1, <2>2, <2>3
<1>3. ASSUME NEW outside \in BOOLEAN, Collect(r, outside) PROVE templates'[x] = templates[x]
    BY <1>2, <1>3 DEF Collect
<1>4. CASE CollectDies(r)
    BY <1>2, <1>4 DEF CollectDies
<1> QED BY <1>1, <1>3, <1>4 DEF SandboxStep, StateStep, Prepare, Unavailable, RunTask, StateEnds,
                               StateFails, Reap, TaskEnds, artifactVars

\* What answers ok has put the templates of what it built.
LEMMA CollectWrites ==
    ASSUME Shape, NEW r \in SandboxRuns, NEW outside \in BOOLEAN, Collect(r, outside),
           sandbox'[r].status = "ok", sandbox[r].job.kind \in SynthKinds
    PROVE  /\ sandbox'[r].stacks = BuiltStacks(sandbox[r].source)
           /\ \A s \in BuiltStacks(sandbox[r].source) :
                templates'[sandbox[r].job.prefix][s] = Built(sandbox[r].source, s)
<1> DEFINE run == sandbox[r]
           answer == StatusOf(r, outside)
           stacks == IF answer = "ok" /\ run.job.kind \in SynthKinds THEN BuiltStacks(run.source) ELSE {}
<1>1. run \in SandboxRun /\ run.job.prefix \in Prefixes
    BY DEF Shape, CdkTypeOK, SandboxTypeOK, SandboxRun, Job
<1>2. /\ sandbox'[r] = [run EXCEPT !.pc = "done", !.status = answer, !.stacks = stacks]
      /\ templates' = WithTemplates(r, stacks)
    BY DEF Collect, SetRun, Shape, CdkTypeOK, SandboxTypeOK
<1>3. answer = "ok" /\ sandbox'[r].stacks = stacks
    <2> HIDE DEF answer, stacks, run
    <2>1. sandbox'[r].status = answer /\ sandbox'[r].stacks = stacks
        BY <1>1, <1>2 DEF SandboxRun
    <2> QED BY <2>1
<1>4. stacks = BuiltStacks(run.source) /\ stacks \subseteq Stacks
    BY <1>3 DEF BuiltStacks
<1> DEFINE now == [s \in Stacks |-> IF s \in stacks THEN Built(run.source, s)
                                    ELSE templates[run.job.prefix][s]]
<1>5. templates' = [templates EXCEPT ![run.job.prefix] = now]
    BY <1>2 DEF WithTemplates
<1>6. \A s \in stacks : now[s] = Built(run.source, s)
    BY <1>4
<1>7. templates'[run.job.prefix] = now
    <2> HIDE DEF now
    <2> QED BY <1>1, <1>5 DEF Shape, CdkTypeOK, ArtifactsTypeOK
<1> HIDE DEF now, stacks, answer
<1> QED BY <1>3, <1>4, <1>6, <1>7

----------------------------------------------------------------------------
(* The trace: the sandbox's steps *)

\* What has a re-synth's job is its finding's.
LEMMA PatchFacts ==
    ASSUME Shape, RunsOK, NEW r \in SandboxRuns, sandbox[r].job.kind = "cdk-resynth"
    PROVE  /\ sandbox[r].job.patch \in Findings /\ sandbox[r].job.prefix[1] = sandbox[r].job.patch
           /\ SourceOf(sandbox[r].job) = stored[sandbox[r].job.patch]
<1>1. JobOK(sandbox[r].job)
    BY DEF RunsOK, RunOK
<1>2. sandbox[r].job.patch \in Findings \cup {0}
    BY DEF Shape, CdkTypeOK, SandboxTypeOK, SandboxRun, Job
<1> QED BY <1>1, <1>2 DEF JobOK, SourceOf

LEMMA TokenTypes ==
    ASSUME Shape
    PROVE  /\ token.pending.ids \in SUBSET Findings /\ token.pending.attempt \in Attempts
           /\ token.pending.ids # {} =>
                First(token) \in token.pending.ids /\ First(token) \in Findings
                /\ Prefix(token) \in Prefixes
<1>1. token.pending.ids \in SUBSET Findings /\ token.pending.attempt \in Attempts
    BY DEF Shape, CdkTypeOK, Token, Pending
<1>2. token.pending.ids # {} => First(token) \in token.pending.ids
    BY <1>1, LowestIn DEF First
<1> QED BY <1>1, <1>2 DEF Prefix, Prefixes

\* No stray run writes under the prefix of the draft that waits.
LEMMA PrefixKept ==
    ASSUME Shape, RunsOK, TraceOK, NEW r \in SandboxRuns, SandboxStep(r), r # resynth,
           token.pending.ids # {}, token.answer # "error"
    PROVE  templates'[Prefix(token)] = templates[Prefix(token)]
<1>1. First(token) \in token.pending.ids /\ First(token) \in Findings /\ Prefix(token) \in Prefixes
    BY TokenTypes
<1>2. sandbox[r].pc \notin {"none", "done"}
    BY RunFacts
<1>3. PathOf[First(token)] \notin token.done
    BY <1>1 DEF TraceOK, AnswersOK
<1>4. CASE sandbox[r].job.kind = "cdk-resynth"
    <2>1. PathOf[sandbox[r].job.patch] \in token.done
        BY <1>2, <1>4 DEF TraceOK, StraysOK
    <2>2. sandbox[r].job.prefix[1] = sandbox[r].job.patch
        BY <1>4, PatchFacts
    <2>3. Prefix(token)[1] = First(token)
        BY DEF Prefix
    <2>4. sandbox[r].job.prefix # Prefix(token)
        BY <1>3, <2>1, <2>2, <2>3
    <2> QED BY <1>1, <2>4, TemplatesWritten
<1>5. CASE sandbox[r].job.kind = "cdk-synth"
    <2>1. sandbox[r].job.prefix = ScanPrefix
        BY <1>5 DEF RunsOK, RunOK, JobOK
    <2>2. ScanPrefix[1] = 0 /\ Prefix(token)[1] = First(token) /\ First(token) # 0
        BY <1>1, CdkAppAssumption DEF ScanPrefix, Prefix
    <2>3. sandbox[r].job.prefix # Prefix(token)
        BY <2>1, <2>2
    <2> QED BY <1>1, <2>3, TemplatesWritten
<1>6. CASE sandbox[r].job.kind \notin SynthKinds
    BY <1>1, <1>6, TemplatesWritten
<1> QED BY <1>4, <1>5, <1>6 DEF SynthKinds

\* The run that the draft waits for.
LEMMA WaitedFor ==
    ASSUME Shape, RunsOK, RunsOK', TraceOK, stage = "resynth",
           SandboxStep(resynth), UNCHANGED cdkVars
    PROVE  ResynthOK'
<1> DEFINE run == sandbox[resynth]
           now == sandbox'[resynth]
<1>1. resynth \in SandboxRuns
    BY SandboxRunsAssumption DEF Shape, CdkTypeOK, StageShape
<1>2. /\ run.job.kind = "cdk-resynth" /\ run.job.patch = First(token) /\ run.job.prefix = Prefix(token)
      /\ run.source # NoContent => run.source = stored[First(token)]
    BY DEF TraceOK, ResynthOK
<1>3. SourceOf(run.job) = stored[First(token)]
    BY <1>1, <1>2, PatchFacts
<1>4. /\ now.job = run.job /\ now.pc # "none"
      /\ now.source # run.source => now.source = stored[First(token)]
      /\ now.status = "ok" => \E outside \in BOOLEAN : Collect(resynth, outside)
    BY <1>1, <1>3, RunFacts
<1>5. UNCHANGED <<stored, stage, token, resynth>>
    BY <1>1, SandboxKeeps DEF cdkVars
<1>6. now.source # NoContent => now.source = stored[First(token)]
    BY <1>2, <1>4
<1>7. ASSUME now.status = "ok"
      PROVE  /\ stored[First(token)] # NoContent /\ Synthesizes(stored[First(token)])
             /\ now.stacks = BuiltStacks(stored[First(token)])
             /\ \A s \in now.stacks : templates'[Prefix(token)][s] = Built(stored[First(token)], s)
    <2>1. PICK outside \in BOOLEAN : Collect(resynth, outside)
        BY <1>4, <1>7
    <2>2. AnswerOK(now)
        BY <1>1, <1>7 DEF RunsOK, RunOK
    <2>3. now.source # NoContent /\ Synthesizes(now.source) /\ now.stacks = BuiltStacks(now.source)
        BY <1>2, <1>4, <2>2 DEF AnswerOK, SynthKinds
    <2>4. now.source = stored[First(token)]
        BY <1>6, <2>3
    <2>5. run.source = now.source
        <3>1. now = [run EXCEPT !.pc = "done", !.status = now.status, !.stacks = now.stacks]
            <4>1. \E answer, stacks : now = [run EXCEPT !.pc = "done", !.status = answer, !.stacks = stacks]
                BY <1>1, <2>1 DEF Collect, SetRun, Shape, CdkTypeOK, SandboxTypeOK
            <4>2. run \in SandboxRun
                BY <1>1 DEF Shape, CdkTypeOK, SandboxTypeOK
            <4> HIDE DEF run, now
            <4> QED BY <4>1, <4>2 DEF SandboxRun
        <3>2. run \in SandboxRun
            BY <1>1 DEF Shape, CdkTypeOK, SandboxTypeOK
        <3> HIDE DEF run, now
        <3> QED BY <3>1, <3>2 DEF SandboxRun
    <2>6. \A s \in BuiltStacks(run.source) : templates'[run.job.prefix][s] = Built(run.source, s)
        BY <1>1, <1>2, <1>7, <2>1, CollectWrites DEF SynthKinds
    <2> HIDE DEF run, now
    <2>7. \A s \in now.stacks : templates'[Prefix(token)][s] = Built(stored[First(token)], s)
        BY <1>2, <2>3, <2>4, <2>5, <2>6
    <2> QED BY <2>3, <2>4, <2>7
<1> HIDE DEF run
<1> QED BY <1>2, <1>4, <1>5, <1>6, <1>7 DEF ResynthOK, Answered, Prefix, First, now

LEMMA SandboxTrace ==
    ASSUME Shape, RunsOK, RunsOK', TraceOK, NEW r \in SandboxRuns, SandboxStep(r), UNCHANGED cdkVars
    PROVE  TraceOK'
<1>1. UNCHANGED <<stored, stage, synth, token, resynth>>
    BY SandboxKeeps DEF cdkVars
<1>2. \A q \in SandboxRuns : q # r => sandbox'[q] = sandbox[q]
    BY OneRunSteps DEF Shape, CdkTypeOK
<1>3. /\ sandbox[r].pc \notin {"none", "done"}
      /\ sandbox'[r].job = sandbox[r].job /\ sandbox'[r].pc # "none"
    BY RunFacts
<1>4. StraysOK'
    BY <1>1, <1>2, <1>3 DEF TraceOK, StraysOK
<1>5. SynthRunOK'
    <2>1. synth.ok => synth.run # r
        BY <1>3 DEF TraceOK, SynthRunOK
    <2>2. synth.run \in SandboxRuns \/ (stage # "synth" /\ ~synth.ok)
        BY DEF Shape, CdkTypeOK, StageShape
    <2> QED BY <1>1, <1>2, <1>3, <2>1, <2>2 DEF TraceOK, SynthRunOK
<1>6. ResynthOK'
    <2>1. CASE stage # "resynth"
        BY <1>1, <2>1 DEF ResynthOK
    <2>2. CASE stage = "resynth" /\ r = resynth
        BY <2>2, WaitedFor
    <2>3. CASE stage = "resynth" /\ r # resynth
        <3>1. resynth \in SandboxRuns /\ token.pending.ids # {} /\ token.answer = "none"
            BY <2>3, SandboxRunsAssumption DEF Shape, CdkTypeOK, StageShape, TokenShape
        <3>2. templates'[Prefix(token)] = templates[Prefix(token)]
            BY <2>3, <3>1, PrefixKept
        <3>3. sandbox'[resynth] = sandbox[resynth]
            BY <1>2, <2>3, <3>1
        <3> QED BY <1>1, <2>3, <3>2, <3>3 DEF TraceOK, ResynthOK, Answered, Prefix, First
    <2> QED BY <2>1, <2>2, <2>3
<1>7. AnswersOK'
    <2>1. CASE token.answer = "ok"
        <3>1. token.pending.ids # {}
            BY <2>1 DEF TraceOK, AnswersOK
        <3>2. resynth = 0
            BY <2>1 DEF Shape, StageShape, TokenShape
        <3>3. r # resynth
            BY <3>2, SandboxRunsAssumption
        <3>4. templates'[Prefix(token)] = templates[Prefix(token)]
            BY <2>1, <3>1, <3>3, PrefixKept
        <3> QED BY <1>1, <3>4 DEF TraceOK, AnswersOK, Answered, Prefix, First
    <2>2. CASE token.answer # "ok"
        BY <1>1, <2>2 DEF TraceOK, AnswersOK
    <2> QED BY <2>1, <2>2
<1> QED BY <1>4, <1>5, <1>6, <1>7 DEF TraceOK

----------------------------------------------------------------------------
(* The trace: the execution's steps *)

\* The continuation says the same of its draft, and the file, the templates and
\* the runs are as they were.
LEMMA SameTrace ==
    ASSUME TraceOK,
           token'.done = token.done, token'.pending = token.pending,
           token'.answer = token.answer, token'.stacks = token.stacks,
           UNCHANGED <<stored, templates, sandbox, stage, synth, resynth>>
    PROVE  TraceOK'
BY DEF TraceOK, StraysOK, SynthRunOK, ResynthOK, AnswersOK, Answered, Prefix, First

\* A reply whose draft is settled.
LEMMA SettledTrace ==
    ASSUME Shape, TraceOK, call.pc = "next", NEW at \in Token, Return(at, NoJob),
           at.done = call.at.done, at.pending = call.at.pending, at.answer = call.at.answer,
           UNCHANGED <<stored, templates, synth>>
    PROVE  TraceOK'
<1>1. token' = at /\ UNCHANGED <<stage, sandbox, resynth>>
    BY DEF Return
<1>2. /\ stage = "call" /\ at.answer = "none" /\ at.pending.ids = {} /\ token.done \subseteq at.done
      /\ \A f \in token.pending.ids : PathOf[f] \in at.done
    BY DEF Shape, StageShape, CallShape, NoCall, NoPending
<1>3. StraysOK'
    BY <1>1, <1>2 DEF TraceOK, StraysOK
<1> QED BY <1>1, <1>2, <1>3 DEF TraceOK, SynthRunOK, ResynthOK, AnswersOK

\* A draft is uploaded for a resource the execution is not done with, and its
\* re-synth begins.
LEMMA UploadTrace ==
    ASSUME Shape, RunsOK, TraceOK, stage = "call", call.pc \in {"judge", "next"},
           call.pc = "judge" => call.at.answer = "ok",
           NEW group \in SUBSET Findings, group # {},
           \A f \in group : PathOf[f] \notin call.at.done,
           NEW attempt \in Attempts, NEW draft \in Answers,
           UploadDraft(group, attempt, draft), UNCHANGED synth
    PROVE  TraceOK'
<1> DEFINE lead == Lowest(group)
           at   == [call.at EXCEPT !.pending = [ids |-> group, attempt |-> attempt],
                                   !.drafts = @ + Spend(draft)]
           job  == ResynthJob(lead, attempt)
           run  == [NoRun EXCEPT !.pc = "prepare", !.job = job]
<1>1. /\ Return(at, job) /\ UNCHANGED <<templates, synth>>
    BY DEF UploadDraft
<1>2. lead \in group /\ lead \in Findings
    BY LowestIn
<1>3. /\ job.kind = "cdk-resynth" /\ job.patch = lead /\ job.prefix = <<lead, attempt>> /\ job # NoJob
    BY DEF ResynthJob, NoJob
<1>4. /\ run.pc = "prepare" /\ run.job = job /\ run.source = NoContent /\ run.status = "none"
    BY DEF NoRun
<1>5. call.at \in Token
    BY DEF Shape, CdkTypeOK, Call
<1> HIDE DEF job
<1>6. /\ token' = [at EXCEPT !.answer = "none", !.stacks = {}]
      /\ stage' = "resynth" /\ StartSandbox(job) /\ resynth' = NextRun
    BY <1>1, <1>3 DEF Return
<1>7. /\ Free # {} /\ sandbox' = [sandbox EXCEPT ![NextRun] = run]
    BY <1>6 DEF StartSandbox, SetRun
<1> HIDE DEF run
<1>8. /\ NextRun \in SandboxRuns /\ sandbox[NextRun].pc = "none"
      /\ sandbox'[NextRun] = run
      /\ \A r \in SandboxRuns : r # NextRun => sandbox'[r] = sandbox[r]
    BY <1>7, NextRunIsFree DEF Shape, CdkTypeOK, SandboxTypeOK
<1>9. /\ token'.done = call.at.done /\ token'.answer = "none"
      /\ token'.pending = [ids |-> group, attempt |-> attempt]
    BY <1>5, <1>6 DEF Token
<1> HIDE DEF at
<1>10. First(token') = lead /\ Prefix(token') = <<lead, attempt>>
    BY <1>9 DEF First, Prefix
<1>11. StraysOK'
    <2> SUFFICES ASSUME NEW r \in SandboxRuns, r # NextRun, sandbox'[r].pc \notin {"none", "done"},
                        sandbox'[r].job.kind = "cdk-resynth"
                 PROVE  PathOf[sandbox'[r].job.patch] \in token'.done
        BY <1>6 DEF StraysOK
    <2>1. resynth = 0 /\ sandbox'[r] = sandbox[r]
        BY <1>8 DEF Shape, StageShape
    <2>2. r # resynth
        BY <2>1, SandboxRunsAssumption
    <2>3. \/ PathOf[sandbox[r].job.patch] \in token.done
          \/ token.answer = "error" /\ \E f \in token.pending.ids : PathOf[f] = PathOf[sandbox[r].job.patch]
        BY <2>1, <2>2 DEF TraceOK, StraysOK
    <2>4. CASE call.pc = "judge"
        <3>1. token.done = call.at.done /\ token.answer = "ok"
            BY <2>4 DEF Shape, CallShape
        <3> QED BY <1>9, <2>1, <2>3, <3>1
    <2>5. CASE call.pc = "next"
        <3>1. token.done \subseteq call.at.done /\ \A f \in token.pending.ids : PathOf[f] \in call.at.done
            BY <2>5 DEF Shape, CallShape
        <3> QED BY <1>9, <2>1, <2>3, <3>1
    <2> QED BY <2>4, <2>5
<1>12. SynthRunOK'
    <2>1. synth.ok => synth.run # NextRun /\ synth.run \in SandboxRuns
        BY <1>8 DEF TraceOK, SynthRunOK, Shape, CdkTypeOK, StageShape
    <2> QED BY <1>1, <1>6, <1>8, <2>1 DEF TraceOK, SynthRunOK
<1>13. ResynthOK'
    <2>1. run.pc # "none" /\ run.status # "ok" /\ run.source = NoContent
        BY <1>4
    <2> QED BY <1>3, <1>4, <1>6, <1>8, <1>10, <2>1 DEF ResynthOK, First, Prefix
<1>14. AnswersOK'
    BY <1>9 DEF AnswersOK
<1> QED BY <1>11, <1>12, <1>13, <1>14 DEF TraceOK

\* A run is forgotten, or its execution ends; what is about the draft that
\* waits stays.
LEMMA FreedTrace ==
    ASSUME Shape, TraceOK, NEW r,
           (sandbox' = [sandbox EXCEPT ![r] = NoRun] /\ r # resynth) \/ UNCHANGED sandbox,
           \/ UNCHANGED <<stage, synth>> /\ r # synth.run
           \/ stage # "resynth" /\ stage' \in {"idle", "call"} /\ ~synth'.ok,
           UNCHANGED <<stored, templates, token, resynth>>
    PROVE  TraceOK'
<1>1. \A q \in SandboxRuns : \/ sandbox'[q] = sandbox[q]
                             \/ sandbox'[q] = NoRun /\ q = r /\ r # resynth
    BY DEF Shape, CdkTypeOK, SandboxTypeOK
<1>2. NoRun.pc = "none"
    BY DEF NoRun
<1>3. StraysOK'
    BY <1>1, <1>2 DEF TraceOK, StraysOK
<1>4. AnswersOK'
    BY DEF TraceOK, AnswersOK, Answered, Prefix, First
<1>5. SynthRunOK'
    <2>1. stage = "synth" \/ synth.ok => synth.run \in SandboxRuns
        BY DEF Shape, CdkTypeOK, StageShape
    <2> QED BY <1>1, <2>1 DEF TraceOK, SynthRunOK
<1>6. ResynthOK'
    <2>1. stage = "resynth" => resynth \in SandboxRuns
        BY DEF Shape, CdkTypeOK, StageShape
    <2> QED BY <1>1, <2>1 DEF TraceOK, ResynthOK, Answered, Prefix, First
<1> QED BY <1>3, <1>4, <1>5, <1>6 DEF TraceOK

\* A run begins, and what it is.
LEMMA StartedRun ==
    ASSUME Shape, NEW job, StartSandbox(job)
    PROVE  /\ NextRun \in SandboxRuns /\ NextRun # 0 /\ sandbox[NextRun].pc = "none"
           /\ sandbox'[NextRun].pc = "prepare" /\ sandbox'[NextRun].job = job
           /\ sandbox'[NextRun].status = "none"
           /\ \A r \in SandboxRuns : r # NextRun => sandbox'[r] = sandbox[r]
<1> DEFINE run == [NoRun EXCEPT !.pc = "prepare", !.job = job]
<1>1. Free # {} /\ sandbox' = [sandbox EXCEPT ![NextRun] = run]
    BY DEF StartSandbox, SetRun
<1>2. run.pc = "prepare" /\ run.job = job /\ run.status = "none"
    BY DEF NoRun
<1> HIDE DEF run
<1> QED BY <1>1, <1>2, NextRunIsFree DEF Shape, CdkTypeOK, SandboxTypeOK

LEMMA OtherRunTrace ==
    ASSUME Shape, TraceOK, NEW kind \in Kinds \ SynthKinds, NEW phases, OtherRun(kind, phases)
    PROVE  TraceOK'
<1> DEFINE job == [NoJob EXCEPT !.kind = kind, !.phases = phases, !.project = head]
<1>1. /\ stage = "idle" /\ \A r \in SandboxRuns : sandbox[r].pc = "none"
      /\ StartSandbox(job) /\ UNCHANGED <<artifactVars, cdkVars>>
    BY DEF OtherRun
<1>2. job.kind # "cdk-resynth"
    BY DEF NoJob, SynthKinds
<1> HIDE DEF job
<1>3. \A r \in SandboxRuns : sandbox'[r].pc = "none" \/ sandbox'[r].job = job
    BY <1>1, StartedRun
<1>4. StraysOK'
    BY <1>2, <1>3 DEF StraysOK
<1>5. stage # "synth" /\ stage # "resynth" /\ ~synth.ok
    BY <1>1 DEF Shape, StageShape
<1> QED BY <1>1, <1>4, <1>5 DEF TraceOK, SynthRunOK, ResynthOK, AnswersOK, Answered, Prefix, First,
                                artifactVars, cdkVars

LEMMA BeginTrace ==
    ASSUME Shape, TraceOK, BeginExecution
    PROVE  TraceOK'
<1> DEFINE job == [kind |-> "cdk-synth", phases |-> Phases, project |-> head, patch |-> 0,
                   deps |-> 0, prefix |-> ScanPrefix]
<1>1. /\ \A r \in SandboxRuns : sandbox[r].pc = "none"
      /\ StartSandbox(job) /\ stage' = "synth" /\ synth' = [run |-> NextRun, ok |-> FALSE]
      /\ token' = NewToken
    BY DEF BeginExecution
<1>2. job.kind = "cdk-synth"
    OBVIOUS
<1> HIDE DEF job
<1>3. /\ \A r \in SandboxRuns : sandbox'[r].pc = "none" \/ sandbox'[r].job = job
      /\ sandbox'[NextRun].pc = "prepare" /\ sandbox'[NextRun].job = job
    BY <1>1, StartedRun
<1>4. StraysOK'
    BY <1>2, <1>3 DEF StraysOK
<1>5. SynthRunOK' /\ ResynthOK'
    BY <1>1, <1>2, <1>3 DEF SynthRunOK, ResynthOK
<1>6. AnswersOK'
    BY <1>1 DEF AnswersOK, NewToken, NoPending
<1> QED BY <1>4, <1>5, <1>6 DEF TraceOK

\* The pull request's app builds all its stacks, when it builds.
LEMMA SynthAnsweredTrace ==
    ASSUME Shape, RunsOK, TraceOK, SynthAnswered
    PROVE  TraceOK'
<1> DEFINE ok == sandbox[synth.run].status = "ok"
<1>1. /\ stage = "synth" /\ sandbox[synth.run].pc = "done"
      /\ synth' = [run |-> IF ok THEN synth.run ELSE 0, ok |-> ok]
      /\ sandbox' = IF ok THEN sandbox ELSE [sandbox EXCEPT ![synth.run] = NoRun]
      /\ stage' = "call" /\ UNCHANGED <<artifactVars, token, resynth>>
    BY DEF SynthAnswered
<1>2. synth.run \in SandboxRuns /\ sandbox[synth.run].job.kind = "cdk-synth"
    BY <1>1 DEF Shape, CdkTypeOK, StageShape, TraceOK, SynthRunOK
<1>3. CASE ok
    <2>1. AnswerOK(sandbox[synth.run]) /\ sandbox[synth.run].job.patch = 0
        BY <1>2, <1>3 DEF RunsOK, RunOK, JobOK
    <2>2. /\ sandbox[synth.run].source.drafts = {}
          /\ sandbox[synth.run].stacks = BuiltStacks(sandbox[synth.run].source)
        BY <1>2, <2>1 DEF AnswerOK, SynthKinds, RunsOK, RunOK
    <2>3. sandbox[synth.run].stacks = Stacks
        BY <2>2 DEF BuiltStacks
    <2> QED BY <1>1, <1>2, <1>3, <2>3 DEF TraceOK, StraysOK, SynthRunOK, ResynthOK, AnswersOK, Answered,
                                         Prefix, First, artifactVars
<1>4. CASE ~ok
    <2>1. ~synth'.ok /\ synth.run # resynth
        BY <1>1, <1>2, <1>4, SandboxRunsAssumption DEF Shape, StageShape
    <2> QED BY <1>1, <1>4, <2>1, FreedTrace DEF artifactVars
<1> QED BY <1>3, <1>4

\* The re-synth is over: what is left of it is the answer.
LEMMA ResynthAnsweredTrace ==
    ASSUME Shape, RunsOK, TraceOK, ResynthAnswered
    PROVE  TraceOK'
<1> DEFINE run == sandbox[resynth]
<1>1. /\ stage = "resynth" /\ stage' = "call" /\ resynth' = 0
      /\ token' = [token EXCEPT !.answer = IF run.status = "ok" THEN "ok" ELSE "error",
                                 !.stacks = run.stacks]
      /\ sandbox' = [sandbox EXCEPT ![resynth] = NoRun]
      /\ UNCHANGED <<artifactVars, synth>>
    BY DEF ResynthAnswered
<1>2. /\ token'.answer = (IF run.status = "ok" THEN "ok" ELSE "error") /\ token'.stacks = run.stacks
      /\ token'.done = token.done /\ token'.pending = token.pending
    BY <1>1 DEF Shape, CdkTypeOK, Token
<1> HIDE DEF run
<1>3. /\ resynth \in SandboxRuns /\ token.answer = "none" /\ token.pending.ids # {}
    BY <1>1 DEF Shape, CdkTypeOK, StageShape, TokenShape
<1>4. \A q \in SandboxRuns : sandbox'[q] = IF q = resynth THEN NoRun ELSE sandbox[q]
    BY <1>1 DEF Shape, CdkTypeOK, SandboxTypeOK
<1>5. NoRun.pc = "none"
    BY DEF NoRun
<1>6. StraysOK'
    BY <1>2, <1>3, <1>4, <1>5 DEF TraceOK, StraysOK
<1>7. SynthRunOK'
    <2>1. synth.ok => synth.run \in SandboxRuns /\ synth.run # resynth
        BY <1>1 DEF Shape, CdkTypeOK, StageShape, TraceOK, SynthRunOK, ResynthOK
    <2> QED BY <1>1, <1>4, <2>1 DEF TraceOK, SynthRunOK
<1>8. ResynthOK'
    BY <1>1 DEF ResynthOK
<1>9. AnswersOK'
    <2>1. run.status = "ok" => Answered(Prefix(token), stored[First(token)], run.stacks)
        BY <1>1 DEF TraceOK, ResynthOK, run
    <2> QED BY <1>1, <1>2, <1>3, <2>1 DEF TraceOK, AnswersOK, Answered, Prefix, First, artifactVars
<1> QED BY <1>6, <1>7, <1>8, <1>9 DEF TraceOK

LEMMA ResynthOverrunsTrace ==
    ASSUME Shape, TraceOK, ResynthOverruns
    PROVE  TraceOK'
<1>1. /\ stage = "resynth" /\ stage' = "call" /\ resynth' = 0
      /\ token' = [token EXCEPT !.answer = "error"]
      /\ UNCHANGED <<artifactVars, sandbox, synth>>
    BY DEF ResynthOverruns
<1>2. /\ token'.answer = "error" /\ token'.done = token.done /\ token'.pending = token.pending
    BY <1>1 DEF Shape, CdkTypeOK, Token
<1>3. /\ token.answer = "none" /\ First(token) \in token.pending.ids
      /\ sandbox[resynth].job.patch = First(token)
    BY <1>1, TokenTypes DEF Shape, TokenShape, TraceOK, ResynthOK
<1>4. StraysOK'
    BY <1>1, <1>2, <1>3 DEF TraceOK, StraysOK
<1> QED BY <1>1, <1>2, <1>4 DEF TraceOK, SynthRunOK, ResynthOK, AnswersOK

\* The fix is recorded: the draft's file stays where it was uploaded.
LEMMA RecordLeadTrace ==
    ASSUME Shape, TraceOK, RecordLead
    PROVE  TraceOK'
<1>1. /\ call.pc = "judge" /\ stored' = [stored EXCEPT ![Lead] = stored[Lead0]]
      /\ UNCHANGED <<templates, sandbox, stage, synth, token, resynth>>
    BY DEF RecordLead, InCall
<1>2. First(token) = Lead0
    BY <1>1 DEF Shape, CallShape, First, Lead0
<1>3. stored'[First(token)] = stored[First(token)]
    BY <1>1, <1>2, JudgedFacts DEF Shape, CdkTypeOK, ArtifactsTypeOK
<1> QED BY <1>1, <1>3 DEF TraceOK, StraysOK, SynthRunOK, ResynthOK, AnswersOK, Answered, Prefix, First

LEMMA LookTrace ==
    ASSUME Shape, TraceOK, Look
    PROVE  TraceOK'
<1> DEFINE reopened == IF call.at.first THEN Reopened ELSE {}
           now      == [f \in Findings |-> IF f \in reopened THEN "mapped" ELSE status[f]]
           open     == {f \in Findings : now[f] \in Open}
           at       == [call.at EXCEPT !.first = FALSE, !.chain = RootChain(@),
                            !.opened = IF call.at.first THEN open ELSE @]
           unsynthesized == [at EXCEPT !.complete = TRUE, !.counts.undrafted = Cardinality(open)]
<1>1. /\ UNCHANGED <<artifactVars, synth>>
      /\ \/ Return(unsynthesized, NoJob)
         \/ UNCHANGED <<stage, token, sandbox, resynth>>
    BY DEF Look
<1>2. call.at = token /\ token \in Token
    BY DEF Look, InCall, Shape, CallShape, CdkTypeOK
<1> HIDE DEF open, now, reopened
<1>3. /\ unsynthesized.done = token.done /\ unsynthesized.pending = token.pending
      /\ unsynthesized.answer = token.answer /\ unsynthesized.stacks = token.stacks
    BY <1>2 DEF Token
<1> HIDE DEF at, unsynthesized
<1>4. /\ token'.done = token.done /\ token'.pending = token.pending
      /\ token'.answer = token.answer /\ token'.stacks = token.stacks
      /\ UNCHANGED <<stage, sandbox, resynth>>
    BY <1>1, <1>3 DEF Return
<1> QED BY <1>1, <1>4, SameTrace DEF artifactVars

LEMMA DraftTrace ==
    ASSUME Shape, RunsOK, TraceOK, Redraft \/ DraftGroup
    PROVE  TraceOK'
<1>1. PICK group \in SUBSET Findings, attempt \in Attempts :
        /\ group # {} /\ \A f \in group : PathOf[f] \notin call.at.done
        /\ stage = "call" /\ call.pc \in {"judge", "next"}
        /\ call.pc = "judge" => call.at.answer = "ok"
        /\ Drafted(group, attempt)
    <2>1. CASE DraftGroup
        <3>1. call.pc = "next" /\ stage = "call" /\ Left # {} /\ Drafted(Group, 1)
            BY <2>1 DEF DraftGroup, MayDraft, InCall
        <3>2. call.open \in SUBSET Findings /\ 1 \in Attempts
            BY DEF Shape, CdkTypeOK, Call, Attempts
        <3>3. Group \in SUBSET Findings /\ Group # {} /\ \A f \in Group : PathOf[f] \notin call.at.done
            BY <3>1, <3>2, GroupFacts
        <3> QED BY <3>1, <3>2, <3>3
    <2>2. CASE Redraft
        <3> DEFINE ids == call.at.pending.ids
                   attempt == call.at.pending.attempt + 1
        <3>1. call.pc = "judge" /\ call.at.answer = "ok" /\ MayRedraft /\ Drafted(ids, attempt)
            BY <2>2 DEF Redraft, InCall
        <3>2. stage = "call" /\ ids \in SUBSET Findings /\ ids # {} /\ call.at.pending.attempt \in Attempts
            BY <3>1, JudgedFacts
        <3>3. attempt \in Attempts
            BY <3>1, <3>2 DEF MayRedraft, Attempts
        <3>4. \A f \in ids : PathOf[f] \notin call.at.done
            BY <3>1 DEF Shape, CallShape, TraceOK, AnswersOK
        <3> HIDE DEF ids, attempt
        <3> QED BY <3>1, <3>2, <3>3, <3>4
    <2> QED BY <2>1, <2>2
<1>2. PICK draft \in Answers : UploadDraft(group, attempt, draft) \/ RefuseDraft(group, draft)
    BY <1>1 DEF Drafted
<1>3. UNCHANGED synth
    BY <1>1 DEF Drafted
<1>4. CASE UploadDraft(group, attempt, draft)
    BY <1>1, <1>3, <1>4, UploadTrace
<1>5. CASE RefuseDraft(group, draft)
    BY <1>3, <1>5, SameTrace DEF RefuseDraft, artifactVars
<1> QED BY <1>2, <1>4, <1>5

LEMMA InitTrace == CdkInit => TraceOK
<1> SUFFICES ASSUME CdkInit PROVE TraceOK
    OBVIOUS
<1>1. /\ stage = "idle" /\ synth = [run |-> 0, ok |-> FALSE] /\ token = NewToken
      /\ \A r \in SandboxRuns : sandbox[r].pc = "none"
    BY DEF CdkInit, SandboxInit, NoRun
<1> QED BY <1>1 DEF TraceOK, StraysOK, SynthRunOK, ResynthOK, AnswersOK, NewToken, NoPending

LEMMA NextTrace ==
    ASSUME Shape, RunsOK, TraceOK, [CdkNext]_vars, RunsOK'
    PROVE  TraceOK'
<1>1. ASSUME NEW kind \in Kinds \ SynthKinds, NEW phases \in SUBSET Phases, OtherRun(kind, phases)
      PROVE  TraceOK'
    BY <1>1, OtherRunTrace
<1>2. CASE SandboxNext /\ UNCHANGED cdkVars
    BY <1>2, SandboxTrace DEF SandboxNext
<1>3. ASSUME NEW r \in SandboxRuns, Forget(r) PROVE TraceOK'
    BY <1>3, FreedTrace DEF Forget, artifactVars, cdkVars
<1>4. CASE FileDone
    <2>1. resynth = 0 /\ (synth.ok => synth.run # 0)
        BY <1>4 DEF FileDone, Shape, StageShape
    <2> QED BY <1>4, <2>1, FreedTrace DEF FileDone, artifactVars
<1>5. CASE CallFails
    <2>1. stage = "call" /\ resynth = 0 /\ (synth.ok => synth.run # 0)
        BY <1>5 DEF CallFails, Shape, StageShape
    <2>2. CASE UNCHANGED <<sandbox, stage, synth>>
        BY <1>5, <2>2, SameTrace DEF CallFails, artifactVars
    <2>3. CASE /\ stage' = "idle" /\ synth' = [run |-> 0, ok |-> FALSE]
               /\ sandbox' = IF synth.ok THEN [sandbox EXCEPT ![synth.run] = NoRun] ELSE sandbox
        BY <1>5, <2>1, <2>3, FreedTrace DEF CallFails, artifactVars
    <2> QED BY <1>5, <2>2, <2>3 DEF CallFails
<1>6. ASSUME \/ CallAgain \/ Unverified \/ RecordRest \/ SkipGroup \/ DraftFails
             \/ (\E h \in 1..head : OtherFetch(h)) \/ UNCHANGED vars
      PROVE  TraceOK'
    <2>1. UNCHANGED <<stored, templates, sandbox, stage, synth, resynth, token>>
        BY <1>6 DEF CallAgain, Unverified, RecordRest, SkipGroup, DraftFails, OtherFetch, vars, artifactVars,
                    cdkVars
    <2> QED BY <2>1, SameTrace
<1>7. CASE YieldCall \/ EndCall
    <2> DEFINE ended == [call.at EXCEPT !.complete = TRUE]
    <2>1. /\ Return(call.at, NoJob) \/ Return(ended, NoJob)
          /\ UNCHANGED <<stored, templates, synth>>
        BY <1>7 DEF YieldCall, EndCall, InCall, artifactVars
    <2>2. call.pc = "next" /\ call.at \in Token
        BY <1>7 DEF YieldCall, EndCall, InCall, Shape, CdkTypeOK, Call
    <2>3. /\ ended \in Token /\ ended.done = call.at.done /\ ended.pending = call.at.pending
          /\ ended.answer = call.at.answer
        BY <2>2 DEF Token
    <2> HIDE DEF ended
    <2> QED BY <2>1, <2>2, <2>3, SettledTrace
<1> QED BY <1>1, <1>2, <1>3, <1>4, <1>5, <1>6, <1>7, BeginTrace, SynthAnsweredTrace,
           ResynthAnsweredTrace, ResynthOverrunsTrace, RecordLeadTrace, LookTrace, DraftTrace
           DEF CdkNext, ExecutionStep, CallStep

\* What the execution's state says of the sandbox is so: the re-synth it waits
\* for is of the draft that waits, what has answered ok is of the file that was
\* uploaded, and no run that was given up on writes over its templates.
THEOREM TracesHold == CdkSpec => []TraceOK
<1>1. Shape /\ RunsOK /\ RunsOK' /\ TraceOK /\ [CdkNext]_vars => TraceOK'
    BY NextTrace
<1> QED BY <1>1, InitTrace, ShapeHolds, RunsHold, PTL DEF CdkSpec

----------------------------------------------------------------------------
(* What is known of what was recorded *)

LinksIn(after) == {<<PathOf[after[k].finding], after[k].draft>> : k \in DOMAIN after}

\* A chain: every resource is in its baseline, and no finding but the app's; its
\* tip is a proposed fix on a resource that is done with, and its links are what
\* the tip's file is made of.
Rooted(chain, done) ==
    /\ chain.paths = Paths /\ chain.known \subseteq Findings
    /\ chain.tip = 0 => chain.after = <<>>
    /\ chain.tip # 0 => /\ PathOf[chain.tip] \in done
                        /\ status[chain.tip] = "fix-proposed"
                        /\ stored[chain.tip].drafts = LinksIn(chain.after)

\* The file that waits is its chain's with the draft.
WaitsOn(at) ==
    at.pending.ids # {} =>
        stored[First(at)].drafts =
            LinksIn(at.chain.after) \cup {<<PathOf[First(at)], pendingJson[First(at)]>>}

ChainsOK ==
    /\ snapshot.drafts = {}
    /\ token.chain # NoChain => Rooted(token.chain, token.done)
    /\ token.first => token.chain = NoChain
    /\ WaitsOn(token)
    /\ call.pc \in {"judge", "rest", "next"} => Rooted(call.at.chain, call.at.done)

\* What the judging of a continuation's draft comes to.
ClearedIn(at) == (at.pending.ids \cap at.chain.known) \ ScanOf(Prefix(at))
LeadIn(at) == IF ClearedIn(at) = {} THEN First(at) ELSE Lowest(ClearedIn(at))
RedraftsIn(at) == /\ ScanOf(Prefix(at)) \ at.chain.known # {} /\ ClearedIn(at) # {}
                  /\ at.pending.attempt < 2
                  /\ at.drafts < MaxDraftsPerFile

\* Nothing is proposed on g and nothing points to it.
Unsettled(g) == /\ status[g] # "fix-proposed"
                /\ \A f \in Findings : ~(status[f] = "superseded" /\ superseder[f] = g)

\* The findings that wait are unsettled, but for what a call that failed had
\* recorded already: it did what its retry will do.
PendingUnsettled ==
    /\ \A g \in token.pending.ids : Unsettled(g) \/
            /\ token.answer = "ok" /\ ~RedraftsIn(token)
            /\ g = LeadIn(token) /\ stored[g] = stored[First(token)]
    /\ \A f \in Findings : (status[f] = "superseded" /\ superseder[f] \in token.pending.ids) =>
            f \in token.pending.ids

\* What a call saw open, and has not come to yet, is open.
OpenOK ==
    /\ call.pc = "next" => \A f \in call.open : PathOf[f] \notin call.at.done => status[f] \in Open
    /\ call.pc \in {"judge", "rest"} =>
        \A f \in call.open : \/ PathOf[f] \in call.at.done
                             \/ \E g \in token.pending.ids : PathOf[g] = PathOf[f]
                             \/ status[f] \in Open

RestOK ==
    call.pc = "rest" =>
        /\ call.lead = Lead /\ ~MayRedraft
        /\ stored[Lead] = stored[Lead0] /\ fix[Lead] # NoFix
        /\ status[Lead] = IF Passed THEN "fix-proposed" ELSE "needs-human-only"

\* What is proposed, and what it supersedes.
Proposed(f) ==
    /\ fix[f] # NoFix /\ stored[f] # NoContent
    /\ Synthesizes(stored[f])
    /\ f \notin BuildOf(stored[f]) /\ BuildOf(stored[f]) \subseteq Findings
    /\ ConstructsIn(BuiltStacks(stored[f])) = Paths
    /\ stored[f].drafts = {<<PathOf[f], fix[f].draft>>} \cup LinksIn(fix[f].after)

SupersededBy(f, g) ==
    /\ g # 0 /\ status[g] \in {"fix-proposed", "needs-human-only"}
    /\ fix[g] # NoFix /\ stored[g] # NoContent /\ f \notin BuildOf(stored[g])

FixesOK == \A f \in Findings :
    /\ status[f] = "fix-proposed" => Proposed(f)
    /\ status[f] = "superseded" => SupersededBy(f, superseder[f])

DraftsOK == ChainsOK /\ PendingUnsettled /\ OpenOK /\ RestOK /\ FixesOK

\* The app built from a file whose re-synth answered ok has been scanned whole.
LEMMA BuildIsScanned ==
    ASSUME NEW prefix, NEW content, NEW stacks, Answered(prefix, content, stacks)
    PROVE  BuildOf(content) \subseteq ScanOf(prefix)
<1> SUFFICES ASSUME NEW s \in BuiltStacks(content), NEW x \in Built(content, s)
             PROVE  x \in ScanOf(prefix)
    BY DEF BuildOf
<1>1. s \in Stacks /\ templates[prefix][s] = Built(content, s)
    BY DEF Answered, BuiltStacks
<1>2. Built(content, s) \in SUBSET Triples
    BY <1>1, BuildTypes
<1>3. Built(content, s) # NoTemplate
    BY <1>2, NoContentAssumption DEF NoTemplate
<1> QED BY <1>1, <1>3 DEF ScanOf

\* What the judging comes to is known from the continuation.
LEMMA JudgedBy ==
    ASSUME Shape, call.pc \in {"judge", "rest"}
    PROVE  /\ Lead0 = First(token) /\ Rescan = ScanOf(Prefix(token))
           /\ Cleared = ClearedIn(token) /\ Lead = LeadIn(token)
           /\ MayRedraft <=> RedraftsIn(token)
<1>1. /\ call.at.pending = token.pending /\ call.at.chain = token.chain
      /\ call.at.drafts = token.drafts
    BY DEF Shape, CallShape
<1>2. Lead0 = First(token)
    BY <1>1 DEF Lead0, First
<1>3. Rescan = ScanOf(Prefix(token))
    BY <1>1, <1>2 DEF Rescan, Prefix
<1>4. Cleared = ClearedIn(token)
    BY <1>1, <1>3 DEF Cleared, ClearedIn
<1>5. Lead = LeadIn(token)
    BY <1>2, <1>4 DEF Lead, LeadIn
<1>6. MayRedraft <=> RedraftsIn(token)
    BY <1>1, <1>3, <1>4 DEF MayRedraft, RedraftsIn, NewFound
<1> QED BY <1>2, <1>3, <1>4, <1>5, <1>6

\* The draft that is judged built its file, which its chain and it make up.
LEMMA JudgedOk ==
    ASSUME Shape, TraceOK, DraftsOK, call.pc \in {"judge", "rest"}, call.at.answer = "ok"
    PROVE  /\ token.answer = "ok" /\ stored[Lead0] # NoContent /\ Synthesizes(stored[Lead0])
           /\ call.at.stacks = BuiltStacks(stored[Lead0])
           /\ BuildOf(stored[Lead0]) \subseteq Rescan
           /\ stored[Lead0].drafts = LinksIn(call.at.chain.after) \cup
                                        {<<PathOf[Lead0], pendingJson[Lead0]>>}
           /\ Rooted(call.at.chain, call.at.done)
           /\ call.at.done = token.done /\ call.at.chain = token.chain
           /\ \A f \in call.at.pending.ids : PathOf[f] \notin token.done
<1>1. /\ call.at.answer = token.answer /\ call.at.stacks = token.stacks /\ call.at.chain = token.chain
      /\ call.at.done = token.done /\ call.at.pending = token.pending
    BY DEF Shape, CallShape
<1>2. Lead0 = First(token) /\ Rescan = ScanOf(Prefix(token))
    BY JudgedBy
<1>3. Answered(Prefix(token), stored[Lead0], call.at.stacks) /\ token.pending.ids # {}
    BY <1>1, <1>2 DEF TraceOK, AnswersOK
<1>4. BuildOf(stored[Lead0]) \subseteq Rescan
    BY <1>2, <1>3, BuildIsScanned
<1>5. WaitsOn(token) /\ Rooted(call.at.chain, call.at.done)
    BY DEF DraftsOK, ChainsOK
<1>6. \A f \in token.pending.ids : PathOf[f] \notin token.done
    BY DEF TraceOK, AnswersOK
<1> QED BY <1>1, <1>2, <1>3, <1>4, <1>5, <1>6 DEF Answered, WaitsOn

\* A fix that passed has every resource, and no finding the app did not have.
LEMMA PassedBuilds ==
    ASSUME Shape, TraceOK, DraftsOK, call.pc \in {"judge", "rest"}, call.at.answer = "ok", Passed
    PROVE  /\ Lead \notin BuildOf(stored[Lead0]) /\ BuildOf(stored[Lead0]) \subseteq Findings
           /\ Rescan \subseteq Findings /\ ConstructsIn(call.at.stacks) = Paths
<1>1. Lead \notin Rescan /\ Rescan \subseteq call.at.chain.known
    BY DEF Passed, Verified, Cleared, NewFound
<1>2. call.at.chain.known \subseteq Findings /\ call.at.chain.paths = Paths
    BY JudgedOk DEF Rooted
<1>3. ConstructsIn(call.at.stacks) = Paths
    BY <1>2 DEF Passed, Dropped, ConstructsIn
<1> QED BY <1>1, <1>2, <1>3, JudgedOk

----------------------------------------------------------------------------
(* What was recorded: the steps that record nothing *)

LEMMA FixesSame ==
    ASSUME FixesOK, UNCHANGED <<stored, status, fix, superseder>>
    PROVE  FixesOK'
BY DEF FixesOK, Proposed, SupersededBy

LEMMA BeginDrafts ==
    ASSUME DraftsOK, snapshot'.drafts = {}, token' = NewToken, call'.pc = "none",
           UNCHANGED <<stored, status, fix, superseder>>
    PROVE  DraftsOK'
<1>1. token'.pending.ids = {} /\ token'.chain = NoChain
    BY DEF NewToken, NoPending
<1>2. ChainsOK' /\ PendingUnsettled' /\ OpenOK' /\ RestOK'
    BY <1>1 DEF ChainsOK, WaitsOn, PendingUnsettled, OpenOK, RestOK
<1>3. FixesOK'
    BY FixesSame DEF DraftsOK
<1> QED BY <1>2, <1>3 DEF DraftsOK

\* A call begins, or the execution ends: the continuation may have been answered.
LEMMA AnewDrafts ==
    ASSUME DraftsOK, call'.pc \in {"none", "look"},
           token'.chain = token.chain, token'.first = token.first, token'.done = token.done,
           token'.pending = token.pending,
           token.answer # "ok" \/ UNCHANGED <<token, templates>>,
           UNCHANGED <<snapshot, stored, pendingJson, status, fix, superseder>>
    PROVE  DraftsOK'
<1>1. ChainsOK'
    BY DEF DraftsOK, ChainsOK, WaitsOn, Rooted, LinksIn, First
<1>2. PendingUnsettled'
    <2>1. \A g : Unsettled(g)' <=> Unsettled(g)
        BY DEF Unsettled
    <2>2. CASE token.answer # "ok"
        BY <2>1, <2>2 DEF DraftsOK, PendingUnsettled
    <2>3. CASE UNCHANGED <<token, templates>>
        <3>1. /\ ScanOf(Prefix(token))' = ScanOf(Prefix(token)) /\ First(token)' = First(token)
            BY <2>3 DEF ScanOf, Prefix, First
        <3>2. ClearedIn(token)' = ClearedIn(token)
            BY <2>3, <3>1 DEF ClearedIn
        <3>3. LeadIn(token)' = LeadIn(token) /\ (RedraftsIn(token)' <=> RedraftsIn(token))
            BY <2>3, <3>1, <3>2 DEF LeadIn, RedraftsIn
        <3> QED BY <2>1, <2>3, <3>1, <3>3 DEF DraftsOK, PendingUnsettled
    <2> QED BY <2>2, <2>3
<1>3. OpenOK' /\ RestOK'
    BY DEF OpenOK, RestOK
<1>4. FixesOK'
    BY FixesSame DEF DraftsOK
<1> QED BY <1>1, <1>2, <1>3, <1>4 DEF DraftsOK

\* Something else happens meanwhile.
LEMMA MeanwhileDrafts ==
    ASSUME Shape, Shape', DraftsOK, snapshot'.drafts = {},
           token.answer = "ok" => templates'[Prefix(token)] = templates[Prefix(token)],
           UNCHANGED <<stored, pendingJson, cdkVars>>
    PROVE  DraftsOK'
<1>1. UNCHANGED <<token, call, status, fix, superseder>>
    BY DEF cdkVars
<1>2. ChainsOK'
    BY <1>1 DEF DraftsOK, ChainsOK, WaitsOn, Rooted, LinksIn, First
<1>3. token.answer = "ok" => ScanOf(Prefix(token))' = ScanOf(Prefix(token))
    BY <1>1 DEF ScanOf, Prefix, First
<1>4. token.answer = "ok" => /\ ClearedIn(token)' = ClearedIn(token)
                             /\ LeadIn(token)' = LeadIn(token)
                             /\ RedraftsIn(token)' <=> RedraftsIn(token)
    BY <1>1, <1>3 DEF ClearedIn, LeadIn, RedraftsIn, First
<1>5. PendingUnsettled'
    <2>1. First(token)' = First(token) /\ \A g : Unsettled(g)' <=> Unsettled(g)
        BY <1>1 DEF First, Unsettled
    <2> QED BY <1>1, <1>4, <2>1 DEF DraftsOK, PendingUnsettled
<1>6. OpenOK'
    BY <1>1 DEF DraftsOK, OpenOK
<1>7. RestOK'
    <2> SUFFICES ASSUME call.pc = "rest"
                 PROVE  RestOK'
        BY <1>1 DEF RestOK
    <2>1. token.answer = "ok" /\ Rescan = ScanOf(Prefix(token)) /\ Rescan' = ScanOf(Prefix(token))'
        <3>1. Rescan = ScanOf(Prefix(token)) /\ token.answer = "ok"
            BY JudgedBy DEF Shape, CallShape
        <3>2. call' = call /\ token' = token /\ call.at.pending = token.pending
            BY <1>1 DEF Shape, CallShape
        <3>3. Rescan' = ScanOf(Prefix(token))'
            BY <3>2 DEF Rescan, Prefix, First, Lead0, ScanOf
        <3> QED BY <3>1, <3>3
    <2>2. Rescan' = Rescan
        BY <1>3, <2>1
    <2>3. Lead0' = Lead0 /\ Cleared' = Cleared /\ NewFound' = NewFound /\ Dropped' = Dropped
        BY <1>1, <2>2 DEF Lead0, Cleared, NewFound, Dropped, ConstructsIn
    <2>4. Lead' = Lead
        BY <2>3 DEF Lead
    <2>5. (MayRedraft' <=> MayRedraft) /\ (Passed' <=> Passed)
        BY <1>1, <2>3, <2>4 DEF MayRedraft, Passed, Verified
    <2> QED BY <1>1, <2>3, <2>4, <2>5 DEF DraftsOK, RestOK
<1>8. FixesOK'
    BY <1>1, FixesSame DEF DraftsOK
<1> QED BY <1>2, <1>5, <1>6, <1>7, <1>8 DEF DraftsOK

\* A reply whose draft is settled.
LEMMA SettledDrafts ==
    ASSUME Shape, DraftsOK, call.pc = "next", NEW at \in Token, Return(at, NoJob),
           at.done = call.at.done, at.pending = call.at.pending, at.chain = call.at.chain,
           at.first = call.at.first,
           UNCHANGED <<artifactVars, status, fix, superseder>>
    PROVE  DraftsOK'
<1>1. token' = at /\ call' = NoCall
    BY DEF Return
<1>2. call'.pc = "none" /\ at.pending.ids = {} /\ ~at.first
    BY <1>1 DEF NoCall, Shape, CallShape, NoPending
<1>3. Rooted(call.at.chain, call.at.done)
    BY DEF DraftsOK, ChainsOK
<1>4. ChainsOK'
    BY <1>1, <1>2, <1>3, SMTT(20) DEF DraftsOK, ChainsOK, WaitsOn, Rooted, LinksIn, artifactVars
<1>5. PendingUnsettled' /\ OpenOK' /\ RestOK'
    BY <1>1, <1>2 DEF PendingUnsettled, OpenOK, RestOK
<1>6. FixesOK'
    BY FixesSame DEF DraftsOK, artifactVars
<1> QED BY <1>4, <1>5, <1>6 DEF DraftsOK

----------------------------------------------------------------------------
(* What was recorded: drafts withheld, and drafts made *)

\* A group is passed over, or what was drafted for it is kept from being
\* proposed.
LEMMA WithheldDrafts ==
    ASSUME Shape, DraftsOK, call.pc \in {"judge", "next"}, NEW group \in SUBSET Findings,
           \A f \in Findings \ group : status'[f] = status[f] /\ fix'[f] = fix[f],
           \A f \in group : status'[f] \in {"needs-human-only", "not-drafted"},
           \A f \in Findings : (status[f] = "superseded" /\ superseder[f] \in group) => f \in group,
           \A f \in group : /\ token.chain.tip # f
                            /\ call.at.chain.tip # f,
           \A f \in call.open : PathOf[f] \notin call'.at.done => f \notin group /\ status[f] \in Open,
           call'.pc = "next", call'.open = call.open, call'.at.chain = call.at.chain,
           call.at.done \subseteq call'.at.done,
           UNCHANGED <<artifactVars, superseder, token>>
    PROVE  DraftsOK'
<1>1. UNCHANGED <<snapshot, stored, pendingJson, templates>>
    BY DEF artifactVars
<1>2. call.open \in SUBSET Findings /\ call.at.chain \in Chain /\ token.chain \in Chain
    BY DEF Shape, CdkTypeOK, Call, Token
<1>3. \A f \in Findings : status'[f] \in {"superseded", "fix-proposed"} => f \notin group
    OBVIOUS
<1>4. FixesOK'
    <2>1. ASSUME NEW f \in Findings, status'[f] = "fix-proposed" PROVE Proposed(f)'
        <3>1. status[f] = "fix-proposed" /\ fix'[f] = fix[f]
            BY <1>3, <2>1
        <3> QED BY <1>1, <3>1 DEF DraftsOK, FixesOK, Proposed
    <2>2. ASSUME NEW f \in Findings, status'[f] = "superseded" PROVE SupersededBy(f, superseder[f])'
        <3>1. f \notin group /\ status[f] = "superseded" /\ superseder[f] \notin group
            BY <1>3, <2>2
        <3>2. SupersededBy(f, superseder[f])
            BY <3>1 DEF DraftsOK, FixesOK
        <3>3. superseder[f] \in Findings
            BY <3>2 DEF SupersededBy, Shape, CdkTypeOK
        <3> QED BY <1>1, <3>1, <3>2, <3>3 DEF SupersededBy
    <2> QED BY <2>1, <2>2 DEF FixesOK
<1>5. PendingUnsettled'
    <2>1. /\ ScanOf(Prefix(token))' = ScanOf(Prefix(token)) /\ First(token)' = First(token)
        BY <1>1 DEF ScanOf, Prefix, First
    <2>2. ClearedIn(token)' = ClearedIn(token)
        BY <2>1 DEF ClearedIn
    <2>3. LeadIn(token)' = LeadIn(token) /\ (RedraftsIn(token)' <=> RedraftsIn(token))
        BY <2>1, <2>2 DEF LeadIn, RedraftsIn
    <2>4. \A g \in Findings : Unsettled(g) \/ g \in group => Unsettled(g)'
        BY <1>3 DEF Unsettled
    <2>5. token.pending.ids \in SUBSET Findings
        BY TokenTypes
    <2>6. ASSUME NEW f \in Findings, status'[f] = "superseded", superseder'[f] \in token.pending.ids
          PROVE  f \in token.pending.ids
        BY <1>3, <2>6 DEF DraftsOK, PendingUnsettled
    <2> QED BY <1>1, <2>1, <2>3, <2>4, <2>5, <2>6 DEF DraftsOK, PendingUnsettled
<1>6. ChainsOK'
    <2>1. ASSUME NEW chain \in Chain, NEW done, NEW done1, done \subseteq done1, Rooted(chain, done),
                 \A f \in group : chain.tip # f
          PROVE  Rooted(chain, done1)'
        <3>1. chain.tip # 0 => chain.tip \in Findings \ group
            BY <2>1 DEF Chain
        <3> QED BY <1>1, <2>1, <3>1 DEF Rooted
    <2>2. token.chain # NoChain => Rooted(token.chain, token.done)'
        BY <1>2, <2>1 DEF DraftsOK, ChainsOK
    <2>3. Rooted(call.at.chain, call.at.done)'
        <3>1. Rooted(call.at.chain, call.at.done)
            BY DEF DraftsOK, ChainsOK
        <3>2. call.at.chain.tip # 0 => call.at.chain.tip \in Findings \ group
            BY <1>2 DEF Chain
        <3> QED BY <1>1, <3>1, <3>2 DEF Rooted
    <2> QED BY <1>1, <2>2, <2>3 DEF DraftsOK, ChainsOK, WaitsOn, First, Rooted
<1>7. OpenOK' /\ RestOK'
    BY <1>2 DEF OpenOK, RestOK
<1> QED BY <1>4, <1>5, <1>6, <1>7 DEF DraftsOK

LEMMA LinksOfNone == LinksIn(<<>>) = {}
BY DEF LinksIn

LEMMA LinksOfMore ==
    ASSUME NEW after \in Seq(Links), NEW e \in Links
    PROVE  LinksIn(Append(after, e)) = LinksIn(after) \cup {<<PathOf[e.finding], e.draft>>}
<1> DEFINE more == Append(after, e)
           n == Len(after) + 1
<1>1. /\ DOMAIN more = 1..n /\ DOMAIN after = 1..Len(after) /\ Len(after) \in Nat
      /\ \A k \in 1..Len(after) : more[k] = after[k]
      /\ more[n] = e
    OBVIOUS
<1>2. DOMAIN more = DOMAIN after \cup {n}
    BY <1>1
<1> HIDE DEF more, n
<1>3. LinksIn(more) = LinksIn(after) \cup {<<PathOf[more[n].finding], more[n].draft>>}
    BY <1>1, <1>2 DEF LinksIn
<1> QED BY <1>1, <1>3 DEF more

\* A draft's file is uploaded where nothing is proposed on.
LEMMA UploadDrafts ==
    ASSUME Shape, DraftsOK, call.pc \in {"judge", "next"},
           NEW group \in SUBSET Findings, group # {}, \A g \in group : Unsettled(g),
           NEW attempt \in Attempts, NEW draft \in Answers,
           UploadDraft(group, attempt, draft), UNCHANGED fix
    PROVE  DraftsOK'
<1> DEFINE lead == Lowest(group)
           base == BaseContent(call.at.chain)
           file == [base EXCEPT !.drafts = @ \cup {<<PathOf[lead], draft>>}]
           at   == [call.at EXCEPT !.pending = [ids |-> group, attempt |-> attempt],
                                   !.drafts = @ + Spend(draft)]
           job  == ResynthJob(lead, attempt)
<1>1. /\ stored' = [stored EXCEPT ![lead] = file]
      /\ pendingJson' = [pendingJson EXCEPT ![lead] = draft]
      /\ Return(at, job)
      /\ UNCHANGED <<snapshot, status, fix, superseder>>
    BY DEF UploadDraft
<1>2. lead \in group /\ lead \in Findings /\ Unsettled(lead)
    BY LowestIn
<1>3. job # NoJob
    <2>1. job.kind = "cdk-resynth" /\ NoJob.kind = "sleep"
        BY DEF ResynthJob, NoJob
    <2> QED BY <2>1
<1>4. /\ call.at \in Token /\ call.at.chain \in Chain /\ ~call.at.first /\ Continues(call.at)
    BY DEF Shape, CdkTypeOK, Call, Token, CallShape
<1>5. base \in Content
    BY <1>4 DEF BaseContent, Shape, CdkTypeOK, ArtifactsTypeOK, Chain, Continues
<1> HIDE DEF job
<1>6. token' = [at EXCEPT !.answer = "none", !.stacks = {}] /\ call' = NoCall
    BY <1>1, <1>3 DEF Return
<1>7. /\ token'.chain = call.at.chain /\ token'.done = call.at.done /\ ~token'.first
      /\ token'.pending.ids = group
    BY <1>4, <1>6 DEF Token
<1> HIDE DEF at
<1>8. call'.pc = "none"
    BY <1>6 DEF NoCall
<1>9. file.drafts = base.drafts \cup {<<PathOf[lead], draft>>}
    <2> HIDE DEF base, lead
    <2> QED BY <1>5 DEF Content
<1>10. Rooted(call.at.chain, call.at.done) /\ snapshot.drafts = {}
    BY DEF DraftsOK, ChainsOK
<1>11. base.drafts = LinksIn(call.at.chain.after)
    <2>1. CASE call.at.chain.tip = 0
        BY <1>10, <2>1, LinksOfNone DEF BaseContent, Rooted
    <2>2. CASE call.at.chain.tip # 0
        BY <1>10, <2>2 DEF BaseContent, Rooted
    <2> QED BY <2>1, <2>2
<1> HIDE DEF base
<1>12. stored'[lead] = file /\ pendingJson'[lead] = draft
       /\ \A f \in Findings : f # lead => stored'[f] = stored[f]
    <2> HIDE DEF file, lead
    <2> QED BY <1>1, <1>2 DEF Shape, CdkTypeOK, ArtifactsTypeOK
<1>13. First(token') = lead
    BY <1>7 DEF First
<1> HIDE DEF file, lead
<1>14. ChainsOK'
    <2>1. call.at.chain.tip # 0 => call.at.chain.tip \in Findings /\ call.at.chain.tip # lead
        BY <1>2, <1>4, <1>10 DEF Chain, Rooted, Unsettled
    <2>2. Rooted(token.chain, token.done)'
        BY <1>1, <1>7, <1>10, <1>12, <2>1 DEF Rooted
    <2>3. WaitsOn(token)'
        BY <1>7, <1>9, <1>11, <1>12, <1>13 DEF WaitsOn, First
    <2> QED BY <1>1, <1>7, <1>8, <1>10, <2>2, <2>3 DEF ChainsOK
<1>15. PendingUnsettled'
    <2>1. \A g \in group : Unsettled(g)'
        BY <1>1 DEF Unsettled
    <2> QED BY <1>1, <1>7, <2>1 DEF PendingUnsettled, Unsettled
<1>16. FixesOK'
    <2>1. ASSUME NEW f \in Findings, status'[f] = "fix-proposed" PROVE Proposed(f)'
        <3>1. f # lead /\ status[f] = "fix-proposed"
            BY <1>1, <1>2, <2>1 DEF Unsettled
        <3>2. stored'[f] = stored[f] /\ fix'[f] = fix[f]
            BY <1>12, <3>1
        <3> QED BY <3>1, <3>2 DEF DraftsOK, FixesOK, Proposed
    <2>2. ASSUME NEW f \in Findings, status'[f] = "superseded" PROVE SupersededBy(f, superseder[f])'
        <3>1. superseder[f] # lead /\ status[f] = "superseded"
            BY <1>1, <1>2, <2>2 DEF Unsettled
        <3>2. SupersededBy(f, superseder[f])
            BY <3>1 DEF DraftsOK, FixesOK
        <3>3. superseder[f] \in Findings
            BY <3>2 DEF SupersededBy, Shape, CdkTypeOK
        <3> QED BY <1>1, <1>12, <3>1, <3>2, <3>3 DEF SupersededBy
    <2> QED BY <2>1, <2>2 DEF FixesOK
<1> QED BY <1>8, <1>14, <1>15, <1>16 DEF DraftsOK, OpenOK, RestOK

\* The group that was judged, when it is settled.
LEMMA JudgedGroup ==
    ASSUME Shape, TraceOK, DraftsOK, call.pc \in {"judge", "rest"}
    PROVE  /\ call.at.pending.ids = token.pending.ids
           /\ \A f \in Findings : (status[f] = "superseded" /\ superseder[f] \in call.at.pending.ids) =>
                    f \in call.at.pending.ids
           /\ \A f \in call.at.pending.ids : /\ token.chain.tip # f
                                             /\ call.at.chain.tip # f
           /\ \A f \in call.open : PathOf[f] \notin call.at.done \cup {PathOf[Lead0]} =>
                    f \notin call.at.pending.ids /\ status[f] \in Open
<1>1. /\ call.at.pending = token.pending /\ call.at.done = token.done /\ call.at.chain = token.chain
      /\ call.at.pending.ids # {} /\ call.at.chain.base # 0
    BY DEF Shape, CallShape
<1>2. \A f \in call.at.pending.ids : PathOf[f] = PathOf[Lead0] /\ PathOf[f] \notin token.done
    BY <1>1, JudgedFacts DEF TraceOK, AnswersOK
<1>3. Rooted(call.at.chain, call.at.done)
    BY DEF DraftsOK, ChainsOK
<1>4. call.at.pending.ids \in SUBSET Findings
    BY JudgedFacts
<1>5. \A f \in call.at.pending.ids : call.at.chain.tip # f
    BY <1>1, <1>2, <1>3, <1>4, CdkAppAssumption DEF Rooted
<1>6. ASSUME NEW f \in call.open, PathOf[f] \notin call.at.done \cup {PathOf[Lead0]}
      PROVE  f \notin call.at.pending.ids /\ status[f] \in Open
    BY <1>1, <1>2, <1>6 DEF DraftsOK, OpenOK
<1> QED BY <1>1, <1>5, <1>6 DEF DraftsOK, PendingUnsettled

\* The group that comes next.
LEMMA NextGroup ==
    ASSUME Shape, DraftsOK, call.pc = "next", Left # {}
    PROVE  /\ Group \in SUBSET Findings /\ Group # {}
           /\ \A g \in Group : Unsettled(g) /\ PathOf[g] = NextPath
           /\ \A f \in Group : /\ token.chain.tip # f
                               /\ call.at.chain.tip # f
           /\ \A f \in call.open : PathOf[f] \notin call.at.done \cup {NextPath} =>
                    f \notin Group /\ status[f] \in Open
<1>1. call.open \in SUBSET Findings /\ token.chain \in Chain /\ call.at.chain \in Chain
    BY DEF Shape, CdkTypeOK, Call, Token
<1>2. /\ NextPath \notin call.at.done
      /\ Group \in SUBSET Findings /\ Group # {} /\ Group \subseteq call.open
      /\ \A f \in Group : PathOf[f] = NextPath
    BY <1>1, GroupFacts
<1>3. \A f \in call.open : PathOf[f] \notin call.at.done => status[f] \in Open
    BY DEF DraftsOK, OpenOK
<1>4. \A g \in Group : status[g] \in Open
    BY <1>2, <1>3
<1>5. ASSUME NEW g \in Group PROVE Unsettled(g)
    <2>1. ASSUME NEW f \in Findings, status[f] = "superseded", superseder[f] = g PROVE FALSE
        BY <1>4, <2>1 DEF DraftsOK, FixesOK, SupersededBy, Open
    <2> QED BY <1>4, <2>1 DEF Unsettled, Open
<1>6. Rooted(call.at.chain, call.at.done) /\ (token.chain # NoChain => Rooted(token.chain, token.done))
    BY DEF DraftsOK, ChainsOK
<1>7. NoChain.tip = 0 /\ \A f \in Group : f # 0
    BY <1>2, CdkAppAssumption DEF NoChain
<1>8. \A f \in Group : /\ token.chain.tip # f
                       /\ call.at.chain.tip # f
    BY <1>4, <1>6, <1>7 DEF Rooted, Open
<1> QED BY <1>2, <1>3, <1>5, <1>8

LEMMA UnverifiedDrafts ==
    ASSUME Shape, TraceOK, DraftsOK, Unverified
    PROVE  DraftsOK'
<1> DEFINE ids == call.at.pending.ids
           at == [call.at EXCEPT !.counts.human = @ + 1,
                                 !.counts.undrafted = @ + Cardinality(ids) - 1]
<1>1. /\ call.pc = "judge"
      /\ fix' = [fix EXCEPT ![Lead0] = Recorded(call.at.chain, pendingJson[Lead0], FALSE)]
      /\ status' = [f \in Findings |-> IF f = Lead0 THEN "needs-human-only"
                                        ELSE IF f \in ids THEN "not-drafted" ELSE status[f]]
      /\ call' = Settled(at)
      /\ UNCHANGED <<artifactVars, superseder, token>>
    BY DEF Unverified, InCall
<1>2. ids \in SUBSET Findings /\ ids # {} /\ Lead0 \in ids
    BY <1>1, JudgedFacts
<1>3. call.at \in Token /\ call.at.counts \in Counts /\ Cardinality(ids) - 1 \in Nat /\ Cardinality(ids) \in Nat
    BY <1>2, CountsOf DEF Shape, CdkTypeOK, Call, Token
<1> HIDE DEF ids
<1>4. at \in Token /\ at.chain = call.at.chain /\ at.done = call.at.done
    <2>1. call.at.counts.human + 1 \in Nat /\ call.at.counts.undrafted + Cardinality(ids) - 1 \in Nat
        BY <1>3 DEF Counts
    <2> QED BY <1>3, <2>1 DEF Token, Counts
<1> HIDE DEF at
<1>5. /\ call'.pc = "next" /\ call'.open = call.open /\ call'.at.chain = call.at.chain
      /\ call'.at.done = call.at.done \cup {PathOf[Lead0]}
    BY <1>1, <1>4, SettledTypes
<1>6. /\ \A f \in Findings \ ids : status'[f] = status[f] /\ fix'[f] = fix[f]
      /\ \A f \in ids : status'[f] \in {"needs-human-only", "not-drafted"}
    BY <1>1, <1>2 DEF Shape, CdkTypeOK
<1> QED BY <1>1, <1>2, <1>5, <1>6, JudgedGroup, WithheldDrafts DEF ids

\* A draft that silences the scanner, of the group that is judged or comes next.
LEMMA RefuseDrafts ==
    ASSUME Shape, DraftsOK, call.pc \in {"judge", "next"}, NEW group \in SUBSET Findings, group # {},
           \A f \in Findings : (status[f] = "superseded" /\ superseder[f] \in group) => f \in group,
           \A f \in group : /\ token.chain.tip # f
                            /\ call.at.chain.tip # f,
           \A f \in call.open : PathOf[f] \notin call.at.done \cup {PathOf[Lowest(group)]} =>
                f \notin group /\ status[f] \in Open,
           NEW draft \in Answers, RefuseDraft(group, draft)
    PROVE  DraftsOK'
<1> DEFINE lead == Lowest(group)
           at == [call.at EXCEPT !.done = @ \cup {PathOf[lead]}, !.pending = NoPending,
                             !.answer = "none", !.stacks = {}, !.drafts = @ + Spend(draft),
                             !.counts.human = @ + 1,
                             !.counts.undrafted = @ + Cardinality(group) - 1]
<1>1. /\ fix' = [fix EXCEPT ![lead] = Recorded(call.at.chain, draft, FALSE)]
      /\ status' = [f \in Findings |-> IF f = lead THEN "needs-human-only"
                                        ELSE IF f \in group THEN "not-drafted" ELSE status[f]]
      /\ call' = [call EXCEPT !.pc = "next", !.worked = TRUE, !.at = at]
      /\ UNCHANGED <<artifactVars, superseder, token>>
    BY DEF RefuseDraft
<1>2. lead \in group
    BY LowestIn
<1>3. at.chain = call.at.chain /\ at.done = call.at.done \cup {PathOf[lead]}
    <2>1. call.at \in Token
        BY DEF Shape, CdkTypeOK, Call
    <2> HIDE DEF lead
    <2> QED BY <2>1 DEF Token
<1> HIDE DEF at
<1>4. /\ call'.pc = "next" /\ call'.open = call.open /\ call'.at = at
    BY <1>1 DEF Shape, CdkTypeOK, Call
<1>5. /\ \A f \in Findings \ group : status'[f] = status[f] /\ fix'[f] = fix[f]
      /\ \A f \in group : status'[f] \in {"needs-human-only", "not-drafted"}
    <2> HIDE DEF lead
    <2> QED BY <1>1, <1>2 DEF Shape, CdkTypeOK
<1> QED BY <1>1, <1>3, <1>4, <1>5, WithheldDrafts

LEMMA RedraftDrafts ==
    ASSUME Shape, TraceOK, DraftsOK, Redraft
    PROVE  DraftsOK'
<1> DEFINE ids == call.at.pending.ids
           attempt == call.at.pending.attempt + 1
<1>1. call.pc = "judge" /\ call.at.answer = "ok" /\ MayRedraft /\ Drafted(ids, attempt)
    BY DEF Redraft, InCall
<1>2. /\ ids \in SUBSET Findings /\ ids # {} /\ Lowest(ids) = Lead0 /\ call.at.pending.attempt \in Attempts
    BY <1>1, JudgedFacts DEF Lead0
<1>3. attempt \in Attempts
    BY <1>1, <1>2 DEF MayRedraft, Attempts
<1>4. \A g \in ids : Unsettled(g)
    <2>1. RedraftsIn(token) /\ ids = token.pending.ids
        BY <1>1, JudgedBy DEF Shape, CallShape
    <2> QED BY <2>1 DEF DraftsOK, PendingUnsettled
<1> HIDE DEF attempt
<1>5. PICK draft \in Answers : \/ UploadDraft(ids, attempt, draft) /\ UNCHANGED fix
                               \/ RefuseDraft(ids, draft)
    BY <1>1 DEF Drafted
<1>6. CASE UploadDraft(ids, attempt, draft) /\ UNCHANGED fix
    BY <1>1, <1>2, <1>3, <1>4, <1>6, UploadDrafts
<1>7. CASE RefuseDraft(ids, draft)
    BY <1>1, <1>2, <1>7, JudgedGroup, RefuseDrafts
<1> QED BY <1>5, <1>6, <1>7

LEMMA DraftGroupDrafts ==
    ASSUME Shape, DraftsOK, DraftGroup
    PROVE  DraftsOK'
<1>1. call.pc = "next" /\ Left # {} /\ Drafted(Group, 1) /\ 1 \in Attempts
    BY DEF DraftGroup, MayDraft, InCall, Attempts
<1>2. Group \in SUBSET Findings /\ Group # {} /\ PathOf[Lowest(Group)] = NextPath
      /\ \A g \in Group : Unsettled(g)
    BY <1>1, NextGroup, LowestIn
<1>3. PICK draft \in Answers : \/ UploadDraft(Group, 1, draft) /\ UNCHANGED fix
                               \/ RefuseDraft(Group, draft)
    BY <1>1 DEF Drafted
<1>4. CASE UploadDraft(Group, 1, draft) /\ UNCHANGED fix
    BY <1>1, <1>2, <1>4, UploadDrafts
<1>5. CASE RefuseDraft(Group, draft)
    <2>1. \A f \in Findings : (status[f] = "superseded" /\ superseder[f] \in Group) => f \in Group
        BY <1>2 DEF Unsettled
    <2> QED BY <1>1, <1>2, <1>5, <2>1, NextGroup, RefuseDrafts
<1> QED BY <1>3, <1>4, <1>5

LEMMA SkipGroupDrafts ==
    ASSUME Shape, DraftsOK, SkipGroup
    PROVE  DraftsOK'
<1> DEFINE at == [call.at EXCEPT !.done = @ \cup {NextPath},
                                 !.counts.undrafted = @ + Cardinality(Group)]
<1>1. /\ call.pc = "next" /\ Left # {}
      /\ status' = [f \in Findings |-> IF f \in Group THEN "not-drafted" ELSE status[f]]
      /\ call' = [call EXCEPT !.at.done = @ \cup {NextPath},
                              !.at.counts.undrafted = @ + Cardinality(Group)]
      /\ UNCHANGED <<artifactVars, fix, superseder, token>>
    BY DEF SkipGroup, InCall
<1>2. call \in Call /\ call.at \in Token
    BY DEF Shape, CdkTypeOK, Call
<1>3. /\ call'.pc = "next" /\ call'.open = call.open /\ call'.at.chain = call.at.chain
      /\ call'.at.done = call.at.done \cup {NextPath}
    BY <1>1, <1>2 DEF Call, Token
<1>4. /\ \A f \in Findings \ Group : status'[f] = status[f] /\ fix'[f] = fix[f]
      /\ \A f \in Group : status'[f] \in {"needs-human-only", "not-drafted"}
    BY <1>1, NextGroup DEF Shape, CdkTypeOK
<1>5. \A f \in Findings : (status[f] = "superseded" /\ superseder[f] \in Group) => f \in Group
    BY <1>1, NextGroup DEF Unsettled
<1> QED BY <1>1, <1>3, <1>4, <1>5, NextGroup, WithheldDrafts

LEMMA DraftFailsDrafts ==
    ASSUME Shape, DraftsOK, DraftFails
    PROVE  DraftsOK'
<1>1. /\ call.pc = "next" /\ Left # {}
      /\ \E n \in {0, 1} : call' = [call EXCEPT !.worked = TRUE, !.at.done = @ \cup {NextPath},
                                !.at.drafts = @ + n,
                                !.at.counts.errors = @ + Cardinality(Group)]
      /\ UNCHANGED <<artifactVars, status, fix, superseder, token>>
    BY DEF DraftFails, MayDraft, InCall
<1>2. call \in Call /\ call.at \in Token
    BY DEF Shape, CdkTypeOK, Call
<1>3. /\ call'.pc = "next" /\ call'.open = call.open /\ call'.at.chain = call.at.chain
      /\ call'.at.done = call.at.done \cup {NextPath}
    <2>1. PICK n \in {0, 1} : call' = [call EXCEPT !.worked = TRUE, !.at.done = @ \cup {NextPath},
                                !.at.drafts = @ + n,
                                !.at.counts.errors = @ + Cardinality(Group)]
        BY <1>1
    <2> QED BY <1>1, <1>2, <2>1 DEF Call, Token
<1>4. \A f \in call.open : PathOf[f] \notin call'.at.done => status[f] \in Open
    BY <1>1, <1>3, NextGroup
<1> DEFINE none == {}
<1>5. none \in SUBSET Findings
    OBVIOUS
<1> QED BY <1>1, <1>3, <1>4, <1>5, WithheldDrafts

----------------------------------------------------------------------------
(* What was recorded: a fix, and those it supersedes *)

LEMMA RecordLeadDrafts ==
    ASSUME Shape, Shape', TraceOK, DraftsOK, RecordLead
    PROVE  DraftsOK'
<1> DEFINE file == stored[Lead0]
           ids == call.at.pending.ids
           record == Recorded(call.at.chain, pendingJson[Lead0], Passed)
<1>1. /\ call.pc = "judge" /\ call.at.answer = "ok" /\ ~MayRedraft
      /\ stored' = [stored EXCEPT ![Lead] = file]
      /\ fix' = [fix EXCEPT ![Lead] = record]
      /\ status' = [status EXCEPT ![Lead] = IF Passed THEN "fix-proposed" ELSE "needs-human-only"]
      /\ UNCHANGED <<snapshot, pendingJson, templates, superseder, token>>
    BY DEF RecordLead, InCall
<1>2. /\ Lead \in ids /\ Lead \in Findings /\ Lead0 \in Findings /\ ids \in SUBSET Findings
      /\ pendingJson[Lead0] \in Answers
      /\ PathOf[Lead] = PathOf[Lead0]
    BY <1>1, JudgedFacts
<1>3. /\ Lead0 = First(token) /\ Lead = LeadIn(token) /\ ~RedraftsIn(token) /\ ids = token.pending.ids
      /\ Rescan = ScanOf(Prefix(token))
    BY <1>1, JudgedBy, JudgedGroup
<1>4. /\ token.answer = "ok" /\ file # NoContent /\ Synthesizes(file)
      /\ call.at.stacks = BuiltStacks(file) /\ BuildOf(file) \subseteq Rescan
      /\ file.drafts = LinksIn(call.at.chain.after) \cup {<<PathOf[Lead0], pendingJson[Lead0]>>}
      /\ call.at.chain = token.chain /\ call.at.done = token.done
      /\ \A f \in ids : PathOf[f] \notin token.done
    BY <1>1, JudgedOk
<1>5. /\ record \in CdkFix /\ record # NoFix
      /\ record.draft = pendingJson[Lead0] /\ record.after = call.at.chain.after
    <2>1. Passed \in BOOLEAN
        BY DEF Passed, Verified
    <2> QED BY <1>2, <2>1, RecordedTypes, NoFixAssumption DEF Recorded
<1>6. Passed => /\ Lead \notin BuildOf(file) /\ BuildOf(file) \subseteq Findings
                /\ ConstructsIn(call.at.stacks) = Paths
    BY <1>1, PassedBuilds
<1>7. \A f \in Findings : token.chain.tip = f => f \notin ids
    BY <1>1, JudgedGroup
<1> HIDE DEF file, record
<1>8. /\ stored'[Lead] = file /\ stored'[Lead0] = file /\ fix'[Lead] = record
      /\ status'[Lead] = (IF Passed THEN "fix-proposed" ELSE "needs-human-only")
      /\ \A f \in Findings : f # Lead => /\ stored'[f] = stored[f] /\ fix'[f] = fix[f]
                                         /\ status'[f] = status[f]
    BY <1>1, <1>2 DEF file, Shape, CdkTypeOK, ArtifactsTypeOK
<1>9. /\ call'.pc = "rest" /\ call'.lead = Lead /\ call'.open = call.open
      /\ call'.at.pending = call.at.pending /\ call'.at.answer = call.at.answer
      /\ call'.at.stacks = call.at.stacks /\ call'.at.done = call.at.done
      /\ call'.at.drafts = call.at.drafts /\ call'.at.chain = call.at.chain
    <2>1. call' = [call EXCEPT !.pc = "rest", !.lead = Lead,
                        !.at.counts.proposed = IF Passed THEN @ + 1 ELSE @,
                        !.at.counts.human = IF Passed THEN @ ELSE @ + 1]
        BY DEF RecordLead
    <2>2. call \in Call /\ call.at \in Token
        BY DEF Shape, CdkTypeOK, Call
    <2> QED BY <2>1, <2>2 DEF Call, Token
<1>10. FixesOK'
    <2>1. ASSUME NEW f \in Findings, status'[f] = "fix-proposed" PROVE Proposed(f)'
        <3>1. CASE f = Lead
            <4>1. Passed
                BY <1>8, <2>1, <3>1
            <4>2. stored'[f].drafts = {<<PathOf[f], fix'[f].draft>>} \cup LinksIn(fix'[f].after)
                BY <1>2, <1>4, <1>5, <1>8, <3>1
            <4> QED BY <1>4, <1>5, <1>6, <1>8, <3>1, <4>1, <4>2 DEF Proposed
        <3>2. CASE f # Lead
            <4>1. Proposed(f) /\ stored'[f] = stored[f] /\ fix'[f] = fix[f]
                BY <1>8, <2>1, <3>2 DEF DraftsOK, FixesOK
            <4> QED BY <4>1 DEF Proposed
        <3> QED BY <3>1, <3>2
    <2>2. ASSUME NEW f \in Findings, status'[f] = "superseded" PROVE SupersededBy(f, superseder[f])'
        <3>1. f # Lead /\ status[f] = "superseded" /\ SupersededBy(f, superseder[f])
            BY <1>8, <2>2 DEF DraftsOK, FixesOK
        <3>2. superseder[f] \in Findings /\ superseder'[f] = superseder[f]
            BY <1>1, <3>1 DEF SupersededBy, Shape, CdkTypeOK
        <3>3. CASE superseder[f] = Lead
            <4>1. ~Unsettled(Lead)
                BY <3>1, <3>3 DEF Unsettled
            <4>2. stored[Lead] = file
                BY <1>2, <1>3, <4>1 DEF DraftsOK, PendingUnsettled, file
            <4> QED BY <1>4, <1>5, <1>8, <3>1, <3>2, <3>3, <4>2 DEF SupersededBy
        <3>4. CASE superseder[f] # Lead
            BY <1>8, <3>1, <3>2, <3>4 DEF SupersededBy
        <3> QED BY <3>3, <3>4
    <2> QED BY <2>1, <2>2 DEF FixesOK
<1>11. First(token)' = First(token) /\ ScanOf(Prefix(token))' = ScanOf(Prefix(token))
    BY <1>1 DEF First, ScanOf, Prefix
<1>12. ClearedIn(token)' = ClearedIn(token)
    BY <1>1, <1>11 DEF ClearedIn
<1>13. LeadIn(token)' = Lead /\ ~RedraftsIn(token)'
    BY <1>1, <1>3, <1>11, <1>12 DEF LeadIn, RedraftsIn
<1>14. PendingUnsettled'
    <2>1. ASSUME NEW g \in ids, g # Lead PROVE Unsettled(g)'
        <3>1. Unsettled(g)
            BY <1>3, <2>1 DEF DraftsOK, PendingUnsettled
        <3> QED BY <1>1, <1>2, <1>8, <2>1, <3>1 DEF Unsettled
    <2>2. stored'[Lead] = stored'[First(token)]
        BY <1>3, <1>8
    <2>3. \A f \in Findings : status'[f] = "superseded" => f # Lead /\ status[f] = "superseded"
        BY <1>8
    <2> QED BY <1>1, <1>3, <1>4, <1>11, <1>13, <2>1, <2>2, <2>3 DEF DraftsOK, PendingUnsettled
<1>15. ChainsOK'
    <2>1. token.chain \in Chain
        BY DEF Shape, CdkTypeOK, Token
    <2>2. token.chain.tip # 0 => token.chain.tip \in Findings /\ token.chain.tip # Lead
        BY <1>2, <1>7, <2>1 DEF Chain
    <2>3. Rooted(token.chain, token.done) => Rooted(token.chain, token.done)'
        BY <1>1, <1>8, <2>2 DEF Rooted
    <2>4. Rooted(token.chain, token.done)
        BY <1>1, <1>4, JudgedOk
    <2>5. Rooted(call.at.chain, call.at.done)'
        BY <1>1, <1>4, <1>9, <2>3, <2>4 DEF Rooted
    <2>6. WaitsOn(token)'
        <3>1. WaitsOn(token)
            BY DEF DraftsOK, ChainsOK
        <3>2. stored'[First(token)] = stored[First(token)]
            BY <1>3, <1>8 DEF file
        <3> QED BY <1>1, <1>11, <3>1, <3>2 DEF WaitsOn, First
    <2> QED BY <1>1, <2>3, <2>4, <2>5, <2>6 DEF DraftsOK, ChainsOK
<1>16. OpenOK'
    <2>1. \A f \in call.open : \/ PathOf[f] \in call.at.done
                               \/ \E g \in token.pending.ids : PathOf[g] = PathOf[f]
                               \/ status[f] \in Open
        BY <1>1 DEF DraftsOK, OpenOK
    <2>2. call.open \in SUBSET Findings
        BY DEF Shape, CdkTypeOK, Call
    <2> QED BY <1>1, <1>2, <1>3, <1>8, <1>9, <2>1, <2>2 DEF OpenOK
<1>17. RestOK'
    <2>1. Lead0' = Lead0 /\ Rescan' = Rescan
        BY <1>1, <1>9 DEF Lead0, Rescan, ScanOf
    <2>2. Cleared' = Cleared /\ NewFound' = NewFound /\ Dropped' = Dropped
        BY <1>9, <2>1 DEF Cleared, NewFound, Dropped, ConstructsIn
    <2>3. Lead' = Lead
        BY <2>1, <2>2 DEF Lead
    <2>4. (MayRedraft' <=> MayRedraft) /\ (Passed' <=> Passed)
        BY <1>1, <1>9, <2>1, <2>2, <2>3 DEF MayRedraft, Passed, Verified
    <2> QED BY <1>1, <1>5, <1>8, <1>9, <2>1, <2>3, <2>4 DEF RestOK
<1> QED BY <1>10, <1>14, <1>15, <1>16, <1>17 DEF DraftsOK

LEMMA RecordRestDrafts ==
    ASSUME Shape, TraceOK, DraftsOK, RecordRest
    PROVE  DraftsOK'
<1> DEFINE file == stored[Lead0]
           ids == call.at.pending.ids
           others == ids \ {call.lead}
           gone == IF Verified THEN others \cap Cleared ELSE {}
           chain == IF Passed THEN LinkedBy(call.at.chain, call.lead) ELSE call.at.chain
           at == [call.at EXCEPT
                    !.counts.superseded = @ + Cardinality(gone),
                    !.counts.undrafted = @ + Cardinality(others \ gone),
                    !.chain = IF Passed THEN LinkedBy(@, call.lead) ELSE @]
<1>1. /\ call.pc = "rest" /\ stage = "call"
      /\ status' = [f \in Findings |-> IF f \in gone THEN "superseded"
                                        ELSE IF f \in others THEN "not-drafted" ELSE status[f]]
      /\ superseder' = [f \in Findings |-> IF f \in gone THEN call.lead ELSE superseder[f]]
      /\ call' = Settled(at)
      /\ UNCHANGED <<snapshot, stored, pendingJson, templates, fix, token>>
    BY DEF RecordRest, InCall, artifactVars
<1>2. /\ call.lead = Lead /\ ~MayRedraft /\ stored[Lead] = file /\ fix[Lead] # NoFix
      /\ status[Lead] = IF Passed THEN "fix-proposed" ELSE "needs-human-only"
      /\ call.at.answer = "ok"
    BY <1>1 DEF DraftsOK, RestOK, Shape, CallShape
<1>3. /\ Lead \in ids /\ Lead \in Findings /\ ids \in SUBSET Findings /\ Lead # 0
      /\ pendingJson[Lead0] \in Answers /\ PathOf[Lead] = PathOf[Lead0]
    BY <1>1, JudgedFacts, CdkAppAssumption
<1>4. /\ Lead0 = First(token) /\ Lead = LeadIn(token) /\ ~RedraftsIn(token) /\ ids = token.pending.ids
    BY <1>1, <1>2, JudgedBy, JudgedGroup
<1>5. /\ token.answer = "ok" /\ file # NoContent
      /\ BuildOf(file) \subseteq Rescan
      /\ file.drafts = LinksIn(call.at.chain.after) \cup {<<PathOf[Lead0], pendingJson[Lead0]>>}
      /\ Rooted(call.at.chain, call.at.done)
    BY <1>1, <1>2, JudgedOk
<1>6. Passed => Rescan \subseteq Findings /\ ConstructsIn(call.at.stacks) = Paths
    BY <1>1, <1>2, PassedBuilds
<1>7. /\ \A f \in ids : /\ token.chain.tip # f
                        /\ call.at.chain.tip # f
      /\ \A f \in Findings : (status[f] = "superseded" /\ superseder[f] \in ids) => f \in ids
      /\ \A f \in call.open : PathOf[f] \notin call.at.done \cup {PathOf[Lead0]} =>
                    f \notin ids /\ status[f] \in Open
    BY <1>1, JudgedGroup
<1>8. call \in Call /\ call.at \in Token /\ call.at.counts \in Counts /\ call.at.chain \in Chain
      /\ token.chain \in Chain
    BY DEF Shape, CdkTypeOK, Call, Token
<1>9. /\ others = ids \ {Lead} /\ gone \subseteq others
      /\ \A f \in gone : f \notin Rescan
    BY <1>2 DEF Cleared
<1>10. Cardinality(gone) \in Nat /\ Cardinality(others \ gone) \in Nat
    <2>1. gone \in SUBSET Findings /\ others \ gone \in SUBSET Findings
        BY <1>3
    <2> HIDE DEF gone, others
    <2> QED BY <2>1, CountsOf
<1> HIDE DEF gone, others
<1>11. at \in Token /\ at.chain = chain /\ at.done = call.at.done
    <2>1. chain \in Chain
        <3>1. [finding |-> Lead, draft |-> pendingJson[Lead0]] \in Links
            BY <1>3 DEF Links
        <3>2. Append(call.at.chain.after, [finding |-> Lead, draft |-> pendingJson[Lead0]]) \in Seq(Links)
            BY <1>8, <3>1 DEF Chain
        <3>3. ConstructsIn(call.at.stacks) \in SUBSET Paths
            BY DEF ConstructsIn
        <3>4. Passed => Rescan \in SUBSET Triples
            BY <1>6 DEF Triples
        <3> QED BY <1>2, <1>3, <1>8, <3>2, <3>3, <3>4 DEF LinkedBy, Chain
    <2>2. /\ call.at.counts.superseded + Cardinality(gone) \in Nat
          /\ call.at.counts.undrafted + Cardinality(others \ gone) \in Nat
        BY <1>8, <1>10 DEF Counts
    <2>3. at = [call.at EXCEPT
                    !.counts.superseded = @ + Cardinality(gone),
                    !.counts.undrafted = @ + Cardinality(others \ gone),
                    !.chain = chain]
        OBVIOUS
    <2> HIDE DEF chain, at
    <2> QED BY <1>8, <2>1, <2>2, <2>3 DEF Token, Counts
<1> HIDE DEF at
<1>12. /\ call'.pc = "next" /\ call'.open = call.open /\ call'.at.chain = chain
       /\ call'.at.done = call.at.done \cup {PathOf[Lead0]}
    BY <1>1, <1>11, SettledTypes
<1>13. /\ \A f \in Findings : status'[f] = (IF f \in gone THEN "superseded"
                                            ELSE IF f \in others THEN "not-drafted" ELSE status[f])
       /\ \A f \in Findings : superseder'[f] = (IF f \in gone THEN Lead ELSE superseder[f])
    BY <1>1, <1>2
<1>14. status'[Lead] = status[Lead] /\ status[Lead] \in {"fix-proposed", "needs-human-only"}
    BY <1>2, <1>3, <1>9, <1>13
<1>15. ASSUME NEW f \in Findings, f \notin gone, status'[f] = "superseded"
       PROVE  /\ f \notin ids /\ status[f] = "superseded"
              /\ superseder'[f] = superseder[f] /\ superseder[f] \notin ids
    <2>1. f \notin others /\ status[f] = "superseded" /\ superseder'[f] = superseder[f]
        BY <1>13, <1>15
    <2>2. f # Lead
        BY <1>14, <2>1
    <2> QED BY <1>7, <1>9, <2>1, <2>2
<1>16. FixesOK'
    <2>1. ASSUME NEW f \in Findings, status'[f] = "fix-proposed" PROVE Proposed(f)'
        <3>1. status[f] = "fix-proposed"
            BY <1>13, <2>1
        <3> QED BY <1>1, <3>1 DEF DraftsOK, FixesOK, Proposed
    <2>2. ASSUME NEW f \in Findings, status'[f] = "superseded" PROVE SupersededBy(f, superseder[f])'
        <3>1. CASE f \in gone
            <4>1. superseder'[f] = Lead /\ f \notin BuildOf(file)
                BY <1>5, <1>9, <1>13, <3>1
            <4> HIDE DEF file
            <4> QED BY <1>1, <1>2, <1>3, <1>5, <1>14, <4>1 DEF SupersededBy
        <3>2. CASE f \notin gone
            <4>1. /\ status[f] = "superseded" /\ superseder'[f] = superseder[f]
                  /\ superseder[f] \notin ids
                BY <1>15, <2>2, <3>2
            <4>2. SupersededBy(f, superseder[f])
                BY <4>1 DEF DraftsOK, FixesOK
            <4>3. superseder[f] \in Findings
                BY <4>2 DEF SupersededBy, Shape, CdkTypeOK
            <4>4. status'[superseder[f]] = status[superseder[f]]
                BY <1>9, <1>13, <4>1, <4>3
            <4> QED BY <1>1, <4>1, <4>2, <4>4 DEF SupersededBy
        <3> QED BY <3>1, <3>2
    <2> QED BY <2>1, <2>2 DEF FixesOK
<1>17. First(token)' = First(token) /\ ScanOf(Prefix(token))' = ScanOf(Prefix(token))
    BY <1>1 DEF First, ScanOf, Prefix
<1>18. ClearedIn(token)' = ClearedIn(token)
    BY <1>1, <1>17 DEF ClearedIn
<1>19. LeadIn(token)' = Lead /\ ~RedraftsIn(token)'
    BY <1>1, <1>4, <1>17, <1>18 DEF LeadIn, RedraftsIn
<1>20. PendingUnsettled'
    <2>1. ASSUME NEW g \in ids, g # Lead PROVE Unsettled(g)'
        <3>1. status'[g] # "fix-proposed"
            BY <1>3, <1>9, <1>13, <2>1
        <3>2. ASSUME NEW f \in Findings, status'[f] = "superseded", superseder'[f] = g PROVE FALSE
            BY <1>13, <1>15, <2>1, <3>2
        <3> QED BY <3>1, <3>2 DEF Unsettled
    <2>2. stored'[Lead] = stored'[First(token)]
        BY <1>1, <1>2, <1>4
    <2>3. ASSUME NEW f \in Findings, status'[f] = "superseded", superseder'[f] \in ids PROVE f \in ids
        BY <1>9, <1>15, <2>3
    <2> QED BY <1>1, <1>4, <1>5, <1>17, <1>19, <2>1, <2>2, <2>3 DEF PendingUnsettled
<1>21. Rooted(call.at.chain, call.at.done)'
    <2>1. CASE ~Passed
        <3>1. chain = call.at.chain
            BY <2>1
        <3>2. chain.tip # 0 => chain.tip \in Findings /\ chain.tip \notin ids
            BY <1>7, <1>8, <3>1 DEF Chain
        <3> HIDE DEF chain
        <3> QED BY <1>1, <1>5, <1>9, <1>12, <1>13, <3>1, <3>2 DEF Rooted
    <2>2. CASE Passed
        <3> DEFINE link == [finding |-> Lead, draft |-> pendingJson[Lead0]]
        <3>1. link \in Links /\ link.finding = Lead /\ link.draft = pendingJson[Lead0]
            BY <1>3 DEF Links
        <3> HIDE DEF link
        <3>2. chain = [call.at.chain EXCEPT !.tip = Lead, !.known = Rescan,
                            !.paths = ConstructsIn(call.at.stacks), !.after = Append(call.at.chain.after, link)]
            BY <1>2, <2>2 DEF LinkedBy, link
        <3> HIDE DEF chain
        <3>3. /\ chain.tip = Lead /\ chain.known = Rescan /\ chain.paths = ConstructsIn(call.at.stacks)
              /\ chain.after = Append(call.at.chain.after, link)
            BY <1>8, <3>2 DEF Chain
        <3>4. LinksIn(chain.after) = LinksIn(call.at.chain.after) \cup {<<PathOf[Lead], pendingJson[Lead0]>>}
            BY <1>8, <3>1, <3>3, LinksOfMore DEF Chain
        <3>5. stored'[Lead].drafts = LinksIn(chain.after)
            BY <1>1, <1>2, <1>3, <1>5, <3>4
        <3>6. status'[Lead] = "fix-proposed"
            BY <1>2, <1>14, <2>2
        <3>7. PathOf[Lead] \in call'.at.done
            BY <1>3, <1>12
        <3> QED BY <1>3, <1>6, <1>12, <2>2, <3>3, <3>5, <3>6, <3>7 DEF Rooted
    <2> QED BY <2>1, <2>2
<1>22. ChainsOK'
    <2>1. token.chain.tip # 0 => token.chain.tip \in Findings /\ token.chain.tip \notin ids
        BY <1>7, <1>8 DEF Chain
    <2>2. token.chain # NoChain => Rooted(token.chain, token.done)'
        BY <1>1, <1>9, <1>13, <2>1 DEF DraftsOK, ChainsOK, Rooted
    <2>3. WaitsOn(token)'
        BY <1>1 DEF DraftsOK, ChainsOK, WaitsOn, First
    <2> QED BY <1>1, <1>12, <1>21, <2>2, <2>3 DEF DraftsOK, ChainsOK
<1>23. OpenOK' /\ RestOK'
    <2>1. call.open \in SUBSET Findings
        BY <1>8 DEF Call
    <2> QED BY <1>7, <1>9, <1>12, <1>13, <2>1 DEF OpenOK, RestOK
<1> QED BY <1>16, <1>20, <1>22, <1>23 DEF DraftsOK

LEMMA LookDrafts ==
    ASSUME Shape, TraceOK, DraftsOK, Look
    PROVE  DraftsOK'
<1> DEFINE reopened == IF call.at.first THEN Reopened ELSE {}
           now      == [f \in Findings |-> IF f \in reopened THEN "mapped" ELSE status[f]]
           open     == {f \in Findings : now[f] \in Open}
           at       == [call.at EXCEPT !.first = FALSE, !.chain = RootChain(@),
                            !.opened = IF call.at.first THEN open ELSE @]
           unsynthesized == [at EXCEPT !.complete = TRUE, !.counts.undrafted = Cardinality(open)]
<1>1. /\ status' = IF synth.ok THEN now
                   ELSE [f \in Findings |-> IF f \in open THEN "not-drafted" ELSE now[f]]
      /\ superseder' = [f \in Findings |-> IF f \in reopened THEN 0 ELSE superseder[f]]
      /\ UNCHANGED <<snapshot, stored, pendingJson, templates, fix, synth>>
    BY DEF Look, artifactVars
<1>2. \/ ~synth.ok /\ Return(unsynthesized, NoJob)
      \/ /\ synth.ok
         /\ call' = [call EXCEPT !.at = at, !.open = open,
                !.pc = IF at.answer # "none" /\ at.pending # NoPending THEN "judge" ELSE "next"]
         /\ UNCHANGED <<stage, token, sandbox, resynth>>
    BY DEF Look
<1>3. /\ call.at = token /\ token \in Token /\ call \in Call /\ token.chain \in Chain
      /\ token.pending.ids \in SUBSET Findings
    BY DEF Look, InCall, Shape, CdkTypeOK, CallShape, Token, Pending
<1>4. token.first => token.chain = NoChain /\ token.pending.ids = {}
    BY DEF DraftsOK, ChainsOK, Shape, TokenShape, Continues, NoChain
<1>5. /\ \A f \in Findings : status'[f] \in {"fix-proposed", "superseded"} =>
            f \notin reopened /\ status[f] = status'[f]
      /\ \A f \in Findings \ reopened : status[f] \in {"fix-proposed", "needs-human-only"} =>
            status'[f] = status[f]
    <2> HIDE DEF reopened
    <2> QED BY <1>1 DEF Open
<1>6. \A f \in Findings : superseder'[f] = IF f \in reopened THEN 0 ELSE superseder[f]
    BY <1>1
<1>7. ~token.first => reopened = {}
    BY <1>3
<1>8. \A f \in Findings : (status[f] = "superseded" /\ superseder[f] \in reopened) => f \in reopened
    <2> SUFFICES ASSUME NEW f \in Findings, status[f] = "superseded", superseder[f] \in Reopened
                 PROVE  f \in Reopened
        OBVIOUS
    <2>1. status[superseder[f]] # "superseded"
        BY DEF DraftsOK, FixesOK, SupersededBy
    <2>2. superseder[f] \in StaleFixes
        BY <2>1 DEF Reopened
    <2> QED BY <2>2 DEF Reopened
<1>9. synth.ok => status' = now /\ open \in SUBSET Findings
    BY <1>1
<1> HIDE DEF reopened
<1>10. FixesOK'
    <2>1. ASSUME NEW f \in Findings, status'[f] = "fix-proposed" PROVE Proposed(f)'
        BY <1>1, <1>5, <2>1 DEF DraftsOK, FixesOK, Proposed
    <2>2. ASSUME NEW f \in Findings, status'[f] = "superseded" PROVE SupersededBy(f, superseder[f])'
        <3>1. f \notin reopened /\ status[f] = "superseded" /\ superseder'[f] = superseder[f]
            BY <1>5, <1>6, <2>2
        <3>2. SupersededBy(f, superseder[f])
            BY <3>1 DEF DraftsOK, FixesOK
        <3>3. superseder[f] \in Findings /\ superseder[f] \notin reopened
            BY <1>8, <3>1, <3>2 DEF SupersededBy, Shape, CdkTypeOK
        <3>4. status'[superseder[f]] = status[superseder[f]]
            BY <1>5, <3>2, <3>3 DEF SupersededBy
        <3> QED BY <1>1, <3>1, <3>2, <3>4 DEF SupersededBy
    <2> QED BY <2>1, <2>2 DEF FixesOK
<1>11. RootChain(token.chain) = token.chain \/ (synth.ok /\ token.chain = NoChain)
    BY <1>3, RootTypes DEF Shape
<1> HIDE DEF now, open
<1>12. /\ at.chain = RootChain(token.chain) /\ ~at.first /\ at.done = token.done
       /\ at.pending = token.pending /\ at.answer = token.answer /\ at.drafts = token.drafts
    BY <1>3 DEF Token
<1> HIDE DEF at
<1>13. /\ token'.done = token.done /\ token'.pending = token.pending /\ token'.answer = token.answer
       /\ token'.chain = token.chain /\ token'.drafts = token.drafts
       /\ token'.first => token.first
    <2>1. CASE synth.ok
        BY <1>2, <2>1
    <2>2. CASE ~synth.ok
        <3>1. at \in Token
            <4>1. RootChain(token.chain) \in Chain /\ open \in SUBSET Findings
                BY <1>3, RootTypes DEF open
            <4> QED BY <1>3, <4>1 DEF Token, at
        <3>2. token' = unsynthesized
            BY <1>2, <2>2 DEF Return
        <3>3. RootChain(token.chain) = token.chain
            BY <1>11, <2>2
        <3> QED BY <1>12, <3>1, <3>2, <3>3 DEF Token
    <2> QED BY <2>1, <2>2
<1> HIDE DEF unsynthesized
<1>14. PendingUnsettled'
    <2>1. CASE token.pending.ids = {}
        BY <1>13, <2>1 DEF PendingUnsettled
    <2>2. CASE token.pending.ids # {}
        <3>1. reopened = {}
            BY <1>4, <1>7, <2>2
        <3>2. /\ First(token)' = First(token) /\ ScanOf(Prefix(token))' = ScanOf(Prefix(token))
            BY <1>1, <1>13 DEF First, ScanOf, Prefix
        <3>3. ClearedIn(token)' = ClearedIn(token)
            BY <1>13, <3>2 DEF ClearedIn
        <3>4. LeadIn(token)' = LeadIn(token) /\ (RedraftsIn(token)' <=> RedraftsIn(token))
            BY <1>13, <3>2, <3>3 DEF LeadIn, RedraftsIn
        <3>5. \A g \in Findings : Unsettled(g) => Unsettled(g)'
            BY <1>5, <1>6, <3>1 DEF Unsettled
        <3>6. \A f \in Findings : status'[f] = "superseded" =>
                    status[f] = "superseded" /\ superseder'[f] = superseder[f]
            BY <1>5, <1>6
        <3> QED BY <1>1, <1>3, <1>13, <3>2, <3>4, <3>5, <3>6 DEF DraftsOK, PendingUnsettled
    <2> QED BY <2>1, <2>2
<1>15. ASSUME token.chain # NoChain PROVE Rooted(token.chain, token.done)'
    <2>1. reopened = {} /\ Rooted(token.chain, token.done)
        BY <1>4, <1>7, <1>15 DEF DraftsOK, ChainsOK
    <2>2. token.chain.tip # 0 => token.chain.tip \in Findings
        BY <1>3 DEF Chain
    <2> QED BY <1>1, <1>5, <1>13, <2>1, <2>2 DEF Rooted
<1>16. ASSUME synth.ok PROVE Rooted(call.at.chain, call.at.done)'
    <2>1. call'.at = at
        BY <1>2, <1>3, <1>16 DEF Call
    <2>2. CASE token.chain # NoChain
        BY <1>11, <1>12, <1>13, <1>15, <2>1, <2>2 DEF Rooted
    <2>3. CASE token.chain = NoChain
        <3>1. ConstructsIn(sandbox[synth.run].stacks) = Paths
            <4>1. sandbox[synth.run].stacks = Stacks
                BY <1>16 DEF TraceOK, SynthRunOK
            <4> QED BY <4>1, CdkAppAssumption DEF ConstructsIn
        <3>2. at.chain = [NoChain EXCEPT !.base = snapshot.own, !.known = Findings, !.paths = Paths]
            BY <1>12, <1>16, <2>3, <3>1 DEF RootChain
        <3>3. at.chain.tip = 0 /\ at.chain.after = <<>> /\ at.chain.known = Findings /\ at.chain.paths = Paths
            BY <3>2 DEF NoChain
        <3> QED BY <2>1, <3>3 DEF Rooted
    <2> QED BY <2>2, <2>3
<1>17. ChainsOK'
    <2>1. WaitsOn(token)'
        BY <1>1, <1>13 DEF DraftsOK, ChainsOK, WaitsOn, First
    <2>2. call'.pc \in {"judge", "rest", "next"} => synth.ok
        BY <1>2 DEF Return, NoCall
    <2> QED BY <1>1, <1>4, <1>13, <1>15, <1>16, <2>1, <2>2 DEF DraftsOK, ChainsOK
<1>18. OpenOK' /\ RestOK'
    <2>1. CASE ~synth.ok
        <3>1. call'.pc = "none"
            BY <1>2, <2>1 DEF Return, NoCall
        <3> QED BY <3>1 DEF OpenOK, RestOK
    <2>2. CASE synth.ok
        <3>1. call'.pc \in {"judge", "next"} /\ call'.open = open
            BY <1>2, <1>3, <2>2 DEF Call
        <3>2. \A f \in open : status'[f] \in Open
            BY <1>9, <2>2 DEF open
        <3> QED BY <3>1, <3>2 DEF OpenOK, RestOK
    <2> QED BY <2>1, <2>2
<1> QED BY <1>10, <1>14, <1>17, <1>18 DEF DraftsOK

----------------------------------------------------------------------------
(* What was recorded holds *)

\* What an earlier execution recorded.
LEMMA AfterOneFixes ==
    ASSUME NEW answer \in Answers, AfterOne(answer)
    PROVE  FixesOK
<1> DEFINE path    == PathOf[Lowest(Findings)]
           group   == GroupOf(path, Findings)
           cleared == group \cap answer.clears
           content == [own |-> 1, drafts |-> {<<path, answer>>}]
           lead    == Lowest(cleared)
           passed  == answer.drops = {} /\ ~answer.unsure
           recorded == [draft |-> answer, base |-> 1, after |-> <<>>, passed |-> passed]
<1>1. /\ path # NoPath /\ cleared # {} /\ ~answer.breaks /\ ~answer.brings
      /\ stored = [f \in Findings |-> IF f \in {Lowest(group), lead} THEN content ELSE NoContent]
      /\ fix = [f \in Findings |-> IF f # lead THEN NoFix ELSE recorded]
      /\ status = [f \in Findings |-> IF f \notin cleared THEN "not-drafted"
                        ELSE IF f # lead THEN "superseded"
                        ELSE IF passed THEN "fix-proposed" ELSE "needs-human-only"]
      /\ superseder = [f \in Findings |-> IF f \in cleared \ {lead} THEN lead ELSE 0]
    BY DEF AfterOne
<1>2. cleared \in SUBSET Findings /\ lead \in cleared
    <2>1. cleared \in SUBSET Findings
        BY DEF GroupOf
    <2> HIDE DEF cleared
    <2> QED BY <1>1, <2>1, LowestIn
<1>3. lead \in Findings /\ lead # 0 /\ PathOf[lead] = path
    BY <1>2, CdkAppAssumption DEF GroupOf
<1>4. path \in Paths
    <2>1. Findings # {} /\ Lowest(Findings) \in Findings
        BY <1>3, LowestIn
    <2> QED BY <1>1, <2>1, CdkAppAssumption
<1>5. content \in Content /\ content.drafts = {<<path, answer>>}
    BY <1>4 DEF Content
<1>6. content # NoContent
    BY <1>5, NoContentAssumption
<1>7. recorded \in CdkFix /\ recorded.draft = answer /\ recorded.after = <<>>
    <2>1. <<>> \in Seq(Links) /\ passed \in BOOLEAN
        OBVIOUS
    <2> HIDE DEF passed
    <2> QED BY <2>1 DEF CdkFix
<1>8. recorded # NoFix
    BY <1>7, NoFixAssumption
<1>9. Synthesizes(content)
    BY <1>1, <1>5 DEF Synthesizes
<1>10. \A f \in cleared : f \in answer.clears
    OBVIOUS
<1> HIDE DEF content
<1>11. \A s \in Stacks : Built(content, s) = {f \in Findings : StackOf[PathOf[f]] = s /\ f \notin answer.clears}
    BY <1>1, <1>5 DEF Built
<1>12. BuildOf(content) \subseteq Findings \ answer.clears
    BY <1>11 DEF BuildOf, BuiltStacks
<1>13. passed => ConstructsIn(BuiltStacks(content)) = Paths
    <2>1. passed => BuiltStacks(content) = Stacks
        BY <1>5 DEF BuiltStacks
    <2> HIDE DEF passed
    <2> QED BY <2>1, CdkAppAssumption DEF ConstructsIn
<1> HIDE DEF recorded, lead, cleared, group, passed
<1>14. stored[lead] = content /\ fix[lead] = recorded
    BY <1>1, <1>3
<1>15. ASSUME NEW f \in Findings, status[f] = "fix-proposed" PROVE Proposed(f)
    <2>1. f = lead /\ passed
        BY <1>1, <1>15
    <2>2. stored[f].drafts = {<<PathOf[f], fix[f].draft>>} \cup LinksIn(fix[f].after)
        BY <1>3, <1>5, <1>7, <1>14, <2>1, LinksOfNone
    <2>3. f \notin BuildOf(stored[f]) /\ BuildOf(stored[f]) \subseteq Findings
        BY <1>2, <1>10, <1>12, <1>14, <2>1
    <2> QED BY <1>6, <1>8, <1>9, <1>13, <1>14, <2>1, <2>2, <2>3 DEF Proposed
<1>16. ASSUME NEW f \in Findings, status[f] = "superseded" PROVE SupersededBy(f, superseder[f])
    <2>1. f \in cleared /\ superseder[f] = lead
        BY <1>1, <1>16
    <2>2. status[lead] \in {"fix-proposed", "needs-human-only"}
        BY <1>1, <1>2, <1>3
    <2>3. f \notin BuildOf(stored[lead])
        BY <1>10, <1>12, <1>14, <2>1
    <2> QED BY <1>3, <1>6, <1>8, <1>14, <2>1, <2>2, <2>3 DEF SupersededBy
<1> QED BY <1>15, <1>16 DEF FixesOK

LEMMA InitDrafts == CdkInit => DraftsOK
<1> SUFFICES ASSUME CdkInit PROVE DraftsOK
    OBVIOUS
<1>1. FixesOK
    <2>1. Fresh => FixesOK
        BY DEF Fresh, FixesOK
    <2> QED BY <2>1, AfterOneFixes DEF CdkInit
<1>2. snapshot.drafts = {} /\ token = NewToken /\ call = NoCall
    BY DEF CdkInit
<1>3. token.pending.ids = {} /\ token.chain = NoChain /\ call.pc = "none"
    BY <1>2 DEF NewToken, NoPending, NoCall
<1> QED BY <1>1, <1>2, <1>3 DEF DraftsOK, ChainsOK, WaitsOn, PendingUnsettled, OpenOK, RestOK

LEMMA NextDrafts ==
    ASSUME Shape, Shape', RunsOK, TraceOK, DraftsOK, [CdkNext]_vars
    PROVE  DraftsOK'
<1>0. snapshot.drafts = {}
    BY DEF DraftsOK, ChainsOK
<1>1. ASSUME NEW kind, NEW phases, OtherRun(kind, phases) PROVE DraftsOK'
    BY <1>0, <1>1, MeanwhileDrafts DEF OtherRun, artifactVars
<1>2. ASSUME NEW h, OtherFetch(h) PROVE DraftsOK'
    BY <1>2, MeanwhileDrafts DEF OtherFetch
<1>3. ASSUME NEW r, Forget(r) PROVE DraftsOK'
    BY <1>0, <1>3, MeanwhileDrafts DEF Forget, artifactVars
<1>4. CASE UNCHANGED vars
    BY <1>0, <1>4, MeanwhileDrafts DEF vars, artifactVars
<1>5. ASSUME NEW r \in SandboxRuns, SandboxStep(r), UNCHANGED cdkVars PROVE DraftsOK'
    <2>1. UNCHANGED <<snapshot, stored, pendingJson>>
        BY <1>5, SandboxKeeps
    <2>2. ASSUME token.answer = "ok" PROVE templates'[Prefix(token)] = templates[Prefix(token)]
        <3>1. token.pending.ids # {}
            BY <2>2 DEF TraceOK, AnswersOK
        <3>2. resynth = 0
            BY <2>2 DEF Shape, StageShape, TokenShape
        <3>3. r # resynth
            BY <3>2, SandboxRunsAssumption
        <3> QED BY <1>5, <2>2, <3>1, <3>3, PrefixKept
    <2> QED BY <1>0, <1>5, <2>1, <2>2, MeanwhileDrafts
<1>6. CASE BeginExecution
    <2>1. /\ snapshot'.drafts = {} /\ token' = NewToken /\ call' = call
          /\ UNCHANGED <<stored, status, fix, superseder>>
        BY <1>6 DEF BeginExecution
    <2>2. call.pc = "none"
        BY <1>6 DEF BeginExecution, Shape, StageShape, NoCall
    <2> QED BY <2>1, <2>2, BeginDrafts
<1>7. CASE SynthAnswered \/ CallAgain \/ FileDone \/ CallFails
    <2>1. /\ UNCHANGED <<token, templates, snapshot, stored, pendingJson, status, fix, superseder>>
          /\ call'.pc \in {"none", "look"}
        <3>1. NoCall.pc = "none" /\ [NoCall EXCEPT !.pc = "look", !.at = token].pc = "look"
            BY DEF NoCall
        <3>2. UNCHANGED <<token, templates, snapshot, stored, pendingJson, status, fix, superseder>>
            BY <1>7 DEF SynthAnswered, CallAgain, FileDone, CallFails, artifactVars
        <3>3. \/ call' = NoCall \/ call' = [NoCall EXCEPT !.pc = "look", !.at = token]
              \/ call' = call /\ call.pc = "none"
            BY <1>7 DEF SynthAnswered, CallAgain, FileDone, CallFails
        <3> QED BY <3>1, <3>2, <3>3
    <2> QED BY <2>1, AnewDrafts
<1>8. CASE ResynthAnswered \/ ResynthOverruns
    <2>1. token.answer # "ok" /\ token \in Token
        BY <1>8 DEF ResynthAnswered, ResynthOverruns, Shape, TokenShape, CdkTypeOK
    <2>2. /\ \/ token' = [token EXCEPT !.answer = IF sandbox[resynth].status = "ok" THEN "ok" ELSE "error",
                                       !.stacks = sandbox[resynth].stacks]
             \/ token' = [token EXCEPT !.answer = "error"]
          /\ call' = [NoCall EXCEPT !.pc = "look", !.at = token']
          /\ UNCHANGED <<snapshot, stored, pendingJson, status, fix, superseder>>
        BY <1>8 DEF ResynthAnswered, ResynthOverruns, artifactVars
    <2>3. /\ token'.chain = token.chain /\ token'.first = token.first /\ token'.done = token.done
          /\ token'.pending = token.pending
        BY <2>1, <2>2 DEF Token
    <2>4. call'.pc = "look"
        BY <2>2 DEF NoCall
    <2> QED BY <2>1, <2>2, <2>3, <2>4, AnewDrafts
<1>9. CASE YieldCall \/ EndCall
    <2> DEFINE ended == [call.at EXCEPT !.complete = TRUE]
    <2>1. /\ Return(call.at, NoJob) \/ Return(ended, NoJob)
          /\ UNCHANGED <<artifactVars, status, fix, superseder>>
        BY <1>9 DEF YieldCall, EndCall
    <2>2. call.pc = "next" /\ call.at \in Token
        BY <1>9 DEF YieldCall, EndCall, InCall, Shape, CdkTypeOK, Call
    <2>3. /\ ended \in Token /\ ended.done = call.at.done /\ ended.pending = call.at.pending
          /\ ended.chain = call.at.chain /\ ended.first = call.at.first
        BY <2>2 DEF Token
    <2> HIDE DEF ended
    <2> QED BY <2>1, <2>2, <2>3, SettledDrafts
<1> QED BY <1>1, <1>2, <1>3, <1>4, <1>5, <1>6, <1>7, <1>8, <1>9, LookDrafts, UnverifiedDrafts, RedraftDrafts,
           RecordLeadDrafts, RecordRestDrafts, SkipGroupDrafts, DraftGroupDrafts, DraftFailsDrafts
           DEF CdkNext, ExecutionStep, CallStep, SandboxNext

\* Everything that was recorded of the file's drafts is so of the app their
\* files build, and what waits, is judged or is drafted next rests on it.
THEOREM DraftsHold == CdkSpec => []DraftsOK
<1>1. Shape /\ Shape' /\ RunsOK /\ TraceOK /\ DraftsOK /\ [CdkNext]_vars => DraftsOK'
    BY NextDrafts
<1> QED BY <1>1, InitDrafts, ShapeHolds, RunsHold, TracesHold, PTL DEF CdkSpec

\* Whatever was late, hostile, stale or tried twice, a fix that is proposed
\* builds: the app with its stored file is without its finding, has no finding
\* it did not have, and has every resource it had.
THEOREM ProposedFixesDoBuild == CdkSpec => []ProposedFixesBuild
<1>1. DraftsOK => ProposedFixesBuild
    BY DEF DraftsOK, FixesOK, Proposed, ProposedFixesBuild
<1> QED BY <1>1, DraftsHold, PTL

\* A proposed fix's file has the drafts of its record and of its chain's links,
\* and no other, in whatever order calls were retried and runs were given up on.
THEOREM ProposedFilesAreTheirChains == CdkSpec => []ProposedFilesAreChains
<1>1. DraftsOK => ProposedFilesAreChains
    BY DEF DraftsOK, FixesOK, Proposed, LinksIn, ProposedFilesAreChains
<1> QED BY <1>1, DraftsHold, PTL

\* A finding that is superseded is gone from the app that the fix it points to
\* builds, and that fix is recorded.
THEOREM SupersededAreBuiltAway == CdkSpec => []SupersededIsBuiltAway
<1>1. DraftsOK => SupersededIsBuiltAway
    BY DEF DraftsOK, FixesOK, SupersededBy, SupersededIsBuiltAway
<1> QED BY <1>1, DraftsHold, PTL

----------------------------------------------------------------------------
(* What a continuation counts *)

\* The findings a continuation's counts are of: those on the resources it is done
\* with, and the one that was recorded of a group that is not.
Reached(at, lead) == {f \in at.opened : PathOf[f] \in at.done \/ f = lead}
With(S, st, s) == {f \in S : st[f] = s}

\* What is open was so at first; what is proposed or superseded is counted, or
\* waits to be judged again.
Tally(at, lead) ==
    /\ at.pending.ids \subseteq at.opened
    /\ \A f \in Findings : status[f] \in Open => f \in at.opened
    /\ at.counts.proposed = Cardinality(With(Reached(at, lead), status, "fix-proposed"))
    /\ at.counts.superseded = Cardinality(With(Reached(at, lead), status, "superseded"))
    /\ \A f \in at.opened \ Reached(at, lead) :
            f \in at.pending.ids \/ status[f] \notin {"fix-proposed", "superseded"}

Sum(c) == c.proposed + c.human + c.superseded + c.undrafted + c.errors

\* As long as no call has been retried, a group is a resource's findings, and
\* each finding is counted once.
Whole(at, lead) ==
    /\ \A f \in at.opened \ Reached(at, lead) : status[f] \in Open
    /\ \A f \in at.opened, g \in at.pending.ids : PathOf[f] = PathOf[g] => f \in at.pending.ids
    /\ at.counts.human = Cardinality(With(Reached(at, lead), status, "needs-human-only"))
    /\ Sum(at.counts) = Cardinality(Reached(at, lead))

TokenCounts ==
    /\ token.first => /\ token.opened = {} /\ token.done = {}
                      /\ token.counts = NoCounts /\ ~token.complete
    /\ stage \in {"call", "resynth"} => synth.ok \/ token.first \/ token.complete
    /\ stage = "resynth" => ~token.complete
    /\ ~token.first /\ ~token.complete =>
        /\ Tally(token, 0)
        /\ faults = 0 /\ stage # "idle" /\ call.pc \in {"none", "look"} => Whole(token, 0)

CallCounts ==
    /\ call.pc # "none" => ~token.complete
    /\ call.pc \in {"judge", "rest", "next"} =>
        /\ ~call.at.complete
        /\ ~token.first => call.at.opened = token.opened
        /\ call.open \subseteq call.at.opened
        /\ Tally(call.at, call.lead)
        /\ faults = 0 =>
            /\ Whole(call.at, call.lead)
            /\ \A f \in call.at.opened : PathOf[f] \notin call.at.done => f \in call.open

CountsOK == CountsAreTrue /\ TokenCounts /\ CallCounts

LEMMA CountOfMore ==
    ASSUME NEW C \in SUBSET Findings, NEW D \in SUBSET Findings, C \cap D = {}
    PROVE  /\ Cardinality(C) \in Nat /\ Cardinality(D) \in Nat
           /\ Cardinality(C \cup D) = Cardinality(C) + Cardinality(D)
<1>1. IsFiniteSet(C) /\ IsFiniteSet(D)
    BY CdkAppAssumption, FS_Subset
<1>2. Cardinality(C) \in Nat /\ Cardinality(D) \in Nat
    BY CountsOf
<1>3. Cardinality(C \cup D) = Cardinality(C) + Cardinality(D) - Cardinality(C \cap D)
    BY <1>1, FS_Union
<1>4. Cardinality(C \cap D) = 0
    BY FS_EmptySet
<1> QED BY <1>2, <1>3, <1>4

\* When more is reached, and nothing that was reached changes, as many more have
\* a status as have it of what is new.
LEMMA WithMore ==
    ASSUME NEW C \in SUBSET Findings, NEW D \in SUBSET Findings, C \cap D = {},
           NEW st, NEW now, \A f \in C : now[f] = st[f], NEW s
    PROVE  Cardinality(With(C \cup D, now, s)) = Cardinality(With(C, st, s)) + Cardinality(With(D, now, s))
<1>1. With(C \cup D, now, s) = With(C, st, s) \cup With(D, now, s)
    BY DEF With
<1>2. /\ With(C, st, s) \in SUBSET Findings /\ With(D, now, s) \in SUBSET Findings
      /\ With(C, st, s) \cap With(D, now, s) = {}
    BY DEF With
<1> QED BY <1>1, <1>2, CountOfMore

\* What a call adds to its counts: the new ones of what it has reached.
LEMMA CallTally ==
    ASSUME Shape, Shape', Tally(call.at, call.lead), NEW D \in SUBSET Findings,
           Reached(call.at, call.lead) \cap D = {},
           Reached(call'.at, call'.lead) = Reached(call.at, call.lead) \cup D,
           D \subseteq call.at.opened, call'.at.opened = call.at.opened,
           \A f \in Findings \ D : status'[f] = status[f],
           call'.at.pending.ids \subseteq call.at.pending.ids,
           call.at.pending.ids \subseteq call'.at.pending.ids \cup Reached(call'.at, call'.lead),
           call'.at.counts.proposed =
                call.at.counts.proposed + Cardinality(With(D, status', "fix-proposed")),
           call'.at.counts.superseded =
                call.at.counts.superseded + Cardinality(With(D, status', "superseded"))
    PROVE  Tally(call.at, call.lead)'
<1> DEFINE C == Reached(call.at, call.lead)
<1>1. call.at.opened \in SUBSET Findings
    BY DEF Shape, CdkTypeOK, Call, Token
<1>2. C \in SUBSET Findings /\ C \subseteq call.at.opened
    BY <1>1 DEF Reached
<1>3. C \cap D = {} /\ Reached(call'.at, call'.lead) = C \cup D
    OBVIOUS
<1>4. \A f \in C : status'[f] = status[f]
    BY <1>2, <1>3
<1>5. /\ call.at.counts.proposed = Cardinality(With(C, status, "fix-proposed"))
      /\ call.at.counts.superseded = Cardinality(With(C, status, "superseded"))
      /\ \A f \in call.at.opened \ C :
            f \in call.at.pending.ids \/ status[f] \notin {"fix-proposed", "superseded"}
      /\ call.at.pending.ids \subseteq call.at.opened
      /\ \A f \in Findings : status[f] \in Open => f \in call.at.opened
    BY DEF Tally
<1> HIDE DEF C
<1>6. \A s : Cardinality(With(C \cup D, status', s)) =
                Cardinality(With(C, status, s)) + Cardinality(With(D, status', s))
    BY <1>2, <1>3, <1>4, WithMore
<1>7. /\ call'.at.counts.proposed = Cardinality(With(C \cup D, status', "fix-proposed"))
      /\ call'.at.counts.superseded = Cardinality(With(C \cup D, status', "superseded"))
    BY <1>5, <1>6
<1>8. \A f \in call'.at.opened \ (C \cup D) :
            f \in call'.at.pending.ids \/ status'[f] \notin {"fix-proposed", "superseded"}
    BY <1>1, <1>3, <1>5
<1>9. \A f \in Findings : status'[f] \in Open => f \in call'.at.opened
    BY <1>5
<1>10. call'.at.pending.ids \subseteq call'.at.opened
    BY <1>5
<1> QED BY <1>3, <1>7, <1>8, <1>9, <1>10 DEF Tally

LEMMA CallWhole ==
    ASSUME Shape, Shape', Whole(call.at, call.lead), NEW D \in SUBSET Findings,
           Reached(call.at, call.lead) \cap D = {},
           Reached(call'.at, call'.lead) = Reached(call.at, call.lead) \cup D,
           call'.at.opened = call.at.opened,
           \A f \in Findings \ D : status'[f] = status[f],
           call'.at.pending.ids \in {{}, call.at.pending.ids},
           call'.at.counts.human =
                call.at.counts.human + Cardinality(With(D, status', "needs-human-only")),
           Sum(call'.at.counts) = Sum(call.at.counts) + Cardinality(D)
    PROVE  Whole(call.at, call.lead)'
<1> DEFINE C == Reached(call.at, call.lead)
<1>1. call.at.opened \in SUBSET Findings
    BY DEF Shape, CdkTypeOK, Call, Token
<1>2. C \in SUBSET Findings /\ C \subseteq call.at.opened
    BY <1>1 DEF Reached
<1>3. C \cap D = {} /\ Reached(call'.at, call'.lead) = C \cup D
    OBVIOUS
<1>4. \A f \in C : status'[f] = status[f]
    BY <1>2, <1>3
<1>5. /\ call.at.counts.human = Cardinality(With(C, status, "needs-human-only"))
      /\ Sum(call.at.counts) = Cardinality(C)
      /\ \A f \in call.at.opened \ C : status[f] \in Open
      /\ \A f \in call.at.opened, g \in call.at.pending.ids :
            PathOf[f] = PathOf[g] => f \in call.at.pending.ids
    BY DEF Whole
<1> HIDE DEF C
<1>6. Cardinality(With(C \cup D, status', "needs-human-only")) =
            Cardinality(With(C, status, "needs-human-only")) + Cardinality(With(D, status', "needs-human-only"))
    BY <1>2, <1>3, <1>4, WithMore
<1>7. Cardinality(C \cup D) = Cardinality(C) + Cardinality(D)
    BY <1>2, <1>3, CountOfMore
<1>8. \A f \in call'.at.opened \ (C \cup D) : status'[f] \in Open
    BY <1>1, <1>5
<1>9. \A f \in call'.at.opened, g \in call'.at.pending.ids :
            PathOf[f] = PathOf[g] => f \in call'.at.pending.ids
    BY <1>5
<1> QED BY <1>3, <1>5, <1>6, <1>7, <1>8, <1>9 DEF Whole

\* The continuation a call began with keeps its counts: what the call records is
\* not of what that was done with.
LEMMA TokenTally ==
    ASSUME Shape, Tally(token, 0), UNCHANGED token, NEW G \in SUBSET Findings,
           \A f \in Findings \ G : status'[f] = status[f],
           \A f \in G : /\ PathOf[f] \notin token.done /\ f \in token.opened
                        /\ f \in token.pending.ids \/ status'[f] \notin {"fix-proposed", "superseded"}
    PROVE  Tally(token, 0)'
<1> DEFINE C == Reached(token, 0)
<1>1. token.opened \in SUBSET Findings
    BY DEF Shape, CdkTypeOK, Token
<1>2. C \in SUBSET Findings /\ C \cap G = {}
    BY <1>1, CdkAppAssumption DEF Reached
<1>3. \A s : With(C, status', s) = With(C, status, s)
    BY <1>2 DEF With
<1> HIDE DEF C
<1>4. /\ token.counts.proposed = Cardinality(With(C, status, "fix-proposed"))
      /\ token.counts.superseded = Cardinality(With(C, status, "superseded"))
      /\ \A f \in token.opened \ C :
            f \in token.pending.ids \/ status[f] \notin {"fix-proposed", "superseded"}
      /\ token.pending.ids \subseteq token.opened
      /\ \A f \in Findings : status[f] \in Open => f \in token.opened
    BY DEF Tally, C
<1>5. \A f \in token.opened \ C :
            f \in token.pending.ids \/ status'[f] \notin {"fix-proposed", "superseded"}
    BY <1>1, <1>4
<1>6. \A f \in Findings : status'[f] \in Open => f \in token.opened
    BY <1>4
<1> QED BY <1>3, <1>4, <1>5, <1>6 DEF Tally, C

\* A call that records something, or passes something over, of what it has not
\* reached: G is what it writes, D what it has come to with that.
LEMMA MovesCounts ==
    ASSUME Shape, Shape', CountsOK, call.pc \in {"judge", "rest", "next"}, call'.pc \in {"rest", "next"},
           NEW G \in SUBSET Findings, NEW D \in SUBSET Findings, G \subseteq D,
           \A f \in Findings \ G : status'[f] = status[f],
           \A f \in G : /\ PathOf[f] \notin token.done
                        /\ f \in token.pending.ids \/ status'[f] \notin {"fix-proposed", "superseded"},
           D \subseteq call.at.opened, Reached(call.at, call.lead) \cap D = {},
           Reached(call'.at, call'.lead) = Reached(call.at, call.lead) \cup D,
           call'.at.opened = call.at.opened, call'.at.complete = call.at.complete,
           call'.open = call.open, call.at.done \subseteq call'.at.done,
           call'.at.pending.ids \in {{}, call.at.pending.ids},
           call.at.pending.ids \subseteq call'.at.pending.ids \cup Reached(call'.at, call'.lead),
           call'.at.counts.proposed =
                call.at.counts.proposed + Cardinality(With(D, status', "fix-proposed")),
           call'.at.counts.superseded =
                call.at.counts.superseded + Cardinality(With(D, status', "superseded")),
           faults = 0 =>
              /\ call'.at.counts.human =
                    call.at.counts.human + Cardinality(With(D, status', "needs-human-only"))
              /\ Sum(call'.at.counts) = Sum(call.at.counts) + Cardinality(D),
           UNCHANGED <<token, stage, synth, faults>>
    PROVE  CountsOK'
<1>1. /\ ~token.complete /\ ~call.at.complete
      /\ ~token.first => call.at.opened = token.opened
      /\ call.open \subseteq call.at.opened
      /\ Tally(call.at, call.lead)
      /\ faults = 0 =>
            /\ Whole(call.at, call.lead)
            /\ \A f \in call.at.opened : PathOf[f] \notin call.at.done => f \in call.open
    BY DEF CountsOK, CallCounts
<1>2. CountsAreTrue'
    BY <1>1 DEF CountsAreTrue
<1>3. Tally(call.at, call.lead)'
    BY <1>1, CallTally
<1>4. faults = 0 => Whole(call.at, call.lead)'
    BY <1>1, CallWhole
<1>5. \A f \in Findings \ D : status'[f] = status[f]
    OBVIOUS
<1>6. ~token.first => Tally(token, 0)'
    BY <1>1, TokenTally DEF CountsOK, TokenCounts
<1>7. TokenCounts'
    BY <1>1, <1>6 DEF CountsOK, TokenCounts
<1>8. CallCounts'
    BY <1>1, <1>3, <1>4 DEF CallCounts
<1> QED BY <1>2, <1>7, <1>8 DEF CountsOK

\* A group is settled with no fix: its resource is done with, and its findings
\* are of those to look at or still open.
LEMMA SettledCounts ==
    ASSUME Shape, Shape', CountsOK, call.pc \in {"judge", "next"}, call'.pc = "next",
           NEW p, NEW G \in SUBSET Findings, G \subseteq call.at.opened, p \notin call.at.done,
           \A f \in G : PathOf[f] = p,
           faults = 0 => \A f \in call.at.opened : PathOf[f] = p => f \in G,
           \A f \in Findings \ G : status'[f] = status[f],
           \A f \in G : status'[f] \in Open \cup {"needs-human-only"},
           call'.at.opened = call.at.opened, call'.at.complete = call.at.complete,
           call'.open = call.open, call'.at.done = call.at.done \cup {p},
           call'.at.pending = NoPending, call.at.pending.ids \subseteq G,
           call'.at.counts.proposed = call.at.counts.proposed,
           call'.at.counts.superseded = call.at.counts.superseded,
           faults = 0 =>
              /\ call'.at.counts.human =
                    call.at.counts.human + Cardinality(With(G, status', "needs-human-only"))
              /\ Sum(call'.at.counts) = Sum(call.at.counts) + Cardinality(G),
           UNCHANGED <<token, stage, synth, faults>>
    PROVE  CountsOK'
<1> DEFINE D == {f \in call.at.opened : PathOf[f] = p}
<1>1. /\ call.at.opened \in SUBSET Findings /\ call.at.counts \in Counts
    BY DEF Shape, CdkTypeOK, Call, Token
<1>2. call.lead = 0 /\ call'.lead = 0 /\ token.done \subseteq call.at.done
    BY DEF Shape, CallShape
<1>3. D \in SUBSET Findings /\ G \subseteq D /\ D \subseteq call.at.opened
    BY <1>1
<1>4. /\ Reached(call.at, call.lead) \cap D = {}
      /\ Reached(call'.at, call'.lead) = Reached(call.at, call.lead) \cup D
    BY <1>1, <1>2, CdkAppAssumption DEF Reached
<1>5. \A f \in call.at.opened \ Reached(call.at, call.lead) :
            f \in call.at.pending.ids \/ status[f] \notin {"fix-proposed", "superseded"}
    BY DEF CountsOK, CallCounts, Tally
<1>6. \A f \in D : status'[f] \notin {"fix-proposed", "superseded"}
    BY <1>1, <1>4, <1>5 DEF Open
<1>7. With(D, status', "fix-proposed") = {} /\ With(D, status', "superseded") = {}
    BY <1>6 DEF With
<1>8. Cardinality({}) = 0
    BY FS_EmptySet
<1>9. faults = 0 => D = G
    BY <1>3
<1>10. \A f \in G : PathOf[f] \notin token.done
    BY <1>2
<1>11. call'.at.pending.ids = {} /\ call.at.pending.ids \subseteq D
    BY <1>3 DEF NoPending
<1> HIDE DEF D
<1>12. /\ call'.at.counts.proposed =
                call.at.counts.proposed + Cardinality(With(D, status', "fix-proposed"))
       /\ call'.at.counts.superseded =
                call.at.counts.superseded + Cardinality(With(D, status', "superseded"))
    <2>1. call.at.counts.proposed \in Nat /\ call.at.counts.superseded \in Nat
        BY <1>1 DEF Counts
    <2>2. /\ Cardinality(With(D, status', "fix-proposed")) = 0
          /\ Cardinality(With(D, status', "superseded")) = 0
        BY <1>7, <1>8
    <2> QED BY <2>1, <2>2
<1>13. \A f \in G : /\ PathOf[f] \notin token.done
                    /\ f \in token.pending.ids \/ status'[f] \notin {"fix-proposed", "superseded"}
    BY <1>3, <1>6, <1>10
<1>14. call.at.done \subseteq call'.at.done
    OBVIOUS
<1>15. call.at.pending.ids \subseteq call'.at.pending.ids \cup Reached(call'.at, call'.lead)
    BY <1>4, <1>11
<1>16. faults = 0 =>
              /\ call'.at.counts.human =
                    call.at.counts.human + Cardinality(With(D, status', "needs-human-only"))
              /\ Sum(call'.at.counts) = Sum(call.at.counts) + Cardinality(D)
    BY <1>9
<1> QED BY <1>3, <1>4, <1>11, <1>12, <1>13, <1>14, <1>15, <1>16, MovesCounts

\* The group that is judged, of what was open at first.
LEMMA JudgedCounts ==
    ASSUME Shape, TraceOK, CountsOK, call.pc \in {"judge", "rest"}
    PROVE  /\ call.at.pending.ids \subseteq call.at.opened
           /\ PathOf[Lead0] \notin call.at.done
           /\ faults = 0 => \A f \in call.at.opened :
                                PathOf[f] = PathOf[Lead0] => f \in call.at.pending.ids
<1>1. call.at.pending.ids \subseteq call.at.opened
    BY DEF CountsOK, CallCounts, Tally
<1>2. /\ call.at.pending = token.pending /\ call.at.done = token.done
      /\ token.answer = call.at.answer /\ call.at.pending.ids # {}
    BY DEF Shape, CallShape
<1>3. Lead0 \in call.at.pending.ids
    BY JudgedFacts
<1>4. PathOf[Lead0] \notin call.at.done
    BY <1>2, <1>3, JudgedFacts DEF TraceOK, AnswersOK
<1>5. faults = 0 => \A f \in call.at.opened : PathOf[f] = PathOf[Lead0] => f \in call.at.pending.ids
    BY <1>3 DEF CountsOK, CallCounts, Whole
<1> QED BY <1>1, <1>4, <1>5

\* The group that comes next, of what was open at first.
LEMMA NextCounts ==
    ASSUME Shape, DraftsOK, CountsOK, call.pc = "next", Left # {}
    PROVE  /\ Group \in SUBSET Findings /\ Group # {} /\ Group \subseteq call.at.opened
           /\ NextPath \in Groups /\ NextPath \notin call.at.done
           /\ \A f \in Group : PathOf[f] = NextPath /\ status[f] \in Open
           /\ faults = 0 => \A f \in call.at.opened : PathOf[f] = NextPath => f \in Group
<1>1. call.open \in SUBSET Findings
    BY DEF Shape, CdkTypeOK, Call
<1>2. /\ Group \in SUBSET Findings /\ Group # {} /\ Group \subseteq call.open
      /\ NextPath \in Groups /\ NextPath \notin call.at.done /\ \A f \in Group : PathOf[f] = NextPath
    BY <1>1, GroupFacts
<1>3. \A f \in Group : status[f] \in Open
    BY <1>2 DEF DraftsOK, OpenOK
<1>4. /\ call.open \subseteq call.at.opened
      /\ faults = 0 => \A f \in call.at.opened : PathOf[f] \notin call.at.done => f \in call.open
    BY DEF CountsOK, CallCounts
<1>5. faults = 0 => \A f \in call.at.opened : PathOf[f] = NextPath => f \in Group
    BY <1>2, <1>4 DEF Group, GroupOf
<1> QED BY <1>2, <1>3, <1>4, <1>5

\* One of a group is for people to look at, and the others wait.
LEMMA OneToLookAt ==
    ASSUME NEW G \in SUBSET Findings, G # {}, NEW st,
           \A f \in G : st[f] = IF f = Lowest(G) THEN "needs-human-only" ELSE "not-drafted"
    PROVE  Cardinality(With(G, st, "needs-human-only")) = 1
<1>1. Lowest(G) \in G
    BY LowestIn
<1>2. With(G, st, "needs-human-only") = {Lowest(G)}
    BY <1>1 DEF With
<1> QED BY <1>2, FS_Singleton

LEMMA SkipGroupCounts ==
    ASSUME Shape, Shape', DraftsOK, CountsOK, SkipGroup
    PROVE  CountsOK'
<1>1. /\ call.pc = "next" /\ Left # {}
      /\ status' = [f \in Findings |-> IF f \in Group THEN "not-drafted" ELSE status[f]]
      /\ call' = [call EXCEPT !.at.done = @ \cup {NextPath},
                              !.at.counts.undrafted = @ + Cardinality(Group)]
      /\ UNCHANGED <<token, stage, synth, faults>>
    BY DEF SkipGroup, InCall
<1>2. call \in Call /\ call.at \in Token /\ call.at.counts \in Counts
      /\ call.at.pending = NoPending
    BY <1>1 DEF Shape, CdkTypeOK, Call, Token, CallShape
<1>3. /\ Group \in SUBSET Findings /\ Group # {} /\ Group \subseteq call.at.opened
      /\ NextPath \notin call.at.done /\ \A f \in Group : PathOf[f] = NextPath
      /\ faults = 0 => \A f \in call.at.opened : PathOf[f] = NextPath => f \in Group
    BY <1>1, NextCounts
<1>4. /\ call'.pc = "next" /\ call'.open = call.open
      /\ call'.at.opened = call.at.opened /\ call'.at.complete = call.at.complete
      /\ call'.at.pending = NoPending /\ call'.at.done = call.at.done \cup {NextPath}
      /\ call'.at.counts = [call.at.counts EXCEPT !.undrafted = @ + Cardinality(Group)]
    BY <1>1, <1>2 DEF Call, Token
<1>5. /\ \A f \in Findings \ Group : status'[f] = status[f]
      /\ \A f \in Group : status'[f] = "not-drafted"
    BY <1>1, <1>3
<1>6. Cardinality(Group) \in Nat
    BY <1>3, CountsOf
<1>7. With(Group, status', "needs-human-only") = {} /\ Cardinality({}) = 0
    BY <1>5, FS_EmptySet DEF With
<1>8. /\ call'.at.counts.proposed = call.at.counts.proposed
      /\ call'.at.counts.superseded = call.at.counts.superseded
      /\ call'.at.counts.human = call.at.counts.human
      /\ Sum(call'.at.counts) = Sum(call.at.counts) + Cardinality(Group)
    BY <1>2, <1>4, <1>6 DEF Counts, Sum
<1>9. call'.at.counts.human =
            call.at.counts.human + Cardinality(With(Group, status', "needs-human-only"))
    BY <1>2, <1>7, <1>8 DEF Counts
<1>10. \A f \in Group : status'[f] \in Open \cup {"needs-human-only"}
    BY <1>5 DEF Open
<1>11. call.at.pending.ids \subseteq Group
    BY <1>2 DEF NoPending
<1> QED BY <1>1, <1>3, <1>4, <1>5, <1>8, <1>9, <1>10, <1>11, SettledCounts

LEMMA DraftFailsCounts ==
    ASSUME Shape, Shape', DraftsOK, CountsOK, DraftFails
    PROVE  CountsOK'
<1>1. PICK n \in {0, 1} :
        call' = [call EXCEPT !.worked = TRUE, !.at.done = @ \cup {NextPath},
                             !.at.drafts = @ + n,
                             !.at.counts.errors = @ + Cardinality(Group)]
    BY DEF DraftFails
<1>2. /\ call.pc = "next" /\ Left # {}
      /\ UNCHANGED <<status, token, stage, synth, faults>>
    BY DEF DraftFails, MayDraft, InCall
<1>3. call \in Call /\ call.at \in Token /\ call.at.counts \in Counts
      /\ call.at.pending = NoPending
    BY <1>2 DEF Shape, CdkTypeOK, Call, Token, CallShape
<1>4. /\ Group \in SUBSET Findings /\ Group # {} /\ Group \subseteq call.at.opened
      /\ NextPath \notin call.at.done /\ \A f \in Group : PathOf[f] = NextPath /\ status[f] \in Open
      /\ faults = 0 => \A f \in call.at.opened : PathOf[f] = NextPath => f \in Group
    BY <1>2, NextCounts
<1>5. /\ call'.pc = "next" /\ call'.open = call.open
      /\ call'.at.opened = call.at.opened /\ call'.at.complete = call.at.complete
      /\ call'.at.pending = NoPending /\ call'.at.done = call.at.done \cup {NextPath}
      /\ call'.at.counts = [call.at.counts EXCEPT !.errors = @ + Cardinality(Group)]
    BY <1>1, <1>2, <1>3 DEF Call, Token
<1>6. Cardinality(Group) \in Nat
    BY <1>4, CountsOf
<1>7. With(Group, status', "needs-human-only") = {} /\ Cardinality({}) = 0
    BY <1>2, <1>4, FS_EmptySet DEF With, Open
<1>8. /\ call'.at.counts.proposed = call.at.counts.proposed
      /\ call'.at.counts.superseded = call.at.counts.superseded
      /\ call'.at.counts.human = call.at.counts.human
      /\ Sum(call'.at.counts) = Sum(call.at.counts) + Cardinality(Group)
    BY <1>3, <1>5, <1>6 DEF Counts, Sum
<1>9. call'.at.counts.human =
            call.at.counts.human + Cardinality(With(Group, status', "needs-human-only"))
    <2>1. call.at.counts.human \in Nat
        BY <1>3 DEF Counts
    <2>2. Cardinality(With(Group, status', "needs-human-only")) = 0
        BY <1>7
    <2> QED BY <1>8, <2>1, <2>2
<1>10. /\ \A f \in Findings \ Group : status'[f] = status[f]
       /\ \A f \in Group : status'[f] \in Open \cup {"needs-human-only"}
    BY <1>2, <1>4
<1>11. call.at.pending.ids \subseteq Group
    BY <1>3 DEF NoPending
<1> QED BY <1>2, <1>4, <1>5, <1>8, <1>9, <1>10, <1>11, SettledCounts

\* A draft that silences the scanner, of the group that is judged or comes next.
LEMMA RefuseCounts ==
    ASSUME Shape, Shape', CountsOK, call.pc \in {"judge", "next"},
           NEW group \in SUBSET Findings, group # {}, group \subseteq call.at.opened,
           NEW p, \A f \in group : PathOf[f] = p, p \notin call.at.done,
           call.at.pending.ids \subseteq group,
           faults = 0 => \A f \in call.at.opened : PathOf[f] = p => f \in group,
           NEW draft, RefuseDraft(group, draft), UNCHANGED <<synth, faults>>
    PROVE  CountsOK'
<1> DEFINE lead == Lowest(group)
<1>1. /\ status' = [f \in Findings |-> IF f = lead THEN "needs-human-only"
                                        ELSE IF f \in group THEN "not-drafted" ELSE status[f]]
      /\ call' = [call EXCEPT !.pc = "next", !.worked = TRUE,
            !.at = [call.at EXCEPT !.done = @ \cup {PathOf[lead]}, !.pending = NoPending,
                             !.answer = "none", !.stacks = {}, !.drafts = @ + Spend(draft),
                             !.counts.human = @ + 1,
                             !.counts.undrafted = @ + Cardinality(group) - 1]]
      /\ UNCHANGED <<token, stage>>
    BY DEF RefuseDraft
<1>2. call \in Call /\ call.at \in Token /\ call.at.counts \in Counts
    BY DEF Shape, CdkTypeOK, Call, Token
<1>3. lead \in group /\ PathOf[lead] = p
    BY LowestIn
<1>4. \A f \in group : status'[f] = IF f = lead THEN "needs-human-only" ELSE "not-drafted"
    <2> HIDE DEF lead
    <2> QED BY <1>1
<1>5. Cardinality(With(group, status', "needs-human-only")) = 1
    BY <1>4, OneToLookAt
<1>6. Cardinality(group) \in Nat
    BY CountsOf
<1> HIDE DEF lead
<1>7. /\ call'.pc = "next" /\ call'.open = call.open
      /\ call'.at.opened = call.at.opened /\ call'.at.complete = call.at.complete
      /\ call'.at.pending = NoPending /\ call'.at.done = call.at.done \cup {p}
      /\ call'.at.counts = [call.at.counts EXCEPT !.human = @ + 1,
                                                  !.undrafted = @ + Cardinality(group) - 1]
    <2> DEFINE at == [call.at EXCEPT !.done = @ \cup {PathOf[lead]}, !.pending = NoPending,
                             !.answer = "none", !.stacks = {}, !.drafts = @ + Spend(draft),
                             !.counts.human = @ + 1,
                             !.counts.undrafted = @ + Cardinality(group) - 1]
    <2>1. /\ at.opened = call.at.opened /\ at.complete = call.at.complete
          /\ at.pending = NoPending /\ at.done = call.at.done \cup {p}
          /\ at.counts = [call.at.counts EXCEPT !.human = @ + 1,
                                                  !.undrafted = @ + Cardinality(group) - 1]
        BY <1>2, <1>3 DEF Token
    <2>2. call' = [call EXCEPT !.pc = "next", !.worked = TRUE, !.at = at]
        BY <1>1
    <2> HIDE DEF at
    <2> QED BY <1>2, <2>1, <2>2 DEF Call
<1>8. /\ call'.at.counts.proposed = call.at.counts.proposed
      /\ call'.at.counts.superseded = call.at.counts.superseded
      /\ call'.at.counts.human = call.at.counts.human + 1
      /\ Sum(call'.at.counts) = Sum(call.at.counts) + Cardinality(group)
    <2> DEFINE c == call.at.counts
               n == Cardinality(group)
    <2>1. c \in Counts /\ n \in Nat
        BY <1>2, <1>6
    <2>2. call'.at.counts = [c EXCEPT !.human = @ + 1, !.undrafted = @ + n - 1]
        BY <1>7
    <2> HIDE DEF c, n
    <2>3. /\ call'.at.counts.proposed = c.proposed /\ call'.at.counts.superseded = c.superseded
          /\ call'.at.counts.human = c.human + 1 /\ call'.at.counts.errors = c.errors
          /\ call'.at.counts.undrafted = c.undrafted + n - 1
        BY <2>1, <2>2 DEF Counts
    <2>4. Sum(call'.at.counts) = Sum(c) + n
        BY <2>1, <2>3 DEF Counts, Sum
    <2> QED BY <2>3, <2>4 DEF c, n
<1>9. call'.at.counts.human =
            call.at.counts.human + Cardinality(With(group, status', "needs-human-only"))
    BY <1>5, <1>8
<1>10. /\ \A f \in Findings \ group : status'[f] = status[f]
       /\ \A f \in group : status'[f] \in Open \cup {"needs-human-only"}
    BY <1>1, <1>3, <1>4 DEF Open
<1> QED BY <1>1, <1>7, <1>8, <1>9, <1>10, SettledCounts

LEMMA UnverifiedCounts ==
    ASSUME Shape, Shape', TraceOK, CountsOK, Unverified
    PROVE  CountsOK'
<1> DEFINE ids == call.at.pending.ids
           p == PathOf[Lead0]
           at == [call.at EXCEPT !.counts.human = @ + 1,
                                 !.counts.undrafted = @ + Cardinality(ids) - 1]
<1>1. /\ call.pc = "judge"
      /\ status' = [f \in Findings |-> IF f = Lead0 THEN "needs-human-only"
                                        ELSE IF f \in ids THEN "not-drafted" ELSE status[f]]
      /\ call' = Settled(at)
      /\ UNCHANGED <<token, stage, synth, faults>>
    BY DEF Unverified, InCall
<1>2. /\ ids \in SUBSET Findings /\ ids # {} /\ Lead0 \in ids /\ Lead0 = Lowest(ids)
      /\ \A f \in ids : PathOf[f] = p
    BY <1>1, JudgedFacts DEF Lead0
<1>3. call \in Call /\ call.at \in Token /\ call.at.counts \in Counts /\ Cardinality(ids) - 1 \in Nat /\ Cardinality(ids) \in Nat
    BY <1>2, CountsOf DEF Shape, CdkTypeOK, Call, Token
<1>4. /\ ids \subseteq call.at.opened /\ p \notin call.at.done
      /\ faults = 0 => \A f \in call.at.opened : PathOf[f] = p => f \in ids
    BY <1>1, JudgedCounts
<1>5. \A f \in ids : status'[f] = IF f = Lowest(ids) THEN "needs-human-only" ELSE "not-drafted"
    BY <1>1, <1>2
<1> HIDE DEF ids, p
<1>6. Cardinality(With(ids, status', "needs-human-only")) = 1
    BY <1>2, <1>5, OneToLookAt
<1>7. /\ at.opened = call.at.opened /\ at.complete = call.at.complete /\ at.done = call.at.done
      /\ at.counts = [call.at.counts EXCEPT !.human = @ + 1, !.undrafted = @ + Cardinality(ids) - 1]
    BY <1>3 DEF Token
<1>12. DOMAIN at = DOMAIN call.at
    OBVIOUS
<1> HIDE DEF at
<1>8. /\ call'.pc = "next" /\ call'.open = call.open
      /\ call'.at.opened = call.at.opened /\ call'.at.complete = call.at.complete
      /\ call'.at.pending = NoPending /\ call'.at.done = call.at.done \cup {p}
      /\ call'.at.counts = at.counts
    <2> DEFINE now == [at EXCEPT !.done = @ \cup {PathOf[Lead0]}, !.pending = NoPending,
                                 !.answer = "none", !.stacks = {}]
    <2>1. /\ now.opened = at.opened /\ now.complete = at.complete /\ now.counts = at.counts
          /\ now.pending = NoPending /\ now.done = at.done \cup {p}
        BY <1>3, <1>12 DEF Token, p
    <2>2. call' = [call EXCEPT !.pc = "next", !.worked = TRUE, !.lead = 0, !.at = now]
        BY <1>1 DEF Settled
    <2> HIDE DEF now
    <2> QED BY <1>3, <1>7, <2>1, <2>2 DEF Call
<1>9. /\ call'.at.counts.proposed = call.at.counts.proposed
      /\ call'.at.counts.superseded = call.at.counts.superseded
      /\ call'.at.counts.human = call.at.counts.human + 1
      /\ Sum(call'.at.counts) = Sum(call.at.counts) + Cardinality(ids)
    BY <1>3, <1>7, <1>8 DEF Counts, Sum
<1>10. call'.at.counts.human =
            call.at.counts.human + Cardinality(With(ids, status', "needs-human-only"))
    BY <1>6, <1>9
<1>11. /\ \A f \in Findings \ ids : status'[f] = status[f]
       /\ \A f \in ids : status'[f] \in Open \cup {"needs-human-only"}
    BY <1>1, <1>2, <1>5 DEF Open
<1>13. call.at.pending.ids \subseteq ids
    BY DEF ids
<1> QED BY <1>1, <1>2, <1>4, <1>8, <1>9, <1>10, <1>11, <1>13, SettledCounts

LEMMA RecordLeadCounts ==
    ASSUME Shape, Shape', TraceOK, CountsOK, RecordLead
    PROVE  CountsOK'
<1> DEFINE G == {Lead}
           fixed == IF Passed THEN "fix-proposed" ELSE "needs-human-only"
<1>1. /\ call.pc = "judge"
      /\ status' = [status EXCEPT ![Lead] = fixed]
      /\ call' = [call EXCEPT !.pc = "rest", !.lead = Lead,
                    !.at.counts.proposed = IF Passed THEN @ + 1 ELSE @,
                    !.at.counts.human = IF Passed THEN @ ELSE @ + 1]
      /\ UNCHANGED <<token, stage, synth, faults>>
    BY DEF RecordLead, InCall
<1>2. call \in Call /\ call.at \in Token /\ call.at.counts \in Counts
    BY DEF Shape, CdkTypeOK, Call, Token
<1>3. /\ Lead \in call.at.pending.ids /\ Lead \in Findings /\ PathOf[Lead] = PathOf[Lead0]
    BY <1>1, JudgedFacts
<1>4. /\ call.at.pending.ids \subseteq call.at.opened /\ PathOf[Lead0] \notin call.at.done
    BY <1>1, JudgedCounts
<1>5. /\ call.at.pending = token.pending /\ call.at.done = token.done /\ call.lead = 0
    BY <1>1 DEF Shape, CallShape
<1>6. /\ call'.pc = "rest" /\ call'.lead = Lead /\ call'.open = call.open
      /\ call'.at.opened = call.at.opened /\ call'.at.complete = call.at.complete
      /\ call'.at.pending = call.at.pending /\ call'.at.done = call.at.done
      /\ call'.at.counts = [call.at.counts EXCEPT !.proposed = IF Passed THEN @ + 1 ELSE @,
                                                  !.human = IF Passed THEN @ ELSE @ + 1]
    BY <1>1, <1>2 DEF Call, Token
<1>7. status'[Lead] = fixed /\ \A f \in Findings \ G : status'[f] = status[f]
    BY <1>1, <1>3 DEF Shape, CdkTypeOK
<1>8. /\ G \in SUBSET Findings /\ G \subseteq call.at.opened
      /\ Reached(call.at, call.lead) \cap G = {}
      /\ Reached(call'.at, call'.lead) = Reached(call.at, call.lead) \cup G
    BY <1>2, <1>3, <1>4, <1>5, <1>6, CdkAppAssumption DEF Reached, Token
<1>9. \A f \in G : PathOf[f] \notin token.done /\ f \in token.pending.ids
    BY <1>3, <1>4, <1>5
<1>10. Cardinality({}) = 0 /\ Cardinality(G) = 1
    BY FS_EmptySet, FS_Singleton
<1>11. \A s : With(G, status', s) = IF fixed = s THEN G ELSE {}
    BY <1>7 DEF With
<1> DEFINE c == call.at.counts
<1>12. /\ Cardinality(With(G, status', "fix-proposed")) = IF Passed THEN 1 ELSE 0
       /\ Cardinality(With(G, status', "needs-human-only")) = IF Passed THEN 0 ELSE 1
       /\ Cardinality(With(G, status', "superseded")) = 0
    <2> HIDE DEF G
    <2> QED BY <1>10, <1>11
<1>13. c \in Counts /\ call'.at.counts = [c EXCEPT !.proposed = IF Passed THEN @ + 1 ELSE @,
                                                   !.human = IF Passed THEN @ ELSE @ + 1]
    BY <1>2, <1>6
<1> HIDE DEF c
<1>14. /\ call'.at.counts.proposed = c.proposed + (IF Passed THEN 1 ELSE 0)
       /\ call'.at.counts.human = c.human + (IF Passed THEN 0 ELSE 1)
       /\ call'.at.counts.superseded = c.superseded + 0
       /\ Sum(call'.at.counts) = Sum(c) + 1
    <2>1. CASE Passed
        BY <1>13, <2>1 DEF Counts, Sum
    <2>2. CASE ~Passed
        BY <1>13, <2>2 DEF Counts, Sum
    <2> QED BY <2>1, <2>2
<1> HIDE DEF G, fixed
<1>15. /\ call'.at.counts.proposed =
                call.at.counts.proposed + Cardinality(With(G, status', "fix-proposed"))
       /\ call'.at.counts.superseded =
                call.at.counts.superseded + Cardinality(With(G, status', "superseded"))
       /\ call'.at.counts.human =
                call.at.counts.human + Cardinality(With(G, status', "needs-human-only"))
       /\ Sum(call'.at.counts) = Sum(call.at.counts) + Cardinality(G)
    BY <1>10, <1>12, <1>14 DEF c
<1>16. /\ call'.at.pending.ids \in {{}, call.at.pending.ids}
       /\ call.at.pending.ids \subseteq call'.at.pending.ids \cup Reached(call'.at, call'.lead)
    BY <1>6
<1>17. call.pc \in {"judge", "rest", "next"} /\ call'.pc \in {"rest", "next"} /\ call.at.done \subseteq call'.at.done
    BY <1>1, <1>6
<1> QED BY <1>1, <1>6, <1>7, <1>8, <1>9, <1>15, <1>16, <1>17, MovesCounts

LEMMA RecordRestCounts ==
    ASSUME Shape, Shape', TraceOK, DraftsOK, CountsOK, RecordRest
    PROVE  CountsOK'
<1> DEFINE ids == call.at.pending.ids
           p == PathOf[Lead0]
           others == ids \ {call.lead}
           gone == IF Verified THEN others \cap Cleared ELSE {}
           at == [call.at EXCEPT
                    !.counts.superseded = @ + Cardinality(gone),
                    !.counts.undrafted = @ + Cardinality(others \ gone),
                    !.chain = IF Passed THEN LinkedBy(@, call.lead) ELSE @]
           D == {f \in call.at.opened : PathOf[f] = p} \ {call.lead}
<1>1. /\ call.pc = "rest"
      /\ status' = [f \in Findings |-> IF f \in gone THEN "superseded"
                                        ELSE IF f \in others THEN "not-drafted" ELSE status[f]]
      /\ call' = Settled(at)
      /\ UNCHANGED <<token, stage, synth, faults>>
    BY DEF RecordRest, InCall
<1>2. /\ call \in Call /\ call.at \in Token /\ call.at.counts \in Counts
      /\ call.at.opened \in SUBSET Findings
    BY DEF Shape, CdkTypeOK, Call, Token
<1>3. /\ call.at.pending = token.pending /\ call.at.done = token.done /\ call.lead \in ids
    BY <1>1 DEF Shape, CallShape
<1>4. /\ ids \subseteq call.at.opened /\ p \notin call.at.done
      /\ faults = 0 => \A f \in call.at.opened : PathOf[f] = p => f \in ids
    BY <1>1, JudgedCounts
<1>5. ids \in SUBSET Findings /\ \A f \in ids : PathOf[f] = p
    BY <1>1, JudgedFacts
<1>6. /\ D \in SUBSET Findings /\ D \subseteq call.at.opened /\ others \subseteq D
      /\ faults = 0 => D = others
      /\ \A f \in ids : f \in others \/ f = call.lead
      /\ \A f \in D : PathOf[f] = p /\ f # call.lead /\ (f \in ids => f \in others)
    BY <1>2, <1>4, <1>5
<1>16. call.lead \in Findings /\ gone \subseteq others
    BY <1>3, <1>5
<1>7. /\ at.opened = call.at.opened /\ at.complete = call.at.complete /\ at.done = call.at.done
      /\ at.counts = [call.at.counts EXCEPT !.superseded = @ + Cardinality(gone),
                                            !.undrafted = @ + Cardinality(others \ gone)]
      /\ DOMAIN at = DOMAIN call.at
    <2> HIDE DEF gone, others
    <2> QED BY <1>2 DEF Token
<1> HIDE DEF at
<1>8. /\ call'.pc = "next" /\ call'.open = call.open /\ call'.lead = 0
      /\ call'.at.opened = call.at.opened /\ call'.at.complete = call.at.complete
      /\ call'.at.pending = NoPending /\ call'.at.done = call.at.done \cup {p}
      /\ call'.at.counts = at.counts
    <2> DEFINE now == [at EXCEPT !.done = @ \cup {PathOf[Lead0]}, !.pending = NoPending,
                                 !.answer = "none", !.stacks = {}]
    <2>1. /\ now.opened = at.opened /\ now.complete = at.complete /\ now.counts = at.counts
          /\ now.pending = NoPending /\ now.done = at.done \cup {p}
        BY <1>2, <1>7 DEF Token
    <2>2. call' = [call EXCEPT !.pc = "next", !.worked = TRUE, !.lead = 0, !.at = now]
        BY <1>1 DEF Settled
    <2> HIDE DEF now, p
    <2> QED BY <1>2, <1>7, <2>1, <2>2 DEF Call
<1>9. /\ Reached(call.at, call.lead) \cap D = {}
      /\ Reached(call'.at, call'.lead) = Reached(call.at, call.lead) \cup D
    <2>1. \A f \in call.at.opened : f # 0
        BY <1>2, CdkAppAssumption
    <2>2. call.lead \in call.at.opened /\ PathOf[call.lead] = p
        BY <1>3, <1>4, <1>5
    <2> HIDE DEF ids, p, others, gone
    <2> QED BY <1>4, <1>8, <2>1, <2>2 DEF Reached
<1> HIDE DEF D, gone, others
<1>10. /\ \A f \in Findings \ others : status'[f] = status[f]
       /\ \A f \in gone : status'[f] = "superseded"
       /\ \A f \in others \ gone : status'[f] = "not-drafted"
    BY <1>1, <1>5, <1>6, <1>16
<1>11. \A f \in D \ others : status'[f] \notin {"fix-proposed", "superseded"}
    <2>1. \A f \in call.at.opened \ Reached(call.at, call.lead) :
            f \in ids \/ status[f] \notin {"fix-proposed", "superseded"}
        BY <1>1 DEF CountsOK, CallCounts, Tally
    <2> QED BY <1>6, <1>9, <1>10, <2>1
<1>12. /\ With(D, status', "fix-proposed") = {} /\ With(D, status', "superseded") = gone
       /\ With(others, status', "needs-human-only") = {}
    BY <1>6, <1>10, <1>11, <1>16 DEF With
<1>13. /\ Cardinality({}) = 0 /\ Cardinality(gone) \in Nat /\ Cardinality(others \ gone) \in Nat
       /\ Cardinality(others) = Cardinality(gone) + Cardinality(others \ gone)
    <2>1. /\ gone \in SUBSET Findings /\ others \ gone \in SUBSET Findings
          /\ gone \cap (others \ gone) = {} /\ others = gone \cup (others \ gone)
        BY <1>6, <1>16
    <2> QED BY <2>1, FS_EmptySet, CountOfMore
<1> DEFINE c == call.at.counts
           n == Cardinality(gone)
           m == Cardinality(others \ gone)
<1>14. /\ call'.at.counts.proposed = c.proposed + 0 /\ call'.at.counts.human = c.human + 0
       /\ call'.at.counts.superseded = c.superseded + n
       /\ Sum(call'.at.counts) = Sum(c) + (n + m)
    <2>1. c \in Counts /\ n \in Nat /\ m \in Nat
        BY <1>2, <1>13
    <2>2. call'.at.counts = [c EXCEPT !.superseded = @ + n, !.undrafted = @ + m]
        BY <1>7, <1>8
    <2> HIDE DEF c, n, m
    <2> QED BY <2>1, <2>2 DEF Counts, Sum
<1>15. /\ call'.at.counts.proposed =
                call.at.counts.proposed + Cardinality(With(D, status', "fix-proposed"))
       /\ call'.at.counts.superseded =
                call.at.counts.superseded + Cardinality(With(D, status', "superseded"))
       /\ faults = 0 =>
            /\ call'.at.counts.human =
                call.at.counts.human + Cardinality(With(D, status', "needs-human-only"))
            /\ Sum(call'.at.counts) = Sum(call.at.counts) + Cardinality(D)
    <2>1. /\ Cardinality(With(D, status', "fix-proposed")) = 0
          /\ Cardinality(With(D, status', "superseded")) = n
          /\ faults = 0 => /\ Cardinality(With(D, status', "needs-human-only")) = 0
                           /\ Cardinality(D) = n + m
        BY <1>6, <1>12, <1>13
    <2> QED BY <1>14, <2>1
<1>17. /\ call'.at.pending.ids \in {{}, call.at.pending.ids}
       /\ call.at.pending.ids \subseteq call'.at.pending.ids \cup Reached(call'.at, call'.lead)
    <2>1. call'.at.pending.ids = {}
        BY <1>8 DEF NoPending
    <2>2. call.lead \in Reached(call.at, call.lead)
        BY <1>3, <1>4 DEF Reached
    <2> QED BY <1>6, <1>9, <2>1, <2>2
<1>18. \A f \in others : /\ PathOf[f] \notin token.done /\ f \in token.pending.ids
    BY <1>3, <1>4, <1>5 DEF others
<1>19. /\ call.pc \in {"judge", "rest", "next"} /\ call'.pc \in {"rest", "next"}
       /\ call.at.done \subseteq call'.at.done /\ others \in SUBSET Findings
    BY <1>1, <1>6, <1>8
<1> QED BY <1>1, <1>6, <1>8, <1>9, <1>10, <1>15, <1>17, <1>18, <1>19, MovesCounts

\* A draft is uploaded, and its group waits.
LEMMA UploadCounts ==
    ASSUME Shape, Shape', CountsOK, stage = "call", call.pc \in {"judge", "next"},
           NEW group \in SUBSET Findings, group \subseteq call.at.opened, NEW p,
           \A f \in group : PathOf[f] = p, call.at.pending.ids \subseteq group,
           faults = 0 => \A f \in call.at.opened : PathOf[f] = p => f \in group,
           NEW attempt, NEW draft, UploadDraft(group, attempt, draft), UNCHANGED <<synth, faults>>
    PROVE  CountsOK'
<1> DEFINE at == [call.at EXCEPT !.pending = [ids |-> group, attempt |-> attempt],
                                 !.drafts = @ + Spend(draft)]
           job == ResynthJob(Lowest(group), attempt)
<1>1. Return(at, job) /\ UNCHANGED status
    BY DEF UploadDraft
<1>2. job # NoJob
    <2>1. job.kind = "cdk-resynth" /\ NoJob.kind = "sleep"
        BY DEF ResynthJob, NoJob
    <2> QED BY <2>1
<1> HIDE DEF job
<1>3. call \in Call /\ call.at \in Token
    BY DEF Shape, CdkTypeOK, Call
<1>4. /\ at.opened = call.at.opened /\ at.done = call.at.done /\ at.counts = call.at.counts
      /\ at.first = call.at.first /\ at.complete = call.at.complete /\ at.pending.ids = group
      /\ DOMAIN at = DOMAIN call.at
    BY <1>3 DEF Token
<1> HIDE DEF at
<1>5. call' = NoCall /\ token' = [at EXCEPT !.answer = "none", !.stacks = {}] /\ stage' = "resynth"
    BY <1>1, <1>2 DEF Return
<1>6. /\ token'.opened = call.at.opened /\ token'.done = call.at.done
      /\ token'.counts = call.at.counts /\ token'.first = call.at.first
      /\ token'.complete = call.at.complete /\ token'.pending.ids = group
    BY <1>3, <1>4, <1>5 DEF Token
<1>7. synth.ok /\ ~call.at.first /\ call.lead = 0
    BY DEF Shape, CallShape
<1>8. ~call.at.complete /\ Tally(call.at, 0) /\ (faults = 0 => Whole(call.at, 0))
    BY <1>7 DEF CountsOK, CallCounts
<1>9. Reached(token', 0) = Reached(call.at, 0)
    BY <1>6 DEF Reached
<1>10. Tally(token, 0)'
    BY <1>1, <1>6, <1>8, <1>9 DEF Tally
<1>11. faults = 0 => Whole(token, 0)'
    BY <1>1, <1>6, <1>8, <1>9 DEF Whole
<1>12. ~token'.complete /\ ~token'.first /\ call'.pc = "none"
    BY <1>5, <1>6, <1>7, <1>8 DEF NoCall
<1>13. TokenCounts'
    BY <1>7, <1>10, <1>11, <1>12 DEF TokenCounts
<1>14. CallCounts' /\ CountsAreTrue'
    BY <1>12 DEF CallCounts, CountsAreTrue
<1> QED BY <1>13, <1>14 DEF CountsOK

LEMMA RedraftCounts ==
    ASSUME Shape, Shape', TraceOK, CountsOK, Redraft
    PROVE  CountsOK'
<1> DEFINE ids == call.at.pending.ids
           attempt == call.at.pending.attempt + 1
<1>1. call.pc = "judge" /\ stage = "call" /\ Drafted(ids, attempt) /\ UNCHANGED <<synth, faults>>
    BY DEF Redraft, InCall, Drafted
<1>2. /\ ids \in SUBSET Findings /\ ids # {} /\ \A f \in ids : PathOf[f] = PathOf[Lead0]
    BY <1>1, JudgedFacts
<1>3. /\ ids \subseteq call.at.opened /\ PathOf[Lead0] \notin call.at.done
      /\ faults = 0 => \A f \in call.at.opened : PathOf[f] = PathOf[Lead0] => f \in ids
    BY <1>1, JudgedCounts
<1>4. call.at.pending.ids \subseteq ids
    OBVIOUS
<1> HIDE DEF ids, attempt
<1>5. PICK draft \in Answers : UploadDraft(ids, attempt, draft) \/ RefuseDraft(ids, draft)
    BY <1>1 DEF Drafted
<1> QED BY <1>1, <1>2, <1>3, <1>4, <1>5, UploadCounts, RefuseCounts

LEMMA DraftGroupCounts ==
    ASSUME Shape, Shape', DraftsOK, CountsOK, DraftGroup
    PROVE  CountsOK'
<1>1. /\ call.pc = "next" /\ stage = "call" /\ Left # {} /\ Drafted(Group, 1)
      /\ UNCHANGED <<synth, faults>>
    BY DEF DraftGroup, MayDraft, InCall, Drafted
<1>2. /\ Group \in SUBSET Findings /\ Group # {} /\ Group \subseteq call.at.opened
      /\ NextPath \notin call.at.done /\ \A f \in Group : PathOf[f] = NextPath
      /\ faults = 0 => \A f \in call.at.opened : PathOf[f] = NextPath => f \in Group
    BY <1>1, NextCounts
<1>3. call.at.pending.ids \subseteq Group
    BY <1>1 DEF Shape, CallShape, NoPending
<1>4. PICK draft \in Answers : UploadDraft(Group, 1, draft) \/ RefuseDraft(Group, draft)
    BY <1>1 DEF Drafted
<1> QED BY <1>1, <1>2, <1>3, <1>4, UploadCounts, RefuseCounts

LEMMA YieldCallCounts ==
    ASSUME Shape, CountsOK, YieldCall
    PROVE  CountsOK'
<1>1. /\ call.pc = "next" /\ call' = NoCall /\ token' = call.at
      /\ UNCHANGED <<status, stage, synth, faults>>
    BY DEF YieldCall, InCall, Return
<1>2. synth.ok /\ ~call.at.first /\ call.lead = 0
    BY <1>1 DEF Shape, CallShape
<1>3. ~call.at.complete /\ Tally(call.at, 0) /\ (faults = 0 => Whole(call.at, 0))
    BY <1>1, <1>2 DEF CountsOK, CallCounts
<1>4. Tally(token, 0)' /\ (faults = 0 => Whole(token, 0)')
    BY <1>1, <1>3 DEF Tally, Whole
<1>5. call'.pc = "none"
    BY <1>1 DEF NoCall
<1> QED BY <1>1, <1>2, <1>3, <1>4, <1>5 DEF CountsOK, TokenCounts, CallCounts, CountsAreTrue

\* With nothing left, everything that was open has been reached.
LEMMA EndCallCounts ==
    ASSUME Shape, CountsOK, EndCall
    PROVE  CountsOK'
<1> DEFINE at == [call.at EXCEPT !.complete = TRUE]
           all == call.at.opened
           C == Reached(call.at, 0)
<1>1. /\ stage = "call" /\ call.pc = "next" /\ Left = {} /\ call' = NoCall /\ token' = at
      /\ UNCHANGED <<status, stage, synth, faults>>
    BY DEF EndCall, InCall, Return
<1>2. /\ call \in Call /\ call.at \in Token /\ all \in SUBSET Findings
      /\ call.open \in SUBSET Findings
    BY DEF Shape, CdkTypeOK, Call, Token
<1>3. /\ at.opened = all /\ at.counts = call.at.counts /\ at.complete /\ at.first = call.at.first
    BY <1>2 DEF Token
<1> HIDE DEF at
<1>4. synth.ok /\ ~call.at.first /\ call.lead = 0 /\ call.at.pending.ids = {}
    BY <1>1 DEF Shape, CallShape, NoPending
<1>5. /\ Tally(call.at, 0)
      /\ faults = 0 => /\ Whole(call.at, 0)
                       /\ \A f \in all : PathOf[f] \notin call.at.done => f \in call.open
    BY <1>1, <1>4 DEF CountsOK, CallCounts
<1>6. /\ C \subseteq all
      /\ \A f \in all \ C : status[f] \notin {"fix-proposed", "superseded"}
    BY <1>4, <1>5 DEF Tally, Reached
<1>7. /\ With(C, status, "fix-proposed") = With(all, status, "fix-proposed")
      /\ With(C, status, "superseded") = With(all, status, "superseded")
    <2> HIDE DEF C, all
    <2> QED BY <1>6 DEF With
<1>8. ASSUME faults = 0 PROVE C = all
    <2>1. ASSUME NEW f \in all, PathOf[f] \notin call.at.done PROVE FALSE
        <3>1. f \in call.open /\ f \in Findings
            BY <1>2, <1>5, <1>8, <2>1
        <3>2. PathOf[f] \in Groups
            BY <3>1, CdkAppAssumption DEF Groups
        <3>3. f \in GroupOf(PathOf[f], call.open)
            BY <3>1 DEF GroupOf
        <3> QED BY <1>1, <2>1, <3>2, <3>3 DEF Left
    <2> QED BY <2>1 DEF Reached
<1>9. /\ call.at.counts.proposed = Cardinality(With(all, status, "fix-proposed"))
      /\ call.at.counts.superseded = Cardinality(With(all, status, "superseded"))
      /\ faults = 0 =>
            /\ call.at.counts.human = Cardinality(With(all, status, "needs-human-only"))
            /\ Sum(call.at.counts) = Cardinality(all)
    <2>1. /\ call.at.counts.proposed = Cardinality(With(C, status, "fix-proposed"))
          /\ call.at.counts.superseded = Cardinality(With(C, status, "superseded"))
          /\ faults = 0 =>
                /\ call.at.counts.human = Cardinality(With(C, status, "needs-human-only"))
                /\ Sum(call.at.counts) = Cardinality(C)
        BY <1>5 DEF Tally, Whole
    <2> HIDE DEF C, all
    <2> QED BY <1>7, <1>8, <2>1
<1>10. CountsAreTrue'
    <2> HIDE DEF C
    <2> QED BY <1>1, <1>3, <1>9 DEF CountsAreTrue, With, Sum
<1>11. call'.pc = "none" /\ token'.complete /\ ~token'.first
    BY <1>1, <1>3, <1>4 DEF NoCall
<1> QED BY <1>1, <1>10, <1>11 DEF CountsOK, TokenCounts, CallCounts

LEMMA LookCounts ==
    ASSUME Shape, Shape', DraftsOK, CountsOK, Look
    PROVE  CountsOK'
<1> DEFINE reopened == IF call.at.first THEN Reopened ELSE {}
           now      == [f \in Findings |-> IF f \in reopened THEN "mapped" ELSE status[f]]
           open     == {f \in Findings : now[f] \in Open}
           at       == [call.at EXCEPT !.first = FALSE, !.chain = RootChain(@),
                            !.opened = IF call.at.first THEN open ELSE @]
           unsynthesized == [at EXCEPT !.complete = TRUE, !.counts.undrafted = Cardinality(open)]
<1>1. /\ stage = "call" /\ call.pc = "look"
      /\ status' = IF synth.ok THEN now
                   ELSE [f \in Findings |-> IF f \in open THEN "not-drafted" ELSE now[f]]
      /\ UNCHANGED <<synth, faults>>
    BY DEF Look, InCall
<1>2. \/ ~synth.ok /\ Return(unsynthesized, NoJob)
      \/ /\ synth.ok
         /\ call' = [call EXCEPT !.at = at, !.open = open,
                !.pc = IF at.answer # "none" /\ at.pending # NoPending THEN "judge" ELSE "next"]
         /\ UNCHANGED <<stage, token, sandbox, resynth>>
    BY DEF Look
<1>3. /\ call.at = token /\ token \in Token /\ call \in Call /\ call.lead = 0
      /\ token.opened \in SUBSET Findings
    BY <1>1 DEF Shape, CdkTypeOK, CallShape, Token
<1>4. token.first => token.pending.ids = {}
    BY DEF DraftsOK, ChainsOK, Shape, TokenShape, Continues, NoChain
<1>5. ~token.complete /\ (token.first => token.opened = {} /\ token.done = {} /\ token.counts = NoCounts)
    BY <1>1 DEF CountsOK, CallCounts, TokenCounts
<1>6. open \in SUBSET Findings /\ \A f \in open : now[f] \in Open
    OBVIOUS
<1>7. ~token.first => \A f \in Findings : now[f] = status[f]
    BY <1>3
<1>8. \A f \in Findings : f \in open <=> now[f] \in Open
    OBVIOUS
<1> HIDE DEF reopened, now, open
<1>9. /\ at.opened = (IF token.first THEN open ELSE token.opened) /\ at.done = token.done
      /\ at.counts = token.counts /\ ~at.first /\ at.complete = token.complete
      /\ at.pending = token.pending /\ DOMAIN at = DOMAIN token
    BY <1>3 DEF Token
<1> HIDE DEF at
<1>10. CASE ~synth.ok
    <2> DEFINE n == Cardinality(open)
    <2>1. token.first
        BY <1>1, <1>5, <1>10 DEF CountsOK, TokenCounts
    <2>2. call' = NoCall /\ token' = unsynthesized /\ stage' = stage
        BY <1>2, <1>10 DEF Return
    <2>3. n \in Nat
        BY <1>6, CountsOf
    <2>4. /\ token'.complete /\ ~token'.first /\ token'.opened = open
          /\ token'.counts = [NoCounts EXCEPT !.undrafted = n]
        BY <1>3, <1>5, <1>9, <2>1, <2>2 DEF Token
    <2> HIDE DEF unsynthesized, n
    <2>5. /\ token'.counts.proposed = 0 /\ token'.counts.human = 0 /\ token'.counts.superseded = 0
          /\ token'.counts.undrafted = n /\ token'.counts.errors = 0
        BY <2>4 DEF NoCounts
    <2>6. \A f \in open : status'[f] = "not-drafted"
        BY <1>1, <1>6, <1>10
    <2>7. \A s \in {"fix-proposed", "superseded", "needs-human-only"} :
                {f \in open : status'[f] = s} = {}
        BY <2>6
    <2>8. \A s \in {"fix-proposed", "superseded", "needs-human-only"} :
                Cardinality({f \in open : status'[f] = s}) = 0
        BY <2>7, FS_EmptySet
    <2>9. CountsAreTrue'
        <3>1. token'.opened = open /\ n = Cardinality(open)
            BY <2>4 DEF n
        <3>2. 0 + 0 + 0 + n + 0 = n
            BY <2>3
        <3> QED BY <2>5, <2>8, <3>1, <3>2 DEF CountsAreTrue
    <2>10. call'.pc = "none"
        BY <2>2 DEF NoCall
    <2> QED BY <1>1, <2>2, <2>4, <2>9, <2>10 DEF CountsOK, TokenCounts, CallCounts
<1>11. CASE synth.ok
    <2>1. /\ status' = now /\ UNCHANGED <<stage, token>>
          /\ call'.pc \in {"judge", "next"} /\ call'.at = at /\ call'.open = open /\ call'.lead = 0
        BY <1>1, <1>2, <1>3, <1>11 DEF Call
    <2>2. CountsAreTrue'
        BY <1>5, <2>1 DEF CountsAreTrue
    <2>3. CASE token.first
        <3>1. /\ at.opened = open /\ at.pending.ids = {} /\ at.counts = NoCounts
            BY <1>4, <1>5, <1>9, <2>3
        <3>2. Reached(at, 0) = {}
            BY <1>5, <1>6, <1>9, <2>3, CdkAppAssumption DEF Reached
        <3>3. \A s : With({}, now, s) = {}
            BY DEF With
        <3>4. /\ NoCounts.proposed = 0 /\ NoCounts.superseded = 0 /\ NoCounts.human = 0
              /\ Sum(NoCounts) = 0 /\ Cardinality({}) = 0
            BY FS_EmptySet DEF NoCounts, Sum
        <3>5. \A f \in open : now[f] \notin {"fix-proposed", "superseded"}
            BY <1>6 DEF Open
        <3>6. Tally(call.at, call.lead)'
            BY <1>8, <2>1, <3>1, <3>2, <3>3, <3>4, <3>5 DEF Tally
        <3>7. Whole(call.at, call.lead)'
            BY <1>6, <2>1, <3>1, <3>2, <3>3, <3>4 DEF Whole
        <3>8. CallCounts'
            BY <1>5, <1>9, <2>1, <2>3, <3>1, <3>6, <3>7 DEF CallCounts
        <3>9. TokenCounts'
            BY <1>1, <1>5, <1>11, <2>1, <2>3 DEF TokenCounts
        <3> QED BY <2>2, <3>8, <3>9 DEF CountsOK
    <2>4. CASE ~token.first
        <3>1. /\ at.opened = token.opened /\ at.done = token.done /\ at.counts = token.counts
              /\ at.pending = token.pending
            BY <1>9, <2>4
        <3>2. Reached(at, 0) = Reached(token, 0)
            BY <3>1 DEF Reached
        <3>3. \A f \in Findings : status'[f] = status[f]
            BY <1>7, <2>1, <2>4
        <3>4. Reached(token, 0) \in SUBSET Findings
            BY <1>3 DEF Reached
        <3>5. \A s : With(Reached(token, 0), status', s) = With(Reached(token, 0), status, s)
            BY <3>3, <3>4 DEF With
        <3>6. /\ Tally(token, 0) /\ faults = 0 => Whole(token, 0)
            BY <1>1, <1>5, <2>4 DEF CountsOK, TokenCounts
        <3>7. Tally(token, 0)
            BY <1>5, <2>4 DEF CountsOK, TokenCounts
        <3>8. Tally(call.at, call.lead)' /\ Tally(token, 0)'
            BY <1>3, <2>1, <3>1, <3>2, <3>3, <3>5, <3>7 DEF Tally
        <3>9. ASSUME faults = 0 PROVE Whole(call.at, call.lead)'
            BY <1>3, <2>1, <3>1, <3>2, <3>3, <3>5, <3>6, <3>7, <3>9 DEF Whole
        <3>10. open \subseteq token.opened
            BY <1>6, <1>7, <2>4, <3>7 DEF Tally
        <3>11. ASSUME faults = 0, NEW f \in token.opened, PathOf[f] \notin token.done PROVE f \in open
            <4>1. f \in Findings /\ f # 0
                BY <1>3, CdkAppAssumption
            <4>2. f \notin Reached(token, 0)
                BY <3>11, <4>1 DEF Reached
            <4>3. status[f] \in Open
                BY <3>6, <3>7, <3>11, <4>2 DEF Whole
            <4> QED BY <1>7, <1>8, <2>4, <4>1, <4>3
        <3>12. CallCounts'
            BY <1>1, <1>5, <1>9, <2>1, <3>1, <3>8, <3>9, <3>10, <3>11 DEF CallCounts
        <3>13. TokenCounts'
            BY <1>1, <1>5, <1>11, <2>1, <2>4, <3>8 DEF TokenCounts
        <3> QED BY <2>2, <3>12, <3>13 DEF CountsOK
    <2> QED BY <2>3, <2>4
<1> QED BY <1>10, <1>11

\* A step that goes on to a call, or away from one, or ends one that failed.
LEMMA OtherCounts ==
    ASSUME Shape, Shape', CountsOK,
           \/ BeginExecution \/ SynthAnswered \/ CallAgain \/ FileDone
           \/ ResynthAnswered \/ ResynthOverruns \/ CallFails
    PROVE  CountsOK'
<1>1. token \in Token /\ call \in Call
    BY DEF Shape, CdkTypeOK
<1>2. CASE BeginExecution
    <2>1. /\ token' = NewToken /\ call' = call /\ stage' = "synth" /\ call = NoCall
        BY <1>2 DEF BeginExecution, Shape, StageShape
    <2>2. /\ NewToken.first /\ ~NewToken.complete /\ NewToken.opened = {} /\ NewToken.done = {}
          /\ NewToken.counts = NoCounts
        BY DEF NewToken
    <2>3. call'.pc = "none"
        BY <2>1 DEF NoCall
    <2> QED BY <2>1, <2>2, <2>3 DEF CountsOK, TokenCounts, CallCounts, CountsAreTrue
<1>3. CASE SynthAnswered
    <2>1. /\ token = NewToken /\ token' = token /\ UNCHANGED status
          /\ call' = [NoCall EXCEPT !.pc = "look", !.at = token]
        BY <1>3 DEF SynthAnswered, Shape, StageShape
    <2>2. /\ NewToken.first /\ ~NewToken.complete /\ NewToken.opened = {} /\ NewToken.done = {}
          /\ NewToken.counts = NoCounts
        BY DEF NewToken
    <2>3. call'.pc = "look"
        BY <2>1 DEF NoCall
    <2> QED BY <2>1, <2>2, <2>3 DEF CountsOK, TokenCounts, CallCounts, CountsAreTrue
<1>4. CASE CallAgain
    <2>1. /\ stage = "call" /\ call.pc = "none" /\ ~token.complete
          /\ call' = [NoCall EXCEPT !.pc = "look", !.at = token]
          /\ UNCHANGED <<status, token, stage, synth, faults>>
        BY <1>4 DEF CallAgain
    <2>2. call'.pc = "look"
        BY <2>1 DEF NoCall
    <2>3. Tally(token, 0)' <=> Tally(token, 0)
        BY <2>1 DEF Tally
    <2>4. Whole(token, 0)' <=> Whole(token, 0)
        BY <2>1 DEF Whole
    <2> QED BY <2>1, <2>2, <2>3, <2>4 DEF CountsOK, TokenCounts, CallCounts, CountsAreTrue
<1>5. CASE FileDone
    <2>1. /\ token.complete /\ stage' = "idle" /\ call.pc = "none"
          /\ UNCHANGED <<status, token, call, faults>>
        BY <1>5 DEF FileDone
    <2> QED BY <2>1 DEF CountsOK, TokenCounts, CallCounts, CountsAreTrue
<1>6. CASE ResynthAnswered \/ ResynthOverruns
    <2>1. /\ stage = "resynth" /\ stage' = "call" /\ UNCHANGED <<status, synth, faults>>
          /\ call' = [NoCall EXCEPT !.pc = "look", !.at = token']
        BY <1>6 DEF ResynthAnswered, ResynthOverruns
    <2>2. /\ token'.first = token.first /\ token'.opened = token.opened /\ token'.done = token.done
          /\ token'.counts = token.counts /\ token'.complete = token.complete
          /\ token'.pending = token.pending
        BY <1>1, <1>6 DEF ResynthAnswered, ResynthOverruns, Token
    <2>3. call.pc = "none" /\ call'.pc = "look"
        BY <2>1 DEF NoCall, Shape, StageShape
    <2>4. Reached(token', 0) = Reached(token, 0)
        BY <2>2 DEF Reached
    <2>5. Tally(token, 0)' <=> Tally(token, 0)
        BY <2>1, <2>2, <2>4 DEF Tally
    <2>6. Whole(token, 0)' <=> Whole(token, 0)
        BY <2>1, <2>2, <2>4 DEF Whole
    <2>7. ~token.complete
        BY <2>1 DEF CountsOK, TokenCounts
    <2> QED BY <2>1, <2>2, <2>3, <2>5, <2>6, <2>7
            DEF CountsOK, TokenCounts, CallCounts, CountsAreTrue
<1>7. CASE CallFails
    <2>1. /\ stage = "call" /\ call.pc # "none" /\ UNCHANGED <<status, token>>
          /\ \/ faults' = faults + 1 /\ UNCHANGED <<stage, synth>>
                /\ call' = [NoCall EXCEPT !.pc = "look", !.at = token]
             \/ stage' = "idle" /\ call' = NoCall
        BY <1>7 DEF CallFails
    <2>2. ~token.complete /\ faults \in Nat
        BY <2>1 DEF CountsOK, CallCounts, Shape, CdkTypeOK
    <2>3. Tally(token, 0)' <=> Tally(token, 0)
        BY <2>1 DEF Tally
    <2>4. call'.pc \in {"none", "look"}
        <3>1. NoCall.pc = "none" /\ [NoCall EXCEPT !.pc = "look", !.at = token].pc = "look"
            BY DEF NoCall
        <3> QED BY <2>1, <3>1
    <2>5. faults' # 0 \/ stage' = "idle"
        BY <2>1, <2>2
    <2> QED BY <2>1, <2>2, <2>3, <2>4, <2>5 DEF CountsOK, TokenCounts, CallCounts, CountsAreTrue
<1> QED BY <1>2, <1>3, <1>4, <1>5, <1>6, <1>7

LEMMA NextCountsOK ==
    ASSUME Shape, Shape', TraceOK, DraftsOK, CountsOK, [CdkNext]_vars
    PROVE  CountsOK'
<1>1. CASE UNCHANGED <<status, token, call, stage, synth, faults>>
    BY <1>1 DEF CountsOK, CountsAreTrue, TokenCounts, CallCounts, Tally, Whole
<1>2. CASE CallStep
    BY <1>2, LookCounts, UnverifiedCounts, RedraftCounts, RecordLeadCounts, RecordRestCounts,
       SkipGroupCounts, DraftGroupCounts, DraftFailsCounts, YieldCallCounts, EndCallCounts
       DEF CallStep
<1>3. CASE \/ BeginExecution \/ SynthAnswered \/ CallAgain \/ FileDone
           \/ ResynthAnswered \/ ResynthOverruns \/ CallFails
    BY <1>3, OtherCounts
<1>4. CASE \/ \E kind \in Kinds \ SynthKinds, phases \in SUBSET Phases : OtherRun(kind, phases)
           \/ \E h \in 1..head : OtherFetch(h)
           \/ \E r \in SandboxRuns : Forget(r)
           \/ SandboxNext /\ UNCHANGED cdkVars
           \/ UNCHANGED vars
    BY <1>1, <1>4 DEF OtherRun, OtherFetch, Forget, cdkVars, vars
<1> QED BY <1>2, <1>3, <1>4 DEF CdkNext, ExecutionStep

\* Whatever was retried or given up on, and whatever other executions fetch: what
\* an execution says it proposed and superseded is what it did, and when no call
\* was retried, its counts are of every finding that was open, once each.
THEOREM CountsAreWhatBecame == CdkSpec => []CountsAreTrue
<1>1. CdkInit => CountsOK
    <2> SUFFICES ASSUME CdkInit PROVE CountsOK
        OBVIOUS
    <2>1. token = NewToken /\ call = NoCall /\ stage = "idle"
        BY DEF CdkInit
    <2>2. /\ NewToken.first /\ ~NewToken.complete /\ NewToken.opened = {} /\ NewToken.done = {}
          /\ NewToken.counts = NoCounts /\ NoCall.pc = "none"
        BY DEF NewToken, NoCall
    <2> QED BY <2>1, <2>2 DEF CountsOK, TokenCounts, CallCounts, CountsAreTrue
<1>2. Shape /\ Shape' /\ TraceOK /\ DraftsOK /\ CountsOK /\ [CdkNext]_vars => CountsOK'
    BY NextCountsOK
<1>3. CountsOK => CountsAreTrue
    BY DEF CountsOK
<1> QED BY <1>1, <1>2, <1>3, ShapeHolds, TracesHold, DraftsHold, PTL DEF CdkSpec

=============================================================================
