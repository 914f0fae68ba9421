------------------------------- MODULE Sandbox -------------------------------
(***************************************************************************)
(* sandbox-run: the state machine of terraform/sandbox, the dispatch       *)
(* Lambda that prepares a run, stops what is left of it and reads what it  *)
(* wrote (lambda/sandbox-dispatch), and the two tasks between them.        *)
(*                                                                         *)
(*   Prepare -> [Fetch] -> [Execute] -> Reap -> Collect                    *)
(*                                                                         *)
(* A task and the state that waits for it end separately: the state may    *)
(* time out while the task still runs, and a task that was told to stop    *)
(* still has time to upload.  What ran is the pull request's code, so what *)
(* it uploads is anything; nothing but Collect decides what becomes of it. *)
(*                                                                         *)
(* A retried Prepare mints a new id, and copies its inputs again; what it  *)
(* left under the first id nobody reads.  Retried, Reap and Collect do     *)
(* what they did.                                                          *)
(***************************************************************************)
EXTENDS CdkApp

CONSTANTS
    SandboxRuns,      \* run ids: the runs there are at once
    SandboxFaults     \* of "off", "hostile", "timeout", "collect"

ASSUME SandboxRunsAssumption == SandboxRuns \subseteq Nat \ {0}

VARIABLE sandbox      \* the runs

SynthKinds == {"cdk-synth", "cdk-resynth"}
Kinds      == SynthKinds \cup {"leak-test", "sleep", "pulumi-mock", "helm-template"}
Phases     == {"fetch", "execute"}

\* result.json as _read_result and _shape classify it: "bad" stands for missing,
\* oversized and malformed, "failed" is a well-formed one that says the phase
\* failed, or that a probe was not as it should be.
Results  == {"bad", "failed", "ok"}
\* output.tgz: "bad" stands for missing, oversized and hostile.
Archives == {"bad", "deps", "needs-context", "unsupported", "built"}
Tasks    == {"none", "running", "stopping", "stopped"}

\* "error" stands for "rejected" too, "dead" for a run that has no answer.
Replies  == {"none", "ok", "error", "failed", "needs-context", "unsupported",
             "unavailable", "dead"}

\* What a run is asked: project is the head its tarball is of; patch the
\* finding whose stored file replaces the source, deps the run that fetched,
\* 0 for none.
Job == [kind : Kinds, phases : SUBSET Phases, project : Nat, patch : Findings \cup {0},
        deps : SandboxRuns \cup {0}, prefix : Prefixes]
NoJob == [kind |-> "sleep", phases |-> {}, project |-> 0, patch |-> 0, deps |-> 0,
          prefix |-> ScanPrefix]

NoRun == [pc |-> "none", job |-> NoJob, source |-> NoContent, off |-> FALSE,
          task |-> [p \in Phases |-> "none"], errors |-> {},
          result |-> [p \in Phases |-> "bad"], archive |-> [p \in Phases |-> "bad"],
          status |-> "none", stacks |-> {}]

\* source: the file as the tasks build it, status and stacks the reply.
SandboxRun == [pc : {"none", "prepare", "fetch", "execute", "reap", "collect", "done"},
               job : Job, source : Content \cup {NoContent}, off : BOOLEAN,
               task : [Phases -> Tasks], errors : SUBSET Phases,
               result : [Phases -> Results], archive : [Phases -> Archives],
               status : Replies, stacks : SUBSET Stacks]

SandboxTypeOK == sandbox \in [SandboxRuns -> SandboxRun]

SandboxInit == sandbox = [r \in SandboxRuns |-> NoRun]

Free    == {r \in SandboxRuns : sandbox[r].pc = "none"}
NextRun == CHOOSE r \in Free : \A q \in Free : r <= q

SetRun(r, run) == sandbox' = [sandbox EXCEPT ![r] = run]

\* startExecution: a run of `job` begins.  An id stands for one run until the
\* run has answered and nothing refers to it, and for another one then.
StartSandbox(job) ==
    /\ Free # {}
    /\ SetRun(NextRun, [NoRun EXCEPT !.pc = "prepare", !.job = job])

----------------------------------------------------------------------------
(* Prepare *)

\* _validate_request: each kind runs its own phases, and a re-synth names the
\* fix whose file it is for and the attempt.
ValidJob(job) ==
    /\ job.phases # {}
    /\ job.kind \in {"cdk-synth", "pulumi-mock"} => job.phases = Phases
    /\ job.kind \in {"cdk-resynth", "helm-template"} => job.phases = {"execute"}
    /\ job.kind = "cdk-resynth" => /\ job.deps # 0 /\ job.patch # 0
                                   /\ job.prefix \in {job.patch} \X Attempts

FirstState(phases) ==
    IF "fetch" \in phases THEN "fetch" ELSE IF "execute" \in phases THEN "execute" ELSE "reap"

\* The patch is copied now, whatever is stored under the fix's key later.
SourceOf(job) == IF job.patch = 0 THEN [own |-> job.project, drafts |-> {}]
                 ELSE stored[job.patch]

Prepare(r) ==
    LET job == sandbox[r].job
    IN /\ sandbox[r].pc = "prepare"
       /\ SetRun(r, IF ~ValidJob(job) \/ SourceOf(job) = NoContent
                    THEN [sandbox[r] EXCEPT !.pc = "done", !.status = "dead"]
                    ELSE [sandbox[r] EXCEPT !.pc = FirstState(job.phases),
                                            !.source = SourceOf(job)])
       /\ UNCHANGED artifactVars

\* The sandbox is switched off: no phase runs, and the rest of the states do.
Unavailable(r) ==
    /\ "off" \in SandboxFaults
    /\ sandbox[r].pc = "prepare" /\ ValidJob(sandbox[r].job)
    /\ SetRun(r, [sandbox[r] EXCEPT !.pc = "reap", !.off = TRUE])
    /\ UNCHANGED artifactVars

----------------------------------------------------------------------------
(* Fetch and Execute: the states, and the tasks they wait for *)

StateAfter(r, phase) ==
    IF phase = "fetch" /\ "execute" \in sandbox[r].job.phases THEN "execute" ELSE "reap"

RunTask(r, phase) ==
    /\ sandbox[r].pc = phase /\ sandbox[r].task[phase] = "none"
    /\ SetRun(r, [sandbox[r] EXCEPT !.task[phase] = "running"])
    /\ UNCHANGED artifactVars

\* What fetch installed: this run's, or for a re-synth the detection run's.
Deps(r) == IF sandbox[r].job.deps = 0 THEN r ELSE sandbox[r].job.deps
HasDeps(r) == sandbox[r].job.kind = "helm-template" \/
              sandbox[Deps(r)].archive["fetch"] = "deps"

\* The honest outcomes of a phase: it does what it is for, or says it failed.
Honest(r, phase) ==
    LET fails == <<"failed", "bad">>
    IN IF sandbox[r].job.kind = "sleep" THEN {<<"bad", "bad">>}
       ELSE IF sandbox[r].job.kind = "leak-test" THEN {<<"ok", "bad">>, fails}
       ELSE IF phase = "fetch" THEN {<<"ok", "deps">>, fails}
       ELSE IF HasDeps(r) /\ Synthesizes(sandbox[r].source) THEN {<<"ok", "built">>}
       ELSE {fails}

\* Whatever else a container that ran somebody's code may leave behind.
HostileOutcomes(r, phase) ==
    IF "hostile" \notin SandboxFaults THEN {}
    ELSE {<<"bad", "bad">>} \cup
         (IF phase = "fetch" \/ ~HasDeps(r) \/ ~Synthesizes(sandbox[r].source) THEN {}
          ELSE {<<"ok", "bad">>, <<"bad", "built">>} \cup
               CASE sandbox[r].job.kind \in SynthKinds -> {<<"ok", "needs-context">>}
                 [] sandbox[r].job.kind = "pulumi-mock" -> {<<"ok", "unsupported">>}
                 [] OTHER -> {})

\* A task ends, told to or not, and its uploads are what they are.  (What ends
\* after its run has answered is read by nobody.)
TaskEnds(r, phase) ==
    /\ sandbox[r].pc # "done"
    /\ sandbox[r].task[phase] \in {"running", "stopping"}
    /\ \E outcome \in Honest(r, phase) \cup HostileOutcomes(r, phase) :
        SetRun(r, [sandbox[r] EXCEPT !.task[phase] = "stopped",
                                     !.result[phase] = outcome[1],
                                     !.archive[phase] = outcome[2]])
    /\ UNCHANGED artifactVars

\* The state sees its task stop, and goes on.
StateEnds(r, phase) ==
    /\ sandbox[r].pc = phase /\ sandbox[r].task[phase] = "stopped"
    /\ SetRun(r, [sandbox[r] EXCEPT !.pc = StateAfter(r, phase)])
    /\ UNCHANGED artifactVars

\* Mutant of StateFails: a state has no time limit.
NeverFails(r, phase) == FALSE /\ UNCHANGED <<artifactVars, sandbox>>

\* The state times out or fails: caught, recorded, and on to the next one all
\* the same.  Its task may be running still.
StateFails(r, phase) ==
    /\ "timeout" \in SandboxFaults
    /\ sandbox[r].pc = phase /\ sandbox[r].task[phase] # "none"
    /\ SetRun(r, [sandbox[r] EXCEPT !.pc = StateAfter(r, phase), !.errors = @ \cup {phase}])
    /\ UNCHANGED artifactVars

\* Mutant of Reap: the run's tasks are left alone.
ReapNothing(r) ==
    /\ sandbox[r].pc = "reap"
    /\ SetRun(r, [sandbox[r] EXCEPT !.pc = "collect"])
    /\ UNCHANGED artifactVars

\* Every task of the run's group that still runs is told to stop.
Reap(r) ==
    /\ sandbox[r].pc = "reap"
    /\ SetRun(r, [sandbox[r] EXCEPT !.pc = "collect",
            !.task = [p \in Phases |-> IF @[p] = "running" THEN "stopping" ELSE @[p]]])
    /\ UNCHANGED artifactVars

----------------------------------------------------------------------------
(* Collect *)

\* Mutant of PhaseProblem: a state that gave up is not asked about.
ResultOnly(r, phase) ==
    CASE sandbox[r].result[phase] = "ok" -> "ok"
      [] sandbox[r].result[phase] = "failed" -> "failed"
      [] OTHER -> "error"

\* _phase_problem: the state's error first, then the result's.
PhaseProblem(r, phase) ==
    IF phase \in sandbox[r].errors THEN "error"
    ELSE CASE sandbox[r].result[phase] = "ok" -> "ok"
           [] sandbox[r].result[phase] = "failed" -> "failed"
           [] OTHER -> "error"

\* The first problem of the run's phases, or "ok".
PhasesStatus(r) ==
    LET bad == {p \in sandbox[r].job.phases : PhaseProblem(r, p) # "ok"}
    IN IF sandbox[r].off THEN "unavailable"
       ELSE IF "fetch" \in bad THEN PhaseProblem(r, "fetch")
       ELSE IF bad # {} THEN PhaseProblem(r, "execute")
       ELSE "ok"

\* Mutant of SynthArchive: the reply is what the archive says of itself.
ArchiveAsIs(archive) == IF archive = "built" THEN "ok" ELSE archive

\* read_archive, missing_context and build of a cloud assembly.
SynthArchive(archive) ==
    CASE archive = "built" -> "ok"
      [] archive = "needs-context" -> "needs-context"
      [] OTHER -> "error"

\* read_resources, and pulumi_plan's conversion of what it read.
PulumiArchive(archive) ==
    CASE archive = "built" -> "ok"
      [] archive = "unsupported" -> "unsupported"
      [] OTHER -> "error"

HelmArchive(archive) == IF archive = "built" THEN "ok" ELSE "error"

SynthStatus(r) == IF PhasesStatus(r) # "ok" THEN PhasesStatus(r)
                  ELSE SynthArchive(sandbox[r].archive["execute"])
PulumiStatus(r) == IF PhasesStatus(r) # "ok" THEN PhasesStatus(r)
                   ELSE PulumiArchive(sandbox[r].archive["execute"])
HelmStatus(r) == IF PhasesStatus(r) # "ok" THEN PhasesStatus(r)
                 ELSE HelmArchive(sandbox[r].archive["execute"])

\* leak.evaluate: a test that did not run is not one that passed, and a name
\* that resolves nowhere proves nothing.
LeakStatus(r, outside) ==
    IF outside /\ \A p \in sandbox[r].job.phases : sandbox[r].result[p] = "ok"
    THEN "ok" ELSE "failed"

StatusOf(r, outside) ==
    CASE sandbox[r].job.kind = "leak-test" -> LeakStatus(r, outside)
      [] sandbox[r].job.kind = "sleep" -> "ok"
      [] sandbox[r].job.kind = "pulumi-mock" -> PulumiStatus(r)
      [] sandbox[r].job.kind = "helm-template" -> HelmStatus(r)
      [] OTHER -> SynthStatus(r)

\* The rewritten templates of `stacks`, over whatever the prefix holds.  (A
\* Pulumi plan or a Helm manifest is put beside them, which no draft reads.)
WithTemplates(r, stacks) ==
    [templates EXCEPT ![sandbox[r].job.prefix] =
        [s \in Stacks |-> IF s \in stacks THEN Built(sandbox[r].source, s) ELSE @[s]]]

Collect(r, outside) ==
    LET status == StatusOf(r, outside)
        synth  == status = "ok" /\ sandbox[r].job.kind \in SynthKinds
        stacks == IF synth THEN BuiltStacks(sandbox[r].source) ELSE {}
    IN /\ sandbox[r].pc = "collect"
       /\ SetRun(r, [sandbox[r] EXCEPT !.pc = "done", !.status = status, !.stacks = stacks])
       /\ templates' = WithTemplates(r, stacks)
       /\ UNCHANGED <<snapshot, stored, pendingJson>>

\* Collect fails for good, after some of its templates were put.
CollectDies(r) ==
    /\ "collect" \in SandboxFaults
    /\ sandbox[r].pc = "collect"
    /\ \E stacks \in SUBSET (IF SynthStatus(r) = "ok" /\ sandbox[r].job.kind \in SynthKinds
                             THEN BuiltStacks(sandbox[r].source) ELSE {}) :
        templates' = WithTemplates(r, stacks)
    /\ SetRun(r, [sandbox[r] EXCEPT !.pc = "done", !.status = "dead"])
    /\ UNCHANGED <<snapshot, stored, pendingJson>>

----------------------------------------------------------------------------

StateStep(r) ==
    \/ Prepare(r) \/ Unavailable(r)
    \/ \E p \in Phases : RunTask(r, p) \/ StateEnds(r, p) \/ StateFails(r, p)
    \/ Reap(r) \/ \E outside \in BOOLEAN : Collect(r, outside)
    \/ CollectDies(r)

SandboxStep(r) == StateStep(r) \/ \E p \in Phases : TaskEnds(r, p)

SandboxNext == \E r \in SandboxRuns : SandboxStep(r)

----------------------------------------------------------------------------
(* What a run's answer means *)

\* A run that answers ok had each of its phases' own word for it: none was
\* still at work when its uploads were read, and none of those a state gave up
\* on counts, but in a leak test, whose probes speak for themselves.
OkRunsFinished ==
    \A r \in SandboxRuns :
        (sandbox[r].status = "ok" /\ sandbox[r].job.kind # "sleep") =>
        \A p \in sandbox[r].job.phases :
            /\ sandbox[r].task[p] = "stopped" /\ sandbox[r].result[p] = "ok"
            /\ sandbox[r].job.kind # "leak-test" => p \notin sandbox[r].errors

\* Nothing of a run that has answered is left running: what outlived its state
\* was told to stop, and is stopping.
NothingOutlivesItsRun ==
    \A r \in SandboxRuns : sandbox[r].pc = "done" =>
        \A p \in Phases : sandbox[r].task[p] # "running"

=============================================================================
