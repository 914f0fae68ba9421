# CascadeSec, in TLA+

CascadeSec scans the infrastructure code of a pull request, drafts fixes with a model,
lets people decide on them, and commits what was accepted to the pull request's branch.
Detection is deterministic, and every stage is a short Lambda run, so what is hard is
not any one stage. It is that the stages share a table, a bucket and a git branch with
no transaction around anything, while people push to that branch and click, and while
code of theirs runs in a sandbox. This directory specifies that: `src/lambda/*` as it
is, with the orders of its calls, and what must hold of every interleaving of them.

Contents: [the system](#the-system), [the modules](#the-modules), [the runs](#the-runs),
[what is proved](#what-is-proved), [where the code and its comments
part](#where-the-code-and-its-comments-part), [known limits of what
holds](#known-limits-of-what-holds), [what is not modelled](#what-is-not-modelled), [the
plan](#the-plan).

## The system

Nothing runs for longer than one request. All that lasts is in four stores: the
**branch** on GitHub; the **table** (`FINDING#`, `EVENT#`, `COMMIT#`, `OFFER#` items);
the **snapshot**, S3 `scans/<pr>/<file>`; and each fix's **corrected file**, S3
`fixes/<pr>/<finding>/<file>`. The components talk through these, and through
asynchronous invocations and two Step Functions state machines.

| component | keeps or writes | operations | what is hard | what makes it correct |
|---|---|---|---|---|
| github-committer | a commit on the branch, `COMMIT#` status, `proposed_fix.committed`, committed events, a click's approvals | `commit`, `commit_from_github`, `write`, `accept_offer`, `plan_commit`, `record_commit`, `_finish`, `on_failure`, `mark_github_failed` | at-least-once delivery, retries after any crash, the branch moving between read and push, two requests for the same fixes | commits only what was confirmed, only over what it was planned on, once; the records say what happened; a request ends |
| review-api | `EVENT#`, an edit's file, `FINDING#` status, `COMMIT#` at `requested` | `POST /reviews` with the cascade `_reopen_dependents`, `POST /commit`, and read routes | a decision is many writes; dies between them; races the drafter and another decision | accepted chains stand on accepted links; nothing undecided lands |
| remediation-agent | `proposed_fix`, status, `superseded_by`, corrected files | `RemediateFile` over one file: reopen stale fixes, resume on the chain's root, supersede, draft, self-check, suppression gate, budget, yield | stops and resumes, is killed, runs while people decide and push | a fix's file is what its record says; a superseded finding is cleared by the fix it names |
| remediation-agent, CDK path | a fix's corrected source, `pending.json`, the continuation in the execution's state | `_remediate_cdk_file`: draft, hand over to the sandbox, judge the re-synth, redraft once, next resource | verified by building a pull request's code, in another state machine, across calls that yield and are retried | a proposed fix builds, clears its finding and loses no resource; its file is its chain's; the counts and the budget are true |
| github-gateway | the snapshot, check runs, reviews with suggestions | `fetch` (`replace_snapshot`), `select_files`, `report` (`post_suggestions`, `plan_offer`), `on_execution_failed` | executions of two pushes in either order; a report made twice; a failure after the report | an offer is the snapshot plus verified links; the button has work behind it; a report stands |
| iac-scanner | `FINDING#` items, `no_longer_detected` | scan with three tools, `_write_findings`, `_carry_moved_ids` | ids that move, rescans of an older snapshot, tools that crash or skip a file | the records are what was found; what was not scanned is not called clean |
| webhook-receiver | nothing; starts executions | push and check-run webhooks, both buttons | redelivered webhooks, double clicks | one execution per commit and trigger |
| state machines | execution state | the pipeline with Draft fixes, Commit fixes | retries, `RecordOffer` after the button is visible | every execution says how it ended |
| mapping-agent | a finding's controls and `mapped` | one pass, with one model call per finding | yields, writes from a query that is minutes old | only findings the pull request touches are mapped; passes end |
| context-agent | nothing | one model call | | |
| sandbox (CDK, Pulumi, Helm) | a run's result, templates | prepare, fetch, execute, reap, collect | runs somebody's code; a task outlives its state; a late or hostile upload | an answer `ok` is what finished phases said, nothing outlives its run |
| record store port (`core/`) | an adapter over DynamoDB and one in memory | get, put, query, update with conditions | conditions must mean the same in both | the two adapters agree |
| cli, dashboard | a token, a baseline | clients of review-api | | |

How a fix reaches a branch: a push starts an execution, which fetches the head into the
snapshot and scans it. Findings are mapped, and a Draft fixes run drafts one fix per
finding of a file, each on the file as the previous verified fix left it: the fixes of a
file are a *chain*, each naming the links it was drafted on (`applies_after`). From
there either a reviewer approves the links in the dashboard and asks for a commit
(`COMMIT#` at `requested`, then an asynchronous invocation of the committer), or the
check run shows a *Commit fixes* button whose offer (`OFFER#`) a person with write
access clicks. The committer plans each file anew, keeps of its plan only what was
confirmed, pushes with `force: false`, marks each fix committed, logs an event per fix,
and ends the request.

## The modules

| module | models | from |
|---|---|---|
| `Records` | the shared state and its types; `approved_tip` (`ChainTip`), `plan_commit` (`PlanFile`, `PlanCommit`), the latest event of a finding (`After`) | `github-committer/handler.py`, `core` |
| `Committer` | every step of a committer run, with delivery, crash, retry and backstop | `github-committer/handler.py`, `step_functions_commit.tf` |
| `ReviewApi` | decisions and their cascade, commit requests and their hand-over | `review-api/handler.py` |
| `Remediation` | a run of the drafter over one file (Terraform path) | `remediation-agent/handler.py` |
| `Pipeline` | extends `Remediation`: fetch, scan marks, report with `plan_offer`, `RecordOffer`, the click | `github-gateway`, `iac-scanner`, `webhook-receiver`, `step_functions.tf` |
| `WriteBack` | all of them on one pull request, with people who push, apply suggestions, revert and close; the properties | |
| `Landing` | abstract: what write-back promises of a branch, one step per landing | |
| `CdkApp` | a CDK source file, what it synthesizes to and the S3 objects two components share | `remediation-agent`, `sandbox-dispatch/cdk.py` |
| `Sandbox` | a sandbox run of each kind, its states, its tasks and the dispatch Lambda around them | `sandbox-dispatch/handler.py`, `terraform/sandbox`, the task image |
| `CdkDrafts` | extends `Sandbox`: a Draft fixes execution on one CDK source, with the sandbox runs it waits for; its properties | `remediation-agent/handler.py`, `step_functions.tf` |
| `Executions` | a pull request's commits and its executions: names, states, failures, retries | `webhook-receiver`, `step_functions.tf` |
| `Scanner` | extends it: the scan and the findings' records over many scans | `iac-scanner/handler.py` |
| `Mapper` | extends it: a mapping pass | `mapping-agent/handler.py`, `core/.../mapping.py` |
| `Gateway` | extends it: fetch, select_files, report, the failure backstop | `github-gateway/handler.py` |
| `Flow` | the four on one pull request, with pushes, deliveries and clicks; the properties | |
| `RecordStore` | the record store port and the store in memory | `core/cascadesec_core/records.py`, `memory.py` |
| `DynamoStore` | the port on DynamoDB: expressions, and what DynamoDB does with them | `core/cascadesec_aws/records.py` |
| `FlowStores` | extends `Flow`: the handlers' conditional writes on both stores | the handlers, guarantees G1 to G8 of `docs/portable-runtime-spec.md` |
| `MCWriteBack`, `MCCdk`, `MCFlow` | the constants that need a definition, for TLC | |
| `*Proofs` | the theorems, by component | |

There are three compositions. `WriteBack` has drafts and everything after them, down to
the branch, and leaves open in which order fetches, scans and reports happen. `Flow` has
that order: executions side by side from push to report, with a file's drafts as one
step. `CdkDrafts` is that step for a CDK source, opened up. They meet in the records'
fields and in `select_files` and `plan_offer`, which each side takes from the same
lines.

**State.** A component's program counter and locals are a record per run: `inv[i]` for a
committer run (`handler.py` `write`'s locals: `head_sha`, `findings`, `plans`),
`review[v]` for a `POST /reviews` being served, `asking[r]` for a `POST /commit`,
`draft[w]` for a `RemediateFile` task. `Blank`, `NoReview` and `NoDraft` are the values
between runs.

In `Flow` an execution is a member of `executions` with the state it is in and what the
state machine carries (`changed`, `read`, `todo`, `files`, ...); a check run is a member
of `checkRuns`. In `CdkDrafts` `token` is the continuation in the execution's state and
`call` what the call in progress has made of it; a retried call starts from `token`
again, over whatever it has already written. `sandbox[r]` is a sandbox run, with its
states and its tasks apart: a state that gives up leaves its task running.

**Grain.** An action is the code from one call to a store to the next; another component
may act between any two. Where an action holds more than one call, that is deliberate:
`Plan` reads the event log and S3 together, and `ReopenStale` and `Reopen` write a
finding and its system event together. The reads of the finding records and of the event
log *are* apart (`ReadFindings`, `Plan`), as are an event, its upload and its record
(`PutDecision`, `UploadEdit`, `UpdateFinding`) and the two writes per link of
`record_commit` (`MarkCommitted`, `PutCommittedEvent`). In `Flow`, opening the check
run, the snapshot, the download and the scanner's write, the query and the mapping pass,
posting, completing and recording are steps of their own, and any other execution may
act in between; `replace_snapshot` and `_write_findings`, which write object after
object and item after item, are one step each, and so is a file's drafting. In
`CdkDrafts` the lead's record and the rest of its group's are two steps, since a call
that fails in between is run again.

**Data.** A content is told apart by the last commit of a person that changed it (`own`)
and the set of (finding, diff) changes in it (`fixes`); `base_sha256` is equality of
contents. Ids and paths are numbers because the code orders them. A diff is a member of
`Diffs`; its self-check passes iff it is in `Passing`, and a passing fix of `f` clears
`Clears[f]` in a rescan. The model's answer, the scanner's findings and the reviewer's
text are inputs: any member of a small set. An event's sort key is its time and then its
suffix, since the keys are compared as text. `clock` is the last `_now()`: two handlers
never share a timestamp.

**Failure.** `Crash` is any exception, timeout or killed process of a committer run; it
is retried up to `Attempts` runs, then the failure destination (`Backstop`) is called.
`DecisionDies` and `DraftRunDies` end a review request and a drafting run between two
writes. `InvokeFails` and `Killed` are the hand-over of a commit request failing
(whether or not it was accepted) and the API's own run ending before it. `Fails` and
`Retried` end an execution of `Flow` in any state and make the call of a state again,
which repeats whatever its first half did. `ScannerError` is a tool that left no report.
`CallFails` retries or ends a call of the CDK path, `ResynthOverruns` gives up on a
sandbox run; in the sandbox a state times out, a task uploads what it likes and when it
likes, Collect dies with some of its templates put, or the sandbox is switched off.

**What a check of `Flow` observes.** `seen` and `quiet` are history: what the last scan
of each file found, and the executions undisturbed since their fetch. No guard reads
them.

## The runs

The first nine are of `MCWriteBack`, `cdk` is of `MCCdk`, `flow` and `moved` are of
`MCFlow`. `CHECK_DEADLOCK FALSE` everywhere: a pull request on which everything bounded
has happened is at rest.

| run | asks | instance |
|---|---|---|
| `commit` | two dashboard requests at once on an approved two-fix chain: is anything reverted, committed twice, or recorded wrongly? does it look atomic? | 2 findings, 2 files, 2 requests, 2 deliveries, 2 attempts, 1 crash, a ruleset that may refuse, 1 push |
| `click` | may a click land anything but what its check run showed, on anything but the head it showed? | 2 files with a fix each, 1 click, 2 fetches, 1 report, an edit or a rejection that may die half-way, suggestions applied, a revert, 1 crash |
| `reviews` | do accepted chains stay whole when approvals, edits and rejections cross a drafting run and a commit? | 2 findings on one file, 3 decisions of any kind, 1 drafting run, 1 request |
| `drafts` | is an offer always the snapshot plus verified links, whatever stops a run? | 3 findings on a file, fix 1 also clearing 3, 2 runs, budget 2, every fault, 1 push |
| `ends` | does a request end? | a dashboard request and a click, 2 crashes, hand-over lost or ambiguous, the pull request closed |
| `cdk` | what becomes of drafts that only a build can verify? | 3 findings on 2 resources in a stack each, 6 answers (clean, helpful elsewhere, helpful with a new finding, dropping a stack, not building, cheating), 3 sandbox runs with every fault, budget 2, 1 execution from scratch or on an earlier fix, 1 retried call or abandoned run |
| `flow` | do executions side by side keep the records, the check runs and the button true? | 6 pull requests of 2 commits (lines moved, app changed and file removed, nothing left, too many files, too large, unparseable), a plain file, a CDK source and template, a sniffed `.json`, 2 executions more, 1 click on Re-run, 1 fault |
| `moved` | does a finding that moved keep its id? | one file, one push that puts another resource above |
| `held_landed`, `edited_offer`, `suppressed_redraft`, `superseded_stays` | four statements of comments and docs that the code does not keep | see below |

The properties of `cdk` (in `CdkDrafts` and `Sandbox`):

* `ProposedFixesBuild`: whatever was late, hostile, stale or done twice, the app built
  with a proposed fix's stored file is without its finding, has no finding and no
  missing resource it did not have before. The judgement only sees templates under a
  prefix, which earlier attempts and earlier executions wrote to.
* `ProposedFilesAreChains`, `SupersededIsBuiltAway`: a stored file has its chain's
  drafts and its own; a superseded finding is gone from the file it points to.
* `CountsAreTrue`, `BudgetIsKept`: the continuation's counts are what became of the
  findings; a budget per file is kept over yields and, for each retried call, exceeded
  at most once more.
* `OkRunsFinished`, `NothingOutlivesItsRun`, `DraftingEnds`.

Those of `flow` (in `Flow` and `FlowStores`):

* `RecordsAreTheScan`: after any sequence of scans the unmarked records are what was
  found, none twice and none left out.
* `WholeIsScanned`: a check run that says what was found is one whose execution fetched
  the whole commit and scanned it.
* `FindingsAreScanned`: a finding of that commit, templates aside, is on record, or in a
  file the check run names, while nobody else works on the pull request.
* `ButtonHasWork`: a Draft fixes run has a file to draft, unless somebody else came
  between.
* `OneExecutionEach`, `OneReviewEach`, `ReportStands`: nothing is started, posted or
  said twice.
* `RescanKeepsRecords`: a scan that finds what the last one found leaves every unmarked
  record as it was, under whatever id it has been carried there.
* `OnlyTouchedIsMapped`: model calls are for the pull request's own files.
* `EveryRunIsTold`: every execution has a completed check run in the end.
* `StoresAgree`: DynamoDB and the store in memory do alike on all items that are
  reached.

And those of the runs on `MCWriteBack` (in `WriteBack`):

* `CommitsAreConfirmed`, `NothingReverted`, `EditsSurvive`, `OneCommitPerRequest`,
  `ClicksLandOnTheirOffer`, `OnlyDecidedLands`: what reaches the branch.
* `LandingIsAtomic`: `WriteBack` implements `Landing`. A landing is a read of the head,
  reads of the table, the log and S3, and a push, in five steps or more with anything in
  between; from outside it is one step that replaces confirmed files at the head as it
  is at that moment.
* `CommittedIsTrue`, `MarksAreTrue`, `EndingsAreFinal`: what the records say.
* `RequestsEnd`: a request that is `requested` or `committing` (and keeps every other
  one out meanwhile) ends.
* `ResolvedChainsStand`, `StoredIsRecorded`, `OfferIsWhole`, `SupersededIsCleared`: what
  decisions and drafts leave behind. The first two and the last are about moments when
  no decision or drafting run is half-way (`Quiet`), since each is several writes.
* `TypeOK`: types, with the shape each step may count on.

**Bounds.** Every `Max*` constant bounds how often something may happen, in the guard of
the action it bounds; none is in the code except `MaxDraftsPerFile` and `Attempts`. Two
findings make a chain and the smallest invalid one; three are needed for a fix that
clears a finding behind an unrelated one. Two requests, or two copies of one event, make
every race the ref update decides: the branch is moved by at most one other party
between a read and a push, and a third writer adds a move of a kind a second one made.
In `flow` two executions more meet an execution that has run (`ScannedOnce`, where the
first commit has been scanned, mapped and perhaps drafted, a state `Opened` leads to) or
each other from nothing (`Opened`); the clicks and the second push then have something
to be late for. `MaxFaults` is given by head, one while there is one commit and none
after the second, because a fault and a second commit together take the state space past
what a run may take; the first commit's executions meet every fault in every state, and
the second's every interleaving. Six histories have each kind of change there is of the
first commit. Two groups and one redraft are the least for a chain, a supersede across
groups and a prefix that is written twice in `cdk`; a third sandbox run is one of some
other kind beside them. One push is enough for "the head moved" at any point, and two
crashes for a retry that fails too. `Start` says where a behaviour begins (after the
first scan, after an uninterrupted drafting run, or with its fixes approved), so that a
run about committing does not spend its states on drafting; each start is a state the
earlier stages reach.

**Fairness.** `CdkFairSpec`: Step Functions goes on from a state that has ended, and a
state's time limit ends one that has not (`TimeoutSeconds` on each state of both
machines); a task may hang for ever. `FlowFairSpec`: Step Functions runs some execution
on as long as one can go on, and EventBridge delivers a failure until the gateway has
acted on it (it retries for a day). No fairness of pushes, clicks or faults in either.
`FairSpec` (`ends`): weak fairness of a committer slot's steps (Lambda delivers an
accepted asynchronous event and runs it; within the run each call returns or the run
crashes and is retried, which the retry and failure-destination configuration provide),
and of a request's hand-over (the API's own run continues to its end). No fairness is
asked of people, reviewers, drafters or faults. Assumed not to happen there: that the
API's run is killed between recording a request and invoking the committer (see known
limits).

**Mutants.** For each property of a passing run `PROJECT.json` names a definition and a
plausible wrong form of it (kept beside it in the module, e.g. `CommitOnSnapshot`, the
tree built on the snapshot and not on the head), under which TLC finds the property
violated in the same run.

## What is proved

With TLAPS, for all values of the constants that satisfy the assumptions below: any
number of findings, files, requests, deliveries, crashes, retries, reviewers, drafters,
pushes; in `Flow`, any histories of commits, executions and faults.

| theorem | states |
|---|---|
| `TypeCorrect` (`WriteBackProofs`) | `Spec => []TypeOK` |
| `InductiveInvariant` (`LandingProofs`) | `Spec => []IInv` |
| `OnlyTheConfirmed` | `Spec => []CommitsAreConfirmed` |
| `NothingIsReverted` | `Spec => []NothingReverted` |
| `ClicksLandThere` | `Spec => []ClicksLandOnTheirOffer` |
| `Landings` | `Spec => LandingIsAtomic`: the refinement |
| `CommittedAsSaid` | `Spec => []CommittedIsTrue` |
| `EndingsStand` | `Spec => EndingsAreFinal`, if an invoke that raised was not accepted |
| `LandedEditsSurvive`, `OnlyTheDecidedLands` | `Spec => []EditsSurvive`, `Spec => []OnlyDecidedLands`, once drafting is over, or deciding and clicking |
| `FilesAreWrittenOnce` | no two commits of ours write one file: once drafting, or deciding and clicking, is over, if nobody takes the branch back to an earlier version |
| `RequestsOfOneFile`, `CommitsOnce` | so a request for one file makes one commit; `Spec => []OneCommitPerRequest` where the findings are all in one file |
| `MarksHold` | `Spec => []MarksAreTrue`, once drafting is over and without edits |
| `AcceptedChainsStand` | `Spec => []ResolvedChainsStand`, once drafting is over, with decisions one at a time that run to their end, and no clicks |
| `StoredAsRecorded` (`WriteBackProofs`) | `Spec => []StoredIsRecorded`, with one drafter nobody decides beside, no suppression, and no run killed between upload and record |
| `SupersededAreCleared`, `OfferedIsWhole` | `Spec => []SupersededIsCleared`, `Spec => []OfferIsWhole`, with one drafter nobody decides beside |
| `CdkTypeCorrect` (`CdkProofs`) | `CdkSpec => []CdkTypeOK` |
| `OkRunsAreFinished`, `TasksAreStopped` | `CdkSpec => []OkRunsFinished`, `CdkSpec => []NothingOutlivesItsRun` |
| `BudgetsAreKept`, `CountsAreWhatBecame` | `CdkSpec => []BudgetIsKept`, `CdkSpec => []CountsAreTrue` |
| `ProposedFixesDoBuild` | `CdkSpec => []ProposedFixesBuild` |
| `ProposedFilesAreTheirChains`, `SupersededAreBuiltAway` | `CdkSpec => []ProposedFilesAreChains`, `CdkSpec => []SupersededIsBuiltAway` |
| `FlowInvariant` (`FlowProofs`) | `FlowSpec => []IInv` |
| `FlowTypeCorrect` | `FlowSpec => []FlowTypeOK` |
| `OneExecutionPerName` | `FlowSpec => []OneExecutionEach` |
| `OneReviewPerExecution` | `FlowSpec => []OneReviewEach` |
| `ReportsStand` | `FlowSpec => ReportStands` |
| `RecordsFollowTheScan` | `FlowSpec => []RecordsAreTheScan` |
| `TouchedOnly`, `ScansAreWhole` | `FlowSpec => []OnlyTouchedIsMapped`, `FlowSpec => []WholeIsScanned` |
| `RescansKeep` | `FlowSpec => RescanKeepsRecords` |
| `ButtonsHaveWork` | `FlowSpec => []ButtonHasWork`, if the syntheses of one commit end alike |
| `NothingIsLeftOut` | `FlowSpec => []FindingsAreScanned` |
| `StoresDoAlike` | `FlowSpec => []StoresAgree` |
| `UpdatesAgree`, `PutsAgree` | on every item with a key, any update without overlapping paths and any put do the same on both stores |

**The argument.** `TypeOK` is inductive as it stands, because each run's record type
says what has been read when it is at a step (`RunOn`, `DecisionAtStep`, `DraftAtStep`):
the step that plans has findings, the one that pushes has a head on the branch. The
safety properties are not. A commit is planned over a head, and from a confirmation,
that were read long before the push, so one has to know that neither has changed meaning
since. Two parts make them inductive:

* `Settled(r)`: a request is confirmed, then recorded, then handed over, then run, in
  this order, and from its recording on its confirmation, source and offered head stand
  (lemma `Stands`). A click is handed over before it is recorded, and the run itself
  records it first.
* `Prepared(i)`: a run about to push writes something; all it writes was confirmed and
  is planned over `branch[head]`; one plan per file; and a click's head is its offer's.

With `BranchGrows` (commits already on the branch never change), a waiting run stays
prepared whatever the others do (`WaitingPrepared`). The fast-forward then makes the
head the run read the parent of its commit (`PushedCommit`), from which all four
theorems follow. For the refinement, pushes of people map to `Push`, a ref update to
`Land`, the recording of a request to `Confirm`, and every other step to a stutter,
since at most one request is written at a time (`OneRequestWritten`).

What a request says in the end comes from what its run was right about (`Truth`): the
links and the commit a run carries were on the branch when it found or pushed them, what
has been on the branch has been there for good (`OnBranchStays`), and `_finish` writes
no more than the run carries. That the ending stands needs only that nothing is handed
over twice (`HandingOver`); the API's unconditional `failed` is the one write that could
undo it, and comes before any run of the request unless an invoke that raised was
accepted.

*Once drafting is over* (`MaxRuns = 0`, from any of the three starts) a fix's base and
chain are those it was drafted on, and every stored file has only changes of its chain
(`DraftsStand`), whatever is edited. With that, what was latest decided
(`LatestDecided`) and planned (`PlansWellMade`) has everything it is laid over and,
beyond it, only what was decided; a landing of it (`OursWellMade`) then loses nothing.
This is `DecidedInv`.

`DecidedInv` holds also *while drafting goes on and nobody decides or clicks any more*
(`DecidingIsOver`), from the start where the fixes have been approved, with any number
of drafters, edits and draft faults, the suppressions included that make the two
theorems false beside decisions. The reason is `ApprovedApart`: no drafter has an
accepted finding on its list, so an accepted chain keeps the fixes it was accepted with
(`DraftsApart`), and nothing that a run has read of it gets old (`ApprovedStand`).

*How often a file is written* follows from it. Every fix that was decided was drafted on
the file's first version, and `plan_commit` takes a chain only where the head still has
that version. A commit of ours leaves another version, and if no push takes the branch
back, the first one never returns (`FirstIsLeft`). So the base check keeps a retry from
landing again even where its trailer is no longer at the head, because somebody pushed
between the crash and the retry.

*Once drafting is over and without edits,* a stored file has all of its chain
(`FixesStand`), so a link that `plan_commit` finds in the head or that a push brings is
in that commit when it is marked (`MarksStand`); this is `MarkedInv`. `ReviewsStand` is
about a decision between its writes: the accepted fixes whose links are gone are exactly
those its cascade has yet to reopen (`Pending`), its event is later than every approval
it takes back, and the committer, which writes to the same records between any two of
these writes, changes no status and no diff (`AcceptedStand`, `Deciding`). What they
give is false with a redraft in between (`suppressed_redraft` shows one way), so each
theorem says what it assumes; the run `reviews` checks two of the properties beside one
drafting run, on its instance.

*While drafting goes on*, what holds is about one run at a time. `DraftsOK` (in
`PipelineProofs`) says that a fix that stands is stored as recorded (`ProposedOK`), that
a superseded finding is gone from the file of the fix it points to (`SupersededOK`), and
what a run must know between two calls for its next write to keep both: the chain it
resumes on ends in a fix that stands (`ResumeOK`), what it has queried is still so in
what it goes by (`SeenOK`), and what it drafts on is the chain over the base
(`ChainOK`). A second drafter or a decision breaks `SeenOK`: the code reads the findings
once and goes by that through minutes of model calls.

`FlowProofs` has an invariant of its own. `FlowTypeOK` is not inductive: that `report`
completes a check run of its own execution needs to know that executions and check runs
name each other (`KnownOK`), and that `ReportStands` needs to know more, that a check
run says *findings* or *not scanned* only when its execution is past the states in which
its status can still change (`ChecksOK`, `Reporting`): a report made again then says the
same, and the backstop only touches check runs in progress. Every step of an execution
but the ones that open and complete a check run is shown to be a `Moves`, which keeps
all of this (lemma `Moved`), so each state needs only its own lemma about the record it
makes.

Three more invariants rest on this one. `ScopeInv` ties what an execution may map to
what some commit of the pull request touched, and what a check run says to a whole fetch
and scan. `ScanInv` is that the records are what was last found, and that they are
finitely many: a rescan gives some findings other ids, and has to pair those that moved
without giving two of them one id. `_carry_moved_ids` pairs the lost and the appeared of
a group by their order, which the proof turns into ranks: equal ranks pair, and ranks
tell a group's entries apart (`RanksApart`), so that the pairing is one to one
(`CarriedMatch`). `QuietInv` says what an execution that nobody disturbs has made of its
commit in each of its states: from the fetch on the snapshot is its commit's, from the
scan on the last findings are.

Two more say what scans and buttons do to each other's work. For `RescanKeepsRecords`
one has to know which ids were carried: a record that has another id than the one its
place would give has a resource, and neither is its id the id of anything found, nor the
id of its place that of a record (`CarriedOK`). A scan that finds the same then loses
and gains the same identities, and pairs each with itself. For `ButtonHasWork` one
follows a button from the report that shows it to the execution it starts and that one's
`SelectFiles` (`WorkInv`, in two parts: `WorkRuns` for executions, `WorkChecks` for the
buttons nobody has clicked yet). As long as nobody else worked on the pull request, what
was mapped and not drafted, or has a stale fix, is still there, and mapping again only
adds to it. The second execution scans again, though, and finds the same only if its
synthesis ends as the first one's did. That is the theorem's hypothesis,
`SynthesisRepeats`: there is a set of commits (`Synthesizable`) of which, and of no
others, synthesis succeeds, at every step of the behaviour and in the first state, where
a commit may have been scanned already.

`FlowProofs` shows the two stores to agree, under two premises DynamoDB makes necessary:
no two paths of an update overlap (it refuses those, the store in memory would apply
them one after the other), and the item has a key. It then shows every write a handler
makes to meet the first and every item of the flow the second.

`CdkProofs` builds its invariant in layers, each proved from those below. `Shape` is the
type with what is there in each state of the execution and of a call. `RunsOK` is the
sandbox's: a phase's result comes from a task that ran on the run's file, and an answer
`ok` stands on finished phases and on a file that synthesizes. `TraceOK` ties the two
together, which is the heart of it: the sandbox run an execution waits for is of the
draft that waits, under that draft's own prefix; no run that was given up on and still
writes templates is of a draft anybody will judge; so templates of the stacks in an
answer `ok` are those of the stored file. `DraftsOK` then says what the call that judges
may rely on (the chain it drafts on is what its tip's file is made of, nothing is
proposed on a finding that waits), and what is proposed and superseded; it has to allow
for what a call that failed half-way has already recorded, since its retry will do the
same again (`PendingUnsettled`). `CountsOK` follows the counts through the continuation:
what an execution has counted and what is left are the findings it opened, once each, as
long as no call was retried.

`RecordsProofs` holds what the others stand on: greatest elements exist in a finite set
under a total order, so the `CHOOSE` of `ChainTip` and of the drafter's root picks a
member (`ChainTipChosen`, `RootChosen`), and a plan of a file is over the head's version
of it and the only one (`PlanCommitType`).

**Assumptions**, each checked by TLC in every run that has the constant: ids are
positive numbers and finitely many findings; file names are numbers; the absent author
is not a request, and the absent fix, content and draft are none of those there are;
counters' bounds are naturals; `Passing \subseteq Diffs` and a fix clears at least its
own finding; clicks' and the dashboard's request ids are apart (a click's is derived
from its check run); a behaviour that starts drafted has a diff that passes; a history
has a commit, a commit's findings are finitely many and in files that exist and are not
CDK sources, templates are files with an origin that is not one and that the commit has
when the template has a finding, and each rule is of one of the three tools. Some
theorems have hypotheses besides, in the table and in their statements: about how many
drafters, reviewers or runs there are, and which faults happen. Each is a choice of
constants, and behaviours with that choice are behaviours of the code.

**Only model-checked.**

* `ButtonHasWork`, `OneCommitPerRequest`, `EditsSurvive`, `OnlyDecidedLands`,
  `MarksAreTrue`, `ResolvedChainsStand`, `StoredIsRecorded`, `OfferIsWhole` and
  `SupersededIsCleared` beyond the hypotheses of their theorems, as far as a run has
  that.
* `RequestsEnd`, `DraftingEnds` and `EveryRunIsTold`: liveness under fairness is out of
  the prover's reach.
* The five counterexamples, which show a statement false.

## Where the code and its comments part

Each is a run TLC ends with a counterexample, and an entry under `findings`.

* `held_landed`: after a crash between the marks and the ending, the retry finds its
  fixes marked committed, so `plan_commit` has nothing to plan and the request ends
  *held* although its commit is at the head (`github-committer/handler.py:256`).
* `edited_offer`: an edit's file is stored before its record says it is unverified; a
  report between the two offers the edit, against "the button commits verified fixes
  only" (`docs/github-first-review-spec.md:269`).
* `suppressed_redraft`: a redraft stopped by the suppression gate records the new base
  and keeps the old file; approved, it passes the base check and takes a push back
  (`plan_commit`'s docstring, 865).
* `superseded_stays`: a fix rejected while its run goes on is named as superseder after
  the rejection's cascade has read the findings, and nothing brings the superseded
  finding back (`remediation-agent/handler.py:1728`).
* `moved`: a finding's id is a hash of its rule, file and lines, not of its resource;
  when a push puts a resource of the same rule and size above another, the new one's
  finding takes the old one's id, with the decisions and the fix in its record, and the
  one that moved starts over (`iac-scanner/handler.py:1703`, against
  `docs/write-back-spec.md:469`).

Others were met while modelling, are in the model as the code has them, and have no run:

* A retried Fetch opens a second check run, and the first stays in progress unless the
  execution fails (`github-gateway/handler.py:253`, against "none is left spinning",
  27).
* The backstop's summary says "Nothing was posted" (1374) also after suggestions were.
* A finding past the draft budget is `not-drafted`, "and the next run queries it back
  up" (`docs/multi-iac-spec.md:510`); but a file with nothing else mapped or stale is
  not selected, and its button is not shown (`github-gateway/handler.py:594`, 713).
* A file that stops parsing has its findings marked as gone, and a marked finding is
  never paired: coming back at other lines it starts over
  (`iac-scanner/handler.py:1703`).
* The early return for an empty scan skips `_write_findings` (484): the findings of
  files that were removed stay as they were until there is something to scan.
* An execution's name is held for 90 days: a Draft fixes run that failed cannot be
  started again from its button (`webhook-receiver/handler.py:370`).

## Known limits of what holds

Some properties hold only under conditions, which the runs state by their constants:

* `RequestsEnd` is false with `"killed"` in `ApiFaults`: a request recorded and never
  handed over stays `requested`, and every later `POST /commit` gets 409.
* `EndingsAreFinal` is false with `"ambiguous"`: the API's `failed` is unconditional.
* `OneCommitPerRequest` is false if a person restores the pre-commit tree and the run
  then crashes: the retry's own commit is not at the head any more, and the fixes are
  not yet marked. With two files it is false also when the other file's fix becomes one
  that lands only before the retry: by a decision that accepts it again, or a push that
  puts its file back to what it was drafted on.
* `EditsSurvive` and `OnlyDecidedLands` are false when a redraft is stopped by the
  suppression gate and somebody then approves it (`suppressed_redraft`), and
  `MarksAreTrue` with a redraft between the push and the mark, or an edit of a fix that
  has landed: the mark is then on another diff.
* An approval is of a finding, not of a diff: if the drafter rewrites `proposed_fix`
  while the old fix is being approved, the approval stands for the new one.
  `OnlyDecidedLands` is therefore about findings.
* `ResolvedChainsStand` is false when a decision dies before its cascade ends, when an
  approval read before a redraft is written after it, when two decisions cross (an
  approval is checked against links that another reviewer's rejection is about to
  reopen), and when a click accepts links of a fix that is being rejected.
* `OfferIsWhole` and `SupersededIsCleared` are false beside decisions (`edited_offer`)
  or a second drafter on the file.
* `StoredIsRecorded` is false when a yielded run resumes on a root that is edited
  between the read of its record and of its file.
* A click that comes before `RecordOffer` finds no offer and is held for good.
* `ButtonHasWork` and `FindingsAreScanned` are about executions nobody works beside: two
  of one pull request share a snapshot and a table, and the later one's view is what
  both report. Even then the first is not true of every history: an execution whose
  synthesis failed keeps the findings of the last template on record, and may show a
  button for one of them that the execution it starts, whose synthesis succeeds, no
  longer finds. `SynthesisRepeats` leaves just this out.
* `_write_mapping` is unconditional: a pass puts back to `mapped` what was drafted or
  decided since its query. No property says otherwise.
* `BudgetIsKept` allows each retried call a budget of its own, since the continuation it
  starts from has forgotten what the first try spent.
* Of `CountsAreTrue`, the sum is only of executions without a retried call.

## What is not modelled

* Detection: which findings a tool makes of a file is an input (the tools are not this
  repository's), and so are the rule tables of their normalisers, and what the language
  sniff makes of a text.
* Models' answers, prompts, diff application, the suppression detectors: inputs. The
  context agent only answers questions.
* What a check run looks like: annotations, tables, where GitHub can show a suggestion.
* `get` and `query` of the record store, with pages and number conversion.
* The archives of a sandbox run, beyond what its status depends on: path checks, size
  limits and template rewriting are pure functions with tests of their own.
* The CLI and the dashboard, clients of review-api's routes; authentication; deployment
  scripts and Terraform declarations other than state machines, retry policies and time
  limits.
* Another execution's rescan while a CDK file is drafted; two drafters on one file, and
  two decisions at once, are in `WriteBack` and not in its runs.

## The plan

Done: all modules above, the twelve runs, and the theorems above.

Next, in this order:

1. Proofs: the invariants of drafting beside decisions that only approve, where an
   approval may meet the draft that replaces what it approves.
2. `CdkDrafts` beside a concurrent rescan, and as a refinement of `Flow`'s
   `RemediateFile`.
3. `query` of the record store, as pages over a table that is written meanwhile.
