------------------------------- MODULE CdkApp -------------------------------
(***************************************************************************)
(* A CDK app's source file and what the app synthesizes to, as the sandbox *)
(* (Sandbox) and the drafts on it (CdkDrafts) share them: the app's        *)
(* constructs and their findings, and the S3 objects under scans/,         *)
(* projects/ and fixes/.                                                   *)
(*                                                                         *)
(* Data.  A draft is told from another by what it does to the app, which   *)
(* only building the app shows.  A finding is identified by its            *)
(* (source, rule, construct path), which survives a re-synth; no two       *)
(* findings of the app share one.                                          *)
(***************************************************************************)
EXTENDS Integers, Sequences, FiniteSets

CONSTANTS
    Findings,     \* ids of the findings on the app
    Paths,        \* construct paths with findings
    NoPath,       \* the construct path of a finding on no one resource
    PathOf,       \* PathOf[f]: the resource the finding is on
    Stacks,       \* the app's stacks
    StackOf,      \* StackOf[p]: the stack that holds p
    Answers,      \* the drafts the model may make
    NoContent,    \* no object at an S3 key
    NoDraft       \* no pending.json

ASSUME CdkAppAssumption ==
    /\ Findings \subseteq Nat \ {0} /\ IsFiniteSet(Findings)
    /\ NoPath \notin Paths
    /\ PathOf \in [Findings -> Paths \cup {NoPath}]
    /\ StackOf \in [Paths \cup {NoPath} -> Stacks]

\* What a corrected file does: the findings it clears, whether it adds a
\* resource that has a finding of its own, the stacks it takes away, whether
\* the app then fails to synthesize; and what the answer itself shows: a
\* suppression, assumptions or unanswered questions (unsure), and whether it
\* took a lookup and a second draft to make it (asked).
Draft == [clears : SUBSET Findings, brings : BOOLEAN, drops : SUBSET Stacks,
          breaks : BOOLEAN, suppresses : BOOLEAN, unsure : BOOLEAN, asked : BOOLEAN]

ASSUME AnswersAssumption == Answers \subseteq Draft

\* The source file: the last commit by a person that changed it, and the draft
\* it has for each construct.
Content == [own : Nat, drafts : SUBSET (Paths \X Answers)]

\* A fix's own prefix, one per attempt, and the pull request's scan prefix.
Attempts   == 1..2
ScanPrefix == <<0, 0>>
Prefixes   == {ScanPrefix} \cup (Findings \X Attempts)

\* What a scanner finds: the app's findings, and one on each resource a draft
\* added for a construct.
Triples == Findings \cup Paths

ASSUME NoDraftAssumption == NoDraft \notin Answers
ASSUME NoContentAssumption == NoContent \notin Content /\ NoContent \notin Triples

VARIABLES
    snapshot,     \* scans/<pr>/<source>: the file at the last fetched commit
    stored,       \* fixes/<pr>/<finding>/<source>
    pendingJson,  \* fixes/<pr>/<finding>/pending.json: the draft it describes
    templates     \* each prefix's templates: what the scanners find in each stack

artifactVars == <<snapshot, stored, pendingJson, templates>>

NoTemplate == {NoContent}

ArtifactsTypeOK ==
    /\ snapshot \in Content
    /\ stored \in [Findings -> Content \cup {NoContent}]
    /\ pendingJson \in [Findings -> Answers \cup {NoDraft}]
    /\ templates \in [Prefixes -> [Stacks -> (SUBSET Triples) \cup {NoTemplate}]]

----------------------------------------------------------------------------
(* What the app synthesizes to *)

Synthesizes(content) == \A e \in content.drafts : ~e[2].breaks

\* The stacks of the assembly, in the order they are put.
BuiltStacks(content) == Stacks \ UNION {e[2].drops : e \in content.drafts}

\* What the scanners find in a stack's rewritten template.
Built(content, stack) ==
    {f \in Findings : /\ StackOf[PathOf[f]] = stack
                      /\ \A e \in content.drafts : f \notin e[2].clears}
    \cup {p \in Paths : /\ StackOf[p] = stack
                        /\ \E e \in content.drafts : e[1] = p /\ e[2].brings}

\* What the scanners find in the whole app, and the constructs it has.
BuildOf(content) == UNION {Built(content, s) : s \in BuiltStacks(content)}
ConstructsIn(stacks) == {p \in Paths : StackOf[p] \in stacks}

\* iac-scanner on an s3_prefix: every template there is.
ScanOf(prefix) == UNION {templates[prefix][s] : s \in
                            {t \in Stacks : templates[prefix][t] # NoTemplate}}

=============================================================================
