--------------------------- MODULE PipelineProofs ---------------------------
(***************************************************************************)
(* Type correctness of the remediation agent and of the pipeline's other   *)
(* stages: every step leaves the records and their own state with their    *)
(* types, and the branch as it is.  And what one drafter that nobody       *)
(* drafts or decides beside leaves (DraftsOK): a standing fix's stored     *)
(* file is its base, its chain and its change; a superseded finding is     *)
(* gone from the file of the fix it points to, which stands.  It takes     *)
(* what a run between two of its calls knows: where it resumes is a        *)
(* chain's end (ResumeOK), what it has queried is what it goes by          *)
(* (SeenOK), and what it drafts on is its chain over its base (ChainOK).   *)
(***************************************************************************)
EXTENDS Pipeline, RecordsProofs

\* The types the agent works with, and those its steps leave alone.
DraftTypes == RecordsTypeOK /\ RemediationTypeOK

----------------------------------------------------------------------------
(* The agent's operators *)

LEMMA LowestChosen ==
    ASSUME NEW S \in SUBSET Findings, S # {}
    PROVE  Lowest(S) \in S
<1>1. S \in SUBSET Nat
    BY FindingsAssumption
<1>2. \E m \in S : \A k \in S : m <= k
    BY <1>1, LeastExists
<1> QED BY <1>2 DEF Lowest

LEMMA PresentType == \A file, content : Present(file, content) \in SUBSET Findings
BY DEF Present, OnFile

LEMMA CurrentType ==
    ASSUME DraftTypes, NEW w \in Drafters, draft[w].todo # {}
    PROVE  Current(w) \in draft[w].todo /\ Current(w) \in Findings
<1>1. draft[w].todo \in SUBSET Findings
    BY DEF DraftTypes, RemediationTypeOK, DraftAtStep, DraftRun
<1> QED BY <1>1, LowestChosen DEF Current

LEMMA ClearedByType ==
    ASSUME NEW run \in DraftRun, NEW f
    PROVE  ClearedBy(run, f) \in Findings \cup {0}
<1>1. f \in DOMAIN run.clearedBy => run.clearedBy[f] \in Findings
    BY DEF DraftRun, ClearedFixes
<1>2. run.after # <<>> => run.after[Len(run.after)].finding \in Findings
    <2>1. run.after \in Seq(Links)
        BY DEF DraftRun
    <2>2. run.after # <<>> => run.after[Len(run.after)] \in Links
        BY <2>1
    <2> QED BY <2>2 DEF Links
<1> QED BY <1>1, <1>2 DEF ClearedBy

LEMMA ProposedType ==
    ASSUME NEW run \in DraftAtStep, run.pc = "draft", NEW diff \in Diffs, NEW passed \in BOOLEAN
    PROVE  Proposed(run, diff, passed) \in Fix
BY DEF Proposed, DraftAtStep, DraftRun, Fix

LEMMA NoDraftType == NoDraft \in DraftAtStep
<1>1. NoneCleared \in ClearedFixes
    BY DEF NoneCleared, ClearedFixes
<1>2. <<>> \in Seq(Links)
    OBVIOUS
<1> QED BY <1>1, <1>2 DEF NoDraft, DraftAtStep, DraftRun

\* Of the fixes a run could resume on there is none, or one with the longest chain.
LEMMA RootChosen ==
    ASSUME NEW fx \in Fixes, NEW accepted \in SUBSET Findings, accepted # {},
           \A f \in accepted : fx[f] # NoFix
    PROVE  (CHOOSE f \in accepted : \A g \in accepted :
                \/ Len(fx[f].after) > Len(fx[g].after)
                \/ Len(fx[f].after) = Len(fx[g].after) /\ f <= g) \in accepted
<1> DEFINE len(f) == Len(fx[f].after)
           Longer(f, g) == len(f) > len(g) \/ (len(f) = len(g) /\ f <= g)
           R == {p \in Findings \X Findings : Longer(p[1], p[2])}
<1>1. \A f \in accepted : f \in Nat /\ f \in Findings /\ len(f) \in Nat
    <2> TAKE f \in accepted
    <2>1. fx[f].after \in Seq(Links)
        BY DEF Fixes, Fix
    <2> QED BY <2>1, FindingsAssumption
<1>2. IsFiniteSet(accepted)
    BY FS_Subset, FindingsAssumption
<1>3. ASSUME NEW x \in accepted, NEW y \in accepted PROVE <<x, y>> \in R <=> Longer(x, y)
    <2> HIDE DEF Longer
    <2> QED OBVIOUS
<1>4. /\ \A x \in accepted : <<x, x>> \in R
      /\ \A x, y \in accepted : <<x, y>> \in R \/ <<y, x>> \in R
      /\ \A x, y, z \in accepted : <<x, y>> \in R /\ <<y, z>> \in R => <<x, z>> \in R
    <2>1. \A x \in accepted : Longer(x, x)
        BY <1>1
    <2>2. \A x, y \in accepted : Longer(x, y) \/ Longer(y, x)
        <3>1. \A a, b, p, q \in Nat :
                a > b \/ (a = b /\ p <= q) \/ b > a \/ (b = a /\ q <= p)
            OBVIOUS
        <3> HIDE DEF len
        <3> QED BY <1>1, <3>1
    <2>3. \A x, y, z \in accepted : Longer(x, y) /\ Longer(y, z) => Longer(x, z)
        <3> HIDE DEF len
        <3> QED BY <1>1
    <2> HIDE DEF R
    <2> HIDE DEF Longer
    <2> QED BY <1>3, <2>1, <2>2, <2>3
<1>5. \E m \in accepted : \A x \in accepted : <<m, x>> \in R
    <2> HIDE DEF R
    <2> QED BY <1>2, <1>4, GreatestExists
<1>6. \E m \in accepted : \A x \in accepted : Longer(m, x)
    <2> HIDE DEF R, Longer
    <2> QED BY <1>3, <1>5
<1> QED BY <1>6

----------------------------------------------------------------------------
(* The steps of a Draft fixes run *)

\* Every step of a run keeps the types, and leaves the branch alone.
LEMMA DraftStepTypes ==
    ASSUME DraftTypes, NEW w \in Drafters,
           DraftStep(w) \/ \E file \in Files : Begin(w, file)
    PROVE  DraftTypes' /\ branch' = branch
<1> DEFINE run == draft[w]
<1>1. run \in DraftAtStep /\ run \in DraftRun
    BY DEF DraftTypes, RemediationTypeOK, DraftAtStep
<1>2. \A d \in DraftAtStep : draft' = [draft EXCEPT ![w] = d] =>
            draft' \in [Drafters -> DraftAtStep]
    BY DEF DraftTypes, RemediationTypeOK
<1>3. \A todo \in SUBSET Findings : run.pc = "draft" =>
            [run EXCEPT !.todo = todo] \in DraftAtStep
    BY <1>1 DEF DraftAtStep, DraftRun
<1>4. draft' = [draft EXCEPT ![w] = NoDraft] => draft' \in [Drafters -> DraftAtStep]
    BY <1>2, NoDraftType
<1>5. DraftTypes /\ Drafting(w) => Current(w) \in Findings /\ run.todo \in SUBSET Findings
    BY <1>1, CurrentType DEF Drafting, DraftRun
<1> HIDE DEF run
<1>6. ASSUME NEW file \in Files, Begin(w, file) PROVE DraftTypes' /\ branch' = branch
    <2> DEFINE pc == IF run.resume = 0 THEN "stale" ELSE "root"
               todo == {f \in OnFile(file) : status[f] \in {"mapped", "not-drafted"}}
               seen == [status |-> status, fix |-> fix, superseder |-> superseder, gone |-> gone]
               next == [NoDraft EXCEPT !.pc = pc, !.file = file, !.resume = run.resume,
                                       !.drafted = run.drafted, !.todo = todo, !.seen = seen]
    <2>1. pc \in {"stale", "root"}
        OBVIOUS
    <2>2. todo \in SUBSET Findings
        BY DEF OnFile
    <2>3. seen \in DraftSeen
        BY DEF DraftTypes, RecordsTypeOK, DraftSeen
    <2>4. draft' = [draft EXCEPT ![w] = next]
        BY <1>6 DEF Begin, run
    <2> HIDE DEF pc, todo, seen
    <2>5. next \in DraftAtStep
        <3>1. run.resume \in Findings \cup {0} /\ run.drafted \in Nat
            BY <1>1 DEF DraftRun
        <3>2. NoDraft \in DraftRun
            BY NoDraftType DEF DraftAtStep
        <3>3. next \in DraftRun
            BY <2>1, <2>2, <2>3, <3>1, <3>2 DEF DraftRun
        <3> QED BY <2>1, <2>3, <3>3 DEF DraftAtStep, NoDraft
    <2> HIDE DEF next
    <2>6. draft' \in [Drafters -> DraftAtStep]
        BY <1>2, <2>4, <2>5
    <2>7. runs' \in Nat
        <3>1. runs \in Nat /\ (runs' = runs + 1 \/ runs' = runs)
            BY <1>6 DEF Begin, DraftTypes, RemediationTypeOK
        <3> QED BY <3>1
    <2> QED BY <1>6, <2>6, <2>7 DEF Begin, DraftTypes, RecordsTypeOK, RemediationTypeOK,
                recordVars, findingVars, eventVars
<1>7. CASE ReopenStale(w)
    <2> DEFINE still  == {f \in OnFile(run.file) : status[f] = run.seen.status[f]}
               stale  == {f \in still : Stale(f, run.seen, snapshot[run.file])}
               freed  == {f \in still : run.seen.status[f] = "superseded"
                                        /\ run.seen.superseder[f] \in stale}
               open   == stale \cup freed
               todo   == run.todo \cup open
               marked == [f \in Findings |-> IF f \in open THEN "mapped" ELSE run.seen.status[f]]
               rooted == [run EXCEPT !.pc = "root", !.todo = todo, !.seen.status = marked]
    <2>1. run.pc = "stale" /\ run.seen \in DraftSeen /\ run.todo \in SUBSET Findings
        BY <1>1, <1>7 DEF ReopenStale, run, DraftAtStep, DraftRun
    <2>2. open \in SUBSET Findings
        BY DEF OnFile
    <2>3. /\ status' = [f \in Findings |-> IF f \in open THEN "mapped" ELSE status[f]]
          /\ superseder' = [f \in Findings |-> IF f \in freed THEN 0 ELSE superseder[f]]
          /\ clock' = IF open = {} THEN clock ELSE clock + 1
          /\ latest' = [f \in Findings |-> IF f \in open
                            THEN After(latest[f], clock + 1, Suffix.system, "reopened")
                            ELSE latest[f]]
          /\ draft' = [draft EXCEPT ![w] = IF todo = {} THEN NoDraft ELSE rooted]
        BY <1>7 DEF ReopenStale, run
    <2> HIDE DEF open, freed
    <2>4. status' \in [Findings -> Statuses]
        BY <2>3 DEF DraftTypes, RecordsTypeOK, Statuses
    <2>5. superseder' \in [Findings -> Findings \cup {0}]
        BY <2>3 DEF DraftTypes, RecordsTypeOK
    <2>6. clock + 1 \in Nat /\ clock' \in Nat
        BY <2>3 DEF DraftTypes, RecordsTypeOK
    <2>7. latest' \in [Findings -> Event]
        <3>1. \A f \in Findings : latest[f] \in Event
            BY DEF DraftTypes, RecordsTypeOK
        <3>2. Suffix.system \in 0..3 /\ "reopened" \in Actions \cup {"none"}
            BY DEF Suffix, Actions
        <3>3. \A f \in Findings :
                After(latest[f], clock + 1, Suffix.system, "reopened") \in Event
            BY <2>6, <3>1, <3>2, AfterType
        <3> QED BY <2>3, <3>1, <3>3
    <2>8. marked \in [Findings -> Statuses]
        BY <2>1 DEF DraftSeen, Statuses
    <2> HIDE DEF marked
    <2>9. rooted \in DraftAtStep
        <3>1. [run.seen EXCEPT !.status = marked] \in DraftSeen
            BY <2>1, <2>8 DEF DraftSeen
        <3>2. rooted = [run EXCEPT !.pc = "root", !.todo = todo,
                                   !.seen = [run.seen EXCEPT !.status = marked]]
            BY <1>1 DEF DraftRun
        <3>3. todo \in SUBSET Findings
            BY <2>1, <2>2
        <3> HIDE DEF todo
        <3> QED BY <1>1, <2>1, <3>1, <3>2, <3>3 DEF DraftAtStep, DraftRun
    <2> HIDE DEF rooted, todo
    <2>10. draft' \in [Drafters -> DraftAtStep]
        <3> DEFINE next == IF todo = {} THEN NoDraft ELSE rooted
        <3>1. next \in DraftAtStep
            BY <2>9, NoDraftType
        <3>2. draft' = [draft EXCEPT ![w] = next]
            BY <2>3
        <3> HIDE DEF next
        <3> QED BY <1>2, <3>1, <3>2
    <2> QED BY <1>7, <2>4, <2>5, <2>6, <2>7, <2>10
            DEF ReopenStale, DraftTypes, RecordsTypeOK, RemediationTypeOK
<1>8. CASE Root(w)
    <2> DEFINE seen     == run.seen
               accepted == {f \in OnFile(run.file) : /\ seen.status[f] = "resolved"
                                                     /\ seen.fix[f] # NoFix
                                                     /\ seen.fix[f].committed = 0}
               Longer(f, g) == \/ Len(seen.fix[f].after) > Len(seen.fix[g].after)
                               \/ Len(seen.fix[f].after) = Len(seen.fix[g].after) /\ f <= g
               root     == IF run.resume # 0 THEN run.resume
                           ELSE IF accepted = {} THEN 0
                           ELSE CHOOSE f \in accepted : \A g \in accepted : Longer(f, g)
               Rooted(content, base, after, present) ==
                    [run EXCEPT !.pc = "draft", !.seen = <<>>, !.resume = 0, !.content = content,
                                !.base = base, !.after = after, !.present = present,
                                !.clearedBy = NoneCleared]
               chain == Append(seen.fix[root].after,
                               [finding |-> root, diff |-> seen.fix[root].diff])
               fresh  == Rooted(snapshot[run.file], snapshot[run.file], <<>>, OnFile(run.file))
               onRoot == Rooted(stored[root], seen.fix[root].base, chain,
                                Present(run.file, stored[root]))
               next == IF run.todo = {} THEN NoDraft
                       ELSE IF root = 0 THEN fresh
                       ELSE IF seen.fix[root] = NoFix \/ stored[root] = NoContent THEN NoDraft
                       ELSE onRoot
    <2>1. run.pc = "root" /\ seen \in DraftSeen /\ run.file \in Files
        BY <1>1, <1>8 DEF Root, run, DraftAtStep
    <2>2. seen.fix \in Fixes
        BY <2>1 DEF DraftSeen, Fixes
    <2>3. root \in Findings \cup {0}
        <3>1. run.resume \in Findings \cup {0}
            BY <1>1 DEF DraftRun
        <3>2. accepted \in SUBSET Findings /\ \A f \in accepted : seen.fix[f] # NoFix
            BY DEF OnFile
        <3>3. accepted # {} => (CHOOSE f \in accepted : \A g \in accepted : Longer(f, g)) \in accepted
            <4> HIDE DEF accepted, seen
            <4> QED BY <2>2, <3>2, RootChosen
        <3> HIDE DEF accepted, Longer
        <3> QED BY <3>1, <3>2, <3>3
    <2>4. draft' = [draft EXCEPT ![w] = next]
        BY <1>8 DEF Root, run
    <2> HIDE DEF root
    <2>5. NoneCleared \in ClearedFixes
        BY DEF NoneCleared, ClearedFixes
    <2>6. \A content, base \in Content, after \in Seq(Links), present \in SUBSET Findings :
            Rooted(content, base, after, present) \in DraftAtStep
        BY <1>1, <2>1, <2>5, ZenonT(40) DEF DraftAtStep, DraftRun
    <2> HIDE DEF Rooted
    <2>7. fresh \in DraftAtStep
        <3>1. snapshot[run.file] \in Content
            BY <2>1 DEF DraftTypes, RecordsTypeOK, Tree
        <3>2. OnFile(run.file) \in SUBSET Findings /\ <<>> \in Seq(Links)
            BY DEF OnFile
        <3> QED BY <2>6, <3>1, <3>2
    <2>8. (root # 0 /\ seen.fix[root] # NoFix /\ stored[root] # NoContent) => onRoot \in DraftAtStep
        <3> SUFFICES ASSUME root # 0, seen.fix[root] # NoFix, stored[root] # NoContent
                     PROVE  onRoot \in DraftAtStep
            OBVIOUS
        <3>1. root \in Findings
            BY <2>3
        <3>2. seen.fix[root] \in Fix
            BY <2>2, <3>1 DEF Fixes
        <3>3. stored[root] \in Content
            BY <3>1 DEF DraftTypes, RecordsTypeOK
        <3>4. seen.fix[root].base \in Content /\ seen.fix[root].after \in Seq(Links)
              /\ seen.fix[root].diff \in Diffs
            BY <3>2 DEF Fix
        <3>5. [finding |-> root, diff |-> seen.fix[root].diff] \in Links
            BY <3>1, <3>4 DEF Links
        <3>6. chain \in Seq(Links)
            BY <3>4, <3>5
        <3> HIDE DEF chain
        <3> QED BY <2>6, <3>3, <3>4, <3>6, PresentType
    <2>9. next \in DraftAtStep
        <3> HIDE DEF fresh, onRoot
        <3> QED BY <2>7, <2>8, NoDraftType
    <2> HIDE DEF next
    <2>10. draft' \in [Drafters -> DraftAtStep]
        BY <1>2, <2>4, <2>9
    <2> QED BY <1>8, <2>10 DEF Root, DraftTypes, RecordsTypeOK, RemediationTypeOK,
                recordVars, findingVars, eventVars
<1>9. CASE Supersede(w)
    <2> DEFINE f == Current(w)
    <2>1. f \in Findings /\ run.pc = "draft" /\ run.todo \ {f} \in SUBSET Findings
        BY <1>5, <1>9 DEF Supersede, Drafting, run
    <2>2. ClearedBy(run, f) \in Findings \cup {0}
        BY <1>1, ClearedByType
    <2> HIDE DEF f
    <2>3. status' \in [Findings -> Statuses] /\ superseder' \in [Findings -> Findings \cup {0}]
        BY <1>9, <2>1, <2>2 DEF Supersede, f, run, DraftTypes, RecordsTypeOK, Statuses
    <2>4. draft' \in [Drafters -> DraftAtStep]
        BY <1>2, <1>3, <1>9, <2>1 DEF Supersede, f, run
    <2> QED BY <1>9, <2>3, <2>4 DEF Supersede, DraftTypes, RecordsTypeOK, RemediationTypeOK,
                eventVars
<1>10. CASE NotDrafted(w)
    <2> DEFINE f == Current(w)
    <2>1. f \in Findings /\ run.pc = "draft" /\ run.todo \ {f} \in SUBSET Findings
        BY <1>5, <1>10 DEF NotDrafted, Drafting, run
    <2> HIDE DEF f
    <2>2. status' \in [Findings -> Statuses]
        BY <1>10, <2>1 DEF NotDrafted, f, DraftTypes, RecordsTypeOK, Statuses
    <2>3. draft' \in [Drafters -> DraftAtStep]
        BY <1>2, <1>3, <1>10, <2>1 DEF NotDrafted, f, run
    <2> QED BY <1>10, <2>2, <2>3 DEF NotDrafted, DraftTypes, RecordsTypeOK, RemediationTypeOK,
                eventVars
<1>11. ASSUME NEW diff \in Diffs, NEW held \in BOOLEAN, NEW parses \in BOOLEAN,
              Upload(w, diff, held, parses)
       PROVE  DraftTypes' /\ branch' = branch
    <2> DEFINE f == Current(w)
               verified == ScannerVerified(diff, parses)
               passed == verified /\ ~held
               content == [run.content EXCEPT !.fixes = @ \cup {<<f, diff>>}]
    <2>1. f \in Findings /\ run.pc = "draft" /\ run.todo # {} /\ run.content \in Content
        BY <1>1, <1>5, <1>11 DEF Upload, MayDraft, Drafting, run, DraftAtStep
    <2>2. content \in Content
        BY <2>1 DEF Content, Changes
    <2>3. verified \in BOOLEAN /\ passed \in BOOLEAN
        BY DEF ScannerVerified
    <2>4. /\ stored' = [stored EXCEPT ![f] = content]
          /\ draft' = [draft EXCEPT ![w] = [run EXCEPT !.pc = "write", !.verified = verified,
                            !.pending = Proposed(run, diff, passed)]]
        BY <1>11 DEF Upload, run
    <2> HIDE DEF content, verified, passed, f
    <2>5. stored' \in [Findings -> Content \cup {NoContent}]
        BY <2>1, <2>2, <2>4 DEF DraftTypes, RecordsTypeOK
    <2>6. Proposed(run, diff, passed) \in Fix
        BY <1>1, <2>1, <2>3, ProposedType
    <2>7. [run EXCEPT !.pc = "write", !.verified = verified,
                      !.pending = Proposed(run, diff, passed)] \in DraftAtStep
        BY <1>1, <2>1, <2>3, <2>6 DEF DraftAtStep, DraftRun
    <2>8. draft' \in [Drafters -> DraftAtStep]
        BY <1>2, <2>4, <2>7
    <2> QED BY <1>11, <2>5, <2>8 DEF Upload, DraftTypes, RecordsTypeOK, RemediationTypeOK,
                findingVars, eventVars
<1>12. ASSUME NEW diff \in Diffs, Suppression(w, diff) PROVE DraftTypes' /\ branch' = branch
    <2>1. run.pc = "draft" /\ run.todo # {}
        BY <1>12 DEF Suppression, MayDraft, Drafting, run
    <2>2. Proposed(run, diff, FALSE) \in Fix
        BY <1>1, <2>1, ProposedType
    <2>3. [run EXCEPT !.pc = "write", !.verified = FALSE,
                      !.pending = Proposed(run, diff, FALSE)] \in DraftAtStep
        BY <1>1, <2>1, <2>2 DEF DraftAtStep, DraftRun
    <2>4. draft' = [draft EXCEPT ![w] = [run EXCEPT !.pc = "write", !.verified = FALSE,
                                            !.pending = Proposed(run, diff, FALSE)]]
        BY <1>12 DEF Suppression, run
    <2>5. draft' \in [Drafters -> DraftAtStep]
        BY <1>2, <2>3, <2>4
    <2> QED BY <1>12, <2>5 DEF Suppression, DraftTypes, RecordsTypeOK, RemediationTypeOK,
                recordVars, findingVars, eventVars
<1>13. CASE DraftError(w)
    <2>1. run.pc = "draft" /\ run.todo \ {Current(w)} \in SUBSET Findings
        BY <1>5, <1>13 DEF DraftError, MayDraft, Drafting, run
    <2>2. draft' = [draft EXCEPT ![w] = [run EXCEPT !.todo = run.todo \ {Current(w)}]]
        BY <1>13 DEF DraftError, run
    <2>3. draft' \in [Drafters -> DraftAtStep]
        BY <1>2, <1>3, <2>1, <2>2
    <2> QED BY <1>13, <2>3 DEF DraftError, DraftTypes, RecordsTypeOK, RemediationTypeOK,
                recordVars, findingVars, eventVars
<1>14. CASE WriteResult(w)
    <2> DEFINE f == Current(w)
               content == [run.content EXCEPT !.fixes = @ \cup {<<f, run.pending.diff>>}]
               present == Present(run.file, content)
               cleared == run.present \ present
               after == Append(run.after, [finding |-> f, diff |-> run.pending.diff])
               clearedBy == [g \in DOMAIN run.clearedBy \cup cleared |->
                                IF g \in cleared THEN f ELSE run.clearedBy[g]]
               Rest == [run EXCEPT !.pc = "draft", !.todo = @ \ {f}, !.drafted = @ + 1,
                                   !.pending = NoFix, !.verified = FALSE]
               next == IF ~run.verified THEN Rest
                       ELSE [Rest EXCEPT !.content = content, !.present = present,
                                         !.after = after, !.clearedBy = clearedBy]
    <2>1. /\ run.pc = "write" /\ run.todo # {} /\ run.pending \in Fix
          /\ run.content \in Content /\ run.base \in Content
        BY <1>1, <1>14 DEF WriteResult, run, DraftAtStep
    <2>2. f \in Findings
        BY <2>1, CurrentType DEF run
    <2>3. run.pending.diff \in Diffs
        BY <2>1 DEF Fix
    <2>4. content \in Content
        BY <2>1, <2>2, <2>3 DEF Content, Changes
    <2>5. present \in SUBSET Findings /\ cleared \in SUBSET Findings
        <3>1. run.present \in SUBSET Findings
            BY <1>1 DEF DraftRun
        <3> QED BY <3>1, PresentType
    <2>6. after \in Seq(Links)
        <3>1. run.after \in Seq(Links)
            BY <1>1 DEF DraftRun
        <3>2. [finding |-> f, diff |-> run.pending.diff] \in Links
            BY <2>2, <2>3 DEF Links
        <3> QED BY <3>1, <3>2
    <2>7. clearedBy \in ClearedFixes
        <3>1. PICK S \in SUBSET Findings : run.clearedBy \in [S -> Findings]
            BY <1>1 DEF DraftRun, ClearedFixes
        <3> HIDE DEF f, cleared
        <3>2. clearedBy \in [S \cup cleared -> Findings]
            BY <2>2, <3>1
        <3>3. S \cup cleared \in SUBSET Findings
            BY <2>5, <3>1
        <3> HIDE DEF clearedBy
        <3> QED BY <3>2, <3>3 DEF ClearedFixes
    <2>8. /\ fix' = [fix EXCEPT ![f] = run.pending]
          /\ status' = [status EXCEPT ![f] =
                            IF run.pending.passed THEN "fix-proposed" ELSE "needs-human-only"]
          /\ draft' = [draft EXCEPT ![w] = next]
        BY <1>14 DEF WriteResult, run
    <2> HIDE DEF content, present, cleared, after, clearedBy, f
    <2>9. Rest \in DraftAtStep
        <3>1. run.drafted + 1 \in Nat /\ run.todo \ {f} \in SUBSET Findings
            BY <1>1 DEF DraftRun
        <3> QED BY <1>1, <2>1, <3>1 DEF DraftAtStep, DraftRun
    <2>10. [Rest EXCEPT !.content = content, !.present = present,
                        !.after = after, !.clearedBy = clearedBy] \in DraftAtStep
        <3>1. Rest \in DraftRun /\ Rest.pc = "draft" /\ Rest.file \in Files /\ Rest.base \in Content
            BY <1>1, <2>1, <2>9 DEF DraftAtStep, DraftRun
        <3> HIDE DEF Rest
        <3> QED BY <2>4, <2>5, <2>6, <2>7, <3>1 DEF DraftAtStep, DraftRun
    <2> HIDE DEF Rest
    <2>11. next \in DraftAtStep
        BY <2>9, <2>10
    <2> HIDE DEF next
    <2>12. draft' \in [Drafters -> DraftAtStep]
        BY <1>2, <2>8, <2>11
    <2>13. fix' \in [Findings -> Fix \cup {NoFix}] /\ status' \in [Findings -> Statuses]
        BY <2>1, <2>2, <2>8 DEF DraftTypes, RecordsTypeOK, Statuses
    <2> QED BY <1>14, <2>12, <2>13 DEF WriteResult, DraftTypes, RecordsTypeOK,
                RemediationTypeOK, eventVars
<1>15. CASE Yield(w)
    <2> DEFINE resume == IF run.after = <<>> THEN 0 ELSE run.after[Len(run.after)].finding
    <2>1. draft' = [draft EXCEPT ![w] = [NoDraft EXCEPT !.pc = "resume", !.file = run.file,
                                            !.drafted = run.drafted, !.resume = resume]]
        BY <1>15 DEF Yield, run
    <2>2. resume \in Findings \cup {0}
        <3>1. run.after \in Seq(Links)
            BY <1>1 DEF DraftRun
        <3>2. run.after # <<>> => run.after[Len(run.after)] \in Links
            BY <3>1
        <3> QED BY <3>2 DEF Links
    <2> HIDE DEF resume
    <2>3. run.file \in Files /\ run.drafted \in Nat
        BY <1>1, <1>15 DEF Yield, Drafting, run, DraftAtStep, DraftRun
    <2>4. [NoDraft EXCEPT !.pc = "resume", !.file = run.file, !.drafted = run.drafted,
                          !.resume = resume] \in DraftAtStep
        <3>1. NoDraft \in DraftRun
            BY NoDraftType DEF DraftAtStep
        <3>2. [NoDraft EXCEPT !.pc = "resume", !.file = run.file, !.drafted = run.drafted,
                              !.resume = resume] \in DraftRun
            BY <2>2, <2>3, <3>1 DEF DraftRun
        <3> QED BY <2>3, <3>2 DEF DraftAtStep, NoDraft
    <2>5. draft' \in [Drafters -> DraftAtStep]
        BY <1>2, <2>1, <2>4
    <2> QED BY <1>15, <2>5 DEF Yield, DraftTypes, RecordsTypeOK, RemediationTypeOK,
                recordVars, findingVars, eventVars
<1>16. CASE DraftsDone(w)
    <2>1. draft' \in [Drafters -> DraftAtStep]
        BY <1>4, <1>16 DEF DraftsDone
    <2> QED BY <1>16, <2>1 DEF DraftsDone, DraftTypes, RecordsTypeOK, RemediationTypeOK,
                recordVars, findingVars, eventVars
<1>17. CASE DraftRunDies(w)
    <2>1. draft' \in [Drafters -> DraftAtStep]
        BY <1>4, <1>17 DEF DraftRunDies
    <2> QED BY <1>17, <2>1 DEF DraftRunDies, DraftTypes, RecordsTypeOK, RemediationTypeOK,
                recordVars, findingVars, eventVars
<1> QED BY <1>6, <1>7, <1>8, <1>9, <1>10, <1>11, <1>12, <1>13, <1>14, <1>15, <1>16, <1>17
        DEF DraftStep

----------------------------------------------------------------------------
(* The steps of the other stages *)

\* What the stages work with, and what they leave alone.
StageTypes == DraftTypes /\ PipelineTypeOK

\* What a check run would offer is something a click can confirm.
LEMMA OfferType ==
    ASSUME RecordsTypeOK
    PROVE  Offer \in SUBSET Confirmation
<1> DEFINE tip(file) == VerifiedTip(file)
<1>1. fix \in Fixes
    BY DEF RecordsTypeOK, Fixes
<1>2. ASSUME NEW file \in Files, Offerable(file)
      PROVE  [file |-> file, tip |-> tip(file), chain |-> ChainOf(tip(file), fix),
              content |-> stored[tip(file)]] \in Confirmation
    <2>1. Verified(file) \in SUBSET Findings /\ \A f \in Verified(file) : fix[f] # NoFix
        BY DEF Verified
    <2>2. tip(file) # 0 /\ stored[tip(file)] # NoContent
        BY <1>2 DEF Offerable
    <2>3. tip(file) \in Findings /\ fix[tip(file)] # NoFix
        BY <1>1, <2>1, <2>2, ChainTipChosen DEF VerifiedTip
    <2> HIDE DEF tip
    <2>4. fix[tip(file)] \in Fix /\ stored[tip(file)] \in Content
        BY <2>2, <2>3 DEF RecordsTypeOK
    <2>5. ChainOf(tip(file), fix) \in Seq(Findings)
        BY <2>3, <2>4, ChainOfType
    <2> QED BY <2>3, <2>4, <2>5 DEF Confirmation
<1> QED BY <1>2 DEF Offer

\* Every step of a stage keeps the types, and leaves the branch alone.
LEMMA PipelineStepTypes ==
    ASSUME StageTypes, PipelineNext
    PROVE  StageTypes' /\ branch' = branch
<1>1. CASE RemediationNext /\ UNCHANGED pipelineVars
    BY <1>1, DraftStepTypes DEF StageTypes, RemediationNext, PipelineTypeOK, pipelineVars
<1>2. ASSUME NEW k \in DOMAIN branch, Fetch(k) PROVE StageTypes' /\ branch' = branch
    <2>1. k \in Nat /\ branch[k] \in Commit
        BY DEF StageTypes, DraftTypes, RecordsTypeOK
    <2>2. snapshot' \in Tree
        BY <1>2, <2>1 DEF Fetch, Commit
    <2>3. fetched' \subseteq Nat /\ IsFiniteSet(fetched')
        BY <1>2, <2>1, FS_AddElement DEF Fetch, StageTypes, PipelineTypeOK
    <2> QED BY <1>2, <2>2, <2>3 DEF Fetch, StageTypes, DraftTypes, RecordsTypeOK,
                RemediationTypeOK, PipelineTypeOK, findingVars, eventVars, remediationVars
<1>3. ASSUME NEW k \in DOMAIN branch, Report(k) PROVE StageTypes' /\ branch' = branch
    <2> DEFINE c == [id |-> Cardinality(checks) + 1, head |-> k, files |-> Offer,
                     recorded |-> FALSE]
    <2>1. checks \subseteq Check /\ IsFiniteSet(checks)
        BY DEF StageTypes, DraftTypes, RecordsTypeOK
    <2>2. c \in Check
        <3>1. Cardinality(checks) + 1 \in Nat
            BY <2>1, FS_CardinalityType
        <3>2. k \in Nat
            BY DEF StageTypes, DraftTypes, RecordsTypeOK
        <3> QED BY <3>1, <3>2, OfferType DEF StageTypes, DraftTypes, Check
    <2>3. checks' = checks \cup {c}
        BY <1>3 DEF Report
    <2> HIDE DEF c
    <2>4. checks' \subseteq Check /\ IsFiniteSet(checks')
        BY <2>1, <2>2, <2>3, FS_AddElement
    <2> QED BY <1>3, <2>4 DEF Report, StageTypes, DraftTypes, RecordsTypeOK,
                RemediationTypeOK, PipelineTypeOK, findingVars, eventVars, remediationVars,
                pipelineVars
<1>4. CASE Scan
    <2>1. gone' \in [Findings -> BOOLEAN]
        BY <1>4 DEF Scan
    <2> QED BY <1>4, <2>1 DEF Scan, StageTypes, DraftTypes, RecordsTypeOK,
                RemediationTypeOK, PipelineTypeOK, eventVars, remediationVars
<1>5. ASSUME NEW c \in checks, RecordOffer(c) PROVE StageTypes' /\ branch' = branch
    <2>1. checks \subseteq Check /\ IsFiniteSet(checks)
        BY DEF StageTypes, DraftTypes, RecordsTypeOK
    <2>2. [c EXCEPT !.recorded = TRUE] \in Check
        BY <2>1 DEF Check
    <2>3. checks' = (checks \ {c}) \cup {[c EXCEPT !.recorded = TRUE]}
        BY <1>5 DEF RecordOffer
    <2>4. checks' \subseteq Check
        BY <2>1, <2>2, <2>3
    <2>5. IsFiniteSet(checks')
        BY <2>1, <2>3, FS_AddElement, FS_RemoveElement
    <2> QED BY <1>5, <2>4, <2>5 DEF RecordOffer, StageTypes, DraftTypes, RecordsTypeOK,
                RemediationTypeOK, PipelineTypeOK, findingVars, eventVars, remediationVars,
                pipelineVars
<1>6. ASSUME NEW c \in checks, NEW r \in ClickRequests, Click(r, c)
      PROVE  StageTypes' /\ branch' = branch
    <2>1. r \in Requests /\ c \in Check
        BY PipelineAssumption DEF StageTypes, DraftTypes, RecordsTypeOK
    <2>2. clock + 1 \in Nat /\ clock' = clock + 1
        BY <1>6 DEF Click, StageTypes, DraftTypes, RecordsTypeOK
    <2>3. [BlankRequest EXCEPT !.source = "github", !.check = c.id, !.at = clock + 1] \in Request
        BY <2>1, <2>2 DEF BlankRequest, Request, Check
    <2>4. request' \in [Requests -> Request]
        BY <1>6, <2>1, <2>3 DEF Click, StageTypes, DraftTypes, RecordsTypeOK
    <2>5. queued' \subseteq Requests
        BY <1>6, <2>1 DEF Click, StageTypes, DraftTypes, RecordsTypeOK
    <2> QED BY <1>6, <2>2, <2>4, <2>5 DEF Click, StageTypes, DraftTypes, RecordsTypeOK,
                RemediationTypeOK, PipelineTypeOK, findingVars, remediationVars, pipelineVars
<1> QED BY <1>1, <1>2, <1>3, <1>4, <1>5, <1>6 DEF PipelineNext

----------------------------------------------------------------------------
(* What a Draft fixes run that nobody drafts or decides beside leaves *)

Standing == {"fix-proposed", "resolved", "needs-human-only"}

Changed(after) == {<<after[k].finding, after[k].diff>> : k \in DOMAIN after}

\* A fix's stored file is its base, the links it was drafted on and its change.
Made(f) == [own |-> fix[f].base.own,
            fixes |-> fix[f].base.fixes \cup Changed(fix[f].after) \cup {<<f, fix[f].diff>>}]
Recorded(f) == fix[f] # NoFix /\ stored[f] = Made(f)

\* The fix g is no more to be drafted, and f is gone from its file.
Cleared(g, f) == /\ g \in Findings /\ FileOf[g] = FileOf[f]
                 /\ status[g] \in Standing
                 /\ f \notin Present(FileOf[f], stored[g])

ProposedOK ==
    \A f \in Findings : status[f] \in {"fix-proposed", "resolved"} =>
        Recorded(f) /\ fix[f].passed /\ fix[f].diff \in Passing
SupersededOK ==
    \A f \in Findings : status[f] = "superseded" => Cleared(superseder[f], f)
StoredOK ==
    DraftFaults \cap {"suppression", "killed"} = {} =>
        \A f \in Findings : \/ fix[f] = NoFix \/ Recorded(f)
                            \/ \E w \in Drafters : draft[w].pc = "write" /\ f = Current(w)

\* A run's findings are open; where it resumes is a chain's end; what it has
\* queried is, in what it goes by, as it was.
TodoOK(w) == \A f \in draft[w].todo : /\ FileOf[f] = draft[w].file
                                      /\ status[f] \in {"mapped", "not-drafted"}
Tip(w, g) == Recorded(g) /\ status[g] \in Standing /\ FileOf[g] = draft[w].file
ResumeOK(w) == draft[w].resume # 0 =>
                    draft[w].pc \in {"resume", "root"} /\ Tip(w, draft[w].resume)
SameDraft(x, y) == /\ x = NoFix <=> y = NoFix
                   /\ y # NoFix => x.diff = y.diff /\ x.base = y.base /\ x.after = y.after
SeenOK(w) == draft[w].pc \in {"stale", "root"} => \A f \in Findings :
    LET seen == draft[w].seen
    IN /\ SameDraft(seen.fix[f], fix[f])
       /\ seen.status[f] = "resolved" => status[f] = "resolved"
       /\ status[f] = "superseded" =>
            seen.status[f] = "superseded" /\ seen.superseder[f] = superseder[f]

\* What a run drafts on is its chain over its base, and is the chain's end's
\* stored file; what it says is cleared is.
EndOf(after) == after[Len(after)].finding
ChainOK(w) == draft[w].pc \in {"draft", "write"} =>
    LET run == draft[w]
    IN /\ run.content = [own |-> run.base.own,
                         fixes |-> run.base.fixes \cup Changed(run.after)]
       /\ run.present \subseteq OnFile(run.file)
       /\ run.after # <<>> => /\ Tip(w, EndOf(run.after))
                              /\ stored[EndOf(run.after)] = run.content
                              /\ \A f \in OnFile(run.file) \ run.present :
                                    f \notin Present(run.file, run.content)
ClearedOK(w) == draft[w].pc \in {"draft", "write"} =>
    \A f \in DOMAIN draft[w].clearedBy : Cleared(draft[w].clearedBy[f], f)

\* A draft to record was made on the chain, and is stored unless it suppresses.
PendingOK(w) == draft[w].pc = "write" =>
    LET run == draft[w]
        f == Current(w)
    IN /\ run.pending.base = run.base /\ run.pending.after = run.after
       /\ run.pending.passed => run.verified
       /\ run.verified => run.pending.diff \in Passing
       /\ run.verified \/ DraftFaults \cap {"suppression", "killed"} = {} =>
            stored[f] = [run.content EXCEPT !.fixes = @ \cup {<<f, run.pending.diff>>}]

RunOK(w) == /\ TodoOK(w) /\ ResumeOK(w) /\ SeenOK(w)
            /\ ChainOK(w) /\ ClearedOK(w) /\ PendingOK(w)
DraftsOK == ProposedOK /\ SupersededOK /\ StoredOK /\ \A w \in Drafters : RunOK(w)

----------------------------------------------------------------------------
(* The steps of the others *)

SameFix(x, y) == SameDraft(x, y) /\ (y # NoFix => x.passed = y.passed)

\* Nobody but a Draft fixes run touches what it works on; a proposed fix may be
\* resolved, and any fix marked committed.
Undisturbed ==
    /\ draft' = draft /\ stored' = stored /\ superseder' = superseder
    /\ \A f \in Findings : /\ SameFix(fix[f], fix'[f])
                           /\ \/ status'[f] = status[f]
                              \/ status[f] = "fix-proposed" /\ status'[f] = "resolved"

LEMMA UndisturbedKeeps ==
    ASSUME DraftTypes, DraftsOK, Undisturbed
    PROVE  DraftsOK'
<1>1. \A f \in Findings : Recorded(f) => Recorded(f)'
    <2> TAKE f \in Findings
    <2>1. SameFix(fix[f], fix'[f]) /\ stored'[f] = stored[f]
        BY DEF Undisturbed
    <2> QED BY <2>1 DEF SameFix, SameDraft, Recorded, Made
<1>2. \A f \in Findings : status[f] \in Standing => status'[f] \in Standing
    BY DEF Undisturbed, Standing
<1>3. \A f, g \in Findings : Cleared(g, f) => Cleared(g, f)'
    BY <1>2 DEF Undisturbed, Cleared
<1>4. ProposedOK'
    <2> SUFFICES ASSUME NEW f \in Findings, status'[f] \in {"fix-proposed", "resolved"}
                 PROVE  Recorded(f)' /\ fix'[f].passed /\ fix'[f].diff \in Passing
        BY DEF ProposedOK
    <2>1. status[f] \in {"fix-proposed", "resolved"}
        BY DEF Undisturbed
    <2>2. Recorded(f) /\ fix[f].passed /\ fix[f].diff \in Passing
        BY <2>1 DEF DraftsOK, ProposedOK
    <2>3. SameFix(fix[f], fix'[f])
        BY DEF Undisturbed
    <2> QED BY <1>1, <2>2, <2>3 DEF SameFix, SameDraft, Recorded
<1>5. SupersededOK'
    <2> SUFFICES ASSUME NEW f \in Findings, status'[f] = "superseded"
                 PROVE  Cleared(superseder[f], f)'
        BY DEF SupersededOK
    <2>1. status[f] = "superseded" /\ superseder'[f] = superseder[f]
        BY DEF Undisturbed
    <2>2. PICK g \in Findings : g = superseder[f] /\ Cleared(g, f)
        BY <2>1 DEF DraftsOK, SupersededOK, Cleared
    <2>3. Cleared(g, f)' /\ g = superseder'[f]
        BY <1>3, <2>1, <2>2
    <2> QED BY <2>3
<1>6. StoredOK'
    <2> SUFFICES ASSUME DraftFaults \cap {"suppression", "killed"} = {}, NEW f \in Findings,
                        fix'[f] # NoFix, ~Recorded(f)'
                 PROVE  \E w \in Drafters : draft'[w].pc = "write" /\ f = Current(w)'
        BY DEF StoredOK
    <2>1. fix[f] # NoFix /\ ~Recorded(f)
        BY <1>1 DEF Undisturbed, SameFix, SameDraft
    <2> QED BY <2>1 DEF DraftsOK, StoredOK, Undisturbed, Current
<1>7. ASSUME NEW w \in Drafters PROVE RunOK(w)'
    <2> DEFINE run == draft[w]
    <2>1. RunOK(w) /\ draft'[w] = run
        BY DEF DraftsOK, Undisturbed
    <2>2. run \in DraftRun /\ run \in DraftAtStep
        BY DEF DraftTypes, RemediationTypeOK, DraftAtStep
    <2>3. \A g \in Findings : Tip(w, g) => Tip(w, g)'
        BY <1>1, <1>2, <2>1 DEF Tip
    <2>4. TodoOK(w)'
        <3>1. run.todo \in SUBSET Findings
            BY <2>2 DEF DraftRun
        <3> QED BY <2>1, <3>1 DEF RunOK, TodoOK, Undisturbed
    <2>5. ResumeOK(w)'
        <3>1. run.resume \in Findings \cup {0}
            BY <2>2 DEF DraftRun
        <3> QED BY <2>1, <2>3, <3>1 DEF RunOK, ResumeOK
    <2>6. SeenOK(w)'
        <3> SUFFICES ASSUME run.pc \in {"stale", "root"}, NEW f \in Findings
                     PROVE  /\ SameDraft(run.seen.fix[f], fix'[f])
                            /\ run.seen.status[f] = "resolved" => status'[f] = "resolved"
                            /\ status'[f] = "superseded" =>
                                    /\ run.seen.status[f] = "superseded"
                                    /\ run.seen.superseder[f] = superseder'[f]
            BY <2>1 DEF SeenOK
        <3>1. SameFix(fix[f], fix'[f]) /\ superseder'[f] = superseder[f]
            BY DEF Undisturbed
        <3>2. /\ SameDraft(run.seen.fix[f], fix[f])
              /\ run.seen.status[f] = "resolved" => status[f] = "resolved"
              /\ status[f] = "superseded" =>
                    run.seen.status[f] = "superseded" /\ run.seen.superseder[f] = superseder[f]
            BY <2>1 DEF RunOK, SeenOK
        <3>3. SameDraft(run.seen.fix[f], fix'[f])
            BY <3>1, <3>2 DEF SameFix, SameDraft
        <3> QED BY <3>1, <3>2, <3>3 DEF Undisturbed
    <2>7. ChainOK(w)'
        <3>1. run.after # <<>> => EndOf(run.after) \in Findings
            <4>1. run.after \in Seq(Links)
                BY <2>2 DEF DraftRun
            <4>2. run.after # <<>> => run.after[Len(run.after)] \in Links
                BY <4>1
            <4> QED BY <4>2 DEF Links, EndOf
        <3>2. stored' = stored
            BY DEF Undisturbed
        <3> QED BY <2>1, <2>3, <3>1, <3>2 DEF RunOK, ChainOK
    <2>8. ClearedOK(w)'
        <3>1. \A f \in DOMAIN run.clearedBy : f \in Findings /\ run.clearedBy[f] \in Findings
            BY <2>2 DEF DraftRun, ClearedFixes
        <3> QED BY <1>3, <2>1, <3>1 DEF RunOK, ClearedOK
    <2>9. PendingOK(w)'
        <3>1. Current(w)' = Current(w) /\ stored' = stored
            BY DEF Undisturbed, Current
        <3> QED BY <2>1, <3>1 DEF RunOK, PendingOK
    <2> QED BY <2>4, <2>5, <2>6, <2>7, <2>8, <2>9 DEF RunOK
<1> QED BY <1>4, <1>5, <1>6, <1>7 DEF DraftsOK

----------------------------------------------------------------------------
(* The steps of a run that leave the records alone *)

OneDrafter == \A v, w \in Drafters : v = w

LEMMA SameRecords ==
    ASSUME DraftsOK, OneDrafter, NEW w \in Drafters, UNCHANGED recordVars,
           draft[w].pc # "write" \/ "killed" \in DraftFaults
    PROVE  ProposedOK' /\ SupersededOK' /\ StoredOK'
<1>1. /\ fix' = fix /\ status' = status /\ stored' = stored /\ superseder' = superseder
      /\ \A f \in Findings : Recorded(f)' <=> Recorded(f)
    BY DEF recordVars, Recorded, Made
<1>2. ProposedOK'
    BY <1>1 DEF DraftsOK, ProposedOK
<1>3. SupersededOK'
    BY <1>1 DEF DraftsOK, SupersededOK, Cleared
<1>4. StoredOK'
    <2> SUFFICES ASSUME DraftFaults \cap {"suppression", "killed"} = {}, NEW f \in Findings,
                        fix'[f] # NoFix
                 PROVE  Recorded(f)'
        BY DEF StoredOK
    <2>1. \A v \in Drafters : draft[v].pc # "write"
        BY DEF OneDrafter
    <2> QED BY <1>1, <2>1 DEF DraftsOK, StoredOK
<1> QED BY <1>2, <1>3, <1>4

\* The run has ended.
LEMMA StopKeeps ==
    ASSUME DraftTypes, DraftsOK, OneDrafter, NEW w \in Drafters, UNCHANGED recordVars,
           draft' = [draft EXCEPT ![w] = NoDraft],
           draft[w].pc # "write" \/ "killed" \in DraftFaults
    PROVE  DraftsOK'
<1>1. draft'[w] = NoDraft
    BY DEF DraftTypes, RemediationTypeOK
<1>2. RunOK(w)'
    BY <1>1 DEF RunOK, TodoOK, ResumeOK, SeenOK, ChainOK, ClearedOK, PendingOK, NoDraft,
        NoneCleared
<1> QED BY <1>2, SameRecords DEF DraftsOK, OneDrafter

LEMMA BeginKeeps ==
    ASSUME DraftTypes, DraftsOK, OneDrafter, NEW w \in Drafters, NEW file \in Files,
           Begin(w, file)
    PROVE  DraftsOK'
<1> DEFINE run == draft[w]
           next == draft'[w]
<1>1. /\ run.pc \in {"idle", "resume"} /\ (run.pc = "resume" => run.file = file)
      /\ UNCHANGED recordVars
    BY DEF Begin
<1>2. /\ next.pc = (IF run.resume = 0 THEN "stale" ELSE "root")
      /\ next.file = file /\ next.resume = run.resume
      /\ next.todo = {f \in OnFile(file) : status[f] \in {"mapped", "not-drafted"}}
      /\ next.seen = [status |-> status, fix |-> fix, superseder |-> superseder, gone |-> gone]
      /\ next.clearedBy = NoneCleared
    BY DEF Begin, NoDraft, DraftTypes, RemediationTypeOK
<1>3. fix' = fix /\ status' = status /\ stored' = stored /\ superseder' = superseder
    BY <1>1 DEF recordVars, findingVars
<1>4. RunOK(w)
    BY DEF DraftsOK
<1>5. TodoOK(w)'
    BY <1>2, <1>3 DEF TodoOK, OnFile
<1>6. ResumeOK(w)'
    <2> SUFFICES ASSUME run.resume # 0 PROVE next.pc = "root" /\ Tip(w, run.resume)'
        BY <1>2 DEF ResumeOK
    <2>1. run.pc = "resume" /\ Tip(w, run.resume)
        BY <1>1, <1>4 DEF RunOK, ResumeOK
    <2>2. Recorded(run.resume) /\ status[run.resume] \in Standing /\ FileOf[run.resume] = file
        BY <1>1, <2>1 DEF Tip
    <2> QED BY <1>2, <1>3, <2>2 DEF Tip, Recorded, Made
<1>7. SeenOK(w)'
    BY <1>2, <1>3 DEF SeenOK, SameDraft
<1>8. ChainOK(w)' /\ ClearedOK(w)' /\ PendingOK(w)'
    BY <1>2 DEF ChainOK, ClearedOK, PendingOK, NoneCleared
<1> QED BY <1>1, <1>5, <1>6, <1>7, <1>8, SameRecords DEF RunOK, DraftsOK, OneDrafter

\* A draft that is not stored, when one may be refused.
LEMMA SuppressionKeeps ==
    ASSUME DraftTypes, DraftsOK, OneDrafter, NEW w \in Drafters, NEW diff \in Diffs,
           Suppression(w, diff)
    PROVE  DraftsOK'
<1> DEFINE run == draft[w]
           next == draft'[w]
<1>1. run.pc = "draft" /\ UNCHANGED recordVars /\ "suppression" \in DraftFaults
    BY DEF Suppression, MayDraft, Drafting
<1>2. next = [run EXCEPT !.pc = "write", !.verified = FALSE,
                         !.pending = Proposed(run, diff, FALSE)]
    BY DEF Suppression, DraftTypes, RemediationTypeOK
<1>3. run \in DraftRun
    BY DEF DraftTypes, RemediationTypeOK, DraftAtStep
<1>4. /\ next.pc = "write" /\ next.verified = FALSE
      /\ next.file = run.file /\ next.todo = run.todo /\ next.resume = run.resume
      /\ next.content = run.content /\ next.base = run.base /\ next.after = run.after
      /\ next.present = run.present /\ next.clearedBy = run.clearedBy
      /\ next.pending.base = run.base /\ next.pending.after = run.after
      /\ next.pending.passed = FALSE
    BY <1>2, <1>3 DEF DraftRun, Proposed
<1> HIDE DEF next, run
<1>5. fix' = fix /\ status' = status /\ stored' = stored /\ superseder' = superseder
    BY <1>1 DEF recordVars, findingVars
<1>6. RunOK(w)
    BY DEF DraftsOK
<1>7. TodoOK(w)' /\ ResumeOK(w)' /\ SeenOK(w)' /\ ClearedOK(w)'
    BY <1>1, <1>4, <1>5, <1>6 DEF RunOK, TodoOK, ResumeOK, SeenOK, ClearedOK, Cleared, run, next
<1>8. ChainOK(w)'
    BY <1>1, <1>4, <1>5, <1>6 DEF RunOK, ChainOK, Tip, Recorded, Made, run, next
<1>9. PendingOK(w)'
    BY <1>1, <1>4 DEF PendingOK, run, next
<1> QED BY <1>1, <1>6, <1>7, <1>8, <1>9, SameRecords DEF RunOK, DraftsOK, OneDrafter, run

LEMMA DraftErrorKeeps ==
    ASSUME DraftTypes, DraftsOK, OneDrafter, NEW w \in Drafters, DraftError(w)
    PROVE  DraftsOK'
<1> DEFINE run == draft[w]
           next == draft'[w]
<1>1. run.pc = "draft" /\ UNCHANGED recordVars
    BY DEF DraftError, MayDraft, Drafting
<1>2. run \in DraftRun
    BY DEF DraftTypes, RemediationTypeOK, DraftAtStep
<1>3. next = [run EXCEPT !.todo = run.todo \ {Current(w)}]
    BY DEF DraftError, DraftTypes, RemediationTypeOK
<1>4. /\ next.pc = "draft" /\ next.todo \subseteq run.todo
      /\ next.file = run.file /\ next.resume = run.resume
      /\ next.content = run.content /\ next.base = run.base /\ next.after = run.after
      /\ next.present = run.present /\ next.clearedBy = run.clearedBy
    BY <1>1, <1>2, <1>3 DEF DraftRun
<1> HIDE DEF next, run
<1>5. fix' = fix /\ status' = status /\ stored' = stored /\ superseder' = superseder
    BY <1>1 DEF recordVars, findingVars
<1>6. RunOK(w)
    BY DEF DraftsOK
<1>7. TodoOK(w)' /\ ResumeOK(w)' /\ SeenOK(w)' /\ ClearedOK(w)' /\ PendingOK(w)'
    BY <1>1, <1>4, <1>5, <1>6 DEF RunOK, TodoOK, ResumeOK, SeenOK, ClearedOK, Cleared,
        PendingOK, run, next
<1>8. ChainOK(w)'
    BY <1>1, <1>4, <1>5, <1>6 DEF RunOK, ChainOK, Tip, Recorded, Made, run, next
<1> QED BY <1>1, <1>6, <1>7, <1>8, SameRecords DEF RunOK, DraftsOK, OneDrafter, run

\* A run that yields remembers its chain's end.
LEMMA YieldKeeps ==
    ASSUME DraftTypes, DraftsOK, OneDrafter, NEW w \in Drafters, Yield(w)
    PROVE  DraftsOK'
<1> DEFINE run == draft[w]
           next == draft'[w]
           resume == IF run.after = <<>> THEN 0 ELSE EndOf(run.after)
<1>1. run.pc = "draft" /\ UNCHANGED recordVars
    BY DEF Yield, Drafting
<1>2. /\ next.pc = "resume" /\ next.file = run.file /\ next.todo = {}
      /\ next.resume = resume /\ next.clearedBy = NoneCleared
    BY DEF Yield, DraftTypes, RemediationTypeOK, NoDraft, EndOf
<1> HIDE DEF next
<1>3. fix' = fix /\ status' = status /\ stored' = stored
    BY <1>1 DEF recordVars, findingVars
<1>4. RunOK(w)
    BY DEF DraftsOK
<1>5. ResumeOK(w)'
    <2> SUFFICES ASSUME NEW g, g = resume, g # 0 PROVE Tip(w, g)'
        BY <1>2 DEF ResumeOK, next
    <2>1. Tip(w, g)
        BY <1>1, <1>4 DEF RunOK, ChainOK
    <2>2. Recorded(g) /\ status[g] \in Standing /\ FileOf[g] = run.file
        BY <2>1 DEF Tip
    <2> QED BY <1>2, <1>3, <2>2 DEF Tip, Recorded, Made, next
<1>6. TodoOK(w)' /\ SeenOK(w)' /\ ChainOK(w)' /\ ClearedOK(w)' /\ PendingOK(w)'
    BY <1>2 DEF TodoOK, SeenOK, ChainOK, ClearedOK, PendingOK, NoneCleared, next
<1> QED BY <1>1, <1>5, <1>6, SameRecords DEF RunOK, DraftsOK, OneDrafter

----------------------------------------------------------------------------
(* The steps that choose what to draft on *)

LEMMA ChangedAppend ==
    ASSUME NEW after \in Seq(Links), NEW link \in Links
    PROVE  /\ Changed(Append(after, link)) = Changed(after) \cup {<<link.finding, link.diff>>}
           /\ EndOf(Append(after, link)) = link.finding
           /\ Append(after, link) # <<>>
<1> DEFINE n == Len(after)
           longer == Append(after, link)
<1>1. /\ n \in Nat /\ DOMAIN after = 1..n /\ DOMAIN longer = 1..(n + 1) /\ Len(longer) = n + 1
      /\ longer[n + 1] = link /\ \A k \in 1..n : longer[k] = after[k]
      /\ longer # <<>>
    OBVIOUS
<1> HIDE DEF longer, n
<1>2. 1..(n + 1) = (1..n) \cup {n + 1}
    BY <1>1
<1> QED BY <1>1, <1>2 DEF Changed, EndOf, longer

\* The fix a run resumes on is recorded as it is stored, and not to be drafted.
LEMMA RootIsTip ==
    ASSUME DraftTypes, DraftsOK, NEW w \in Drafters, draft[w].pc = "root",
           NEW root \in Findings,
           \/ draft[w].resume # 0 /\ root = draft[w].resume
           \/ root \in OnFile(draft[w].file) /\ draft[w].seen.status[root] = "resolved"
    PROVE  Tip(w, root) /\ SameDraft(draft[w].seen.fix[root], fix[root])
<1>1. RunOK(w)
    BY DEF DraftsOK
<1>2. SameDraft(draft[w].seen.fix[root], fix[root])
    BY <1>1 DEF RunOK, SeenOK
<1>3. CASE draft[w].resume # 0 /\ root = draft[w].resume
    BY <1>1, <1>2, <1>3 DEF RunOK, ResumeOK
<1>4. CASE root \in OnFile(draft[w].file) /\ draft[w].seen.status[root] = "resolved"
    <2>1. status[root] = "resolved"
        BY <1>1, <1>4 DEF RunOK, SeenOK
    <2>2. Recorded(root)
        BY <2>1 DEF DraftsOK, ProposedOK
    <2> QED BY <1>2, <1>4, <2>1, <2>2 DEF Tip, Standing, OnFile
<1> QED BY <1>3, <1>4

LEMMA RootKeeps ==
    ASSUME DraftTypes, DraftsOK, OneDrafter, NEW w \in Drafters, Root(w)
    PROVE  DraftsOK'
<1> DEFINE run      == draft[w]
           seen     == run.seen
           accepted == {f \in OnFile(run.file) : /\ seen.status[f] = "resolved"
                                                 /\ seen.fix[f] # NoFix
                                                 /\ seen.fix[f].committed = 0}
           Longer(f, g) == \/ Len(seen.fix[f].after) > Len(seen.fix[g].after)
                           \/ Len(seen.fix[f].after) = Len(seen.fix[g].after) /\ f <= g
           root     == IF run.resume # 0 THEN run.resume
                       ELSE IF accepted = {} THEN 0
                       ELSE CHOOSE f \in accepted : \A g \in accepted : Longer(f, g)
           Rooted(content, base, after, present) ==
                [run EXCEPT !.pc = "draft", !.seen = <<>>, !.resume = 0, !.content = content,
                            !.base = base, !.after = after, !.present = present,
                            !.clearedBy = NoneCleared]
           link   == [finding |-> root, diff |-> seen.fix[root].diff]
           fresh  == Rooted(snapshot[run.file], snapshot[run.file], <<>>, OnFile(run.file))
           onRoot == Rooted(stored[root], seen.fix[root].base,
                            Append(seen.fix[root].after, link),
                            Present(run.file, stored[root]))
           next == IF run.todo = {} THEN NoDraft
                   ELSE IF root = 0 THEN fresh
                   ELSE IF seen.fix[root] = NoFix \/ stored[root] = NoContent THEN NoDraft
                   ELSE onRoot
<1>1. /\ run.pc = "root" /\ UNCHANGED recordVars /\ draft' = [draft EXCEPT ![w] = next]
    BY DEF Root
<1>2. run \in DraftRun /\ seen \in DraftSeen /\ run.file \in Files
    BY <1>1 DEF DraftTypes, RemediationTypeOK, DraftAtStep
<1>3. seen.fix \in Fixes
    BY <1>2 DEF DraftSeen, Fixes
<1>4. root = 0 \/ /\ root \in Findings
                  /\ \/ run.resume # 0 /\ root = run.resume
                     \/ root \in OnFile(run.file) /\ seen.status[root] = "resolved"
    <2>1. run.resume \in Findings \cup {0}
        BY <1>2 DEF DraftRun
    <2>2. accepted \in SUBSET Findings /\ \A f \in accepted : seen.fix[f] # NoFix
        BY DEF OnFile
    <2>3. accepted # {} => (CHOOSE f \in accepted : \A g \in accepted : Longer(f, g)) \in accepted
        <3> HIDE DEF accepted, seen
        <3> QED BY <1>3, <2>2, RootChosen
    <2>4. CASE run.resume # 0
        BY <2>1, <2>4
    <2>5. CASE run.resume = 0 /\ accepted = {}
        BY <2>5
    <2>6. CASE run.resume = 0 /\ accepted # {}
        <3>1. root \in accepted
            <4> HIDE DEF accepted, Longer
            <4> QED BY <2>3, <2>6
        <3> HIDE DEF root
        <3> QED BY <3>1 DEF OnFile
    <2> HIDE DEF root, accepted
    <2> QED BY <2>4, <2>5, <2>6
<1> HIDE DEF root
<1>5. draft'[w] = next
    BY <1>1 DEF DraftTypes, RemediationTypeOK
<1>6. fix' = fix /\ status' = status /\ stored' = stored /\ superseder' = superseder
    BY <1>1 DEF recordVars, findingVars
<1>7. ASSUME next = NoDraft PROVE DraftsOK'
    <2> HIDE DEF next
    <2> QED BY <1>1, <1>7, StopKeeps
<1>8. TodoOK(w)
    BY DEF DraftsOK, RunOK
<1>9. \A content, base, after, present : draft'[w] = Rooted(content, base, after, present) =>
        /\ draft'[w].pc = "draft" /\ draft'[w].resume = 0 /\ draft'[w].clearedBy = NoneCleared
        /\ draft'[w].file = run.file /\ draft'[w].todo = run.todo
        /\ draft'[w].content = content /\ draft'[w].base = base
        /\ draft'[w].after = after /\ draft'[w].present = present
    BY <1>2 DEF DraftRun
<1> HIDE DEF Rooted
<1>10. ASSUME NEW content, NEW base, NEW after, NEW present,
              draft'[w] = Rooted(content, base, after, present), ChainOK(w)'
       PROVE  DraftsOK'
    <2>1. /\ draft'[w].pc = "draft" /\ draft'[w].resume = 0
          /\ draft'[w].clearedBy = NoneCleared
          /\ draft'[w].file = run.file /\ draft'[w].todo = run.todo
        BY <1>9, <1>10
    <2>2. /\ TodoOK(w)' /\ ResumeOK(w)' /\ SeenOK(w)' /\ ClearedOK(w)' /\ PendingOK(w)'
        BY <1>6, <1>8, <2>1 DEF TodoOK, ResumeOK, SeenOK, ClearedOK, PendingOK, NoneCleared
    <2> QED BY <1>1, <1>10, <2>2, SameRecords DEF RunOK, DraftsOK, OneDrafter
<1>11. CASE next = fresh
    <2> DEFINE c == snapshot[run.file]
    <2>1. c \in Content
        BY <1>2 DEF DraftTypes, RecordsTypeOK, Tree
    <2>2. c = [own |-> c.own, fixes |-> c.fixes \cup Changed(<<>>)]
        BY <2>1 DEF Content, Changed
    <2>3. draft'[w] = Rooted(c, c, <<>>, OnFile(run.file))
        BY <1>5, <1>11
    <2> HIDE DEF c
    <2>4. /\ draft'[w].content = c /\ draft'[w].base = c /\ draft'[w].after = <<>>
          /\ draft'[w].file = run.file /\ draft'[w].present = OnFile(run.file)
        BY <1>9, <2>3
    <2>5. ChainOK(w)'
        BY <2>2, <2>4 DEF ChainOK, OnFile
    <2> QED BY <1>10, <2>3, <2>5
<1>12. ASSUME next = onRoot, root # 0, seen.fix[root] # NoFix PROVE DraftsOK'
    <2>1. root \in Findings /\ Tip(w, root) /\ SameDraft(seen.fix[root], fix[root])
        BY <1>1, <1>4, <1>12, RootIsTip
    <2> DEFINE c == stored[root]
               base == seen.fix[root].base
               after == Append(seen.fix[root].after, link)
               present == Present(run.file, stored[root])
    <2>2. seen.fix[root] \in Fix
        BY <1>3, <1>12, <2>1 DEF Fixes
    <2>3. seen.fix[root].after \in Seq(Links) /\ link \in Links
        BY <2>1, <2>2 DEF Fix, Links
    <2>4. /\ Changed(after) = Changed(seen.fix[root].after) \cup {<<root, seen.fix[root].diff>>}
          /\ EndOf(after) = root
          /\ after # <<>>
        BY <2>3, ChangedAppend
    <2>5. draft'[w] = Rooted(c, base, after, present)
        BY <1>5, <1>12
    <2>6. c = [own |-> base.own, fixes |-> base.fixes \cup Changed(after)]
        BY <2>1, <2>4 DEF Tip, Recorded, Made, SameDraft
    <2>7. Recorded(root) /\ status[root] \in Standing /\ FileOf[root] = run.file
        BY <2>1 DEF Tip
    <2> HIDE DEF c, base, after, present
    <2>8. /\ draft'[w].content = c /\ draft'[w].base = base /\ draft'[w].after = after
          /\ draft'[w].file = run.file /\ draft'[w].present = present
        BY <1>9, <2>5
    <2>9. PICK g \in Findings : g = root
        BY <2>1
    <2>10. Tip(w, g)' /\ stored'[g] = c
        BY <1>6, <2>7, <2>8, <2>9 DEF Tip, Recorded, Made, c
    <2>11. EndOf(draft'[w].after) = g
        BY <2>4, <2>8, <2>9
    <2>12. present \subseteq OnFile(run.file)
        BY DEF Present, present
    <2>13. ChainOK(w)'
        BY <2>6, <2>8, <2>10, <2>11, <2>12 DEF ChainOK, OnFile, Present, present, c
    <2> QED BY <1>10, <2>5, <2>13
<1> HIDE DEF fresh, onRoot
<1> QED BY <1>7, <1>11, <1>12

----------------------------------------------------------------------------
(* The steps that write *)

\* What is stale goes back to mapped, and with it what it had superseded.
LEMMA ReopenKeeps ==
    ASSUME DraftTypes, DraftsOK, OneDrafter, NEW w \in Drafters, ReopenStale(w)
    PROVE  DraftsOK'
<1> DEFINE run    == draft[w]
           still  == {f \in OnFile(run.file) : status[f] = run.seen.status[f]}
           stale  == {f \in still : Stale(f, run.seen, snapshot[run.file])}
           freed  == {f \in still : run.seen.status[f] = "superseded"
                                    /\ run.seen.superseder[f] \in stale}
           open   == stale \cup freed
           todo   == run.todo \cup open
           marked == [f \in Findings |-> IF f \in open THEN "mapped" ELSE run.seen.status[f]]
           rooted == [run EXCEPT !.pc = "root", !.todo = todo, !.seen.status = marked]
<1>1. /\ run.pc = "stale" /\ fix' = fix /\ stored' = stored
      /\ status' = [f \in Findings |-> IF f \in open THEN "mapped" ELSE status[f]]
      /\ superseder' = [f \in Findings |-> IF f \in freed THEN 0 ELSE superseder[f]]
      /\ draft' = [draft EXCEPT ![w] = IF todo = {} THEN NoDraft ELSE rooted]
    BY DEF ReopenStale
<1>2. run \in DraftRun /\ run.seen \in DraftSeen
    BY <1>1 DEF DraftTypes, RemediationTypeOK, DraftAtStep
<1>3. open \in SUBSET OnFile(run.file) /\ freed \subseteq open /\ stale \subseteq open
    OBVIOUS
<1>4. \A f \in stale : status[f] \in {"fix-proposed", "resolved"}
    BY DEF Stale
<1>5. \A f \in freed : status[f] = "superseded"
    OBVIOUS
<1>6. \A f \in OnFile(run.file) :
            status[f] = "superseded" /\ run.seen.status[f] = "superseded"
            /\ run.seen.superseder[f] \in stale => f \in freed
    OBVIOUS
<1>7. RunOK(w) /\ ProposedOK /\ SupersededOK /\ StoredOK
    BY DEF DraftsOK
<1>8. draft'[w] = IF todo = {} THEN NoDraft ELSE rooted
    BY <1>1 DEF DraftTypes, RemediationTypeOK
<1>9. todo # {} =>
        /\ draft'[w].pc = "root" /\ draft'[w].file = run.file /\ draft'[w].todo = todo
        /\ draft'[w].resume = run.resume
        /\ draft'[w].seen.fix = run.seen.fix /\ draft'[w].seen.status = marked
        /\ draft'[w].seen.superseder = run.seen.superseder
    <2> HIDE DEF todo, marked
    <2>1. rooted = [run EXCEPT !.pc = "root", !.todo = todo,
                               !.seen = [run.seen EXCEPT !.status = marked]]
        BY <1>2 DEF DraftRun
    <2>2. /\ [run.seen EXCEPT !.status = marked].fix = run.seen.fix
          /\ [run.seen EXCEPT !.status = marked].status = marked
          /\ [run.seen EXCEPT !.status = marked].superseder = run.seen.superseder
        BY <1>2 DEF DraftSeen
    <2> HIDE DEF rooted
    <2> QED BY <1>2, <1>8, <2>1, <2>2 DEF DraftRun
<1> HIDE DEF rooted, open, stale, freed
<1>10. \A f \in Findings : f \notin open => status'[f] = status[f] /\ superseder'[f] = superseder[f]
    BY <1>1, <1>3
<1>11. \A f \in open : status'[f] = "mapped"
    BY <1>1, <1>3 DEF OnFile
<1>12. ProposedOK'
    <2> SUFFICES ASSUME NEW f \in Findings, status'[f] \in {"fix-proposed", "resolved"}
                 PROVE  Recorded(f)' /\ fix'[f].passed /\ fix'[f].diff \in Passing
        BY DEF ProposedOK
    <2>1. status[f] \in {"fix-proposed", "resolved"}
        BY <1>10, <1>11
    <2> QED BY <1>1, <1>7, <2>1 DEF ProposedOK, Recorded, Made
<1>13. SupersededOK'
    <2> SUFFICES ASSUME NEW f \in Findings, status'[f] = "superseded"
                 PROVE  Cleared(superseder[f], f)'
        BY <1>1, <1>10, <1>11 DEF SupersededOK
    <2>1. f \notin open /\ status[f] = "superseded" /\ superseder'[f] = superseder[f]
        BY <1>10, <1>11
    <2>2. PICK g \in Findings : g = superseder[f] /\ Cleared(g, f)
        BY <1>7, <2>1 DEF SupersededOK, Cleared
    <2>3. run.seen.status[f] = "superseded" /\ run.seen.superseder[f] = g
        BY <1>1, <1>7, <2>1, <2>2 DEF RunOK, SeenOK
    <2>4. g \notin freed
        BY <1>5, <2>2 DEF Cleared, Standing
    <2>5. g \notin stale
        <3> SUFFICES ASSUME g \in stale PROVE FALSE
            OBVIOUS
        <3>1. f \in OnFile(run.file)
            BY <1>3, <2>2 DEF Cleared, OnFile
        <3> QED BY <1>3, <1>6, <2>1, <2>3, <3>1
    <2>6. status'[g] = status[g]
        BY <1>10, <2>4, <2>5 DEF open
    <2>7. Cleared(g, f)'
        BY <1>1, <2>2, <2>6 DEF Cleared
    <2> QED BY <2>1, <2>2, <2>7
<1>14. StoredOK'
    <2>1. \A v \in Drafters : draft[v].pc # "write"
        BY <1>1 DEF OneDrafter
    <2> QED BY <1>1, <1>7, <2>1 DEF StoredOK, Recorded, Made
<1>15. CASE todo = {}
    <2>1. draft'[w] = NoDraft
        BY <1>8, <1>15
    <2>2. RunOK(w)'
        BY <2>1 DEF RunOK, TodoOK, ResumeOK, SeenOK, ChainOK, ClearedOK, PendingOK, NoDraft,
            NoneCleared
    <2> QED BY <1>12, <1>13, <1>14, <2>2 DEF DraftsOK, OneDrafter
<1>16. CASE todo # {}
    <2>1. TodoOK(w)'
        <3>1. \A f \in run.todo : f \in Findings /\ FileOf[f] = run.file
                                  /\ status[f] \in {"mapped", "not-drafted"}
            BY <1>2, <1>7 DEF DraftRun, RunOK, TodoOK
        <3>2. \A f \in open : FileOf[f] = run.file
            BY <1>3 DEF OnFile
        <3> QED BY <1>9, <1>10, <1>11, <1>16, <3>1, <3>2 DEF TodoOK
    <2>2. ResumeOK(w)'
        BY <1>1, <1>7, <1>9, <1>16 DEF RunOK, ResumeOK
    <2>3. SeenOK(w)'
        <3> SUFFICES ASSUME NEW f \in Findings
                     PROVE  /\ SameDraft(run.seen.fix[f], fix[f])
                            /\ marked[f] = "resolved" => status'[f] = "resolved"
                            /\ status'[f] = "superseded" =>
                                    /\ marked[f] = "superseded"
                                    /\ run.seen.superseder[f] = superseder'[f]
            BY <1>1, <1>9, <1>16 DEF SeenOK
        <3>1. /\ SameDraft(run.seen.fix[f], fix[f])
              /\ run.seen.status[f] = "resolved" => status[f] = "resolved"
              /\ status[f] = "superseded" =>
                    run.seen.status[f] = "superseded" /\ run.seen.superseder[f] = superseder[f]
            BY <1>1, <1>7 DEF RunOK, SeenOK
        <3> QED BY <1>10, <1>11, <3>1
    <2>4. ChainOK(w)' /\ ClearedOK(w)' /\ PendingOK(w)'
        BY <1>9, <1>16 DEF ChainOK, ClearedOK, PendingOK
    <2> QED BY <1>12, <1>13, <1>14, <2>1, <2>2, <2>3, <2>4 DEF RunOK, DraftsOK, OneDrafter
<1> QED BY <1>15, <1>16

\* The fix that has cleared a finding.
LEMMA ClearedByClears ==
    ASSUME DraftTypes, DraftsOK, NEW w \in Drafters, Drafting(w),
           ClearedBy(draft[w], Current(w)) # 0
    PROVE  Cleared(ClearedBy(draft[w], Current(w)), Current(w))
<1> DEFINE run == draft[w]
           f == Current(w)
<1>1. run.pc = "draft" /\ f \in run.todo /\ f \in Findings
    BY CurrentType DEF Drafting
<1>2. RunOK(w)
    BY DEF DraftsOK
<1> HIDE DEF f
<1>3. FileOf[f] = run.file /\ f \in OnFile(run.file)
    BY <1>1, <1>2 DEF RunOK, TodoOK, OnFile
<1>4. CASE f \in DOMAIN run.clearedBy
    BY <1>1, <1>2, <1>4 DEF ClearedBy, RunOK, ClearedOK, f
<1>5. CASE f \notin DOMAIN run.clearedBy
    <2>1. /\ run.after # <<>> /\ f \notin run.present
          /\ ClearedBy(run, f) = EndOf(run.after)
        BY <1>5 DEF ClearedBy, EndOf, f
    <2>2. run.after[Len(run.after)] \in Links
        <3>1. run.after \in Seq(Links)
            BY DEF DraftTypes, RemediationTypeOK, DraftAtStep, DraftRun
        <3> QED BY <2>1, <3>1
    <2>3. EndOf(run.after) \in Findings
        BY <2>2 DEF Links, EndOf
    <2>4. /\ Tip(w, EndOf(run.after)) /\ stored[EndOf(run.after)] = run.content
          /\ f \notin Present(run.file, run.content)
        BY <1>1, <1>2, <1>3, <2>1 DEF RunOK, ChainOK
    <2> QED BY <1>3, <2>1, <2>3, <2>4 DEF Tip, Cleared, f
<1> QED BY <1>4, <1>5

\* A finding of the run is done with, without a draft.
LEMMA SettleKeeps ==
    ASSUME DraftTypes, DraftsOK, OneDrafter, NEW w \in Drafters, NEW f \in Findings,
           f \in draft[w].todo, draft[w].pc = "draft",
           NEW s \in {"not-drafted", "superseded"},
           status' = [status EXCEPT ![f] = s], fix' = fix, stored' = stored,
           \A h \in Findings \ {f} : superseder'[h] = superseder[h],
           s = "superseded" => superseder'[f] \in Findings /\ Cleared(superseder'[f], f),
           draft' = [draft EXCEPT ![w].todo = @ \ {f}]
    PROVE  DraftsOK'
<1> DEFINE run == draft[w]
           next == draft'[w]
<1>1. run \in DraftRun /\ run.todo \in SUBSET Findings
    BY DEF DraftTypes, RemediationTypeOK, DraftAtStep, DraftRun
<1>2. next = [run EXCEPT !.todo = run.todo \ {f}]
    BY DEF DraftTypes, RemediationTypeOK
<1>3. /\ next.pc = "draft" /\ next.todo = run.todo \ {f}
      /\ next.file = run.file /\ next.resume = run.resume
      /\ next.content = run.content /\ next.base = run.base /\ next.after = run.after
      /\ next.present = run.present /\ next.clearedBy = run.clearedBy
    BY <1>1, <1>2 DEF DraftRun
<1> HIDE DEF next
<1>4. RunOK(w) /\ ProposedOK /\ SupersededOK /\ StoredOK
    BY DEF DraftsOK
<1>5. status[f] \notin Standing
    BY <1>4 DEF RunOK, TodoOK, Standing
<1>6. /\ status'[f] = s /\ \A h \in Findings : h # f => status'[h] = status[h]
    BY DEF DraftTypes, RecordsTypeOK
<1>7. \A g, h \in Findings : Cleared(g, h) => Cleared(g, h)'
    BY <1>5, <1>6 DEF Cleared
<1>8. ProposedOK'
    BY <1>4, <1>6 DEF ProposedOK, Recorded, Made
<1>9. SupersededOK'
    <2> SUFFICES ASSUME NEW h \in Findings, status'[h] = "superseded"
                 PROVE  Cleared(superseder[h], h)'
        BY DEF SupersededOK
    <2>1. CASE h = f
        <3>1. PICK g \in Findings : g = superseder'[f] /\ Cleared(g, f)
            BY <1>6, <2>1
        <3>2. Cleared(g, f)'
            BY <1>7, <3>1
        <3> QED BY <2>1, <3>1, <3>2
    <2>2. CASE h # f
        <3>1. PICK g \in Findings : g = superseder[h] /\ Cleared(g, h)
            BY <1>4, <1>6, <2>2 DEF SupersededOK, Cleared
        <3>2. Cleared(g, h)' /\ superseder'[h] = g
            BY <1>7, <2>2, <3>1
        <3> QED BY <3>2
    <2> QED BY <2>1, <2>2
<1>10. StoredOK'
    <2>1. \A v \in Drafters : draft[v].pc # "write"
        BY DEF OneDrafter
    <2> QED BY <1>4, <2>1 DEF StoredOK, Recorded, Made
<1>11. TodoOK(w)'
    <2>1. \A h \in run.todo : /\ h \in Findings /\ FileOf[h] = run.file
                              /\ status[h] \in {"mapped", "not-drafted"}
        BY <1>1, <1>4 DEF RunOK, TodoOK
    <2> QED BY <1>3, <1>6, <2>1 DEF TodoOK, next
<1>12. ResumeOK(w)' /\ SeenOK(w)' /\ PendingOK(w)'
    BY <1>3, <1>4 DEF RunOK, ResumeOK, SeenOK, PendingOK, next
<1>13. ChainOK(w)'
    <2>1. run.after # <<>> => EndOf(run.after) \in Findings
        <3>1. run.after \in Seq(Links)
            BY <1>1 DEF DraftRun
        <3>2. run.after # <<>> => run.after[Len(run.after)] \in Links
            BY <3>1
        <3> QED BY <3>2 DEF Links, EndOf
    <2>2. \A g \in Findings : Tip(w, g) => Tip(w, g)'
        BY <1>3, <1>5, <1>6 DEF Tip, Recorded, Made, next
    <2> QED BY <1>3, <1>4, <2>1, <2>2 DEF RunOK, ChainOK, next
<1>14. ClearedOK(w)'
    <2>1. \A h \in DOMAIN run.clearedBy : h \in Findings /\ run.clearedBy[h] \in Findings
        BY <1>1 DEF DraftRun, ClearedFixes
    <2> QED BY <1>3, <1>4, <1>7, <2>1 DEF RunOK, ClearedOK, next
<1> QED BY <1>8, <1>9, <1>10, <1>11, <1>12, <1>13, <1>14 DEF RunOK, DraftsOK, OneDrafter

LEMMA SupersedeKeeps ==
    ASSUME DraftTypes, DraftsOK, OneDrafter, NEW w \in Drafters, Supersede(w)
    PROVE  DraftsOK'
<1>1. PICK f \in Findings : f = Current(w) /\ f \in draft[w].todo
    BY CurrentType DEF Supersede, Drafting
<1>2. draft[w].pc = "draft" /\ ClearedBy(draft[w], f) # 0
    BY <1>1 DEF Supersede, Drafting
<1>3. PICK g \in Findings : g = ClearedBy(draft[w], f) /\ Cleared(g, f)
    BY <1>1, <1>2, ClearedByClears DEF Supersede, Cleared
<1>4. superseder' = [superseder EXCEPT ![f] = g]
    BY <1>1, <1>3 DEF Supersede
<1>5. superseder'[f] = g /\ \A h \in Findings \ {f} : superseder'[h] = superseder[h]
    BY <1>4 DEF DraftTypes, RecordsTypeOK
<1> QED BY <1>1, <1>2, <1>3, <1>5, SettleKeeps DEF Supersede

LEMMA NotDraftedKeeps ==
    ASSUME DraftTypes, DraftsOK, OneDrafter, NEW w \in Drafters, NotDrafted(w)
    PROVE  DraftsOK'
<1>1. PICK f \in Findings : f = Current(w) /\ f \in draft[w].todo
    BY CurrentType DEF NotDrafted, Drafting
<1>2. draft[w].pc = "draft"
    BY DEF NotDrafted, Drafting
<1> QED BY <1>1, <1>2, SettleKeeps DEF NotDrafted

\* A draft is stored, and its record still says what it said.
LEMMA UploadKeeps ==
    ASSUME DraftTypes, DraftsOK, OneDrafter, NEW w \in Drafters, NEW diff \in Diffs,
           NEW held \in BOOLEAN, NEW parses \in BOOLEAN, Upload(w, diff, held, parses)
    PROVE  DraftsOK'
<1> DEFINE run == draft[w]
           next == draft'[w]
           verified == ScannerVerified(diff, parses)
<1>1. PICK f \in Findings : f = Current(w) /\ f \in run.todo
    BY CurrentType DEF Upload, MayDraft, Drafting
<1> DEFINE content == [run.content EXCEPT !.fixes = @ \cup {<<f, diff>>}]
<1>2. /\ run.pc = "draft" /\ fix' = fix /\ status' = status /\ superseder' = superseder
      /\ stored' = [stored EXCEPT ![f] = content]
    BY <1>1 DEF Upload, MayDraft, Drafting, findingVars
<1>3. next = [run EXCEPT !.pc = "write", !.verified = verified,
                         !.pending = Proposed(run, diff, verified /\ ~held)]
    BY DEF Upload, DraftTypes, RemediationTypeOK
<1>4. run \in DraftRun /\ run.todo \in SUBSET Findings
    BY DEF DraftTypes, RemediationTypeOK, DraftAtStep, DraftRun
<1>5. /\ next.pc = "write" /\ next.verified = verified
      /\ next.file = run.file /\ next.todo = run.todo /\ next.resume = run.resume
      /\ next.content = run.content /\ next.base = run.base /\ next.after = run.after
      /\ next.present = run.present /\ next.clearedBy = run.clearedBy
      /\ next.pending = Proposed(run, diff, verified /\ ~held)
    BY <1>3, <1>4 DEF DraftRun
<1> HIDE DEF next
<1>6. RunOK(w) /\ ProposedOK /\ SupersededOK /\ StoredOK
    BY DEF DraftsOK
<1>7. status[f] \notin Standing /\ status[f] # "superseded"
    BY <1>1, <1>6 DEF RunOK, TodoOK, Standing
<1>8. stored'[f] = content /\ \A h \in Findings : h # f => stored'[h] = stored[h]
    BY <1>2 DEF DraftTypes, RecordsTypeOK
<1>9. \A h \in Findings : h # f => (Recorded(h)' <=> Recorded(h))
    BY <1>2, <1>8 DEF Recorded, Made
<1>10. \A g, h \in Findings : Cleared(g, h) => Cleared(g, h)'
    BY <1>2, <1>7, <1>8 DEF Cleared
<1>11. \A g \in Findings : Tip(w, g) => Tip(w, g)' /\ stored'[g] = stored[g]
    BY <1>2, <1>5, <1>7, <1>8, <1>9 DEF Tip, next
<1>12. ProposedOK'
    BY <1>2, <1>6, <1>7, <1>9 DEF ProposedOK, Standing
<1>13. SupersededOK'
    <2> SUFFICES ASSUME NEW h \in Findings, status[h] = "superseded"
                 PROVE  Cleared(superseder[h], h)'
        BY <1>2 DEF SupersededOK
    <2>1. PICK g \in Findings : g = superseder[h] /\ Cleared(g, h)
        BY <1>6 DEF SupersededOK, Cleared
    <2>2. Cleared(g, h)' /\ superseder'[h] = g
        BY <1>2, <1>10, <2>1
    <2> QED BY <2>2
<1>14. Current(w)' = f
    BY <1>1, <1>5 DEF Current, next
<1>15. StoredOK'
    <2>1. \A v \in Drafters : draft[v].pc # "write"
        BY <1>2 DEF OneDrafter
    <2>2. DraftFaults \cap {"suppression", "killed"} = {} =>
            \A h \in Findings : fix[h] = NoFix \/ Recorded(h)
        BY <1>6, <2>1 DEF StoredOK
    <2> QED BY <1>2, <1>5, <1>9, <1>14, <2>2 DEF StoredOK, next
<1>16. TodoOK(w)' /\ ResumeOK(w)' /\ SeenOK(w)'
    <2>1. run.resume = 0
        BY <1>2, <1>6 DEF RunOK, ResumeOK
    <2> QED BY <1>2, <1>5, <1>6, <2>1 DEF RunOK, TodoOK, ResumeOK, SeenOK, next
<1>17. ChainOK(w)'
    <2>1. run.after # <<>> => EndOf(run.after) \in Findings
        <3>1. run.after \in Seq(Links)
            BY <1>4 DEF DraftRun
        <3>2. run.after # <<>> => run.after[Len(run.after)] \in Links
            BY <3>1
        <3> QED BY <3>2 DEF Links, EndOf
    <2> QED BY <1>2, <1>5, <1>6, <1>11, <2>1 DEF RunOK, ChainOK, next
<1>18. ClearedOK(w)'
    <2>1. \A h \in DOMAIN run.clearedBy : h \in Findings /\ run.clearedBy[h] \in Findings
        BY <1>4 DEF DraftRun, ClearedFixes
    <2> QED BY <1>2, <1>5, <1>6, <1>10, <2>1 DEF RunOK, ClearedOK, next
<1>19. PendingOK(w)'
    <2>1. /\ next.pending.base = run.base /\ next.pending.after = run.after
          /\ next.pending.diff = diff /\ next.pending.passed = (verified /\ ~held)
        BY <1>5 DEF Proposed
    <2>2. verified => diff \in Passing
        BY DEF ScannerVerified
    <2>3. verified \in BOOLEAN
        BY DEF ScannerVerified
    <2>4. next.pending.passed => next.verified
        BY <1>5, <2>1, <2>3
    <2>5. stored'[f] = [next.content EXCEPT !.fixes = @ \cup {<<f, next.pending.diff>>}]
        BY <1>5, <1>8, <2>1
    <2> HIDE DEF verified
    <2> QED BY <1>5, <1>14, <2>1, <2>2, <2>4, <2>5 DEF PendingOK, next
<1> QED BY <1>12, <1>13, <1>15, <1>16, <1>17, <1>18, <1>19 DEF RunOK, DraftsOK, OneDrafter

\* The record follows; a verified fix is the next base.
LEMMA WriteResultKeeps ==
    ASSUME DraftTypes, DraftsOK, OneDrafter, NEW w \in Drafters, WriteResult(w)
    PROVE  DraftsOK'
<1> DEFINE run == draft[w]
           next == draft'[w]
<1>1. /\ run.pc = "write" /\ run.todo # {} /\ run.pending \in Fix
      /\ run.content \in Content /\ run.base \in Content
    BY DEF WriteResult, DraftTypes, RemediationTypeOK, DraftAtStep
<1>2. PICK f \in Findings : f = Current(w) /\ f \in run.todo
    BY <1>1, CurrentType
<1> DEFINE diff == run.pending.diff
           content == [run.content EXCEPT !.fixes = @ \cup {<<f, diff>>}]
           present == Present(run.file, content)
           cleared == run.present \ present
           link == [finding |-> f, diff |-> diff]
           after == Append(run.after, link)
           clearedBy == [g \in DOMAIN run.clearedBy \cup cleared |->
                            IF g \in cleared THEN f ELSE run.clearedBy[g]]
           Rest == [run EXCEPT !.pc = "draft", !.todo = @ \ {f}, !.drafted = @ + 1,
                               !.pending = NoFix, !.verified = FALSE]
<1>3. /\ fix' = [fix EXCEPT ![f] = run.pending] /\ stored' = stored /\ superseder' = superseder
      /\ status' = [status EXCEPT ![f] =
                        IF run.pending.passed THEN "fix-proposed" ELSE "needs-human-only"]
      /\ draft' = [draft EXCEPT ![w] =
            IF ~run.verified THEN Rest
            ELSE [Rest EXCEPT !.content = content, !.present = present,
                              !.after = after, !.clearedBy = clearedBy]]
    BY <1>2 DEF WriteResult
<1>4. run \in DraftRun /\ run.todo \in SUBSET Findings
    BY DEF DraftTypes, RemediationTypeOK, DraftAtStep, DraftRun
<1>5. next = IF ~run.verified THEN Rest
             ELSE [Rest EXCEPT !.content = content, !.present = present,
                               !.after = after, !.clearedBy = clearedBy]
    BY <1>3 DEF DraftTypes, RemediationTypeOK
<1> HIDE DEF content, present, cleared, after, clearedBy
<1>6. /\ next.pc = "draft" /\ next.todo = run.todo \ {f} /\ next.file = run.file
      /\ next.resume = run.resume /\ next.base = run.base
      /\ next.content = (IF run.verified THEN content ELSE run.content)
      /\ next.present = (IF run.verified THEN present ELSE run.present)
      /\ next.after = (IF run.verified THEN after ELSE run.after)
      /\ next.clearedBy = (IF run.verified THEN clearedBy ELSE run.clearedBy)
    BY <1>4, <1>5 DEF DraftRun
<1> HIDE DEF next
<1>7. RunOK(w) /\ ProposedOK /\ SupersededOK /\ StoredOK
    BY DEF DraftsOK
<1>8. /\ status[f] \notin Standing /\ status[f] # "superseded" /\ FileOf[f] = run.file
    BY <1>2, <1>7 DEF RunOK, TodoOK, Standing
<1>9. /\ fix'[f] = run.pending /\ \A h \in Findings : h # f => fix'[h] = fix[h]
      /\ status'[f] = (IF run.pending.passed THEN "fix-proposed" ELSE "needs-human-only")
      /\ \A h \in Findings : h # f => status'[h] = status[h]
    BY <1>3 DEF DraftTypes, RecordsTypeOK
<1>10. /\ run.pending.base = run.base /\ run.pending.after = run.after
       /\ run.pending.passed => run.verified
       /\ run.verified => diff \in Passing
       /\ run.verified \/ DraftFaults \cap {"suppression", "killed"} = {} => stored[f] = content
    BY <1>1, <1>2, <1>7 DEF RunOK, PendingOK, content
<1>11. run.content = [own |-> run.base.own, fixes |-> run.base.fixes \cup Changed(run.after)]
    BY <1>1, <1>7 DEF RunOK, ChainOK
<1>12. content = [own |-> run.base.own,
                  fixes |-> run.base.fixes \cup Changed(run.after) \cup {<<f, diff>>}]
    <2>1. content = [own |-> run.content.own, fixes |-> run.content.fixes \cup {<<f, diff>>}]
        BY <1>1 DEF Content, content
    <2> HIDE DEF run
    <2> QED BY <1>11, <2>1
<1>13. stored[f] = content => Recorded(f)'
    BY <1>1, <1>3, <1>9, <1>10, <1>12, AbsentAssumption, ZenonT(40) DEF Recorded, Made
<1>14. \A h \in Findings : h # f => (Recorded(h)' <=> Recorded(h))
    BY <1>3, <1>9 DEF Recorded, Made
<1>15. \A g, h \in Findings : Cleared(g, h) => Cleared(g, h)'
    BY <1>3, <1>8, <1>9 DEF Cleared
<1>16. \A g \in Findings : Tip(w, g) => Tip(w, g)'
    BY <1>3, <1>6, <1>8, <1>9, <1>14 DEF Tip, next
<1>17. ProposedOK'
    <2>1. ASSUME status'[f] \in {"fix-proposed", "resolved"}
          PROVE  Recorded(f)' /\ fix'[f].passed /\ fix'[f].diff \in Passing
        BY <1>9, <1>10, <1>13, <2>1
    <2>2. ASSUME NEW h \in Findings, h # f, status'[h] \in {"fix-proposed", "resolved"}
          PROVE  Recorded(h)' /\ fix'[h].passed /\ fix'[h].diff \in Passing
        BY <1>7, <1>9, <1>14, <2>2 DEF ProposedOK
    <2> QED BY <2>1, <2>2 DEF ProposedOK
<1>18. SupersededOK'
    <2> SUFFICES ASSUME NEW h \in Findings, status'[h] = "superseded"
                 PROVE  Cleared(superseder[h], h)'
        BY <1>3 DEF SupersededOK
    <2>1. PICK g \in Findings : g = superseder[h] /\ Cleared(g, h)
        BY <1>7, <1>9 DEF SupersededOK, Cleared
    <2>2. Cleared(g, h)' /\ superseder'[h] = g
        BY <1>3, <1>15, <2>1
    <2> QED BY <2>2
<1>19. StoredOK'
    <2> SUFFICES ASSUME DraftFaults \cap {"suppression", "killed"} = {}, NEW h \in Findings,
                        fix'[h] # NoFix
                 PROVE  Recorded(h)'
        BY DEF StoredOK
    <2>1. CASE h = f
        BY <1>10, <1>13, <2>1
    <2>2. CASE h # f
        <3>1. \A v \in Drafters : Current(v) # h
            BY <1>2, <2>2 DEF OneDrafter
        <3> QED BY <1>7, <1>9, <1>14, <2>2, <3>1 DEF StoredOK
    <2> QED BY <2>1, <2>2
<1>20. TodoOK(w)'
    <2>1. \A h \in run.todo : /\ h \in Findings /\ FileOf[h] = run.file
                              /\ status[h] \in {"mapped", "not-drafted"}
        BY <1>4, <1>7 DEF RunOK, TodoOK
    <2> QED BY <1>6, <1>9, <2>1 DEF TodoOK, next
<1>21. ResumeOK(w)' /\ SeenOK(w)' /\ PendingOK(w)'
    <2>1. run.resume = 0
        BY <1>1, <1>7 DEF RunOK, ResumeOK
    <2> QED BY <1>6, <2>1 DEF ResumeOK, SeenOK, PendingOK, next
<1>22. run.present \subseteq OnFile(run.file) /\ present \subseteq OnFile(run.file)
    BY <1>1, <1>7 DEF RunOK, ChainOK, Present, present
<1>23. ChainOK(w)'
    <2>1. CASE ~run.verified
        <3>1. run.after # <<>> => EndOf(run.after) \in Findings
            <4>1. run.after \in Seq(Links)
                BY <1>4 DEF DraftRun
            <4>2. run.after # <<>> => run.after[Len(run.after)] \in Links
                BY <4>1
            <4> QED BY <4>2 DEF Links, EndOf
        <3> QED BY <1>1, <1>3, <1>6, <1>7, <1>16, <2>1, <3>1 DEF RunOK, ChainOK, next
    <2>2. CASE run.verified
        <3>1. link \in Links /\ run.after \in Seq(Links)
            BY <1>1, <1>4 DEF Fix, Links, DraftRun
        <3>2. /\ Changed(after) = Changed(run.after) \cup {<<f, diff>>}
              /\ EndOf(after) = f /\ after # <<>>
            BY <3>1, ChangedAppend DEF after
        <3>3. Tip(w, f)' /\ stored'[f] = content
            BY <1>3, <1>6, <1>8, <1>9, <1>10, <1>13, <2>2 DEF Tip, Standing, next
        <3>4. content = [own |-> run.base.own, fixes |-> run.base.fixes \cup Changed(after)]
            BY <1>12, <3>2
        <3>5. \A h \in OnFile(run.file) \ present : h \notin Present(run.file, content)
            BY DEF present
        <3>6. /\ draft'[w].content = content /\ draft'[w].after = after
              /\ draft'[w].present = present /\ draft'[w].base = run.base
              /\ draft'[w].file = run.file
            BY <1>6, <2>2 DEF next
        <3>7. \A h \in OnFile(run.file) \ present : h \notin Present(draft'[w].file, draft'[w].content)
            BY <3>5, <3>6
        <3> QED BY <1>22, <3>2, <3>3, <3>4, <3>6, <3>7 DEF ChainOK, OnFile
    <2> QED BY <2>1, <2>2
<1>24. ClearedOK(w)'
    <2>1. \A h \in DOMAIN run.clearedBy :
            /\ h \in Findings /\ run.clearedBy[h] \in Findings
            /\ Cleared(run.clearedBy[h], h)
        BY <1>1, <1>4, <1>7 DEF DraftRun, ClearedFixes, RunOK, ClearedOK
    <2>2. \A h \in DOMAIN run.clearedBy, g \in Findings :
            g = run.clearedBy[h] => Cleared(g, h)'
        BY <1>15, <2>1
    <2>3. CASE ~run.verified
        BY <1>6, <2>1, <2>2, <2>3 DEF ClearedOK, next
    <2>4. CASE run.verified
        <3>1. \A h \in cleared : h \in Findings /\ Cleared(f, h)'
            <4> TAKE h \in cleared
            <4>1. h \in Findings /\ FileOf[h] = run.file /\ h \notin Present(FileOf[h], content)
                BY <1>22 DEF cleared, present, OnFile
            <4>2. stored'[f] = content /\ status'[f] \in Standing
                BY <1>3, <1>9, <1>10, <2>4 DEF Standing
            <4> QED BY <1>8, <4>1, <4>2 DEF Cleared, Present, OnFile
        <3>2. next.clearedBy = clearedBy
            BY <1>6, <2>4
        <3>3. ASSUME NEW h \in DOMAIN next.clearedBy
              PROVE  \E g \in Findings : g = next.clearedBy[h] /\ Cleared(g, h)'
            <4>1. h \in DOMAIN run.clearedBy \cup cleared
                BY <3>2, <3>3 DEF clearedBy
            <4>2. PICK g \in Findings :
                    g = next.clearedBy[h] /\ g = IF h \in cleared THEN f ELSE run.clearedBy[h]
                BY <2>1, <3>2, <4>1 DEF clearedBy
            <4>3. Cleared(g, h)'
                BY <2>2, <3>1, <4>1, <4>2
            <4> QED BY <4>2, <4>3
        <3> QED BY <3>3 DEF ClearedOK, next
    <2> QED BY <2>3, <2>4
<1> QED BY <1>17, <1>18, <1>19, <1>20, <1>21, <1>23, <1>24 DEF RunOK, DraftsOK, OneDrafter

\* A step of a run that has the file to itself.
LEMMA DraftStepKeeps ==
    ASSUME DraftTypes, DraftsOK, OneDrafter, NEW w \in Drafters,
           DraftStep(w) \/ \E file \in Files : Begin(w, file)
    PROVE  DraftsOK'
<1>1. CASE DraftsDone(w)
    BY <1>1, StopKeeps DEF DraftsDone
<1>2. CASE DraftRunDies(w)
    BY <1>2, StopKeeps DEF DraftRunDies
<1> QED BY <1>1, <1>2, BeginKeeps, ReopenKeeps, RootKeeps, SupersedeKeeps, NotDraftedKeeps,
        UploadKeeps, SuppressionKeeps, DraftErrorKeeps, WriteResultKeeps, YieldKeeps
        DEF DraftStep

=============================================================================
