------------------------------- MODULE Mapper -------------------------------
(***************************************************************************)
(* mapping-agent (lambda/mapping-agent/handler.py): one pass over the raw  *)
(* findings on the files the pull request changes.  The findings are       *)
(* queried once, at the start, and one model call is made for each; before *)
(* its time is up a pass yields, and the state machine starts another.     *)
(***************************************************************************)
EXTENDS Scanner

CONSTANTS
    Language,        \* what each file is written in
    Corpus           \* the controls a rule may be mapped to, those of one target
                     \* type only included

\* A finding's target_type: the file's language, but for a synthesized template.
TargetType(file) == IF file \in Templates THEN "cdk" ELSE Language[file]

\* A template is CloudFormation, and its controls fit it.
Matches(file) == {TargetType(file), "any"} \cup
                    IF TargetType(file) = "cdk" THEN {"cloudformation"} ELSE {}

\* candidates_for: none for a rule the corpus does not have.
Candidates(id) == IF id.rule \notin DOMAIN Corpus THEN {}
                  ELSE {c \in Corpus[id.rule] : c.target \in Matches(id.file)}

Controls == UNION {Corpus[rule] : rule \in DOMAIN Corpus}

\* What the model may answer is any control or nothing of use (no text, another
\* finding's id); it is refused unless it is one of the candidates it was given.
Accepted(id, answer) == answer \in Candidates(id)

\* Mutant: the scope is forgotten, as on a manual run.
EveryFinding(e, id) == TRUE

\* only_files and only_prefixes: the changed files, and the templates of the CDK
\* apps the pull request touches.
InScope(e, id) ==
    records[id].file \in executions[e].changed \cup executions[e].prefixes

RawFindings(e) == {id \in DOMAIN records : records[id].status = "raw" /\ InScope(e, id)}

\* _query_raw_findings.
MapToControls(e) ==
    /\ executions[e].state = "MapToControls"
    /\ executions' = [executions EXCEPT ![e].state = "Mapping", ![e].todo = RawFindings(e)]
    /\ UNCHANGED <<history, pushes, counts, quiet, scannerVars>>

\* Mutant: another pass whenever this one yielded.
MoreIfYielded(mapped, yielded) == yielded

\* MoreToMap: another pass if this one yielded, unless nothing was mapped in it.
MoreToMap(mapped, yielded) == yielded /\ mapped # {}

\* The pass.  A finding with no candidate, one whose answer is refused and one
\* whose call fails stay raw.  The others are mapped, whatever has become of
\* their records since the query.  A pass yields before a finding that has
\* candidates, and that one stays raw too.
MapFindings(e, mapped, yielded) ==
    LET todo == executions[e].todo
    IN /\ executions[e].state = "Mapping"
       /\ \A id \in mapped : id \in todo /\ \E answer \in Controls : Accepted(id, answer)
       /\ yielded => \E id \in todo \ mapped : Candidates(id) # {}
       /\ records' = [id \in DOMAIN records |->
                        IF id \in mapped THEN [records[id] EXCEPT !.status = "mapped"]
                        ELSE records[id]]
       /\ executions' = [executions EXCEPT ![e].todo = {}, ![e].state =
            IF MoreToMap(mapped, yielded) THEN "MapToControls"
            ELSE IF Remediates(e) THEN "SelectFiles" ELSE "Report"]
       /\ Disturbs(e)
       /\ UNCHANGED <<history, pushes, counts, snapshot, seen>>

=============================================================================
