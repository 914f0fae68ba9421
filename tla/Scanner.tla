------------------------------ MODULE Scanner ------------------------------
(***************************************************************************)
(* iac-scanner (lambda/iac-scanner/handler.py) on a pull request: the      *)
(* snapshot is downloaded and scanned, which takes minutes, and then       *)
(* written over the findings the table already has.  A finding's id is its *)
(* rule, file and lines; its record keeps what people and agents decided   *)
(* about it from one scan to the next.                                     *)
(***************************************************************************)
EXTENDS Executions

CONSTANTS
    Sniffed,         \* files admitted for what is in them (.json, .template)
    ToolOf           \* the tool each rule is one of

Tools == {"trivy", "checkov", "kics"}

ASSUME ScannerAssumption ==
    /\ Sniffed \subseteq Files \ (Templates \cup Sources)
    /\ \A h \in Histories : \A k \in DOMAIN h :
          /\ IsFiniteSet(h[k].instances)
          /\ \A i \in h[k].instances :
                /\ h[k].content[i.file] # 0 /\ i.file \notin Sources
                /\ i.rule \in DOMAIN ToolOf /\ ToolOf[i.rule] \in Tools
                /\ i.file \in Templates => h[k].content[Origin[i.file]] # 0

VARIABLES
    snapshot,        \* under scans/<pr>/: the commit of the files, and of the templates
    records,         \* the findings' records, by id
    seen             \* what the last scan of each file found (observed by
                     \* properties alone)

scannerVars == <<snapshot, records, seen>>

Id(i) == [file |-> i.file, rule |-> i.rule, line |-> i.line]
Ids == [file : Files, rule : Nat, line : Nat]

Statuses == {"raw", "mapped", "fix-proposed", "resolved", "needs-human-only", "not-drafted"}

\* base is the content the proposed fix was drafted on, 0 without one.
Record == [file : Files, rule : Nat, resource : Nat, line : Nat,
           status : Statuses, base : Nat, gone : BOOLEAN]

New(i) == [file |-> i.file, rule |-> i.rule, resource |-> i.resource, line |-> i.line,
           status |-> "raw", base |-> 0, gone |-> FALSE]

----------------------------------------------------------------------------
(* The scan: what the tools report on the snapshot that was downloaded *)

\* A commit of 0 is no files.
Has(k, files) == IF k = 0 THEN {} ELSE {f \in files : history[k].content[f] # 0}

Unparsed(k, files) == {f \in Has(k, files) : f \in history[k].unparsed}

\* The templates whose app is in the snapshot that was read.
ScannedTemplates(read) == Has(read.templates, Templates)

\* A file that is sniffed and says it is a template, but is none that parses, is
\* taken out of the snapshot and named.
Unreadable(read) == Unparsed(read.files, Sniffed)

\* What there is for the tools to read: a CDK app's source is not.
Admitted(read) == (Has(read.files, Files \ (Templates \cup Sources)) \ Unreadable(read))
                     \cup ScannedTemplates(read)

\* The tools skip what they cannot parse, and so does the scanner's own reading
\* of YAML: nothing is found in such a file, which is why it is named.
ScanErrors(read) == Unparsed(read.files, Admitted(read)) \cup Unreadable(read)

On(k, files) == IF k = 0 THEN {}
                ELSE {i \in history[k].instances : i.file \in files \ history[k].unparsed}

Found(read) == On(read.files, Files \ Templates) \cup On(read.templates, Templates)

\* A tool's report, as findings, and the reports together.
Reported(tool, read) == {i \in Found(read) : ToolOf[i.rule] = tool}
Normalized(tools, read) == UNION {Reported(tool, read) : tool \in tools}

\* Mutant: a tool without a report has found nothing.
NeverRaises(failed) == FALSE

\* ScannerError: a tool that left no report one can read has not run, which is
\* not the same as having found nothing.
Raises(failed) == failed # {}

Unmarked == {id \in DOMAIN records : ~records[id].gone}

----------------------------------------------------------------------------
(* _deduplicate, _carry_moved_ids, _write_findings *)

Deduplicate(found) == [id \in {Id(i) : i \in found} |-> CHOOSE i \in found : Id(i) = id]

\* A resource of 0 is none: nothing tells two of its findings apart.
SameGroup(a, b) == /\ a.resource # 0
                   /\ <<a.file, a.rule, a.resource>> = <<b.file, b.rule, b.resource>>

Before(a, b) == \/ a.item.line < b.item.line
                \/ a.item.line = b.item.line /\ a.id.line < b.id.line

\* How many of the same group come before this one, by line.
Rank(a, group) == Cardinality({b \in group : SameGroup(a.item, b.item) /\ Before(b, a)})

\* The leftovers of the two sets, paired in line order.
Carried(unique) ==
    LET lost == {[id |-> id, item |-> records[id]] : id \in Unmarked \ DOMAIN unique}
        appeared == {[id |-> id, item |-> unique[id]] : id \in DOMAIN unique \ DOMAIN records}
    IN {p \in lost \X appeared : /\ SameGroup(p[1].item, p[2].item)
                                 /\ Rank(p[1], lost) = Rank(p[2], appeared)}

\* Mutant: the new id is left beside the old one.
CarryAndKeep(unique) ==
    LET pairs == Carried(unique)
    IN [id \in DOMAIN unique \cup {p[1].id : p \in pairs} |->
          IF id \in DOMAIN unique THEN unique[id]
          ELSE (CHOOSE p \in pairs : p[1].id = id)[2].item]

\* A finding that only moved lines is written under its old id.
CarryMovedIds(unique) ==
    LET pairs == Carried(unique)
        kept  == DOMAIN unique \ {p[2].id : p \in pairs}
    IN [id \in kept \cup {p[1].id : p \in pairs} |->
          IF id \in kept THEN unique[id] ELSE (CHOOSE p \in pairs : p[1].id = id)[2].item]

\* Scanner-owned fields are refreshed and decided ones kept; what stopped firing
\* is marked, but for a template that was not synthesized this time.
Written(unique, templates) ==
    [id \in DOMAIN records \cup DOMAIN unique |->
        IF id \in DOMAIN unique
        THEN LET i == unique[id]
             IN IF id \in DOMAIN records
                THEN [records[id] EXCEPT !.resource = i.resource, !.line = i.line, !.gone = FALSE]
                ELSE New(i)
        ELSE LET held == records[id].file \in Templates /\ templates = {}
             IN [records[id] EXCEPT !.gone = @ \/ ~held]]

\* The snapshot is downloaded.  With nothing in it, an execution that allows
\* that goes on without a scan, and any other fails.
Scan(e) ==
    /\ executions[e].state = "Scan"
    /\ executions' = [executions EXCEPT ![e].read = snapshot,
         ![e].state = IF Admitted(snapshot) # {} THEN "WriteFindings"
                      ELSE IF executions[e].allowEmpty /\ Unreadable(snapshot) = {}
                      THEN "MapToControls" ELSE "Failed"]
    /\ UNCHANGED <<history, pushes, counts, quiet, scannerVars>>

\* The tools have run, those in failed without leaving a report.
WriteFindings(e, failed) ==
    LET read == executions[e].read
        templates == ScannedTemplates(read)
    IN /\ executions[e].state = "WriteFindings"
       /\ ~Raises(failed)
       /\ \E unique \in {Deduplicate(Normalized(Tools \ failed, read))} :
             records' = Written(CarryMovedIds(unique), templates)
       /\ seen' = {i \in seen : i.file \in Templates /\ templates = {}} \cup Found(read)
       /\ executions' = [executions EXCEPT ![e].state = "MapToControls", ![e].scanned = TRUE,
                                           ![e].errors = ScanErrors(read)]
       /\ Disturbs(e)
       /\ UNCHANGED <<history, pushes, counts, snapshot>>

\* A tool has not run: nothing is written, and the execution fails.
ScannerError(e, failed) ==
    /\ executions[e].state = "WriteFindings"
    /\ Raises(failed)
    /\ Fault
    /\ End(e, "Failed")
    /\ UNCHANGED <<history, pushes, quiet, scannerVars>>

=============================================================================
