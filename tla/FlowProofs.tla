----------------------------- MODULE FlowProofs -----------------------------
(***************************************************************************)
(* Flow, for every history of commits, every number of executions and any  *)
(* faults.  IInv is the inductive invariant: the type, what an execution   *)
(* knows of its check run, and that a check run says what was found only   *)
(* once its execution is past the states in which that can change.         *)
(* ScopeInv says what an execution may map and what it has scanned, and    *)
(* ScanInv that the records are what was found.  CarriedOK says of an id   *)
(* that was carried to another line that it will be again, QuietInv what   *)
(* an execution nobody disturbs has read, and WorkInv what is left to      *)
(* draft for the one a button starts.  The two record stores do alike on   *)
(* every item a finding can be.                                            *)
(***************************************************************************)
EXTENDS FlowStores, FiniteSetTheorems, TLAPS

----------------------------------------------------------------------------
(* The two stores of the RecordStore port do alike, for every item with a     *)
(* key, every condition the port has and every update DynamoDB accepts        *)

\* The conditions there are.
Operators == {"always", "StatusIn", "Exists", "Missing", "Absent"}

\* No item is the one without an sk.
LEMMA KeyOfItem ==
    ASSUME NEW item, HasKey(item)
    PROVE  attribute_not_exists(item, "sk") <=> item = NoItem
<1>1. CASE item = NoItem
    BY <1>1 DEF attribute_not_exists, NoItem
<1>2. CASE item # NoItem
    BY <1>2 DEF attribute_not_exists, HasKey, KeyAttributes
<1> QED BY <1>1, <1>2

\* An expression's condition holds of the items the port's does.
LEMMA ConditionsAgree ==
    ASSUME NEW item, HasKey(item), NEW c, c.op \in Operators
    PROVE  Condition(c, item) <=> Holds(c, item)
<1>1. attribute_not_exists(item, "sk") <=> item = NoItem
    BY KeyOfItem
<1>2. DOMAIN NoItem = {}
    BY DEF NoItem
<1>3. InnerExpression(c, item) <=> Inner(c, item)
    <2>1. CASE c.op = "always"
        BY <2>1 DEF InnerExpression, Inner
    <2>2. CASE c.op = "StatusIn"
        <3>1. HasStatus(item, c.statuses) => item # NoItem
            BY <1>2 DEF HasStatus
        <3> QED BY <2>2, <3>1 DEF InnerExpression, Inner
    <2>3. CASE c.op = "Exists"
        BY <1>2, <2>3 DEF InnerExpression, Inner, attribute_exists
    <2>4. CASE c.op = "Missing"
        BY <1>2, <2>4 DEF InnerExpression, Inner, attribute_not_exists
    <2>5. CASE c.op = "Absent"
        BY <1>1, <2>5 DEF InnerExpression, Inner
    <2> QED BY <2>1, <2>2, <2>3, <2>4, <2>5 DEF Operators
<1> QED BY <1>1, <1>3 DEF Condition, Holds

\* A path fails on the item as it was if and only if it fails once the
\* attributes are set.
LEMMA PathsAgree ==
    ASSUME NEW item, HasKey(item), NEW key, DOMAIN key = KeyAttributes,
           NEW u, ~Overlaps(u)
    PROVE  /\ InvalidPath(u, item) <=> PathsFail(u, WithSet(u, item, key))
           /\ ~InvalidPath(u, item) =>
                 \A a \in Parents(u) : /\ item # NoItem
                                       /\ a \in DOMAIN WithSet(u, item, key)
                                       /\ WithSet(u, item, key)[a] = item[a]
<1> DEFINE old == IF item = NoItem THEN key ELSE item
           set == WithSet(u, item, key)
<1>1. DOMAIN NoItem = {}
    BY DEF NoItem
<1>2. \A a \in Parents(u) : a \notin DOMAIN u.set /\ a \notin KeyAttributes
    BY DEF Overlaps
<1>3. DOMAIN set = DOMAIN old \cup DOMAIN u.set
    BY DEF WithSet
<1>4. \A a \in Parents(u) : a \in DOMAIN set => item # NoItem /\ a \in DOMAIN item /\ set[a] = item[a]
    BY <1>2, <1>3 DEF WithSet
<1>5. \A a \in Parents(u) : a \in DOMAIN item => item # NoItem /\ a \in DOMAIN set
    BY <1>1, <1>3
<1> HIDE DEF set
<1>6. InvalidPath(u, item) <=> PathsFail(u, set)
    BY <1>4, <1>5 DEF InvalidPath, PathsFail, attribute_exists
<1>7. ~InvalidPath(u, item) =>
        \A a \in Parents(u) : item # NoItem /\ a \in DOMAIN set /\ set[a] = item[a]
    BY <1>4, <1>5 DEF InvalidPath, attribute_exists
<1> QED BY <1>6, <1>7 DEF set

\* Where no path fails, the expression writes what the parts write one after the
\* other.
LEMMA ItemsAgree ==
    ASSUME NEW item, HasKey(item), NEW key, DOMAIN key = KeyAttributes,
           NEW u, ~Overlaps(u), ~InvalidPath(u, item)
    PROVE  Expression(u, item, key)
             = WithRemoved(u, WithAbsent(u, WithPaths(u, WithSet(u, item, key))))
<1> DEFINE old    == IF item = NoItem THEN key ELSE item
           set    == WithSet(u, item, key)
           paths  == WithPaths(u, set)
           absent == WithAbsent(u, paths)
           memory == WithRemoved(u, absent)
           dynamo == Expression(u, item, key)
           all    == (DOMAIN old \cup DOMAIN u.set \cup DOMAIN u.ifAbsent) \ u.remove
<1>1. DOMAIN NoItem = {}
    BY DEF NoItem
<1>2. /\ DOMAIN set = DOMAIN old \cup DOMAIN u.set
      /\ \A a \in DOMAIN set : set[a] = IF a \in DOMAIN u.set THEN u.set[a] ELSE old[a]
    BY DEF WithSet
<1>3. \A a \in Parents(u) : a \in DOMAIN set /\ set[a] = item[a] /\ a \notin DOMAIN u.set
    BY PathsAgree DEF Overlaps
<1> HIDE DEF set
<1>4. /\ DOMAIN paths = DOMAIN set
      /\ \A a \in DOMAIN set :
            paths[a] = IF a \in Parents(u) THEN Below(u, a, set[a]) ELSE set[a]
    BY DEF WithPaths
<1> HIDE DEF paths
<1>5. /\ DOMAIN absent = DOMAIN paths \cup DOMAIN u.ifAbsent
      /\ \A a \in DOMAIN absent :
            absent[a] = IF a \in DOMAIN paths THEN paths[a] ELSE u.ifAbsent[a]
    BY DEF WithAbsent
<1> HIDE DEF absent
<1>6. memory = [a \in all |-> absent[a]]
    BY <1>2, <1>4, <1>5 DEF WithRemoved
<1>7. dynamo = [a \in all |->
          CASE a \in DOMAIN u.set      -> u.set[a]
            [] a \in Parents(u)        -> Below(u, a, item[a])
            [] a \in DOMAIN u.ifAbsent -> if_not_exists(item, a, u.ifAbsent[a])
            [] OTHER                   -> old[a]]
    BY DEF Expression
<1>8. ASSUME NEW a \in all
      PROVE  dynamo[a] = memory[a]
    <2>0. memory[a] = absent[a]
        BY <1>6
    <2>1. CASE a \in DOMAIN u.set
        <3>1. dynamo[a] = u.set[a]
            <4>1. a \notin Parents(u) /\ a \notin DOMAIN u.ifAbsent
                BY <2>1 DEF Overlaps
            <4> QED BY <1>7, <2>1, <4>1
        <3>2. absent[a] = u.set[a]
            BY <1>2, <1>3, <1>4, <1>5, <2>1
        <3> QED BY <2>0, <3>1, <3>2
    <2>2. CASE a \in Parents(u)
        <3>1. a \notin DOMAIN u.set /\ a \notin DOMAIN u.ifAbsent
            BY <2>2 DEF Overlaps
        <3>2. dynamo[a] = Below(u, a, item[a])
            BY <1>7, <2>2, <3>1
        <3>3. absent[a] = Below(u, a, item[a])
            BY <1>3, <1>4, <1>5, <2>2
        <3> QED BY <2>0, <3>2, <3>3
    <2>3. CASE a \notin DOMAIN u.set /\ a \notin Parents(u) /\ a \in DOMAIN u.ifAbsent
        <3>1. dynamo[a] = IF a \in DOMAIN item THEN item[a] ELSE u.ifAbsent[a]
            BY <1>7, <2>3 DEF if_not_exists, attribute_exists
        <3>2. a \notin KeyAttributes
            BY <2>3 DEF Overlaps
        <3>3. absent[a] = IF a \in DOMAIN old THEN old[a] ELSE u.ifAbsent[a]
            BY <1>2, <1>4, <1>5, <2>3
        <3> QED BY <1>1, <2>0, <3>1, <3>2, <3>3
    <2>4. CASE a \notin DOMAIN u.set /\ a \notin Parents(u) /\ a \notin DOMAIN u.ifAbsent
        <3>1. dynamo[a] = old[a]
            BY <1>7, <2>4
        <3>2. a \in DOMAIN old
            BY <2>4
        <3>3. absent[a] = old[a]
            BY <1>2, <1>4, <1>5, <2>4, <3>2
        <3> QED BY <2>0, <3>1, <3>3
    <2> QED BY <2>1, <2>2, <2>3, <2>4
<1> HIDE DEF all, memory, dynamo
<1>9. memory = [a \in all |-> memory[a]] /\ dynamo = [a \in all |-> dynamo[a]]
    BY <1>6, <1>7
<1>10. memory = dynamo
    BY <1>8, <1>9
<1> QED BY <1>10 DEF memory, dynamo, absent, paths, set

\* Whatever is written to whatever is there, under whatever condition: DynamoDB
\* and the store in memory come to the same result and leave the same item
\* (RecordStore.update).
THEOREM UpdatesAgree ==
    ASSUME NEW item, HasKey(item), NEW key, DOMAIN key = KeyAttributes,
           NEW u, ~Overlaps(u), NEW c, c.op \in Operators
    PROVE  DynamoUpdate(item, key, u, c) = MemoryUpdate(item, key, u, c)
<1>1. Condition(c, item) <=> Holds(c, item)
    BY ConditionsAgree
<1>2. InvalidPath(u, item) <=> PathsFail(u, WithSet(u, item, key))
    BY PathsAgree
<1>3. ~InvalidPath(u, item) =>
        Expression(u, item, key) = WithRemoved(u, WithAbsent(u, WithPaths(u, WithSet(u, item, key))))
    BY ItemsAgree
<1> QED BY <1>1, <1>2, <1>3 DEF DynamoUpdate, MemoryUpdate

\* The same of a put (RecordStore.put).
THEOREM PutsAgree ==
    ASSUME NEW item, HasKey(item), NEW new, NEW unlessExists \in BOOLEAN
    PROVE  DynamoPut(item, new, unlessExists) = MemoryPut(item, new, unlessExists)
BY KeyOfItem DEF DynamoPut, MemoryPut, attribute_exists, attribute_not_exists

----------------------------------------------------------------------------
(* The items and the writes of FlowStores meet what the stores ask of both *)

\* An attribute more is that attribute more.
LEMMA WithAttribute ==
    \A item, a, value : DOMAIN With(item, a, value) = DOMAIN item \cup {a}
BY DEF With

\* Every item there is, is one of the table: it has a key, or there is none.
LEMMA ItemsHaveKeys ==
    ASSUME NEW item \in Findings \cup Requests \cup {NoItem}
    PROVE  HasKey(item)
<1>1. DOMAIN Key = KeyAttributes
    BY DEF Key, KeyAttributes
<1>2. \A status : DOMAIN Request(status) = KeyAttributes \cup {"status"}
    BY <1>1, WithAttribute DEF Request
<1>3. ASSUME NEW status, NEW fixed, NEW gone
      PROVE  KeyAttributes \subseteq DOMAIN Finding(status, fixed, gone)
    <2> DEFINE found == With(With(Request(status), "line_range", Plain(1)),
                             "proposed_fix", ProposedFix(fixed))
    <2>1. DOMAIN found = DOMAIN With(Request(status), "line_range", Plain(1)) \cup {"proposed_fix"}
        BY WithAttribute
    <2>2. DOMAIN With(Request(status), "line_range", Plain(1))
            = DOMAIN Request(status) \cup {"line_range"}
        BY WithAttribute
    <2>3. DOMAIN With(found, "no_longer_detected", Plain("then"))
            = DOMAIN found \cup {"no_longer_detected"}
        BY WithAttribute
    <2> QED BY <1>2, <2>1, <2>2, <2>3 DEF Finding
<1> QED BY <1>2, <1>3 DEF HasKey, Findings, Requests

\* Two updates apart, by the attributes each part is about.
LEMMA Apart ==
    ASSUME NEW u, NEW set, NEW parents, NEW ifAbsent,
           DOMAIN u.set = set, Parents(u) = parents, DOMAIN u.ifAbsent = ifAbsent,
           set \cap (parents \cup ifAbsent \cup u.remove) = {},
           parents \cap (ifAbsent \cup u.remove) = {},
           ifAbsent \cap u.remove = {},
           {"pk", "sk"} \cap (set \cup parents \cup ifAbsent \cup u.remove) = {}
    PROVE  ~Overlaps(u)
BY DEF Overlaps, KeyAttributes

LEMMA OneAttribute ==
    /\ DOMAIN None = {}
    /\ \A a, value : DOMAIN One(a, value) = {a}
<1>1. DOMAIN None = {}
    BY DEF None, NoItem
<1>2. ASSUME NEW a, NEW value PROVE DOMAIN One(a, value) = {a}
    <2>1. DOMAIN One(a, value) = DOMAIN None \cup {a}
        BY WithAttribute DEF One
    <2> QED BY <1>1, <2>1
<1> QED BY <1>1, <1>2

\* Every handler's write is one DynamoDB accepts, under a condition the port has.
LEMMA WritesAreAccepted ==
    ASSUME NEW w \in Writes
    PROVE  ~Overlaps(w.update) /\ w.condition.op \in Operators
<1> DEFINE u == w.update
<1>1. CASE w = Rescanned
    <2>1. /\ u.set = One("line_range", 2)
          /\ u.ifAbsent = With(One("status", "raw"), "proposed_fix", Plain("null"))
          /\ u.remove = {"no_longer_detected"}
        BY <1>1 DEF Rescanned, Write, Update
    <2>2. DOMAIN u.set = {"line_range"} /\ DOMAIN u.ifAbsent = {"status"} \cup {"proposed_fix"}
        <3>1. DOMAIN With(One("status", "raw"), "proposed_fix", Plain("null"))
                = DOMAIN One("status", "raw") \cup {"proposed_fix"}
            BY WithAttribute, Zenon
        <3> QED BY <2>1, <3>1, OneAttribute
    <2>3. Parents(u) = {}
        BY <1>1, OneAttribute DEF Parents, Rescanned, Write, Update
    <2>4. ~Overlaps(u)
        BY <2>1, <2>2, <2>3, Apart
    <2>5. w.condition.op \in Operators
        BY <1>1 DEF Rescanned, Write, Always, If, Operators
    <2> QED BY <2>4, <2>5
<1>2. CASE w = MarkedGone
    <2>1. u.set = One("no_longer_detected", "now") /\ u.ifAbsent = None /\ u.remove = {}
        BY <1>2 DEF MarkedGone, Write, Update
    <2>2. DOMAIN u.set = {"no_longer_detected"} /\ DOMAIN u.ifAbsent = {}
        BY <2>1, OneAttribute
    <2>3. Parents(u) = {}
        BY <1>2, OneAttribute DEF Parents, MarkedGone, Write, Update
    <2>4. ~Overlaps(u)
        BY <2>1, <2>2, <2>3, Apart
    <2>5. w.condition.op \in Operators
        BY <1>2 DEF MarkedGone, Write, Missing, If, Operators
    <2> QED BY <2>4, <2>5
<1>3. CASE w = Reopened("fix-proposed") \/ w = Reopened("resolved")
    <2>1. u.set = One("status", "mapped") /\ u.ifAbsent = None /\ u.remove = {}
        BY <1>3 DEF Reopened, Write, Update
    <2>2. DOMAIN u.set = {"status"} /\ DOMAIN u.ifAbsent = {}
        BY <2>1, OneAttribute
    <2>3. Parents(u) = {"proposed_fix"}
        BY <1>3, OneAttribute DEF Parents, Reopened, Write, Update
    <2>4. ~Overlaps(u)
        BY <2>1, <2>2, <2>3, Apart
    <2>5. w.condition.op \in Operators
        BY <1>3 DEF Reopened, Write, StatusIn, If, Operators
    <2> QED BY <2>4, <2>5
<1>4. CASE w = MappedTo
    <2>1. /\ u.set = With(One("status", "mapped"), "control_mappings", Plain("control"))
          /\ u.ifAbsent = None /\ u.remove = {"unmapped_reason"}
        BY <1>4 DEF MappedTo, Write, Update
    <2>2. DOMAIN u.set = {"status"} \cup {"control_mappings"} /\ DOMAIN u.ifAbsent = {}
        <3>1. DOMAIN With(One("status", "mapped"), "control_mappings", Plain("control"))
                = DOMAIN One("status", "mapped") \cup {"control_mappings"}
            BY WithAttribute, Zenon
        <3> QED BY <2>1, <3>1, OneAttribute
    <2>3. Parents(u) = {}
        BY <1>4, OneAttribute DEF Parents, MappedTo, Write, Update
    <2>4. ~Overlaps(u)
        BY <2>1, <2>2, <2>3, Apart
    <2>5. w.condition.op \in Operators
        BY <1>4 DEF MappedTo, Write, Always, If, Operators
    <2> QED BY <2>4, <2>5
<1>5. CASE w \in {Resolved, Claimed, Finished}
    <2>1. PICK status : u.set = One("status", status) /\ u.ifAbsent = None /\ u.remove = {}
        BY <1>5 DEF Resolved, Claimed, Finished, Write, Update
    <2>2. DOMAIN u.set = {"status"} /\ DOMAIN u.ifAbsent = {}
        BY <2>1, OneAttribute
    <2>3. Parents(u) = {}
        BY <1>5, OneAttribute DEF Parents, Resolved, Claimed, Finished, Write, Update
    <2>4. ~Overlaps(u)
        BY <2>1, <2>2, <2>3, Apart
    <2>5. w.condition.op \in Operators
        BY <1>5 DEF Resolved, Claimed, Finished, Write, StatusIn, If, Operators
    <2> QED BY <2>4, <2>5
<1>6. CASE w = RecordedCommit
    <2>1. u.set = None /\ u.ifAbsent = None /\ u.remove = {}
        BY <1>6 DEF RecordedCommit, Write, Update
    <2>2. DOMAIN u.set = {} /\ DOMAIN u.ifAbsent = {}
        BY <2>1, OneAttribute
    <2>3. Parents(u) = {"proposed_fix"}
        BY <1>6, OneAttribute DEF Parents, RecordedCommit, Write, Update
    <2>4. ~Overlaps(u)
        BY <2>1, <2>2, <2>3, Apart
    <2>5. w.condition.op \in Operators
        BY <1>6 DEF RecordedCommit, Write, Exists, If, Operators
    <2> QED BY <2>4, <2>5
<1>7. CASE w = Backstopped
    <2>1. u.set = One("status", "failed") /\ u.ifAbsent = None /\ u.remove = {}
        BY <1>7 DEF Backstopped, Write, Update
    <2>2. DOMAIN u.set = {"status"} /\ DOMAIN u.ifAbsent = {}
        BY <2>1, OneAttribute
    <2>3. Parents(u) = {}
        BY <1>7, OneAttribute DEF Parents, Backstopped, Write, Update
    <2>4. ~Overlaps(u)
        BY <2>1, <2>2, <2>3, Apart
    <2>5. w.condition.op \in Operators
        BY <1>7 DEF Backstopped, Write, StatusIn, AbsentOr, If, Operators
    <2> QED BY <2>4, <2>5
<1> QED BY <1>1, <1>2, <1>3, <1>4, <1>5, <1>6, <1>7 DEF Writes

\* So the stores do alike on every item, whatever is written.
LEMMA AllAlike == Findings \cup Requests \cup {NoItem} \subseteq Alike
<1> SUFFICES ASSUME NEW item \in Findings \cup Requests \cup {NoItem}
             PROVE  item \in Alike
    OBVIOUS
<1>1. HasKey(item)
    BY ItemsHaveKeys
<1>2. DOMAIN Key = KeyAttributes
    BY DEF Key, KeyAttributes
<1>3. ASSUME NEW w \in Writes
      PROVE  DynamoUpdate(item, Key, w.update, w.condition)
                = MemoryUpdate(item, Key, w.update, w.condition)
    BY <1>1, <1>2, WritesAreAccepted, UpdatesAgree
<1>4. DynamoPut(item, Request("requested"), TRUE) = MemoryPut(item, Request("requested"), TRUE)
    BY <1>1, PutsAgree
<1> QED BY <1>3, <1>4 DEF Alike

----------------------------------------------------------------------------
(* The inductive invariant *)

\* What an execution is, whatever its bounds.
Run == [head : Nat, trigger : Trigger, parent : Nat, state : Tasks \cup Ended, check : Nat,
        status : {"ok", "too_large", "too_many", "empty"}, changed : SUBSET Files,
        prefixes : SUBSET Templates, allowEmpty : BOOLEAN, read : [files : Nat, templates : Nat],
        scanned : BOOLEAN, errors : SUBSET Files, todo : SUBSET Ids, files : SUBSET Files,
        left : SUBSET Files]

\* Until it selects its files an execution has none.
Selecting == {"Fetch", "Snapshot", "Synthesize", "Scan", "WriteFindings", "MapToControls",
              "Mapping", "SelectFiles"}

\* Where the status is settled: from here an execution reports or has ended.
Reporting == {"Report", "Complete", "RecordOffer"} \cup Ended

Sound(x) == /\ x.state = "Remediate" => x.left # {} /\ x.left \subseteq x.files
            /\ x.files \subseteq x.changed
            /\ x.state \in Selecting => x.files = {}

Within(x) == x.head \in 1..pushes /\ x.read.files <= pushes /\ x.read.templates <= pushes

PullOK == /\ history \in Histories /\ pushes \in 1..Len(history)
          /\ snapshot \in [files : 0..pushes, templates : 0..pushes]

RecordsOK == \A id \in DOMAIN records : id \in Ids /\ records[id] \in Record

ExecutionsOK ==
    /\ executions \in Seq(Run)
    /\ \A e \in 1..Len(executions) :
          Sound(executions[e]) /\ Within(executions[e]) /\ executions[e].parent <= Len(executions)

ChecksOK ==
    /\ checkRuns \in Seq(CheckRun)
    /\ \A c \in 1..Len(checkRuns) :
          LET r == checkRuns[c]
          IN /\ r.execution \in 1..Len(executions)
             /\ r.says \in {"findings", "not-scanned"} =>
                  /\ r.status = "completed"
                  /\ executions[r.execution].state \in Reporting
                  /\ r.says = "findings" <=> executions[r.execution].status = "ok"

KnownOK ==
    \A e \in 1..Len(executions) :
        /\ executions[e].check <= Len(checkRuns)
        /\ executions[e].state \in Tasks \ {"Fetch"} =>
              /\ executions[e].check \in 1..Len(checkRuns)
              /\ checkRuns[executions[e].check].execution = e

IInv == PullOK /\ RecordsOK /\ ExecutionsOK /\ ChecksOK /\ KnownOK /\ reviews \in Seq(Nat)

\* Execution e goes on as x.
Moves(e, x) ==
    /\ executions' = [executions EXCEPT ![e] = x]
    /\ x \in Run /\ Sound(x)
    /\ x.read.files <= pushes /\ x.read.templates <= pushes
    /\ x.head = executions[e].head /\ x.trigger = executions[e].trigger
    /\ x.parent = executions[e].parent /\ x.check = executions[e].check
    /\ x.state \in Tasks \ {"Fetch"} => executions[e].state \in Tasks \ {"Fetch"}
    /\ executions[e].state \in Reporting =>
          x.state \in Reporting /\ x.status = executions[e].status

----------------------------------------------------------------------------
(* How a step moves an execution *)

\* An execution that moves, the others and the check runs staying, keeps what is
\* said of the executions and of what a check run says.
LEMMA Moved ==
    ASSUME IInv, NEW e \in 1..Len(executions), NEW x, Moves(e, x),
           UNCHANGED <<pushes, checkRuns>>
    PROVE  ExecutionsOK' /\ ChecksOK' /\ KnownOK'
<1>1. executions' \in Seq(Run) /\ Len(executions') = Len(executions)
    BY DEF IInv, ExecutionsOK, Moves
<1>2. \A d \in 1..Len(executions) : executions'[d] = IF d = e THEN x ELSE executions[d]
    BY DEF IInv, ExecutionsOK, Moves
<1>3. ExecutionsOK'
    BY <1>1, <1>2 DEF IInv, ExecutionsOK, Moves, Within
<1>4. ChecksOK'
    BY <1>1, <1>2 DEF IInv, ChecksOK, Moves
<1>5. KnownOK'
    BY <1>1, <1>2 DEF IInv, KnownOK, Moves
<1> QED BY <1>3, <1>4, <1>5

\* What the invariant says of one execution, of one commit and of a path.
LEMMA EachRun ==
    ASSUME IInv, NEW e \in 1..Len(executions)
    PROVE  executions[e] \in Run /\ Sound(executions[e]) /\ Within(executions[e])
BY DEF IInv, ExecutionsOK

LEMMA EachCommit ==
    ASSUME PullOK, NEW k \in 1..pushes
    PROVE  history[k] \in Commit
BY ExecutionsAssumption DEF PullOK

LEMMA WorkFileType ==
    ASSUME NEW f \in Files
    PROVE  WorkFile(f) \in Files
BY ExecutionsAssumption DEF WorkFile

LEMMA SourcesType == Sources \subseteq Files
BY ExecutionsAssumption DEF Sources

\* A state that only follows another.
LEMMA GotoMoves ==
    ASSUME IInv, NEW e \in 1..Len(executions), NEW state \in Tasks \cup Ended, Goto(e, state),
           state # "Remediate",
           executions[e].state \in Selecting \/ state \notin Selecting,
           executions[e].state \in Reporting => state \in Reporting,
           state = "Fetch" \/ executions[e].state \in Tasks \ {"Fetch"}
    PROVE  \E x : Moves(e, x)
<1> DEFINE x == [executions[e] EXCEPT !.state = state]
<1>1. executions[e] \in Run /\ Sound(executions[e]) /\ Within(executions[e])
    BY EachRun
<1>2. executions' = [executions EXCEPT ![e] = x]
    BY DEF Goto
<1>3. x \in Run
    BY <1>1 DEF Run
<1>4. Sound(x)
    BY <1>1 DEF Sound, Run, Selecting
<1>5. Moves(e, x)
    BY <1>1, <1>2, <1>3, <1>4 DEF Moves, Within, Run
<1> QED BY <1>5

\* An execution that ends.
LEMMA EndMoves ==
    ASSUME IInv, NEW e \in 1..Len(executions), NEW state \in Ended, End(e, state)
    PROVE  \E x : Moves(e, x)
<1> DEFINE old == executions[e]
           x == [old EXCEPT !.state = state, !.changed = {}, !.prefixes = {}, !.todo = {},
                            !.files = {}, !.left = {}, !.errors = {}, !.read = NoRead]
<1>1. old \in Run /\ Sound(old) /\ Within(old)
    BY EachRun
<1>2. executions' = [executions EXCEPT ![e] = x]
    BY DEF End
<1>3. x \in Run
    BY <1>1 DEF Run, NoRead
<1>4. Sound(x) /\ x.read = NoRead /\ x.state \in Ended
    BY <1>1 DEF Sound, Run, Selecting, Ended
<1>5. /\ x.head = old.head /\ x.trigger = old.trigger
      /\ x.parent = old.parent /\ x.check = old.check /\ x.status = old.status
    BY <1>1 DEF Run
<1> HIDE DEF x
<1>6. Moves(e, x)
    BY <1>2, <1>3, <1>4, <1>5 DEF Moves, NoRead, IInv, PullOK, Tasks, Ended, Reporting
<1> QED BY <1>6

\* What a commit is scanned for are files.
LEMMA SnapshottedType ==
    ASSUME IInv, NEW k \in 1..pushes
    PROVE  /\ Kept(k) \subseteq Files /\ Snapshotted(k) \subseteq Files
           /\ ChangedFiles(k) \subseteq Files
BY SourcesType DEF Kept, Snapshotted, ChangedFiles

\* The states that do something, each with what it makes of its execution.
LEMMA SnapshotMoves ==
    ASSUME IInv, NEW e \in 1..Len(executions), Snapshot(e)
    PROVE  \E x : Moves(e, x)
<1> DEFINE old == executions[e]
           k   == old.head
           st  == FetchStatus(k)
           x   == IF st # "ok" THEN [old EXCEPT !.status = st, !.state = "Report"]
                  ELSE [old EXCEPT !.changed = ChangedFiles(k),
                           !.prefixes = IF history[k].app THEN TouchedTemplates ELSE {},
                           !.allowEmpty = (Kept(k) = {}),
                           !.state = IF history[k].app THEN "Synthesize" ELSE "Scan"]
<1>1. old \in Run /\ Sound(old) /\ Within(old) /\ k \in 1..pushes /\ old.state = "Snapshot"
    BY EachRun DEF Within, Snapshot
<1>2. executions' = [executions EXCEPT ![e] = x]
    BY DEF Snapshot
<1>3. st \in {"ok", "too_large", "too_many", "empty"}
    BY DEF FetchStatus
<1>4. ChangedFiles(k) \subseteq Files /\ TouchedTemplates \subseteq Templates
    BY <1>1, SnapshottedType DEF TouchedTemplates
<1>5. \A b \in BOOLEAN, s \in {"Synthesize", "Scan"}, p \in SUBSET Templates :
        [old EXCEPT !.changed = ChangedFiles(k), !.prefixes = p, !.allowEmpty = b,
                    !.state = s] \in Run
    BY <1>1, <1>4 DEF Run, Tasks
<1>6. [old EXCEPT !.status = st, !.state = "Report"] \in Run
    BY <1>1, <1>3 DEF Run, Tasks
<1>7. x \in Run
    <2>1. (Kept(k) = {}) \in BOOLEAN
        OBVIOUS
    <2>2. (IF history[k].app THEN TouchedTemplates ELSE {}) \in SUBSET Templates
        BY <1>4
    <2>3. (IF history[k].app THEN "Synthesize" ELSE "Scan") \in {"Synthesize", "Scan"}
        OBVIOUS
    <2> QED BY <1>5, <1>6, <2>1, <2>2, <2>3
<1>8. /\ x.files = {} /\ x.state # "Remediate" /\ x.read = old.read
      /\ x.head = old.head /\ x.trigger = old.trigger
      /\ x.parent = old.parent /\ x.check = old.check
    BY <1>1 DEF Run, Sound, Selecting
<1> HIDE DEF x, st
<1>9. Moves(e, x)
    BY <1>1, <1>2, <1>7, <1>8 DEF Moves, Within, Sound, Reporting, Ended, Tasks
<1> QED BY <1>9

LEMMA ScanMoves ==
    ASSUME IInv, NEW e \in 1..Len(executions), Scan(e)
    PROVE  \E x : Moves(e, x)
<1> DEFINE old == executions[e]
           next == IF Admitted(snapshot) # {} THEN "WriteFindings"
                   ELSE IF old.allowEmpty /\ Unreadable(snapshot) = {}
                   THEN "MapToControls" ELSE "Failed"
           x   == [old EXCEPT !.read = snapshot, !.state = next]
<1>1. old \in Run /\ Sound(old) /\ Within(old) /\ old.state = "Scan"
    BY EachRun DEF Scan
<1>2. executions' = [executions EXCEPT ![e] = x]
    BY DEF Scan
<1>3. next \in {"WriteFindings", "MapToControls", "Failed"}
    OBVIOUS
<1> HIDE DEF next
<1>4. /\ snapshot \in [files : Nat, templates : Nat]
      /\ snapshot.files <= pushes /\ snapshot.templates <= pushes
    BY DEF IInv, PullOK
<1>5. x \in Run /\ x.read = snapshot /\ x.state = next /\ x.files = {}
      /\ x.head = old.head /\ x.trigger = old.trigger
      /\ x.parent = old.parent /\ x.check = old.check
    BY <1>1, <1>3, <1>4 DEF Run, Tasks, Ended, Sound, Selecting
<1> HIDE DEF x
<1>6. Moves(e, x)
    BY <1>1, <1>2, <1>3, <1>4, <1>5 DEF Moves, Within, Sound, Reporting, Ended, Tasks
<1> QED BY <1>6

LEMMA WriteFindingsMoves ==
    ASSUME IInv, NEW e \in 1..Len(executions), NEW failed, WriteFindings(e, failed)
    PROVE  \E x : Moves(e, x)
<1> DEFINE old == executions[e]
           errors == ScanErrors(old.read)
           x   == [old EXCEPT !.state = "MapToControls", !.scanned = TRUE, !.errors = errors]
<1>1. old \in Run /\ Sound(old) /\ Within(old) /\ old.state = "WriteFindings"
    BY EachRun DEF WriteFindings
<1>2. executions' = [executions EXCEPT ![e] = x]
    BY DEF WriteFindings
<1>3. errors \subseteq Files
    BY ScannerAssumption, ExecutionsAssumption
    DEF ScanErrors, Unparsed, Unreadable, Admitted, Has, ScannedTemplates
<1> HIDE DEF errors
<1>4. x \in Run /\ x.read = old.read /\ x.state = "MapToControls" /\ x.files = {}
      /\ x.head = old.head /\ x.trigger = old.trigger
      /\ x.parent = old.parent /\ x.check = old.check
    BY <1>1, <1>3 DEF Run, Tasks, Sound, Selecting
<1> HIDE DEF x
<1>5. Moves(e, x)
    BY <1>1, <1>2, <1>4 DEF Moves, Within, Sound, Reporting, Ended, Tasks
<1> QED BY <1>5

LEMMA MappingMoves ==
    ASSUME IInv, NEW e \in 1..Len(executions),
           \/ MapToControls(e)
           \/ \E mapped, yielded : MapFindings(e, mapped, yielded)
    PROVE  \E x : Moves(e, x)
<1> DEFINE old == executions[e]
           x(todo, state) == [old EXCEPT !.todo = todo, !.state = state]
<1>1. old \in Run /\ Sound(old) /\ Within(old)
    BY EachRun
<1>2. old.state \in {"MapToControls", "Mapping"}
    BY DEF MapToControls, MapFindings
<1>3. \E todo \in SUBSET Ids, state \in {"Mapping", "MapToControls", "SelectFiles", "Report"} :
            executions' = [executions EXCEPT ![e] = x(todo, state)]
    <2>1. CASE MapToControls(e)
        <3>1. RawFindings(e) \in SUBSET Ids
            BY DEF RawFindings, IInv, RecordsOK
        <3>2. executions' = [executions EXCEPT ![e] = x(RawFindings(e), "Mapping")]
            BY <2>1 DEF MapToControls
        <3> QED BY <3>1, <3>2
    <2>2. ASSUME NEW mapped, NEW yielded, MapFindings(e, mapped, yielded)
          PROVE  \E todo \in SUBSET Ids,
                    state \in {"Mapping", "MapToControls", "SelectFiles", "Report"} :
                    executions' = [executions EXCEPT ![e] = x(todo, state)]
        <3> DEFINE next == IF MoreToMap(mapped, yielded) THEN "MapToControls"
                           ELSE IF Remediates(e) THEN "SelectFiles" ELSE "Report"
        <3>1. executions' = [executions EXCEPT ![e] = x({}, next)]
            BY <2>2 DEF MapFindings
        <3>2. next \in {"MapToControls", "SelectFiles", "Report"}
            OBVIOUS
        <3> HIDE DEF next
        <3> QED BY <3>1, <3>2
    <2> QED BY <2>1, <2>2
<1>4. PICK todo \in SUBSET Ids, state \in {"Mapping", "MapToControls", "SelectFiles", "Report"} :
            executions' = [executions EXCEPT ![e] = x(todo, state)]
    BY <1>3
<1> DEFINE y == x(todo, state)
<1>5. y \in Run /\ y.read = old.read /\ y.state = state /\ y.files = {}
      /\ y.head = old.head /\ y.trigger = old.trigger
      /\ y.parent = old.parent /\ y.check = old.check
    BY <1>1, <1>2, <1>4 DEF Run, Tasks, Sound, Selecting
<1>6. executions' = [executions EXCEPT ![e] = y]
    BY <1>4
<1> HIDE DEF y, x
<1>7. Moves(e, y)
    BY <1>1, <1>2, <1>4, <1>5, <1>6 DEF Moves, Within, Sound, Reporting, Ended, Tasks
<1> QED BY <1>7

LEMMA SelectFilesMoves ==
    ASSUME IInv, NEW e \in 1..Len(executions), SelectFiles(e)
    PROVE  \E x : Moves(e, x)
<1> DEFINE old == executions[e]
           files == FilesToDraft(e)
           x == [old EXCEPT !.files = files, !.left = files,
                            !.state = IF files = {} THEN "Report" ELSE "Remediate"]
<1>1. old \in Run /\ Sound(old) /\ Within(old) /\ old.state = "SelectFiles"
    BY EachRun DEF SelectFiles
<1>2. executions' = [executions EXCEPT ![e] = x]
    BY DEF SelectFiles
<1>3. files \subseteq old.changed
    BY DEF FilesToDraft, MappedOn, OnChanged, StaleFiles
<1>4. old.changed \subseteq Files
    BY <1>1 DEF Run
<1> HIDE DEF files
<1>5. /\ x \in Run /\ x.read = old.read /\ x.files = files /\ x.left = files
      /\ x.changed = old.changed /\ x.state \in {"Report", "Remediate"}
      /\ x.state = "Remediate" => files # {}
      /\ x.head = old.head /\ x.trigger = old.trigger
      /\ x.parent = old.parent /\ x.check = old.check
    BY <1>1, <1>3, <1>4 DEF Run, Tasks
<1> HIDE DEF x
<1>6. Sound(x)
    BY <1>3, <1>5 DEF Sound, Selecting
<1>7. Moves(e, x)
    BY <1>1, <1>2, <1>5, <1>6 DEF Moves, Within, Reporting, Ended, Tasks
<1> QED BY <1>7

LEMMA RemediateMoves ==
    ASSUME IInv, NEW e \in 1..Len(executions), NEW file, NEW outcome,
           RemediateFile(e, file, outcome)
    PROVE  \E x : Moves(e, x)
<1> DEFINE old == executions[e]
           next == IF old.left = {file} THEN "Report" ELSE old.state
           x == [old EXCEPT !.left = @ \ {file}, !.state = next]
<1>1. old \in Run /\ Sound(old) /\ Within(old) /\ old.state = "Remediate" /\ file \in old.left
    BY EachRun DEF RemediateFile
<1>2. executions' = [executions EXCEPT ![e] = x]
    BY DEF RemediateFile
<1>3. next \in {"Report", "Remediate"} /\ (next = "Remediate" => old.left \ {file} # {})
    BY <1>1
<1> HIDE DEF next
<1>4. /\ x \in Run /\ x.read = old.read /\ x.files = old.files /\ x.left = old.left \ {file}
      /\ x.changed = old.changed /\ x.state = next
      /\ x.head = old.head /\ x.trigger = old.trigger
      /\ x.parent = old.parent /\ x.check = old.check
    BY <1>1, <1>3 DEF Run, Tasks
<1> HIDE DEF x
<1>5. Sound(x)
    BY <1>1, <1>3, <1>4 DEF Sound, Selecting
<1>6. Moves(e, x)
    BY <1>1, <1>2, <1>3, <1>4, <1>5 DEF Moves, Within, Reporting, Ended, Tasks
<1> QED BY <1>6

\* The states that only follow one another, failures and retries.
LEMMA FollowOnMoves ==
    ASSUME IInv, NEW e \in 1..Len(executions),
           \/ \E ok : Synthesize(e, ok)
           \/ \E failed : ScannerError(e, failed)
           \/ \E shown : PostSuggestions(e, shown)
           \/ RecordOffer(e) \/ Fails(e) \/ Retried(e)
    PROVE  \E x : Moves(e, x)
<1>1. ASSUME NEW ok, Synthesize(e, ok) PROVE \E x : Moves(e, x)
    <2>1. executions[e].state = "Synthesize" /\ Goto(e, "Scan")
        BY <1>1 DEF Synthesize
    <2> QED BY <2>1, GotoMoves DEF Tasks, Selecting, Reporting, Ended
<1>2. ASSUME NEW shown, PostSuggestions(e, shown) PROVE \E x : Moves(e, x)
    <2>1. executions[e].state = "Report" /\ Goto(e, "Complete")
        BY <1>2 DEF PostSuggestions
    <2> QED BY <2>1, GotoMoves DEF Tasks, Selecting, Reporting, Ended
<1>3. CASE (\E failed : ScannerError(e, failed)) \/ Fails(e) \/ RecordOffer(e)
    BY <1>3, EndMoves DEF ScannerError, Fails, RecordOffer, Ended
<1>4. CASE Retried(e)
    <2> DEFINE state == executions[e].state
    <2>1. state \in Tasks /\ Again(state) # state /\ Goto(e, Again(state))
        BY <1>4 DEF Retried
    <2>2. \/ state = "Snapshot" /\ Again(state) = "Fetch"
          \/ state = "WriteFindings" /\ Again(state) = "Scan"
          \/ state = "Mapping" /\ Again(state) = "MapToControls"
          \/ state \in {"Complete", "RecordOffer"} /\ Again(state) = "Report"
        BY <2>1 DEF Again
    <2> QED BY <2>1, <2>2, GotoMoves DEF Tasks, Selecting, Reporting, Ended
<1> QED BY <1>1, <1>2, <1>3, <1>4

----------------------------------------------------------------------------
(* What a scan makes of the records *)

Instance == [file : Files, rule : Nat, resource : Nat, line : Nat]

\* What the tools report are findings of the commits, and each keeps its shape on
\* the way into the records.
LEMMA OnType ==
    ASSUME PullOK, NEW k \in 0..pushes, NEW files
    PROVE  On(k, files) \subseteq Instance
<1>1. CASE k = 0
    BY <1>1 DEF On
<1>2. CASE k # 0
    <2>1. k \in 1..pushes
        BY <1>2 DEF PullOK
    <2>2. history[k].instances \subseteq Instance
        BY <2>1, EachCommit DEF Commit, Instance
    <2> QED BY <2>2 DEF On
<1> QED BY <1>1, <1>2

LEMMA DeduplicatedType ==
    ASSUME NEW found \in SUBSET Instance
    PROVE  /\ DOMAIN Deduplicate(found) \subseteq Ids
           /\ \A id \in DOMAIN Deduplicate(found) : Deduplicate(found)[id] \in Instance
<1>1. \A i \in found : Id(i) \in Ids
    BY DEF Id, Ids, Instance
<1>2. ASSUME NEW id \in {Id(i) : i \in found}
      PROVE  (CHOOSE i \in found : Id(i) = id) \in Instance
    BY <1>2
<1> QED BY <1>1, <1>2 DEF Deduplicate

LEMMA CarriedType ==
    ASSUME IInv, NEW unique, DOMAIN unique \subseteq Ids,
           \A id \in DOMAIN unique : unique[id] \in Instance
    PROVE  /\ DOMAIN CarryMovedIds(unique) \subseteq Ids
           /\ \A id \in DOMAIN CarryMovedIds(unique) : CarryMovedIds(unique)[id] \in Instance
<1> DEFINE pairs == Carried(unique)
           kept  == DOMAIN unique \ {p[2].id : p \in pairs}
           moved == {p[1].id : p \in pairs}
           first(id) == CHOOSE p \in pairs : p[1].id = id
<1>1. \A p \in pairs : p[1].id \in Ids /\ p[2].item \in Instance
    BY DEF Carried, Unmarked, IInv, RecordsOK
<1> HIDE DEF pairs
<1>2. kept \subseteq Ids /\ moved \subseteq Ids
    BY <1>1
<1>3. ASSUME NEW id \in moved
      PROVE  first(id)[2].item \in Instance
    <2>1. first(id) \in pairs
        BY <1>3
    <2> QED BY <1>1, <2>1
<1>4. CarryMovedIds(unique) = [id \in kept \cup moved |->
            IF id \in kept THEN unique[id] ELSE first(id)[2].item]
    BY DEF CarryMovedIds, pairs
<1> HIDE DEF first, moved
<1> QED BY <1>2, <1>3, <1>4

LEMMA WrittenType ==
    ASSUME IInv, NEW unique, NEW templates, DOMAIN unique \subseteq Ids,
           \A id \in DOMAIN unique : unique[id] \in Instance
    PROVE  \A id \in DOMAIN Written(unique, templates) :
              id \in Ids /\ Written(unique, templates)[id] \in Record
<1> DEFINE result == Written(unique, templates)
<1>1. DOMAIN result = DOMAIN records \cup DOMAIN unique
    BY DEF Written
<1> SUFFICES ASSUME NEW id \in DOMAIN records \cup DOMAIN unique
             PROVE  id \in Ids /\ result[id] \in Record
    BY <1>1
<1>2. id \in Ids
    BY DEF IInv, RecordsOK
<1>3. id \in DOMAIN records => records[id] \in Record
    BY DEF IInv, RecordsOK
<1>4. CASE id \in DOMAIN unique /\ id \in DOMAIN records
    <2>1. result[id] = [records[id] EXCEPT !.resource = unique[id].resource,
                                           !.line = unique[id].line, !.gone = FALSE]
        BY <1>4 DEF Written
    <2>2. unique[id].resource \in Nat /\ unique[id].line \in Nat
        BY <1>4 DEF Instance
    <2> QED BY <1>2, <1>3, <1>4, <2>1, <2>2 DEF Record
<1>5. CASE id \in DOMAIN unique /\ id \notin DOMAIN records
    <2>1. result[id] = New(unique[id])
        BY <1>5 DEF Written
    <2>2. unique[id] \in Instance
        BY <1>5
    <2> QED BY <1>2, <2>1, <2>2 DEF New, Record, Instance, Statuses
<1>6. CASE id \notin DOMAIN unique
    <2> DEFINE gone == records[id].gone \/ ~(records[id].file \in Templates /\ templates = {})
    <2>1. result[id] = [records[id] EXCEPT !.gone = gone]
        BY <1>6 DEF Written
    <2>2. gone \in BOOLEAN
        BY Zenon
    <2> HIDE DEF gone
    <2> QED BY <1>2, <1>3, <1>6, <2>1, <2>2 DEF Record
<1> QED BY <1>4, <1>5, <1>6

\* The content of a file as select_files and the agent read it.
LEMMA ContentOfType ==
    ASSUME IInv, NEW file \in Files
    PROVE  ContentOf(file) \in Nat
<1>1. CASE snapshot.files # 0 /\ file \in Snapshotted(snapshot.files)
    <2>1. snapshot.files \in 1..pushes
        BY <1>1 DEF IInv, PullOK
    <2>2. history[snapshot.files].content[file] \in Nat
        BY <2>1, EachCommit DEF Commit, IInv
    <2> QED BY <1>1, <2>2 DEF ContentOf
<1>2. CASE ~(snapshot.files # 0 /\ file \in Snapshotted(snapshot.files))
    BY <1>2 DEF ContentOf
<1> QED BY <1>1, <1>2

\* The records after a scan, a mapping pass and a file's drafts.
LEMMA RecordsStep ==
    ASSUME IInv, NEW e \in 1..Len(executions),
           \/ \E failed : WriteFindings(e, failed)
           \/ \E mapped, yielded : MapFindings(e, mapped, yielded)
           \/ \E file : \E outcome \in Outcomes : RemediateFile(e, file, outcome)
    PROVE  RecordsOK'
<1>1. ASSUME NEW failed, WriteFindings(e, failed) PROVE RecordsOK'
    <2> DEFINE read == executions[e].read
               unique == Deduplicate(Normalized(Tools \ failed, read))
    <2>1. records' = Written(CarryMovedIds(unique), ScannedTemplates(read))
        BY <1>1 DEF WriteFindings
    <2>2. Normalized(Tools \ failed, read) \subseteq Instance
        <3>1. read.files \in 0..pushes /\ read.templates \in 0..pushes
            BY EachRun DEF Run, Within, IInv, PullOK
        <3> QED BY <3>1, OnType DEF Normalized, Reported, Found, IInv
    <2>3. /\ DOMAIN unique \subseteq Ids
          /\ \A id \in DOMAIN unique : unique[id] \in Instance
        BY <2>2, DeduplicatedType
    <2> HIDE DEF unique
    <2>4. /\ DOMAIN CarryMovedIds(unique) \subseteq Ids
          /\ \A id \in DOMAIN CarryMovedIds(unique) : CarryMovedIds(unique)[id] \in Instance
        BY <2>3, CarriedType
    <2> QED BY <2>1, <2>4, WrittenType DEF RecordsOK
<1>2. ASSUME NEW mapped, NEW yielded, MapFindings(e, mapped, yielded) PROVE RecordsOK'
    <2>1. records' = [id \in DOMAIN records |->
                        IF id \in mapped THEN [records[id] EXCEPT !.status = "mapped"]
                        ELSE records[id]]
        BY <1>2 DEF MapFindings
    <2> QED BY <2>1 DEF IInv, RecordsOK, Record, Statuses
<1>3. ASSUME NEW file, NEW outcome \in Outcomes, RemediateFile(e, file, outcome) PROVE RecordsOK'
    <2>1. records' = [id \in DOMAIN records |->
                        IF id \in Workable(file) THEN Drafted(id, outcome) ELSE records[id]]
        BY <1>3 DEF RemediateFile
    <2>2. ASSUME NEW id \in DOMAIN records PROVE Drafted(id, outcome) \in Record
        <3>1. records[id] \in Record
            BY DEF IInv, RecordsOK
        <3>2. ContentOf(WorkFile(records[id].file)) \in Nat
            BY <3>1, ContentOfType, WorkFileType DEF Record
        <3>3. outcome \in Statuses
            BY FlowAssumption DEF Statuses
        <3> QED BY <3>1, <3>2, <3>3 DEF Drafted, Record
    <2> QED BY <2>1, <2>2 DEF IInv, RecordsOK
<1> QED BY <1>1, <1>2, <1>3

\* An execution is started: of a commit that is pushed, by one that is there.
LEMMA Started ==
    ASSUME IInv, NEW head \in 1..pushes, NEW trigger \in Trigger,
           NEW parent \in 0..Len(executions), Start(head, trigger, parent),
           UNCHANGED othersVars
    PROVE  IInv'
<1> DEFINE new == NewExecution(head, trigger, parent)
           n == Len(executions)
<1>1. /\ executions' = Append(executions, new)
      /\ UNCHANGED <<history, pushes, snapshot, records, seen, checkRuns, reviews>>
    BY DEF Start, othersVars, scannerVars, gatewayVars
<1>2. new \in Run
    BY DEF NewExecution, Run, Tasks, NoRead, IInv, PullOK
<1>3. Sound(new) /\ Within(new) /\ new.parent = parent /\ new.state = "Fetch" /\ new.check = 0
    BY DEF NewExecution, Sound, Within, NoRead, Selecting, IInv, PullOK
<1> HIDE DEF new
<1>4. /\ executions' \in Seq(Run) /\ Len(executions') = n + 1
      /\ \A e \in 1..n : executions'[e] = executions[e]
      /\ executions'[n + 1] = new
    BY <1>1, <1>2 DEF IInv, ExecutionsOK
<1>5. n \in Nat /\ \A e \in 1..(n + 1) : e \in 1..n \/ e = n + 1
    BY DEF IInv, ExecutionsOK
<1>6. ExecutionsOK'
    <2>1. \A e \in 1..n : /\ Sound(executions[e]) /\ Within(executions[e])
                           /\ executions[e].parent <= n + 1
        <3>1. \A e \in 1..n : executions[e] \in Run /\ executions[e].parent <= n
            BY EachRun DEF IInv, ExecutionsOK
        <3>2. \A e \in 1..n : executions[e].parent \in Nat
            BY <3>1 DEF Run
        <3> QED BY <1>5, <3>1, <3>2, EachRun
    <2>2. new.parent <= n + 1
        BY <1>3, <1>5
    <2> QED BY <1>1, <1>3, <1>4, <1>5, <2>1, <2>2 DEF ExecutionsOK, Within
<1>7. ChecksOK'
    BY <1>1, <1>4, <1>5 DEF IInv, ChecksOK
<1>8. KnownOK'
    BY <1>1, <1>3, <1>4, <1>5 DEF IInv, KnownOK, ChecksOK
<1> QED BY <1>1, <1>6, <1>7, <1>8 DEF IInv, PullOK, RecordsOK

\* A push event, a click on Draft fixes and one on Re-run start no other.
LEMMA StartsKeep ==
    ASSUME IInv,
           \/ \E k \in 1..pushes : PullRequestEvent(k)
           \/ \E c \in DOMAIN checkRuns :
                 ClickDraftFixes(c) \/ \E d \in Deliveries : ClickRerun(c, d)
    PROVE  IInv'
<1>1. ASSUME NEW k \in 1..pushes, PullRequestEvent(k) PROVE IInv'
    BY <1>1, Started DEF PullRequestEvent, Push, Trigger, IInv, ExecutionsOK
<1>2. ASSUME NEW c \in DOMAIN checkRuns PROVE
        /\ checkRuns[c].execution \in 1..Len(executions)
        /\ checkRuns[c].execution \in 0..Len(executions)
        /\ executions[checkRuns[c].execution].head \in 1..pushes
    BY EachRun DEF IInv, ChecksOK, Within
<1>3. ASSUME NEW c \in DOMAIN checkRuns, ClickDraftFixes(c) PROVE IInv'
    BY <1>2, <1>3, Started DEF ClickDraftFixes, DraftFixes, Trigger
<1>4. ASSUME NEW c \in DOMAIN checkRuns, NEW d \in Deliveries, ClickRerun(c, d) PROVE IInv'
    <2>1. Rerun(d) \in Trigger /\ 0 \in 0..Len(executions)
        BY DEF Rerun, Trigger, IInv, ExecutionsOK
    <2> QED BY <1>2, <1>4, <2>1, Started DEF ClickRerun
<1> QED BY <1>1, <1>3, <1>4

\* A push adds a commit that executions may be of.
LEMMA PushKeeps ==
    ASSUME IInv, PushCommit
    PROVE  IInv'
<1>1. pushes' = pushes + 1 /\ UNCHANGED <<history, executions, othersVars>> /\ pushes < Len(history)
    BY DEF PushCommit
<1>2. history \in Seq(Commit) /\ pushes \in Nat
    BY ExecutionsAssumption DEF IInv, PullOK
<1>3. PullOK'
    BY <1>1, <1>2 DEF IInv, PullOK, othersVars, scannerVars
<1>4. ExecutionsOK'
    <2>1. executions' = executions
        BY <1>1
    <2>2. ASSUME NEW e \in 1..Len(executions)
          PROVE  Within(executions[e])'
        <3>1. executions[e] \in Run /\ Within(executions[e])
            BY EachRun
        <3>2. /\ executions[e].head \in 1..pushes
              /\ executions[e].read.files \in Nat /\ executions[e].read.files <= pushes
              /\ executions[e].read.templates \in Nat /\ executions[e].read.templates <= pushes
            BY <3>1 DEF Run, Within
        <3> QED BY <1>1, <1>2, <2>1, <3>2 DEF Within
    <2> QED BY <2>1, <2>2 DEF IInv, ExecutionsOK
<1> QED BY <1>1, <1>3, <1>4 DEF IInv, RecordsOK, ChecksOK, KnownOK, othersVars, scannerVars,
            gatewayVars

\* fetch opens a check run for its execution, and the execution knows it.
LEMMA OpenKeeps ==
    ASSUME IInv, NEW e \in 1..Len(executions), OpenCheckRun(e)
    PROVE  IInv'
<1> DEFINE old == executions[e]
           n == Len(checkRuns)
           x == [old EXCEPT !.state = "Snapshot", !.check = n + 1]
           new == NewCheckRun(e)
<1>1. /\ executions' = [executions EXCEPT ![e] = x] /\ checkRuns' = Append(checkRuns, new)
      /\ UNCHANGED <<history, pushes, snapshot, records, reviews>> /\ old.state = "Fetch"
    BY DEF OpenCheckRun, scannerVars
<1>2. old \in Run /\ Sound(old) /\ Within(old) /\ n \in Nat
    BY EachRun DEF IInv, ChecksOK
<1>3. /\ x \in Run /\ x.state = "Snapshot" /\ x.check = n + 1 /\ x.files = {}
      /\ x.read = old.read /\ x.head = old.head /\ x.parent = old.parent
    <2>1. old.files = {}
        BY <1>1, <1>2 DEF Sound, Selecting
    <2>2. n + 1 \in Nat
        BY <1>2
    <2> QED BY <1>2, <2>1, <2>2 DEF Run, Tasks
<1> HIDE DEF x
<1>4. Sound(x) /\ Within(x)
    BY <1>2, <1>3 DEF Sound, Within
<1>5. new \in CheckRun /\ new.execution = e /\ new.says = "nothing"
    BY DEF NewCheckRun, CheckRun, IInv, ExecutionsOK
<1> HIDE DEF new
<1>6. /\ executions' \in Seq(Run) /\ Len(executions') = Len(executions)
      /\ \A d \in 1..Len(executions) : executions'[d] = IF d = e THEN x ELSE executions[d]
    BY <1>1, <1>3 DEF IInv, ExecutionsOK
<1>7. /\ checkRuns' \in Seq(CheckRun) /\ Len(checkRuns') = n + 1
      /\ \A c \in 1..n : checkRuns'[c] = checkRuns[c]
      /\ checkRuns'[n + 1] = new
    BY <1>1, <1>5 DEF IInv, ChecksOK
<1>8. \A c \in 1..(n + 1) : c \in 1..n \/ c = n + 1
    BY <1>2
<1>9. ExecutionsOK'
    BY <1>1, <1>3, <1>4, <1>6 DEF IInv, ExecutionsOK, Within
<1>10. ChecksOK'
    BY <1>1, <1>5, <1>6, <1>7, <1>8 DEF IInv, ChecksOK, Reporting, Ended
<1>11. KnownOK'
    <2>1. \A d \in 1..Len(executions) : executions[d].check \in Nat
        BY EachRun DEF Run
    <2> QED BY <1>2, <1>3, <1>5, <1>6, <1>7, <2>1 DEF IInv, KnownOK
<1> QED BY <1>1, <1>9, <1>10, <1>11 DEF IInv, PullOK, RecordsOK

\* report completes that check run, with what the settled status tells.
LEMMA CompleteKeeps ==
    ASSUME IInv, NEW e \in 1..Len(executions), Complete(e)
    PROVE  IInv'
<1> DEFINE old == executions[e]
           c == old.check
           ok == old.status = "ok"
           x == [old EXCEPT !.state = "RecordOffer"]
           said == IF ok THEN [Completed(checkRuns[c], "findings", OffersFixes(e))
                                 EXCEPT !.unparsed = old.errors]
                   ELSE Completed(checkRuns[c], "not-scanned", FALSE)
<1>1. /\ executions' = [executions EXCEPT ![e] = x]
      /\ checkRuns' = [checkRuns EXCEPT ![c] = said]
      /\ UNCHANGED <<history, pushes, snapshot, records, reviews>> /\ old.state = "Complete"
    BY DEF Complete, Goto, scannerVars
<1>2. old \in Run /\ Sound(old) /\ Within(old)
    BY EachRun
<1>3. c \in 1..Len(checkRuns) /\ checkRuns[c].execution = e /\ checkRuns[c] \in CheckRun
    BY <1>1 DEF IInv, KnownOK, ChecksOK, Tasks
<1>4. /\ x \in Run /\ x.state = "RecordOffer" /\ x.check = c /\ x.files = old.files
      /\ x.changed = old.changed /\ x.status = old.status
      /\ x.read = old.read /\ x.head = old.head /\ x.parent = old.parent
    BY <1>2 DEF Run, Tasks
<1> HIDE DEF x
<1>5. Sound(x) /\ Within(x)
    BY <1>2, <1>4 DEF Sound, Within, Selecting
<1>6. OffersFixes(e) \in BOOLEAN
    BY DEF OffersFixes
<1>7. /\ said \in CheckRun /\ said.execution = e /\ said.status = "completed"
      /\ said.says = IF ok THEN "findings" ELSE "not-scanned"
    <2>1. \A b \in BOOLEAN, s \in {"findings", "not-scanned"} :
            /\ Completed(checkRuns[c], s, b) \in CheckRun
            /\ Completed(checkRuns[c], s, b).execution = e
            /\ Completed(checkRuns[c], s, b).status = "completed"
            /\ Completed(checkRuns[c], s, b).says = s
        BY <1>3 DEF Completed, CheckRun
    <2>2. old.errors \subseteq Files
        BY <1>2 DEF Run
    <2> QED BY <1>6, <2>1, <2>2 DEF CheckRun
<1> HIDE DEF said
<1>8. /\ executions' \in Seq(Run) /\ Len(executions') = Len(executions)
      /\ \A d \in 1..Len(executions) : executions'[d] = IF d = e THEN x ELSE executions[d]
    BY <1>1, <1>4 DEF IInv, ExecutionsOK
<1>9. /\ checkRuns' \in Seq(CheckRun) /\ Len(checkRuns') = Len(checkRuns)
      /\ \A d \in 1..Len(checkRuns) : checkRuns'[d] = IF d = c THEN said ELSE checkRuns[d]
    BY <1>1, <1>3, <1>7 DEF IInv, ChecksOK
<1>10. ExecutionsOK'
    BY <1>1, <1>4, <1>5, <1>8 DEF IInv, ExecutionsOK, Within
<1>11. ChecksOK'
    BY <1>1, <1>4, <1>7, <1>8, <1>9 DEF IInv, ChecksOK, Reporting
<1>12. KnownOK'
    BY <1>1, <1>3, <1>4, <1>7, <1>8, <1>9 DEF IInv, KnownOK, Tasks
<1> QED BY <1>1, <1>10, <1>11, <1>12 DEF IInv, PullOK, RecordsOK

\* The backstop completes check runs that are in progress, and no other.
LEMMA FailedKeeps ==
    ASSUME IInv, NEW e \in 1..Len(executions), OnExecutionFailed(e)
    PROVE  /\ IInv'
           /\ executions' = executions
           /\ Len(checkRuns') >= Len(checkRuns)
           /\ \A c \in 1..Len(checkRuns) :
                 checkRuns[c].status = "completed" => checkRuns'[c] = checkRuns[c]
<1> DEFINE n == Len(checkRuns)
           new == Completed(NewCheckRun(e), "unfinished", FALSE)
           told(c) == Completed(checkRuns[c], "unfinished", FALSE)
<1>1. UNCHANGED <<history, pushes, executions, snapshot, records, reviews>>
    BY DEF OnExecutionFailed, executionVars, scannerVars
<1>2. n \in Nat /\ checkRuns \in Seq(CheckRun)
    BY DEF IInv, ChecksOK
<1>3. CASE checkRuns' = [c \in DOMAIN checkRuns |->
                IF c \in ChecksOf(e) /\ InProgress(c) THEN told(c) ELSE checkRuns[c]]
    <2>1. \A c \in 1..n : /\ told(c) \in CheckRun /\ told(c).execution = checkRuns[c].execution
                           /\ told(c).says = "unfinished"
        <3>1. \A c \in 1..n : checkRuns[c] \in CheckRun
            BY <1>2
        <3> QED BY <3>1 DEF Completed, CheckRun
    <2> HIDE DEF told
    <2>2. /\ checkRuns' \in Seq(CheckRun) /\ Len(checkRuns') = n
          /\ \A c \in 1..n : checkRuns'[c] = told(c) \/ checkRuns'[c] = checkRuns[c]
        BY <1>2, <1>3, <2>1
    <2>3. \A c \in 1..n : checkRuns[c].status = "completed" => checkRuns'[c] = checkRuns[c]
        BY <1>2, <1>3 DEF InProgress
    <2>4. ChecksOK'
        <3>1. \A c \in 1..n : \/ checkRuns'[c] = checkRuns[c]
                              \/ /\ checkRuns'[c].execution = checkRuns[c].execution
                                 /\ checkRuns'[c].says = "unfinished"
            BY <2>1, <2>2
        <3>2. \A c \in 1..n :
                LET r == checkRuns'[c]
                IN /\ r.execution \in 1..Len(executions)
                   /\ r.says \in {"findings", "not-scanned"} =>
                        /\ r.status = "completed"
                        /\ executions[r.execution].state \in Reporting
                        /\ r.says = "findings" <=> executions[r.execution].status = "ok"
            <4> TAKE c \in 1..n
            <4>1. checkRuns[c].execution \in 1..Len(executions)
                BY DEF IInv, ChecksOK
            <4>2. CASE checkRuns'[c] = checkRuns[c]
                BY <4>2 DEF IInv, ChecksOK
            <4>3. CASE /\ checkRuns'[c].execution = checkRuns[c].execution
                       /\ checkRuns'[c].says = "unfinished"
                BY <4>1, <4>3
            <4> QED BY <3>1, <4>2, <4>3
        <3> QED BY <1>1, <2>2, <3>2 DEF ChecksOK
    <2>5. KnownOK'
        BY <1>1, <2>1, <2>2 DEF IInv, KnownOK
    <2> QED BY <1>1, <1>2, <2>2, <2>3, <2>4, <2>5
            DEF IInv, PullOK, RecordsOK, ExecutionsOK, Within
<1>4. CASE checkRuns' = Append(checkRuns, new)
    <2>1. new \in CheckRun /\ new.execution = e /\ new.says = "unfinished"
        <3>1. e \in Nat
            BY DEF IInv, ExecutionsOK
        <3> QED BY <3>1 DEF Completed, NewCheckRun, CheckRun
    <2> HIDE DEF new
    <2>2. /\ checkRuns' \in Seq(CheckRun) /\ Len(checkRuns') = n + 1
          /\ \A c \in 1..n : checkRuns'[c] = checkRuns[c]
          /\ checkRuns'[n + 1] = new
        BY <1>2, <1>4, <2>1
    <2>3. \A c \in 1..(n + 1) : c \in 1..n \/ c = n + 1
        BY <1>2
    <2>4. ChecksOK'
        <3>1. \A c \in 1..Len(checkRuns') :
                \/ c \in 1..n /\ checkRuns'[c] = checkRuns[c]
                \/ checkRuns'[c].execution = e /\ checkRuns'[c].says = "unfinished"
            BY <1>2, <2>1, <2>2, <2>3
        <3> QED BY <1>1, <2>2, <3>1, SMTT(20) DEF IInv, ChecksOK
    <2>5. KnownOK'
        <3>1. \A d \in 1..Len(executions) : executions[d].check \in Nat
            BY EachRun DEF Run
        <3> QED BY <1>1, <1>2, <2>2, <3>1 DEF IInv, KnownOK
    <2> QED BY <1>1, <1>2, <2>2, <2>4, <2>5 DEF IInv, PullOK, RecordsOK, ExecutionsOK, Within
<1> QED BY <1>3, <1>4 DEF OnExecutionFailed

\* Every step but a start keeps every execution's commit and trigger.
KeepsNames == /\ Len(executions') = Len(executions)
              /\ \A e \in 1..Len(executions) :
                    /\ executions'[e].head = executions[e].head
                    /\ executions'[e].trigger = executions[e].trigger

\* What a check run says of a scan is what it says after the step.
KeepsReports == \A c \in 1..Len(checkRuns) :
    checkRuns[c].says \in {"findings", "not-scanned"} => checkRuns'[c].says = checkRuns[c].says

\* One execution goes on under the name it has.
LEMMA NamesKept ==
    ASSUME IInv, NEW e \in 1..Len(executions), NEW x, executions' = [executions EXCEPT ![e] = x],
           x.head = executions[e].head, x.trigger = executions[e].trigger
    PROVE  KeepsNames
<1>1. /\ Len(executions') = Len(executions)
      /\ \A d \in 1..Len(executions) : executions'[d] = IF d = e THEN x ELSE executions[d]
    BY DEF IInv, ExecutionsOK
<1> QED BY <1>1 DEF KeepsNames

\* What a step of an execution keeps: everything, its name, what a report said,
\* and that a review is posted once.
LEMMA StepKeeps ==
    ASSUME IInv, NEW e \in 1..Len(executions),
           \/ ExecutionStep(e)
           \/ (Fails(e) \/ Retried(e)) /\ UNCHANGED othersVars
    PROVE  IInv' /\ KeepsNames /\ KeepsReports
<1>1. ASSUME \E x : Moves(e, x), UNCHANGED <<history, pushes, checkRuns>>, PullOK', RecordsOK',
             reviews' \in Seq(Nat)
      PROVE  IInv' /\ KeepsNames /\ KeepsReports
    <2>1. PICK x : Moves(e, x)
        BY <1>1
    <2>2. ExecutionsOK' /\ ChecksOK' /\ KnownOK'
        BY <1>1, <2>1, Moved
    <2>3. KeepsNames
        BY <2>1, NamesKept DEF Moves
    <2>4. KeepsReports
        BY <1>1 DEF KeepsReports
    <2> QED BY <1>1, <2>2, <2>3, <2>4 DEF IInv
<1>2. IInv => PullOK /\ RecordsOK /\ reviews \in Seq(Nat)
    BY DEF IInv
<1>3. CASE OpenCheckRun(e)
    <2>1. IInv'
        BY <1>3, OpenKeeps
    <2>2. KeepsNames
        <3> DEFINE x == [executions[e] EXCEPT !.state = "Snapshot", !.check = Len(checkRuns) + 1]
        <3>1. executions' = [executions EXCEPT ![e] = x]
            BY <1>3 DEF OpenCheckRun
        <3>2. x.head = executions[e].head /\ x.trigger = executions[e].trigger
            BY EachRun DEF Run
        <3> QED BY <3>1, <3>2, NamesKept
    <2>3. KeepsReports
        <3>1. checkRuns' = Append(checkRuns, NewCheckRun(e)) /\ checkRuns \in Seq(CheckRun)
            BY <1>3 DEF OpenCheckRun, IInv, ChecksOK
        <3>2. \A c \in 1..Len(checkRuns) : checkRuns'[c] = checkRuns[c]
            BY <3>1
        <3> QED BY <3>2 DEF KeepsReports
    <2> QED BY <2>1, <2>2, <2>3
<1>4. CASE Snapshot(e)
    <2>1. executions[e].head \in 1..pushes /\ pushes \in Nat
        BY EachRun DEF Within, IInv, PullOK
    <2>2. PullOK'
        BY <1>2, <1>4, <2>1 DEF Snapshot, PullOK
    <2>3. RecordsOK' /\ UNCHANGED <<history, pushes, checkRuns>> /\ reviews' \in Seq(Nat)
        BY <1>2, <1>4 DEF Snapshot, RecordsOK, gatewayVars
    <2> QED BY <1>1, <1>4, <2>2, <2>3, SnapshotMoves
<1>5. CASE \E ok \in BOOLEAN : Synthesize(e, ok)
    <2>1. executions[e].head \in 1..pushes /\ pushes \in Nat
        BY EachRun DEF Within, IInv, PullOK
    <2>2. PullOK'
        BY <1>2, <1>5, <2>1 DEF Synthesize, PullOK
    <2>3. RecordsOK' /\ UNCHANGED <<history, pushes, checkRuns>> /\ reviews' \in Seq(Nat)
        BY <1>2, <1>5 DEF Synthesize, RecordsOK, gatewayVars
    <2> QED BY <1>1, <1>5, <2>2, <2>3, FollowOnMoves
<1>6. CASE Scan(e) /\ UNCHANGED gatewayVars
    <2>1. /\ PullOK' /\ RecordsOK'
          /\ UNCHANGED <<history, pushes, checkRuns>> /\ reviews' \in Seq(Nat)
        BY <1>2, <1>6 DEF Scan, PullOK, RecordsOK, scannerVars, gatewayVars
    <2> QED BY <1>1, <1>6, <2>1, ScanMoves
<1>7. ASSUME NEW failed \in {{}, {"checkov"}}, WriteFindings(e, failed), UNCHANGED gatewayVars
      PROVE  IInv' /\ KeepsNames /\ KeepsReports
    <2>1. RecordsOK'
        BY <1>7, RecordsStep
    <2>2. /\ PullOK' /\ UNCHANGED <<history, pushes, checkRuns>> /\ reviews' \in Seq(Nat)
        BY <1>2, <1>7 DEF WriteFindings, PullOK, gatewayVars
    <2> QED BY <1>1, <1>7, <2>1, <2>2, WriteFindingsMoves
<1>8. ASSUME NEW failed \in {{}, {"checkov"}}, ScannerError(e, failed), UNCHANGED gatewayVars
      PROVE  IInv' /\ KeepsNames /\ KeepsReports
    <2>1. /\ PullOK' /\ RecordsOK'
          /\ UNCHANGED <<history, pushes, checkRuns>> /\ reviews' \in Seq(Nat)
        BY <1>2, <1>8 DEF ScannerError, PullOK, RecordsOK, scannerVars, gatewayVars
    <2> QED BY <1>1, <1>8, <2>1, FollowOnMoves
<1>9. CASE MapToControls(e) /\ UNCHANGED gatewayVars
    <2>1. /\ PullOK' /\ RecordsOK'
          /\ UNCHANGED <<history, pushes, checkRuns>> /\ reviews' \in Seq(Nat)
        BY <1>2, <1>9 DEF MapToControls, PullOK, RecordsOK, scannerVars, gatewayVars
    <2> QED BY <1>1, <1>9, <2>1, MappingMoves
<1>10. ASSUME NEW mapped, NEW yielded, MapFindings(e, mapped, yielded), UNCHANGED gatewayVars
       PROVE  IInv' /\ KeepsNames /\ KeepsReports
    <2>1. RecordsOK'
        BY <1>10, RecordsStep
    <2>2. /\ PullOK' /\ UNCHANGED <<history, pushes, checkRuns>> /\ reviews' \in Seq(Nat)
        BY <1>2, <1>10 DEF MapFindings, PullOK, gatewayVars
    <2> QED BY <1>1, <1>10, <2>1, <2>2, MappingMoves
<1>11. CASE SelectFiles(e)
    <2>1. /\ PullOK' /\ RecordsOK'
          /\ UNCHANGED <<history, pushes, checkRuns>> /\ reviews' \in Seq(Nat)
        BY <1>2, <1>11 DEF SelectFiles, PullOK, RecordsOK, scannerVars, gatewayVars
    <2> QED BY <1>1, <1>11, <2>1, SelectFilesMoves
<1>12. ASSUME NEW file, NEW outcome \in Outcomes, RemediateFile(e, file, outcome)
       PROVE  IInv' /\ KeepsNames /\ KeepsReports
    <2>1. RecordsOK'
        BY <1>12, RecordsStep
    <2>2. /\ PullOK' /\ UNCHANGED <<history, pushes, checkRuns>> /\ reviews' \in Seq(Nat)
        BY <1>2, <1>12 DEF RemediateFile, PullOK, gatewayVars
    <2> QED BY <1>1, <1>12, <2>1, <2>2, RemediateMoves
<1>13. ASSUME NEW shown, PostSuggestions(e, shown)
       PROVE  IInv' /\ KeepsNames /\ KeepsReports
    <2>1. e \in Nat
        BY DEF IInv, ExecutionsOK
    <2>2. reviews' \in Seq(Nat)
        BY <1>2, <1>13, <2>1 DEF PostSuggestions
    <2>3. PullOK' /\ RecordsOK' /\ UNCHANGED <<history, pushes, checkRuns>>
        BY <1>2, <1>13 DEF PostSuggestions, PullOK, RecordsOK, scannerVars
    <2> QED BY <1>1, <1>13, <2>2, <2>3, FollowOnMoves
<1>14. CASE Complete(e)
    <2> DEFINE c == executions[e].check
    <2>1. IInv'
        BY <1>14, CompleteKeeps
    <2>2. KeepsNames
        <3> DEFINE x == [executions[e] EXCEPT !.state = "RecordOffer"]
        <3>1. executions' = [executions EXCEPT ![e] = x]
            BY <1>14 DEF Complete, Goto
        <3>2. x.head = executions[e].head /\ x.trigger = executions[e].trigger
            BY EachRun DEF Run
        <3> QED BY <3>1, <3>2, NamesKept
    <2>3. KeepsReports
        <3>1. c \in 1..Len(checkRuns) /\ checkRuns[c].execution = e /\ checkRuns[c] \in CheckRun
            BY <1>14 DEF Complete, IInv, KnownOK, ChecksOK, Tasks
        <3>2. checkRuns[c].says \in {"findings", "not-scanned"} =>
                (checkRuns[c].says = "findings" <=> executions[e].status = "ok")
            BY <3>1 DEF IInv, ChecksOK
        <3>3. checkRuns'[c].says = IF executions[e].status = "ok" THEN "findings" ELSE "not-scanned"
            BY <1>14, <3>1 DEF Complete, Completed, CheckRun, IInv, ChecksOK
        <3>4. \A d \in 1..Len(checkRuns) : d # c => checkRuns'[d] = checkRuns[d]
            BY <1>14 DEF Complete, IInv, ChecksOK
        <3> QED BY <3>2, <3>3, <3>4 DEF KeepsReports
    <2> QED BY <2>1, <2>2, <2>3
<1>15. CASE RecordOffer(e)
    <2>1. /\ PullOK' /\ RecordsOK'
          /\ UNCHANGED <<history, pushes, checkRuns>> /\ reviews' \in Seq(Nat)
        BY <1>2, <1>15 DEF RecordOffer, PullOK, RecordsOK, scannerVars, gatewayVars
    <2> QED BY <1>1, <1>15, <2>1, FollowOnMoves
<1>16. CASE (Fails(e) \/ Retried(e)) /\ UNCHANGED othersVars
    <2>1. /\ PullOK' /\ RecordsOK'
          /\ UNCHANGED <<history, pushes, checkRuns>> /\ reviews' \in Seq(Nat)
        BY <1>2, <1>16 DEF Fails, Retried, PullOK, RecordsOK, othersVars, scannerVars, gatewayVars
    <2> QED BY <1>1, <1>16, <2>1, FollowOnMoves
<1> QED BY <1>3, <1>4, <1>5, <1>6, <1>7, <1>8, <1>9, <1>10, <1>11, <1>12, <1>13, <1>14, <1>15, <1>16
        DEF ExecutionStep

----------------------------------------------------------------------------
(* Where the flow starts *)

\* Once the first commit is scanned: what ScannedOnce makes is what runs leave.
LEMMA ScannedType ==
    ASSUME PullOK, pushes = 1, NEW drafted \in BOOLEAN, ScannedOnce(drafted)
    PROVE  IInv
<1> DEFINE k     == IF history[1].app THEN 1 ELSE 0
           found == On(1, Files \ Templates) \cup On(k, Templates)
           ended(trigger, parent, check) ==
             [NewExecution(1, trigger, parent) EXCEPT !.state = "Succeeded", !.check = check,
                !.scanned = TRUE, !.allowEmpty = (Kept(1) = {})]
           unparsed == ScanErrors([files |-> 1, templates |-> k])
           said(e, button) == [Completed(NewCheckRun(e), "findings", button)
                                 EXCEPT !.unparsed = unparsed]
<1>1. history[1] \in Commit /\ 1 \in 1..pushes
    BY EachCommit
<1>2. RecordsOK
    <2>1. found \subseteq Instance
        <3>1. 1 \in 0..pushes /\ k \in 0..pushes
            OBVIOUS
        <3> QED BY <3>1, OnType
    <2>2. \A id \in {Id(i) : i \in found} : id \in Ids /\ Deduplicate(found)[id] \in Instance
        BY <2>1, DeduplicatedType DEF Deduplicate
    <2>3. \A f \in Files : history[1].content[WorkFile(f)] \in Nat
        BY <1>1, WorkFileType DEF Commit
    <2>4. records = [id \in {Id(i) : i \in found} |->
            LET new == New(Deduplicate(found)[id])
            IN IF Candidates(id) # {} /\ WorkFile(id.file) \in history[1].changed
               THEN [new EXCEPT !.status = IF drafted THEN "fix-proposed" ELSE "mapped",
                        !.base = IF drafted THEN history[1].content[WorkFile(id.file)] ELSE 0]
               ELSE new]
        BY DEF ScannedOnce
    <2> HIDE DEF found
    <2>5. ASSUME NEW id \in {Id(i) : i \in found} PROVE records[id] \in Record
        <3> DEFINE new == New(Deduplicate(found)[id])
        <3>1. new \in Record
            BY <2>2, <2>5 DEF New, Record, Instance, Statuses
        <3>2. id.file \in Files
            BY <2>2, <2>5 DEF Ids
        <3>3. (IF drafted THEN history[1].content[WorkFile(id.file)] ELSE 0) \in Nat
            BY <2>3, <3>2
        <3>4. (IF drafted THEN "fix-proposed" ELSE "mapped") \in Statuses
            BY DEF Statuses
        <3>5. \A s \in Statuses, b \in Nat : [new EXCEPT !.status = s, !.base = b] \in Record
            BY <3>1 DEF Record
        <3>6. [new EXCEPT !.status = IF drafted THEN "fix-proposed" ELSE "mapped",
                          !.base = IF drafted THEN history[1].content[WorkFile(id.file)] ELSE 0]
                 \in Record
            BY <3>3, <3>4, <3>5
        <3>7. records[id] = new \/ records[id] = [new EXCEPT
                 !.status = IF drafted THEN "fix-proposed" ELSE "mapped",
                 !.base = IF drafted THEN history[1].content[WorkFile(id.file)] ELSE 0]
            BY <2>4, <2>5
        <3> QED BY <3>1, <3>6, <3>7
    <2>6. DOMAIN records = {Id(i) : i \in found}
        BY <2>4
    <2> QED BY <2>2, <2>5, <2>6 DEF RecordsOK
<1>3. ASSUME NEW trigger \in Trigger, NEW parent \in Nat, NEW check \in Nat
      PROVE  LET x == ended(trigger, parent, check)
             IN /\ x \in Run /\ Sound(x) /\ Within(x) /\ x.parent = parent /\ x.check = check
                /\ x.state = "Succeeded" /\ x.status = "ok"
    <2> DEFINE new == NewExecution(1, trigger, parent)
    <2>1. /\ new \in Run /\ new.parent = parent /\ new.head = 1 /\ new.status = "ok"
          /\ new.files = {} /\ new.read = NoRead
        BY DEF NewExecution, Run, Tasks, NoRead
    <2> HIDE DEF new
    <2>2. \A b \in BOOLEAN :
            LET x == [new EXCEPT !.state = "Succeeded", !.check = check, !.scanned = TRUE,
                                 !.allowEmpty = b]
            IN /\ x \in Run /\ x.parent = parent /\ x.head = 1 /\ x.status = "ok"
               /\ x.files = {} /\ x.read = NoRead /\ x.state = "Succeeded" /\ x.check = check
        BY <2>1 DEF Run, Ended
    <2> DEFINE x == ended(trigger, parent, check)
    <2>3. x = [new EXCEPT !.state = "Succeeded", !.check = check, !.scanned = TRUE,
                          !.allowEmpty = (Kept(1) = {})]
        BY DEF new
    <2>4. (Kept(1) = {}) \in BOOLEAN
        OBVIOUS
    <2> HIDE DEF x
    <2>5. /\ x \in Run /\ x.parent = parent /\ x.head = 1 /\ x.status = "ok"
          /\ x.files = {} /\ x.read = NoRead /\ x.state = "Succeeded" /\ x.check = check
        BY <2>2, <2>3, <2>4
    <2>6. Sound(x) /\ Within(x)
        BY <1>1, <2>5 DEF Sound, Within, NoRead
    <2> QED BY <2>5, <2>6 DEF x
<1>4. ASSUME NEW e \in Nat, NEW button \in BOOLEAN
      PROVE  LET c == said(e, button)
             IN /\ c \in CheckRun /\ c.execution = e /\ c.status = "completed"
                /\ c.says = "findings"
    <2>1. unparsed \subseteq Files
        BY ScannerAssumption, ExecutionsAssumption
        DEF ScanErrors, Unparsed, Unreadable, Admitted, Has, ScannedTemplates
    <2> DEFINE none == Completed(NewCheckRun(e), "findings", button)
    <2>2. /\ none \in CheckRun /\ none.execution = e /\ none.status = "completed"
          /\ none.says = "findings"
        BY DEF Completed, NewCheckRun, CheckRun
    <2> HIDE DEF none, unparsed
    <2>3. LET c == [none EXCEPT !.unparsed = unparsed]
          IN /\ c \in CheckRun /\ c.execution = e /\ c.status = "completed"
             /\ c.says = "findings"
        BY <2>1, <2>2 DEF CheckRun
    <2> QED BY <2>3 DEF none
<1>5. executions = (IF drafted THEN <<ended(Push, 0, 1), ended(DraftFixes, 1, 2)>>
                    ELSE <<ended(Push, 0, 1)>>)
    BY DEF ScannedOnce
<1>6. checkRuns = (IF drafted THEN <<said(1, TRUE), said(2, FALSE)>> ELSE <<said(1, TRUE)>>)
    BY DEF ScannedOnce
<1>7. reviews \in Seq(Nat)
    <2>1. reviews = IF drafted THEN <<2>> ELSE <<>>
        BY DEF ScannedOnce
    <2>2. <<2>> \in Seq(Nat) /\ <<>> \in Seq(Nat)
        OBVIOUS
    <2> QED BY <2>1, <2>2
<1>8. Push \in Trigger /\ DraftFixes \in Trigger
    BY DEF Push, DraftFixes, Trigger
<1> DEFINE x1 == ended(Push, 0, 1)
           x2 == ended(DraftFixes, 1, 2)
           c1 == said(1, TRUE)
           c2 == said(2, FALSE)
<1> HIDE DEF ended
<1>9. /\ x1 \in Run /\ Sound(x1) /\ Within(x1) /\ x1.parent = 0 /\ x1.check = 1
      /\ x1.state = "Succeeded" /\ x1.status = "ok"
      /\ x2 \in Run /\ Sound(x2) /\ Within(x2) /\ x2.parent = 1 /\ x2.check = 2
      /\ x2.state = "Succeeded" /\ x2.status = "ok"
    BY <1>3, <1>8
<1>10. /\ c1 \in CheckRun /\ c1.execution = 1 /\ c1.status = "completed" /\ c1.says = "findings"
       /\ c2 \in CheckRun /\ c2.execution = 2 /\ c2.status = "completed" /\ c2.says = "findings"
    BY <1>4
<1>11. /\ executions = IF drafted THEN <<x1, x2>> ELSE <<x1>>
       /\ checkRuns = IF drafted THEN <<c1, c2>> ELSE <<c1>>
    BY <1>5, <1>6
<1> HIDE DEF x1, x2, c1, c2
<1>12. ExecutionsOK
    BY <1>9, <1>11 DEF ExecutionsOK
<1>13. ChecksOK
    BY <1>9, <1>10, <1>11 DEF ChecksOK, Reporting, Ended
<1>14. KnownOK
    BY <1>9, <1>10, <1>11 DEF KnownOK, Tasks
<1> QED BY <1>2, <1>7, <1>12, <1>13, <1>14 DEF IInv

\* Before anything has run, and once the first commit is scanned.
LEMMA InitOK == FlowInit => IInv
<1> SUFFICES ASSUME FlowInit PROVE IInv
    OBVIOUS
<1>1. history \in Histories /\ pushes = 1 /\ Len(history) \in Nat \ {0}
    BY ExecutionsAssumption DEF FlowInit
<1>2. CASE Opened
    <2>1. PullOK
        BY <1>1, <1>2 DEF Opened, PullOK, NoRead
    <2>2. RecordsOK /\ ExecutionsOK /\ ChecksOK /\ KnownOK /\ reviews \in Seq(Nat)
        BY <1>2 DEF Opened, RecordsOK, ExecutionsOK, ChecksOK, KnownOK
    <2> QED BY <2>1, <2>2 DEF IInv
<1>3. ASSUME NEW drafted \in BOOLEAN, ScannedOnce(drafted) PROVE IInv
    <2>1. snapshot = [files |-> 1, templates |-> IF history[1].app THEN 1 ELSE 0]
        BY <1>3 DEF ScannedOnce
    <2>2. PullOK
        BY <1>1, <2>1 DEF PullOK
    <2> QED BY <1>1, <1>3, <2>2, ScannedType
<1> QED BY <1>2, <1>3 DEF FlowInit

\* The steps, told apart by what they do to the list of executions.
LEMMA StepsOfFlow ==
    ASSUME FlowNext
    PROVE  \/ PushCommit
           \/ \E k \in 1..pushes : PullRequestEvent(k)
           \/ \E c \in DOMAIN checkRuns :
                 ClickDraftFixes(c) \/ \E d \in Deliveries : ClickRerun(c, d)
           \/ \E e \in DOMAIN executions :
                 \/ ExecutionStep(e)
                 \/ (Fails(e) \/ Retried(e)) /\ UNCHANGED othersVars
           \/ \E e \in DOMAIN executions : OnExecutionFailed(e)
BY DEF FlowNext

\* Executions and check runs are numbered from 1.
LEMMA DomainOfExecutions ==
    ASSUME IInv
    PROVE  DOMAIN executions = 1..Len(executions) /\ DOMAIN checkRuns = 1..Len(checkRuns)
BY DEF IInv, ExecutionsOK, ChecksOK

\* The invariant is inductive.
LEMMA NextKeeps ==
    ASSUME IInv, FlowNext
    PROVE  IInv'
BY StepsOfFlow, DomainOfExecutions, PushKeeps, StartsKeep, StepKeeps, FailedKeeps

LEMMA StutterKeeps ==
    ASSUME IInv, UNCHANGED flowVars
    PROVE  IInv'
BY DEF IInv, flowVars, executionVars, scannerVars, gatewayVars, PullOK, RecordsOK, ExecutionsOK,
       ChecksOK, KnownOK, Within

\* Every state of the flow, whatever is pushed, clicked, delivered twice, failed or
\* retried, has its type, and each check run that says what was found is that of
\* an execution whose scan is settled (fetch, report, on_execution_failed).
THEOREM FlowInvariant == FlowSpec => []IInv
<1>1. FlowInit => IInv
    BY InitOK
<1>2. IInv /\ [FlowNext]_flowVars => IInv'
    BY NextKeeps, StutterKeeps
<1> QED BY <1>1, <1>2, PTL DEF FlowSpec

\* FlowTypeOK is an invariant: an execution past its fetch knows a check run of its
\* own, which report completes, and one that drafts has a changed file left.
THEOREM FlowTypeCorrect == FlowSpec => []FlowTypeOK
<1>1. IInv => FlowTypeOK
    <2> SUFFICES ASSUME IInv PROVE FlowTypeOK
        OBVIOUS
    <2>1. /\ history \in Histories /\ pushes \in DOMAIN history
          /\ snapshot \in [files : 0..pushes, templates : 0..pushes]
          /\ \A id \in DOMAIN records : id \in Ids /\ records[id] \in Record
          /\ \A c \in DOMAIN checkRuns : checkRuns[c] \in CheckRun
        BY ExecutionsAssumption DEF IInv, PullOK, RecordsOK, ChecksOK
    <2>2. ASSUME NEW e \in DOMAIN executions
          PROVE  LET x == executions[e]
                 IN /\ x \in Execution
                    /\ x.state \in Tasks \ {"Fetch"} => x.check \in ChecksOf(e)
                    /\ x.state = "Remediate" => x.left # {} /\ x.left \subseteq x.files
                    /\ x.files \subseteq x.changed
        <3>1. e \in 1..Len(executions)
            BY DomainOfExecutions
        <3>2. executions[e] \in Run /\ Sound(executions[e]) /\ Within(executions[e])
            BY <3>1, EachRun
        <3>3. /\ executions[e].parent \in 0..Len(executions)
              /\ executions[e].check \in 0..Len(checkRuns)
              /\ executions[e].read \in [files : 0..pushes, templates : 0..pushes]
            BY <3>1, <3>2 DEF IInv, ExecutionsOK, KnownOK, ChecksOK, PullOK, Run, Within
        <3>4. executions[e] \in Execution
            BY <3>2, <3>3 DEF Run, Execution, Within
        <3>5. executions[e].state \in Tasks \ {"Fetch"} => executions[e].check \in ChecksOf(e)
            BY <3>1, DomainOfExecutions DEF IInv, KnownOK, ChecksOf
        <3> QED BY <3>2, <3>4, <3>5 DEF Sound
    <2> QED BY <2>1, <2>2 DEF FlowTypeOK
<1> QED BY <1>1, FlowInvariant, PTL

\* OneExecutionEach is an invariant: a webhook delivered twice and a button clicked
\* twice start nothing the second time (execution_name).
THEOREM OneExecutionPerName == FlowSpec => []OneExecutionEach
<1>1. FlowInit => OneExecutionEach
    <2>1. CASE Opened
        BY <2>1 DEF Opened, OneExecutionEach
    <2>2. ASSUME NEW drafted \in BOOLEAN, ScannedOnce(drafted) PROVE OneExecutionEach
        <3> DEFINE ended(trigger, parent, check) ==
              [NewExecution(1, trigger, parent) EXCEPT !.state = "Succeeded", !.check = check,
                 !.scanned = TRUE, !.allowEmpty = (Kept(1) = {})]
        <3>1. executions = (IF drafted THEN <<ended(Push, 0, 1), ended(DraftFixes, 1, 2)>>
                            ELSE <<ended(Push, 0, 1)>>)
            BY <2>2 DEF ScannedOnce
        <3>2. ended(Push, 0, 1).trigger = Push /\ ended(DraftFixes, 1, 2).trigger = DraftFixes
            BY DEF NewExecution
        <3>3. Push # DraftFixes
            BY DEF Push, DraftFixes
        <3> HIDE DEF ended
        <3> QED BY <3>1, <3>2, <3>3 DEF OneExecutionEach
    <2> QED BY <2>1, <2>2 DEF FlowInit
<1>2. ASSUME IInv, OneExecutionEach, [FlowNext]_flowVars PROVE OneExecutionEach'
    <2>1. ASSUME KeepsNames, IInv' PROVE OneExecutionEach'
        <3>1. DOMAIN executions = 1..Len(executions) /\ DOMAIN executions' = 1..Len(executions)
            BY <1>2, <2>1 DEF KeepsNames, IInv, ExecutionsOK
        <3> QED BY <1>2, <2>1, <3>1 DEF KeepsNames, OneExecutionEach
    <2>2. ASSUME NEW head, NEW trigger, NEW parent, Start(head, trigger, parent)
          PROVE  OneExecutionEach'
        <3> DEFINE new == NewExecution(head, trigger, parent)
                   n == Len(executions)
        <3>1. executions' = Append(executions, new)
            BY <2>2 DEF Start
        <3>2. new.head = head /\ new.trigger = trigger
            BY DEF NewExecution
        <3>3. \A e \in 1..n : ~(executions[e].head = head /\ executions[e].trigger = trigger)
            BY <1>2, <2>2, DomainOfExecutions DEF Start, NameOf
        <3> HIDE DEF new
        <3>4. n \in Nat /\ DOMAIN executions' = 1..(n + 1) /\ executions'[n + 1] = new
              /\ \A e \in 1..n : executions'[e] = executions[e]
            BY <1>2, <3>1 DEF IInv, ExecutionsOK
        <3>5. \A e \in 1..(n + 1) : e \in 1..n \/ e = n + 1
            BY <3>4
        <3>6. \A a, b \in 1..n : executions[a].head = executions[b].head
                                   /\ executions[a].trigger = executions[b].trigger => a = b
            BY <1>2, DomainOfExecutions DEF OneExecutionEach
        <3> QED BY <3>2, <3>3, <3>4, <3>5, <3>6 DEF OneExecutionEach
    <2>3. CASE UNCHANGED executions
        BY <1>2, <2>3 DEF OneExecutionEach
    <2>4. CASE UNCHANGED flowVars
        BY <2>3, <2>4 DEF flowVars, executionVars
    <2>5. CASE FlowNext
        <3>1. CASE PushCommit
            BY <2>3, <3>1 DEF PushCommit
        <3>2. CASE \E k \in 1..pushes : PullRequestEvent(k)
            BY <2>2, <3>2 DEF PullRequestEvent
        <3>3. CASE \E c \in DOMAIN checkRuns :
                      ClickDraftFixes(c) \/ \E d \in Deliveries : ClickRerun(c, d)
            BY <2>2, <3>3 DEF ClickDraftFixes, ClickRerun
        <3>4. ASSUME NEW e \in DOMAIN executions,
                     \/ ExecutionStep(e)
                     \/ (Fails(e) \/ Retried(e)) /\ UNCHANGED othersVars
              PROVE  OneExecutionEach'
            BY <1>2, <2>1, <3>4, StepKeeps, DomainOfExecutions
        <3>5. ASSUME NEW e \in DOMAIN executions, OnExecutionFailed(e) PROVE OneExecutionEach'
            BY <2>3, <3>5 DEF OnExecutionFailed, executionVars
        <3> QED BY <2>5, <3>1, <3>2, <3>3, <3>4, <3>5, StepsOfFlow
    <2> QED BY <1>2, <2>4, <2>5
<1> QED BY <1>1, <1>2, FlowInvariant, PTL DEF FlowSpec

\* Only post_suggestions adds a review, and only for an execution without one.
LEMMA ReviewsGrow ==
    ASSUME FlowNext
    PROVE  \/ UNCHANGED reviews
           \/ \E e \in DOMAIN executions : ~Posted(e) /\ reviews' = Append(reviews, e)
<1>1. ASSUME \/ PushCommit
             \/ \E k \in 1..pushes : PullRequestEvent(k)
             \/ \E c \in DOMAIN checkRuns :
                   ClickDraftFixes(c) \/ \E d \in Deliveries : ClickRerun(c, d)
      PROVE  UNCHANGED reviews
    BY <1>1 DEF PushCommit, PullRequestEvent, ClickDraftFixes, ClickRerun, othersVars, gatewayVars
<1>2. ASSUME NEW e \in DOMAIN executions, ExecutionStep(e)
      PROVE  UNCHANGED reviews \/ (~Posted(e) /\ reviews' = Append(reviews, e))
    <2>1. CASE OpenCheckRun(e) \/ Complete(e)
        BY <2>1 DEF OpenCheckRun, Complete
    <2>2. CASE \/ Snapshot(e) \/ SelectFiles(e) \/ RecordOffer(e)
               \/ \E ok \in BOOLEAN : Synthesize(e, ok)
        BY <2>2 DEF Snapshot, Synthesize, SelectFiles, RecordOffer, gatewayVars
    <2>3. CASE UNCHANGED gatewayVars
        BY <2>3 DEF gatewayVars
    <2>4. ASSUME NEW file, NEW outcome, RemediateFile(e, file, outcome) PROVE UNCHANGED reviews
        BY <2>4 DEF RemediateFile, gatewayVars
    <2>5. ASSUME NEW shown, PostSuggestions(e, shown)
          PROVE  UNCHANGED reviews \/ (~Posted(e) /\ reviews' = Append(reviews, e))
        BY <2>5 DEF PostSuggestions
    <2> QED BY <1>2, <2>1, <2>2, <2>3, <2>4, <2>5 DEF ExecutionStep
<1>3. ASSUME NEW e \in DOMAIN executions,
             \/ OnExecutionFailed(e)
             \/ (Fails(e) \/ Retried(e)) /\ UNCHANGED othersVars
      PROVE  UNCHANGED reviews
    BY <1>3 DEF OnExecutionFailed, othersVars, gatewayVars
<1> QED BY <1>1, <1>2, <1>3, StepsOfFlow

\* OneReviewEach is an invariant: a report made again posts no second review
\* (post_suggestions and its marker).
THEOREM OneReviewPerExecution == FlowSpec => []OneReviewEach
<1>1. FlowInit => OneReviewEach
    <2>1. CASE Opened
        BY <2>1 DEF Opened, OneReviewEach
    <2>2. ASSUME NEW drafted \in BOOLEAN, ScannedOnce(drafted) PROVE OneReviewEach
        <3>1. reviews = IF drafted THEN <<2>> ELSE <<>>
            BY <2>2 DEF ScannedOnce
        <3> QED BY <3>1 DEF OneReviewEach
    <2> QED BY <2>1, <2>2 DEF FlowInit
<1>2. ASSUME IInv, OneReviewEach, [FlowNext]_flowVars PROVE OneReviewEach'
    <2>1. CASE UNCHANGED reviews
        BY <1>2, <2>1 DEF OneReviewEach
    <2>2. ASSUME NEW e \in DOMAIN executions, ~Posted(e), reviews' = Append(reviews, e)
          PROVE  OneReviewEach'
        <3>1. e \in Nat /\ reviews \in Seq(Nat) /\ Len(reviews) \in Nat
            BY <1>2, DomainOfExecutions DEF IInv, ExecutionsOK
        <3>2. \A n \in 1..Len(reviews) : reviews[n] # e
            BY <2>2, <3>1 DEF Posted
        <3>3. /\ DOMAIN reviews' = 1..(Len(reviews) + 1) /\ reviews'[Len(reviews) + 1] = e
              /\ \A n \in 1..Len(reviews) : reviews'[n] = reviews[n]
            BY <2>2, <3>1
        <3>4. \A n \in 1..(Len(reviews) + 1) : n \in 1..Len(reviews) \/ n = Len(reviews) + 1
            BY <3>1
        <3>5. \A m, n \in 1..Len(reviews) : reviews[m] = reviews[n] => m = n
            BY <1>2, <3>1 DEF OneReviewEach
        <3> QED BY <3>2, <3>3, <3>4, <3>5 DEF OneReviewEach
    <2>3. CASE UNCHANGED flowVars
        BY <2>1, <2>3 DEF flowVars, gatewayVars
    <2>4. CASE FlowNext
        BY <2>1, <2>2, <2>4, ReviewsGrow
    <2> QED BY <1>2, <2>3, <2>4
<1> QED BY <1>1, <1>2, FlowInvariant, PTL DEF FlowSpec

\* ReportStands is what every step does: once a check run says what was found, or
\* that the commit was not scanned, no failure, retry or backstop has it say
\* something else (report, on_execution_failed).
THEOREM ReportsStand == FlowSpec => ReportStands
<1> DEFINE Stand == \A c \in DOMAIN checkRuns :
                      checkRuns[c].says \in {"findings", "not-scanned"} =>
                        checkRuns'[c].says = checkRuns[c].says
<1>1. ASSUME IInv, [FlowNext]_flowVars PROVE [Stand]_flowVars
    <2>1. CASE UNCHANGED checkRuns
        BY <2>1
    <2>2. CASE UNCHANGED flowVars
        BY <2>2
    <2>3. CASE FlowNext
        <3>1. CASE PushCommit \/ (\E k \in 1..pushes : PullRequestEvent(k))
                    \/ \E c \in DOMAIN checkRuns :
                          ClickDraftFixes(c) \/ \E d \in Deliveries : ClickRerun(c, d)
            BY <2>1, <3>1 DEF PushCommit, PullRequestEvent, ClickDraftFixes, ClickRerun, othersVars,
                              gatewayVars
        <3>2. ASSUME NEW e \in DOMAIN executions,
                     \/ ExecutionStep(e)
                     \/ (Fails(e) \/ Retried(e)) /\ UNCHANGED othersVars
              PROVE  Stand
            BY <1>1, <3>2, StepKeeps, DomainOfExecutions DEF KeepsReports
        <3>3. ASSUME NEW e \in DOMAIN executions, OnExecutionFailed(e) PROVE Stand
            <4>1. \A c \in 1..Len(checkRuns) : checkRuns[c].says \in {"findings", "not-scanned"}
                                                  => checkRuns[c].status = "completed"
                BY <1>1 DEF IInv, ChecksOK
            <4> QED BY <1>1, <3>3, <4>1, FailedKeeps, DomainOfExecutions
        <3> QED BY <2>3, <3>1, <3>2, <3>3, StepsOfFlow
    <2> QED BY <1>1, <2>2, <2>3
<1>2. IInv /\ [FlowNext]_flowVars => [Stand]_flowVars
    BY <1>1
<1> QED BY <1>2, FlowInvariant, PTL DEF FlowSpec, ReportStands

\* StoresAgree is an invariant: on every finding the flow can make and on every
\* commit request, the DynamoDB store and the one in memory do alike, whatever a
\* handler writes (core/records.py, aws/records.py).
THEOREM StoresDoAlike == FlowSpec => []StoresAgree
<1>1. IInv => StoresAgree
    <2> SUFFICES ASSUME IInv PROVE StoresAgree
        OBVIOUS
    <2>1. ASSUME NEW id \in DOMAIN records PROVE ItemOf(id) \in Findings
        <3>1. records[id] \in Record
            BY DEF IInv, RecordsOK
        <3>2. /\ records[id].status \in Statuses /\ (records[id].base # 0) \in BOOLEAN
              /\ records[id].gone \in BOOLEAN
            BY <3>1 DEF Record
        <3>3. \A s \in Statuses, f \in BOOLEAN, g \in BOOLEAN : Finding(s, f, g) \in Findings
            BY DEF Findings
        <3> QED BY <3>2, <3>3 DEF ItemOf
    <2> QED BY <2>1, AllAlike DEF StoresAgree
<1> QED BY <1>1, FlowInvariant, PTL

----------------------------------------------------------------------------
(* What an execution works on, and what it stands for *)

\* A commit of the pull request so far changed the file, or the source it is made
\* from.
Touched(file) == \E k \in 1..pushes : WorkFile(file) \in history[k].changed

\* The states after the scan.
Scanned == {"MapToControls", "Mapping", "SelectFiles", "Remediate", "Report", "Complete",
            "RecordOffer"}

\* An execution's scope is of touched files; and once it has read the commit whole
\* and goes on with it, the commit fits, and by the end of the scan it is scanned or
\* has nothing to scan.
ScopeOK(x) == /\ \A f \in x.changed \cup x.prefixes : Touched(f)
              /\ \A id \in x.todo : Touched(id.file)

WholeOK(x) ==
    x.status = "ok" =>
        /\ x.state \in Tasks \ {"Fetch", "Snapshot"} =>
              history[x.head].fits /\ (x.allowEmpty => Kept(x.head) = {})
        /\ x.state \in Scanned => x.scanned \/ Kept(x.head) = {}

RunsOK == \A e \in 1..Len(executions) : ScopeOK(executions[e]) /\ WholeOK(executions[e])

\* A record is one of its id's file and rule, and worked on only if the file is
\* touched.
NamedOK == \A id \in DOMAIN records :
    /\ records[id].file = id.file /\ records[id].rule = id.rule
    /\ records[id].status \notin {"raw", "needs-human-only"} => Touched(id.file)

\* Execution e goes on as x, with what it stands for.
Stays(e, x) ==
    /\ executions' = [executions EXCEPT ![e] = x]
    /\ ScopeOK(x) /\ WholeOK(x)
    /\ x.head = executions[e].head /\ (executions[e].scanned => x.scanned)

\* A state that only follows another, within the same half of the run.
LEMMA GotoStays ==
    ASSUME IInv, NEW e \in 1..Len(executions), ScopeOK(executions[e]), WholeOK(executions[e]),
           NEW state, Goto(e, state),
           state \in Tasks \ {"Fetch", "Snapshot"} => executions[e].state \in Tasks \ {"Fetch", "Snapshot"},
           state \in Scanned => executions[e].state \in Scanned
    PROVE  Stays(e, [executions[e] EXCEPT !.state = state])
<1> DEFINE old == executions[e]
           x == [old EXCEPT !.state = state]
<1>1. old \in Run
    BY EachRun
<1>2. /\ x.head = old.head /\ x.changed = old.changed /\ x.prefixes = old.prefixes
      /\ x.todo = old.todo /\ x.status = old.status /\ x.allowEmpty = old.allowEmpty
      /\ x.scanned = old.scanned /\ x.state = state
    BY <1>1 DEF Run
<1>3. executions' = [executions EXCEPT ![e] = x]
    BY DEF Goto
<1> HIDE DEF x
<1>4. ScopeOK(x) /\ WholeOK(x)
    BY <1>2 DEF ScopeOK, WholeOK
<1> QED BY <1>2, <1>3, <1>4 DEF Stays, x

LEMMA EndStays ==
    ASSUME IInv, NEW e \in 1..Len(executions), NEW state \in Ended, End(e, state)
    PROVE  \E x : Stays(e, x)
<1> DEFINE old == executions[e]
           x == [old EXCEPT !.state = state, !.changed = {}, !.prefixes = {}, !.todo = {},
                            !.files = {}, !.left = {}, !.errors = {}, !.read = NoRead]
<1>1. old \in Run
    BY EachRun
<1>2. /\ x.head = old.head /\ x.changed = {} /\ x.prefixes = {} /\ x.todo = {}
      /\ x.scanned = old.scanned /\ x.state = state
    BY <1>1 DEF Run
<1>3. executions' = [executions EXCEPT ![e] = x]
    BY DEF End
<1> HIDE DEF x
<1>4. ScopeOK(x) /\ WholeOK(x)
    BY <1>2 DEF ScopeOK, WholeOK, Ended, Tasks, Scanned
<1> QED BY <1>2, <1>3, <1>4 DEF Stays

\* What a commit is scanned for is worked on where it is.
LEMMA ChangedTouched ==
    ASSUME IInv, NEW k \in 1..pushes
    PROVE  /\ \A f \in ChangedFiles(k) : Touched(f)
           /\ \A t \in TouchedTemplates : Touched(t)
<1>1. pushes \in 1..pushes
    BY DEF IInv, PullOK
<1>2. ASSUME NEW f \in ChangedFiles(k) PROVE Touched(f)
    <2>1. f \in history[pushes].changed /\ f \notin Templates
        BY ExecutionsAssumption DEF ChangedFiles, Snapshotted, Kept, Sources
    <2> QED BY <1>1, <2>1 DEF Touched, WorkFile
<1>3. ASSUME NEW t \in TouchedTemplates PROVE Touched(t)
    <2>1. t \in Templates /\ Origin[t] \in history[pushes].changed
        BY DEF TouchedTemplates
    <2> QED BY <1>1, <2>1 DEF Touched, WorkFile
<1> QED BY <1>2, <1>3

LEMMA SnapshotStays ==
    ASSUME IInv, NEW e \in 1..Len(executions), ScopeOK(executions[e]), Snapshot(e)
    PROVE  \E x : Stays(e, x)
<1> DEFINE old == executions[e]
           k   == old.head
           st  == FetchStatus(k)
           x   == IF st # "ok" THEN [old EXCEPT !.status = st, !.state = "Report"]
                  ELSE [old EXCEPT !.changed = ChangedFiles(k),
                           !.prefixes = IF history[k].app THEN TouchedTemplates ELSE {},
                           !.allowEmpty = (Kept(k) = {}),
                           !.state = IF history[k].app THEN "Synthesize" ELSE "Scan"]
<1>1. old \in Run /\ k \in 1..pushes
    BY EachRun DEF Within
<1>2. executions' = [executions EXCEPT ![e] = x]
    BY DEF Snapshot
<1>3. CASE st # "ok"
    <2>1. /\ x.head = k /\ x.changed = old.changed /\ x.prefixes = old.prefixes
          /\ x.todo = old.todo /\ x.status = st /\ x.scanned = old.scanned
        <3>1. x = [old EXCEPT !.status = st, !.state = "Report"]
            BY <1>3
        <3> HIDE DEF x, st
        <3> QED BY <1>1, <3>1 DEF Run
    <2> HIDE DEF x, st
    <2> QED BY <1>2, <1>3, <2>1 DEF Stays, ScopeOK, WholeOK
<1>4. CASE st = "ok"
    <2>1. /\ x.head = k /\ x.changed = ChangedFiles(k) /\ x.prefixes \subseteq TouchedTemplates
          /\ x.todo = old.todo /\ x.allowEmpty = (Kept(k) = {}) /\ x.scanned = old.scanned
          /\ x.state \in {"Synthesize", "Scan"}
        <3> DEFINE a == (Kept(k) = {})
                   p == IF history[k].app THEN TouchedTemplates ELSE {}
                   s == IF history[k].app THEN "Synthesize" ELSE "Scan"
                   c == ChangedFiles(k)
        <3>1. x = [old EXCEPT !.changed = c, !.prefixes = p, !.allowEmpty = a, !.state = s]
            BY <1>4
        <3>2. p \subseteq TouchedTemplates /\ s \in {"Synthesize", "Scan"}
            OBVIOUS
        <3> HIDE DEF a, p, s, c, x, st
        <3>3. /\ x.head = k /\ x.changed = c /\ x.prefixes = p /\ x.todo = old.todo
              /\ x.allowEmpty = a /\ x.scanned = old.scanned /\ x.state = s
            BY <1>1, <3>1 DEF Run
        <3>4. x.allowEmpty = (Kept(k) = {}) /\ x.changed = ChangedFiles(k)
            BY <3>3 DEF a, c
        <3> QED BY <3>2, <3>3, <3>4
    <2>2. history[k].fits
        BY <1>4 DEF FetchStatus
    <2> HIDE DEF x, st
    <2>3. ScopeOK(x)
        BY <1>1, <2>1, ChangedTouched DEF ScopeOK
    <2>4. WholeOK(x)
        BY <2>1, <2>2 DEF WholeOK, Scanned
    <2> QED BY <1>2, <2>1, <2>3, <2>4 DEF Stays
<1> QED BY <1>3, <1>4

LEMMA ScanStays ==
    ASSUME IInv, NEW e \in 1..Len(executions), ScopeOK(executions[e]), WholeOK(executions[e]),
           Scan(e)
    PROVE  \E x : Stays(e, x)
<1> DEFINE old == executions[e]
           next == IF Admitted(snapshot) # {} THEN "WriteFindings"
                   ELSE IF old.allowEmpty /\ Unreadable(snapshot) = {}
                   THEN "MapToControls" ELSE "Failed"
           x   == [old EXCEPT !.read = snapshot, !.state = next]
<1>1. old \in Run /\ old.state = "Scan"
    BY EachRun DEF Scan
<1>2. executions' = [executions EXCEPT ![e] = x]
    BY DEF Scan
<1>3. \/ next = "WriteFindings" \/ next = "Failed"
      \/ next = "MapToControls" /\ old.allowEmpty
    OBVIOUS
<1> HIDE DEF next
<1>4. /\ x.head = old.head /\ x.changed = old.changed /\ x.prefixes = old.prefixes
      /\ x.todo = old.todo /\ x.status = old.status /\ x.allowEmpty = old.allowEmpty
      /\ x.scanned = old.scanned /\ x.state = next
    BY <1>1 DEF Run
<1> HIDE DEF x
<1>5. ScopeOK(x)
    BY <1>4 DEF ScopeOK
<1>6. WholeOK(x)
    BY <1>1, <1>3, <1>4 DEF WholeOK, Tasks, Scanned
<1> QED BY <1>2, <1>4, <1>5, <1>6 DEF Stays

LEMMA WriteFindingsStays ==
    ASSUME IInv, NEW e \in 1..Len(executions), ScopeOK(executions[e]), WholeOK(executions[e]),
           NEW failed, WriteFindings(e, failed)
    PROVE  \E x : Stays(e, x)
<1> DEFINE old == executions[e]
           errors == ScanErrors(old.read)
           x   == [old EXCEPT !.state = "MapToControls", !.scanned = TRUE, !.errors = errors]
<1>1. old \in Run /\ old.state = "WriteFindings"
    BY EachRun DEF WriteFindings
<1>2. executions' = [executions EXCEPT ![e] = x]
    BY DEF WriteFindings
<1> HIDE DEF errors
<1>3. /\ x.head = old.head /\ x.changed = old.changed /\ x.prefixes = old.prefixes
      /\ x.todo = old.todo /\ x.status = old.status /\ x.allowEmpty = old.allowEmpty
      /\ x.scanned = TRUE /\ x.state = "MapToControls"
    BY <1>1 DEF Run
<1> HIDE DEF x
<1>4. ScopeOK(x)
    BY <1>3 DEF ScopeOK
<1>5. WholeOK(x)
    BY <1>1, <1>3 DEF WholeOK, Tasks
<1> QED BY <1>2, <1>3, <1>4, <1>5 DEF Stays

LEMMA MappingStays ==
    ASSUME IInv, NamedOK, NEW e \in 1..Len(executions), ScopeOK(executions[e]),
           WholeOK(executions[e]),
           \/ MapToControls(e)
           \/ \E mapped, yielded : MapFindings(e, mapped, yielded)
    PROVE  \E x : Stays(e, x)
<1> DEFINE old == executions[e]
           x(todo, state) == [old EXCEPT !.todo = todo, !.state = state]
<1>1. old \in Run /\ old.state \in {"MapToControls", "Mapping"}
    BY EachRun DEF MapToControls, MapFindings
<1>2. \E todo : \E state \in {"Mapping", "MapToControls", "SelectFiles", "Report"} :
            /\ \A id \in todo : Touched(id.file)
            /\ executions' = [executions EXCEPT ![e] = x(todo, state)]
    <2>1. CASE MapToControls(e)
        <3>1. \A id \in RawFindings(e) : Touched(id.file)
            BY DEF RawFindings, InScope, NamedOK, ScopeOK
        <3>2. executions' = [executions EXCEPT ![e] = x(RawFindings(e), "Mapping")]
            BY <2>1 DEF MapToControls
        <3> QED BY <3>1, <3>2
    <2>2. ASSUME NEW mapped, NEW yielded, MapFindings(e, mapped, yielded)
          PROVE  \E todo : \E state \in {"Mapping", "MapToControls", "SelectFiles", "Report"} :
                    /\ \A id \in todo : Touched(id.file)
                    /\ executions' = [executions EXCEPT ![e] = x(todo, state)]
        <3> DEFINE next == IF MoreToMap(mapped, yielded) THEN "MapToControls"
                           ELSE IF Remediates(e) THEN "SelectFiles" ELSE "Report"
        <3>1. executions' = [executions EXCEPT ![e] = x({}, next)]
            BY <2>2 DEF MapFindings
        <3>2. next \in {"MapToControls", "SelectFiles", "Report"}
            OBVIOUS
        <3> HIDE DEF next
        <3>3. \A id \in {} : Touched(id.file)
            OBVIOUS
        <3> QED BY <3>1, <3>2, <3>3
    <2> QED BY <2>1, <2>2
<1>3. PICK todo, state :
            /\ state \in {"Mapping", "MapToControls", "SelectFiles", "Report"}
            /\ \A id \in todo : Touched(id.file)
            /\ executions' = [executions EXCEPT ![e] = x(todo, state)]
    BY <1>2
<1> DEFINE y == x(todo, state)
<1>4. /\ y.head = old.head /\ y.changed = old.changed /\ y.prefixes = old.prefixes
      /\ y.todo = todo /\ y.status = old.status /\ y.allowEmpty = old.allowEmpty
      /\ y.scanned = old.scanned /\ y.state = state
    BY <1>1 DEF Run
<1>5. executions' = [executions EXCEPT ![e] = y]
    BY <1>3
<1> HIDE DEF y, x
<1>6. ScopeOK(y)
    BY <1>3, <1>4 DEF ScopeOK
<1>7. WholeOK(y)
    BY <1>1, <1>3, <1>4 DEF WholeOK, Tasks, Scanned
<1> QED BY <1>4, <1>5, <1>6, <1>7 DEF Stays

\* The states that draft.
LEMMA DraftingStays ==
    ASSUME IInv, NEW e \in 1..Len(executions), ScopeOK(executions[e]), WholeOK(executions[e]),
           SelectFiles(e) \/ \E file, outcome : RemediateFile(e, file, outcome)
    PROVE  \E x : Stays(e, x)
<1> DEFINE old == executions[e]
           x(files, left, state) == [old EXCEPT !.files = files, !.left = left, !.state = state]
<1>1. old \in Run /\ old.state \in {"SelectFiles", "Remediate"}
    BY EachRun DEF SelectFiles, RemediateFile
<1>2. \E files, left : \E state \in {"Report", "Remediate"} :
            executions' = [executions EXCEPT ![e] = x(files, left, state)]
    <2>1. CASE SelectFiles(e)
        <3> DEFINE chosen == FilesToDraft(e)
                   next == IF chosen = {} THEN "Report" ELSE "Remediate"
        <3>1. executions' = [executions EXCEPT ![e] = x(chosen, chosen, next)]
            BY <2>1 DEF SelectFiles
        <3>2. next \in {"Report", "Remediate"}
            OBVIOUS
        <3> QED BY <3>1, <3>2
    <2>2. ASSUME NEW file, NEW outcome, RemediateFile(e, file, outcome)
          PROVE  \E files, left : \E state \in {"Report", "Remediate"} :
                    executions' = [executions EXCEPT ![e] = x(files, left, state)]
        <3> DEFINE next == IF old.left = {file} THEN "Report" ELSE old.state
                   rest == old.left \ {file}
        <3>1. executions' = [executions EXCEPT ![e] = [old EXCEPT !.left = rest, !.state = next]]
            BY <2>2 DEF RemediateFile
        <3>2. next \in {"Report", "Remediate"}
            BY <2>2 DEF RemediateFile
        <3> HIDE DEF next, rest
        <3>3. [old EXCEPT !.left = rest, !.state = next] = x(old.files, rest, next)
            BY <1>1 DEF Run
        <3> QED BY <3>1, <3>2, <3>3
    <2> QED BY <2>1, <2>2
<1>3. PICK files, left, state :
            /\ state \in {"Report", "Remediate"}
            /\ executions' = [executions EXCEPT ![e] = x(files, left, state)]
    BY <1>2
<1> DEFINE y == x(files, left, state)
<1>4. /\ y.head = old.head /\ y.changed = old.changed /\ y.prefixes = old.prefixes
      /\ y.todo = old.todo /\ y.status = old.status /\ y.allowEmpty = old.allowEmpty
      /\ y.scanned = old.scanned /\ y.state = state
    BY <1>1 DEF Run
<1>5. executions' = [executions EXCEPT ![e] = y]
    BY <1>3
<1> HIDE DEF y, x
<1>6. ScopeOK(y)
    BY <1>3, <1>4 DEF ScopeOK
<1>7. WholeOK(y)
    BY <1>1, <1>3, <1>4 DEF WholeOK, Tasks, Scanned
<1> QED BY <1>4, <1>5, <1>6, <1>7 DEF Stays

LEMMA FollowOnStays ==
    ASSUME IInv, NEW e \in 1..Len(executions), ScopeOK(executions[e]), WholeOK(executions[e]),
           \/ OpenCheckRun(e) \/ Complete(e)
           \/ \E ok : Synthesize(e, ok)
           \/ \E failed : ScannerError(e, failed)
           \/ \E shown : PostSuggestions(e, shown)
           \/ RecordOffer(e) \/ Fails(e) \/ Retried(e)
    PROVE  \E x : Stays(e, x)
<1>1. ASSUME NEW ok, Synthesize(e, ok) PROVE \E x : Stays(e, x)
    <2>1. executions[e].state = "Synthesize" /\ Goto(e, "Scan")
        BY <1>1 DEF Synthesize
    <2> QED BY <2>1, GotoStays DEF Tasks, Scanned
<1>2. ASSUME NEW shown, PostSuggestions(e, shown) PROVE \E x : Stays(e, x)
    <2>1. executions[e].state = "Report" /\ Goto(e, "Complete")
        BY <1>2 DEF PostSuggestions
    <2> QED BY <2>1, GotoStays DEF Tasks, Scanned
<1>3. CASE Complete(e)
    <2>1. executions[e].state = "Complete" /\ Goto(e, "RecordOffer")
        BY <1>3 DEF Complete
    <2> QED BY <2>1, GotoStays DEF Tasks, Scanned
<1>4. CASE (\E failed : ScannerError(e, failed)) \/ Fails(e) \/ RecordOffer(e)
    BY <1>4, EndStays DEF ScannerError, Fails, RecordOffer, Ended
<1>5. CASE Retried(e)
    <2> DEFINE state == executions[e].state
    <2>1. state \in Tasks /\ Again(state) # state /\ Goto(e, Again(state))
        BY <1>5 DEF Retried
    <2>2. \/ state = "Snapshot" /\ Again(state) = "Fetch"
          \/ state = "WriteFindings" /\ Again(state) = "Scan"
          \/ state = "Mapping" /\ Again(state) = "MapToControls"
          \/ state \in {"Complete", "RecordOffer"} /\ Again(state) = "Report"
        BY <2>1 DEF Again
    <2> QED BY <2>1, <2>2, GotoStays DEF Tasks, Scanned
<1>6. CASE OpenCheckRun(e)
    <2> DEFINE old == executions[e]
               x == [old EXCEPT !.state = "Snapshot", !.check = Len(checkRuns) + 1]
    <2>1. old \in Run
        BY EachRun
    <2>2. executions' = [executions EXCEPT ![e] = x]
        BY <1>6 DEF OpenCheckRun
    <2>3. /\ x.head = old.head /\ x.changed = old.changed /\ x.prefixes = old.prefixes
          /\ x.todo = old.todo /\ x.scanned = old.scanned /\ x.state = "Snapshot"
        BY <2>1 DEF Run
    <2> HIDE DEF x
    <2>4. ScopeOK(x) /\ WholeOK(x)
        BY <2>3 DEF ScopeOK, WholeOK, Scanned
    <2> QED BY <2>2, <2>3, <2>4 DEF Stays
<1> QED BY <1>1, <1>2, <1>3, <1>4, <1>5, <1>6

\* Every step an execution takes.
LEMMA RunStays ==
    ASSUME IInv, NamedOK, NEW e \in 1..Len(executions), ScopeOK(executions[e]),
           WholeOK(executions[e]), ExecutionStep(e) \/ Fails(e) \/ Retried(e)
    PROVE  \E x : Stays(e, x)
BY SnapshotStays, ScanStays, WriteFindingsStays, MappingStays, DraftingStays, FollowOnStays
   DEF ExecutionStep

----------------------------------------------------------------------------
(* What the steps make of the records' names *)

\* A finding is carried over to an id of its own file and rule.
Named(unique) == \A id \in DOMAIN unique : unique[id].file = id.file /\ unique[id].rule = id.rule

LEMMA DeduplicatedNamed ==
    ASSUME NEW found \in SUBSET Instance
    PROVE  /\ DOMAIN Deduplicate(found) = {Id(i) : i \in found}
           /\ \A id \in DOMAIN Deduplicate(found) :
                 Deduplicate(found)[id] \in found /\ Id(Deduplicate(found)[id]) = id
           /\ Named(Deduplicate(found))
<1>1. DOMAIN Deduplicate(found) = {Id(i) : i \in found}
    BY DEF Deduplicate
<1>2. ASSUME NEW id \in {Id(i) : i \in found}
      PROVE  Deduplicate(found)[id] \in found /\ Id(Deduplicate(found)[id]) = id
    <2> DEFINE i == CHOOSE i \in found : Id(i) = id
    <2>1. i \in found /\ Id(i) = id
        BY <1>2
    <2> QED BY <2>1 DEF Deduplicate
<1>3. \A i : Id(i).file = i.file /\ Id(i).rule = i.rule
    BY DEF Id
<1> QED BY <1>1, <1>2, <1>3 DEF Named

LEMMA CarriedNamed ==
    ASSUME NamedOK, NEW unique, Named(unique)
    PROVE  Named(CarryMovedIds(unique))
<1> DEFINE pairs == Carried(unique)
           kept  == DOMAIN unique \ {p[2].id : p \in pairs}
           moved == {p[1].id : p \in pairs}
           first(id) == CHOOSE p \in pairs : p[1].id = id
<1>1. ASSUME NEW p \in pairs
      PROVE  p[2].item.file = p[1].id.file /\ p[2].item.rule = p[1].id.rule
    <2>1. /\ SameGroup(p[1].item, p[2].item)
          /\ p[1].id \in Unmarked /\ p[1].item = records[p[1].id]
        BY DEF Carried
    <2> QED BY <2>1 DEF SameGroup, Unmarked, NamedOK
<1> HIDE DEF pairs
<1>2. ASSUME NEW id \in moved
      PROVE  first(id)[2].item.file = id.file /\ first(id)[2].item.rule = id.rule
    <2>1. first(id) \in pairs /\ first(id)[1].id = id
        BY <1>2
    <2> QED BY <1>1, <2>1
<1>3. CarryMovedIds(unique) = [id \in kept \cup moved |->
            IF id \in kept THEN unique[id] ELSE first(id)[2].item]
    BY DEF CarryMovedIds, pairs
<1> HIDE DEF first, moved
<1> QED BY <1>2, <1>3 DEF Named

LEMMA WrittenNamed ==
    ASSUME IInv, NamedOK, NEW unique, NEW templates, Named(unique)
    PROVE  \A id \in DOMAIN Written(unique, templates) :
              LET new == Written(unique, templates)[id]
              IN /\ new.file = id.file /\ new.rule = id.rule
                 /\ new.status \notin {"raw", "needs-human-only"} => Touched(id.file)
<1> DEFINE result == Written(unique, templates)
<1> SUFFICES ASSUME NEW id \in DOMAIN records \cup DOMAIN unique
             PROVE  /\ result[id].file = id.file /\ result[id].rule = id.rule
                    /\ result[id].status \notin {"raw", "needs-human-only"} => Touched(id.file)
    BY DEF Written
<1>1. id \in DOMAIN records => records[id] \in Record
    BY DEF IInv, RecordsOK
<1>2. CASE id \in DOMAIN unique /\ id \in DOMAIN records
    <2>1. result[id] = [records[id] EXCEPT !.resource = unique[id].resource,
                                           !.line = unique[id].line, !.gone = FALSE]
        BY <1>2 DEF Written
    <2> QED BY <1>1, <1>2, <2>1 DEF Record, NamedOK
<1>3. CASE id \in DOMAIN unique /\ id \notin DOMAIN records
    <2>1. result[id] = New(unique[id])
        BY <1>3 DEF Written
    <2> QED BY <1>3, <2>1 DEF New, Named
<1>4. CASE id \notin DOMAIN unique
    <2> DEFINE gone == records[id].gone \/ ~(records[id].file \in Templates /\ templates = {})
    <2>1. result[id] = [records[id] EXCEPT !.gone = gone]
        BY <1>4 DEF Written
    <2> HIDE DEF gone
    <2> QED BY <1>1, <1>4, <2>1 DEF Record, NamedOK
<1> QED BY <1>2, <1>3, <1>4

\* Only a mapping pass has a finding worked on that was not, and only what the
\* query found in scope.
LEMMA NamesStep ==
    ASSUME IInv, NamedOK, NEW e \in 1..Len(executions), ScopeOK(executions[e]),
           \/ \E failed : WriteFindings(e, failed)
           \/ \E mapped, yielded : MapFindings(e, mapped, yielded)
           \/ \E file, outcome : RemediateFile(e, file, outcome)
    PROVE  NamedOK'
<1>1. UNCHANGED <<history, pushes>>
    BY DEF WriteFindings, MapFindings, RemediateFile
<1>2. \A file : Touched(file)' = Touched(file)
    BY <1>1 DEF Touched
<1>3. ASSUME NEW failed, WriteFindings(e, failed) PROVE NamedOK'
    <2> DEFINE read == executions[e].read
               unique == Deduplicate(Normalized(Tools \ failed, read))
    <2>1. records' = Written(CarryMovedIds(unique), ScannedTemplates(read))
        BY <1>3 DEF WriteFindings
    <2>2. Normalized(Tools \ failed, read) \subseteq Instance
        <3>1. read.files \in 0..pushes /\ read.templates \in 0..pushes
            BY EachRun DEF Run, Within, IInv, PullOK
        <3> QED BY <3>1, OnType DEF Normalized, Reported, Found, IInv
    <2>3. Named(unique)
        BY <2>2, DeduplicatedNamed
    <2> HIDE DEF unique
    <2>4. Named(CarryMovedIds(unique))
        BY <2>3, CarriedNamed
    <2> QED BY <1>2, <2>1, <2>4, WrittenNamed DEF NamedOK
<1>4. ASSUME NEW mapped, NEW yielded, MapFindings(e, mapped, yielded) PROVE NamedOK'
    <2>1. records' = [id \in DOMAIN records |->
                        IF id \in mapped THEN [records[id] EXCEPT !.status = "mapped"]
                        ELSE records[id]]
        BY <1>4 DEF MapFindings
    <2>2. \A id \in mapped : Touched(id.file)
        BY <1>4 DEF MapFindings, ScopeOK
    <2>3. \A id \in DOMAIN records : records[id] \in Record
        BY DEF IInv, RecordsOK
    <2>4. ASSUME NEW id \in DOMAIN records
          PROVE  /\ records'[id].file = id.file /\ records'[id].rule = id.rule
                 /\ records'[id].status \notin {"raw", "needs-human-only"} => Touched(id.file)
        BY <2>1, <2>2, <2>3 DEF NamedOK, Record
    <2> QED BY <1>2, <2>1, <2>4 DEF NamedOK
<1>5. ASSUME NEW file, NEW outcome, RemediateFile(e, file, outcome) PROVE NamedOK'
    <2>1. records' = [id \in DOMAIN records |->
                        IF id \in Workable(file) THEN Drafted(id, outcome) ELSE records[id]]
        BY <1>5 DEF RemediateFile
    <2>2. \A id \in DOMAIN records : records[id] \in Record
        BY DEF IInv, RecordsOK
    <2>3. ASSUME NEW id \in Workable(file) PROVE Touched(id.file)
        BY DEF Workable, IsStale, NamedOK
    <2>4. ASSUME NEW id \in DOMAIN records
          PROVE  Drafted(id, outcome).file = records[id].file /\ Drafted(id, outcome).rule = records[id].rule
        BY <2>2 DEF Drafted, Record
    <2>5. ASSUME NEW id \in DOMAIN records
          PROVE  /\ records'[id].file = id.file /\ records'[id].rule = id.rule
                 /\ records'[id].status \notin {"raw", "needs-human-only"} => Touched(id.file)
        BY <2>1, <2>3, <2>4 DEF NamedOK
    <2> QED BY <1>2, <2>1, <2>5 DEF NamedOK
<1> QED BY <1>3, <1>4, <1>5

----------------------------------------------------------------------------
(* The scope and the scans, over all steps *)

ScopeInv == NamedOK /\ RunsOK /\ WholeIsScanned

\* What was touched stays so when commits are added.
LEMMA TouchedStays ==
    ASSUME history' = history, pushes \in Nat, pushes' \in Nat, pushes <= pushes'
    PROVE  \A file : Touched(file) => Touched(file)'
BY DEF Touched

LEMMA ScopeStays ==
    ASSUME history' = history, pushes \in Nat, pushes' \in Nat, pushes <= pushes',
           NEW x, ScopeOK(x), WholeOK(x)
    PROVE  ScopeOK(x)' /\ WholeOK(x)'
<1>1. ScopeOK(x)'
    BY TouchedStays DEF ScopeOK
<1>2. Kept(x.head)' = Kept(x.head)
    BY DEF Kept
<1>3. WholeOK(x)'
    BY <1>2 DEF WholeOK
<1> QED BY <1>1, <1>3

\* A step of an execution leaves the others' runs alone.
LEMMA RunsGoOn ==
    ASSUME IInv, NamedOK, RunsOK, NEW e \in 1..Len(executions),
           ExecutionStep(e) \/ Fails(e) \/ Retried(e)
    PROVE  /\ Len(executions') = Len(executions)
           /\ \A d \in 1..Len(executions) :
                 /\ ScopeOK(executions'[d]) /\ WholeOK(executions'[d])
                 /\ executions'[d].head = executions[d].head
                 /\ executions[d].scanned => executions'[d].scanned
<1>1. PICK x : Stays(e, x)
    BY RunStays DEF RunsOK
<1>2. /\ Len(executions') = Len(executions)
      /\ \A d \in 1..Len(executions) : executions'[d] = IF d = e THEN x ELSE executions[d]
    BY <1>1 DEF Stays, IInv, ExecutionsOK
<1> QED BY <1>1, <1>2 DEF Stays, RunsOK

\* The check runs after a step of an execution: what one of them says is what it
\* said, unless its execution completes it.
LEMMA SaidByStep ==
    ASSUME IInv, NEW e \in 1..Len(executions),
           ExecutionStep(e) \/ ((Fails(e) \/ Retried(e)) /\ UNCHANGED othersVars),
           NEW c \in DOMAIN checkRuns', checkRuns'[c].says = "findings"
    PROVE  \/ /\ c \in DOMAIN checkRuns /\ checkRuns[c].says = "findings"
              /\ checkRuns'[c].execution = checkRuns[c].execution
           \/ /\ executions[e].state = "Complete" /\ executions[e].status = "ok"
              /\ checkRuns'[c].execution = e
<1>1. CASE OpenCheckRun(e)
    <2>1. checkRuns' = Append(checkRuns, NewCheckRun(e)) /\ checkRuns \in Seq(CheckRun)
        BY <1>1 DEF OpenCheckRun, IInv, ChecksOK
    <2>2. NewCheckRun(e).says = "nothing"
        BY DEF NewCheckRun
    <2> HIDE DEF NewCheckRun
    <2>3. \/ c \in DOMAIN checkRuns /\ checkRuns'[c] = checkRuns[c]
          \/ checkRuns'[c] = NewCheckRun(e)
        BY <2>1
    <2> QED BY <2>2, <2>3
<1>2. CASE Complete(e)
    <2> DEFINE k == executions[e].check
               ok == executions[e].status = "ok"
               said == IF ok THEN [Completed(checkRuns[k], "findings", OffersFixes(e))
                                     EXCEPT !.unparsed = executions[e].errors]
                       ELSE Completed(checkRuns[k], "not-scanned", FALSE)
    <2>1. checkRuns' = [checkRuns EXCEPT ![k] = said] /\ executions[e].state = "Complete"
        BY <1>2 DEF Complete
    <2>2. k \in 1..Len(checkRuns) /\ checkRuns[k].execution = e /\ checkRuns[k] \in CheckRun
        BY <2>1 DEF IInv, KnownOK, ChecksOK, Tasks
    <2>3. said.execution = e /\ (said.says = "findings" => ok)
        BY <2>2 DEF Completed, CheckRun
    <2> HIDE DEF said
    <2>4. DOMAIN checkRuns' = DOMAIN checkRuns
        BY <2>1
    <2>5. checkRuns'[c] = IF c = k THEN said ELSE checkRuns[c]
        BY <2>1, <2>4
    <2> QED BY <2>1, <2>3, <2>4, <2>5
<1>3. CASE UNCHANGED checkRuns
    BY <1>3
<1> QED BY <1>1, <1>2, <1>3 DEF ExecutionStep, Snapshot, Synthesize, SelectFiles, RecordOffer,
           RemediateFile, PostSuggestions, gatewayVars, othersVars

LEMMA StepScope ==
    ASSUME IInv, ScopeInv, NEW e \in 1..Len(executions),
           ExecutionStep(e) \/ ((Fails(e) \/ Retried(e)) /\ UNCHANGED othersVars)
    PROVE  ScopeInv'
<1>1. UNCHANGED <<history, pushes>>
    BY DEF ExecutionStep, OpenCheckRun, Snapshot, Synthesize, Scan, WriteFindings, ScannerError,
           MapToControls, MapFindings, SelectFiles, RemediateFile, PostSuggestions, Complete,
           RecordOffer, Fails, Retried
<1>2. /\ Len(executions') = Len(executions)
      /\ \A d \in 1..Len(executions) :
            /\ ScopeOK(executions'[d]) /\ WholeOK(executions'[d])
            /\ executions'[d].head = executions[d].head
            /\ executions[d].scanned => executions'[d].scanned
    BY RunsGoOn DEF ScopeInv
<1>3. pushes \in Nat
    BY DEF IInv, PullOK
<1>4. \A k : Kept(k)' = Kept(k)
    BY <1>1 DEF Kept
<1>5. \A file : Touched(file)' = Touched(file)
    BY <1>1 DEF Touched
<1>6. RunsOK'
    <2>1. ASSUME NEW d \in 1..Len(executions) PROVE ScopeOK(executions[d])' /\ WholeOK(executions[d])'
        <3>1. ScopeOK(executions[d])'
            BY <1>2, <1>5 DEF ScopeOK
        <3>2. WholeOK(executions[d])'
            BY <1>1, <1>2, <1>4 DEF WholeOK
        <3> QED BY <3>1, <3>2
    <2> QED BY <1>2, <2>1 DEF RunsOK
<1>7. NamedOK'
    <2>1. CASE \/ \E failed : WriteFindings(e, failed)
               \/ \E mapped, yielded : MapFindings(e, mapped, yielded)
               \/ \E file, outcome : RemediateFile(e, file, outcome)
        BY <2>1, NamesStep DEF ScopeInv, RunsOK
    <2>2. CASE UNCHANGED records
        BY <1>5, <2>2 DEF ScopeInv, NamedOK
    <2> QED BY <2>1, <2>2 DEF ExecutionStep, OpenCheckRun, Snapshot, Synthesize, Scan, ScannerError,
           MapToControls, SelectFiles, PostSuggestions, Complete, RecordOffer, scannerVars, othersVars
<1>8. WholeIsScanned'
    <2> SUFFICES ASSUME NEW c \in DOMAIN checkRuns', checkRuns'[c].says = "findings"
                 PROVE  LET x == executions'[checkRuns'[c].execution]
                        IN history[x.head].fits /\ (x.scanned \/ Kept(x.head) = {})
        BY <1>1, <1>4 DEF WholeIsScanned
    <2>1. CASE /\ c \in DOMAIN checkRuns /\ checkRuns[c].says = "findings"
               /\ checkRuns'[c].execution = checkRuns[c].execution
        <3> DEFINE d == checkRuns[c].execution
        <3>1. d \in 1..Len(executions)
            BY <2>1, DomainOfExecutions DEF IInv, ChecksOK
        <3>2. history[executions[d].head].fits
              /\ (executions[d].scanned \/ Kept(executions[d].head) = {})
            BY <2>1 DEF ScopeInv, WholeIsScanned
        <3> QED BY <1>2, <2>1, <3>1, <3>2
    <2>2. CASE /\ executions[e].state = "Complete" /\ executions[e].status = "ok"
               /\ checkRuns'[c].execution = e
        <3>1. WholeOK(executions[e])
            BY DEF ScopeInv, RunsOK
        <3>2. history[executions[e].head].fits
              /\ (executions[e].scanned \/ Kept(executions[e].head) = {})
            BY <2>2, <3>1 DEF WholeOK, Tasks, Scanned
        <3> QED BY <1>2, <2>2, <3>2
    <2> QED BY <2>1, <2>2, SaidByStep
<1> QED BY <1>6, <1>7, <1>8 DEF ScopeInv

\* A start, a push and the backstop.
LEMMA OtherScope ==
    ASSUME IInv, ScopeInv,
           \/ PushCommit
           \/ \E k \in 1..pushes : PullRequestEvent(k)
           \/ \E c \in DOMAIN checkRuns :
                 ClickDraftFixes(c) \/ \E d \in Deliveries : ClickRerun(c, d)
           \/ \E e \in DOMAIN executions : OnExecutionFailed(e)
    PROVE  ScopeInv'
<1>1. pushes \in Nat
    BY DEF IInv, PullOK
<1>2. CASE PushCommit
    <2>1. /\ pushes' = pushes + 1
          /\ UNCHANGED <<history, executions, records, checkRuns>>
        BY <1>2 DEF PushCommit, othersVars, scannerVars, gatewayVars
    <2>2. \A file : Touched(file) => Touched(file)'
        BY <1>1, <2>1, TouchedStays
    <2>3. RunsOK'
        <3>1. ASSUME NEW d \in 1..Len(executions) PROVE (ScopeOK(executions[d]) /\ WholeOK(executions[d]))'
            <4> DEFINE x == executions[d]
            <4>1. ScopeOK(x) /\ WholeOK(x) /\ executions'[d] = x
                BY <2>1 DEF ScopeInv, RunsOK
            <4>2. ScopeOK(executions[d])'
                BY <2>2, <4>1 DEF ScopeOK
            <4>3. WholeOK(executions[d])'
                BY <2>1, <4>1 DEF WholeOK, Kept
            <4> QED BY <4>2, <4>3
        <3> QED BY <2>1, <3>1 DEF RunsOK
    <2>4. NamedOK'
        BY <2>1, <2>2 DEF ScopeInv, NamedOK
    <2>5. WholeIsScanned'
        BY <2>1 DEF ScopeInv, WholeIsScanned, Kept
    <2> QED BY <2>3, <2>4, <2>5 DEF ScopeInv
<1>3. ASSUME NEW head, NEW trigger, NEW parent, Start(head, trigger, parent), UNCHANGED othersVars
      PROVE  ScopeInv'
    <2> DEFINE new == NewExecution(head, trigger, parent)
               n == Len(executions)
    <2>1. /\ executions' = Append(executions, new)
          /\ UNCHANGED <<history, pushes, records, checkRuns>>
        BY <1>3 DEF Start, othersVars, scannerVars, gatewayVars
    <2>2. ScopeOK(new) /\ WholeOK(new)
        BY DEF NewExecution, ScopeOK, WholeOK, Scanned
    <2> HIDE DEF new
    <2>3. /\ n \in Nat /\ Len(executions') = n + 1 /\ executions'[n + 1] = new
          /\ \A d \in 1..n : executions'[d] = executions[d]
        BY <2>1 DEF IInv, ExecutionsOK
    <2>4. \A d \in 1..(n + 1) : d \in 1..n \/ d = n + 1
        BY <2>3
    <2>5. RunsOK'
        <3>1. \A d \in 1..(n + 1) : ScopeOK(executions'[d]) /\ WholeOK(executions'[d])
            BY <2>2, <2>3, <2>4 DEF ScopeInv, RunsOK
        <3>2. \A file : Touched(file)' = Touched(file)
            BY <2>1 DEF Touched
        <3>3. ASSUME NEW d \in 1..(n + 1) PROVE ScopeOK(executions[d])' /\ WholeOK(executions[d])'
            <4>1. ScopeOK(executions[d])'
                BY <3>1, <3>2 DEF ScopeOK
            <4>2. WholeOK(executions[d])'
                BY <2>1, <3>1 DEF WholeOK, Kept
            <4> QED BY <4>1, <4>2
        <3> QED BY <2>3, <3>3 DEF RunsOK
    <2>6. NamedOK'
        BY <2>1 DEF ScopeInv, NamedOK, Touched
    <2>7. WholeIsScanned'
        <3>1. \A c \in DOMAIN checkRuns : checkRuns[c].execution \in 1..n
            BY DomainOfExecutions DEF IInv, ChecksOK
        <3> QED BY <2>1, <2>3, <3>1 DEF ScopeInv, WholeIsScanned, Kept
    <2> QED BY <2>5, <2>6, <2>7 DEF ScopeInv
<1>4. ASSUME NEW e \in DOMAIN executions, OnExecutionFailed(e) PROVE ScopeInv'
    <2>1. UNCHANGED <<history, pushes, executions, records>>
        BY <1>4 DEF OnExecutionFailed, executionVars, scannerVars
    <2>2. RunsOK' /\ NamedOK'
        BY <2>1 DEF ScopeInv, RunsOK, NamedOK, ScopeOK, WholeOK, Touched, Kept
    <2>3. ASSUME NEW c \in DOMAIN checkRuns', checkRuns'[c].says = "findings"
          PROVE  c \in DOMAIN checkRuns /\ checkRuns'[c] = checkRuns[c]
        <3>1. checkRuns \in Seq(CheckRun)
            BY DEF IInv, ChecksOK
        <3>2. \A r \in CheckRun : Completed(r, "unfinished", FALSE).says = "unfinished"
            BY DEF Completed, CheckRun
        <3>3. CASE checkRuns' = [d \in DOMAIN checkRuns |->
                IF d \in ChecksOf(e) /\ InProgress(d)
                THEN Completed(checkRuns[d], "unfinished", FALSE) ELSE checkRuns[d]]
            <4>1. c \in DOMAIN checkRuns /\ checkRuns[c] \in CheckRun
                BY <3>1, <3>3
            <4> QED BY <2>3, <3>2, <3>3, <4>1
        <3>4. CASE checkRuns' = Append(checkRuns, Completed(NewCheckRun(e), "unfinished", FALSE))
            <4> DEFINE new == Completed(NewCheckRun(e), "unfinished", FALSE)
            <4>1. new.says = "unfinished"
                BY DEF Completed, NewCheckRun
            <4>2. checkRuns' = Append(checkRuns, new)
                BY <3>4
            <4> HIDE DEF new
            <4>3. \/ c \in DOMAIN checkRuns /\ checkRuns'[c] = checkRuns[c]
                  \/ checkRuns'[c] = new
                BY <3>1, <4>2
            <4> QED BY <2>3, <4>1, <4>3
        <3> QED BY <1>4, <3>3, <3>4 DEF OnExecutionFailed
    <2>4. WholeIsScanned'
        BY <2>1, <2>3 DEF ScopeInv, WholeIsScanned, Kept
    <2> QED BY <2>2, <2>4 DEF ScopeInv
<1> QED BY <1>2, <1>3, <1>4 DEF PullRequestEvent, ClickDraftFixes, ClickRerun

LEMMA InitScope == FlowInit => ScopeInv
<1> SUFFICES ASSUME FlowInit PROVE ScopeInv
    OBVIOUS
<1>1. CASE Opened
    BY <1>1 DEF Opened, ScopeInv, NamedOK, RunsOK, WholeIsScanned
<1>2. ASSUME NEW drafted \in BOOLEAN, ScannedOnce(drafted) PROVE ScopeInv
    <2> DEFINE k     == IF history[1].app THEN 1 ELSE 0
               found == On(1, Files \ Templates) \cup On(k, Templates)
               ended(trigger, parent, check) ==
                 [NewExecution(1, trigger, parent) EXCEPT !.state = "Succeeded", !.check = check,
                    !.scanned = TRUE, !.allowEmpty = (Kept(1) = {})]
    <2>1. PullOK /\ pushes = 1 /\ IInv
        BY InitOK DEF FlowInit, IInv
    <2>2. NamedOK
        <3>1. found \subseteq Instance
            <4>1. 1 \in 0..pushes /\ k \in 0..pushes
                BY <2>1
            <4> QED BY <2>1, <4>1, OnType
        <3>2. records = [id \in {Id(i) : i \in found} |->
                LET new == New(Deduplicate(found)[id])
                IN IF Candidates(id) # {} /\ WorkFile(id.file) \in history[1].changed
                   THEN [new EXCEPT !.status = IF drafted THEN "fix-proposed" ELSE "mapped",
                            !.base = IF drafted THEN history[1].content[WorkFile(id.file)] ELSE 0]
                   ELSE new]
            BY <1>2 DEF ScannedOnce
        <3> HIDE DEF found
        <3>3. ASSUME NEW id \in {Id(i) : i \in found}
              PROVE  /\ records[id].file = id.file /\ records[id].rule = id.rule
                     /\ records[id].status \notin {"raw", "needs-human-only"} => Touched(id.file)
            <4> DEFINE new == New(Deduplicate(found)[id])
                       status == IF drafted THEN "fix-proposed" ELSE "mapped"
                       base == IF drafted THEN history[1].content[WorkFile(id.file)] ELSE 0
                       worked == [new EXCEPT !.status = status, !.base = base]
            <4>1. Deduplicate(found)[id].file = id.file /\ Deduplicate(found)[id].rule = id.rule
                BY <3>1, <3>3, DeduplicatedNamed DEF Named
            <4>2. /\ new.file = id.file /\ new.rule = id.rule /\ new.status = "raw"
                  /\ DOMAIN new = {"file", "rule", "resource", "line", "status", "base", "gone"}
                BY <4>1 DEF New
            <4>3. records[id] = IF Candidates(id) # {} /\ WorkFile(id.file) \in history[1].changed
                                THEN worked ELSE new
                BY <3>2, <3>3
            <4> HIDE DEF new, status, base
            <4>4. worked.file = id.file /\ worked.rule = id.rule
                BY <4>2
            <4>5. WorkFile(id.file) \in history[1].changed => Touched(id.file)
                BY <2>1 DEF Touched
            <4> QED BY <4>2, <4>3, <4>4, <4>5
        <3>4. DOMAIN records = {Id(i) : i \in found}
            BY <3>2
        <3> QED BY <3>3, <3>4 DEF NamedOK
    <2>3. ASSUME NEW trigger, NEW parent, NEW check
          PROVE  LET x == ended(trigger, parent, check)
                 IN /\ ScopeOK(x) /\ WholeOK(x) /\ x.head = 1 /\ x.scanned
        <3> DEFINE x == ended(trigger, parent, check)
                   empty == Kept(1) = {}
        <3>1. /\ x.state = "Succeeded" /\ x.changed = {} /\ x.prefixes = {} /\ x.todo = {}
              /\ x.scanned = TRUE /\ x.head = 1
            BY DEF NewExecution
        <3> HIDE DEF ended
        <3>2. ScopeOK(x)
            BY <3>1 DEF ScopeOK
        <3>3. WholeOK(x)
            BY <3>1 DEF WholeOK, Tasks, Scanned
        <3> QED BY <3>1, <3>2, <3>3
    <2>4. executions = (IF drafted THEN <<ended(Push, 0, 1), ended(DraftFixes, 1, 2)>>
                        ELSE <<ended(Push, 0, 1)>>)
        BY <1>2 DEF ScannedOnce
    <2>5. history[1].fits
        BY <1>2 DEF ScannedOnce, FetchStatus
    <2> HIDE DEF ended
    <2>6. \A e \in DOMAIN executions : /\ ScopeOK(executions[e]) /\ WholeOK(executions[e])
                                       /\ executions[e].head = 1 /\ executions[e].scanned
        BY <2>3, <2>4
    <2>7. WholeIsScanned
        <3>1. \A c \in DOMAIN checkRuns : checkRuns[c].execution \in DOMAIN executions
            BY <2>1, DomainOfExecutions DEF IInv, ChecksOK
        <3> QED BY <2>5, <2>6, <3>1 DEF WholeIsScanned
    <2>8. RunsOK
        BY <2>1, <2>6, DomainOfExecutions DEF RunsOK
    <2> QED BY <2>2, <2>7, <2>8 DEF ScopeInv
<1> QED BY <1>1, <1>2 DEF FlowInit

\* The scope of an execution, the names of the records and what a check run's
\* execution has scanned are invariants.
THEOREM ScopesHold == FlowSpec => []ScopeInv
<1>1. IInv /\ ScopeInv /\ [FlowNext]_flowVars => ScopeInv'
    <2> SUFFICES ASSUME IInv, ScopeInv, [FlowNext]_flowVars PROVE ScopeInv'
        OBVIOUS
    <2>1. CASE UNCHANGED flowVars
        BY <2>1 DEF flowVars, executionVars, scannerVars, gatewayVars, ScopeInv, NamedOK, RunsOK,
                    ScopeOK, WholeOK, Touched, WholeIsScanned, Kept
    <2>2. CASE FlowNext
        BY <2>2, StepsOfFlow, StepScope, OtherScope, DomainOfExecutions
    <2> QED BY <2>1, <2>2
<1> QED BY <1>1, InitScope, FlowInvariant, PTL DEF FlowSpec

\* OnlyTouchedIsMapped is an invariant: whoever scans what in between, no finding is
\* mapped or drafted in a file that no commit of the pull request changed
\* (mapping-agent's only_files and only_prefixes).
THEOREM TouchedOnly == FlowSpec => []OnlyTouchedIsMapped
<1>1. ScopeInv => OnlyTouchedIsMapped
    BY DEF ScopeInv, NamedOK, OnlyTouchedIsMapped, Touched
<1> QED BY <1>1, ScopesHold, PTL

\* WholeIsScanned is an invariant: a check run never says what was found of a
\* commit that did not fit or was not scanned (fetch, scan_directory, report).
THEOREM ScansAreWhole == FlowSpec => []WholeIsScanned
<1>1. ScopeInv => WholeIsScanned
    BY DEF ScopeInv
<1> QED BY <1>1, ScopesHold, PTL

----------------------------------------------------------------------------
(* What is left of a scan without its duplicates *)

Reps(found) == {Deduplicate(found)[id] : id \in DOMAIN Deduplicate(found)}

\* One finding of each id.
LEMMA RepsOf ==
    ASSUME NEW found \in SUBSET Instance
    PROVE  /\ Reps(found) \subseteq found
           /\ \A i, j \in Reps(found) : Id(i) = Id(j) => i = j
           /\ \A i \in Reps(found) : Id(i) \in DOMAIN Deduplicate(found)
                                     /\ Deduplicate(found)[Id(i)] = i
<1>1. \A id \in DOMAIN Deduplicate(found) :
         Deduplicate(found)[id] \in found /\ Id(Deduplicate(found)[id]) = id
    BY DeduplicatedNamed
<1> QED BY <1>1 DEF Reps

\* The same one, whatever else is found in other files.
LEMMA RepsOfParts ==
    ASSUME NEW A \in SUBSET Instance, NEW B \in SUBSET Instance,
           \A a \in A, b \in B : a.file # b.file
    PROVE  Reps(A \cup B) = Reps(A) \cup Reps(B)
<1>1. DOMAIN Deduplicate(A \cup B) = DOMAIN Deduplicate(A) \cup DOMAIN Deduplicate(B)
    BY DEF Deduplicate
<1>2. ASSUME NEW S \in SUBSET Instance, NEW T \in SUBSET Instance,
             \A a \in S, b \in T : a.file # b.file, NEW id \in DOMAIN Deduplicate(S)
      PROVE  Deduplicate(S \cup T)[id] = Deduplicate(S)[id]
    <2>1. PICK a \in S : Id(a) = id
        BY <1>2 DEF Deduplicate
    <2>2. \A i : (i \in S \cup T /\ Id(i) = id) <=> (i \in S /\ Id(i) = id)
        <3>1. \A i : Id(i) = id => i.file = a.file
            BY <2>1 DEF Id
        <3> QED BY <1>2, <3>1
    <2>3. (CHOOSE i \in S \cup T : Id(i) = id) = (CHOOSE i \in S : Id(i) = id)
        BY <2>2
    <2> QED BY <1>2, <2>3 DEF Deduplicate
<1>3. \A id \in DOMAIN Deduplicate(A) : Deduplicate(A \cup B)[id] = Deduplicate(A)[id]
    BY <1>2
<1>4. \A id \in DOMAIN Deduplicate(B) : Deduplicate(A \cup B)[id] = Deduplicate(B)[id]
    <2>1. B \cup A = A \cup B
        OBVIOUS
    <2>2. \A b \in B, a \in A : b.file # a.file
        OBVIOUS
    <2>3. \A id \in DOMAIN Deduplicate(B) : Deduplicate(B \cup A)[id] = Deduplicate(B)[id]
        BY <1>2, <2>2
    <2> QED BY <2>1, <2>3
<1> QED BY <1>1, <1>3, <1>4 DEF Reps

LEMMA RepsOfFiles ==
    ASSUME NEW found \in SUBSET Instance, NEW files
    PROVE  Reps({i \in found : i.file \in files}) = {i \in Reps(found) : i.file \in files}
<1> DEFINE A == {i \in found : i.file \in files}
           B == {i \in found : i.file \notin files}
<1>1. A \cup B = found /\ A \in SUBSET Instance /\ B \in SUBSET Instance
    OBVIOUS
<1>2. \A a \in A, b \in B : a.file # b.file
    OBVIOUS
<1>3. Reps(A) \subseteq A /\ Reps(B) \subseteq B
    BY <1>1, RepsOf
<1>4. Reps(found) = Reps(A) \cup Reps(B)
    BY <1>1, <1>2, RepsOfParts
<1> QED BY <1>3, <1>4

----------------------------------------------------------------------------
(* The pairs of _carry_moved_ids *)

\* The line order is total on a group, so ranks tell its entries apart.
LEMMA RanksApart ==
    ASSUME NEW group, IsFiniteSet(group),
           \A c \in group : /\ c.id \in Ids /\ c.item.line \in Nat
                            /\ c.item.file = c.id.file /\ c.item.rule = c.id.rule,
           \A c, d \in group : c.id = d.id => c = d,
           NEW a \in group, NEW b \in group, SameGroup(a.item, b.item), a # b
    PROVE  Rank(a, group) # Rank(b, group)
<1> DEFINE of(x) == {c \in group : SameGroup(x.item, c.item) /\ Before(c, x)}
<1>1. ASSUME NEW x \in group, NEW y \in group, SameGroup(x.item, y.item), Before(x, y)
      PROVE  Rank(x, group) # Rank(y, group)
    <2>1. of(x) \subseteq of(y)
        <3> SUFFICES ASSUME NEW c \in of(x) PROVE c \in of(y)
            OBVIOUS
        <3>1. c \in group /\ SameGroup(x.item, c.item) /\ Before(c, x)
            OBVIOUS
        <3>2. SameGroup(y.item, c.item)
            BY <1>1, <3>1 DEF SameGroup
        <3>3. /\ c.item.line \in Nat /\ x.item.line \in Nat /\ y.item.line \in Nat
              /\ c.id.line \in Nat /\ x.id.line \in Nat /\ y.id.line \in Nat
            BY <1>1, <3>1 DEF Ids
        <3>4. Before(c, y)
            BY <1>1, <3>1, <3>3 DEF Before
        <3> QED BY <3>1, <3>2, <3>4
    <2>2. x \in of(y)
        <3>1. SameGroup(y.item, x.item)
            BY <1>1 DEF SameGroup
        <3> QED BY <1>1, <3>1
    <2>3. x \notin of(x)
        <3>1. x.item.line \in Nat /\ x.id.line \in Nat
            BY <1>1 DEF Ids
        <3> QED BY <3>1 DEF Before
    <2>4. IsFiniteSet(of(y))
        BY FS_Subset
    <2>5. Rank(x, group) = Cardinality(of(x)) /\ Rank(y, group) = Cardinality(of(y))
        BY DEF Rank
    <2> HIDE DEF of
    <2> QED BY <2>1, <2>2, <2>3, <2>4, <2>5, FS_Subset
<1>2. Before(a, b) \/ Before(b, a)
    <2>1. a.id # b.id
        OBVIOUS
    <2>2. a.id.file = b.id.file /\ a.id.rule = b.id.rule
        BY DEF SameGroup
    <2>3. a.id.line # b.id.line
        BY <2>1, <2>2 DEF Ids
    <2>4. /\ a.item.line \in Nat /\ b.item.line \in Nat
          /\ a.id.line \in Nat /\ b.id.line \in Nat
        BY DEF Ids
    <2> QED BY <2>3, <2>4 DEF Before
<1>3. SameGroup(b.item, a.item)
    BY DEF SameGroup
<1> QED BY <1>1, <1>2, <1>3

\* As many as there are arguments, at most.
LEMMA ValuesFinite ==
    ASSUME NEW S, IsFiniteSet(S), NEW f, f = [x \in S |-> f[x]]
    PROVE  IsFiniteSet({f[x] : x \in S})
<1> DEFINE T == {f[x] : x \in S}
<1>1. f \in [S -> T]
    OBVIOUS
<1>2. f \in Surjection(S, T)
    BY <1>1 DEF Surjection
<1> QED BY <1>2, FS_Surjection

\* A record per id, and findings of the commit as they are reported.
Unique(unique) ==
    /\ DOMAIN unique \subseteq Ids /\ IsFiniteSet(DOMAIN unique)
    /\ \A id \in DOMAIN unique : unique[id] \in Instance /\ Id(unique[id]) = id

\* Each id that was lost goes to one that appeared, and to one only.
LEMMA CarriedMatch ==
    ASSUME IInv, NamedOK, IsFiniteSet(DOMAIN records), NEW unique, Unique(unique)
    PROVE  /\ \A p \in Carried(unique) :
                 /\ p[1].id \in Unmarked \ DOMAIN unique
                 /\ p[2].id \in DOMAIN unique \ DOMAIN records
                 /\ p[2].item = unique[p[2].id]
                 /\ p = <<p[1], p[2]>>
           /\ \A p, q \in Carried(unique) : p[1].id = q[1].id <=> p[2].id = q[2].id
<1> DEFINE lost == {[id |-> id, item |-> records[id]] : id \in Unmarked \ DOMAIN unique}
           appeared == {[id |-> id, item |-> unique[id]] : id \in DOMAIN unique \ DOMAIN records}
<1>1. Carried(unique) = {p \in lost \X appeared : /\ SameGroup(p[1].item, p[2].item)
                                                   /\ Rank(p[1], lost) = Rank(p[2], appeared)}
    BY DEF Carried
<1>2. IsFiniteSet(lost)
    <2> DEFINE S == Unmarked \ DOMAIN unique
               f == [id \in S |-> [id |-> id, item |-> records[id]]]
    <2>1. IsFiniteSet(S)
        BY FS_Subset DEF Unmarked
    <2>2. IsFiniteSet({f[x] : x \in S})
        BY <2>1, ValuesFinite
    <2>3. lost = {f[x] : x \in S}
        OBVIOUS
    <2> QED BY <2>2, <2>3
<1>3. IsFiniteSet(appeared)
    <2> DEFINE S == DOMAIN unique \ DOMAIN records
               f == [id \in S |-> [id |-> id, item |-> unique[id]]]
    <2>1. IsFiniteSet(S)
        BY FS_Subset DEF Unique
    <2>2. IsFiniteSet({f[x] : x \in S})
        BY <2>1, ValuesFinite
    <2>3. appeared = {f[x] : x \in S}
        OBVIOUS
    <2> QED BY <2>2, <2>3
<1>4. /\ \A c \in lost : /\ c.id \in Ids /\ c.item.line \in Nat
                          /\ c.item.file = c.id.file /\ c.item.rule = c.id.rule
                          /\ c.id \in Unmarked \ DOMAIN unique
      /\ \A c, d \in lost : c.id = d.id => c = d
    BY DEF Unmarked, IInv, RecordsOK, Record, NamedOK
<1>5. /\ \A c \in appeared : /\ c.id \in Ids /\ c.item.line \in Nat
                              /\ c.item.file = c.id.file /\ c.item.rule = c.id.rule
                              /\ c.id \in DOMAIN unique \ DOMAIN records
                              /\ c.item = unique[c.id]
      /\ \A c, d \in appeared : c.id = d.id => c = d
    <2>1. \A id \in DOMAIN unique : unique[id].line \in Nat
                                    /\ unique[id].file = id.file /\ unique[id].rule = id.rule
        BY DEF Unique, Instance, Id
    <2> QED BY <2>1 DEF Unique
<1> HIDE DEF lost, appeared
<1>6. ASSUME NEW p \in Carried(unique)
      PROVE  /\ p[1] \in lost /\ p[2] \in appeared /\ p = <<p[1], p[2]>>
             /\ SameGroup(p[1].item, p[2].item)
             /\ Rank(p[1], lost) = Rank(p[2], appeared)
    BY <1>1
<1>7. ASSUME NEW p \in Carried(unique), NEW q \in Carried(unique), p[1].id = q[1].id
      PROVE  p[2].id = q[2].id
    <2>1. p[1] = q[1]
        BY <1>4, <1>6, <1>7
    <2>2. SameGroup(p[2].item, q[2].item)
        <3>1. SameGroup(p[1].item, p[2].item) /\ SameGroup(p[1].item, q[2].item)
            BY <1>6, <2>1
        <3> QED BY <3>1 DEF SameGroup
    <2>3. Rank(p[2], appeared) = Rank(q[2], appeared)
        BY <1>6, <2>1
    <2> QED BY <1>3, <1>5, <1>6, <2>2, <2>3, RanksApart
<1>8. ASSUME NEW p \in Carried(unique), NEW q \in Carried(unique), p[2].id = q[2].id
      PROVE  p[1].id = q[1].id
    <2>1. p[2] = q[2]
        BY <1>5, <1>6, <1>8
    <2>2. SameGroup(p[1].item, q[1].item)
        <3>1. SameGroup(p[1].item, p[2].item) /\ SameGroup(q[1].item, p[2].item)
            BY <1>6, <2>1
        <3> QED BY <3>1 DEF SameGroup
    <2>3. Rank(p[1], lost) = Rank(q[1], lost)
        BY <1>6, <2>1
    <2> QED BY <1>2, <1>4, <1>6, <2>2, <2>3, RanksApart
<1> QED BY <1>4, <1>5, <1>6, <1>7, <1>8

\* Carrying ids over renames what was found and changes nothing of it: every
\* finding is there once.
LEMMA CarriedKeeps ==
    ASSUME IInv, NamedOK, IsFiniteSet(DOMAIN records), NEW unique, Unique(unique)
    PROVE  LET carried == CarryMovedIds(unique)
           IN /\ {carried[id] : id \in DOMAIN carried} = {unique[id] : id \in DOMAIN unique}
              /\ \A i, j \in DOMAIN carried : carried[i] = carried[j] => i = j
              /\ DOMAIN carried \subseteq DOMAIN unique \cup DOMAIN records
<1> DEFINE pairs == Carried(unique)
           kept  == DOMAIN unique \ {p[2].id : p \in pairs}
           moved == {p[1].id : p \in pairs}
           first(id) == CHOOSE p \in pairs : p[1].id = id
           carried == CarryMovedIds(unique)
<1>1. /\ \A p \in pairs : /\ p[1].id \in Unmarked \ DOMAIN unique
                          /\ p[2].id \in DOMAIN unique /\ p[2].item = unique[p[2].id]
      /\ \A p, q \in pairs : p[1].id = q[1].id <=> p[2].id = q[2].id
    BY CarriedMatch
<1>2. carried = [id \in kept \cup moved |->
            IF id \in kept THEN unique[id] ELSE first(id)[2].item]
    BY DEF CarryMovedIds
<1> HIDE DEF pairs, carried
<1>3. kept \cap moved = {}
    BY <1>1
<1>4. \A id \in moved : first(id) \in pairs /\ first(id)[1].id = id
    OBVIOUS
<1>5. \A id \in moved : first(id)[2].id \in DOMAIN unique \ kept
                        /\ first(id)[2].item = unique[first(id)[2].id]
    <2> SUFFICES ASSUME NEW id \in moved, NEW p \in pairs
                 PROVE  p[2].id \in DOMAIN unique \ kept /\ p[2].item = unique[p[2].id]
        BY <1>4
    <2> QED BY <1>1
<1>6. \A a, b \in DOMAIN unique : unique[a] = unique[b] => a = b
    BY DEF Unique
<1>7. ASSUME NEW id \in DOMAIN unique \ kept PROVE \E m \in moved : first(m)[2].id = id
    <2>1. PICK p \in pairs : p[2].id = id
        OBVIOUS
    <2>2. p[1].id \in moved
        OBVIOUS
    <2>3. first(p[1].id)[2].id = id
        BY <1>1, <1>4, <2>1, <2>2
    <2> QED BY <2>2, <2>3
<1>8. \A i, j \in moved : first(i)[2].id = first(j)[2].id => i = j
    BY <1>1, <1>4
<1>9. kept \subseteq DOMAIN unique /\ moved \subseteq DOMAIN records
    BY <1>1 DEF Unmarked
<1> HIDE DEF kept, moved, first
<1> DEFINE as(id) == IF id \in kept THEN id ELSE first(id)[2].id
<1>10. \A id \in kept \cup moved : as(id) \in DOMAIN unique /\ carried[id] = unique[as(id)]
    BY <1>2, <1>5, <1>9
<1>11. \A i, j \in kept \cup moved : as(i) = as(j) => i = j
    BY <1>5, <1>8
<1>12. \A id \in DOMAIN unique : \E i \in kept \cup moved : as(i) = id
    BY <1>3, <1>7
<1>13. DOMAIN carried = kept \cup moved
    BY <1>2
<1> HIDE DEF as
<1>14. {carried[id] : id \in kept \cup moved} = {unique[id] : id \in DOMAIN unique}
    <2>1. \A id \in kept \cup moved : \E n \in DOMAIN unique : carried[id] = unique[n]
        BY <1>10
    <2>2. \A n \in DOMAIN unique : \E id \in kept \cup moved : carried[id] = unique[n]
        BY <1>10, <1>12
    <2> QED BY <2>1, <2>2
<1>15. \A i, j \in kept \cup moved : carried[i] = carried[j] => i = j
    BY <1>6, <1>10, <1>11
<1> QED BY <1>9, <1>13, <1>14, <1>15 DEF carried

----------------------------------------------------------------------------
(* The records are the scan *)

\* A record as a finding.
Shown(r) == [file |-> r.file, rule |-> r.rule, resource |-> r.resource, line |-> r.line]

\* What RecordsAreTheScan needs to go on: records are finitely many, and what was
\* last found are findings.
ScanInv == /\ IsFiniteSet(DOMAIN records) /\ seen \subseteq Instance
           /\ RecordsAreTheScan

\* The two halves of RecordsAreTheScan.
LEMMA AsScanned ==
    RecordsAreTheScan <=>
        /\ {Shown(records[id]) : id \in Unmarked} = Reps(seen)
        /\ \A i, j \in Unmarked :
              i # j => <<records[i].file, records[i].rule, records[i].line>>
                         # <<records[j].file, records[j].rule, records[j].line>>
BY DEF RecordsAreTheScan, Reps, Shown

\* What a scan writes, record by record.
LEMMA WrittenShown ==
    ASSUME IInv, NamedOK, NEW carried, NEW templates, Named(carried),
           \A id \in DOMAIN carried : carried[id] \in Instance,
           records' = Written(carried, templates)
    PROVE  /\ DOMAIN records' = DOMAIN records \cup DOMAIN carried
           /\ \A id \in DOMAIN carried : ~records'[id].gone /\ Shown(records'[id]) = carried[id]
           /\ \A id \in DOMAIN records \ DOMAIN carried :
                 /\ Shown(records'[id]) = Shown(records[id])
                 /\ ~records'[id].gone <=>
                       ~records[id].gone /\ records[id].file \in Templates /\ templates = {}
<1>1. DOMAIN records' = DOMAIN records \cup DOMAIN carried
    BY DEF Written
<1>2. \A id \in DOMAIN records : records[id] \in Record
    BY DEF IInv, RecordsOK
<1>3. ASSUME NEW id \in DOMAIN carried
      PROVE  ~records'[id].gone /\ Shown(records'[id]) = carried[id]
    <2>1. carried[id] \in Instance /\ carried[id].file = id.file /\ carried[id].rule = id.rule
        BY DEF Named
    <2>2. CASE id \in DOMAIN records
        <3>1. records'[id] = [records[id] EXCEPT !.resource = carried[id].resource,
                                                 !.line = carried[id].line, !.gone = FALSE]
            BY <2>2 DEF Written
        <3>2. records[id].file = id.file /\ records[id].rule = id.rule
            BY <2>2 DEF NamedOK
        <3>3. /\ ~records'[id].gone
              /\ records'[id].file = carried[id].file /\ records'[id].rule = carried[id].rule
              /\ records'[id].resource = carried[id].resource /\ records'[id].line = carried[id].line
            BY <1>2, <2>1, <2>2, <3>1, <3>2 DEF Record
        <3> QED BY <2>1, <3>3 DEF Shown, Instance
    <2>3. CASE id \notin DOMAIN records
        <3>1. records'[id] = New(carried[id])
            BY <2>3 DEF Written
        <3>2. /\ ~records'[id].gone
              /\ records'[id].file = carried[id].file /\ records'[id].rule = carried[id].rule
              /\ records'[id].resource = carried[id].resource /\ records'[id].line = carried[id].line
            BY <3>1 DEF New
        <3> QED BY <2>1, <3>2 DEF Shown, Instance
    <2> QED BY <2>2, <2>3
<1>4. ASSUME NEW id \in DOMAIN records \ DOMAIN carried
      PROVE  /\ Shown(records'[id]) = Shown(records[id])
             /\ ~records'[id].gone <=>
                   ~records[id].gone /\ records[id].file \in Templates /\ templates = {}
    <2> DEFINE gone == records[id].gone \/ ~(records[id].file \in Templates /\ templates = {})
    <2>1. records'[id] = [records[id] EXCEPT !.gone = gone]
        BY DEF Written
    <2>2. gone <=> ~(~records[id].gone /\ records[id].file \in Templates /\ templates = {})
        OBVIOUS
    <2> HIDE DEF gone
    <2>3. /\ records'[id].file = records[id].file /\ records'[id].rule = records[id].rule
          /\ records'[id].resource = records[id].resource /\ records'[id].line = records[id].line
          /\ records'[id].gone = gone
        BY <1>2, <2>1 DEF Record
    <2> QED BY <2>2, <2>3 DEF Shown
<1> QED BY <1>1, <1>3, <1>4

\* What a scan finds is finite, every tool's, and in files that are there.
LEMMA FoundOK ==
    ASSUME IInv, NEW e \in 1..Len(executions)
    PROVE  LET read == executions[e].read
           IN /\ Found(read) \subseteq Instance /\ IsFiniteSet(Found(read))
              /\ Normalized(Tools, read) = Found(read)
              /\ ScannedTemplates(read) = {} => \A i \in Found(read) : i.file \notin Templates
<1> DEFINE read == executions[e].read
<1>1. read.files \in 0..pushes /\ read.templates \in 0..pushes
    BY EachRun DEF Run, Within, IInv, PullOK
<1>2. history \in Histories /\ \A k \in 1..pushes : k \in DOMAIN history
    BY ExecutionsAssumption DEF IInv, PullOK
<1>3. ASSUME NEW k \in 0..pushes, NEW files
      PROVE  /\ IsFiniteSet(On(k, files))
             /\ \A i \in On(k, files) : /\ i.file \in files /\ ToolOf[i.rule] \in Tools
                                        /\ k # 0 /\ history[k].content[i.file] # 0
    <2>1. CASE k = 0
        BY <2>1, FS_EmptySet DEF On
    <2>2. CASE k # 0
        <3>1. k \in DOMAIN history
            BY <1>2, <2>2 DEF IInv, PullOK
        <3>2. On(k, files) \subseteq history[k].instances
            BY <2>2 DEF On
        <3>3. IsFiniteSet(On(k, files))
            BY <1>2, <3>1, <3>2, ScannerAssumption, FS_Subset
        <3>4. \A i \in On(k, files) : i.file \in files
            BY <2>2 DEF On
        <3> QED BY <1>2, <2>2, <3>1, <3>2, <3>3, <3>4, ScannerAssumption
    <2> QED BY <2>1, <2>2
<1>4. Found(read) \subseteq Instance
    BY <1>1, OnType DEF Found, IInv
<1>5. IsFiniteSet(Found(read))
    BY <1>1, <1>3, FS_Union DEF Found
<1>6. Normalized(Tools, read) = Found(read)
    <2>1. \A i \in Found(read) : ToolOf[i.rule] \in Tools
        BY <1>1, <1>3 DEF Found
    <2> QED BY <2>1 DEF Normalized, Reported
<1>7. ASSUME ScannedTemplates(read) = {}, NEW i \in Found(read) PROVE i.file \notin Templates
    <2>1. CASE i \in On(read.files, Files \ Templates)
        BY <1>1, <1>3, <2>1
    <2>2. CASE i \in On(read.templates, Templates)
        <3>1. read.templates # 0 /\ i.file \in Templates
              /\ history[read.templates].content[i.file] # 0
            BY <1>1, <1>3, <2>2
        <3>2. i.file \in ScannedTemplates(read)
            BY <3>1 DEF ScannedTemplates, Has
        <3> QED BY <1>7, <3>2
    <2> QED BY <2>1, <2>2 DEF Found
<1> QED BY <1>4, <1>5, <1>6, <1>7

\* What the scanner writes, of findings of its commit once each.
LEMMA ScanWrites ==
    ASSUME IInv, NamedOK, ScanInv, NEW e \in 1..Len(executions), NEW failed,
           WriteFindings(e, failed)
    PROVE  LET read == executions[e].read
               unique == Deduplicate(Found(read))
               held == {i \in seen : i.file \in Templates /\ ScannedTemplates(read) = {}}
           IN /\ records' = Written(CarryMovedIds(unique), ScannedTemplates(read))
              /\ Unique(unique) /\ Named(CarryMovedIds(unique))
              /\ \A id \in DOMAIN CarryMovedIds(unique) :
                    CarryMovedIds(unique)[id] \in Found(read)
              /\ seen' = held \cup Found(read)
              /\ \A a \in held, b \in Found(read) : a.file # b.file
<1> DEFINE read == executions[e].read
           found == Found(read)
           templates == ScannedTemplates(read)
           unique == Deduplicate(found)
           carried == CarryMovedIds(unique)
           held == {i \in seen : i.file \in Templates /\ templates = {}}
<1>1. /\ found \subseteq Instance /\ IsFiniteSet(found)
      /\ templates = {} => \A i \in found : i.file \notin Templates
    BY FoundOK
<1>2. records' = Written(carried, templates)
    <2>1. failed = {}
        BY DEF WriteFindings, Raises
    <2>2. Normalized(Tools \ failed, read) = found
        <3>1. Tools \ {} = Tools
            OBVIOUS
        <3> QED BY <2>1, <3>1, FoundOK
    <2> QED BY <2>2 DEF WriteFindings
<1>3. seen' = held \cup found
    BY DEF WriteFindings
<1>4. Unique(unique)
    <2>1. IsFiniteSet(DOMAIN unique)
        <3> DEFINE f == [i \in found |-> Id(i)]
        <3>1. IsFiniteSet({f[i] : i \in found})
            BY <1>1, ValuesFinite
        <3>2. DOMAIN unique = {f[i] : i \in found}
            BY DEF Deduplicate
        <3> QED BY <3>1, <3>2
    <2> QED BY <1>1, <2>1, DeduplicatedType, DeduplicatedNamed DEF Unique
<1>5. Named(unique) /\ \A id \in DOMAIN unique : unique[id] \in found
    BY <1>1, DeduplicatedNamed
<1>6. Named(carried) /\ \A id \in DOMAIN carried : carried[id] \in found
    <2>1. {carried[id] : id \in DOMAIN carried} = {unique[id] : id \in DOMAIN unique}
        BY <1>4, CarriedKeeps DEF ScanInv
    <2>2. Named(carried)
        BY <1>4, <1>5, CarriedNamed DEF ScanInv
    <2> QED BY <1>5, <2>1, <2>2
<1>7. \A a \in held, b \in found : a.file # b.file
    BY <1>1
<1> QED BY <1>2, <1>3, <1>4, <1>6, <1>7

\* The step that is hard to get right: after it the records are what was found.
LEMMA WriteFindingsScan ==
    ASSUME IInv, NamedOK, ScanInv, NEW e \in 1..Len(executions), NEW failed,
           WriteFindings(e, failed)
    PROVE  ScanInv'
<1> DEFINE read == executions[e].read
           found == Found(read)
           templates == ScannedTemplates(read)
           unique == Deduplicate(found)
           carried == CarryMovedIds(unique)
           held == {i \in seen : i.file \in Templates /\ templates = {}}
<1>1. /\ found \subseteq Instance /\ IsFiniteSet(found)
      /\ templates = {} => \A i \in found : i.file \notin Templates
    BY FoundOK
<1>2. records' = Written(carried, templates) /\ seen' = held \cup found /\ Unique(unique)
    BY ScanWrites
<1>3. Named(unique) /\ Reps(found) \subseteq found
    BY <1>1, DeduplicatedNamed, RepsOf
<1>4. /\ {carried[id] : id \in DOMAIN carried} = Reps(found)
      /\ \A i, j \in DOMAIN carried : carried[i] = carried[j] => i = j
      /\ DOMAIN carried \subseteq DOMAIN unique \cup DOMAIN records
      /\ Named(carried)
    BY <1>2, <1>3, CarriedKeeps, CarriedNamed DEF ScanInv, Reps
<1>5. \A id \in DOMAIN carried : carried[id] \in Reps(found) /\ carried[id] \in found
    BY <1>3, <1>4
<1>6. \A a, b \in Reps(found) : Id(a) = Id(b) => a = b
    BY <1>1, RepsOf
<1> HIDE DEF found, templates, unique, carried
<1>7. /\ DOMAIN records' = DOMAIN records \cup DOMAIN carried
      /\ \A id \in DOMAIN carried : ~records'[id].gone /\ Shown(records'[id]) = carried[id]
      /\ \A id \in DOMAIN records \ DOMAIN carried :
            /\ Shown(records'[id]) = Shown(records[id])
            /\ ~records'[id].gone <=>
                  ~records[id].gone /\ records[id].file \in Templates /\ templates = {}
    BY <1>1, <1>2, <1>4, <1>5, WrittenShown
<1>8. IsFiniteSet(DOMAIN records')
    <2>1. IsFiniteSet(DOMAIN records \cup DOMAIN unique)
        BY <1>2, FS_Union DEF ScanInv, Unique
    <2> QED BY <1>4, <1>7, <2>1, FS_Subset
<1>9. seen' \subseteq Instance
    BY <1>1, <1>2 DEF ScanInv
<1> DEFINE kept == {id \in Unmarked \ DOMAIN carried : records[id].file \in Templates /\ templates = {}}
<1>10. Unmarked' = DOMAIN carried \cup kept
    BY <1>7 DEF Unmarked
<1>11. \A id \in kept : Shown(records'[id]) = Shown(records[id]) /\ id \in Unmarked
    BY <1>7 DEF Unmarked
<1>12. kept = {id \in Unmarked : records[id].file \in Templates /\ templates = {}}
    <2>1. ASSUME NEW id \in Unmarked, records[id].file \in Templates, templates = {}
          PROVE  id \notin DOMAIN carried
        <3>1. id.file \in Templates
            BY <2>1 DEF Unmarked, NamedOK
        <3> QED BY <1>1, <1>4, <1>5, <2>1, <3>1 DEF Named
    <2> QED BY <2>1
<1>13. /\ {Shown(records[id]) : id \in Unmarked} = Reps(seen)
       /\ \A i, j \in Unmarked :
             i # j => <<records[i].file, records[i].rule, records[i].line>>
                        # <<records[j].file, records[j].rule, records[j].line>>
    BY AsScanned DEF ScanInv
<1>14. {Shown(records'[id]) : id \in kept} = Reps(held)
    <2>1. CASE templates = {}
        <3>1. held = {i \in seen : i.file \in Templates}
            BY <2>1
        <3>2. Reps(held) = {i \in Reps(seen) : i.file \in Templates}
            BY <3>1, RepsOfFiles DEF ScanInv
        <3>3. kept = {id \in Unmarked : records[id].file \in Templates}
            BY <1>12, <2>1
        <3>4. \A id \in Unmarked : Shown(records[id]).file = records[id].file
            BY DEF Shown
        <3>5. {Shown(records[id]) : id \in kept} = {i \in Reps(seen) : i.file \in Templates}
            BY <1>13, <3>3, <3>4
        <3> QED BY <1>11, <3>2, <3>5
    <2>2. CASE templates # {}
        <3>1. held = {} /\ kept = {}
            BY <2>2
        <3>2. Reps(held) = {}
            BY <3>1 DEF Reps, Deduplicate
        <3> QED BY <3>1, <3>2
    <2> QED BY <2>1, <2>2
<1>15. Reps(seen') = Reps(held) \cup Reps(found)
    <2>1. held \in SUBSET Instance /\ found \in SUBSET Instance
        BY <1>1 DEF ScanInv
    <2>2. \A a \in held, b \in found : a.file # b.file
        BY <1>1
    <2> QED BY <1>2, <2>1, <2>2, RepsOfParts
<1>16. {Shown(records'[id]) : id \in DOMAIN carried} = Reps(found)
    BY <1>4, <1>7
<1>17. {Shown(records'[id]) : id \in Unmarked'} = Reps(seen')
    <2>1. {Shown(records'[id]) : id \in DOMAIN carried \cup kept}
            = {Shown(records'[id]) : id \in DOMAIN carried} \cup {Shown(records'[id]) : id \in kept}
        OBVIOUS
    <2> QED BY <1>10, <1>14, <1>15, <1>16, <2>1
<1> DEFINE Differ(i, j) == <<records'[i].file, records'[i].rule, records'[i].line>>
                            # <<records'[j].file, records'[j].rule, records'[j].line>>
<1>18. ASSUME NEW i \in DOMAIN carried, NEW j \in DOMAIN carried, i # j PROVE Differ(i, j)
    <2>1. carried[i] # carried[j] /\ carried[i] \in Reps(found) /\ carried[j] \in Reps(found)
        BY <1>4, <1>5, <1>18
    <2>2. Id(carried[i]) # Id(carried[j])
        BY <1>6, <2>1
    <2>3. \A id \in DOMAIN carried : /\ records'[id].file = carried[id].file
                                     /\ records'[id].rule = carried[id].rule
                                     /\ records'[id].line = carried[id].line
        BY <1>7 DEF Shown
    <2> QED BY <2>2, <2>3 DEF Id
<1>19. ASSUME NEW i \in kept, NEW j \in DOMAIN carried PROVE Differ(i, j) /\ Differ(j, i)
    <2>1. records'[i].file \in Templates /\ templates = {}
        BY <1>11 DEF Shown
    <2>2. records'[j].file = carried[j].file
        BY <1>7 DEF Shown
    <2>3. carried[j].file \notin Templates
        BY <1>1, <1>5, <2>1
    <2> QED BY <2>1, <2>2, <2>3
<1>20. ASSUME NEW i \in kept, NEW j \in kept, i # j PROVE Differ(i, j)
    <2>1. \A id \in kept : /\ records'[id].file = records[id].file
                           /\ records'[id].rule = records[id].rule
                           /\ records'[id].line = records[id].line
        BY <1>11 DEF Shown
    <2> QED BY <1>11, <1>13, <1>20, <2>1
<1>21. \A i, j \in Unmarked' : i # j => Differ(i, j)
    <2> HIDE DEF Differ, kept
    <2> QED BY <1>10, <1>18, <1>19, <1>20
<1>22. RecordsAreTheScan'
    BY <1>17, <1>21 DEF RecordsAreTheScan, Reps, Shown
<1> QED BY <1>8, <1>9, <1>22 DEF ScanInv

\* What is decided about a finding is not what was found of it.
LEMMA AlikeScan ==
    ASSUME ScanInv, UNCHANGED seen, DOMAIN records' = DOMAIN records,
           \A id \in DOMAIN records :
              /\ Shown(records'[id]) = Shown(records[id])
              /\ records'[id].gone = records[id].gone
    PROVE  ScanInv'
<1>1. Unmarked' = Unmarked /\ Unmarked \subseteq DOMAIN records
    BY DEF Unmarked
<1>2. {Shown(records'[id]) : id \in Unmarked} = {Shown(records[id]) : id \in Unmarked}
    BY <1>1
<1>3. \A id \in Unmarked : /\ records'[id].file = records[id].file
                           /\ records'[id].rule = records[id].rule
                           /\ records'[id].line = records[id].line
    BY <1>1 DEF Shown
<1>4. /\ {Shown(records[id]) : id \in Unmarked} = Reps(seen)
      /\ \A i, j \in Unmarked :
            i # j => <<records[i].file, records[i].rule, records[i].line>>
                       # <<records[j].file, records[j].rule, records[j].line>>
    BY AsScanned DEF ScanInv
<1>5. {Shown(records'[id]) : id \in Unmarked'} = Reps(seen')
    BY <1>1, <1>2, <1>4
<1>6. \A i, j \in Unmarked' :
         i # j => <<records'[i].file, records'[i].rule, records'[i].line>>
                    # <<records'[j].file, records'[j].rule, records'[j].line>>
    BY <1>1, <1>3, <1>4
<1>7. RecordsAreTheScan'
    BY <1>5, <1>6 DEF RecordsAreTheScan, Reps, Shown
<1> QED BY <1>7 DEF ScanInv

\* A mapping pass and a draft decide.
LEMMA DecidedAlike ==
    ASSUME IInv, NEW e \in 1..Len(executions),
           \/ \E mapped, yielded : MapFindings(e, mapped, yielded)
           \/ \E file, outcome : RemediateFile(e, file, outcome)
    PROVE  /\ UNCHANGED seen /\ DOMAIN records' = DOMAIN records
           /\ \A id \in DOMAIN records : /\ Shown(records'[id]) = Shown(records[id])
                                         /\ records'[id].gone = records[id].gone
<1>1. \A id \in DOMAIN records : records[id] \in Record
    BY DEF IInv, RecordsOK
<1> DEFINE StillAlike == /\ UNCHANGED seen /\ DOMAIN records' = DOMAIN records
                     /\ \A id \in DOMAIN records : /\ Shown(records'[id]) = Shown(records[id])
                                                   /\ records'[id].gone = records[id].gone
<1>2. ASSUME NEW mapped, NEW yielded, MapFindings(e, mapped, yielded) PROVE StillAlike
    <2>1. /\ records' = [id \in DOMAIN records |->
                           IF id \in mapped THEN [records[id] EXCEPT !.status = "mapped"]
                           ELSE records[id]]
          /\ UNCHANGED seen
        BY <1>2 DEF MapFindings
    <2>2. \A id \in DOMAIN records : /\ Shown(records'[id]) = Shown(records[id])
                                     /\ records'[id].gone = records[id].gone
        BY <1>1, <2>1 DEF Shown, Record
    <2> QED BY <2>1, <2>2
<1>3. ASSUME NEW file, NEW outcome, RemediateFile(e, file, outcome) PROVE StillAlike
    <2>1. /\ records' = [id \in DOMAIN records |->
                           IF id \in Workable(file) THEN Drafted(id, outcome) ELSE records[id]]
          /\ UNCHANGED seen
        BY <1>3 DEF RemediateFile
    <2>2. ASSUME NEW id \in DOMAIN records
          PROVE  /\ Shown(Drafted(id, outcome)) = Shown(records[id])
                 /\ Drafted(id, outcome).gone = records[id].gone
        BY <1>1 DEF Drafted, Shown, Record
    <2>3. \A id \in DOMAIN records : /\ Shown(records'[id]) = Shown(records[id])
                                     /\ records'[id].gone = records[id].gone
        BY <2>1, <2>2
    <2> QED BY <2>1, <2>3
<1> QED BY <1>2, <1>3

LEMMA UnchangedScan ==
    ASSUME ScanInv, UNCHANGED <<records, seen>>
    PROVE  ScanInv'
BY AlikeScan

LEMMA StepScan ==
    ASSUME IInv, NamedOK, ScanInv, NEW e \in 1..Len(executions),
           ExecutionStep(e) \/ ((Fails(e) \/ Retried(e)) /\ UNCHANGED othersVars)
    PROVE  ScanInv'
<1>1. CASE \E failed : WriteFindings(e, failed)
    BY <1>1, WriteFindingsScan
<1>2. CASE \/ \E mapped, yielded : MapFindings(e, mapped, yielded)
           \/ \E file, outcome : RemediateFile(e, file, outcome)
    BY <1>2, DecidedAlike, AlikeScan
<1>3. CASE UNCHANGED <<records, seen>>
    BY <1>3, UnchangedScan
<1> QED BY <1>1, <1>2, <1>3 DEF ExecutionStep, OpenCheckRun, Snapshot, Synthesize, Scan,
           ScannerError, MapToControls, SelectFiles, PostSuggestions, Complete, RecordOffer,
           scannerVars, othersVars

\* What other steps there are leave the records alone.
LEMMA OtherScan ==
    ASSUME ScanInv,
           \/ PushCommit
           \/ \E k \in 1..pushes : PullRequestEvent(k)
           \/ \E c \in DOMAIN checkRuns :
                 ClickDraftFixes(c) \/ \E d \in Deliveries : ClickRerun(c, d)
           \/ \E e \in DOMAIN executions : OnExecutionFailed(e)
    PROVE  ScanInv'
<1>1. UNCHANGED <<records, seen>>
    BY DEF PushCommit, PullRequestEvent, ClickDraftFixes, ClickRerun, OnExecutionFailed,
           othersVars, scannerVars
<1> QED BY <1>1, UnchangedScan

LEMMA InitScan == FlowInit => ScanInv
<1> SUFFICES ASSUME FlowInit PROVE ScanInv
    OBVIOUS
<1>1. CASE Opened
    <2>1. records = <<>> /\ seen = {}
        BY <1>1 DEF Opened
    <2>2. DOMAIN records = {}
        BY <2>1
    <2>3. Unmarked = {} /\ Reps(seen) = {}
        BY <2>1, <2>2 DEF Unmarked, Reps, Deduplicate
    <2>4. RecordsAreTheScan
        BY <2>3, AsScanned
    <2> QED BY <2>1, <2>2, <2>4, FS_EmptySet DEF ScanInv
<1>2. ASSUME NEW drafted \in BOOLEAN, ScannedOnce(drafted) PROVE ScanInv
    <2> DEFINE k == IF history[1].app THEN 1 ELSE 0
               found == On(1, Files \ Templates) \cup On(k, Templates)
               unique == Deduplicate(found)
    <2>1. PullOK /\ pushes = 1 /\ IInv
        BY InitOK DEF FlowInit, IInv
    <2>2. found \subseteq Instance
        <3>1. 1 \in 0..pushes /\ k \in 0..pushes
            BY <2>1
        <3> QED BY <2>1, <3>1, OnType
    <2>3. IsFiniteSet(found)
        <3>1. history \in Histories /\ 1 \in DOMAIN history
            BY <2>1, ExecutionsAssumption DEF PullOK
        <3>2. IsFiniteSet(history[1].instances)
            BY <3>1, ScannerAssumption
        <3>3. \A files : On(1, files) \subseteq history[1].instances
                         /\ On(0, files) = {}
            BY DEF On
        <3>4. IsFiniteSet(On(1, Files \ Templates)) /\ IsFiniteSet(On(k, Templates))
            BY <3>2, <3>3, FS_Subset, FS_EmptySet
        <3> QED BY <3>4, FS_Union
    <2>4. seen = found
        BY <1>2 DEF ScannedOnce
    <2>5. records = [id \in {Id(i) : i \in found} |->
            LET new == New(Deduplicate(found)[id])
            IN IF Candidates(id) # {} /\ WorkFile(id.file) \in history[1].changed
               THEN [new EXCEPT !.status = IF drafted THEN "fix-proposed" ELSE "mapped",
                        !.base = IF drafted THEN history[1].content[WorkFile(id.file)] ELSE 0]
               ELSE new]
        BY <1>2 DEF ScannedOnce
    <2> HIDE DEF found
    <2>6. DOMAIN records = DOMAIN unique
        BY <2>5 DEF Deduplicate
    <2>7. ASSUME NEW id \in DOMAIN unique
          PROVE  ~records[id].gone /\ Shown(records[id]) = unique[id]
        <3> DEFINE new == New(unique[id])
                   status == IF drafted THEN "fix-proposed" ELSE "mapped"
                   base == IF drafted THEN history[1].content[WorkFile(id.file)] ELSE 0
                   worked == [new EXCEPT !.status = status, !.base = base]
        <3>1. records[id] = IF Candidates(id) # {} /\ WorkFile(id.file) \in history[1].changed
                            THEN worked ELSE new
            BY <2>5, <2>6
        <3>2. unique[id] \in Instance
            BY <2>2, DeduplicatedNamed
        <3>3. /\ ~new.gone /\ new.file = unique[id].file /\ new.rule = unique[id].rule
              /\ new.resource = unique[id].resource /\ new.line = unique[id].line
              /\ DOMAIN new = {"file", "rule", "resource", "line", "status", "base", "gone"}
            BY DEF New
        <3>4. Shown(new) = unique[id]
            BY <3>2, <3>3 DEF Shown, Instance
        <3> HIDE DEF new, status, base
        <3>5. ~worked.gone /\ Shown(worked) = Shown(new)
            BY <3>3 DEF Shown
        <3> QED BY <3>1, <3>3, <3>4, <3>5
    <2>8. Unmarked = DOMAIN unique
        BY <2>6, <2>7 DEF Unmarked
    <2>9. {Shown(records[id]) : id \in Unmarked} = Reps(seen)
        BY <2>4, <2>7, <2>8 DEF Reps
    <2>10. \A i, j \in Unmarked :
              i # j => <<records[i].file, records[i].rule, records[i].line>>
                         # <<records[j].file, records[j].rule, records[j].line>>
        <3>1. \A id \in DOMAIN unique : Id(unique[id]) = id
            BY <2>2, DeduplicatedNamed
        <3>2. \A id \in DOMAIN unique : /\ records[id].file = unique[id].file
                                        /\ records[id].rule = unique[id].rule
                                        /\ records[id].line = unique[id].line
            BY <2>7 DEF Shown
        <3> QED BY <2>8, <3>1, <3>2 DEF Id
    <2>11. IsFiniteSet(DOMAIN records)
        <3> DEFINE f == [i \in found |-> Id(i)]
        <3>1. IsFiniteSet({f[i] : i \in found})
            BY <2>3, ValuesFinite
        <3>2. DOMAIN records = {f[i] : i \in found}
            BY <2>5
        <3> QED BY <3>1, <3>2
    <2> QED BY <2>2, <2>4, <2>9, <2>10, <2>11, AsScanned DEF ScanInv
<1> QED BY <1>1, <1>2 DEF FlowInit

LEMMA ScanHolds == FlowSpec => []ScanInv
<1>1. IInv /\ ScopeInv /\ ScanInv /\ [FlowNext]_flowVars => ScanInv'
    <2> SUFFICES ASSUME IInv, ScopeInv, ScanInv, [FlowNext]_flowVars PROVE ScanInv'
        OBVIOUS
    <2>1. CASE UNCHANGED flowVars
        BY <2>1, UnchangedScan DEF flowVars, scannerVars
    <2>2. CASE FlowNext
        BY <2>2, StepsOfFlow, StepScan, OtherScan, DomainOfExecutions DEF ScopeInv
    <2> QED BY <2>1, <2>2
<1> QED BY <1>1, InitScan, FlowInvariant, ScopesHold, PTL DEF FlowSpec

\* RecordsAreTheScan is an invariant: however findings move, go and come back from
\* one commit to the next, and however the executions interleave, the records that
\* are not marked gone are what was last found, once each (_write_findings,
\* _carry_moved_ids).
THEOREM RecordsFollowTheScan == FlowSpec => []RecordsAreTheScan
<1>1. ScanInv => RecordsAreTheScan
    BY DEF ScanInv
<1> QED BY <1>1, ScanHolds, PTL

----------------------------------------------------------------------------
(* What an execution nobody disturbs has made of its commit *)

\* What cannot be parsed of a commit, its templates aside, is named.
Said(k, unparsed) ==
    \A i \in history[k].instances : i.file \in history[k].unparsed \ Templates => i.file \in unparsed

\* An execution is "ok" until its report, and has scanned nothing before its scan.
Held(x) == /\ x.state \notin Reporting => x.status = "ok"
           /\ x.state \notin Scanned \cup Ended => ~x.scanned

\* The snapshot is of an undisturbed execution's commit, and what it has scanned is
\* what was last found.
Clean(x, files, found) ==
    /\ x.state \notin {"Fetch", "Snapshot"}
    /\ x.status = "ok" => files = x.head
    /\ x.scanned => On(x.head, Files \ Templates) \subseteq found
    /\ x.scanned /\ x.state \in Scanned => Said(x.head, x.errors)

\* An execution that was started by a button is of its parent's commit, and that one
\* has reported; and what is read for an undisturbed execution is its commit.
QuietRuns ==
    /\ quiet \subseteq 1..Len(executions)
    /\ \A e \in 1..Len(executions) :
          LET x == executions[e]
          IN /\ Held(x)
             /\ x.parent # 0 => /\ executions[x.parent].head = x.head
                                /\ executions[x.parent].state \in Reporting
                                /\ executions[x.parent].status = "ok"
             /\ x.state = "WriteFindings" /\ quiet \cap {e, x.parent} # {} => x.read.files = x.head
             /\ e \in quiet => Clean(x, snapshot.files, seen)

QuietChecks ==
    \A c \in 1..Len(checkRuns) :
        LET r == checkRuns[c]
            x == executions[r.execution]
        IN /\ r.button => r.says = "findings"
           /\ r.says = "findings" /\ r.execution \in quiet /\ x.scanned => Said(x.head, r.unparsed)

QuietInv == QuietRuns /\ QuietChecks

\* Execution e goes on as x, and disturbs others on its way.
Goes(e, x) ==
    /\ executions' = [executions EXCEPT ![e] = x]
    /\ UNCHANGED <<history, pushes>>
    /\ x.head = executions[e].head /\ x.parent = executions[e].parent
    /\ executions[e].state \in Reporting =>
          /\ x.state \in Reporting /\ x.status = executions[e].status
          /\ x.scanned = executions[e].scanned
    /\ Held(x)
    /\ quiet' \subseteq quiet \cup {e}
    /\ executions[e].state # "Snapshot" => quiet' \subseteq quiet
    /\ x.state = "WriteFindings" /\ quiet' \cap {e, x.parent} # {} => x.read.files = x.head
    /\ e \in quiet' => Clean(x, snapshot'.files, seen')
    /\ \/ snapshot'.files = snapshot.files
       \/ quiet' \subseteq {e, x.parent} /\ snapshot'.files = x.head
    /\ \/ seen' = seen
       \/ /\ quiet' \subseteq {e, x.parent}
          /\ quiet' # {} => On(x.head, Files \ Templates) \subseteq seen'

LEMMA GoesOn ==
    ASSUME IInv, QuietRuns, NEW e \in 1..Len(executions), NEW x, Goes(e, x)
    PROVE  QuietRuns'
<1> DEFINE n == Len(executions)
           old == executions[e]
<1>1. /\ Len(executions') = n
      /\ \A d \in 1..n : executions'[d] = IF d = e THEN x ELSE executions[d]
    BY DEF Goes, IInv, ExecutionsOK
<1>2. n \in Nat /\ \A d \in 1..n : executions[d].parent \in 0..n
    <2>1. n \in Nat /\ \A d \in 1..n : executions[d] \in Run /\ executions[d].parent <= n
        BY EachRun DEF IInv, ExecutionsOK
    <2> QED BY <2>1 DEF Run
<1>3. quiet' \subseteq 1..n
    BY DEF Goes, QuietRuns
<1>4. UNCHANGED history
    BY DEF Goes
<1>5. ASSUME NEW d \in 1..n, executions'[d].parent # 0
      PROVE  /\ executions'[executions'[d].parent].head = executions'[d].head
             /\ executions'[executions'[d].parent].state \in Reporting
             /\ executions'[executions'[d].parent].status = "ok"
    <2> DEFINE p == executions[d].parent
    <2>1. executions'[d].parent = p /\ executions'[d].head = executions[d].head
        BY <1>1 DEF Goes
    <2>2. p \in 1..n
        BY <1>2, <1>5, <2>1
    <2>3. /\ executions[p].head = executions[d].head /\ executions[p].state \in Reporting
          /\ executions[p].status = "ok"
        BY <1>5, <2>1 DEF QuietRuns
    <2>4. /\ executions'[p].head = executions[p].head /\ executions'[p].state \in Reporting
          /\ executions'[p].status = "ok"
        BY <1>1, <2>2, <2>3 DEF Goes
    <2> QED BY <2>1, <2>3, <2>4
<1>6. ASSUME NEW d \in 1..n PROVE Held(executions'[d])
    BY <1>1 DEF Goes, QuietRuns
<1>7. ASSUME NEW d \in 1..n, executions'[d].state = "WriteFindings",
             quiet' \cap {d, executions'[d].parent} # {}
      PROVE  executions'[d].read.files = executions'[d].head
    <2>1. CASE d = e
        BY <1>1, <1>7, <2>1 DEF Goes
    <2>2. CASE d # e
        <3>1. executions'[d] = executions[d]
            BY <1>1, <2>2
        <3>2. executions[d].parent = e => old.state # "Snapshot"
            <4>1. e # 0
                OBVIOUS
            <4>2. executions[d].parent = e => old.state \in Reporting
                BY <4>1 DEF QuietRuns
            <4> QED BY <4>2 DEF Reporting, Ended
        <3>3. quiet' \cap {d, executions[d].parent} \subseteq quiet \cap {d, executions[d].parent}
            BY <2>2, <3>2 DEF Goes
        <3> QED BY <1>7, <3>1, <3>3 DEF QuietRuns
    <2> QED BY <2>1, <2>2
<1>8. ASSUME NEW d \in 1..n, d \in quiet'
      PROVE  Clean(executions'[d], snapshot'.files, seen')
    <2>1. CASE d = e
        BY <1>1, <1>8, <2>1 DEF Goes
    <2>2. CASE d # e
        <3>1. executions'[d] = executions[d] /\ d \in quiet
            BY <1>1, <1>8, <2>2 DEF Goes
        <3>2. Clean(executions[d], snapshot.files, seen)
            BY <3>1 DEF QuietRuns
        <3>3. d = x.parent => executions[d].head = x.head
            <4>1. d # 0 /\ x.parent = old.parent /\ x.head = old.head
                BY DEF Goes
            <4> QED BY <4>1 DEF QuietRuns
        <3>4. executions[d].status = "ok" => snapshot'.files = executions[d].head
            BY <1>8, <2>2, <3>2, <3>3 DEF Goes, Clean
        <3>5. executions[d].scanned => On(executions[d].head, Files \ Templates) \subseteq seen'
            BY <1>8, <2>2, <3>2, <3>3 DEF Goes, Clean
        <3> QED BY <3>1, <3>2, <3>4, <3>5 DEF Clean
    <2> QED BY <2>1, <2>2
<1>9. ASSUME NEW d \in 1..n, d \in quiet' PROVE Clean(executions[d], snapshot.files, seen)'
    <2>1. /\ \A k, files : On(k, files)' = On(k, files)
          /\ \A k, unparsed : Said(k, unparsed)' = Said(k, unparsed)
        BY <1>4 DEF On, Said
    <2> QED BY <1>8, <1>9, <2>1 DEF Clean
<1>10. \A d \in 1..n : Held(executions[d])'
    BY <1>6 DEF Held
<1> QED BY <1>1, <1>3, <1>5, <1>7, <1>9, <1>10 DEF QuietRuns

\* Most states leave what was scanned and the snapshot's commit as they are.
Passes(e, x) ==
    /\ executions' = [executions EXCEPT ![e] = x]
    /\ x.head = executions[e].head /\ x.parent = executions[e].parent
    /\ x.status = executions[e].status /\ x.scanned = executions[e].scanned
    /\ x.state # "WriteFindings"
    /\ x.state \notin {"Fetch", "Snapshot"} \/ executions[e].state \in {"Fetch", "Snapshot"}
    /\ executions[e].state \in Reporting => x.state \in Reporting
    /\ executions[e].state \in Scanned \cup Ended => x.state \in Scanned \cup Ended
    /\ x.state \in Scanned =>
          x.errors = executions[e].errors /\ executions[e].state \in Scanned \cup {"Scan"}

LEMMA PassesOn ==
    ASSUME IInv, QuietRuns, NEW e \in 1..Len(executions), NEW x, Passes(e, x),
           UNCHANGED <<history, pushes, seen>>, snapshot'.files = snapshot.files,
           quiet' \subseteq quiet
    PROVE  Goes(e, x)
<1> DEFINE old == executions[e]
<1>1. Held(old) /\ (e \in quiet => Clean(old, snapshot.files, seen))
    BY DEF QuietRuns
<1>2. Held(x)
    BY <1>1 DEF Held, Passes
<1>3. e \in quiet => Clean(x, snapshot.files, seen)
    <2>1. old.state = "Scan" => ~old.scanned
        BY <1>1 DEF Held, Scanned, Ended
    <2> QED BY <1>1, <2>1 DEF Clean, Passes
<1> QED BY <1>2, <1>3 DEF Goes, Passes

LEMMA GotoPasses ==
    ASSUME IInv, NEW e \in 1..Len(executions), NEW state, Goto(e, state),
           state # "WriteFindings",
           state \notin {"Fetch", "Snapshot"} \/ executions[e].state \in {"Fetch", "Snapshot"},
           executions[e].state \in Reporting => state \in Reporting,
           executions[e].state \in Scanned \cup Ended => state \in Scanned \cup Ended,
           state \in Scanned => executions[e].state \in Scanned \cup {"Scan"}
    PROVE  \E x : Passes(e, x)
<1> DEFINE old == executions[e]
           x == [old EXCEPT !.state = state]
<1>1. old \in Run
    BY EachRun
<1>2. executions' = [executions EXCEPT ![e] = x]
    BY DEF Goto
<1>3. /\ x.head = old.head /\ x.parent = old.parent /\ x.status = old.status
      /\ x.scanned = old.scanned /\ x.errors = old.errors /\ x.state = state
    BY <1>1 DEF Run
<1> HIDE DEF x
<1>4. Passes(e, x)
    BY <1>2, <1>3 DEF Passes
<1> QED BY <1>4

LEMMA EndPasses ==
    ASSUME IInv, NEW e \in 1..Len(executions), NEW state \in Ended, End(e, state)
    PROVE  \E x : Passes(e, x)
<1> DEFINE old == executions[e]
           x == [old EXCEPT !.state = state, !.changed = {}, !.prefixes = {}, !.todo = {},
                            !.files = {}, !.left = {}, !.errors = {}, !.read = NoRead]
<1>1. old \in Run
    BY EachRun
<1>2. executions' = [executions EXCEPT ![e] = x]
    BY DEF End
<1>3. /\ x.head = old.head /\ x.parent = old.parent /\ x.status = old.status
      /\ x.scanned = old.scanned /\ x.state = state
    BY <1>1 DEF Run
<1> HIDE DEF x
<1>4. Passes(e, x)
    BY <1>2, <1>3 DEF Passes, Ended, Scanned, Reporting
<1> QED BY <1>4

\* A run of the states that neither read the commit, nor scan or write it.
LEMMA OrdinaryPasses ==
    ASSUME IInv, NEW e \in 1..Len(executions),
           \/ OpenCheckRun(e) \/ Complete(e) \/ MapToControls(e) \/ SelectFiles(e)
           \/ \E ok : Synthesize(e, ok)
           \/ \E failed : ScannerError(e, failed)
           \/ \E mapped, yielded : MapFindings(e, mapped, yielded)
           \/ \E file, outcome : RemediateFile(e, file, outcome)
           \/ \E shown : PostSuggestions(e, shown)
           \/ RecordOffer(e) \/ Fails(e) \/ Retried(e)
    PROVE  \E x : Passes(e, x)
<1> DEFINE old == executions[e]
<1>1. old \in Run
    BY EachRun
<1>2. CASE (\E ok : Synthesize(e, ok)) \/ (\E shown : PostSuggestions(e, shown)) \/ Complete(e)
    <2>1. \/ old.state = "Synthesize" /\ Goto(e, "Scan")
          \/ old.state = "Report" /\ Goto(e, "Complete")
          \/ old.state = "Complete" /\ Goto(e, "RecordOffer")
        BY <1>2 DEF Synthesize, PostSuggestions, Complete
    <2> QED BY <2>1, GotoPasses DEF Scanned, Reporting, Ended
<1>3. CASE (\E failed : ScannerError(e, failed)) \/ Fails(e) \/ RecordOffer(e)
    BY <1>3, EndPasses DEF ScannerError, Fails, RecordOffer, Ended
<1>4. CASE Retried(e)
    <2> DEFINE state == executions[e].state
    <2>1. state \in Tasks /\ Again(state) # state /\ Goto(e, Again(state))
        BY <1>4 DEF Retried
    <2>2. \/ state = "Snapshot" /\ Again(state) = "Fetch"
          \/ state = "WriteFindings" /\ Again(state) = "Scan"
          \/ state = "Mapping" /\ Again(state) = "MapToControls"
          \/ state \in {"Complete", "RecordOffer"} /\ Again(state) = "Report"
        BY <2>1 DEF Again
    <2> QED BY <2>1, <2>2, GotoPasses DEF Scanned, Reporting, Ended
<1>5. CASE OpenCheckRun(e)
    <2> DEFINE x == [old EXCEPT !.state = "Snapshot", !.check = Len(checkRuns) + 1]
    <2>1. executions' = [executions EXCEPT ![e] = x] /\ old.state = "Fetch"
        BY <1>5 DEF OpenCheckRun
    <2>2. /\ x.head = old.head /\ x.parent = old.parent /\ x.status = old.status
          /\ x.scanned = old.scanned /\ x.state = "Snapshot"
        BY <1>1 DEF Run
    <2> HIDE DEF x
    <2>3. Passes(e, x)
        BY <2>1, <2>2 DEF Passes, Scanned, Reporting, Ended
    <2> QED BY <2>3
<1>6. CASE MapToControls(e) \/ \E mapped, yielded : MapFindings(e, mapped, yielded)
    <2> DEFINE x(todo, state) == [old EXCEPT !.todo = todo, !.state = state]
    <2>1. \E todo : \E state \in {"Mapping", "MapToControls", "SelectFiles", "Report"} :
             executions' = [executions EXCEPT ![e] = x(todo, state)]
        <3>1. CASE MapToControls(e)
            <4>1. executions' = [executions EXCEPT ![e] = x(RawFindings(e), "Mapping")]
                BY <3>1 DEF MapToControls
            <4> QED BY <4>1
        <3>2. ASSUME NEW mapped, NEW yielded, MapFindings(e, mapped, yielded)
              PROVE  \E todo : \E state \in {"Mapping", "MapToControls", "SelectFiles", "Report"} :
                        executions' = [executions EXCEPT ![e] = x(todo, state)]
            <4> DEFINE next == IF MoreToMap(mapped, yielded) THEN "MapToControls"
                               ELSE IF Remediates(e) THEN "SelectFiles" ELSE "Report"
            <4>1. executions' = [executions EXCEPT ![e] = x({}, next)]
                BY <3>2 DEF MapFindings
            <4>2. next \in {"MapToControls", "SelectFiles", "Report"}
                OBVIOUS
            <4> HIDE DEF next
            <4> QED BY <4>1, <4>2
        <3> QED BY <1>6, <3>1, <3>2
    <2>2. PICK todo, state : /\ state \in {"Mapping", "MapToControls", "SelectFiles", "Report"}
                             /\ executions' = [executions EXCEPT ![e] = x(todo, state)]
        BY <2>1
    <2> DEFINE y == x(todo, state)
    <2>3. old.state \in {"MapToControls", "Mapping"}
        BY <1>6 DEF MapToControls, MapFindings
    <2>4. /\ y.head = old.head /\ y.parent = old.parent /\ y.status = old.status
          /\ y.scanned = old.scanned /\ y.errors = old.errors /\ y.state = state
        BY <1>1 DEF Run
    <2>5. executions' = [executions EXCEPT ![e] = y]
        BY <2>2
    <2> HIDE DEF y, x
    <2>6. Passes(e, y)
        BY <2>2, <2>3, <2>4, <2>5 DEF Passes, Scanned, Reporting, Ended
    <2> QED BY <2>6
<1>7. CASE SelectFiles(e) \/ \E file, outcome : RemediateFile(e, file, outcome)
    <2> DEFINE x(files, left, state) == [old EXCEPT !.files = files, !.left = left, !.state = state]
    <2>1. \E files, left : \E state \in {"Report", "Remediate"} :
             executions' = [executions EXCEPT ![e] = x(files, left, state)]
        <3>1. CASE SelectFiles(e)
            <4> DEFINE chosen == FilesToDraft(e)
                       next == IF chosen = {} THEN "Report" ELSE "Remediate"
            <4>1. executions' = [executions EXCEPT ![e] = x(chosen, chosen, next)]
                BY <3>1 DEF SelectFiles
            <4>2. next \in {"Report", "Remediate"}
                OBVIOUS
            <4> QED BY <4>1, <4>2
        <3>2. ASSUME NEW file, NEW outcome, RemediateFile(e, file, outcome)
              PROVE  \E files, left : \E state \in {"Report", "Remediate"} :
                        executions' = [executions EXCEPT ![e] = x(files, left, state)]
            <4> DEFINE next == IF old.left = {file} THEN "Report" ELSE old.state
                       rest == old.left \ {file}
            <4>1. executions' = [executions EXCEPT ![e] = [old EXCEPT !.left = rest, !.state = next]]
                BY <3>2 DEF RemediateFile
            <4>2. next \in {"Report", "Remediate"}
                BY <3>2 DEF RemediateFile
            <4> HIDE DEF next, rest
            <4>3. [old EXCEPT !.left = rest, !.state = next] = x(old.files, rest, next)
                BY <1>1 DEF Run
            <4> QED BY <4>1, <4>2, <4>3
        <3> QED BY <1>7, <3>1, <3>2
    <2>2. PICK files, left, state :
             /\ state \in {"Report", "Remediate"}
             /\ executions' = [executions EXCEPT ![e] = x(files, left, state)]
        BY <2>1
    <2> DEFINE y == x(files, left, state)
    <2>3. old.state \in {"SelectFiles", "Remediate"}
        BY <1>7 DEF SelectFiles, RemediateFile
    <2>4. /\ y.head = old.head /\ y.parent = old.parent /\ y.status = old.status
          /\ y.scanned = old.scanned /\ y.errors = old.errors /\ y.state = state
        BY <1>1 DEF Run
    <2>5. executions' = [executions EXCEPT ![e] = y]
        BY <2>2
    <2> HIDE DEF y, x
    <2>6. Passes(e, y)
        BY <2>2, <2>3, <2>4, <2>5 DEF Passes, Scanned, Reporting, Ended
    <2> QED BY <2>6
<1> QED BY <1>2, <1>3, <1>4, <1>5, <1>6, <1>7

LEMMA OrdinaryGoes ==
    ASSUME IInv, QuietRuns, NEW e \in 1..Len(executions),
           \/ OpenCheckRun(e) \/ Complete(e) \/ MapToControls(e) \/ SelectFiles(e)
           \/ \E ok : Synthesize(e, ok)
           \/ \E failed : ScannerError(e, failed)
           \/ \E mapped, yielded : MapFindings(e, mapped, yielded)
           \/ \E file, outcome : RemediateFile(e, file, outcome)
           \/ \E shown : PostSuggestions(e, shown)
           \/ RecordOffer(e) \/ ((Fails(e) \/ Retried(e)) /\ UNCHANGED othersVars)
    PROVE  \E x : Goes(e, x)
<1>1. PICK x : Passes(e, x)
    BY OrdinaryPasses
<1>2. /\ UNCHANGED <<history, pushes, seen>>
      /\ quiet' \subseteq quiet
    BY DEF OpenCheckRun, Complete, MapToControls, SelectFiles, Synthesize, ScannerError,
           MapFindings, RemediateFile, PostSuggestions, RecordOffer, Fails, Retried, Disturbs,
           scannerVars, othersVars
<1>3. snapshot'.files = snapshot.files
    <2>1. ASSUME NEW ok, Synthesize(e, ok) PROVE snapshot'.files = snapshot.files
        <3>1. snapshot \in [files : 0..pushes, templates : 0..pushes]
            BY DEF IInv, PullOK
        <3>2. \A k : [snapshot EXCEPT !.templates = k].files = snapshot.files
            BY <3>1
        <3> QED BY <2>1, <3>2 DEF Synthesize
    <2> QED BY <2>1 DEF OpenCheckRun, Complete, MapToControls, SelectFiles, ScannerError,
           MapFindings, RemediateFile, PostSuggestions, RecordOffer, Fails, Retried,
           scannerVars, othersVars
<1> QED BY <1>1, <1>2, <1>3, PassesOn

LEMMA SnapshotGoes ==
    ASSUME IInv, QuietRuns, NEW e \in 1..Len(executions), Snapshot(e)
    PROVE  \E x : Goes(e, x)
<1> DEFINE old == executions[e]
           k   == old.head
           st  == FetchStatus(k)
           a   == (Kept(k) = {})
           p   == IF history[k].app THEN TouchedTemplates ELSE {}
           s   == IF history[k].app THEN "Synthesize" ELSE "Scan"
           c   == ChangedFiles(k)
           x   == IF st # "ok" THEN [old EXCEPT !.status = st, !.state = "Report"]
                  ELSE [old EXCEPT !.changed = c, !.prefixes = p, !.allowEmpty = a, !.state = s]
<1>1. old \in Run /\ old.state = "Snapshot"
    BY EachRun DEF Snapshot
<1>2. /\ executions' = [executions EXCEPT ![e] = x]
      /\ UNCHANGED <<history, pushes, seen>>
      /\ quiet' = (quiet \cap {old.parent}) \cup {e}
    BY DEF Snapshot
<1>3. snapshot'.files = IF st \in {"ok", "too_many"} THEN k ELSE snapshot.files
    BY DEF Snapshot
<1>4. s \in {"Synthesize", "Scan"}
    OBVIOUS
<1> HIDE DEF a, p, s, c, st
<1>5. /\ x.head = k /\ x.parent = old.parent /\ x.scanned = old.scanned
      /\ st # "ok" => x.status = st /\ x.state = "Report"
      /\ st = "ok" => x.status = old.status /\ x.state = s
    BY <1>1 DEF Run
<1> HIDE DEF x
<1>6. old.status = "ok" /\ ~old.scanned
    BY <1>1 DEF QuietRuns, Held, Reporting, Scanned, Ended
<1>7. Held(x)
    BY <1>4, <1>5, <1>6 DEF Held, Reporting, Scanned, Ended
<1>8. Clean(x, snapshot'.files, seen')
    BY <1>3, <1>4, <1>5, <1>6 DEF Clean
<1>9. Goes(e, x)
    BY <1>1, <1>2, <1>3, <1>4, <1>5, <1>7, <1>8 DEF Goes, Reporting, Ended
<1> QED BY <1>9

\* What an execution reads while it, or the one whose button started it, is not
\* disturbed is its commit.
LEMMA SnapshotOfHead ==
    ASSUME IInv, QuietRuns, NEW e \in 1..Len(executions), executions[e].state \notin Reporting,
           quiet \cap {e, executions[e].parent} # {}
    PROVE  snapshot.files = executions[e].head
<1>1. CASE e \in quiet
    BY <1>1 DEF QuietRuns, Held, Clean
<1>2. CASE executions[e].parent \in quiet
    <2> DEFINE p == executions[e].parent
    <2>1. p \in 1..Len(executions)
        BY <1>2 DEF QuietRuns
    <2>2. executions[p].head = executions[e].head /\ executions[p].status = "ok"
        BY <2>1 DEF QuietRuns
    <2> QED BY <1>2, <2>1, <2>2 DEF QuietRuns, Clean
<1> QED BY <1>1, <1>2

LEMMA ScanGoes ==
    ASSUME IInv, QuietRuns, NEW e \in 1..Len(executions), Scan(e)
    PROVE  \E x : Goes(e, x)
<1> DEFINE old == executions[e]
           next == IF Admitted(snapshot) # {} THEN "WriteFindings"
                   ELSE IF old.allowEmpty /\ Unreadable(snapshot) = {}
                   THEN "MapToControls" ELSE "Failed"
           x   == [old EXCEPT !.read = snapshot, !.state = next]
<1>1. old \in Run /\ old.state = "Scan"
    BY EachRun DEF Scan
<1>2. /\ executions' = [executions EXCEPT ![e] = x]
      /\ UNCHANGED <<history, pushes, quiet, snapshot, seen>>
    BY DEF Scan, scannerVars
<1>3. next \in {"WriteFindings", "MapToControls", "Failed"}
    OBVIOUS
<1> HIDE DEF next
<1>4. /\ x.head = old.head /\ x.parent = old.parent /\ x.status = old.status
      /\ x.scanned = old.scanned /\ x.read = snapshot /\ x.state = next
    BY <1>1 DEF Run
<1> HIDE DEF x
<1>5. old.status = "ok" /\ ~old.scanned
    BY <1>1 DEF QuietRuns, Held, Reporting, Scanned, Ended
<1>6. Held(x)
    BY <1>4, <1>5 DEF Held
<1>7. quiet \cap {e, old.parent} # {} => snapshot.files = old.head
    BY <1>1, SnapshotOfHead DEF Reporting, Ended
<1>8. e \in quiet => Clean(x, snapshot.files, seen)
    BY <1>3, <1>4, <1>5, <1>7 DEF Clean
<1>9. Goes(e, x)
    BY <1>1, <1>2, <1>4, <1>6, <1>7, <1>8 DEF Goes, Reporting, Ended
<1> QED BY <1>9

\* The scanner names the files it could not read, whichever way it came by them.
LEMMA ErrorsNamed ==
    ASSUME IInv, NEW k \in 1..pushes, NEW read, read.files = k
    PROVE  Said(k, ScanErrors(read))
<1>1. history \in Histories /\ k \in DOMAIN history /\ k # 0
    BY ExecutionsAssumption DEF IInv, PullOK
<1>2. ASSUME NEW i \in history[k].instances, i.file \in history[k].unparsed \ Templates
      PROVE  i.file \in ScanErrors(read)
    <2>1. /\ history[k].content[i.file] # 0 /\ i.file \notin Sources
        BY <1>1, ScannerAssumption
    <2>2. i.file \in Files
        BY EachCommit DEF IInv, Commit
    <2>3. CASE i.file \in Sniffed
        BY <1>1, <1>2, <2>1, <2>3 DEF ScanErrors, Unreadable, Unparsed, Has
    <2>4. CASE i.file \notin Sniffed
        <3>1. i.file \in Has(k, Files \ (Templates \cup Sources)) \ Unreadable(read)
            BY <1>1, <1>2, <2>1, <2>2, <2>4 DEF Unreadable, Unparsed, Has
        <3>2. i.file \in Admitted(read)
            BY <3>1 DEF Admitted
        <3> QED BY <1>1, <1>2, <2>1, <3>2 DEF ScanErrors, Unparsed, Has
    <2> QED BY <2>3, <2>4
<1> QED BY <1>2 DEF Said

LEMMA WriteFindingsGoes ==
    ASSUME IInv, QuietRuns, NEW e \in 1..Len(executions), NEW failed, WriteFindings(e, failed)
    PROVE  \E x : Goes(e, x)
<1> DEFINE old == executions[e]
           errors == ScanErrors(old.read)
           x   == [old EXCEPT !.state = "MapToControls", !.scanned = TRUE, !.errors = errors]
<1>1. old \in Run /\ old.head \in 1..pushes /\ old.state = "WriteFindings"
    BY EachRun DEF WriteFindings, Within
<1>2. /\ executions' = [executions EXCEPT ![e] = x]
      /\ UNCHANGED <<history, pushes, snapshot>> /\ quiet' = quiet \cap {e, old.parent}
      /\ Found(old.read) \subseteq seen'
    BY DEF WriteFindings, Disturbs
<1>3. quiet \cap {e, old.parent} # {} => old.read.files = old.head
    BY <1>1 DEF QuietRuns
<1>4. old.read.files = old.head => Said(old.head, errors)
    BY <1>1, ErrorsNamed
<1>5. On(old.read.files, Files \ Templates) \subseteq seen'
    BY <1>2 DEF Found
<1> HIDE DEF errors
<1>6. /\ x.head = old.head /\ x.parent = old.parent /\ x.status = old.status
      /\ x.scanned /\ x.errors = errors /\ x.state = "MapToControls"
    BY <1>1 DEF Run
<1> HIDE DEF x
<1>7. old.status = "ok"
    BY <1>1 DEF QuietRuns, Held, Reporting, Ended
<1>8. Held(x)
    BY <1>6, <1>7 DEF Held, Scanned
<1>9. e \in quiet => Clean(x, snapshot.files, seen')
    BY <1>3, <1>4, <1>5, <1>6, <1>7 DEF Clean, QuietRuns
<1>10. Goes(e, x)
    BY <1>1, <1>2, <1>3, <1>5, <1>6, <1>8, <1>9 DEF Goes, Reporting, Ended
<1> QED BY <1>10

LEMMA StepGoes ==
    ASSUME IInv, QuietRuns, NEW e \in 1..Len(executions),
           ExecutionStep(e) \/ ((Fails(e) \/ Retried(e)) /\ UNCHANGED othersVars)
    PROVE  \E x : Goes(e, x)
<1>1. ASSUME NEW failed, WriteFindings(e, failed) PROVE \E x : Goes(e, x)
    BY <1>1, WriteFindingsGoes
<1> QED BY <1>1, OrdinaryGoes, SnapshotGoes, ScanGoes DEF ExecutionStep

\* What a check run tells after a step of an execution: what it told, nothing of
\* what was found, or its execution's report.
LEMMA ToldByStep ==
    ASSUME IInv, NEW e \in 1..Len(executions),
           ExecutionStep(e) \/ ((Fails(e) \/ Retried(e)) /\ UNCHANGED othersVars),
           NEW c \in DOMAIN checkRuns'
    PROVE  \/ c \in DOMAIN checkRuns /\ checkRuns'[c] = checkRuns[c]
           \/ checkRuns'[c].says # "findings" /\ ~checkRuns'[c].button
           \/ /\ executions[e].state = "Complete" /\ executions[e].status = "ok"
              /\ checkRuns'[c].execution = e /\ checkRuns'[c].says = "findings"
              /\ checkRuns'[c].unparsed = executions[e].errors
              /\ checkRuns'[c].button <=> OffersFixes(e)
<1>1. CASE OpenCheckRun(e)
    <2>1. checkRuns' = Append(checkRuns, NewCheckRun(e)) /\ checkRuns \in Seq(CheckRun)
        BY <1>1 DEF OpenCheckRun, IInv, ChecksOK
    <2>2. NewCheckRun(e).says = "nothing" /\ ~NewCheckRun(e).button
        BY DEF NewCheckRun
    <2> HIDE DEF NewCheckRun
    <2>3. \/ c \in DOMAIN checkRuns /\ checkRuns'[c] = checkRuns[c]
          \/ checkRuns'[c] = NewCheckRun(e)
        BY <2>1
    <2> QED BY <2>2, <2>3
<1>2. CASE Complete(e)
    <2> DEFINE k == executions[e].check
               ok == executions[e].status = "ok"
               found == Completed(checkRuns[k], "findings", OffersFixes(e))
               said == [found EXCEPT !.unparsed = executions[e].errors]
               unsaid == Completed(checkRuns[k], "not-scanned", FALSE)
               now == IF ok THEN said ELSE unsaid
    <2>1. checkRuns' = [checkRuns EXCEPT ![k] = now] /\ executions[e].state = "Complete"
        BY <1>2 DEF Complete
    <2>2. k \in 1..Len(checkRuns) /\ checkRuns[k].execution = e /\ checkRuns[k] \in CheckRun
        BY <2>1 DEF IInv, KnownOK, ChecksOK, Tasks
    <2>3. unsaid.says = "not-scanned" /\ ~unsaid.button
        BY <2>2 DEF Completed, CheckRun
    <2>4. /\ found.says = "findings" /\ found.execution = e /\ found.button = OffersFixes(e)
          /\ DOMAIN found = {"execution", "status", "says", "unparsed", "button"}
        BY <2>2 DEF Completed, CheckRun
    <2> HIDE DEF found, unsaid
    <2>5. /\ said.says = "findings" /\ said.execution = e
          /\ said.unparsed = executions[e].errors /\ said.button = OffersFixes(e)
        BY <2>4
    <2> HIDE DEF said
    <2>6. c \in DOMAIN checkRuns /\ checkRuns'[c] = IF c = k THEN now ELSE checkRuns[c]
        BY <2>1
    <2> QED BY <2>1, <2>3, <2>5, <2>6
<1>3. CASE UNCHANGED checkRuns
    BY <1>3
<1> QED BY <1>1, <1>2, <1>3 DEF ExecutionStep, Snapshot, Synthesize, SelectFiles, RecordOffer,
           RemediateFile, PostSuggestions, gatewayVars, othersVars

LEMMA StepQuiet ==
    ASSUME IInv, QuietInv, NEW e \in 1..Len(executions),
           ExecutionStep(e) \/ ((Fails(e) \/ Retried(e)) /\ UNCHANGED othersVars)
    PROVE  QuietInv'
<1> DEFINE n == Len(executions)
           old == executions[e]
<1>1. PICK x : Goes(e, x)
    BY StepGoes DEF QuietInv
<1>2. QuietRuns'
    BY <1>1, GoesOn DEF QuietInv
<1>3. /\ \A d \in 1..n : executions'[d] = IF d = e THEN x ELSE executions[d]
      /\ UNCHANGED history
    BY <1>1 DEF Goes, IInv, ExecutionsOK
<1>4. ASSUME NEW d \in 1..n
      PROVE  /\ executions'[d].head = executions[d].head
             /\ executions[d].state \in Reporting =>
                   /\ executions'[d].scanned = executions[d].scanned
                   /\ d \in quiet' => d \in quiet
    BY <1>1, <1>3 DEF Goes, Reporting, Ended
<1>5. ASSUME NEW c \in DOMAIN checkRuns'
      PROVE  LET r == checkRuns'[c]
                 y == executions'[r.execution]
             IN /\ r.button => r.says = "findings"
                /\ r.says = "findings" /\ r.execution \in quiet' /\ y.scanned =>
                      Said(y.head, r.unparsed)
    <2> DEFINE r == checkRuns'[c]
    <2>1. CASE c \in DOMAIN checkRuns /\ r = checkRuns[c]
        <3>1. c \in 1..Len(checkRuns) /\ r.execution \in 1..n
            BY <2>1, DomainOfExecutions DEF IInv, ChecksOK
        <3>2. r.says = "findings" => executions[r.execution].state \in Reporting
            BY <2>1, <3>1 DEF IInv, ChecksOK
        <3> QED BY <1>4, <2>1, <3>1, <3>2 DEF QuietInv, QuietChecks
    <2>2. CASE r.says # "findings" /\ ~r.button
        BY <2>2
    <2>3. CASE /\ old.state = "Complete" /\ old.status = "ok"
               /\ r.execution = e /\ r.says = "findings" /\ r.unparsed = old.errors
        <3>1. old.state \in Reporting /\ old.state \in Scanned
            BY <2>3 DEF Reporting, Scanned
        <3>2. e \in quiet /\ old.scanned => Said(old.head, old.errors)
            BY <3>1 DEF QuietInv, QuietRuns, Clean
        <3> QED BY <1>4, <2>3, <3>1, <3>2
    <2> QED BY <2>1, <2>2, <2>3, ToldByStep
<1>6. QuietChecks'
    <2>1. \A k, unparsed : Said(k, unparsed)' = Said(k, unparsed)
        BY <1>3 DEF Said
    <2>2. IInv'
        BY StepKeeps
    <2>3. \A c \in 1..Len(checkRuns') : c \in DOMAIN checkRuns'
        BY <2>2 DEF IInv, ChecksOK
    <2> QED BY <1>5, <2>1, <2>3 DEF QuietChecks
<1> QED BY <1>2, <1>6 DEF QuietInv

\* A commit that is pushed disturbs everyone.
LEMMA PushQuiet ==
    ASSUME IInv, QuietInv, PushCommit
    PROVE  QuietInv'
<1>1. quiet' = {} /\ UNCHANGED <<history, executions, snapshot, seen, checkRuns>>
    BY DEF PushCommit, othersVars, scannerVars, gatewayVars
<1>2. QuietRuns'
    BY <1>1 DEF QuietInv, QuietRuns, Held
<1>3. QuietChecks'
    BY <1>1 DEF QuietInv, QuietChecks
<1> QED BY <1>2, <1>3 DEF QuietInv

\* An execution is started, by a button that is only shown where a scan was
\* reported if by one at all.
LEMMA StartQuiet ==
    ASSUME IInv, QuietInv, NEW head \in 1..pushes, NEW trigger \in Trigger,
           NEW parent \in 0..Len(executions), Start(head, trigger, parent), UNCHANGED othersVars,
           parent # 0 => /\ executions[parent].head = head
                         /\ executions[parent].state \in Reporting
                         /\ executions[parent].status = "ok"
    PROVE  QuietInv'
<1> DEFINE new == NewExecution(head, trigger, parent)
           n == Len(executions)
<1>1. /\ executions' = Append(executions, new)
      /\ UNCHANGED <<history, quiet, snapshot, seen, checkRuns>>
    BY DEF Start, othersVars, scannerVars, gatewayVars
<1>2. /\ new.head = head /\ new.parent = parent /\ new.state = "Fetch" /\ new.status = "ok"
      /\ ~new.scanned
    BY DEF NewExecution
<1> HIDE DEF new
<1>3. /\ n \in Nat /\ Len(executions') = n + 1 /\ executions'[n + 1] = new
      /\ \A d \in 1..n : executions'[d] = executions[d]
    BY <1>1 DEF IInv, ExecutionsOK
<1>4. \A d \in 1..(n + 1) : d \in 1..n \/ d = n + 1
    BY <1>3
<1>5. quiet \subseteq 1..n /\ n + 1 \notin 1..n
    BY <1>3 DEF QuietInv, QuietRuns
<1>6. \A d \in 1..n : executions[d].parent \in 0..n
    <2>1. \A d \in 1..n : executions[d] \in Run /\ executions[d].parent <= n
        BY EachRun DEF IInv, ExecutionsOK
    <2> QED BY <1>3, <2>1 DEF Run
<1>7. ASSUME NEW d \in 1..(n + 1)
      PROVE  LET x == executions'[d]
             IN /\ Held(x)
                /\ x.parent # 0 => /\ executions'[x.parent].head = x.head
                                   /\ executions'[x.parent].state \in Reporting
                                   /\ executions'[x.parent].status = "ok"
                /\ x.state = "WriteFindings" /\ quiet \cap {d, x.parent} # {} =>
                      x.read.files = x.head
                /\ d \in quiet => Clean(x, snapshot.files, seen)
    <2>1. CASE d \in 1..n
        <3>1. executions[d].parent # 0 =>
                executions'[executions[d].parent] = executions[executions[d].parent]
            BY <1>3, <1>6, <2>1
        <3>2. executions'[d] = executions[d]
            BY <1>3, <2>1
        <3> QED BY <2>1, <3>1, <3>2 DEF QuietInv, QuietRuns
    <2>2. CASE d = n + 1
        <3>1. Held(new)
            BY <1>2 DEF Held
        <3>2. parent # 0 => executions'[parent] = executions[parent]
            BY <1>3
        <3> QED BY <1>2, <1>3, <1>5, <2>2, <3>1, <3>2
    <2> QED BY <1>4, <2>1, <2>2
<1>8. QuietRuns'
    <2>1. \A d \in 1..(n + 1) : Held(executions'[d]) => Held(executions[d])'
        BY DEF Held
    <2>2. \A d \in 1..(n + 1) : Clean(executions'[d], snapshot.files, seen) =>
                                  Clean(executions[d], snapshot.files, seen)'
        <3>1. /\ \A k, files : On(k, files)' = On(k, files)
              /\ \A k, unparsed : Said(k, unparsed)' = Said(k, unparsed)
            BY <1>1 DEF On, Said
        <3> QED BY <1>1, <3>1 DEF Clean
    <2>3. quiet' \subseteq 1..Len(executions')
        BY <1>1, <1>3, <1>5
    <2> QED BY <1>1, <1>3, <1>7, <2>1, <2>2, <2>3 DEF QuietRuns
<1>9. QuietChecks'
    <2>1. \A c \in 1..Len(checkRuns) : checkRuns[c].execution \in 1..n
        BY DEF IInv, ChecksOK
    <2>2. \A k, unparsed : Said(k, unparsed)' = Said(k, unparsed)
        BY <1>1 DEF Said
    <2> QED BY <1>1, <1>3, <2>1, <2>2 DEF QuietInv, QuietChecks
<1> QED BY <1>8, <1>9 DEF QuietInv

LEMMA StartsQuiet ==
    ASSUME IInv, QuietInv,
           \/ \E k \in 1..pushes : PullRequestEvent(k)
           \/ \E c \in DOMAIN checkRuns :
                 ClickDraftFixes(c) \/ \E d \in Deliveries : ClickRerun(c, d)
    PROVE  QuietInv'
<1>1. Push \in Trigger /\ DraftFixes \in Trigger /\ \A d \in Deliveries : Rerun(d) \in Trigger
    BY DEF Push, DraftFixes, Rerun, Trigger
<1>2. 0 \in 0..Len(executions)
    BY DEF IInv, ExecutionsOK
<1>3. ASSUME NEW c \in DOMAIN checkRuns
      PROVE  LET p == checkRuns[c].execution
             IN /\ p \in 0..Len(executions) /\ executions[p].head \in 1..pushes
                /\ checkRuns[c].button => /\ executions[p].state \in Reporting
                                          /\ executions[p].status = "ok"
    <2>1. c \in 1..Len(checkRuns) /\ checkRuns[c].execution \in 1..Len(executions)
        BY DomainOfExecutions DEF IInv, ChecksOK
    <2>2. checkRuns[c].button => checkRuns[c].says = "findings"
        BY <2>1 DEF QuietInv, QuietChecks
    <2>3. executions[checkRuns[c].execution].head \in 1..pushes
        BY <2>1, EachRun DEF Within
    <2> QED BY <1>2, <2>1, <2>2, <2>3 DEF IInv, ChecksOK
<1>4. ASSUME NEW k \in 1..pushes, PullRequestEvent(k) PROVE QuietInv'
    BY <1>1, <1>2, <1>4, StartQuiet DEF PullRequestEvent
<1>5. ASSUME NEW c \in DOMAIN checkRuns, ClickDraftFixes(c) PROVE QuietInv'
    BY <1>1, <1>3, <1>5, StartQuiet DEF ClickDraftFixes
<1>6. ASSUME NEW c \in DOMAIN checkRuns, NEW d \in Deliveries, ClickRerun(c, d) PROVE QuietInv'
    BY <1>1, <1>2, <1>3, <1>6, StartQuiet DEF ClickRerun
<1> QED BY <1>4, <1>5, <1>6

\* ... and after a failure is delivered.
LEMMA ToldByFailure ==
    ASSUME IInv, NEW e \in DOMAIN executions, OnExecutionFailed(e), NEW c \in DOMAIN checkRuns'
    PROVE  \/ c \in DOMAIN checkRuns /\ checkRuns'[c] = checkRuns[c]
           \/ checkRuns'[c].says # "findings" /\ ~checkRuns'[c].button
<1>1. checkRuns \in Seq(CheckRun)
    BY DEF IInv, ChecksOK
<1>2. \A r \in CheckRun : LET t == Completed(r, "unfinished", FALSE)
                          IN t.says = "unfinished" /\ ~t.button
    BY DEF Completed, CheckRun
<1>3. CASE checkRuns' = [d \in DOMAIN checkRuns |->
        IF d \in ChecksOf(e) /\ InProgress(d)
        THEN Completed(checkRuns[d], "unfinished", FALSE) ELSE checkRuns[d]]
    <2>1. c \in DOMAIN checkRuns /\ checkRuns[c] \in CheckRun
        BY <1>1, <1>3
    <2> QED BY <1>2, <1>3, <2>1
<1>4. CASE checkRuns' = Append(checkRuns, Completed(NewCheckRun(e), "unfinished", FALSE))
    <2> DEFINE new == Completed(NewCheckRun(e), "unfinished", FALSE)
    <2>1. new.says = "unfinished" /\ ~new.button
        BY DEF Completed, NewCheckRun
    <2>2. checkRuns' = Append(checkRuns, new)
        BY <1>4
    <2> HIDE DEF new
    <2>3. \/ c \in DOMAIN checkRuns /\ checkRuns'[c] = checkRuns[c]
          \/ checkRuns'[c] = new
        BY <1>1, <2>2
    <2> QED BY <2>1, <2>3
<1> QED BY <1>3, <1>4 DEF OnExecutionFailed

LEMMA FailedQuiet ==
    ASSUME IInv, QuietInv, NEW e \in DOMAIN executions, OnExecutionFailed(e)
    PROVE  QuietInv'
<1>1. UNCHANGED <<history, executions, quiet, snapshot, seen>>
    BY DEF OnExecutionFailed, executionVars, scannerVars
<1>2. QuietRuns'
    BY <1>1 DEF QuietInv, QuietRuns, Held, Clean, On, Said
<1>3. QuietChecks'
    <2>1. IInv'
        BY DomainOfExecutions, FailedKeeps
    <2>2. \A c \in 1..Len(checkRuns') : c \in DOMAIN checkRuns'
        BY <2>1 DEF IInv, ChecksOK
    <2>3. \A c \in DOMAIN checkRuns : c \in 1..Len(checkRuns)
        BY DomainOfExecutions
    <2>4. \A k, unparsed : Said(k, unparsed)' = Said(k, unparsed)
        BY <1>1 DEF Said
    <2> QED BY <1>1, <2>2, <2>3, <2>4, ToldByFailure DEF QuietInv, QuietChecks
<1> QED BY <1>2, <1>3 DEF QuietInv

LEMMA InitQuiet == FlowInit => QuietInv
<1> SUFFICES ASSUME FlowInit PROVE QuietInv
    OBVIOUS
<1>1. CASE Opened
    BY <1>1 DEF Opened, QuietInv, QuietRuns, QuietChecks
<1>2. ASSUME NEW drafted \in BOOLEAN, ScannedOnce(drafted) PROVE QuietInv
    <2> DEFINE k     == IF history[1].app THEN 1 ELSE 0
               found == On(1, Files \ Templates) \cup On(k, Templates)
               read  == [files |-> 1, templates |-> k]
               unparsed == ScanErrors(read)
               ended(trigger, parent, check) ==
                 [NewExecution(1, trigger, parent) EXCEPT !.state = "Succeeded", !.check = check,
                    !.scanned = TRUE, !.allowEmpty = (Kept(1) = {})]
               said(e, button) == [Completed(NewCheckRun(e), "findings", button)
                                     EXCEPT !.unparsed = unparsed]
    <2>1. PullOK /\ pushes = 1 /\ IInv
        BY InitOK DEF FlowInit, IInv
    <2>2. snapshot.files = 1 /\ On(1, Files \ Templates) \subseteq seen
        BY <1>2 DEF ScannedOnce
    <2>3. Said(1, unparsed)
        <3>1. read.files = 1 /\ 1 \in 1..pushes
            BY <2>1
        <3> HIDE DEF read
        <3> QED BY <2>1, <3>1, ErrorsNamed
    <2>4. executions = (IF drafted THEN <<ended(Push, 0, 1), ended(DraftFixes, 1, 2)>>
                        ELSE <<ended(Push, 0, 1)>>)
        BY <1>2 DEF ScannedOnce
    <2>5. checkRuns = (IF drafted THEN <<said(1, TRUE), said(2, FALSE)>> ELSE <<said(1, TRUE)>>)
        BY <1>2 DEF ScannedOnce
    <2>6. quiet = IF drafted THEN {1, 2} ELSE {1}
        BY <1>2 DEF ScannedOnce
    <2>7. \A trigger, parent, check :
             LET x == ended(trigger, parent, check)
             IN /\ x.head = 1 /\ x.parent = parent /\ x.state = "Succeeded" /\ x.status = "ok"
                /\ x.scanned
        BY DEF NewExecution
    <2>8. \A e, button : LET c == said(e, button)
                         IN c.execution = e /\ c.says = "findings" /\ c.unparsed = unparsed
        BY DEF Completed, NewCheckRun
    <2> HIDE DEF ended, said, unparsed
    <2>9. /\ Len(executions) = IF drafted THEN 2 ELSE 1
          /\ \A e \in 1..Len(executions) :
                /\ executions[e].head = 1 /\ executions[e].state = "Succeeded"
                /\ executions[e].status = "ok" /\ executions[e].scanned
                /\ executions[e].parent \in {0, 1}
        BY <2>4, <2>7
    <2>10. \A c \in 1..Len(checkRuns) :
              /\ checkRuns[c].execution \in 1..Len(executions)
              /\ checkRuns[c].says = "findings" /\ checkRuns[c].unparsed = unparsed
        <3> DEFINE c1 == said(1, TRUE)
                   c2 == said(2, FALSE)
        <3>1. checkRuns = IF drafted THEN <<c1, c2>> ELSE <<c1>>
            BY <2>5
        <3>2. /\ c1.execution = 1 /\ c1.says = "findings" /\ c1.unparsed = unparsed
              /\ c2.execution = 2 /\ c2.says = "findings" /\ c2.unparsed = unparsed
            BY <2>8
        <3> HIDE DEF c1, c2
        <3>3. CASE drafted
            BY <2>9, <3>1, <3>2, <3>3
        <3>4. CASE ~drafted
            BY <2>9, <3>1, <3>2, <3>4
        <3> QED BY <3>3, <3>4
    <2>11. QuietRuns
        <3>1. quiet \subseteq 1..Len(executions) /\ 1 \in 1..Len(executions)
            BY <2>6, <2>9
        <3>2. \A e \in 1..Len(executions) :
                 Held(executions[e]) /\ Clean(executions[e], snapshot.files, seen)
            BY <2>2, <2>9 DEF Held, Clean, Ended, Scanned, Reporting
        <3> QED BY <2>9, <3>1, <3>2 DEF QuietRuns, Reporting, Ended
    <2>12. QuietChecks
        BY <2>3, <2>9, <2>10 DEF QuietChecks
    <2> QED BY <2>11, <2>12 DEF QuietInv
<1> QED BY <1>1, <1>2 DEF FlowInit

LEMMA QuietHolds == FlowSpec => []QuietInv
<1>1. IInv /\ QuietInv /\ [FlowNext]_flowVars => QuietInv'
    <2> SUFFICES ASSUME IInv, QuietInv, [FlowNext]_flowVars PROVE QuietInv'
        OBVIOUS
    <2>1. CASE UNCHANGED flowVars
        BY <2>1 DEF flowVars, executionVars, scannerVars, gatewayVars, QuietInv, QuietRuns,
                    QuietChecks, Held, Clean, On, Said
    <2>2. CASE FlowNext
        BY <2>2, StepsOfFlow, DomainOfExecutions, PushQuiet, StartsQuiet, StepQuiet, FailedQuiet
    <2> QED BY <2>1, <2>2
<1> QED BY <1>1, InitQuiet, FlowInvariant, PTL DEF FlowSpec

\* FindingsAreScanned is an invariant: while nobody else works on the pull request,
\* what is to be found in a file of the commit a check run reports on is on record,
\* or the check run names the file, whatever was retried, lost or delivered twice
\* on the way (scan_directory, _write_findings, report).
THEOREM NothingIsLeftOut == FlowSpec => []FindingsAreScanned
<1>1. IInv /\ ScopeInv /\ ScanInv /\ QuietInv => FindingsAreScanned
    <2> SUFFICES ASSUME IInv, ScopeInv, ScanInv, QuietInv,
                        NEW c \in DOMAIN checkRuns, checkRuns[c].says = "findings",
                        checkRuns[c].execution \in quiet,
                        NEW i \in history[executions[checkRuns[c].execution].head].instances,
                        i.file \notin checkRuns[c].unparsed \cup Templates
                 PROVE  OnRecord(i)
        BY DEF FindingsAreScanned
    <2> DEFINE e == checkRuns[c].execution
               k == executions[e].head
    <2>1. c \in 1..Len(checkRuns) /\ e \in 1..Len(executions) /\ k \in 1..pushes
        BY DomainOfExecutions, EachRun DEF IInv, ChecksOK, Within
    <2>2. i \in Instance
        BY <2>1, EachCommit DEF IInv, Commit, Instance
    <2>3. history[k].content[i.file] # 0 /\ i.file \notin Sources
        BY <2>1, ScannerAssumption, ExecutionsAssumption, SMTT(20) DEF IInv, PullOK
    <2>4. i.file \in Kept(k)
        BY <2>2, <2>3 DEF Kept, Instance
    <2>5. executions[e].scanned
        BY <2>4 DEF ScopeInv, WholeIsScanned
    <2>6. i.file \notin history[k].unparsed
        BY <2>1, <2>5 DEF QuietInv, QuietChecks, Said
    <2>7. i \in On(k, Files \ Templates)
        BY <2>1, <2>2, <2>6 DEF On, Instance
    <2>8. i \in seen
        BY <2>1, <2>5, <2>7 DEF QuietInv, QuietRuns, Clean
    <2>9. PICK id \in Unmarked : Id(Shown(records[id])) = Id(i)
        <3>1. Id(i) \in DOMAIN Deduplicate(seen)
            BY <2>8 DEF Deduplicate
        <3>2. Id(Deduplicate(seen)[Id(i)]) = Id(i)
            BY <3>1, DeduplicatedNamed DEF ScanInv
        <3>3. Deduplicate(seen)[Id(i)] \in {Shown(records[id]) : id \in Unmarked}
            BY <3>1, AsScanned DEF ScanInv, Reps
        <3> QED BY <3>2, <3>3
    <2> QED BY <2>9 DEF OnRecord, Id, Shown
<1> QED BY <1>1, FlowInvariant, ScopesHold, ScanHolds, QuietHolds, PTL

----------------------------------------------------------------------------
(* The ids that were carried over, and a scan made again *)

\* The finding a record is of, by the id it would have if it were new.
NewId(id) == Id(records[id])

\* A record that is not of its own id's line was carried there: nothing is found at
\* the old line, its resource is known, and no record has the id of the new one.
CarriedOK ==
    \A id \in Unmarked :
        NewId(id) # id =>
            /\ id \notin {Id(i) : i \in seen}
            /\ NewId(id) \notin DOMAIN records
            /\ records[id].resource # 0

\* Two ids of records are told apart by the ids they would have.
LEMMA NewIdsApart ==
    ASSUME NamedOK, ScanInv, NEW i \in Unmarked, NEW j \in Unmarked, NewId(i) = NewId(j)
    PROVE  i = j
BY DEF ScanInv, RecordsAreTheScan, NewId, Id

\* What is found has the ids its records would have, and no other.
LEMMA NewIdsFound ==
    ASSUME IInv, ScanInv
    PROVE  /\ {NewId(id) : id \in Unmarked} = {Id(i) : i \in seen}
           /\ DOMAIN Deduplicate(seen) = {Id(i) : i \in seen}
           /\ \A id \in Unmarked : Deduplicate(seen)[NewId(id)] = Shown(records[id])
<1>1. seen \in SUBSET Instance
    BY DEF ScanInv
<1>2. /\ Reps(seen) \subseteq seen
      /\ \A i \in Reps(seen) : Id(i) \in DOMAIN Deduplicate(seen) /\ Deduplicate(seen)[Id(i)] = i
    BY <1>1, RepsOf
<1>3. /\ DOMAIN Deduplicate(seen) = {Id(i) : i \in seen}
      /\ \A id \in DOMAIN Deduplicate(seen) : Id(Deduplicate(seen)[id]) = id
    BY <1>1, DeduplicatedNamed
<1>4. {Shown(records[id]) : id \in Unmarked} = Reps(seen)
    BY AsScanned DEF ScanInv
<1>5. \A id \in Unmarked : Id(Shown(records[id])) = NewId(id)
    BY DEF Shown, Id, NewId
<1>6. \A id \in Unmarked : NewId(id) \in {Id(i) : i \in seen}
    BY <1>2, <1>4, <1>5
<1>7. ASSUME NEW i \in seen PROVE \E id \in Unmarked : NewId(id) = Id(i)
    <2>1. Id(i) \in DOMAIN Deduplicate(seen)
        BY <1>3
    <2>2. Deduplicate(seen)[Id(i)] \in Reps(seen)
        BY <2>1 DEF Reps
    <2>3. PICK id \in Unmarked : Shown(records[id]) = Deduplicate(seen)[Id(i)]
        BY <1>4, <2>2
    <2> QED BY <1>3, <1>5, <2>1, <2>3
<1>8. \A id \in Unmarked : Deduplicate(seen)[NewId(id)] = Shown(records[id])
    BY <1>2, <1>4, <1>5
<1> QED BY <1>3, <1>6, <1>7, <1>8

\* One of each id among those of some files is the one among all.
LEMMA DeduplicatedParts ==
    ASSUME NEW A \in SUBSET Instance, NEW B \in SUBSET Instance,
           \A a \in A, b \in B : a.file # b.file, NEW id \in DOMAIN Deduplicate(A)
    PROVE  Deduplicate(A \cup B)[id] = Deduplicate(A)[id]
<1>1. PICK a \in A : Id(a) = id
    BY DEF Deduplicate
<1>2. \A i : (i \in A \cup B /\ Id(i) = id) <=> (i \in A /\ Id(i) = id)
    <2>1. \A i : Id(i) = id => i.file = a.file
        BY <1>1 DEF Id
    <2> QED BY <2>1
<1>3. (CHOOSE i \in A \cup B : Id(i) = id) = (CHOOSE i \in A : Id(i) = id)
    BY <1>2
<1> QED BY <1>3 DEF Deduplicate

\* What is found now is what is on record, but for the templates that were not
\* synthesized.
SameAgain(unique, templates) ==
    /\ Unique(unique)
    /\ \A n \in DOMAIN unique : \E id \in Unmarked : NewId(id) = n
    /\ \A id \in Unmarked :
          IF records[id].file \in Templates /\ templates = {}
          THEN NewId(id) \notin DOMAIN unique
          ELSE NewId(id) \in DOMAIN unique /\ unique[NewId(id)] = Shown(records[id])

\* A record that was carried over is carried over again: as many of its group come
\* before it as before the finding it is of.
LEMMA CarriedAgain ==
    ASSUME IInv, NamedOK, ScanInv, CarriedOK, NEW unique, NEW templates,
           SameAgain(unique, templates),
           NEW id \in Unmarked, NewId(id) \in DOMAIN unique, id # NewId(id)
    PROVE  \E p \in Carried(unique) : p[1].id = id /\ p[2].id = NewId(id)
<1> DEFINE lost == {[id |-> j, item |-> records[j]] : j \in Unmarked \ DOMAIN unique}
           appeared == {[id |-> j, item |-> unique[j]] : j \in DOMAIN unique \ DOMAIN records}
           new(j) == [id |-> NewId(j), item |-> unique[NewId(j)]]
           old(j) == [id |-> j, item |-> records[j]]
           a == old(id)
           b == new(id)
           S == {c \in lost : SameGroup(a.item, c.item) /\ Before(c, a)}
           T == {c \in appeared : SameGroup(b.item, c.item) /\ Before(c, b)}
           f == [c \in S |-> new(c.id)]
<1>1. \A n \in DOMAIN unique : n \in {Id(i) : i \in seen}
    BY NewIdsFound DEF SameAgain
<1>2. \A j \in Unmarked : NewId(j) # j => j \notin DOMAIN unique /\ NewId(j) \notin DOMAIN records
    BY <1>1 DEF CarriedOK
<1>3. \A j \in Unmarked : j \in Ids /\ records[j] \in Record /\ j \in DOMAIN records
    BY DEF Unmarked, IInv, RecordsOK
<1>4. a \in lost /\ b \in appeared
    BY <1>2
<1>5. \A j \in Unmarked \ DOMAIN unique : SameGroup(records[id], records[j]) =>
         /\ NewId(j) \in DOMAIN unique \ DOMAIN records
         /\ unique[NewId(j)] = Shown(records[j])
    <2> SUFFICES ASSUME NEW j \in Unmarked \ DOMAIN unique, SameGroup(records[id], records[j])
                 PROVE  /\ NewId(j) \in DOMAIN unique \ DOMAIN records
                        /\ unique[NewId(j)] = Shown(records[j])
        OBVIOUS
    <2>1. records[j].file = records[id].file
        BY DEF SameGroup
    <2>2. NewId(j) \in DOMAIN unique /\ unique[NewId(j)] = Shown(records[j])
        BY <2>1 DEF SameAgain
    <2> QED BY <1>2, <2>2
<1>6. unique[NewId(id)] = Shown(records[id])
    BY DEF SameAgain
<1>7. SameGroup(a.item, b.item)
    <2>1. records[id].resource # 0
        BY DEF CarriedOK
    <2> QED BY <1>6, <2>1 DEF SameGroup, Shown
<1>8. \A i, j \in Unmarked : records[i].file = records[j].file /\ records[i].rule = records[j].rule
                             /\ records[i].line = records[j].line => i = j
    BY DEF ScanInv, RecordsAreTheScan
<1>9. ASSUME NEW j \in Unmarked, SameGroup(records[id], records[j]),
             unique[NewId(j)] = Shown(records[j])
      PROVE  Before(old(j), a) <=> Before(new(j), b)
    <2>1. /\ old(j).item.line = new(j).item.line /\ a.item.line = b.item.line
          /\ old(j).item.line = records[j].line /\ a.item.line = records[id].line
        BY <1>6, <1>9 DEF Shown
    <2>2. records[j].line = records[id].line => j = id
        BY <1>8, <1>9 DEF SameGroup
    <2>3. old(j).id = j /\ a.id = id /\ new(j).id = NewId(j) /\ b.id = NewId(id)
        OBVIOUS
    <2>4. /\ records[j].line \in Nat /\ records[id].line \in Nat
          /\ id.line \in Nat /\ NewId(id).line \in Nat
        BY <1>3 DEF Record, Ids, NewId, Id
    <2> HIDE DEF old, new
    <2> QED BY <2>1, <2>2, <2>3, <2>4 DEF Before
<1>10. \A j \in Unmarked : unique[NewId(j)] = Shown(records[j]) =>
            (SameGroup(records[id], records[j]) <=> SameGroup(unique[NewId(id)], unique[NewId(j)]))
    BY <1>6 DEF SameGroup, Shown
<1>11. IsFiniteSet(lost)
    <2> DEFINE R == Unmarked \ DOMAIN unique
               g == [j \in R |-> [id |-> j, item |-> records[j]]]
    <2>1. IsFiniteSet(R)
        BY FS_Subset DEF Unmarked, ScanInv
    <2>2. IsFiniteSet({g[x] : x \in R})
        BY <2>1, ValuesFinite
    <2>3. lost = {g[x] : x \in R}
        OBVIOUS
    <2> QED BY <2>2, <2>3
<1>12. IsFiniteSet(S)
    BY <1>11, FS_Subset
<1>13. ASSUME NEW c \in S PROVE f[c] \in T /\ c = old(c.id) /\ c.id \in Unmarked
    <2>1. PICK j \in Unmarked \ DOMAIN unique : c = old(j)
        OBVIOUS
    <2>2. SameGroup(records[id], records[j]) /\ Before(old(j), a)
        BY <2>1
    <2>3. /\ NewId(j) \in DOMAIN unique \ DOMAIN records
          /\ unique[NewId(j)] = Shown(records[j])
        BY <1>5, <2>2
    <2>4. Before(new(j), b)
        BY <1>9, <2>2, <2>3
    <2>5. SameGroup(unique[NewId(id)], unique[NewId(j)])
        BY <1>10, <2>2, <2>3
    <2>6. f[c] = new(j) /\ new(j) \in appeared /\ new(j).item = unique[NewId(j)]
        BY <2>1, <2>3
    <2> QED BY <2>1, <2>4, <2>5, <2>6
<1>14. ASSUME NEW d \in T PROVE \E c \in S : f[c] = d
    <2>1. PICK n \in DOMAIN unique \ DOMAIN records : d = [id |-> n, item |-> unique[n]]
        OBVIOUS
    <2>2. PICK j \in Unmarked : NewId(j) = n
        BY DEF SameAgain
    <2>3. j # n
        BY <1>3, <2>1
    <2>4. j \notin DOMAIN unique /\ d = new(j)
        BY <1>2, <2>1, <2>2, <2>3
    <2>5. unique[NewId(j)] = Shown(records[j])
        BY <2>1, <2>2 DEF SameAgain
    <2>6. SameGroup(unique[NewId(id)], unique[NewId(j)]) /\ Before(new(j), b)
        BY <2>4
    <2>7. SameGroup(records[id], records[j])
        BY <1>10, <2>5, <2>6
    <2>8. Before(old(j), a)
        BY <1>9, <2>5, <2>6, <2>7
    <2>9. old(j) \in S /\ f[old(j)] = new(j)
        BY <2>4, <2>7, <2>8
    <2> QED BY <2>4, <2>9
<1>15. ASSUME NEW c \in S, NEW d \in S, f[c] = f[d] PROVE c = d
    <2>1. NewId(c.id) = NewId(d.id)
        BY <1>15
    <2>2. c.id = d.id
        BY <1>13, <2>1, NewIdsApart
    <2> QED BY <1>13, <2>2
<1>16. Cardinality(S) = Cardinality(T)
    <2> HIDE DEF S, T
    <2>1. f \in [S -> T]
        BY <1>13
    <2>2. f \in Bijection(S, T)
        BY <1>14, <1>15, <2>1 DEF Bijection, Injection, Surjection, IsInjective
    <2> QED BY <1>12, <2>2, FS_Bijection DEF ExistsBijection
<1>17. Rank(a, lost) = Rank(b, appeared)
    BY <1>16 DEF Rank
<1> DEFINE p == <<a, b>>
<1>18. p \in lost \X appeared /\ p[1] = a /\ p[2] = b
    BY <1>4
<1>19. p \in Carried(unique)
    <2> HIDE DEF a, b, p
    <2> QED BY <1>7, <1>17, <1>18 DEF Carried
<1> QED BY <1>18, <1>19

\* What is scanned again and found to be the same is on record as it was.
LEMMA FoundAgain ==
    ASSUME IInv, NamedOK, ScanInv, NEW e \in 1..Len(executions), NEW failed,
           WriteFindings(e, failed), seen' = seen
    PROVE  SameAgain(Deduplicate(Found(executions[e].read)),
                  ScannedTemplates(executions[e].read))
<1> DEFINE read == executions[e].read
           found == Found(read)
           templates == ScannedTemplates(read)
           unique == Deduplicate(found)
           held == {i \in seen : i.file \in Templates /\ templates = {}}
<1>1. /\ Unique(unique) /\ seen = held \cup found
      /\ \A a \in held, b \in found : a.file # b.file
    BY ScanWrites
<1>2. /\ held \in SUBSET Instance /\ found \in SUBSET Instance
    BY <1>1 DEF ScanInv
<1>3. /\ found \subseteq Instance
      /\ templates = {} => \A i \in found : i.file \notin Templates
    BY FoundOK
<1>4. DOMAIN unique = {Id(i) : i \in found}
    BY <1>2, DeduplicatedNamed
<1>5. \A n \in DOMAIN unique : Deduplicate(seen)[n] = unique[n]
    <2>1. \A a \in found, b \in held : a.file # b.file
        BY <1>1
    <2>2. seen = found \cup held
        BY <1>1
    <2> HIDE DEF found, held
    <2> QED BY <1>2, <2>1, <2>2, DeduplicatedParts
<1>6. /\ {NewId(id) : id \in Unmarked} = {Id(i) : i \in seen}
      /\ \A id \in Unmarked : Deduplicate(seen)[NewId(id)] = Shown(records[id])
    BY NewIdsFound
<1>7. \A n \in DOMAIN unique : \E id \in Unmarked : NewId(id) = n
    BY <1>1, <1>4, <1>6
<1>8. \A id \in Unmarked : NewId(id).file = records[id].file
    BY DEF NewId, Id
<1>9. \A i : Id(i).file = i.file
    BY DEF Id
<1>10. ASSUME NEW id \in Unmarked, records[id].file \in Templates, templates = {}
       PROVE  NewId(id) \notin DOMAIN unique
    BY <1>3, <1>4, <1>8, <1>9, <1>10
<1>11. ASSUME NEW id \in Unmarked, ~(records[id].file \in Templates /\ templates = {})
       PROVE  NewId(id) \in DOMAIN unique /\ unique[NewId(id)] = Shown(records[id])
    <2>1. PICK i \in seen : Id(i) = NewId(id)
        BY <1>6
    <2>2. i \in found
        BY <1>1, <1>8, <1>9, <1>11, <2>1
    <2>3. NewId(id) \in DOMAIN unique
        BY <1>4, <2>1, <2>2
    <2> QED BY <1>5, <1>6, <2>3
<1> HIDE DEF unique, templates
<1>12. SameAgain(unique, templates)
    BY <1>1, <1>7, <1>10, <1>11 DEF SameAgain
<1> QED BY <1>12 DEF unique, templates

\* A scan that finds what the last one did leaves every record as it is.
LEMMA RescanKeeps ==
    ASSUME IInv, NamedOK, ScanInv, CarriedOK, NEW e \in 1..Len(executions), NEW failed,
           WriteFindings(e, failed), seen' = seen
    PROVE  \A id \in Unmarked : id \in DOMAIN records' /\ records'[id] = records[id]
<1> DEFINE read == executions[e].read
           found == Found(read)
           templates == ScannedTemplates(read)
           unique == Deduplicate(found)
           pairs == Carried(unique)
           carried == CarryMovedIds(unique)
           kept  == DOMAIN unique \ {p[2].id : p \in pairs}
           moved == {p[1].id : p \in pairs}
           first(id) == CHOOSE p \in pairs : p[1].id = id
<1>1. /\ records' = Written(carried, templates) /\ Unique(unique) /\ Named(carried)
      /\ \A id \in DOMAIN carried : carried[id] \in found
    BY ScanWrites
<1>2. SameAgain(unique, templates)
    BY FoundAgain
<1>3. templates = {} => \A i \in found : i.file \notin Templates
    BY FoundOK
<1>4. /\ \A p \in pairs : /\ p[1].id \in Unmarked \ DOMAIN unique
                          /\ p[2].id \in DOMAIN unique \ DOMAIN records
                          /\ p[2].item = unique[p[2].id]
      /\ \A p, q \in pairs : p[1].id = q[1].id <=> p[2].id = q[2].id
    BY <1>1, CarriedMatch DEF ScanInv
<1>5. carried = [id \in kept \cup moved |->
            IF id \in kept THEN unique[id] ELSE first(id)[2].item]
    BY DEF CarryMovedIds
<1>6. \A n \in DOMAIN unique : n \in {Id(i) : i \in seen}
    BY <1>2, NewIdsFound DEF SameAgain
<1> SUFFICES ASSUME NEW id \in Unmarked
             PROVE  id \in DOMAIN records' /\ records'[id] = records[id]
    OBVIOUS
<1>7. id \in DOMAIN records /\ records[id] \in Record /\ ~records[id].gone
    BY DEF Unmarked, IInv, RecordsOK
<1>8. id \in DOMAIN records'
    BY <1>1, <1>7 DEF Written
<1>9. CASE records[id].file \in Templates /\ templates = {}
    <2>1. id \notin DOMAIN carried
        <3>1. id.file \in Templates
            BY <1>7, <1>9 DEF NamedOK
        <3> QED BY <1>1, <1>3, <1>9, <3>1 DEF Named
    <2>2. records'[id] = [records[id] EXCEPT !.gone = records[id].gone \/ ~TRUE]
        BY <1>1, <1>7, <1>9, <2>1 DEF Written
    <2>3. (records[id].gone \/ ~TRUE) = records[id].gone
        BY <1>7 DEF Record
    <2>4. [records[id] EXCEPT !.gone = records[id].gone] = records[id]
        BY <1>7 DEF Record
    <2> QED BY <1>8, <2>2, <2>3, <2>4
<1>10. CASE ~(records[id].file \in Templates /\ templates = {})
    <2>1. NewId(id) \in DOMAIN unique /\ unique[NewId(id)] = Shown(records[id])
        BY <1>2, <1>10 DEF SameAgain
    <2>2. id \in DOMAIN carried /\ carried[id] = Shown(records[id])
        <3>1. CASE NewId(id) = id
            <4>1. id \in kept
                BY <1>4, <1>7, <2>1, <3>1
            <4> HIDE DEF pairs, kept, moved, first, carried
            <4> QED BY <1>5, <2>1, <3>1, <4>1
        <3>2. CASE NewId(id) # id
            <4>1. PICK p \in pairs : p[1].id = id /\ p[2].id = NewId(id)
                BY <1>2, <2>1, <3>2, CarriedAgain
            <4>2. id \in moved
                BY <4>1
            <4>3. id \notin kept
                BY <1>6, <3>2 DEF CarriedOK
            <4>4. first(id) \in pairs /\ first(id)[1].id = id
                BY <4>1
            <4>5. first(id)[2].id = NewId(id)
                BY <1>4, <4>1, <4>4
            <4>6. first(id)[2].item = unique[NewId(id)]
                BY <1>4, <4>4, <4>5
            <4> HIDE DEF pairs, kept, moved, first, carried
            <4> QED BY <1>5, <2>1, <4>2, <4>3, <4>6
        <3> QED BY <3>1, <3>2
    <2>3. records'[id] = [records[id] EXCEPT !.resource = carried[id].resource,
                                             !.line = carried[id].line, !.gone = FALSE]
        BY <1>1, <1>7, <2>2 DEF Written
    <2>4. carried[id].resource = records[id].resource /\ carried[id].line = records[id].line
        BY <2>2 DEF Shown
    <2>5. [records[id] EXCEPT !.resource = records[id].resource, !.line = records[id].line,
                              !.gone = FALSE] = records[id]
        BY <1>7 DEF Record
    <2> QED BY <1>8, <2>3, <2>4, <2>5
<1> QED BY <1>9, <1>10

\* A scan carries ids to where nothing has one.
LEMMA WriteFindingsCarried ==
    ASSUME IInv, NamedOK, ScanInv, CarriedOK, NEW e \in 1..Len(executions), NEW failed,
           WriteFindings(e, failed)
    PROVE  CarriedOK'
<1> DEFINE read == executions[e].read
           found == Found(read)
           templates == ScannedTemplates(read)
           unique == Deduplicate(found)
           pairs == Carried(unique)
           carried == CarryMovedIds(unique)
           held == {i \in seen : i.file \in Templates /\ templates = {}}
           kept  == DOMAIN unique \ {p[2].id : p \in pairs}
           moved == {p[1].id : p \in pairs}
           first(id) == CHOOSE p \in pairs : p[1].id = id
<1>1. /\ records' = Written(carried, templates) /\ Unique(unique) /\ Named(carried)
      /\ \A id \in DOMAIN carried : carried[id] \in found
      /\ seen' = held \cup found
      /\ \A a \in held, b \in found : a.file # b.file
    BY ScanWrites
<1>2. /\ found \subseteq Instance
      /\ templates = {} => \A i \in found : i.file \notin Templates
    BY FoundOK
<1>3. /\ \A p \in pairs : /\ p[1].id \in Unmarked \ DOMAIN unique
                          /\ p[2].id \in DOMAIN unique \ DOMAIN records
                          /\ p[2].item = unique[p[2].id]
      /\ \A p, q \in pairs : p[1].id = q[1].id <=> p[2].id = q[2].id
    BY <1>1, CarriedMatch DEF ScanInv
<1>4. \A p \in pairs : p[2].item.resource # 0
    BY DEF Carried, SameGroup
<1>5. carried = [id \in kept \cup moved |->
            IF id \in kept THEN unique[id] ELSE first(id)[2].item]
    BY DEF CarryMovedIds
<1>6. DOMAIN unique = {Id(i) : i \in found} /\ \A id \in DOMAIN unique : Id(unique[id]) = id
    BY <1>2, DeduplicatedNamed
<1>7. \A id \in DOMAIN carried : carried[id] \in Instance
    BY <1>1, <1>2
<1>8. /\ DOMAIN records' = DOMAIN records \cup DOMAIN carried
      /\ \A id \in DOMAIN carried : ~records'[id].gone /\ Shown(records'[id]) = carried[id]
      /\ \A id \in DOMAIN records \ DOMAIN carried :
            /\ Shown(records'[id]) = Shown(records[id])
            /\ ~records'[id].gone <=>
                  ~records[id].gone /\ records[id].file \in Templates /\ templates = {}
    <2> HIDE DEF carried, templates, found, unique
    <2> QED BY <1>1, <1>7, WrittenShown
<1>9. \A i : Id(i).file = i.file
    BY DEF Id
<1>10. \A r : Id(Shown(r)) = Id(r) /\ Shown(r).resource = r.resource /\ Shown(r).file = r.file
    BY DEF Id, Shown
<1>11. moved \subseteq DOMAIN records /\ kept \subseteq DOMAIN unique
    BY <1>3 DEF Unmarked
<1> SUFFICES ASSUME NEW id \in DOMAIN records', ~records'[id].gone, Id(records'[id]) # id
             PROVE  /\ id \notin {Id(i) : i \in seen'}
                    /\ Id(records'[id]) \notin DOMAIN records'
                    /\ records'[id].resource # 0
    BY DEF CarriedOK, Unmarked, NewId
<1>12. CASE id \in DOMAIN carried
    <2>1. id \notin kept
        <3>1. ASSUME id \in kept PROVE FALSE
            <4>1. carried[id] = unique[id]
                BY <1>5, <3>1
            <4>2. id \in DOMAIN unique
                BY <3>1
            <4> QED BY <1>6, <1>8, <1>10, <1>12, <4>1, <4>2
        <3> QED BY <3>1
    <2>2. id \in moved /\ carried[id] = first(id)[2].item
        BY <1>5, <1>12, <2>1
    <2>3. first(id) \in pairs /\ first(id)[1].id = id
        BY <2>2
    <2> DEFINE n == first(id)[2].id
    <2>4. n \in DOMAIN unique \ DOMAIN records /\ carried[id] = unique[n] /\ id \notin DOMAIN unique
        BY <1>3, <2>2, <2>3
    <2>5. n \notin kept /\ n \notin moved
        BY <1>11, <2>3, <2>4
    <2>6. Id(records'[id]) = n
        BY <1>6, <1>8, <1>10, <1>12, <2>4
    <2>7. n \notin DOMAIN records'
        <3>1. DOMAIN carried = kept \cup moved
            BY <1>5
        <3> QED BY <1>8, <2>4, <2>5, <3>1
    <2>8. records'[id].resource # 0
        BY <1>4, <1>8, <1>10, <1>12, <2>2, <2>3
    <2>9. id \notin {Id(i) : i \in seen'}
        <3>1. carried[id] \in found /\ carried[id].file = id.file
            BY <1>1, <1>12 DEF Named
        <3>2. \A i \in held : Id(i) # id
            BY <1>1, <1>9, <3>1
        <3>3. \A i \in found : Id(i) # id
            BY <1>6, <2>4
        <3> QED BY <1>1, <3>2, <3>3
    <2> QED BY <2>6, <2>7, <2>8, <2>9
<1>13. CASE id \notin DOMAIN carried
    <2>1. /\ id \in Unmarked /\ records[id].file \in Templates /\ templates = {}
          /\ Shown(records'[id]) = Shown(records[id])
        BY <1>8, <1>13 DEF Unmarked
    <2>2. NewId(id) = Id(records'[id]) /\ NewId(id) # id /\ records'[id].resource = records[id].resource
        <3>1. NewId(id) = Id(Shown(records[id]))
            BY <1>10 DEF NewId
        <3> QED BY <1>10, <2>1, <3>1
    <2>3. /\ id \notin {Id(i) : i \in seen} /\ NewId(id) \notin DOMAIN records
          /\ records[id].resource # 0
        BY <2>1, <2>2 DEF CarriedOK
    <2>4. id.file \in Templates /\ NewId(id).file \in Templates
        BY <2>1 DEF Unmarked, NamedOK, NewId, Id
    <2>5. id \notin {Id(i) : i \in seen'}
        BY <1>1, <1>2, <1>9, <2>1, <2>3, <2>4
    <2>6. NewId(id) \notin DOMAIN carried
        BY <1>1, <1>2, <2>1, <2>4 DEF Named
    <2> QED BY <1>8, <2>2, <2>3, <2>5, <2>6
<1> QED BY <1>12, <1>13

\* What is decided about a finding moves no id.
LEMMA AlikeCarried ==
    ASSUME CarriedOK, UNCHANGED seen, DOMAIN records' = DOMAIN records,
           \A id \in DOMAIN records :
              /\ Shown(records'[id]) = Shown(records[id])
              /\ records'[id].gone = records[id].gone
    PROVE  CarriedOK'
<1>1. \A id \in DOMAIN records : /\ records'[id].file = records[id].file
                                 /\ records'[id].rule = records[id].rule
                                 /\ records'[id].line = records[id].line
                                 /\ records'[id].resource = records[id].resource
    BY DEF Shown
<1>2. \A id \in DOMAIN records : Id(records'[id]) = Id(records[id])
    BY <1>1 DEF Id
<1> SUFFICES ASSUME NEW id \in DOMAIN records', ~records'[id].gone, Id(records'[id]) # id
             PROVE  /\ id \notin {Id(i) : i \in seen'}
                    /\ Id(records'[id]) \notin DOMAIN records'
                    /\ records'[id].resource # 0
    BY DEF CarriedOK, Unmarked, NewId
<1> QED BY <1>1, <1>2 DEF CarriedOK, Unmarked, NewId

LEMMA StepCarried ==
    ASSUME IInv, NamedOK, ScanInv, CarriedOK, NEW e \in 1..Len(executions),
           ExecutionStep(e) \/ ((Fails(e) \/ Retried(e)) /\ UNCHANGED othersVars)
    PROVE  CarriedOK'
<1>1. CASE \E failed : WriteFindings(e, failed)
    BY <1>1, WriteFindingsCarried
<1>2. CASE \/ \E mapped, yielded : MapFindings(e, mapped, yielded)
           \/ \E file, outcome : RemediateFile(e, file, outcome)
    BY <1>2, DecidedAlike, AlikeCarried
<1>3. CASE UNCHANGED <<records, seen>>
    BY <1>3, AlikeCarried
<1> QED BY <1>1, <1>2, <1>3 DEF ExecutionStep, OpenCheckRun, Snapshot, Synthesize, Scan,
           ScannerError, MapToControls, SelectFiles, PostSuggestions, Complete, RecordOffer,
           scannerVars, othersVars

LEMMA InitCarried == FlowInit => CarriedOK
<1> SUFFICES ASSUME FlowInit PROVE CarriedOK
    OBVIOUS
<1>1. CASE Opened
    <2>1. records = <<>>
        BY <1>1 DEF Opened
    <2> QED BY <2>1 DEF CarriedOK, Unmarked
<1>2. ASSUME NEW drafted \in BOOLEAN, ScannedOnce(drafted) PROVE CarriedOK
    <2>1. DOMAIN records = {Id(i) : i \in seen}
        BY <1>2 DEF ScannedOnce
    <2>2. IInv /\ ScanInv
        BY InitOK, InitScan
    <2>3. ASSUME NEW id \in Unmarked, NewId(id) # id PROVE FALSE
        <3> DEFINE k == IF history[1].app THEN 1 ELSE 0
                   found == On(1, Files \ Templates) \cup On(k, Templates)
                   new == New(Deduplicate(found)[id])
                   status == IF drafted THEN "fix-proposed" ELSE "mapped"
                   base == IF drafted THEN history[1].content[WorkFile(id.file)] ELSE 0
                   worked == [new EXCEPT !.status = status, !.base = base]
        <3>1. seen = found /\ id \in {Id(i) : i \in found}
            BY <1>2, <2>1 DEF ScannedOnce, Unmarked
        <3>2. records[id] = IF Candidates(id) # {} /\ WorkFile(id.file) \in history[1].changed
                            THEN worked ELSE new
            BY <1>2, <3>1 DEF ScannedOnce
        <3>3. Id(Deduplicate(found)[id]) = id
            BY <2>2, <3>1, DeduplicatedNamed DEF ScanInv
        <3> HIDE DEF found
        <3>4. Id(new) = id /\ Id(worked) = id
            BY <3>3 DEF New, Id
        <3> QED BY <2>3, <3>2, <3>4 DEF NewId
    <2> QED BY <2>3 DEF CarriedOK
<1> QED BY <1>1, <1>2 DEF FlowInit

LEMMA CarriedHolds == FlowSpec => []CarriedOK
<1>1. IInv /\ ScopeInv /\ ScanInv /\ CarriedOK /\ [FlowNext]_flowVars => CarriedOK'
    <2> SUFFICES ASSUME IInv, ScopeInv, ScanInv, CarriedOK, [FlowNext]_flowVars PROVE CarriedOK'
        OBVIOUS
    <2>1. CASE UNCHANGED flowVars
        BY <2>1, AlikeCarried DEF flowVars, scannerVars
    <2>2. CASE FlowNext
        <3>1. CASE UNCHANGED <<records, seen>>
            BY <3>1, AlikeCarried
        <3>2. ASSUME NEW e \in DOMAIN executions,
                     ExecutionStep(e) \/ ((Fails(e) \/ Retried(e)) /\ UNCHANGED othersVars)
              PROVE  CarriedOK'
            BY <3>2, StepCarried, DomainOfExecutions DEF ScopeInv
        <3> QED BY <2>2, <3>1, <3>2, StepsOfFlow DEF PushCommit, PullRequestEvent, ClickDraftFixes,
                ClickRerun, OnExecutionFailed, othersVars, scannerVars
    <2> QED BY <2>1, <2>2
<1> QED BY <1>1, InitCarried, FlowInvariant, ScopesHold, ScanHolds, PTL DEF FlowSpec

\* RescanKeepsRecords is a property of every step: a scan that finds what the last
\* one found writes every record as it was, so that a retry or a Re-run takes nothing
\* back of what was decided since (_carry_moved_ids, _write_findings).
THEOREM RescansKeep == FlowSpec => RescanKeepsRecords
<1>1. IInv /\ ScopeInv /\ ScanInv /\ CarriedOK /\ [FlowNext]_flowVars =>
        [\A e \in DOMAIN executions :
          /\ executions[e].state = "WriteFindings" /\ executions'[e].state = "MapToControls"
          /\ seen' = seen
          => \A id \in Unmarked : id \in DOMAIN records' /\ records'[id] = records[id]]_flowVars
    <2> SUFFICES ASSUME IInv, ScopeInv, ScanInv, CarriedOK, FlowNext, NEW e \in 1..Len(executions),
                        executions[e].state = "WriteFindings",
                        executions'[e].state = "MapToControls", seen' = seen,
                        NEW id \in Unmarked
                 PROVE  id \in DOMAIN records' /\ records'[id] = records[id]
        BY DomainOfExecutions
    <2>1. CASE UNCHANGED records
        BY <2>1 DEF Unmarked
    <2>2. ASSUME NEW failed, NEW d \in DOMAIN executions, WriteFindings(d, failed)
          PROVE  id \in DOMAIN records' /\ records'[id] = records[id]
        BY <2>2, RescanKeeps, DomainOfExecutions DEF ScopeInv
    <2>3. ASSUME NEW d \in DOMAIN executions,
                 \/ \E mapped, yielded : MapFindings(d, mapped, yielded)
                 \/ \E file, outcome : RemediateFile(d, file, outcome)
          PROVE  FALSE
        <3>1. executions[d].state \in {"Mapping", "Remediate"}
            BY <2>3 DEF MapFindings, RemediateFile
        <3>2. d \in 1..Len(executions) /\ d # e
            BY <3>1, DomainOfExecutions
        <3>3. \E x : executions' = [executions EXCEPT ![d] = x]
            BY <2>3, <3>2, MappingMoves, RemediateMoves DEF Moves
        <3>4. executions'[e] = executions[e]
            BY <3>2, <3>3 DEF IInv, ExecutionsOK
        <3> QED BY <3>4
    <2> QED BY <2>1, <2>2, <2>3, StepsOfFlow DEF PushCommit, PullRequestEvent, ClickDraftFixes,
            ClickRerun, OnExecutionFailed, ExecutionStep, OpenCheckRun, Snapshot, Synthesize, Scan,
            ScannerError, MapToControls, SelectFiles, PostSuggestions, Complete, RecordOffer,
            scannerVars, othersVars
<1> QED BY <1>1, FlowInvariant, ScopesHold, ScanHolds, CarriedHolds, PTL
           DEF FlowSpec, RescanKeepsRecords

----------------------------------------------------------------------------
(* What a Draft fixes run finds to do *)

\* The commits whose app the sandbox can synthesize: any.
CONSTANT Synthesizable

\* The snapshot of a commit when its fetch and its synthesis are done.
Whole(k) == [files |-> k, templates |-> IF history[k].app /\ k \in Synthesizable THEN k ELSE 0]

Fetched(k) == [files |-> k, templates |-> 0]

\* What was last found is what is to be found of the commit, but for templates there
\* are none of.
SeenIs(k, found) ==
    /\ Found(Whole(k)) \subseteq found
    /\ \A i \in found \ Found(Whole(k)) : i.file \in Templates /\ ScannedTemplates(Whole(k)) = {}

\* The execution has scanned its commit, or there was nothing to scan.
Cut(x, found) == IF x.scanned THEN SeenIs(x.head, found) ELSE Admitted(Whole(x.head)) = {}

\* What an undisturbed execution has got of its commit, state by state.
Ready(x, snap, found) ==
    /\ x.state = "Synthesize" => snap = Fetched(x.head) /\ history[x.head].app
    /\ x.state \in {"Scan", "WriteFindings"} => snap = Whole(x.head)
    /\ x.state = "WriteFindings" => x.read = Whole(x.head) /\ Admitted(x.read) # {}
    /\ x.state \in Tasks \ {"Fetch", "Snapshot"} /\ x.status = "ok" =>
          x.changed = ChangedFiles(x.head)
    /\ x.state \in Scanned /\ x.status = "ok" => Cut(x, found)

\* A changed file of the commit has a mapped finding or a stale fix.
ToDo(id) == records[id].status = "mapped" \/ IsStale(id)
Work(k) == \E id \in Unmarked : WorkFile(records[id].file) \in ChangedFiles(k) /\ ToDo(id)

\* An execution a button started.
Chosen == {"Remediate", "Report", "Complete", "RecordOffer"}

WorkRuns ==
    \A e \in 1..Len(executions) :
        LET x == executions[e]
        IN /\ x.parent < e /\ (x.parent # 0 => x.trigger = DraftFixes)
           /\ quiet \cap {e, x.parent} # {} => Ready(x, snapshot, seen)
           /\ x.parent \in quiet =>
                 /\ Cut(executions[x.parent], seen)
                 /\ x.state \in Selecting => Work(x.head)
                 /\ x.state \in Chosen /\ x.status = "ok" => x.files # {}

Childless(p) == \A e \in 1..Len(executions) : executions[e].parent # p

WorkChecks ==
    \A c \in 1..Len(checkRuns) :
        LET p == checkRuns[c].execution
        IN p \in quiet =>
              /\ checkRuns[c].says = "findings" => Cut(executions[p], seen)
              /\ checkRuns[c].button /\ Childless(p) => Work(executions[p].head)

\* A synthesis ends as its commit's does, the first state's included.
Repeats == \A e \in DOMAIN executions, ok \in BOOLEAN :
    Synthesize(e, ok) => Synthesize(e, executions[e].head \in Synthesizable)
SynthesisRepeats == /\ executions # <<>> => 1 \in Synthesizable
                    /\ [][Repeats]_flowVars

WorkInv == WorkRuns /\ WorkChecks

\* Execution e goes on as x.  Either nothing that others look at changes, or it
\* disturbs all but the one whose button started it.
Works(e, x) ==
    /\ executions' = [executions EXCEPT ![e] = x]
    /\ UNCHANGED <<history, pushes>>
    /\ x.head = executions[e].head /\ x.parent = executions[e].parent
    /\ x.trigger = executions[e].trigger
    /\ executions[e].state \in Reporting => x.scanned = executions[e].scanned
    /\ quiet' \cap {e, x.parent} # {} => Ready(x, snapshot', seen')
    /\ x.parent \in quiet' =>
          /\ Cut(executions[x.parent], seen')
          /\ x.state \in Selecting => Work(x.head)'
          /\ x.state \in Chosen /\ x.status = "ok" => x.files # {}
    /\ \/ quiet' \subseteq quiet /\ UNCHANGED <<snapshot, records, seen>>
       \/ executions[e].state \notin Reporting /\ quiet' \subseteq (quiet \cap {x.parent}) \cup {e}

\* Of those at work on the pull request, all but the one that disturbs the others
\* are disturbed: a button starts one execution.
LEMMA AloneAtWork ==
    ASSUME IInv, OneExecutionEach, QuietRuns, WorkRuns,
           NEW e \in 1..Len(executions), executions[e].state \notin Reporting,
           NEW d \in 1..Len(executions), d # e,
           NEW q \in 1..Len(executions), q \in {e, executions[e].parent},
           q \in {d, executions[d].parent}
    PROVE  q = d /\ d = executions[e].parent
<1>1. executions[d].parent # e
    <2>1. e # 0
        OBVIOUS
    <2> QED BY <2>1 DEF QuietRuns
<1>2. ~(executions[d].parent = q /\ executions[e].parent = q)
    <2> SUFFICES ASSUME executions[d].parent = q, executions[e].parent = q PROVE FALSE
        OBVIOUS
    <2>1. q # 0
        OBVIOUS
    <2>2. executions[d].trigger = executions[e].trigger /\ executions[d].head = executions[e].head
        BY <2>1 DEF WorkRuns, QuietRuns
    <2> QED BY <2>2, DomainOfExecutions DEF OneExecutionEach
<1> QED BY <1>1, <1>2

\* What there is to do depends on the records, the diff and the snapshot's commit.
LEMMA WorkStays ==
    ASSUME NEW k, Work(k), UNCHANGED <<history, pushes>>, snapshot'.files = snapshot.files,
           \A id \in Unmarked : id \in DOMAIN records' /\ records'[id] = records[id]
    PROVE  Work(k)'
<1>1. PICK id \in Unmarked : WorkFile(records[id].file) \in ChangedFiles(k) /\ ToDo(id)
    BY DEF Work
<1>2. records'[id] = records[id] /\ id \in Unmarked'
    BY DEF Unmarked
<1>3. ChangedFiles(k)' = ChangedFiles(k)
    BY DEF ChangedFiles, Snapshotted, Kept
<1>4. \A file : ContentOf(file)' = ContentOf(file)
    BY DEF ContentOf, Snapshotted, Kept
<1>5. ToDo(id)'
    BY <1>1, <1>2, <1>4 DEF ToDo, IsStale
<1>6. WorkFile(records'[id].file) = WorkFile(records[id].file)
    BY <1>2
<1> QED BY <1>1, <1>2, <1>3, <1>5, <1>6 DEF Work

\* What there is of a commit depends on the commit and on the diff.
LEMMA CommitStays ==
    ASSUME UNCHANGED <<history, pushes>>
    PROVE  /\ \A x, snap, found : Ready(x, snap, found)' = Ready(x, snap, found)
           /\ \A x, found : Cut(x, found)' = Cut(x, found)
BY DEF Ready, Cut, SeenIs, Whole, Fetched, Found, On, ScannedTemplates, Has, Admitted, Unreadable,
       Unparsed, ChangedFiles, Snapshotted, Kept

LEMMA WorksOn ==
    ASSUME IInv, OneExecutionEach, QuietRuns, QuietRuns', WorkRuns,
           NEW e \in 1..Len(executions), NEW x, Works(e, x)
    PROVE  WorkRuns'
<1> DEFINE n == Len(executions)
<1>1. /\ Len(executions') = n
      /\ \A d \in 1..n : executions'[d] = IF d = e THEN x ELSE executions[d]
    BY DEF Works, IInv, ExecutionsOK
<1>2. quiet' \subseteq 1..n /\ \A d \in 1..n : executions[d].parent \in 0..n
    <2>1. n \in Nat /\ \A d \in 1..n : executions[d] \in Run /\ executions[d].parent <= n
        BY EachRun DEF IInv, ExecutionsOK
    <2> QED BY <1>1, <2>1 DEF Run, QuietRuns
<1>3. UNCHANGED <<history, pushes>>
    BY DEF Works
<1>4. /\ \A y, snap, found : Ready(y, snap, found)' = Ready(y, snap, found)
      /\ \A y, found : Cut(y, found)' = Cut(y, found)
    BY <1>3, CommitStays
<1>5. \A y, z, found : y.head = z.head /\ y.scanned = z.scanned => (Cut(y, found) <=> Cut(z, found))
    BY DEF Cut
<1>6. \A d \in 1..n : executions[d].parent # 0 => executions[executions[d].parent].state \in Reporting
    BY DEF QuietRuns
<1>7. \A d \in 1..n : executions[d].state \in Reporting =>
         /\ executions'[d].head = executions[d].head
         /\ executions'[d].scanned = executions[d].scanned
    BY <1>1 DEF Works
<1> SUFFICES ASSUME NEW d \in 1..n, NEW k, k = executions[d].head
             PROVE  LET y == executions'[d]
                    IN /\ y.parent < d /\ (y.parent # 0 => y.trigger = DraftFixes)
                       /\ y.head = k
                       /\ quiet' \cap {d, y.parent} # {} => Ready(y, snapshot', seen')
                       /\ y.parent \in quiet' =>
                             /\ Cut(executions'[y.parent], seen')
                             /\ y.state \in Selecting => Work(k)'
                             /\ y.state \in Chosen /\ y.status = "ok" => y.files # {}
    BY <1>1, <1>4 DEF WorkRuns
<1>8. CASE d = e
    <2>1. executions'[d] = x
        BY <1>1, <1>8
    <2>2. x.parent \in quiet' => Cut(executions'[x.parent], seen') 
        BY <1>2, <1>5, <1>6, <1>7 DEF Works
    <2>3. x.parent < e /\ (x.parent # 0 => x.trigger = DraftFixes) /\ x.head = k
        BY <1>8 DEF Works, WorkRuns
    <2> QED BY <1>8, <2>1, <2>2, <2>3 DEF Works
<1>9. CASE d # e
    <2> DEFINE y == executions[d]
    <2>1. executions'[d] = y
        BY <1>1, <1>9
    <2>2. y.parent < d /\ (y.parent # 0 => y.trigger = DraftFixes) /\ y.head = k
        BY DEF WorkRuns
    <2>3. CASE quiet' \subseteq quiet /\ UNCHANGED <<snapshot, records, seen>>
        <3>1. quiet' \cap {d, y.parent} # {} => Ready(y, snapshot', seen')
            BY <2>3 DEF WorkRuns
        <3>2. y.parent \in quiet' => Cut(executions'[y.parent], seen')
            <4>1. y.parent \in quiet' => Cut(executions[y.parent], seen) /\ y.parent \in 1..n
                BY <1>2, <2>3 DEF WorkRuns
            <4> QED BY <1>5, <1>6, <1>7, <2>3, <4>1
        <3>3. y.parent \in quiet' /\ y.state \in Selecting => Work(k)'
            <4>1. \A id \in Unmarked : id \in DOMAIN records' /\ records'[id] = records[id]
                BY <2>3 DEF Unmarked
            <4>2. y.parent \in quiet' /\ y.state \in Selecting => Work(k)
                BY <2>2, <2>3 DEF WorkRuns
            <4> QED BY <1>3, <2>3, <4>1, <4>2, WorkStays
        <3>4. y.parent \in quiet' /\ y.state \in Chosen /\ y.status = "ok" => y.files # {}
            BY <2>3 DEF WorkRuns
        <3> QED BY <2>1, <2>2, <3>1, <3>2, <3>3, <3>4
    <2>4. CASE /\ executions[e].state \notin Reporting
               /\ quiet' \subseteq (quiet \cap {x.parent}) \cup {e}
        <3>1. \A q \in quiet' : q \in {d, y.parent} => q = d /\ d = executions[e].parent
            <4> SUFFICES ASSUME NEW q \in quiet', q \in {d, y.parent}
                         PROVE  q = d /\ d = executions[e].parent
                OBVIOUS
            <4>1. q \in 1..n /\ q \in {e, executions[e].parent}
                BY <1>2, <2>4 DEF Works
            <4> QED BY <1>9, <2>4, <4>1, AloneAtWork
        <3>2. d # y.parent
            BY <1>2, <2>2
        <3>3. y.parent \notin quiet'
            BY <3>1, <3>2
        <3>4. quiet' \cap {d, y.parent} # {} => Ready(y, snapshot', seen')
            <4> SUFFICES ASSUME d \in quiet' PROVE Ready(y, snapshot', seen')
                BY <3>3
            <4>1. d = executions[e].parent /\ d = x.parent /\ d \in quiet
                BY <1>9, <2>4, <3>1 DEF Works
            <4>2. Cut(y, seen') /\ y.state \in Reporting
                BY <1>6, <4>1 DEF Works
            <4>3. Ready(y, snapshot, seen)
                BY <4>1 DEF WorkRuns
            <4> QED BY <4>2, <4>3 DEF Ready, Reporting, Ended
        <3> QED BY <2>1, <2>2, <3>3, <3>4
    <2> QED BY <2>3, <2>4 DEF Works
<1> QED BY <1>8, <1>9

\* The states of an execution that only lead to one another.
Follow == {<<"Fetch", "Snapshot">>, <<"Snapshot", "Fetch">>, <<"WriteFindings", "Scan">>,
           <<"MapToControls", "Mapping">>, <<"Mapping", "MapToControls">>,
           <<"Report", "Complete">>, <<"Complete", "RecordOffer">>,
           <<"Complete", "Report">>, <<"RecordOffer", "Report">>}

Follows(e, x) ==
    /\ executions' = [executions EXCEPT ![e] = x]
    /\ UNCHANGED <<history, pushes, quiet, snapshot, records, seen>>
    /\ x.head = executions[e].head /\ x.parent = executions[e].parent
    /\ x.trigger = executions[e].trigger /\ x.scanned = executions[e].scanned
    /\ \/ x.state \in Ended
       \/ /\ <<executions[e].state, x.state>> \in Follow
          /\ x.status = executions[e].status /\ x.changed = executions[e].changed
          /\ x.files = executions[e].files

LEMMA FollowsWorks ==
    ASSUME IInv, WorkRuns, NEW e \in 1..Len(executions), NEW x, Follows(e, x)
    PROVE  Works(e, x)
<1> DEFINE old == executions[e]
<1>1. /\ x.head = old.head /\ x.parent = old.parent /\ x.scanned = old.scanned
      /\ UNCHANGED <<quiet, snapshot, seen>>
    BY DEF Follows
<1>2. \A found : Cut(x, found) <=> Cut(old, found)
    BY <1>1 DEF Cut
<1>3. quiet \cap {e, x.parent} # {} => Ready(x, snapshot, seen)
    <2>1. quiet \cap {e, x.parent} # {} => Ready(old, snapshot, seen)
        BY <1>1 DEF WorkRuns
    <2>2. CASE x.state \in Ended
        BY <2>2 DEF Ready, Ended, Tasks, Scanned
    <2>3. CASE /\ <<old.state, x.state>> \in Follow
               /\ x.status = old.status /\ x.changed = old.changed
        BY <1>1, <1>2, <2>1, <2>3 DEF Ready, Follow, Tasks, Scanned
    <2> QED BY <2>2, <2>3 DEF Follows
<1>4. PICK k : k = x.head
    OBVIOUS
<1>5. x.parent \in quiet =>
          /\ Cut(executions[x.parent], seen)
          /\ x.state \in Selecting => Work(k)'
          /\ x.state \in Chosen /\ x.status = "ok" => x.files # {}
    <2>1. x.parent \in quiet =>
             /\ Cut(executions[x.parent], seen)
             /\ old.state \in Selecting => Work(k)
             /\ old.state \in Chosen /\ old.status = "ok" => old.files # {}
        BY <1>1, <1>4 DEF WorkRuns
    <2>2. Work(k) => Work(k)'
        <3>1. \A id \in Unmarked : id \in DOMAIN records' /\ records'[id] = records[id]
            BY DEF Unmarked, Follows
        <3> QED BY <3>1, WorkStays DEF Follows
    <2>3. CASE x.state \in Ended
        BY <2>1, <2>3 DEF Ended, Selecting, Chosen
    <2>4. CASE /\ <<old.state, x.state>> \in Follow
               /\ x.status = old.status /\ x.files = old.files
        BY <2>1, <2>2, <2>4 DEF Follow, Selecting, Chosen
    <2> QED BY <2>3, <2>4 DEF Follows
<1> QED BY <1>3, <1>4, <1>5 DEF Works, Follows

LEMMA GotoFollows ==
    ASSUME IInv, NEW e \in 1..Len(executions), NEW state, Goto(e, state),
           <<executions[e].state, state>> \in Follow,
           UNCHANGED <<history, pushes, quiet, snapshot, records, seen>>
    PROVE  \E x : Follows(e, x)
<1> DEFINE old == executions[e]
           x == [old EXCEPT !.state = state]
<1>1. old \in Run
    BY EachRun
<1>2. executions' = [executions EXCEPT ![e] = x]
    BY DEF Goto
<1>3. /\ x.head = old.head /\ x.parent = old.parent /\ x.status = old.status
      /\ x.scanned = old.scanned /\ x.trigger = old.trigger /\ x.changed = old.changed
      /\ x.files = old.files /\ x.state = state
    BY <1>1 DEF Run
<1> HIDE DEF x
<1>4. Follows(e, x)
    BY <1>2, <1>3 DEF Follows
<1> QED BY <1>4

LEMMA EndFollows ==
    ASSUME IInv, NEW e \in 1..Len(executions), NEW state \in Ended, End(e, state),
           UNCHANGED <<history, pushes, quiet, snapshot, records, seen>>
    PROVE  \E x : Follows(e, x)
<1> DEFINE old == executions[e]
           x == [old EXCEPT !.state = state, !.changed = {}, !.prefixes = {}, !.todo = {},
                            !.files = {}, !.left = {}, !.errors = {}, !.read = NoRead]
<1>1. old \in Run
    BY EachRun
<1>2. executions' = [executions EXCEPT ![e] = x]
    BY DEF End
<1>3. /\ x.head = old.head /\ x.parent = old.parent
      /\ x.scanned = old.scanned /\ x.trigger = old.trigger /\ x.state = state
    BY <1>1 DEF Run
<1> HIDE DEF x
<1>4. Follows(e, x)
    BY <1>2, <1>3 DEF Follows
<1> QED BY <1>4

\* The states that neither scan, nor decide, nor choose.
LEMMA FollowOnWorks ==
    ASSUME IInv, WorkRuns, NEW e \in 1..Len(executions),
           \/ OpenCheckRun(e) \/ Complete(e) \/ MapToControls(e)
           \/ \E failed : ScannerError(e, failed) /\ UNCHANGED gatewayVars
           \/ \E shown : PostSuggestions(e, shown)
           \/ RecordOffer(e) \/ ((Fails(e) \/ Retried(e)) /\ UNCHANGED othersVars)
    PROVE  \E x : Works(e, x)
<1> DEFINE old == executions[e]
<1>1. old \in Run
    BY EachRun
<1>2. UNCHANGED <<history, pushes, quiet, snapshot, records, seen>>
    BY DEF OpenCheckRun, Complete, MapToControls, ScannerError, PostSuggestions, RecordOffer,
           Fails, Retried, scannerVars, othersVars
<1> SUFFICES \E x : Follows(e, x)
    BY FollowsWorks
<1>3. CASE (\E shown : PostSuggestions(e, shown)) \/ Complete(e)
    <2>1. \/ old.state = "Report" /\ Goto(e, "Complete")
          \/ old.state = "Complete" /\ Goto(e, "RecordOffer")
        BY <1>3 DEF PostSuggestions, Complete
    <2> QED BY <1>2, <2>1, GotoFollows DEF Follow
<1>4. CASE (\E failed : ScannerError(e, failed)) \/ Fails(e) \/ RecordOffer(e)
    BY <1>2, <1>4, EndFollows DEF ScannerError, Fails, RecordOffer, Ended
<1>5. CASE Retried(e)
    <2> DEFINE state == executions[e].state
    <2>1. state \in Tasks /\ Again(state) # state /\ Goto(e, Again(state))
        BY <1>5 DEF Retried
    <2>2. \/ state = "Snapshot" /\ Again(state) = "Fetch"
          \/ state = "WriteFindings" /\ Again(state) = "Scan"
          \/ state = "Mapping" /\ Again(state) = "MapToControls"
          \/ state \in {"Complete", "RecordOffer"} /\ Again(state) = "Report"
        BY <2>1 DEF Again
    <2> QED BY <1>2, <2>1, <2>2, GotoFollows DEF Follow
<1>6. CASE OpenCheckRun(e)
    <2> DEFINE x == [old EXCEPT !.state = "Snapshot", !.check = Len(checkRuns) + 1]
    <2>1. executions' = [executions EXCEPT ![e] = x] /\ old.state = "Fetch"
        BY <1>6 DEF OpenCheckRun
    <2>2. /\ x.head = old.head /\ x.parent = old.parent /\ x.status = old.status
          /\ x.scanned = old.scanned /\ x.trigger = old.trigger /\ x.changed = old.changed
          /\ x.files = old.files /\ x.state = "Snapshot"
        BY <1>1 DEF Run
    <2> HIDE DEF x
    <2>3. Follows(e, x)
        BY <1>2, <2>1, <2>2 DEF Follows, Follow
    <2> QED BY <2>3
<1>7. CASE MapToControls(e)
    <2> DEFINE todo == RawFindings(e)
               x == [old EXCEPT !.state = "Mapping", !.todo = todo]
    <2>1. executions' = [executions EXCEPT ![e] = x] /\ old.state = "MapToControls"
        BY <1>7 DEF MapToControls
    <2> HIDE DEF todo
    <2>2. /\ x.head = old.head /\ x.parent = old.parent /\ x.status = old.status
          /\ x.scanned = old.scanned /\ x.trigger = old.trigger /\ x.changed = old.changed
          /\ x.files = old.files /\ x.state = "Mapping"
        BY <1>1 DEF Run
    <2> HIDE DEF x
    <2>3. Follows(e, x)
        BY <1>2, <2>1, <2>2 DEF Follows, Follow
    <2> QED BY <2>3
<1> QED BY <1>3, <1>4, <1>5, <1>6, <1>7

LEMMA ScanWorks ==
    ASSUME IInv, QuietRuns, WorkRuns, NEW e \in 1..Len(executions), Scan(e)
    PROVE  \E x : Works(e, x)
<1> DEFINE old == executions[e]
           next == IF Admitted(snapshot) # {} THEN "WriteFindings"
                   ELSE IF old.allowEmpty /\ Unreadable(snapshot) = {}
                   THEN "MapToControls" ELSE "Failed"
<1>0. PICK x : x = [old EXCEPT !.read = snapshot, !.state = next]
    OBVIOUS
<1>1. old \in Run /\ old.state = "Scan"
    BY EachRun DEF Scan
<1>2. /\ executions' = [executions EXCEPT ![e] = x]
      /\ UNCHANGED <<history, pushes, quiet, snapshot, records, seen>>
    BY <1>0 DEF Scan, scannerVars
<1>3. /\ next \in {"WriteFindings", "MapToControls", "Failed"}
      /\ next = "WriteFindings" => Admitted(snapshot) # {}
      /\ next = "MapToControls" => Admitted(snapshot) = {}
    OBVIOUS
<1> HIDE DEF next
<1>4. /\ x.head = old.head /\ x.parent = old.parent /\ x.status = old.status
      /\ x.scanned = old.scanned /\ x.read = snapshot /\ x.state = next
      /\ x.trigger = old.trigger /\ x.changed = old.changed
    BY <1>0, <1>1 DEF Run
<1>5. old.status = "ok" /\ ~old.scanned
    BY <1>1 DEF QuietRuns, Held, Reporting, Scanned, Ended
<1>6. quiet \cap {e, x.parent} # {} => Ready(x, snapshot, seen)
    <2> SUFFICES ASSUME quiet \cap {e, x.parent} # {} PROVE Ready(x, snapshot, seen)
        OBVIOUS
    <2>1. snapshot = Whole(x.head) /\ x.changed = ChangedFiles(x.head)
        BY <1>1, <1>4, <1>5 DEF WorkRuns, Ready, Tasks
    <2>2. next = "MapToControls" => Cut(x, seen)
        BY <1>3, <1>4, <1>5, <2>1 DEF Cut
    <2> QED BY <1>3, <1>4, <2>1, <2>2 DEF Ready, Scanned
<1>7. PICK k : k = x.head
    OBVIOUS
<1>8. x.parent \in quiet =>
          /\ Cut(executions[x.parent], seen)
          /\ x.state \in Selecting => Work(k)'
          /\ x.state \in Chosen /\ x.status = "ok" => x.files # {}
    <2>1. x.parent \in quiet => Cut(executions[x.parent], seen) /\ Work(k)
        BY <1>1, <1>4, <1>7 DEF WorkRuns, Selecting
    <2>2. Work(k) => Work(k)'
        <3>1. \A id \in Unmarked : id \in DOMAIN records' /\ records'[id] = records[id]
            BY <1>2 DEF Unmarked
        <3> QED BY <1>2, <3>1, WorkStays
    <2> QED BY <1>3, <1>4, <2>1, <2>2 DEF Chosen
<1>9. Works(e, x)
    BY <1>1, <1>2, <1>4, <1>6, <1>7, <1>8 DEF Works
<1> QED BY <1>9

\* What a changed file has to do on it is what select_files finds.
LEMMA WorkIsChosen ==
    ASSUME IInv, NEW e \in 1..Len(executions), Work(executions[e].head),
           executions[e].changed = ChangedFiles(executions[e].head),
           snapshot.files = executions[e].head
    PROVE  FilesToDraft(e) # {}
<1> DEFINE k == executions[e].head
<1>1. PICK id \in Unmarked : WorkFile(records[id].file) \in ChangedFiles(k) /\ ToDo(id)
    BY DEF Work
<1>2. id \in OnChanged(e)
    BY <1>1 DEF OnChanged
<1>3. CASE records[id].status = "mapped"
    BY <1>2, <1>3 DEF FilesToDraft, MappedOn
<1>4. CASE IsStale(id)
    <2> DEFINE f == WorkFile(records[id].file)
    <2>1. k \in 1..pushes /\ f \in Snapshotted(k) /\ history[k].content[f] # 0
        BY <1>1, EachRun DEF Within, ChangedFiles, Snapshotted, Kept
    <2>2. ContentOf(f) # 0
        BY <2>1 DEF ContentOf
    <2>3. f \in StaleFiles(OnChanged(e))
        BY <1>2, <1>4, <2>2 DEF StaleFiles
    <2> QED BY <2>3 DEF FilesToDraft
<1> QED BY <1>1, <1>3, <1>4 DEF ToDo

\* ... and the other way round: what the button is offered for is there to do.
LEMMA OfferedIsWork ==
    ASSUME IInv, NEW e \in 1..Len(executions), OffersFixes(e),
           executions[e].changed = ChangedFiles(executions[e].head)
    PROVE  Work(executions[e].head)
<1>1. PICK id \in OnChanged(e) : ToDo(id)
    BY DEF OffersFixes, MappedOn, StaleFiles, ToDo
<1> QED BY <1>1 DEF Work, OnChanged

LEMMA SelectFilesWorks ==
    ASSUME IInv, QuietRuns, WorkRuns, NEW e \in 1..Len(executions), SelectFiles(e)
    PROVE  \E x : Works(e, x)
<1> DEFINE old == executions[e]
           files == FilesToDraft(e)
           next == IF files = {} THEN "Report" ELSE "Remediate"
<1>0. PICK x : x = [old EXCEPT !.files = files, !.left = files, !.state = next]
    OBVIOUS
<1>1. old \in Run /\ old.state = "SelectFiles"
    BY EachRun DEF SelectFiles
<1>2. /\ executions' = [executions EXCEPT ![e] = x]
      /\ UNCHANGED <<history, pushes, quiet, snapshot, records, seen>>
    BY <1>0 DEF SelectFiles, scannerVars
<1>3. next \in {"Report", "Remediate"}
    OBVIOUS
<1> HIDE DEF next, files
<1>4. /\ x.head = old.head /\ x.parent = old.parent /\ x.status = old.status
      /\ x.scanned = old.scanned /\ x.files = files /\ x.state = next
      /\ x.trigger = old.trigger /\ x.changed = old.changed
    BY <1>0, <1>1 DEF Run
<1>5. old.status = "ok"
    BY <1>1 DEF QuietRuns, Held, Reporting, Ended
<1>6. quiet \cap {e, x.parent} # {} => Ready(x, snapshot, seen) /\ old.changed = ChangedFiles(old.head)
    <2> SUFFICES ASSUME quiet \cap {e, x.parent} # {}
                 PROVE  Ready(x, snapshot, seen) /\ old.changed = ChangedFiles(old.head)
        OBVIOUS
    <2>1. old.changed = ChangedFiles(old.head) /\ Cut(old, seen)
        BY <1>1, <1>4, <1>5 DEF WorkRuns, Ready, Tasks, Scanned
    <2>2. Cut(x, seen)
        BY <1>4, <2>1 DEF Cut
    <2> QED BY <1>3, <1>4, <2>1, <2>2 DEF Ready
<1>7. PICK k : k = x.head
    OBVIOUS
<1>8. x.parent \in quiet =>
          /\ Cut(executions[x.parent], seen)
          /\ x.state \in Selecting => Work(k)'
          /\ x.state \in Chosen /\ x.status = "ok" => x.files # {}
    <2>1. x.parent \in quiet => Cut(executions[x.parent], seen) /\ Work(old.head)
        BY <1>1, <1>4 DEF WorkRuns, Selecting
    <2>2. x.parent \in quiet => snapshot.files = old.head
        BY <1>1, <1>4, SnapshotOfHead DEF Reporting, Ended
    <2>3. x.parent \in quiet => files # {}
        BY <1>6, <2>1, <2>2, WorkIsChosen DEF files
    <2> QED BY <1>3, <1>4, <2>1, <2>3 DEF Selecting
<1>9. Works(e, x)
    BY <1>1, <1>2, <1>4, <1>6, <1>7, <1>8 DEF Works
<1> QED BY <1>9

LEMMA SnapshotWorks ==
    ASSUME IInv, QuietRuns, WorkRuns, NEW e \in 1..Len(executions), Snapshot(e)
    PROVE  \E x : Works(e, x)
<1> DEFINE old == executions[e]
           k   == old.head
           st  == FetchStatus(k)
           a   == (Kept(k) = {})
           p   == IF history[k].app THEN TouchedTemplates ELSE {}
           s   == IF history[k].app THEN "Synthesize" ELSE "Scan"
           c   == ChangedFiles(k)
<1>0. PICK x : x = IF st # "ok" THEN [old EXCEPT !.status = st, !.state = "Report"]
                    ELSE [old EXCEPT !.changed = c, !.prefixes = p, !.allowEmpty = a, !.state = s]
    OBVIOUS
<1>1. old \in Run /\ old.state = "Snapshot"
    BY EachRun DEF Snapshot
<1>2. /\ executions' = [executions EXCEPT ![e] = x]
      /\ UNCHANGED <<history, pushes, records, seen>>
      /\ quiet' = (quiet \cap {old.parent}) \cup {e}
    BY <1>0 DEF Snapshot
<1>3. snapshot' = IF st \in {"ok", "too_many"} THEN Fetched(k) ELSE snapshot
    BY DEF Snapshot, Fetched
<1>4. s = (IF history[k].app THEN "Synthesize" ELSE "Scan") /\ c = ChangedFiles(k)
    OBVIOUS
<1> HIDE DEF a, p, s, c, st
<1>5. /\ x.head = k /\ x.parent = old.parent /\ x.scanned = old.scanned
      /\ x.trigger = old.trigger
      /\ st # "ok" => x.status = st /\ x.state = "Report"
      /\ st = "ok" => x.status = old.status /\ x.state = s /\ x.changed = c
    BY <1>0, <1>1 DEF Run
<1>6. Ready(x, snapshot', seen')
    <2>1. CASE st # "ok"
        BY <1>5, <2>1 DEF Ready
    <2>2. CASE st = "ok"
        <3>1. ~history[k].app => Fetched(k) = Whole(k)
            BY DEF Whole, Fetched
        <3> QED BY <1>3, <1>4, <1>5, <2>2, <3>1 DEF Ready, Scanned
    <2> QED BY <2>1, <2>2
<1>7. PICK h : h = x.head
    OBVIOUS
<1>8. x.parent \in quiet' =>
          /\ Cut(executions[x.parent], seen')
          /\ x.state \in Selecting => Work(h)'
          /\ x.state \in Chosen /\ x.status = "ok" => x.files # {}
    <2> SUFFICES ASSUME x.parent \in quiet'
                 PROVE  /\ Cut(executions[x.parent], seen')
                        /\ x.state \in Selecting => Work(h)'
                        /\ x.state \in Chosen /\ x.status = "ok" => x.files # {}
        OBVIOUS
    <2>1. x.parent \in quiet
        <3>1. x.parent < e
            BY <1>5 DEF WorkRuns
        <3>2. old.parent \in Nat
            BY <1>1 DEF Run
        <3>3. e \in Int
            OBVIOUS
        <3>4. old.parent # e
            BY <1>5, <3>1, <3>2, <3>3
        <3> QED BY <1>2, <1>5, <3>4
    <2>2. Cut(executions[x.parent], seen') /\ Work(h)
        BY <1>1, <1>2, <1>5, <1>7, <2>1 DEF WorkRuns, Selecting
    <2>3. snapshot.files = k
        BY <1>1, <1>5, <2>1, SnapshotOfHead DEF Reporting, Ended
    <2>4. snapshot'.files = snapshot.files
        BY <1>3, <2>3 DEF Fetched
    <2>5. Work(h)'
        <3>1. \A id \in Unmarked : id \in DOMAIN records' /\ records'[id] = records[id]
            BY <1>2 DEF Unmarked
        <3> QED BY <1>2, <2>2, <2>4, <3>1, WorkStays
    <2>6. x.state \in Chosen => x.status # "ok"
        BY <1>4, <1>5 DEF Chosen
    <2> QED BY <2>2, <2>5, <2>6
<1>9. Works(e, x)
    BY <1>1, <1>2, <1>5, <1>6, <1>7, <1>8 DEF Works, Reporting, Ended
<1> QED BY <1>9

\* A synthesis ends as those of the commit do.
LEMMA SynthesizeWorks ==
    ASSUME IInv, QuietRuns, WorkRuns, Repeats, NEW e \in 1..Len(executions),
           NEW ok \in BOOLEAN, Synthesize(e, ok)
    PROVE  \E x : Works(e, x)
<1> DEFINE old == executions[e]
<1>0. PICK x : x = [old EXCEPT !.state = "Scan"]
    OBVIOUS
<1>1. old \in Run /\ old.state = "Synthesize" /\ snapshot \in [files : Nat, templates : Nat]
    BY EachRun DEF Synthesize, IInv, PullOK
<1>2. /\ executions' = [executions EXCEPT ![e] = x]
      /\ UNCHANGED <<history, pushes, records, seen>>
      /\ quiet' = quiet \cap {e, old.parent}
    BY <1>0 DEF Synthesize, Goto, Disturbs
<1>3. snapshot' = IF old.head \in Synthesizable THEN [snapshot EXCEPT !.templates = old.head]
                  ELSE snapshot
    <2>1. Synthesize(e, old.head \in Synthesizable)
        BY DomainOfExecutions DEF Repeats
    <2> QED BY <2>1 DEF Synthesize
<1>4. /\ x.head = old.head /\ x.parent = old.parent /\ x.status = old.status
      /\ x.scanned = old.scanned /\ x.state = "Scan"
      /\ x.trigger = old.trigger /\ x.changed = old.changed
    BY <1>0, <1>1 DEF Run
<1>5. old.status = "ok" /\ snapshot'.files = snapshot.files
    BY <1>1, <1>3 DEF QuietRuns, Held, Reporting, Ended
<1>6. quiet' \cap {e, x.parent} # {} => Ready(x, snapshot', seen')
    <2> SUFFICES ASSUME quiet' \cap {e, x.parent} # {} PROVE Ready(x, snapshot', seen')
        OBVIOUS
    <2>1. /\ snapshot = Fetched(x.head) /\ history[x.head].app
          /\ x.changed = ChangedFiles(x.head)
        BY <1>1, <1>2, <1>4, <1>5 DEF WorkRuns, Ready, Tasks
    <2>2. snapshot' = Whole(x.head)
        BY <1>3, <1>4, <2>1 DEF Fetched, Whole
    <2> QED BY <1>4, <2>1, <2>2 DEF Ready, Scanned
<1>7. PICK k : k = x.head
    OBVIOUS
<1>8. x.parent \in quiet' => Cut(executions[x.parent], seen') /\ Work(k)'
    <2>1. x.parent \in quiet' => Cut(executions[x.parent], seen) /\ Work(k)
        BY <1>1, <1>2, <1>4, <1>7 DEF WorkRuns, Selecting
    <2>2. Work(k) => Work(k)'
        <3>1. \A id \in Unmarked : id \in DOMAIN records' /\ records'[id] = records[id]
            BY <1>2 DEF Unmarked
        <3> QED BY <1>2, <1>5, <3>1, WorkStays
    <2> QED BY <1>2, <2>1, <2>2
<1>9. Works(e, x)
    BY <1>1, <1>2, <1>4, <1>6, <1>7, <1>8 DEF Works, Reporting, Ended, Chosen
<1> QED BY <1>9

\* A scan of the commit the button's scan was of finds and keeps the same.
LEMMA WriteFindingsWorks ==
    ASSUME IInv, NamedOK, ScanInv, CarriedOK, QuietRuns, WorkRuns,
           NEW e \in 1..Len(executions), NEW failed, WriteFindings(e, failed)
    PROVE  \E x : Works(e, x)
<1> DEFINE old == executions[e]
           templates == ScannedTemplates(old.read)
           held == {i \in seen : i.file \in Templates /\ templates = {}}
<1>0. PICK x : x = [old EXCEPT !.state = "MapToControls", !.scanned = TRUE,
                               !.errors = ScanErrors(old.read)]
    OBVIOUS
<1>1. old \in Run /\ old.state = "WriteFindings"
    BY EachRun DEF WriteFindings
<1>2. /\ executions' = [executions EXCEPT ![e] = x]
      /\ UNCHANGED <<history, pushes, snapshot>>
      /\ quiet' = quiet \cap {e, old.parent}
      /\ seen' = held \cup Found(old.read)
    BY <1>0 DEF WriteFindings, Disturbs
<1>3. /\ x.head = old.head /\ x.parent = old.parent /\ x.status = old.status
      /\ x.scanned /\ x.state = "MapToControls"
      /\ x.trigger = old.trigger /\ x.changed = old.changed
    BY <1>0, <1>1 DEF Run
<1>4. PICK k : k = x.head
    OBVIOUS
<1>5. old.status = "ok"
    BY <1>1 DEF QuietRuns, Held, Reporting, Ended
<1>6. quiet \cap {e, x.parent} # {} =>
          /\ old.read = Whole(k) /\ Admitted(Whole(k)) # {}
          /\ x.changed = ChangedFiles(k)
    BY <1>1, <1>3, <1>4, <1>5 DEF WorkRuns, Ready, Tasks
<1>7. quiet \cap {e, x.parent} # {} => SeenIs(k, seen')
    BY <1>2, <1>6 DEF SeenIs
<1>8. quiet' \cap {e, x.parent} # {} => Ready(x, snapshot', seen')
    BY <1>2, <1>3, <1>4, <1>6, <1>7 DEF Ready, Cut
<1>9. x.parent \in quiet' =>
          /\ Cut(executions[x.parent], seen')
          /\ x.state \in Selecting => Work(k)'
          /\ x.state \in Chosen /\ x.status = "ok" => x.files # {}
    <2> SUFFICES ASSUME x.parent \in quiet'
                 PROVE  Cut(executions[x.parent], seen') /\ Work(k)'
        BY <1>3 DEF Chosen
    <2>1. x.parent \in quiet /\ x.parent # 0
        BY <1>2 DEF QuietRuns
    <2>2. /\ Cut(executions[x.parent], seen) /\ Work(k)
          /\ executions[x.parent].head = k
        BY <1>1, <1>3, <1>4, <2>1 DEF WorkRuns, QuietRuns, Selecting
    <2>3. SeenIs(k, seen) /\ SeenIs(k, seen')
        BY <1>6, <1>7, <2>1, <2>2 DEF Cut
    <2>4. seen' = seen
        BY <1>2, <1>6, <2>1, <2>3 DEF SeenIs
    <2>5. \A id \in Unmarked : id \in DOMAIN records' /\ records'[id] = records[id]
        BY <2>4, RescanKeeps
    <2>6. Work(k)'
        BY <1>2, <2>2, <2>5, WorkStays
    <2> QED BY <2>2, <2>4, <2>6
<1>10. Works(e, x)
    BY <1>1, <1>2, <1>3, <1>4, <1>8, <1>9 DEF Works, Reporting, Ended
<1> QED BY <1>10

\* What is mapped has something to do on it, and a Draft fixes run goes on to it.
LEMMA MapFindingsWorks ==
    ASSUME IInv, QuietRuns, WorkRuns, NEW e \in 1..Len(executions),
           NEW mapped, NEW yielded, MapFindings(e, mapped, yielded)
    PROVE  \E x : Works(e, x)
<1> DEFINE old == executions[e]
           next == IF MoreToMap(mapped, yielded) THEN "MapToControls"
                   ELSE IF Remediates(e) THEN "SelectFiles" ELSE "Report"
<1>0. PICK x : x = [old EXCEPT !.todo = {}, !.state = next]
    OBVIOUS
<1>1. old \in Run /\ old.state = "Mapping"
    BY EachRun DEF MapFindings
<1>2. /\ executions' = [executions EXCEPT ![e] = x]
      /\ UNCHANGED <<history, pushes, snapshot, seen>>
      /\ quiet' = quiet \cap {e, old.parent}
      /\ records' = [id \in DOMAIN records |->
                       IF id \in mapped THEN [records[id] EXCEPT !.status = "mapped"]
                       ELSE records[id]]
    BY <1>0 DEF MapFindings, Disturbs
<1>3. /\ next \in {"MapToControls", "SelectFiles", "Report"}
      /\ next = "Report" => ~Remediates(e)
    OBVIOUS
<1> HIDE DEF next
<1>4. /\ x.head = old.head /\ x.parent = old.parent /\ x.status = old.status
      /\ x.scanned = old.scanned /\ x.state = next
      /\ x.trigger = old.trigger /\ x.changed = old.changed
    BY <1>0, <1>1 DEF Run
<1>5. old.status = "ok"
    BY <1>1 DEF QuietRuns, Held, Reporting, Ended
<1>6. quiet' \cap {e, x.parent} # {} => Ready(x, snapshot', seen')
    <2> SUFFICES ASSUME quiet \cap {e, x.parent} # {} PROVE Ready(x, snapshot', seen')
        BY <1>2
    <2>1. old.changed = ChangedFiles(old.head) /\ Cut(old, seen)
        BY <1>1, <1>4, <1>5 DEF WorkRuns, Ready, Tasks, Scanned
    <2>2. Cut(x, seen')
        BY <1>2, <1>4, <2>1 DEF Cut
    <2> QED BY <1>3, <1>4, <2>1, <2>2 DEF Ready
<1>7. PICK k : k = x.head
    OBVIOUS
<1>8. Work(k) => Work(k)'
    <2> SUFFICES ASSUME Work(k) PROVE Work(k)'
        OBVIOUS
    <2>1. PICK id \in Unmarked : WorkFile(records[id].file) \in ChangedFiles(k) /\ ToDo(id)
        BY DEF Work
    <2>2. records[id] \in Record /\ id \in DOMAIN records
        BY DEF Unmarked, IInv, RecordsOK
    <2>3. /\ id \in DOMAIN records' /\ records'[id].file = records[id].file
          /\ records'[id].gone = records[id].gone
          /\ records'[id] = records[id] \/ records'[id].status = "mapped"
        BY <1>2, <2>2 DEF Record
    <2>4. id \in Unmarked'
        BY <2>2, <2>3 DEF Unmarked
    <2>5. ChangedFiles(k)' = ChangedFiles(k) /\ \A file : ContentOf(file)' = ContentOf(file)
        BY <1>2 DEF ChangedFiles, ContentOf, Snapshotted, Kept
    <2>6. ToDo(id)'
        BY <2>1, <2>3, <2>5 DEF ToDo, IsStale
    <2>7. WorkFile(records'[id].file) = WorkFile(records[id].file)
        BY <2>3
    <2> QED BY <2>1, <2>4, <2>5, <2>6, <2>7 DEF Work
<1>9. x.parent \in quiet' =>
          /\ Cut(executions[x.parent], seen')
          /\ x.state \in Selecting => Work(k)'
          /\ x.state \in Chosen /\ x.status = "ok" => x.files # {}
    <2> SUFFICES ASSUME x.parent \in quiet, x.parent # 0
                 PROVE  Cut(executions[x.parent], seen) /\ Work(k)' /\ x.state \notin Chosen
        BY <1>2 DEF QuietRuns
    <2>1. Cut(executions[x.parent], seen) /\ Work(k)
        BY <1>1, <1>4, <1>7 DEF WorkRuns, Selecting
    <2>2. Remediates(e)
        BY <1>4 DEF WorkRuns, Remediates, DraftFixes
    <2> QED BY <1>3, <1>4, <1>8, <2>1, <2>2 DEF Chosen
<1>10. Works(e, x)
    BY <1>1, <1>2, <1>4, <1>6, <1>7, <1>9 DEF Works, Reporting, Ended
<1> QED BY <1>10

LEMMA RemediateWorks ==
    ASSUME IInv, QuietRuns, WorkRuns, NEW e \in 1..Len(executions), NEW file, NEW outcome,
           RemediateFile(e, file, outcome)
    PROVE  \E x : Works(e, x)
<1> DEFINE old == executions[e]
           next == IF old.left = {file} THEN "Report" ELSE old.state
<1>0. PICK x : x = [old EXCEPT !.left = @ \ {file}, !.state = next]
    OBVIOUS
<1>1. old \in Run /\ old.state = "Remediate"
    BY EachRun DEF RemediateFile
<1>2. /\ executions' = [executions EXCEPT ![e] = x]
      /\ UNCHANGED <<history, pushes, snapshot, seen>>
      /\ quiet' = quiet \cap {e, old.parent}
    BY <1>0 DEF RemediateFile, Disturbs
<1>3. next \in {"Report", "Remediate"}
    BY <1>1
<1> HIDE DEF next
<1>4. /\ x.head = old.head /\ x.parent = old.parent /\ x.status = old.status
      /\ x.scanned = old.scanned /\ x.files = old.files /\ x.state = next
      /\ x.trigger = old.trigger /\ x.changed = old.changed
    BY <1>0, <1>1 DEF Run
<1>5. old.status = "ok"
    BY <1>1 DEF QuietRuns, Held, Reporting, Ended
<1>6. quiet' \cap {e, x.parent} # {} => Ready(x, snapshot', seen')
    <2> SUFFICES ASSUME quiet \cap {e, x.parent} # {} PROVE Ready(x, snapshot', seen')
        BY <1>2
    <2>1. old.changed = ChangedFiles(old.head) /\ Cut(old, seen)
        BY <1>1, <1>4, <1>5 DEF WorkRuns, Ready, Tasks, Scanned
    <2>2. Cut(x, seen')
        BY <1>2, <1>4, <2>1 DEF Cut
    <2> QED BY <1>3, <1>4, <2>1, <2>2 DEF Ready
<1>7. x.parent \in quiet' =>
          /\ Cut(executions[x.parent], seen')
          /\ x.state \notin Selecting
          /\ x.state \in Chosen /\ x.status = "ok" => x.files # {}
    BY <1>1, <1>2, <1>3, <1>4, <1>5 DEF WorkRuns, Selecting, Chosen
<1>8. Works(e, x)
    BY <1>1, <1>2, <1>4, <1>6, <1>7 DEF Works, Reporting, Ended
<1> QED BY <1>8

LEMMA StepWorks ==
    ASSUME IInv, NamedOK, ScanInv, CarriedOK, QuietRuns, WorkRuns, Repeats,
           NEW e \in 1..Len(executions),
           ExecutionStep(e) \/ ((Fails(e) \/ Retried(e)) /\ UNCHANGED othersVars)
    PROVE  \E x : Works(e, x)
<1>1. CASE \/ OpenCheckRun(e) \/ Complete(e) \/ MapToControls(e)
           \/ \E failed : ScannerError(e, failed) /\ UNCHANGED gatewayVars
           \/ \E shown : PostSuggestions(e, shown)
           \/ RecordOffer(e) \/ ((Fails(e) \/ Retried(e)) /\ UNCHANGED othersVars)
    BY <1>1, FollowOnWorks
<1>2. CASE Scan(e) \/ SelectFiles(e) \/ Snapshot(e) \/ \E ok \in BOOLEAN : Synthesize(e, ok)
    BY <1>2, ScanWorks, SelectFilesWorks, SnapshotWorks, SynthesizeWorks
<1>3. CASE \/ \E failed : WriteFindings(e, failed)
           \/ \E mapped, yielded : MapFindings(e, mapped, yielded)
           \/ \E file, outcome : RemediateFile(e, file, outcome)
    BY <1>3, WriteFindingsWorks, MapFindingsWorks, RemediateWorks
<1> QED BY <1>1, <1>2, <1>3 DEF ExecutionStep

LEMMA StepWorksOn ==
    ASSUME IInv, OneExecutionEach, NamedOK, ScanInv, CarriedOK, QuietInv, QuietInv', WorkInv,
           Repeats, NEW e \in 1..Len(executions),
           ExecutionStep(e) \/ ((Fails(e) \/ Retried(e)) /\ UNCHANGED othersVars)
    PROVE  WorkInv'
<1> DEFINE n == Len(executions)
           old == executions[e]
<1>1. PICK x : Works(e, x)
    BY StepWorks DEF QuietInv, WorkInv
<1>2. WorkRuns'
    BY <1>1, WorksOn DEF QuietInv, WorkInv
<1>3. /\ Len(executions') = n
      /\ \A d \in 1..n : executions'[d] = IF d = e THEN x ELSE executions[d]
      /\ \A d \in 1..n : /\ executions'[d].head = executions[d].head
                         /\ executions'[d].parent = executions[d].parent
      /\ UNCHANGED <<history, pushes>>
    BY <1>1 DEF Works, IInv, ExecutionsOK
<1>4. \A y, found : Cut(y, found)' = Cut(y, found)
    BY <1>3, CommitStays
<1>5. ASSUME NEW p \in 1..n, executions[p].state \in Reporting
      PROVE  \A found : Cut(executions'[p], found) <=> Cut(executions[p], found)
    <2>1. executions'[p].scanned = executions[p].scanned
        BY <1>1, <1>3, <1>5 DEF Works
    <2> QED BY <1>3, <2>1 DEF Cut
<1>6. \A p : Childless(p)' => Childless(p)
    BY <1>3 DEF Childless
<1>7. ASSUME NEW k, Work(k), UNCHANGED <<snapshot, records, seen>> PROVE Work(k)'
    <2>1. \A id \in Unmarked : id \in DOMAIN records' /\ records'[id] = records[id]
        BY <1>7 DEF Unmarked
    <2> QED BY <1>3, <1>7, <2>1, WorkStays
<1>8. ASSUME NEW c \in DOMAIN checkRuns', NEW p, p = checkRuns'[c].execution, p \in quiet',
             NEW k, k = executions'[p].head
      PROVE  /\ checkRuns'[c].says = "findings" => Cut(executions'[p], seen')
             /\ checkRuns'[c].button /\ Childless(p)' => Work(k)'
    <2> DEFINE r == checkRuns'[c]
    <2>1. CASE c \in DOMAIN checkRuns /\ r = checkRuns[c]
        <3>1. c \in 1..Len(checkRuns) /\ p \in 1..n /\ k = executions[p].head
            BY <1>3, <1>8, <2>1, DomainOfExecutions DEF IInv, ChecksOK
        <3>2. r.button => r.says = "findings"
            BY <2>1, <3>1 DEF QuietInv, QuietChecks
        <3> SUFFICES ASSUME r.says = "findings"
                     PROVE  /\ Cut(executions'[p], seen')
                            /\ r.button /\ Childless(p)' => Work(k)'
            BY <3>2
        <3>3. executions[p].state \in Reporting
            BY <1>8, <2>1, <3>1 DEF IInv, ChecksOK
        <3>4. CASE quiet' \subseteq quiet /\ UNCHANGED <<snapshot, records, seen>>
            <4>1. /\ Cut(executions[p], seen)
                  /\ r.button /\ Childless(p) => Work(k)
                BY <1>8, <2>1, <3>1, <3>4 DEF WorkInv, WorkChecks
            <4> QED BY <1>5, <1>6, <1>7, <3>1, <3>3, <3>4, <4>1
        <3>5. CASE /\ old.state \notin Reporting
                   /\ quiet' \subseteq (quiet \cap {x.parent}) \cup {e}
            <4>1. p = x.parent /\ p \in quiet'
                BY <1>8, <3>3, <3>5
            <4>2. Cut(executions[p], seen')
                BY <1>1, <4>1 DEF Works
            <4>3. ~Childless(p)'
                BY <1>1, <1>3, <4>1 DEF Childless
            <4> QED BY <1>5, <3>1, <3>3, <4>2, <4>3
        <3> QED BY <1>1, <3>4, <3>5 DEF Works
    <2>2. CASE r.says # "findings" /\ ~r.button
        BY <2>2
    <2>3. CASE /\ old.state = "Complete" /\ old.status = "ok" /\ r.execution = e
               /\ r.button <=> OffersFixes(e)
        <3>1. old.state \in Reporting /\ p = e
            BY <1>8, <2>3 DEF Reporting
        <3>2. quiet' \subseteq quiet /\ UNCHANGED <<snapshot, records, seen>>
            BY <1>1, <3>1 DEF Works
        <3>3. old.changed = ChangedFiles(old.head) /\ Cut(old, seen)
            BY <1>8, <2>3, <3>1, <3>2 DEF WorkInv, WorkRuns, Ready, Tasks, Scanned
        <3>4. r.button => Work(k)
            BY <1>3, <1>8, <2>3, <3>1, <3>3, OfferedIsWork
        <3> QED BY <1>5, <1>7, <3>1, <3>2, <3>3, <3>4
    <2> QED BY <2>1, <2>2, <2>3, ToldByStep
<1>9. WorkChecks'
    <2>1. IInv'
        BY StepKeeps
    <2>2. \A c \in 1..Len(checkRuns') : c \in DOMAIN checkRuns'
        BY <2>1 DEF IInv, ChecksOK
    <2> QED BY <1>4, <1>8, <2>2 DEF WorkChecks
<1> QED BY <1>2, <1>9 DEF WorkInv

\* A button starts one execution, and there is still to do what it was offered for.
LEMMA StartWorks ==
    ASSUME IInv, QuietInv, WorkInv, NEW head \in 1..pushes, NEW trigger \in Trigger,
           NEW parent \in 0..Len(executions), Start(head, trigger, parent), UNCHANGED othersVars,
           parent # 0 => trigger = DraftFixes,
           parent \in quiet => Cut(executions[parent], seen) /\ Work(head)
    PROVE  WorkInv'
<1> DEFINE n == Len(executions)
<1>0. PICK new : new = NewExecution(head, trigger, parent)
    OBVIOUS
<1>1. /\ executions' = Append(executions, new)
      /\ UNCHANGED <<history, pushes, quiet, snapshot, records, seen, checkRuns>>
    BY <1>0 DEF Start, othersVars, scannerVars, gatewayVars
<1>2. /\ new.head = head /\ new.parent = parent /\ new.state = "Fetch" /\ new.status = "ok"
      /\ new.trigger = trigger
    BY <1>0 DEF NewExecution
<1>3. /\ n \in Nat /\ Len(executions') = n + 1 /\ executions'[n + 1] = new
      /\ \A d \in 1..n : executions'[d] = executions[d]
    BY <1>1 DEF IInv, ExecutionsOK
<1>4. \A d \in 1..(n + 1) : d \in 1..n \/ d = n + 1
    BY <1>3
<1>5. quiet \subseteq 1..n /\ n + 1 \notin 1..n
    BY <1>3 DEF QuietInv, QuietRuns
<1>6. /\ \A y, snap, found : Ready(y, snap, found)' = Ready(y, snap, found)
      /\ \A y, found : Cut(y, found)' = Cut(y, found)
    BY <1>1, CommitStays
<1>7. ASSUME NEW k, Work(k) PROVE Work(k)'
    <2>1. \A id \in Unmarked : id \in DOMAIN records' /\ records'[id] = records[id]
        BY <1>1 DEF Unmarked
    <2> QED BY <1>1, <1>7, <2>1, WorkStays
<1>8. ASSUME NEW d \in 1..(n + 1), NEW k, k = executions'[d].head
      PROVE  LET y == executions'[d]
             IN /\ y.parent < d /\ (y.parent # 0 => y.trigger = DraftFixes)
                /\ quiet \cap {d, y.parent} # {} => Ready(y, snapshot, seen)
                /\ y.parent \in quiet =>
                      /\ Cut(executions'[y.parent], seen)
                      /\ y.state \in Selecting => Work(k)'
                      /\ y.state \in Chosen /\ y.status = "ok" => y.files # {}
    <2>1. CASE d \in 1..n
        <3>1. executions'[d] = executions[d]
            BY <1>3, <2>1
        <3>2. executions[d].parent \in quiet =>
                executions'[executions[d].parent] = executions[executions[d].parent]
            BY <1>3, <1>5
        <3> QED BY <1>7, <1>8, <2>1, <3>1, <3>2 DEF WorkInv, WorkRuns
    <2>2. CASE d = n + 1
        <3>1. parent \in quiet => executions'[parent] = executions[parent]
            BY <1>3, <1>5
        <3>2. Ready(new, snapshot, seen)
            BY <1>2 DEF Ready, Tasks, Scanned
        <3> QED BY <1>2, <1>3, <1>5, <1>7, <1>8, <2>2, <3>1, <3>2 DEF Chosen
    <2> QED BY <1>4, <2>1, <2>2
<1>9. WorkRuns'
    BY <1>1, <1>3, <1>6, <1>8 DEF WorkRuns
<1>10. WorkChecks'
    <2>1. \A c \in 1..Len(checkRuns) :
             /\ checkRuns[c].execution \in 1..n
             /\ executions'[checkRuns[c].execution] = executions[checkRuns[c].execution]
        BY <1>3 DEF IInv, ChecksOK
    <2>2. \A p : Childless(p)' => Childless(p)
        BY <1>3, <1>4 DEF Childless
    <2>3. ASSUME NEW c \in 1..Len(checkRuns), NEW p, p = checkRuns[c].execution, p \in quiet,
                 NEW k, k = executions[p].head
          PROVE  /\ checkRuns[c].says = "findings" => Cut(executions[p], seen)
                 /\ checkRuns[c].button /\ Childless(p)' => Work(k)'
        BY <1>7, <2>2, <2>3 DEF WorkInv, WorkChecks
    <2> QED BY <1>1, <1>6, <2>1, <2>3 DEF WorkChecks
<1> QED BY <1>9, <1>10 DEF WorkInv

LEMMA StartsWork ==
    ASSUME IInv, QuietInv, WorkInv,
           \/ \E k \in 1..pushes : PullRequestEvent(k)
           \/ \E c \in DOMAIN checkRuns :
                 ClickDraftFixes(c) \/ \E d \in Deliveries : ClickRerun(c, d)
    PROVE  WorkInv'
<1>1. Push \in Trigger /\ DraftFixes \in Trigger /\ \A d \in Deliveries : Rerun(d) \in Trigger
    BY DEF Push, DraftFixes, Rerun, Trigger
<1>2. 0 \in 0..Len(executions) /\ 0 \notin quiet
    BY DEF IInv, ExecutionsOK, QuietInv, QuietRuns
<1>3. \A c \in DOMAIN checkRuns : LET p == checkRuns[c].execution
                                  IN p \in 1..Len(executions) /\ p \in 0..Len(executions)
                                     /\ executions[p].head \in 1..pushes
    BY DomainOfExecutions, EachRun DEF IInv, ChecksOK, Within
<1>4. ASSUME NEW k \in 1..pushes, PullRequestEvent(k) PROVE WorkInv'
    BY <1>1, <1>2, <1>4, StartWorks DEF PullRequestEvent
<1>5. ASSUME NEW c \in DOMAIN checkRuns, ClickDraftFixes(c) PROVE WorkInv'
    <2> DEFINE p == checkRuns[c].execution
               head == executions[p].head
    <2>1. c \in 1..Len(checkRuns) /\ checkRuns[c].button /\ checkRuns[c].says = "findings"
        BY <1>5, DomainOfExecutions DEF ClickDraftFixes, QuietInv, QuietChecks
    <2>2. Childless(p)
        <3> SUFFICES ASSUME NEW e \in 1..Len(executions), executions[e].parent = p PROVE FALSE
            BY DEF Childless
        <3>1. executions[e].parent # 0
            BY <1>3
        <3>2. executions[e].head = head /\ executions[e].trigger = DraftFixes
            BY <3>1 DEF QuietInv, QuietRuns, WorkInv, WorkRuns
        <3> QED BY <1>5, <3>2, DomainOfExecutions DEF ClickDraftFixes, Start, NameOf
    <2>3. p \in quiet => Cut(executions[p], seen) /\ Work(head)
        BY <2>1, <2>2 DEF WorkInv, WorkChecks
    <2>4. Start(head, DraftFixes, p) /\ UNCHANGED othersVars
        BY <1>5 DEF ClickDraftFixes
    <2>5. head \in 1..pushes /\ p \in 0..Len(executions)
        BY <1>3
    <2> HIDE DEF head, p
    <2> QED BY <1>1, <2>3, <2>4, <2>5, StartWorks
<1>6. ASSUME NEW c \in DOMAIN checkRuns, NEW d \in Deliveries, ClickRerun(c, d) PROVE WorkInv'
    BY <1>1, <1>2, <1>3, <1>6, StartWorks DEF ClickRerun
<1> QED BY <1>4, <1>5, <1>6

\* A step that nobody works in.
LEMMA WorkUnmoved ==
    ASSUME UNCHANGED <<history, pushes, executions, quiet, snapshot, records, seen>>
    PROVE  /\ WorkRuns => WorkRuns'
           /\ \A p : Childless(p)' = Childless(p)
           /\ \A k : Work(k)' = Work(k)
<1>1. \A p : Childless(p)' = Childless(p)
    BY DEF Childless
<1>2. \A k : Work(k)' = Work(k)
    BY DEF Work, ToDo, IsStale, ContentOf, ChangedFiles, Snapshotted, Kept, Unmarked
<1>3. /\ \A y, snap, found : Ready(y, snap, found)' = Ready(y, snap, found)
      /\ \A y, found : Cut(y, found)' = Cut(y, found)
    BY CommitStays
<1>4. WorkRuns => WorkRuns'
    <2> SUFFICES ASSUME WorkRuns PROVE WorkRuns'
        OBVIOUS
    <2> QED BY <1>2, <1>3 DEF WorkRuns
<1> QED BY <1>1, <1>2, <1>4

\* A failure that is delivered says nothing of what was found.
LEMMA FailedWorks ==
    ASSUME IInv, QuietInv, WorkInv, NEW e \in DOMAIN executions, OnExecutionFailed(e)
    PROVE  WorkInv'
<1>1. UNCHANGED <<history, pushes, executions, quiet, snapshot, records, seen>>
    BY DEF OnExecutionFailed, executionVars, scannerVars
<1>2. WorkRuns' /\ (\A p : Childless(p)' = Childless(p)) /\ \A k : Work(k)' = Work(k)
    BY <1>1, WorkUnmoved DEF WorkInv
<1>3. \A y, found : Cut(y, found)' = Cut(y, found)
    BY <1>1, CommitStays
<1>4. \A c \in 1..Len(checkRuns') : c \in DOMAIN checkRuns'
    <2>1. IInv'
        BY DomainOfExecutions, FailedKeeps
    <2> QED BY <2>1 DEF IInv, ChecksOK
<1>5. \A c \in DOMAIN checkRuns : c \in 1..Len(checkRuns)
    BY DomainOfExecutions
<1>6. WorkChecks'
    BY <1>1, <1>2, <1>3, <1>4, <1>5, ToldByFailure DEF WorkInv, WorkChecks
<1> QED BY <1>2, <1>6 DEF WorkInv

LEMMA PushWorks ==
    ASSUME WorkInv, PushCommit
    PROVE  WorkInv'
<1>1. quiet' = {} /\ UNCHANGED <<executions, checkRuns>>
    BY DEF PushCommit, othersVars, gatewayVars
<1> QED BY <1>1 DEF WorkInv, WorkRuns, WorkChecks

\* What the first scan found in a changed file, and mapped, is to be drafted.
LEMMA InitWorks ==
    ASSUME FlowInit, executions # <<>> => 1 \in Synthesizable
    PROVE  WorkInv
<1>1. CASE Opened
    BY <1>1 DEF Opened, WorkInv, WorkRuns, WorkChecks
<1>2. ASSUME NEW drafted \in BOOLEAN, ScannedOnce(drafted) PROVE WorkInv
    <2> DEFINE k     == IF history[1].app THEN 1 ELSE 0
               found == On(1, Files \ Templates) \cup On(k, Templates)
               unparsed == ScanErrors([files |-> 1, templates |-> k])
               ended(trigger, parent, check) ==
                 [NewExecution(1, trigger, parent) EXCEPT !.state = "Succeeded", !.check = check,
                    !.scanned = TRUE, !.allowEmpty = (Kept(1) = {})]
               said(e, button) == [Completed(NewCheckRun(e), "findings", button)
                                     EXCEPT !.unparsed = unparsed]
    <2>1. PullOK /\ pushes = 1 /\ IInv
        BY InitOK DEF FlowInit, IInv
    <2>2. seen = found
        BY <1>2 DEF ScannedOnce
    <2>3. executions = (IF drafted THEN <<ended(Push, 0, 1), ended(DraftFixes, 1, 2)>>
                        ELSE <<ended(Push, 0, 1)>>)
        BY <1>2 DEF ScannedOnce
    <2>4. checkRuns = (IF drafted THEN <<said(1, TRUE), said(2, FALSE)>> ELSE <<said(1, TRUE)>>)
        BY <1>2 DEF ScannedOnce
    <2>5. \A trigger, parent, check :
             LET x == ended(trigger, parent, check)
             IN /\ x.head = 1 /\ x.parent = parent /\ x.state = "Succeeded" /\ x.scanned
                /\ x.trigger = trigger
        BY DEF NewExecution
    <2>6. \A e, button : LET c == said(e, button)
                         IN c.execution = e /\ c.button = button
        BY DEF Completed, NewCheckRun
    <2>7. SeenIs(1, seen)
        <3>1. executions # <<>>
            <4> HIDE DEF ended
            <4> QED BY <2>3
        <3>2. Found(Whole(1)) = found
            BY <3>1 DEF Found, Whole
        <3> QED BY <2>2, <3>2 DEF SeenIs
    <2>8. ~drafted => Work(1)
        <3> SUFFICES ASSUME ~drafted PROVE Work(1)
            OBVIOUS
        <3> DEFINE new(id) == New(Deduplicate(found)[id])
                   worked(id) == [new(id) EXCEPT !.status = "mapped", !.base = 0]
        <3>1. PICK id \in DOMAIN records : records[id].status # "raw"
            BY <1>2 DEF ScannedOnce
        <3>2. records = [j \in {Id(i) : i \in found} |->
                  IF Candidates(j) # {} /\ WorkFile(j.file) \in history[1].changed
                  THEN worked(j) ELSE new(j)]
            BY <1>2 DEF ScannedOnce
        <3>3. \A j : /\ new(j).status = "raw" /\ worked(j).status = "mapped" /\ ~worked(j).gone
                     /\ worked(j).file = Deduplicate(found)[j].file
            BY DEF New
        <3>4. PICK i \in found : Id(i) = id
            BY <3>1, <3>2
        <3>5. Deduplicate(found)[id].file = i.file
            <4>1. \E d \in found : Id(d) = id /\ Deduplicate(found)[id] = d
                BY <3>4 DEF Deduplicate
            <4> QED BY <3>4, <4>1 DEF Id
        <3> HIDE DEF new, worked
        <3>6. records[id] = worked(id) /\ WorkFile(i.file) \in history[1].changed
            <4>1. id \in {Id(m) : m \in found} /\ id.file = i.file
                BY <3>4 DEF Id
            <4> QED BY <3>1, <3>2, <3>3, <4>1
        <3>7. records[id].file = i.file /\ records[id].status = "mapped" /\ id \in Unmarked
            BY <3>1, <3>3, <3>5, <3>6 DEF Unmarked
        <3>8. /\ i \in history[1].instances /\ i.file \in Files
              /\ i.file \in Templates => history[1].app
            <4>1. history[1] \in Commit
                BY <2>1, EachCommit
            <4> QED BY <3>4, <4>1, ExecutionsAssumption DEF On, Commit
        <3>9. /\ history[1].content[i.file] # 0 /\ i.file \notin Sources
              /\ i.file \in Templates => history[1].content[Origin[i.file]] # 0
            BY <2>1, <3>8, ScannerAssumption, ExecutionsAssumption DEF PullOK
        <3>10. WorkFile(i.file) \in Snapshotted(1)
            <4>1. CASE i.file \in Templates
                <5>1. Origin[i.file] \in Sources
                    BY <4>1 DEF Sources
                <5> QED BY <3>8, <3>9, <4>1, <5>1 DEF WorkFile, Snapshotted
            <4>2. CASE i.file \notin Templates
                BY <3>8, <3>9, <4>2 DEF WorkFile, Snapshotted, Kept
            <4> QED BY <4>1, <4>2
        <3> QED BY <2>1, <3>6, <3>7, <3>10 DEF Work, ToDo, ChangedFiles
    <2> HIDE DEF ended, said, unparsed
    <2>9. /\ Len(executions) = IF drafted THEN 2 ELSE 1
          /\ \A e \in 1..Len(executions) :
                /\ executions[e].head = 1 /\ executions[e].state = "Succeeded"
                /\ executions[e].scanned /\ executions[e].parent = e - 1
                /\ executions[e].parent # 0 => executions[e].trigger = DraftFixes
        BY <2>3, <2>5
    <2>10. \A c \in 1..Len(checkRuns) :
              /\ checkRuns[c].execution \in 1..Len(executions)
              /\ checkRuns[c].button => checkRuns[c].execution = 1
        <3> DEFINE c1 == said(1, TRUE)
                   c2 == said(2, FALSE)
        <3>1. checkRuns = IF drafted THEN <<c1, c2>> ELSE <<c1>>
            BY <2>4
        <3>2. c1.execution = 1 /\ c2.execution = 2 /\ ~c2.button
            BY <2>6
        <3> HIDE DEF c1, c2
        <3>3. CASE drafted
            BY <2>9, <3>1, <3>2, <3>3
        <3>4. CASE ~drafted
            BY <2>9, <3>1, <3>2, <3>4
        <3> QED BY <3>3, <3>4
    <2>11. \A e \in 1..Len(executions) : Cut(executions[e], seen) /\ Ready(executions[e], snapshot, seen)
        BY <2>7, <2>9 DEF Cut, Ready, Tasks, Scanned
    <2>12. WorkRuns
        <3>1. \A e \in 1..Len(executions) : executions[e].parent \in quiet =>
                 executions[e].parent \in 1..Len(executions)
            <4>1. quiet \subseteq 1..Len(executions)
                BY InitQuiet DEF QuietInv, QuietRuns
            <4> QED BY <4>1
        <3>2. \A e \in 1..Len(executions) : executions[e].parent < e
            BY <2>9
        <3> QED BY <2>9, <2>11, <3>1, <3>2 DEF WorkRuns, Selecting, Chosen
    <2>13. WorkChecks
        <3>1. drafted => ~Childless(1)
            BY <2>9 DEF Childless
        <3> QED BY <2>8, <2>9, <2>10, <2>11, <3>1 DEF WorkChecks
    <2> QED BY <2>12, <2>13 DEF WorkInv
<1> QED BY <1>1, <1>2 DEF FlowInit

\* ButtonHasWork is an invariant where the syntheses of one commit end alike, the
\* first state's included: a Draft fixes run has something to draft, unless somebody
\* else worked on the pull request between its button and its fetch, scan and mapping
\* (report, select_files).
THEOREM ButtonsHaveWork == FlowSpec /\ SynthesisRepeats => []ButtonHasWork
<1> DEFINE Known == /\ IInv /\ OneExecutionEach /\ ScopeInv /\ ScanInv /\ CarriedOK /\ QuietInv
<1>1. Known /\ Known' /\ WorkInv /\ [FlowNext]_flowVars /\ [Repeats]_flowVars => WorkInv'
    <2> SUFFICES ASSUME Known, QuietInv', WorkInv, [FlowNext]_flowVars, [Repeats]_flowVars
                 PROVE  WorkInv'
        OBVIOUS
    <2>1. CASE UNCHANGED flowVars
        <3>1. UNCHANGED <<history, pushes, executions, quiet, snapshot, records, seen, checkRuns>>
            BY <2>1 DEF flowVars, executionVars, scannerVars, gatewayVars
        <3>2. WorkRuns' /\ (\A p : Childless(p)' = Childless(p)) /\ \A k : Work(k)' = Work(k)
            BY <3>1, WorkUnmoved DEF WorkInv
        <3>3. \A y, found : Cut(y, found)' = Cut(y, found)
            BY <3>1, CommitStays
        <3> QED BY <3>1, <3>2, <3>3 DEF WorkInv, WorkChecks
    <2>2. CASE FlowNext /\ Repeats
        <3>1. ASSUME NEW e \in DOMAIN executions,
                     ExecutionStep(e) \/ ((Fails(e) \/ Retried(e)) /\ UNCHANGED othersVars)
              PROVE  WorkInv'
            BY <2>2, <3>1, StepWorksOn, DomainOfExecutions DEF ScopeInv
        <3>2. ASSUME NEW e \in DOMAIN executions, OnExecutionFailed(e) PROVE WorkInv'
            BY <3>2, FailedWorks
        <3> QED BY <2>2, <3>1, <3>2, StepsOfFlow, PushWorks, StartsWork
    <2> QED BY <2>1, <2>2
<1>2. FlowInit /\ (executions # <<>> => 1 \in Synthesizable) => WorkInv
    BY InitWorks
<1>3. Known /\ WorkInv => ButtonHasWork
    BY DomainOfExecutions DEF WorkInv, WorkRuns, ButtonHasWork, Chosen
<1>4. FlowSpec => []Known
    BY FlowInvariant, OneExecutionPerName, ScopesHold, ScanHolds, CarriedHolds, QuietHolds, PTL
<1> HIDE DEF Known
<1> QED BY <1>1, <1>2, <1>3, <1>4, PTL DEF FlowSpec, SynthesisRepeats

=============================================================================
