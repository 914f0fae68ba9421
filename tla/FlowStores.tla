----------------------------- MODULE FlowStores -----------------------------
(***************************************************************************)
(* The conditional writes the handlers make to a pull request's findings   *)
(* and commit requests, as the RecordStore port performs them: on          *)
(* DynamoDB, and in memory.  The findings are those of Flow's table.       *)
(***************************************************************************)
EXTENDS Flow, DynamoStore

None == NoItem

\* An item with one attribute more, and one with that attribute alone.
With(item, a, value) == [x \in DOMAIN item \cup {a} |-> IF x = a THEN value ELSE item[x]]
One(a, value) == With(None, a, Plain(value))

Key == [pk |-> Plain("PR"), sk |-> Plain("item")]

\* A commit request's item, and a finding's: of its attributes those that a
\* handler's condition or path is about; fixed says whether it has a fix, or the
\* null the scanner writes.
Request(status) == With(Key, "status", Plain(status))

ProposedFix(fixed) == IF fixed THEN Map([base_sha256 |-> "base"]) ELSE Plain("null")

Finding(status, fixed, gone) ==
    LET found == With(With(Request(status), "line_range", Plain(1)),
                      "proposed_fix", ProposedFix(fixed))
    IN IF gone THEN With(found, "no_longer_detected", Plain("then")) ELSE found

Findings == {Finding(status, fixed, gone) :
                status \in Statuses, fixed \in BOOLEAN, gone \in BOOLEAN}
Requests == {Request(status) : status \in {"requested", "committing", "committed"}}

ItemOf(id) == Finding(records[id].status, records[id].base # 0, records[id].gone)

----------------------------------------------------------------------------
(* The writes, each with its condition: what the port's guarantees G1 to G8 *)
(* are about (docs/portable-runtime-spec.md)                                *)

Write(update, condition) == [update |-> update, condition |-> condition]

\* G1, _write_findings on what fires.
Rescanned == Write(
    Update(One("line_range", 2), None,
           With(One("status", "raw"), "proposed_fix", Plain("null")), {"no_longer_detected"}),
    Always)

\* G2, _write_findings on what no longer does.
MarkedGone == Write(Update(One("no_longer_detected", "now"), None, None, {}),
                    Missing("no_longer_detected"))

\* G3, _reopen_stale.
Reopened(status) == Write(
    Update(One("status", "mapped"), [p \in {<<"proposed_fix", "stale_reason">>} |-> "changed"],
           None, {}),
    StatusIn({status}))

\* The mapping agent's and the remediation agent's results are unconditional.
MappedTo == Write(Update(With(One("status", "mapped"), "control_mappings", Plain("control")), None, None,
                         {"unmapped_reason"}), Always)

\* G7, a click's approval.
Resolved == Write(Update(One("status", "resolved"), None, None, {}),
                  StatusIn({"fix-proposed", "resolved"}))

\* G8, record_commit.
RecordedCommit == Write(
    Update(None, [p \in {<<"proposed_fix", "committed">>} |-> "sha"], None, {}),
    Exists("proposed_fix"))

\* G5, the committer's claim, and G6, its ending and the backstop's.
Claimed == Write(Update(One("status", "committing"), None, None, {}), StatusIn({"requested"}))
Finished == Write(Update(One("status", "committed"), None, None, {}), StatusIn({"committing"}))
Backstopped == Write(Update(One("status", "failed"), None, None, {}),
                     AbsentOr(StatusIn({"requested", "committing"})))

Writes == {Rescanned, MarkedGone, MappedTo, Resolved, RecordedCommit, Claimed, Finished, Backstopped}
            \cup {Reopened(status) : status \in {"fix-proposed", "resolved"}}

\* The items on which the two stores do alike whatever a handler writes.
Alike == {item \in Findings \cup Requests \cup {NoItem} :
    /\ \A w \in Writes : DynamoUpdate(item, Key, w.update, w.condition)
                            = MemoryUpdate(item, Key, w.update, w.condition)
    /\ DynamoPut(item, Request("requested"), TRUE) = MemoryPut(item, Request("requested"), TRUE)}

\* Whatever a handler writes to whatever is in the table, DynamoDB and the store
\* in memory accept and refuse it alike and leave the same item, so that the
\* guarantees tested on one hold on the other (RecordStore.update and put; G1 to
\* G8 of the conformance suite).
StoresAgree == {ItemOf(id) : id \in DOMAIN records} \cup Requests \cup {NoItem} \subseteq Alike

=============================================================================
