---------------------------- MODULE RecordStore ----------------------------
(***************************************************************************)
(* The RecordStore port (core/cascadesec_core/records.py) and its          *)
(* reference store, the one in memory (core/cascadesec_core/memory.py):    *)
(* what a conditional write of one item comes to.  An item is a function   *)
(* from its attributes to their values, and no item is the one without     *)
(* attributes. No handler goes through the port yet: their expressions are *)
(* those the adapter of DynamoStore writes.                                *)
(***************************************************************************)
EXTENDS Integers, FiniteSets

KeyAttributes == {"pk", "sk"}

NoItem == [a \in {} |-> a]

\* A value is a map, or anything else that has no fields.
Map(fields) == [kind |-> "map", value |-> "", fields |-> fields]
Plain(value) == [kind |-> "plain", value |-> value, fields |-> NoItem]

\* What every store keeps of its items: those there are have a key.
HasKey(item) == item = NoItem \/ KeyAttributes \subseteq DOMAIN item

\* What came of a write, and the item that is there after it.
Ok(item) == [result |-> "ok", item |-> item]
Conflict(item) == [result |-> "conflict", item |-> item]
PathError(item) == [result |-> "path", item |-> item]

----------------------------------------------------------------------------
(* Conditions.  StatusIs is StatusIn of one. *)

\* absentOr wraps the condition in AbsentOr.
If(op, attribute, statuses) ==
    [op |-> op, attribute |-> attribute, statuses |-> statuses, absentOr |-> FALSE]

Always == If("always", "", {})
StatusIn(statuses) == If("StatusIn", "status", statuses)
Exists(attribute) == If("Exists", attribute, {})
Missing(attribute) == If("Missing", attribute, {})
Absent == If("Absent", "", {})
AbsentOr(condition) == [condition EXCEPT !.absentOr = TRUE]

\* item.get("status") in values: an item without a status has none of them.
HasStatus(item, statuses) ==
    "status" \in DOMAIN item /\ item["status"].value \in statuses

Inner(c, item) ==
    \/ c.op = "always"
    \/ c.op = "StatusIn" /\ item # NoItem /\ HasStatus(item, c.statuses)
    \/ c.op = "Exists"   /\ item # NoItem /\ c.attribute \in DOMAIN item
    \/ c.op = "Missing"  /\ (item = NoItem \/ c.attribute \notin DOMAIN item)
    \/ c.op = "Absent"   /\ item = NoItem

Holds(c, item) == (c.absentOr /\ item = NoItem) \/ Inner(c, item)

----------------------------------------------------------------------------
(* Updates: set, of attributes and of paths into a map; set_if_absent; remove *)

Update(set, paths, ifAbsent, remove) ==
    [set |-> set, paths |-> paths, ifAbsent |-> ifAbsent, remove |-> remove]

Parents(u) == {p[1] : p \in DOMAIN u.paths}

\* The fields of value once the paths below attribute a are set.
Below(u, a, value) ==
    Map([f \in DOMAIN value.fields \cup {p[2] : p \in {q \in DOMAIN u.paths : q[1] = a}} |->
            IF <<a, f>> \in DOMAIN u.paths THEN u.paths[<<a, f>>] ELSE value.fields[f]])

\* apply_update, one part after the other: the attributes set, on a new item if
\* there is none; the paths, in the item that has come of it; what is still
\* absent; and what is removed.
WithSet(u, item, key) ==
    LET old == IF item = NoItem THEN key ELSE item
    IN [a \in DOMAIN old \cup DOMAIN u.set |-> IF a \in DOMAIN u.set THEN u.set[a] ELSE old[a]]

PathsFail(u, item) == \E a \in Parents(u) : a \notin DOMAIN item \/ item[a].kind # "map"

WithPaths(u, item) ==
    [a \in DOMAIN item |-> IF a \in Parents(u) THEN Below(u, a, item[a]) ELSE item[a]]

WithAbsent(u, item) ==
    [a \in DOMAIN item \cup DOMAIN u.ifAbsent |->
        IF a \in DOMAIN item THEN item[a] ELSE u.ifAbsent[a]]

WithRemoved(u, item) == [a \in DOMAIN item \ u.remove |-> item[a]]

\* MemoryRecordStore.update: the condition, then apply_update, under one lock.
MemoryUpdate(item, key, u, c) ==
    IF ~Holds(c, item) THEN Conflict(item)
    ELSE LET set == WithSet(u, item, key)
         IN IF PathsFail(u, set) THEN PathError(item)
            ELSE Ok(WithRemoved(u, WithAbsent(u, WithPaths(u, set))))

\* MemoryRecordStore.put.
MemoryPut(item, new, unlessExists) ==
    IF unlessExists /\ item # NoItem THEN Conflict(item) ELSE Ok(new)

=============================================================================
