---------------------------- MODULE DynamoStore ----------------------------
(***************************************************************************)
(* The RecordStore port on DynamoDB (core/cascadesec_aws/records.py): each *)
(* operation as the expression it is turned back into, and what DynamoDB   *)
(* makes of one.  Every operand of an expression is read from the item as  *)
(* it was, and an expression with two paths of which one is in the other   *)
(* is refused before anything is read.                                     *)
(***************************************************************************)
EXTENDS RecordStore

attribute_exists(item, a) == a \in DOMAIN item
attribute_not_exists(item, a) == a \notin DOMAIN item

\* Mutant: set_if_absent is set.
Operand(item, a, operand) == operand

\* if_not_exists(path, operand).
if_not_exists(item, a, operand) == IF attribute_exists(item, a) THEN item[a] ELSE operand

\* _condition of what is inside AbsentOr.  A status that is not there is equal
\* to nothing.
InnerExpression(c, item) ==
    CASE c.op = "always"   -> TRUE
      [] c.op = "StatusIn" -> HasStatus(item, c.statuses)
      [] c.op = "Exists"   -> attribute_exists(item, c.attribute)
      [] c.op = "Missing"  -> attribute_not_exists(item, c.attribute)
      [] c.op = "Absent"   -> attribute_not_exists(item, "sk")

\* _condition: there is no item when there is no sk.
Condition(c, item) ==
    (c.absentOr /\ attribute_not_exists(item, "sk")) \/ InnerExpression(c, item)

\* Two document paths overlap, or one is of the key.
Overlaps(u) ==
    \/ DOMAIN u.set \cap (Parents(u) \cup DOMAIN u.ifAbsent \cup u.remove) # {}
    \/ Parents(u) \cap (DOMAIN u.ifAbsent \cup u.remove) # {}
    \/ DOMAIN u.ifAbsent \cap u.remove # {}
    \/ KeyAttributes \cap (DOMAIN u.set \cup Parents(u) \cup DOMAIN u.ifAbsent \cup u.remove) # {}

\* A path in a map the item does not have.
InvalidPath(u, item) == \E a \in Parents(u) : ~(attribute_exists(item, a) /\ item[a].kind = "map")

\* The attributes DynamoDB writes, all from the item it has read.
Expression(u, item, key) ==
    LET old == IF item = NoItem THEN key ELSE item
    IN [a \in (DOMAIN old \cup DOMAIN u.set \cup DOMAIN u.ifAbsent) \ u.remove |->
          CASE a \in DOMAIN u.set      -> u.set[a]
            [] a \in Parents(u)        -> Below(u, a, item[a])
            [] a \in DOMAIN u.ifAbsent -> if_not_exists(item, a, u.ifAbsent[a])
            [] OTHER                   -> old[a]]

\* DynamoDBRecordStore.update, with the errors _translated.
DynamoUpdate(item, key, u, c) ==
    IF Overlaps(u) THEN [result |-> "refused", item |-> item]
    ELSE IF ~Condition(c, item) THEN Conflict(item)
    ELSE IF InvalidPath(u, item) THEN PathError(item)
    ELSE Ok(Expression(u, item, key))

\* DynamoDBRecordStore.put.
DynamoPut(item, new, unlessExists) ==
    IF unlessExists /\ attribute_exists(item, "sk") THEN Conflict(item) ELSE Ok(new)

=============================================================================
