------------------------------- MODULE Landing -------------------------------
(***************************************************************************)
(* What write-back promises of a pull request's branch, with nothing of    *)
(* how: besides the people who push to it, only a request changes it, and  *)
(* a request changes it in one step, on the files as they are at that      *)
(* moment, to contents that were confirmed for that request.               *)
(***************************************************************************)
EXTENDS Naturals

CONSTANTS Files, Contents, Requests

VARIABLES
    head,      \* head[p]: file p at the branch's head
    theirs,    \* commits people have pushed
    confirmed, \* confirmed[r]: the [file, content] pairs request r may commit
    landed     \* requests that have committed

vars == <<head, theirs, confirmed, landed>>

Confirmable == [file : Files, content : Contents]

Init == /\ head \in [Files -> Contents]
        /\ theirs = 1
        /\ confirmed = [r \in Requests |-> {}]
        /\ landed = {}

Push == /\ head' \in [Files -> Contents]
        /\ theirs' = theirs + 1
        /\ UNCHANGED <<confirmed, landed>>

\* What a request may commit is settled once, before it has committed anything.
Confirm(r) == /\ confirmed[r] = {} /\ r \notin landed
              /\ confirmed'[r] \subseteq Confirmable
              /\ confirmed' = [confirmed EXCEPT ![r] = confirmed'[r]]
              /\ UNCHANGED <<head, theirs, landed>>

\* Some of the confirmed contents replace their files at the head.
Land(r) == /\ \E writes \in SUBSET confirmed[r] :
                /\ writes # {}
                /\ \A p \in Files :
                    IF \E w \in writes : w.file = p
                    THEN \E w \in writes : w.file = p /\ head'[p] = w.content
                    ELSE head'[p] = head[p]
           /\ head' \in [Files -> Contents]
           /\ landed' = landed \cup {r}
           /\ UNCHANGED <<theirs, confirmed>>

Next == Push \/ \E r \in Requests : Confirm(r) \/ Land(r)

Spec == Init /\ [][Next]_vars

=============================================================================
