----------------------------- MODULE MCWriteBack -----------------------------
(***************************************************************************)
(* Small instances of WriteBack for TLC.                                   *)
(***************************************************************************)
EXTENDS WriteBack

Last == CHOOSE f \in Findings : \A g \in Findings : g <= f

\* Two findings on one file: a chain of two fixes.
OneFile == [f \in Findings |-> 1]
\* Finding f is on file f.
OwnFile == [f \in Findings |-> f]

\* Every fix clears its own finding only.
ClearsOwn == [f \in Findings |-> {f}]
\* Fixing finding 1 also clears the last one.
ClearsLast == [f \in Findings |->
IF f = 1 THEN {1, Last} ELSE {f}]

=============================================================================
