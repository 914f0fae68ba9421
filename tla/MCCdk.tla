------------------------------- MODULE MCCdk -------------------------------
(***************************************************************************)
(* A small CDK app for TLC: two resources, in a stack each.                *)
(***************************************************************************)
EXTENDS CdkDrafts

CONSTANTS bucket, queue, main, side

\* Two findings on the bucket, one on the queue.
OnBucketAndQueue == [f \in Findings |-> IF f = 3 THEN queue ELSE bucket]
StackEach == [p \in Paths \cup {NoPath} |-> IF p = queue THEN side ELSE main]

Plain == [clears |-> {}, brings |-> FALSE, drops |-> {}, breaks |-> FALSE,
          suppresses |-> FALSE, unsure |-> FALSE, asked |-> FALSE]

\* A clean fix of the bucket; one of its first finding and the queue's, and one
\* of its second and the queue's with a helper that needs fixing; one that takes
\* a stack away, asked for and unsure; one that does not build; one that cheats.
SomeAnswers ==
    {[Plain EXCEPT !.clears = {1, 2}],
     [Plain EXCEPT !.clears = {1, 3}],
     [Plain EXCEPT !.clears = {2, 3}, !.brings = TRUE],
     [Plain EXCEPT !.clears = {1, 2}, !.drops = {side}, !.asked = TRUE, !.unsure = TRUE],
     [Plain EXCEPT !.breaks = TRUE],
     [Plain EXCEPT !.suppresses = TRUE]}

\* Nothing has been drafted, or the clean fix of the bucket.
SomeStarts == {NoDraft, [Plain EXCEPT !.clears = {1, 2}]}

\* A fault where there is one commit, and none where there are two.
OneFault == <<1, 0>>

=============================================================================
