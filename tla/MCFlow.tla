------------------------------- MODULE MCFlow -------------------------------
(***************************************************************************)
(* Pull requests of two commits for TLC: a plain file, and a CDK app of    *)
(* one source and one template.                                            *)
(***************************************************************************)
EXTENDS FlowStores

CONSTANTS plain, source, template, extra

SourceOf == [t \in {template} |-> source]

At(file, rule, resource, line) == [file |-> file, rule |-> rule, resource |-> resource, line |-> line]

Tree(p, s) == [f \in Files |-> CASE f = plain -> p [] f = extra -> 0 [] OTHER -> s]

Made(instances, content, changed) ==
    [instances |-> instances, content |-> content, changed |-> changed,
     unparsed |-> {}, app |-> content[source] # 0, fits |-> TRUE]

First(changed) ==
    Made({At(plain, 1, 1, 1), At(template, 2, 5, 1)}, Tree(1, 1), changed)

\* What the first commit is followed by: lines that move a finding and bring
\* another of its rule and resource below it, with an app that is left alone; a
\* plain file that is gone, with an app that is changed; nothing to scan; more
\* changed files than the limit; a tree over the limit.
Moved   == Made({At(plain, 1, 1, 2), At(plain, 1, 1, 3), At(template, 2, 5, 1)}, Tree(2, 1),
                {plain})
AppOnly == Made({At(template, 2, 5, 1)}, Tree(0, 2), {source})
Empty   == Made({}, Tree(0, 0), {plain})
TooMany == Made({At(plain, 1, 1, 2)}, [Tree(2, 1) EXCEPT ![extra] = 1], {plain, source, extra})
Large   == [Moved EXCEPT !.fits = FALSE]

\* A syntax error in one file, and a template among the .json that is cut off.
Broken  == [Made({At(plain, 1, 1, 2), At(extra, 1, 1, 1), At(template, 2, 5, 1)},
                 [Tree(2, 1) EXCEPT ![extra] = 1], {plain, extra})
              EXCEPT !.unparsed = {plain, extra}]

SomeHistories == {<<First({plain}), Moved>>, <<First({plain, source}), AppOnly>>,
                  <<First({plain}), Empty>>, <<First({plain}), TooMany>>,
                  <<First({plain}), Large>>, <<First({plain}), Broken>>}

\* One rule of two tools each, and controls of one target type beside one of any.
RuleTool == <<"checkov", "trivy">>

Control(n, target) == [control |-> n, target |-> target]

SomeControls == <<{Control(1, "any"), Control(2, "kubernetes")},
                  {Control(3, "cloudformation")}>>

Languages == [f \in Files |-> IF f = extra THEN "cloudformation" ELSE "terraform"]

\* A fault while there is one commit, none while there are two.
OneFault == <<1, 0>>
NoFault  == <<0, 0>>

\* A resource of the same rule and size is put above another: the one below is
\* moved down by it.
Above == Made({At(plain, 1, 1, 2), At(plain, 1, 2, 1)}, Tree(2, 0), {plain})
Alone == Made({At(plain, 1, 1, 1)}, Tree(1, 0), {plain})

InsertedAbove == {<<Alone, Above>>}

=============================================================================
