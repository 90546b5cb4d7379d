------------------------------ MODULE MCMigrations ------------------------------
(* Instances of Migrations for TLC. *)
EXTENDS Migrations

Activation == [kind |-> "activation", plan |-> <<>>]
Events(features) == [kind |-> "events", plan |-> features]
Step(features) == [kind |-> "step", plan |-> features]
StepForAll == [kind |-> "all", plan |-> <<>>]

\* A feature with two classes, one that depends on it, and one that depends on both;
\* the class "c" has no step.
Scenario(s1, s2, installed, snapshot, data, may) ==
    [scopes |-> [s \in Scopes |-> IF s = "s1" THEN s1 ELSE s2],
     dependencies |-> [A |-> <<>>, B |-> <<"A">>, C |-> <<"B", "A">>, D |-> <<>>],
     classes |-> [A |-> <<"a1", "a2">>, B |-> <<"b">>, C |-> <<"c", "d">>, D |-> <<>>],
     order |-> <<"d", "b", "a1", "c", "a2">>,
     latest |-> [a1 |-> 2, a2 |-> 1, b |-> 2, c |-> 0, d |-> 1],
     installed |-> installed, snapshot |-> snapshot, data |-> data, may |-> may]

New == [a1 |-> 0, a2 |-> 0, b |-> 0, c |-> 0, d |-> 0]
Old == [a1 |-> 1, a2 |-> 1, b |-> 1, c |-> 0, d |-> 0]

\* Two tasks that update features which do not depend on each other, in both orders.
Crossing(snapshot) ==
    [Scenario(Events(<<"B", "C">>), Events(<<"C", "B">>), New, snapshot, FALSE, {})
        EXCEPT !.dependencies = [f \in Features |-> <<>>],
               !.classes = [A |-> <<"a1", "a2", "c">>, B |-> <<"b">>, C |-> <<"d">>,
                            D |-> <<>>]]

\* A task that updates a feature which depends on two others, and one that depends on
\* the second of these.
Siblings(s2) ==
    [Scenario(Events(<<"C", "D">>), s2, New, FALSE, FALSE, {"commit"})
        EXCEPT !.dependencies = [A |-> <<>>, B |-> <<>>, C |-> <<"A", "B">>, D |-> <<"B">>],
               !.classes = [A |-> <<"a1", "a2">>, B |-> <<"b">>, C |-> <<"c">>,
                            D |-> <<"d">>]]

\* Two activations, an activation and a task or a recipe, two tasks, and recipes.
SomeUses ==
    {Scenario(Activation, Activation, installed, snapshot, FALSE, {"crash", "fail"}) :
        installed \in {New, Old}, snapshot \in BOOLEAN} \cup
    {Scenario(Activation, s2, Old, FALSE, FALSE, {"commit"}) :
        s2 \in {Activation, Events(<<"C", "A">>), Step(<<"B", "C">>), StepForAll}} \cup
    {Scenario(StepForAll, Events(<<"C", "B">>), Old, TRUE, FALSE, {"fail"})} \cup
    {Scenario(Events(<<"A", "B">>), Events(<<"C", "B">>), installed, TRUE, FALSE, {}) :
        installed \in {New, Old}} \cup
    {Crossing(snapshot) : snapshot \in BOOLEAN} \cup
    {Siblings(Activation)} \cup
    {Scenario(Activation, s2, Old, FALSE, data, {"abort"}) :
        s2 \in {Activation, Step(<<"A">>)}, data \in BOOLEAN} \cup
    {Scenario(Step(<<"B", "A">>), Activation, Old, FALSE, TRUE, {"fail", "crash"})}
==============================================================================
