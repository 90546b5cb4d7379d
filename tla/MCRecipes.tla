-------------------------------- MODULE MCRecipes --------------------------------
(* Instances of Recipes for TLC. *)
EXTENDS Recipes

Step(does) == [does |-> does, names |-> <<>>]
StepOf(names, does) == [does |-> does, names |-> names]

\* Contents for three recipes: plain ones, that fail in their midst; "b" and "c"
\* run by a step of "a"; "b" run twice by it; a recipe that runs itself; and one
\* that names what does not exist, after "b".
Plain == [a |-> <<Step("works"), Step("works")>>,
          b |-> <<Step("works"), Step("works"), Step("works")>>,
          c |-> <<>>]
Failing(outcome) == [Plain EXCEPT !.a = <<Step("works"), Step(outcome), Step("works")>>]
Nested == [a |-> <<Step("works"), StepOf(<<"b", "c">>, "works"), Step("works")>>,
           b |-> <<Step("works"), Step("works")>>,
           c |-> <<Step("works"), Step("throws")>>]
Twice == [Nested EXCEPT !.a = <<StepOf(<<"b", "b">>, "works"), Step("works")>>]
Itself == [Nested EXCEPT !.a = <<StepOf(<<"a">>, "works"), Step("works")>>]
Again == [Nested EXCEPT !.a = <<Step("works"), StepOf(<<"a">>, "works")>>]
Missing == [Nested EXCEPT !.a = <<StepOf(<<"b">>, "throws"), Step("works")>>]

\* ... and one that migrates in "b", and may break in "a".
Migrating(outcome) ==
    [Nested EXCEPT !.a = <<StepOf(<<"b">>, "works"), Step(outcome)>>,
                   !.b = <<Step("migrates"), Step("works")>>]

Contents ==
    {Plain, Failing("throws"), Failing("unclaimed"), Nested, Twice, Itself, Again, Missing,
     Migrating("migrates"), Migrating("breaks")}

SomeUses ==
    [recipes : {<<"a">>, <<"a", "b">>, <<"c", "a">>, <<"b", "b">>},
     steps : Contents,
     may : {{}, {"throw"}, {"crash"}, {"lose", "throw", "crash"}}]
==============================================================================
