------------------------------- MODULE ShellTable -------------------------------
(***************************************************************************)
(* What the running shell table promises: a list of tenants, one for each  *)
(* name and the last one to change at its end, and an answer to every      *)
(* request that depends on the tenants that are in the list now and on     *)
(* nothing else.                                                           *)
(***************************************************************************)
EXTENDS Naturals, Sequences

CONSTANTS
    Tenants,        \* settings of tenants, records with a name
    Requests,
    NoAnswer,
    Best(_, _),     \* Best(list, request): the tenant to answer with
    Alike(_),       \* requests that are the same but for the case of letters
    Unsaid(_)       \* lists of tenants for which no answer is promised

VARIABLES
    tenants,
    answer      \* to the last request, NoAnswer when the tenants have changed since

vars == <<tenants, answer>>

Others(name) ==
    LET named == {i \in DOMAIN tenants : tenants[i].name = name}
        at == CHOOSE i \in named : TRUE
    IN IF named = {} THEN tenants
       ELSE SubSeq(tenants, 1, at - 1) \o SubSeq(tenants, at + 1, Len(tenants))

Init == tenants = <<>> /\ answer = NoAnswer

Put(s) ==
    /\ tenants' = Append(Others(s.name), s)
    /\ answer' = NoAnswer

Drop(s) ==
    /\ tenants' = Others(s.name)
    /\ answer' = NoAnswer

Answer(r) ==
    /\ answer'.request = r
    /\ \/ \E q \in Alike(r) : answer' = [request |-> r, result |-> Best(tenants, q)]
       \/ Unsaid(tenants)
    /\ UNCHANGED tenants

Next ==
    \/ \E s \in Tenants : Put(s) \/ Drop(s)
    \/ \E r \in Requests : Answer(r)

Spec == Init /\ [][Next]_vars
==============================================================================
