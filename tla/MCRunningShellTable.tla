--------------------------- MODULE MCRunningShellTable ---------------------------
(* Instances of RunningShellTable for TLC. *)
EXTENDS RunningShellTable

Host(case, name) == [star |-> FALSE, name |-> name, case |-> case]
Star(case, name) == [star |-> TRUE, name |-> name, case |-> case]

Www == <<"www.", "example.com">>
My == <<"my", "example.com">>
Wiki == <<"wiki.", "my.", "example.com">>

Tenant(name, hosts, prefix) == [name |-> name, hosts |-> hosts, prefix |-> prefix]

Ask(case, host, segment) == [host |-> host, case |-> case, segment |-> segment]

\* Hosts with and without a prefix, several hosts, star mappings of two lengths.
Hosts ==
    [settings |-> {Tenant("Default", {}, ""),
                   Tenant("Alpha", {Host("lower", Www), Host("lower", Wiki)}, "p"),
                   Tenant("Beta", {Star("lower", <<"example.com">>)}, ""),
                   Tenant("Gamma", {Star("lower", <<"my.", "example.com">>),
                                    Host("lower", Wiki)}, "")},
     requests |-> {Ask("lower", Www, "p"), Ask("lower", Www, ""),
                   Ask("lower", Wiki, "p"), Ask("lower", My, "q")}]

\* Hosts, of tenants and of requests, that differ in case.
Case ==
    [settings |-> {Tenant("Default", {Host("lower", Www)}, ""),
                   Tenant("Alpha", {Host("upper", Www)}, "p"),
                   Tenant("Beta", {Star("lower", <<"example.com">>)}, "")},
     requests |-> {Ask("lower", Www, "p"), Ask("upper", Www, ""),
                   Ask("lower", My, "q"), Ask("upper", My, "q")}]

\* Tenants without criteria, one or several, and with a prefix only.
Criteria ==
    [settings |-> {Tenant("Default", {}, ""), Tenant("Default", {Host("lower", Www)}, ""),
                   Tenant("Alpha", {}, "p"), Tenant("Alpha", {}, ""),
                   Tenant("Beta", {}, "")},
     requests |-> {Ask("lower", Www, "p"), Ask("lower", My, "p"), Ask("lower", My, "")}]

SomeUses == {Hosts, Case, Criteria}
==============================================================================
