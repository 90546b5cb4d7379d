----------------------------- MODULE MCShellHost -----------------------------
(* Instances of ShellHost for TLC. *)
EXTENDS ShellHost, TLC

CONSTANTS r1, r2, r3, default, other, c1, c2, c3

Either == {"Running", "Disabled"}

\* two requests save and disable tenants
Saving ==
    [requests : {{r1, r2}, {r1, r3}, {r2, r3}}, admins : {Requests}, reloaders : {{}},
     initial : {Either}, saved : {Either}, mayFail : {FALSE},
     mayClash : {FALSE}, saves : {2}, changes : {0}]

\* extensions change while three requests come and shells fail to start
Changing ==
    [requests : {Requests}, admins : {{}}, reloaders : {{}}, initial : {{"Running"}},
     saved : {{}}, mayFail : {TRUE}, mayClash : {FALSE}, saves : {0},
     changes : {2}]

\* one request saves and disables tenants while extensions change
OneAdmin ==
    UNION {[requests : {{q, r}}, admins : {{q}}, reloaders : {{}}, initial : {Either},
            saved : {Either}, mayFail : {FALSE}, mayClash : {FALSE}, saves : {2},
            changes : {1}] :
              q \in Requests, r \in Requests}

\* a tenant is saved, another request reloads, and shells fail
Reloading ==
    UNION {[requests : {{q, r}}, admins : {{q}}, reloaders : {{r}}, initial : {Either},
            saved : {{"Running"}}, mayFail : {TRUE}, mayClash : {FALSE}, saves : {1},
            changes : {1}] :
              q \in Requests, r \in Requests}

\* tenants that wait for their setup are saved
Setup ==
    UNION {[requests : {{r}}, admins : {{r}}, reloaders : {{}},
            initial : {{"Running", "Uninitialized"}},
            saved : {{"Running", "Uninitialized"}}, mayFail : {FALSE},
            mayClash : {FALSE}, saves : {2}, changes : {0}] : r \in Requests}

\* the table throws, as hosts clash, while tenants are saved and extensions change
Clashing ==
    UNION {[requests : {{q, r}}, admins : {{q}}, reloaders : {{}}, initial : {Either},
            saved : {Either}, mayFail : {FALSE}, mayClash : {TRUE}, saves : {1},
            changes : {1}] : q \in Requests, r \in Requests}

AnyUse == Saving \cup Changing \cup OneAdmin \cup Reloading \cup Setup \cup Clashing

\* a tenant is saved while extensions change
SavedOnce ==
    {[requests |-> {r1, r2}, admins |-> {r1}, reloaders |-> {}, initial |-> {"Running"},
      saved |-> {"Running"}, mayFail |-> FALSE, mayClash |-> FALSE, saves |-> 1, changes |-> 1]}

\* The sets of uses are those of all requests alike.
Symmetry == Permutations(Requests)
==============================================================================
