----------------------------- MODULE ShellHost_proofs -----------------------------
(***************************************************************************)
(* ShellHost for any requests, tenants, contexts and uses: the types, that *)
(* no tenant has two shells and no forgotten list leaves one active, and   *)
(* that every tenant runs from the settings that were saved last.          *)
(*                                                                         *)
(* That the list has one shell of a tenant, whatever fails, follows from   *)
(* how a new one takes its place, and from who holds _syncLock (Unique).   *)
(* That no other is active rests on what _syncLock does not protect: the   *)
(* assignment of null after the lock is released.  One DisposeShellContext *)
(* at a time is between its check and that assignment (Turns), and what it *)
(* has disposed keeps the others from building or adding a shell (Lists).  *)
(* The last follows a saved tenant from the request that flags it, or from *)
(* the settings loaded for a new list, to the shell that is started        *)
(* (Followed).                                                             *)
(***************************************************************************)
EXTENDS ShellHost, TLAPS

Disposing(r) == pc[r] \in {"disposing", "forgetting"}
Disposes(r) == pc[r] = "dispose" \/ Disposing(r)

\* At most one request may come to dispose, and then none will.
OneDisposes ==
    /\ \A q, r \in Requests : Disposes(q) /\ Disposes(r) => q = r
    /\ stale => \A r \in Requests : ~Disposes(r)

\* No request has passed MonitorExtensions yet.
Fresh ==
    /\ shells = NoList
    /\ \A r \in Requests :
        /\ pc[r] \in {"idle", "reading", "monitor", "dispose"}
        /\ pc[r] = "dispose" => cache = r
    /\ changes = 0 /\ cache # NoRequest => ~stale

Quiet == ~stale /\ \A r \in Requests : ~Disposes(r)

\* Whose turn it is to dispose: the request with the lock of the cache entry, when
\* nobody calls ReloadExtensions, and one at all when extensions change once.
Turns ==
    /\ \A r \in Requests : cache = r => Disposes(r)
    /\ use.reloaders = {} => \A r \in Requests : Disposes(r) => cache = r
    /\ use.changes <= 1 => Fresh \/ (OneDisposes /\ (changes = 0 => Quiet))

\* The holder of _syncLock, and what is true while it is held.
Holds(r) == pc[r] \in {"setup", "creating", "writing", "activating"}
Held ==
    /\ \A r \in Requests : Holds(r) => sync = r
    /\ \A r \in Requests : pc[r] = "setup" => shells = NoList
    /\ \A r \in Requests : pc[r] = "creating" =>
        /\ \A i, j \in toBuild : i.tenant = j.tenant => i = j
        /\ \A j \in toBuild : \A c \in Listed : tenantOf[c] # j.tenant
    /\ \A r \in Requests : pc[r] \in {"writing", "activating"} =>
        context[r] \in Listed /\ tenantOf[context[r]] = job[r].tenant

\* The states that ActivateShell(settings) meets.
Activated == use.saved \cup {"Running"}
Flagged ==
    /\ \A r \in Requests : \A i \in DOMAIN pending[r] :
        pending[r][i].settings.state \in Activated
    /\ \A r \in Requests : pc[r] = "updating" => job[r].settings.state \in Activated

\* What is listed is one context of each tenant, and all that is active.
Lists ==
    /\ \A c \in Listed : life[c] # "unused" /\ tenantOf[c] \in Tenants
    /\ \A c, d \in Listed : tenantOf[c] = tenantOf[d] => c = d
    /\ Active \subseteq Listed
    /\ shells = {} => use.changes = 0
    /\ \A r \in Requests : Disposing(r) => shells # NoList
    /\ \A r \in Requests : pc[r] = "forgetting" =>
        sync = NoRequest /\ \A c \in Listed : life[c] = "disposed"

HostInv == NoneDropped => Held /\ Flagged /\ Lists

------------------------------------------------------------------------------
\* A context is created from one that is unused.
LEMMA NewIsUnused ==
    ASSUME \E c \in Contexts : life[c] = "unused"
    PROVE  New \in Contexts /\ life[New] = "unused"
    BY DEF New

\* The context of a tenant is one of the list.
LEMMA ContextOfTenant ==
    ASSUME NEW t, \E c \in Listed : tenantOf[c] = t
    PROVE  ContextOf(t) \in Listed /\ tenantOf[ContextOf(t)] = t
    BY DEF ContextOf

\* What is listed are contexts, and a list that is there is not NoList.
LEMMA ListedTypes ==
    ASSUME ShellHostAssumption, TypeOK
    PROVE  /\ Listed \subseteq Contexts /\ NoContext \notin Listed
           /\ \A S \in SUBSET Contexts : S # NoList
           /\ shells # NoList => Listed = shells
    BY DEF TypeOK, Listed, ShellHostAssumption

\* The bounds of a use.
LEMMA UseTypes ==
    ASSUME ShellHostAssumption, TypeOK
    PROVE  /\ use.initial \subseteq States /\ use.saved \subseteq States
           /\ use.saves \in 0..MaxSaves /\ use.changes \in Nat /\ MaxSaves \in Nat
    BY DEF TypeOK, ShellHostAssumption, AllUses

\* At the beginning the variables hold what their declarations say.
LEMMA TypeInit ==
    ASSUME ShellHostAssumption, Init
    PROVE  TypeOK
<1>1. /\ use \in Uses /\ use.initial \subseteq States /\ use.saves \in 0..MaxSaves
      /\ use.changes \in Nat /\ MaxSaves \in Nat /\ Default \in Tenants
    BY DEF Init, ShellHostAssumption, AllUses
<1>2. settings \in [Tenants -> Settings]
    BY <1>1 DEF Init, Settings
<1>3. builtFrom \in [Contexts -> Settings]
    BY <1>1 DEF Init, Settings, States
<1>4. job \in [Requests -> Job]
    BY <1>1, <1>2 DEF Init, Job
<1>5. pending \in [Requests -> Seq(Job)]
    BY DEF Init
<1> QED
    BY <1>1, <1>2, <1>3, <1>4, <1>5 DEF Init, TypeOK, Labels

\* Throw keeps the types of what it changes.
LEMMA ThrowTypes ==
    ASSUME TypeOK, NEW r \in Requests, Throw(r)
    PROVE  /\ cache' \in Requests \cup {NoRequest} /\ sync' \in Requests \cup {NoRequest}
           /\ stale' \in BOOLEAN /\ readers' \in [Tenants -> SUBSET Requests]
           /\ pending' \in [Requests -> Seq(Job)] /\ pc' \in [Requests -> Labels]
<1>1. pending' \in [Requests -> Seq(Job)]
    BY DEF TypeOK, Throw
<1>2. pc' \in [Requests -> Labels]
    BY DEF TypeOK, Throw, Goto, Labels
<1>3. stale' \in BOOLEAN
    BY DEF TypeOK, Throw
<1> QED
    BY <1>1, <1>2, <1>3 DEF TypeOK, Throw

\* So does Start.
LEMMA StartTypes ==
    ASSUME ShellHostAssumption, TypeOK, NEW t \in Tenants, NEW s \in Settings, Start(t, s)
    PROVE  /\ tenantOf' \in [Contexts -> Tenants \cup {NoTenant}]
           /\ builtFrom' \in [Contexts -> Settings]
           /\ life' \in [Contexts ->
                            {"unused", "built", "active", "terminated", "disposed"}]
           /\ shells' \in {NoList} \cup SUBSET Contexts
           /\ table' \in SUBSET Tenants
<1>1. New \in Contexts
    BY NewIsUnused DEF Start, CreateShellContext
<1>2. shells' \subseteq Contexts
    BY <1>1, ListedTypes DEF Start
<1> QED
    BY <1>1, <1>2 DEF TypeOK, Start, CreateShellContext

\* So does Retried.
LEMMA RetriedTypes ==
    ASSUME ShellHostAssumption, TypeOK, NEW j \in toBuild
    PROVE  Retried(j) \in SUBSET Attempt
<1>1. /\ j.tenant \in Tenants /\ j.settings \in Settings /\ j.attempt \in Nat
      /\ j = [tenant |-> j.tenant, settings |-> j.settings, attempt |-> j.attempt]
    BY DEF TypeOK, Attempt, ShellHostAssumption
<1> DEFINE next == [tenant |-> j.tenant, settings |-> j.settings, attempt |-> j.attempt + 1]
<1>2. [j EXCEPT !.attempt = @ + 1] = next
    BY <1>1
<1>3. next.attempt <= Retries => next \in Attempt
    BY <1>1 DEF Attempt, ShellHostAssumption
<1>4. Retried(j) = (toBuild \ {j}) \cup {i \in {next} : i.attempt <= Retries}
    BY <1>2 DEF Retried
<1> QED
    BY <1>3, <1>4 DEF TypeOK

\* Every step keeps them so.
LEMMA TypeStep ==
    ASSUME ShellHostAssumption, TypeOK, [Next]_vars
    PROVE  TypeOK'
<1>1. ASSUME NEW r \in Requests, BeginRequest(r) PROVE TypeOK'
    BY <1>1 DEF TypeOK, BeginRequest, bounds, listVars, contextVars, lockVars, Goto,
        Labels
<1>2. ASSUME NEW r \in Requests, EnterReadLock(r) PROVE TypeOK'
    BY <1>2 DEF TypeOK, EnterReadLock, bounds, listVars, contextVars, requestVars,
        Goto, Labels
<1>3. ASSUME NEW r \in Requests, MonitorExtensions(r) PROVE TypeOK'
    BY <1>3 DEF TypeOK, MonitorExtensions, bounds, listVars, contextVars, requestVars,
        Goto, Labels
<1>4. ASSUME NEW r \in Requests, DisposeShellContext(r) PROVE TypeOK'
    BY <1>4 DEF TypeOK, DisposeShellContext, bounds, listVars, contextVars,
        requestVars, Disposed, Goto, Labels
<1>5. ASSUME NEW r \in Requests, DisposeShells(r) PROVE TypeOK'
    <2>1. CASE \E c \in Listed : life[c] = "disposed"
        BY <1>5, <2>1, ThrowTypes DEF TypeOK, DisposeShells, bounds
    <2>2. CASE ~\E c \in Listed : life[c] = "disposed"
        BY <1>5, <2>2 DEF TypeOK, DisposeShells, bounds, lockVars, Goto, Labels
    <2> QED
        BY <2>1, <2>2
<1>6. ASSUME NEW r \in Requests, ForgetShells(r) PROVE TypeOK'
    BY <1>6 DEF TypeOK, ForgetShells, bounds, requestVars, Disposed, Goto, Labels
<1>7. ASSUME NEW r \in Requests, BuildCurrent(r) PROVE TypeOK'
    BY <1>7 DEF TypeOK, BuildCurrent, bounds, listVars, contextVars, lockVars,
        requestVars, Goto, Labels
<1>8. ASSUME NEW r \in Requests, LockAndBuild(r) PROVE TypeOK'
    BY <1>8 DEF TypeOK, LockAndBuild, bounds, listVars, contextVars, requestVars, Goto,
        Labels
<1>9. ASSUME NEW r \in Requests, SetupExtensions(r) PROVE TypeOK'
    <2>1. toBuild' \subseteq Attempt
        <3>1. \A t \in Tenants :
                [tenant |-> t, settings |-> settings[t], attempt |-> 0] \in Attempt
            BY DEF TypeOK, Attempt, ShellHostAssumption
        <3>2. [tenant |-> Default, settings |->
                [state |-> "Invalid", version |-> settings[Default].version],
               attempt |-> 0] \in Attempt
            BY DEF TypeOK, Attempt, Settings, States, ShellHostAssumption
        <3> QED
            BY <1>9, <3>1, <3>2 DEF SetupExtensions, ToStart
    <2> QED
        BY <1>9, <2>1 DEF TypeOK, SetupExtensions, bounds, listVars, contextVars, lockVars,
            requestVars, Goto, Labels
<1>10. ASSUME NEW r \in Requests, StartShell(r) PROVE TypeOK'
    <2>1. PICK j \in toBuild : Start(j.tenant, j.settings) /\ toBuild' = toBuild \ {j}
        BY <1>10 DEF StartShell
    <2>2. j.tenant \in Tenants /\ j.settings \in Settings
        BY DEF TypeOK, Attempt
    <2> QED
        BY <1>10, <2>1, <2>2, StartTypes DEF TypeOK, StartShell, bounds, lockVars, requestVars
<1>11. ASSUME NEW r \in Requests, StartFails(r) PROVE TypeOK'
    BY <1>11, RetriedTypes DEF TypeOK, StartFails, bounds, listVars, contextVars, lockVars,
        requestVars
<1>28. ASSUME NEW r \in Requests, StartClashes(r) PROVE TypeOK'
    <2>1. PICK j \in toBuild : Start(j.tenant, j.settings) /\ toBuild' = Retried(j)
        BY <1>28 DEF StartClashes
    <2>2. j.tenant \in Tenants /\ j.settings \in Settings
        BY DEF TypeOK, Attempt
    <2> QED
        BY <1>28, <2>1, <2>2, StartTypes, RetriedTypes
        DEF TypeOK, StartClashes, bounds, lockVars, requestVars
<1>29. ASSUME NEW r \in Requests, StartsAbort(r) PROVE TypeOK'
    <2>1. /\ tenantOf' \in [Contexts -> Tenants \cup {NoTenant}]
          /\ builtFrom' \in [Contexts -> Settings]
          /\ life' \in [Contexts ->
                            {"unused", "built", "active", "terminated", "disposed"}]
          /\ shells' \in {NoList} \cup SUBSET Contexts
          /\ table' \in SUBSET Tenants
        <3>1. CASE UNCHANGED listVars
            BY <3>1 DEF TypeOK, listVars, contextVars
        <3>2. CASE \E j \in toBuild : IsSetup(j) /\ Start(j.tenant, j.settings)
            BY <3>2, StartTypes DEF TypeOK, Attempt
        <3> QED
            BY <1>29, <3>1, <3>2 DEF StartsAbort
    <2> QED
        BY <1>29, <2>1, ThrowTypes DEF TypeOK, StartsAbort, bounds
<1>30. ASSUME NEW r \in Requests, StartTenantFails(r) PROVE TypeOK'
    <2>1. /\ tenantOf' \in [Contexts -> Tenants \cup {NoTenant}]
          /\ builtFrom' \in [Contexts -> Settings]
          /\ life' \in [Contexts ->
                            {"unused", "built", "active", "terminated", "disposed"}]
          /\ shells' \in {NoList} \cup SUBSET Contexts
          /\ table' \in SUBSET Tenants
        <3>1. CASE UNCHANGED listVars
            BY <3>1 DEF TypeOK, listVars, contextVars
        <3>2. CASE Start(job[r].tenant, job[r].settings)
            BY <3>2, StartTypes DEF TypeOK, Job
        <3> QED
            BY <1>30, <3>1, <3>2 DEF StartTenantFails
    <2> QED
        BY <1>30, <2>1, ThrowTypes DEF TypeOK, StartTenantFails, bounds
<1>31. ASSUME NEW r \in Requests, StopTenantFails(r) PROVE TypeOK'
    BY <1>31, ThrowTypes DEF TypeOK, StopTenantFails, bounds
<1>32. ASSUME NEW r \in Requests, ReplacementClashes(r) PROVE TypeOK'
    <2>1. table' \subseteq Tenants
        BY <1>32 DEF TypeOK, ReplacementClashes, Job
    <2> QED
        BY <1>32, <2>1, ThrowTypes DEF TypeOK, ReplacementClashes, bounds
<1>12. ASSUME NEW r \in Requests, AllStarted(r) PROVE TypeOK'
    BY <1>12 DEF TypeOK, AllStarted, bounds, listVars, contextVars, requestVars, Goto,
        Labels
<1>13. ASSUME NEW r \in Requests, EnterBody(r) PROVE TypeOK'
    BY <1>13 DEF TypeOK, EnterBody, bounds, listVars, contextVars, requestVars, Goto,
        Labels
<1>14. ASSUME NEW r \in Requests, EndRequest(r) PROVE TypeOK'
    BY <1>14 DEF TypeOK, EndRequest, bounds, listVars, contextVars, lockVars,
        requestVars, Goto, Labels
<1>15. ASSUME NEW r \in Requests, StartUpdatedShells(r) PROVE TypeOK'
    <2>1. CASE pending[r] = <<>>
        BY <1>15, <2>1 DEF TypeOK, StartUpdatedShells, bounds, listVars, contextVars,
            lockVars, Goto, Labels
    <2>2. CASE pending[r] # <<>>
        <3>1. Head(pending[r]) \in Job /\ Tail(pending[r]) \in Seq(Job)
            BY <2>2 DEF TypeOK
        <3>2. job' \in [Requests -> Job]
            BY <1>15, <2>2, <3>1 DEF TypeOK, StartUpdatedShells
        <3>3. pending' \in [Requests -> Seq(Job)]
            BY <1>15, <2>2, <3>1 DEF TypeOK, StartUpdatedShells, Taken
        <3>4. pc' \in [Requests -> Labels]
            BY <1>15, <2>2 DEF TypeOK, StartUpdatedShells, Goto, Labels
        <3> QED
            BY <1>15, <3>2, <3>3, <3>4 DEF TypeOK, StartUpdatedShells, bounds, listVars,
                contextVars, lockVars
    <2> QED
        BY <2>1, <2>2
<1>16. ASSUME NEW r \in Requests, NothingToUpdate(r) PROVE TypeOK'
    <2>1. CASE Broken
        BY <1>16, <2>1, ThrowTypes DEF TypeOK, NothingToUpdate, bounds, listVars, contextVars
    <2>2. CASE ~Broken
        BY <1>16, <2>2 DEF TypeOK, NothingToUpdate, bounds, listVars, contextVars, lockVars,
            Goto, Labels
    <2> QED
        BY <2>1, <2>2
<1>17. ASSUME NEW r \in Requests, StartTenant(r) PROVE TypeOK'
    <2>1. job[r].tenant \in Tenants /\ job[r].settings \in Settings
        BY DEF TypeOK, Job
    <2>2. pc' \in [Requests -> Labels]
        BY <1>17 DEF TypeOK, StartTenant, Goto, Labels
    <2> QED
        BY <1>17, <2>1, <2>2, StartTypes DEF TypeOK, StartTenant, bounds, lockVars,
            requestVars
<1>18. ASSUME NEW r \in Requests, StopTenant(r) PROVE TypeOK'
    <2>1. shells' \subseteq Contexts
        BY <1>18, ListedTypes DEF StopTenant, ToStopTenant, Broken
    <2>2. life' \in [Contexts -> {"unused", "built", "active", "terminated", "disposed"}]
        BY <1>18 DEF TypeOK, StopTenant
    <2>3. table' \subseteq Tenants /\ pc' \in [Requests -> Labels]
        BY <1>18 DEF TypeOK, StopTenant, Goto, Labels
    <2> QED
        BY <1>18, <2>1, <2>2, <2>3 DEF TypeOK, StopTenant, bounds, lockVars, requestVars
<1>19. ASSUME NEW r \in Requests, AwaitWriteLock(r) PROVE TypeOK'
    <2>1. Current(r) \in Contexts
        BY <1>19, ContextOfTenant, ListedTypes DEF AwaitWriteLock, Current, ContextOf
    <2> QED
        BY <1>19, <2>1 DEF TypeOK, AwaitWriteLock, bounds, listVars, contextVars, Goto, Labels
<1>20. ASSUME NEW r \in Requests, ReplaceShell(r) PROVE TypeOK'
    <2>1. New \in Contexts /\ job[r].tenant \in Tenants /\ job[r].settings \in Settings
        BY <1>20, NewIsUnused DEF TypeOK, ReplaceShell, CreateShellContext, Job
    <2>2. shells' \subseteq Contexts
        BY <1>20, <2>1, ListedTypes DEF ReplaceShell, Broken
    <2>3. /\ tenantOf' \in [Contexts -> Tenants \cup {NoTenant}]
          /\ builtFrom' \in [Contexts -> Settings]
        BY <1>20, <2>1 DEF TypeOK, ReplaceShell, CreateShellContext
    <2>4. life' \in [Contexts -> {"unused", "built", "active", "terminated", "disposed"}]
        BY <1>20 DEF TypeOK, ReplaceShell, Retire
    <2>5. pc' \in [Requests -> Labels]
        BY <1>20 DEF TypeOK, ReplaceShell, Goto, Labels
    <2> QED
        BY <1>20, <2>1, <2>2, <2>3, <2>4, <2>5 DEF TypeOK, ReplaceShell, bounds, lockVars
<1>21. ASSUME NEW r \in Requests, ActivateReplacement(r) PROVE TypeOK'
    <2>1. table' \subseteq Tenants /\ pc' \in [Requests -> Labels]
        BY <1>21 DEF TypeOK, ActivateReplacement, Goto, Labels, Job
    <2>2. life' \in [Contexts -> {"unused", "built", "active", "terminated", "disposed"}]
        BY <1>21 DEF TypeOK, ActivateReplacement
    <2> QED
        BY <1>21, <2>1, <2>2 DEF TypeOK, ActivateReplacement, bounds
<1>22. ASSUME NEW r \in Requests, ReplacementFails(r) PROVE TypeOK'
    BY <1>22, ThrowTypes DEF TypeOK, ReplacementFails, bounds, Kept
<1>23. ASSUME NEW r \in Requests, ReloadExtensions(r) PROVE TypeOK'
    BY <1>23, UseTypes DEF TypeOK, ReloadExtensions, listVars, contextVars, lockVars,
        requestVars, Goto, Labels
<1>24. ASSUME NEW r \in Requests, NEW t \in Tenants, NEW s \in use.saved,
              SaveSettings(r, t, s)
       PROVE  TypeOK'
    <2> DEFINE saved == [state |-> s, version |-> saves + 1]
    <2>1. saved \in Settings /\ saves + 1 \in 0..use.saves
        BY <1>24, UseTypes DEF TypeOK, SaveSettings, Settings
    <2>2. pending' \in [Requests -> Seq(Job)]
        <3>1. [tenant |-> t, settings |-> saved] \in Job
            BY <2>1 DEF Job
        <3>2. Append(pending[r], [tenant |-> t, settings |-> saved]) \in Seq(Job)
            BY <3>1 DEF TypeOK
        <3> QED
            BY <1>24, <3>2 DEF TypeOK, SaveSettings, Flag
    <2>3. settings' \in [Tenants -> Settings]
        BY <1>24, <2>1 DEF TypeOK, SaveSettings
    <2> QED
        BY <1>24, <2>1, <2>2, <2>3 DEF TypeOK, SaveSettings, listVars, contextVars, lockVars
<1>25. ASSUME NEW r \in Requests, NEW t \in Tenants, DescriptorChanged(r, t)
       PROVE  TypeOK'
    <2> DEFINE built == builtFrom[ContextOf(t)]
    <2>1. built \in Settings /\ saves + 1 \in 0..use.saves
        <3>1. ContextOf(t) \in Contexts
            BY <1>25, ContextOfTenant, ListedTypes DEF DescriptorChanged, ContextOf
        <3>2. saves + 1 \in 0..use.saves
            BY <1>25, UseTypes DEF TypeOK, DescriptorChanged
        <3> QED
            BY <3>1, <3>2 DEF TypeOK
    <2>2. pending' \in [Requests -> Seq(Job)]
        <3>1. [tenant |-> t, settings |-> built] \in Job
            BY <2>1 DEF Job
        <3>2. Append(pending[r], [tenant |-> t, settings |-> built]) \in Seq(Job)
            BY <3>1 DEF TypeOK
        <3> QED
            BY <1>25, <3>2 DEF TypeOK, DescriptorChanged, Flag
    <2> QED
        BY <1>25, <2>1, <2>2 DEF TypeOK, DescriptorChanged, listVars, contextVars, lockVars
<1>26. CASE ExtensionsChange
    BY <1>26, UseTypes DEF TypeOK, ExtensionsChange, listVars, contextVars, lockVars,
        requestVars
<1>27. CASE UNCHANGED vars
    BY <1>27 DEF TypeOK, vars, bounds, listVars, contextVars, lockVars, requestVars
<1> QED
    BY <1>1, <1>2, <1>3, <1>4, <1>5, <1>6, <1>7, <1>8, <1>9, <1>10, <1>11, <1>12, <1>13, <1>14,
       <1>15, <1>16, <1>17, <1>18, <1>19, <1>20, <1>21, <1>22, <1>23, <1>24, <1>25, <1>26, <1>27,
       <1>28, <1>29, <1>30, <1>31, <1>32
    DEF Next, Proceed

\* Every variable holds what its declaration says, for any requests, tenants and uses.
THEOREM HostTypeOK ==
    ASSUME ShellHostAssumption
    PROVE  Spec => []TypeOK
    BY TypeInit, TypeStep, PTL DEF Spec

------------------------------------------------------------------------------
\* Where requests are before and while they dispose.
Early == {"idle", "reading", "monitor", "dispose", "disposing", "forgetting"}

\* A step of a request that is past that.
Late(r) ==
    /\ pc[r] \notin Early /\ ~Disposes(r)'
    /\ \A q \in Requests \ {r} : pc'[q] = pc[q]
    /\ UNCHANGED <<use, cache, changes>> /\ (stale' => stale)

\* Such a step leaves the turns as they are.
LEMMA TurnsLate ==
    ASSUME Turns, NEW r \in Requests, Late(r)
    PROVE  Turns'
<1>1. ~Fresh /\ ~Disposes(r)
    BY DEF Late, Early, Fresh, Disposes, Disposing
<1>2. \A q \in Requests : Disposes(q)' <=> Disposes(q)
    BY <1>1 DEF Late, Disposes, Disposing
<1> QED
    BY <1>1, <1>2 DEF Turns, OneDisposes, Quiet, Late

\* An exception does not either, unless it is one of DisposeShellContext.
LEMMA ThrowLate ==
    ASSUME TypeOK, Turns, NEW r \in Requests, Throw(r), pc[r] \notin Early,
           UNCHANGED <<use, changes>>
    PROVE  Late(r)
<1>1. cache # r
    BY DEF Turns, Early, Disposes, Disposing
<1> QED
    BY <1>1 DEF TypeOK, Throw, Goto, Late, Early, Disposes, Disposing

\* The steps of requests that are past MonitorExtensions.
LEMMA LateSteps ==
    ASSUME TypeOK, Turns, NEW r \in Requests,
        \/ BuildCurrent(r) \/ LockAndBuild(r) \/ SetupExtensions(r) \/ StartShell(r)
        \/ StartFails(r) \/ StartClashes(r) \/ StartsAbort(r) \/ AllStarted(r)
        \/ EnterBody(r) \/ EndRequest(r) \/ StartUpdatedShells(r) \/ NothingToUpdate(r)
        \/ StartTenant(r) \/ StartTenantFails(r) \/ StopTenant(r) \/ StopTenantFails(r)
        \/ AwaitWriteLock(r) \/ ReplaceShell(r) \/ ActivateReplacement(r)
        \/ ReplacementFails(r) \/ ReplacementClashes(r)
    PROVE  Late(r)
<1> USE DEF TypeOK, Goto, Late, Early, Disposes, Disposing, bounds, lockVars
<1>1. CASE BuildCurrent(r)
    BY <1>1 DEF BuildCurrent
<1>2. CASE LockAndBuild(r)
    BY <1>2 DEF LockAndBuild
<1>3. CASE SetupExtensions(r)
    BY <1>3 DEF SetupExtensions
<1>4. CASE StartShell(r)
    BY <1>4 DEF StartShell
<1>5. CASE StartFails(r) \/ StartClashes(r)
    BY <1>5 DEF StartFails, StartClashes
<1>6. CASE AllStarted(r)
    BY <1>6 DEF AllStarted
<1>7. CASE EnterBody(r)
    BY <1>7 DEF EnterBody
<1>8. CASE EndRequest(r)
    BY <1>8 DEF EndRequest
<1>9. CASE StartUpdatedShells(r)
    BY <1>9 DEF StartUpdatedShells
<1>10. CASE StartTenant(r)
    BY <1>10 DEF StartTenant, ToStartTenant
<1>11. CASE StopTenant(r)
    BY <1>11 DEF StopTenant, ToStopTenant
<1>12. CASE AwaitWriteLock(r)
    BY <1>12 DEF AwaitWriteLock
<1>13. CASE ReplaceShell(r)
    BY <1>13 DEF ReplaceShell
<1>14. CASE ActivateReplacement(r)
    BY <1>14 DEF ActivateReplacement
<1>15. CASE NothingToUpdate(r)
    <2>1. CASE Broken
        <3>1. Throw(r) /\ pc[r] = "updating" /\ UNCHANGED <<use, changes>>
            BY <1>15, <2>1 DEF NothingToUpdate
        <3> QED
            BY <3>1, ThrowLate
    <2>2. CASE ~Broken
        BY <1>15, <2>2 DEF NothingToUpdate
    <2> QED
        BY <2>1, <2>2
<1>16. CASE \/ StartsAbort(r) \/ StartTenantFails(r) \/ StopTenantFails(r)
            \/ ReplacementFails(r) \/ ReplacementClashes(r)
    <2>1. /\ Throw(r) /\ pc[r] \in {"creating", "updating", "writing", "activating"}
          /\ UNCHANGED <<use, changes>>
        BY <1>16 DEF StartsAbort, StartTenantFails, ToStartTenant, StopTenantFails,
            ToStopTenant, ReplacementFails, ReplacementClashes
    <2> QED
        BY <2>1, ThrowLate
<1> QED
    BY <1>1, <1>2, <1>3, <1>4, <1>5, <1>6, <1>7, <1>8,
       <1>9, <1>10, <1>11, <1>12, <1>13, <1>14, <1>15, <1>16

\* Every step leaves the turns as they are, or takes one.
LEMMA TurnsStep ==
    ASSUME ShellHostAssumption, TypeOK, Turns, [Next]_vars
    PROVE  Turns'
<1>1. ASSUME NEW r \in Requests, BeginRequest(r) \/ EnterReadLock(r) PROVE Turns'
    <2>1. /\ pc[r] \in {"idle", "reading"} /\ pc'[r] \in {"reading", "monitor"}
          /\ \A q \in Requests \ {r} : pc'[q] = pc[q]
          /\ UNCHANGED <<use, shells, cache, stale, changes>>
        BY <1>1 DEF TypeOK, BeginRequest, EnterReadLock, Goto, bounds, listVars, lockVars
    <2>2. \A q \in Requests : Disposes(q)' <=> Disposes(q)
        BY <2>1 DEF Disposes, Disposing
    <2>3. Fresh => Fresh'
        BY <2>1 DEF Fresh
    <2> QED
        BY <2>1, <2>2, <2>3 DEF Turns, OneDisposes, Quiet
<1>2. ASSUME NEW r \in Requests, MonitorExtensions(r), stale PROVE Turns'
    <2>1. /\ pc[r] = "monitor" /\ pc'[r] = "dispose" /\ ~stale'
          /\ \A q \in Requests \ {r} : pc'[q] = pc[q]
          /\ cache = NoRequest /\ cache' = r
          /\ UNCHANGED <<use, shells, changes>>
        BY <1>2 DEF TypeOK, MonitorExtensions, CacheFree, Goto, bounds, listVars
    <2>2. Disposes(r)' /\ \A q \in Requests \ {r} : Disposes(q)' <=> Disposes(q)
        BY <2>1 DEF Disposes, Disposing
    <2>3. \A q \in Requests : cache # q
        BY <2>1 DEF ShellHostAssumption
    <2>4. Fresh => Fresh'
        BY <2>1, <2>3 DEF Fresh
    <2>5. OneDisposes => OneDisposes'
        BY <1>2, <2>1, <2>2 DEF OneDisposes
    <2>6. ~Quiet
        BY <1>2 DEF Quiet
    <2> QED
        BY <2>1, <2>2, <2>3, <2>4, <2>5, <2>6 DEF Turns
<1>3. ASSUME NEW r \in Requests, MonitorExtensions(r), ~stale PROVE Turns'
    <2>1. /\ pc[r] = "monitor" /\ pc'[r] = "build"
          /\ \A q \in Requests \ {r} : pc'[q] = pc[q]
          /\ cache = NoRequest /\ UNCHANGED <<use, stale, cache, changes>>
        BY <1>3 DEF TypeOK, MonitorExtensions, CacheFree, Goto, bounds
    <2>2. \A q \in Requests : Disposes(q)' <=> Disposes(q)
        BY <2>1 DEF Disposes, Disposing
    <2>3. Fresh => \A q \in Requests : ~Disposes(q)
        BY <2>1 DEF Fresh, Disposes, Disposing, ShellHostAssumption
    <2> QED
        BY <1>3, <2>1, <2>2, <2>3 DEF Turns, OneDisposes, Quiet
<1>4. ASSUME NEW r \in Requests, pc[r] \in {"dispose", "forgetting"}, Disposed(r),
             UNCHANGED <<use, stale, changes>>
      PROVE  Turns'
    <2>1. /\ ~Disposes(r)' /\ \A q \in Requests \ {r} : pc'[q] = pc[q]
          /\ cache' = IF cache = r THEN NoRequest ELSE cache
        BY <1>4 DEF TypeOK, Disposed, Goto, Disposes, Disposing
    <2>2. Disposes(r) /\ \A q \in Requests \ {r} : Disposes(q)' <=> Disposes(q)
        BY <1>4, <2>1 DEF Disposes, Disposing
    <2>3. \A q \in Requests : q # NoRequest
        BY DEF ShellHostAssumption
    <2>4. \A q \in Requests : cache' = q => cache = q /\ q # r
        BY <2>1, <2>3
    <2>5. CASE Fresh
        <3>1. cache = r /\ \A q \in Requests : ~Disposes(q)'
            BY <1>4, <2>1, <2>2, <2>5 DEF Fresh, Disposes, Disposing
        <3>2. changes = 0 => ~stale
            BY <2>3, <2>5, <3>1 DEF Fresh
        <3> QED
            BY <1>4, <2>4, <3>1, <3>2 DEF Turns, OneDisposes, Quiet
    <2>6. CASE ~Fresh
        BY <1>4, <2>1, <2>2, <2>4, <2>6 DEF Turns, OneDisposes, Quiet
    <2> QED
        BY <2>5, <2>6
<1>5. ASSUME NEW r \in Requests, Disposing(r)' \/ pc[r] = pc'[r], Disposes(r),
             \A q \in Requests \ {r} : pc'[q] = pc[q], pc[r] = "dispose" => shells # NoList,
             UNCHANGED <<use, stale, cache, changes>>
      PROVE  Turns'
    <2>1. \A q \in Requests : Disposes(q)' <=> Disposes(q)
        BY <1>5 DEF Disposes, Disposing
    <2>2. ~Fresh
        BY <1>5 DEF Fresh, Disposes, Disposing
    <2> QED
        BY <1>5, <2>1, <2>2 DEF Turns, OneDisposes, Quiet
<1>6. ASSUME NEW r \in Requests, pc[r] = "disposing", Throw(r), UNCHANGED <<use, changes>>
      PROVE  Turns'
    <2>1. /\ ~Disposes(r)' /\ \A q \in Requests \ {r} : pc'[q] = pc[q]
          /\ cache' = IF cache = r THEN NoRequest ELSE cache
          /\ stale' => stale \/ cache = r
        BY <1>6 DEF TypeOK, Throw, Goto, Disposes, Disposing
    <2>2. Disposes(r) /\ \A q \in Requests \ {r} : Disposes(q)' <=> Disposes(q)
        BY <1>6, <2>1 DEF Disposes, Disposing
    <2>3. \A q \in Requests : cache' = q => cache = q /\ q # r
        BY <2>1 DEF ShellHostAssumption
    <2>4. ~Fresh
        BY <1>6 DEF Fresh
    <2> QED
        BY <1>6, <2>1, <2>2, <2>3, <2>4 DEF Turns, OneDisposes, Quiet
<1>7. ASSUME NEW r \in Requests, ReloadExtensions(r) PROVE Turns'
    <2>1. /\ pc[r] = "body" /\ pc'[r] = "dispose" /\ r \in use.reloaders
          /\ \A q \in Requests \ {r} : pc'[q] = pc[q]
          /\ changes < use.changes /\ changes' = changes + 1
          /\ UNCHANGED <<use, stale, cache>>
        BY <1>7 DEF TypeOK, ReloadExtensions, Goto, lockVars
    <2>2. Disposes(r)' /\ \A q \in Requests \ {r} : Disposes(q)' <=> Disposes(q)
        BY <2>1 DEF Disposes, Disposing
    <2>3. ~Fresh
        BY <2>1 DEF Fresh
    <2>4. use.changes \in Nat /\ changes \in Nat
        BY UseTypes DEF TypeOK
    <2>5. use.changes <= 1 => changes = 0 /\ changes' # 0
        BY <2>1, <2>4
    <2>6. Quiet => OneDisposes'
        BY <2>1, <2>2 DEF OneDisposes, Quiet
    <2>7. \A q \in Requests : Disposes(q) => Disposes(q)'
        BY <2>2
    <2> QED
        BY <2>1, <2>3, <2>5, <2>6, <2>7 DEF Turns
<1>8. CASE ExtensionsChange
    <2>1. /\ changes < use.changes /\ changes' = changes + 1 /\ ~stale
          /\ UNCHANGED <<use, pc, cache, shells>>
        BY <1>8 DEF ExtensionsChange, lockVars, listVars
    <2>2. use.changes \in Nat /\ changes \in Nat
        BY UseTypes DEF TypeOK
    <2>3. changes' # 0 /\ (use.changes <= 1 => changes = 0)
        BY <2>1, <2>2
    <2>4. Fresh => Fresh'
        BY <2>1, <2>3 DEF Fresh
    <2>5. Quiet => OneDisposes'
        BY <2>1 DEF OneDisposes, Quiet, Disposes, Disposing
    <2>6. \A q \in Requests : Disposes(q)' <=> Disposes(q)
        BY <2>1 DEF Disposes, Disposing
    <2> QED
        BY <2>1, <2>3, <2>4, <2>5, <2>6 DEF Turns
<1>9. CASE UNCHANGED vars
    BY <1>9 DEF vars, bounds, listVars, lockVars, Turns, OneDisposes, Quiet, Fresh, Disposes,
        Disposing
<1>10. ASSUME NEW r \in Requests, DisposeShellContext(r) PROVE Turns'
    <2>1. CASE shells = NoList
        BY <1>4, <1>10, <2>1 DEF DisposeShellContext, bounds
    <2>2. CASE shells # NoList
        BY <1>5, <1>10, <2>2
        DEF TypeOK, DisposeShellContext, Goto, bounds, Disposes, Disposing
    <2> QED
        BY <2>1, <2>2
<1>11. ASSUME NEW r \in Requests, DisposeShells(r) PROVE Turns'
    <2>1. CASE \E c \in Listed : life[c] = "disposed"
        BY <1>6, <1>11, <2>1 DEF DisposeShells, bounds
    <2>2. CASE ~\E c \in Listed : life[c] = "disposed"
        BY <1>5, <1>11, <2>2
        DEF TypeOK, DisposeShells, Goto, bounds, lockVars, Disposes, Disposing
    <2> QED
        BY <2>1, <2>2
<1>12. ASSUME NEW r \in Requests, ForgetShells(r) PROVE Turns'
    BY <1>4, <1>12 DEF ForgetShells, bounds
<1>13. ASSUME NEW r \in Requests, NEW t \in Tenants,
              DescriptorChanged(r, t) \/ \E s \in use.saved : SaveSettings(r, t, s)
       PROVE  Turns'
    <2>1. pc[r] = "body" /\ UNCHANGED <<use, cache, changes, stale, pc>>
        BY <1>13 DEF DescriptorChanged, SaveSettings, lockVars
    <2>2. Late(r)
        BY <2>1 DEF Late, Early, Disposes, Disposing
    <2> QED
        BY <2>2, TurnsLate
<1>14. ASSUME NEW r \in Requests, Proceed(r) PROVE Turns'
    BY <1>1, <1>2, <1>3, <1>10, <1>11, <1>12, <1>14, LateSteps, TurnsLate DEF Proceed
<1> QED
    BY <1>1, <1>7, <1>8, <1>9, <1>13, <1>14 DEF Next

------------------------------------------------------------------------------
\* One request at a time is between the check of DisposeShellContext and its end, and
\* none where extensions do not change.
LEMMA OneDisposing ==
    ASSUME ShellHostAssumption, TypeOK, Turns, NoneDropped
    PROVE  /\ \A q, r \in Requests : Disposing(q) /\ Disposing(r) => q = r
           /\ use.changes = 0 => \A r \in Requests : ~Disposing(r)
<1>1. use.changes = 0 => changes = 0
    BY UseTypes DEF TypeOK
<1>2. use.changes = 0 => use.changes <= 1
    OBVIOUS
<1>3. CASE use.reloaders = {}
    <2>1. \A q, r \in Requests : Disposing(q) /\ Disposing(r) => q = r
        BY <1>3 DEF Turns, Disposes
    <2> QED
        BY <1>1, <1>2, <2>1 DEF Turns, Quiet, Fresh, Disposes, Disposing
<1>4. CASE use.changes <= 1
    BY <1>1, <1>4 DEF Turns, OneDisposes, Quiet, Fresh, Disposes, Disposing
<1> QED
    BY <1>3, <1>4 DEF NoneDropped, OneReload

\* Steps that leave the lists and the contexts alone.
LEMMA ListsKept ==
    ASSUME Lists, UNCHANGED <<use, tenantOf, life, shells>>,
           \A q \in Requests : Disposing(q)' => Disposing(q) \/ shells # NoList,
           \A q \in Requests : pc'[q] = "forgetting" =>
                pc[q] = "forgetting" /\ sync' = NoRequest
    PROVE  Lists'
<1>1. Listed' = Listed /\ Active' = Active
    BY DEF Listed, Active
<1> QED
    BY <1>1 DEF Lists

\* Steps that nobody takes who comes to hold _syncLock.
LEMMA HeldKept ==
    ASSUME Held, UNCHANGED <<tenantOf, shells>>, toBuild' \subseteq toBuild,
           \A q \in Requests : Holds(q)' =>
                /\ pc'[q] = pc[q] /\ sync' = sync
                /\ job'[q] = job[q] /\ context'[q] = context[q]
    PROVE  Held'
<1>1. Listed' = Listed
    BY DEF Listed
<1> QED
    BY <1>1 DEF Held, Holds

\* Steps that do not flag or take a tenant.
LEMMA FlaggedKept ==
    ASSUME Flagged, UNCHANGED <<use, pending, job>>,
           \A q \in Requests : pc'[q] = "updating" => pc[q] = "updating"
    PROVE  Flagged'
    BY DEF Flagged, Activated

\* Every step keeps flagged what ActivateShell(settings) is there for.
LEMMA FlaggedStep ==
    ASSUME ShellHostAssumption, TypeOK, Flagged, [Next]_vars
    PROVE  Flagged'
<1>1. ASSUME NEW r \in Requests, Throw(r), UNCHANGED <<use, job>> PROVE Flagged'
    BY <1>1 DEF TypeOK, Throw, Goto, Flagged, Activated
<1>2. ASSUME NEW r \in Requests, StartUpdatedShells(r) PROVE Flagged'
    <2>1. CASE pending[r] = <<>>
        BY <1>2, <2>1 DEF TypeOK, StartUpdatedShells, Goto, Flagged, Activated, bounds
    <2>2. CASE pending[r] # <<>>
        <3>1. /\ pending[r] \in Seq(Job) /\ 1 \in DOMAIN pending[r]
              /\ Head(pending[r]) = pending[r][1]
              /\ \A i \in DOMAIN Tail(pending[r]) :
                    i + 1 \in DOMAIN pending[r] /\ Tail(pending[r])[i] = pending[r][i + 1]
            BY <2>2 DEF TypeOK
        <3>2. /\ pending' = [pending EXCEPT ![r] = Tail(pending[r])]
              /\ job' = [job EXCEPT ![r] = Head(pending[r])]
              /\ pc' = [pc EXCEPT ![r] = "updating"] /\ use' = use
            BY <1>2, <2>2 DEF StartUpdatedShells, Taken, Goto, bounds
        <3>3. \A q \in Requests : \A i \in DOMAIN pending'[q] :
                pending'[q][i].settings.state \in Activated
            <4>1. ASSUME NEW q \in Requests, NEW i \in DOMAIN pending'[q]
                  PROVE  pending'[q][i].settings.state \in Activated
                <5>1. CASE q = r
                    BY <3>1, <3>2, <4>1, <5>1 DEF TypeOK, Flagged
                <5>2. CASE q # r
                    BY <3>2, <4>1, <5>2 DEF TypeOK, Flagged
                <5> QED
                    BY <5>1, <5>2
            <4> QED
                BY <4>1
        <3>4. \A q \in Requests : pc'[q] = "updating" => job'[q].settings.state \in Activated
            BY <3>1, <3>2 DEF TypeOK, Flagged
        <3> QED
            BY <3>2, <3>3, <3>4 DEF Flagged, Activated
    <2> QED
        BY <2>1, <2>2
<1>3. ASSUME NEW r \in Requests, NEW t \in Tenants, NEW s, Flag(r, t, s),
             s.state \in Activated, UNCHANGED <<use, job, pc>>
      PROVE  Flagged'
    <2> DEFINE new == [tenant |-> t, settings |-> s]
    <2>1. ASSUME NEW q \in Requests, NEW i \in DOMAIN pending'[q]
          PROVE  pending'[q][i].settings.state \in Activated
        <3>1. CASE pending'[q] = pending[q]
            BY <2>1, <3>1 DEF Flagged
        <3>2. CASE q = r /\ pending'[q] = Append(pending[r], new)
            <4>1. /\ i \in DOMAIN pending[r] => pending'[q][i] = pending[r][i]
                  /\ i \notin DOMAIN pending[r] => pending'[q][i] = new
                BY <2>1, <3>2 DEF TypeOK
            <4> QED
                BY <1>3, <4>1 DEF Flagged
        <3> QED
            BY <1>3, <3>1, <3>2 DEF TypeOK, Flag
    <2> QED
        BY <1>3, <2>1 DEF Flagged, Activated
<1>4. ASSUME NEW r \in Requests, NEW t \in Tenants, NEW s \in use.saved,
             SaveSettings(r, t, s)
      PROVE  Flagged'
    BY <1>3, <1>4 DEF SaveSettings, Activated
<1>5. ASSUME NEW r \in Requests, NEW t \in Tenants, DescriptorChanged(r, t)
      PROVE  Flagged'
    BY <1>3, <1>5 DEF DescriptorChanged, Activated
<1>6. ASSUME NEW r \in Requests,
        \/ BeginRequest(r) \/ EnterReadLock(r) \/ MonitorExtensions(r)
        \/ DisposeShellContext(r) \/ ForgetShells(r) \/ BuildCurrent(r) \/ LockAndBuild(r)
        \/ SetupExtensions(r) \/ AllStarted(r) \/ EnterBody(r) \/ EndRequest(r)
        \/ StartTenant(r) \/ StopTenant(r) \/ AwaitWriteLock(r) \/ ReplaceShell(r)
        \/ ActivateReplacement(r) \/ ReloadExtensions(r)
      PROVE  Flagged'
    <2>1. /\ UNCHANGED <<use, pending, job>> /\ \E l \in Labels \ {"updating"} : Goto(r, l)
        BY <1>6 DEF BeginRequest, EnterReadLock, MonitorExtensions, DisposeShellContext,
            Disposed, ForgetShells, BuildCurrent, LockAndBuild, SetupExtensions, AllStarted,
            EnterBody, EndRequest, StartTenant, StopTenant, AwaitWriteLock, ReplaceShell,
            ActivateReplacement, ReloadExtensions, bounds, requestVars, Labels
    <2> QED
        BY <2>1, FlaggedKept DEF TypeOK, Goto
<1>7. ASSUME NEW r \in Requests, StartShell(r) \/ StartFails(r) \/ StartClashes(r)
      PROVE  Flagged'
    BY <1>7, FlaggedKept DEF StartShell, StartFails, StartClashes, bounds, requestVars
<1>8. ASSUME NEW r \in Requests, DisposeShells(r) PROVE Flagged'
    <2>1. CASE Throw(r)
        BY <1>1, <1>8, <2>1 DEF DisposeShells, bounds
    <2>2. CASE ~Throw(r)
        BY <1>8, <2>2, FlaggedKept DEF TypeOK, DisposeShells, bounds, Goto
    <2> QED
        BY <2>1, <2>2
<1>9. ASSUME NEW r \in Requests, NothingToUpdate(r) PROVE Flagged'
    <2>1. CASE Throw(r)
        BY <1>1, <1>9, <2>1 DEF NothingToUpdate, bounds
    <2>2. CASE ~Throw(r)
        BY <1>9, <2>2, FlaggedKept DEF TypeOK, NothingToUpdate, bounds, Goto
    <2> QED
        BY <2>1, <2>2
<1>10. ASSUME NEW r \in Requests,
        \/ StartsAbort(r) \/ StartTenantFails(r) \/ StopTenantFails(r)
        \/ ReplacementFails(r) \/ ReplacementClashes(r)
       PROVE  Flagged'
    BY <1>1, <1>10 DEF StartsAbort, StartTenantFails, StopTenantFails, ReplacementFails,
        ReplacementClashes, bounds
<1>11. CASE ExtensionsChange \/ UNCHANGED vars
    BY <1>11, FlaggedKept DEF ExtensionsChange, vars, bounds, requestVars
<1> QED
    BY <1>1, <1>2, <1>4, <1>5, <1>6, <1>7, <1>8, <1>9, <1>10, <1>11 DEF Next, Proceed

\* Nobody holds _syncLock that is free, and nobody else one that is held.
LEMMA OneHolds ==
    ASSUME ShellHostAssumption, Held
    PROVE  /\ sync = NoRequest => \A r \in Requests : ~Holds(r)
           /\ \A q, r \in Requests : Holds(q) /\ Holds(r) => q = r
    BY DEF Held, ShellHostAssumption

\* Steps of a request that leave the list alone and hold nothing after them.
LEMMA HeldAside ==
    ASSUME TypeOK, Held, NEW r \in Requests, ~Holds(r)',
           \A q \in Requests \ {r} : pc'[q] = pc[q] /\ job'[q] = job[q],
           UNCHANGED <<tenantOf, shells, context, toBuild>>,
           sync' = sync \/ sync = r
    PROVE  Held'
<1>1. \A q \in Requests : Holds(q)' => q # r /\ Holds(q)
    BY DEF Holds
<1>2. \A q \in Requests : Holds(q)' => sync' = sync
    BY <1>1 DEF Held
<1> QED
    BY <1>1, <1>2, HeldKept

\* A tenant is started that has no context in the list, while nobody disposes.
LEMMA StartLists ==
    ASSUME ShellHostAssumption, TypeOK, Lists, NEW t \in Tenants, NEW s, Start(t, s),
           \A c \in Listed : tenantOf[c] # t,
           \A q \in Requests : pc[q] # "forgetting" /\ pc'[q] # "forgetting",
           \A q \in Requests : Disposing(q)' => Disposing(q), UNCHANGED use
    PROVE  /\ Lists' /\ Listed' = Listed \cup {New}
           /\ New \notin Listed /\ tenantOf'[New] = t
           /\ \A c \in Listed : tenantOf'[c] = tenantOf[c]
<1>1. New \in Contexts /\ life[New] = "unused"
    BY NewIsUnused DEF Start, CreateShellContext
<1>2. New \notin Listed /\ Listed \subseteq Contexts
    BY <1>1, ListedTypes DEF Lists
<1>3. shells' = Listed \cup {New}
    BY DEF Start
<1>4. shells' # NoList /\ Listed' = Listed \cup {New}
    BY <1>1, <1>2, <1>3 DEF ShellHostAssumption, Listed
<1>5. /\ tenantOf'[New] = t /\ life'[New] = "active"
      /\ \A c \in Contexts \ {New} : tenantOf'[c] = tenantOf[c] /\ life'[c] = life[c]
    BY <1>1 DEF TypeOK, Start, CreateShellContext
<1>6. \A c \in Listed : tenantOf'[c] = tenantOf[c] /\ life'[c] = life[c]
    BY <1>2, <1>5
<1>7. \A c \in Listed' : life'[c] # "unused" /\ tenantOf'[c] \in Tenants
    BY <1>4, <1>5, <1>6 DEF Lists
<1>8. \A c, d \in Listed' : tenantOf'[c] = tenantOf'[d] => c = d
    BY <1>4, <1>5, <1>6 DEF Lists
<1>9. Active' \subseteq Listed'
    BY <1>4, <1>5 DEF Lists, Active
<1>10. shells' # {}
    BY <1>3
<1> QED
    BY <1>2, <1>4, <1>5, <1>6, <1>7, <1>8, <1>9, <1>10 DEF Lists

\* StartTenant: the tenant has no context, for none that waits for its setup is saved.
LEMMA StartTenantStep ==
    ASSUME ShellHostAssumption, TypeOK, Turns, NoneDropped, Held, Flagged, Lists,
           NEW r \in Requests, StartTenant(r)
    PROVE  Held' /\ Lists'
<1> DEFINE t == job[r].tenant
<1>1. /\ pc[r] = "updating" /\ sync = NoRequest /\ ~Broken
      /\ Start(t, job[r].settings) /\ Goto(r, "ending")
      /\ UNCHANGED <<use, sync, toBuild, job, context>>
    BY DEF StartTenant, ToStartTenant, SyncFree, bounds, lockVars, requestVars
<1>2. t \in Tenants
    BY DEF TypeOK, Job
<1>3. job[r].settings.state # "Uninitialized"
    BY <1>1 DEF Flagged, Activated, NoneDropped
<1>4. Current(r) = NoContext
    BY <1>3 DEF StartTenant, ToStartTenant
<1>5. \A c \in Listed : tenantOf[c] # t
    BY <1>4, ContextOfTenant, ListedTypes DEF Current
<1>6. pc'[r] = "ending" /\ \A q \in Requests \ {r} : pc'[q] = pc[q]
    BY <1>1 DEF TypeOK, Goto
<1>7. \A q \in Requests : pc[q] # "forgetting"
    <2>1. ASSUME NEW q \in Requests, pc[q] = "forgetting" PROVE FALSE
        <3>1. \A c \in Listed : life[c] = "disposed"
            BY <2>1 DEF Lists
        <3>2. Listed = {}
            BY <1>1, <3>1 DEF Broken
        <3>3. shells = {}
            BY <1>1, <3>2, ListedTypes DEF Broken
        <3>4. use.changes = 0 /\ Disposing(q)
            BY <2>1, <3>3 DEF Lists, Disposing
        <3> QED
            BY <3>4, OneDisposing
    <2> QED
        BY <2>1
<1>8. \A q \in Requests : pc'[q] # "forgetting" /\ (Disposing(q)' => Disposing(q))
    BY <1>6, <1>7 DEF Disposing
<1>9. Lists'
    BY <1>1, <1>2, <1>5, <1>7, <1>8, StartLists
<1>10. \A q \in Requests : ~Holds(q)'
    BY <1>1, <1>6, OneHolds DEF Holds
<1> QED
    BY <1>9, <1>10 DEF Held, Holds

\* StartShell: the tenants that are left to start have no context.
LEMMA StartShellStep ==
    ASSUME ShellHostAssumption, TypeOK, Turns, NoneDropped, Held, Flagged, Lists,
           NEW r \in Requests, StartShell(r)
    PROVE  Held' /\ Lists'
<1>1. PICK j \in toBuild : Start(j.tenant, j.settings) /\ toBuild' = toBuild \ {j}
    BY DEF StartShell
<1>2. pc[r] = "creating" /\ UNCHANGED <<use, sync, job, context, pc>>
    BY DEF StartShell, bounds, lockVars, requestVars
<1>3. j.tenant \in Tenants
    BY DEF TypeOK, Attempt
<1>4. /\ sync = r /\ \A c \in Listed : tenantOf[c] # j.tenant
      /\ \A i \in toBuild' : i.tenant # j.tenant
      /\ \A i \in toBuild : \A c \in Listed : tenantOf[c] # i.tenant
      /\ \A i, k \in toBuild : i.tenant = k.tenant => i = k
    BY <1>1, <1>2 DEF Held, Holds
<1>5. \A q \in Requests : pc[q] # "forgetting" /\ (Disposing(q)' => Disposing(q))
    BY <1>2, <1>4 DEF Lists, Disposing, ShellHostAssumption
<1>6. /\ Lists' /\ Listed' = Listed \cup {New} /\ tenantOf'[New] = j.tenant
      /\ \A c \in Listed : tenantOf'[c] = tenantOf[c]
    BY <1>1, <1>2, <1>3, <1>4, <1>5, StartLists
<1>7. \A q \in Requests : Holds(q)' => q = r
    BY <1>2, OneHolds DEF Holds
<1>8. \A i \in toBuild' : \A c \in Listed' : tenantOf'[c] # i.tenant
    BY <1>1, <1>4, <1>6
<1> QED
    BY <1>1, <1>2, <1>4, <1>6, <1>7, <1>8 DEF Held, Holds

\* StopTenant: the list may become empty, where extensions do not change.
LEMMA StopTenantStep ==
    ASSUME ShellHostAssumption, TypeOK, NoneDropped, Held, Flagged, Lists,
           NEW r \in Requests, StopTenant(r)
    PROVE  Held' /\ Lists'
<1> DEFINE c == Current(r)
<1>1. /\ pc[r] = "updating" /\ sync = NoRequest /\ ~Broken
      /\ shells' = shells \ {c} /\ life' = [life EXCEPT ![c] = "unused"]
      /\ Goto(r, "ending") /\ UNCHANGED <<use, sync, tenantOf>>
    BY DEF StopTenant, ToStopTenant, SyncFree, bounds, lockVars
<1>2. use.changes = 0
    <2>1. "Disabled" \in use.saved
        BY <1>1 DEF StopTenant, ToStopTenant, Flagged, Activated
    <2>2. use.changes \in Nat
        BY UseTypes
    <2> QED
        BY <2>1, <2>2 DEF NoneDropped
<1>3. Listed = shells /\ shells # NoList /\ Listed \subseteq Contexts
    BY <1>1, ListedTypes DEF Broken
<1>4. Listed' = Listed \ {c} /\ shells' # NoList
    BY <1>1, <1>3 DEF Listed, ShellHostAssumption
<1>5. pc'[r] = "ending" /\ \A q \in Requests \ {r} : pc'[q] = pc[q]
    BY <1>1 DEF TypeOK, Goto
<1>6. \A q \in Requests : ~Holds(q)'
    BY <1>1, <1>5, OneHolds DEF Holds
<1>7. \A d \in Contexts \ {c} : life'[d] = life[d]
    BY <1>1 DEF TypeOK
<1>8. Active' \subseteq Listed'
    <2>1. ASSUME NEW d \in Active' PROVE d \in Listed'
        <3>1. d \in Contexts /\ life'[d] = "active"
            BY DEF Active
        <3>2. d # c
            BY <1>1, <3>1 DEF TypeOK
        <3> QED
            BY <1>4, <1>7, <3>1, <3>2 DEF Lists, Active
    <2> QED
        BY <2>1
<1>9. \A q \in Requests : pc'[q] = "forgetting" => pc[q] = "forgetting"
    BY <1>5
<1>10. Lists'
    BY <1>1, <1>2, <1>3, <1>4, <1>7, <1>8, <1>9 DEF Lists
<1> QED
    BY <1>6, <1>10 DEF Held, Holds

\* ReplaceShell: the new context takes the place of the one of its tenant.
LEMMA ReplaceShellStep ==
    ASSUME ShellHostAssumption, TypeOK, Held, Lists, NEW r \in Requests, ReplaceShell(r)
    PROVE  Held' /\ Lists'
<1> DEFINE t == job[r].tenant
           old == context[r]
<1>1. /\ pc[r] = "writing" /\ ~Broken /\ CreateShellContext(t, job[r].settings)
      /\ life' = [Retire(old) EXCEPT ![New] = "built"]
      /\ shells' = {c \in shells : tenantOf[c] # t} \cup {New}
      /\ context' = [context EXCEPT ![r] = New]
      /\ Goto(r, "activating") /\ UNCHANGED <<use, sync, toBuild, job>>
    BY DEF ReplaceShell, bounds, lockVars
<1>2. New \in Contexts /\ life[New] = "unused" /\ t \in Tenants
    BY <1>1, NewIsUnused DEF CreateShellContext, TypeOK, Job
<1>3. Listed = shells /\ shells # NoList /\ Listed \subseteq Contexts /\ New \notin Listed
    BY <1>1, <1>2, ListedTypes DEF Broken, Lists
<1>4. sync = r /\ old \in Listed /\ tenantOf[old] = t
    BY <1>1 DEF Held, Holds
<1>5. {c \in shells : tenantOf[c] # t} = Listed \ {old}
    BY <1>3, <1>4 DEF Lists
<1>6. Listed' = (Listed \ {old}) \cup {New} /\ shells' # NoList /\ shells' # {}
    BY <1>1, <1>2, <1>3, <1>5 DEF Listed, ShellHostAssumption
<1>7. /\ tenantOf'[New] = t /\ life'[New] = "built" /\ life'[old] = "unused"
      /\ \A c \in Contexts \ {New, old} : tenantOf'[c] = tenantOf[c] /\ life'[c] = life[c]
    BY <1>1, <1>2, <1>3, <1>4 DEF TypeOK, CreateShellContext, Retire
<1>8. /\ \A c \in Listed' : life'[c] # "unused" /\ tenantOf'[c] \in Tenants
      /\ \A c, d \in Listed' : tenantOf'[c] = tenantOf'[d] => c = d
    BY <1>2, <1>3, <1>4, <1>6, <1>7 DEF Lists
<1>9. Active' \subseteq Listed'
    BY <1>3, <1>4, <1>6, <1>7 DEF Lists, Active
<1>10. pc'[r] = "activating" /\ \A q \in Requests \ {r} : pc'[q] = pc[q]
    BY <1>1 DEF TypeOK, Goto
<1>11. \A q \in Requests : pc'[q] # "forgetting"
    BY <1>4, <1>10 DEF Lists, ShellHostAssumption
<1>12. Lists'
    BY <1>6, <1>8, <1>9, <1>11 DEF Lists
<1>13. \A q \in Requests : Holds(q)' => q = r
    BY <1>1, <1>10, OneHolds DEF Holds
<1>14. context'[r] \in Listed' /\ tenantOf'[context'[r]] = job'[r].tenant
    BY <1>1, <1>6, <1>7 DEF TypeOK
<1> QED
    BY <1>1, <1>4, <1>10, <1>12, <1>13, <1>14 DEF Held, Holds

\* The new context is activated, or is not, or could not be created: it stays listed.
LEMMA ReplacedStep ==
    ASSUME ShellHostAssumption, TypeOK, Held, Lists, NEW r \in Requests,
           ActivateReplacement(r) \/ ReplacementFails(r)
    PROVE  Held' /\ Lists'
<1> DEFINE c == context[r]
<1>1. /\ pc[r] \in {"writing", "activating"} /\ UNCHANGED <<use, tenantOf, shells>>
      /\ \/ life' = [life EXCEPT ![c] = "active"]
         \/ life' = [life EXCEPT ![c] = Kept(c, "terminated")]
         \/ life' = [life EXCEPT ![c] = Kept(c, "built")]
    BY DEF ActivateReplacement, ReplacementFails, bounds
<1>2. sync = r /\ c \in Listed
    BY <1>1 DEF Held, Holds
<1>3. sync' = NoRequest /\ ~Holds(r)' /\ pc'[r] # "forgetting" /\ ~Disposing(r)'
    BY <1>2
    DEF TypeOK, ActivateReplacement, ReplacementFails, Throw, Goto, Holds, Disposing
<1>4. \A q \in Requests \ {r} : pc'[q] = pc[q]
    BY DEF TypeOK, ActivateReplacement, ReplacementFails, Throw, Goto
<1>5. Listed' = Listed /\ Listed \subseteq Contexts
    BY <1>1, ListedTypes DEF Listed
<1>6. life'[c] # "unused" /\ \A d \in Contexts \ {c} : life'[d] = life[d]
    BY <1>1, <1>2, <1>5 DEF TypeOK, Kept
<1>7. \A q \in Requests : pc'[q] # "forgetting" /\ ~Holds(q)'
    BY <1>1, <1>2, <1>3, <1>4, OneHolds DEF Lists, Holds, ShellHostAssumption
<1>8. Active' \subseteq Listed'
    BY <1>2, <1>5, <1>6 DEF Lists, Active
<1>9. \A q \in Requests : Disposing(q)' => shells' # NoList
    BY <1>1, <1>3, <1>4 DEF Lists, Disposing
<1>10. Lists'
    BY <1>1, <1>5, <1>6, <1>7, <1>8, <1>9 DEF Lists
<1> QED
    BY <1>7, <1>10 DEF Held, Holds

\* The list is disposed: nothing is active until it is forgotten.
LEMMA DisposeShellsStep ==
    ASSUME ShellHostAssumption, TypeOK, Turns, NoneDropped, Held, Lists,
           NEW r \in Requests, DisposeShells(r)
    PROVE  Held' /\ Lists'
<1>1. /\ pc[r] = "disposing" /\ sync = NoRequest
      /\ UNCHANGED <<use, tenantOf, shells, toBuild, job, context>>
    BY DEF DisposeShells, SyncFree, bounds
<1>2. \A q \in Requests : ~Holds(q)
    BY <1>1, OneHolds
<1>3. CASE \E c \in Listed : life[c] = "disposed"
    <2>1. Throw(r) /\ UNCHANGED life
        BY <1>3 DEF DisposeShells
    <2>2. pc'[r] = "idle" /\ \A q \in Requests \ {r} : pc'[q] = pc[q]
        BY <2>1 DEF TypeOK, Throw, Goto
    <2>3. sync' = NoRequest
        BY <1>1, <2>1 DEF Throw
    <2>4. Held'
        BY <1>2, <2>2 DEF Held, Holds
    <2>5. Lists'
        BY <1>1, <2>1, <2>2, <2>3, ListsKept DEF Disposing
    <2> QED
        BY <2>4, <2>5
<1>4. CASE ~\E c \in Listed : life[c] = "disposed"
    <2>1. /\ life' = [c \in Contexts |-> IF c \in Listed THEN "disposed" ELSE life[c]]
          /\ Goto(r, "forgetting") /\ sync' = sync
        BY <1>4 DEF DisposeShells, lockVars
    <2>2. pc'[r] = "forgetting" /\ \A q \in Requests \ {r} : pc'[q] = pc[q]
        BY <2>1 DEF TypeOK, Goto
    <2>3. Held'
        BY <1>2, <2>2 DEF Held, Holds
    <2>4. Listed' = Listed /\ Listed \subseteq Contexts
        BY <1>1, ListedTypes DEF Listed
    <2>5. /\ \A c \in Listed' : life'[c] = "disposed"
          /\ Active' \subseteq Listed'
        BY <2>1, <2>4 DEF Lists, Active
    <2>6. \A q \in Requests : Disposing(q)' => Disposing(q)
        BY <1>1, <2>2 DEF Disposing
    <2> QED
        BY <1>1, <2>1, <2>3, <2>4, <2>5, <2>6 DEF Lists
<1> QED
    BY <1>3, <1>4

\* The list is forgotten: everything in it was disposed.
LEMMA ForgetShellsStep ==
    ASSUME ShellHostAssumption, TypeOK, Turns, NoneDropped, Held, Lists,
           NEW r \in Requests, ForgetShells(r)
    PROVE  Held' /\ Lists'
<1>1. /\ pc[r] = "forgetting" /\ shells' = NoList /\ Disposed(r)
      /\ life' = [c \in Contexts |-> IF life[c] = "disposed" THEN "unused" ELSE life[c]]
      /\ UNCHANGED <<use, sync>>
    BY DEF ForgetShells, bounds
<1>2. pc'[r] \in {"build", "body"} /\ \A q \in Requests \ {r} : pc'[q] = pc[q]
    BY <1>1 DEF TypeOK, Disposed, Goto
<1>3. sync = NoRequest /\ \A c \in Listed : life[c] = "disposed"
    BY <1>1 DEF Lists
<1>4. \A q \in Requests : ~Holds(q)'
    BY <1>2, <1>3, OneHolds DEF Holds
<1>5. \A q \in Requests : ~Disposing(q)'
    BY <1>1, <1>2, OneDisposing DEF Disposing
<1>6. Listed' = {}
    BY <1>1 DEF Listed
<1>7. Active' = {}
    BY <1>1, <1>3 DEF Lists, Active
<1>8. shells' # {}
    BY <1>1 DEF ShellHostAssumption
<1> QED
    BY <1>4, <1>5, <1>6, <1>7, <1>8 DEF Held, Holds, Lists, Disposing

\* The locks are taken to build the list, when there is none.
LEMMA BuildStep ==
    ASSUME ShellHostAssumption, TypeOK, Held, Lists, NEW r \in Requests,
           LockAndBuild(r) \/ SetupExtensions(r) \/ AllStarted(r)
    PROVE  Held' /\ Lists'
<1>1. UNCHANGED <<use, tenantOf, life, shells, job, context>>
    BY DEF LockAndBuild, SetupExtensions, AllStarted, bounds, listVars, contextVars,
        requestVars
<1>2. CASE LockAndBuild(r) /\ shells # NoList
    <2>1. pc[r] = "building" /\ sync' = sync /\ Goto(r, "built") /\ toBuild' = toBuild
        BY <1>2 DEF LockAndBuild
    <2>2. pc'[r] = "built" /\ \A q \in Requests \ {r} : pc'[q] = pc[q]
        BY <2>1 DEF TypeOK, Goto
    <2>3. Held'
        BY <1>1, <2>1, <2>2, HeldAside DEF Holds
    <2>4. Lists'
        BY <1>1, <2>1, <2>2, ListsKept DEF Lists, Disposing
    <2> QED
        BY <2>3, <2>4
<1>3. CASE LockAndBuild(r) /\ shells = NoList
    <2>1. sync = NoRequest /\ sync' = r /\ Goto(r, "setup")
        BY <1>3 DEF LockAndBuild, SyncFree
    <2>2. pc'[r] = "setup" /\ \A q \in Requests \ {r} : pc'[q] = pc[q]
        BY <2>1 DEF TypeOK, Goto
    <2>3. \A q \in Requests : Holds(q)' => q = r
        BY <2>1, <2>2, OneHolds DEF Holds
    <2>4. Held'
        BY <1>1, <1>3, <2>1, <2>2, <2>3 DEF Held, Holds
    <2>5. \A q \in Requests : ~Disposing(q)'
        BY <1>3, <2>2 DEF Lists, Disposing
    <2>6. Lists'
        BY <1>1, <2>5, ListsKept DEF Disposing
    <2> QED
        BY <2>4, <2>6
<1>4. CASE SetupExtensions(r)
    <2>1. pc[r] = "setup" /\ toBuild' = ToStart /\ Goto(r, "creating") /\ sync' = sync
        BY <1>4 DEF SetupExtensions, lockVars
    <2>2. pc'[r] = "creating" /\ \A q \in Requests \ {r} : pc'[q] = pc[q]
        BY <2>1 DEF TypeOK, Goto
    <2>3. sync = r /\ Listed = {} /\ Listed' = {}
        BY <1>1, <2>1 DEF Held, Holds, Listed
    <2>4. \A i, j \in ToStart : i.tenant = j.tenant => i = j
        BY DEF ToStart
    <2>5. \A q \in Requests : Holds(q)' => q = r
        BY <2>1, <2>2, OneHolds DEF Holds
    <2>6. Held'
        BY <2>1, <2>2, <2>3, <2>4, <2>5 DEF Held, Holds
    <2>7. Lists'
        BY <1>1, <2>1, <2>2, ListsKept DEF Lists, Disposing
    <2> QED
        BY <2>6, <2>7
<1>5. CASE AllStarted(r)
    <2>1. pc[r] = "creating" /\ sync' = NoRequest /\ Goto(r, "built") /\ toBuild' = toBuild
        BY <1>5 DEF AllStarted
    <2>2. pc'[r] = "built" /\ \A q \in Requests \ {r} : pc'[q] = pc[q]
        BY <2>1 DEF TypeOK, Goto
    <2>3. Held'
        BY <1>1, <2>1, <2>2, HeldAside DEF Held, Holds
    <2>4. Lists'
        BY <1>1, <2>1, <2>2, ListsKept DEF Disposing
    <2> QED
        BY <2>3, <2>4
<1> QED
    BY <1>2, <1>3, <1>4, <1>5

\* _syncLock is taken to replace a context, which is in a list that is not disposed.
LEMMA AwaitWriteLockStep ==
    ASSUME ShellHostAssumption, TypeOK, Held, Lists, NEW r \in Requests, AwaitWriteLock(r)
    PROVE  Held' /\ Lists'
<1>1. /\ pc[r] = "updating" /\ sync = NoRequest /\ sync' = r /\ ~Broken
      /\ Current(r) # NoContext /\ context' = [context EXCEPT ![r] = Current(r)]
      /\ Goto(r, "writing") /\ UNCHANGED <<use, tenantOf, life, shells, job>>
    BY DEF AwaitWriteLock, SyncFree, bounds, listVars, contextVars
<1>2. pc'[r] = "writing" /\ \A q \in Requests \ {r} : pc'[q] = pc[q]
    BY <1>1 DEF TypeOK, Goto
<1>3. Current(r) \in Listed /\ tenantOf[Current(r)] = job[r].tenant
    BY <1>1, ContextOfTenant DEF Current, ContextOf
<1>4. context'[r] = Current(r) /\ Listed' = Listed
    BY <1>1 DEF TypeOK, Listed
<1>5. \A q \in Requests : Holds(q)' => q = r
    BY <1>1, <1>2, OneHolds DEF Holds
<1>6. Held'
    BY <1>1, <1>2, <1>3, <1>4, <1>5 DEF Held, Holds
<1>7. \A q \in Requests : pc'[q] # "forgetting"
    BY <1>1, <1>2, <1>3 DEF Lists, Broken
<1>8. Lists'
    BY <1>1, <1>2, <1>7, ListsKept DEF Disposing
<1> QED
    BY <1>6, <1>8

\* What the other steps leave alone.
LEMMA OtherSteps ==
    ASSUME ShellHostAssumption, TypeOK, Held, Lists, NEW r \in Requests,
        \/ BeginRequest(r) \/ EnterReadLock(r) \/ MonitorExtensions(r)
        \/ DisposeShellContext(r) \/ BuildCurrent(r) \/ EnterBody(r) \/ ReloadExtensions(r)
        \/ EndRequest(r) \/ StartUpdatedShells(r) \/ NothingToUpdate(r)
    PROVE  Held' /\ Lists'
<1>1. UNCHANGED <<use, tenantOf, life, shells, context, toBuild>>
    BY DEF BeginRequest, EnterReadLock, MonitorExtensions, DisposeShellContext,
        BuildCurrent, EnterBody, ReloadExtensions, EndRequest, StartUpdatedShells,
        NothingToUpdate, bounds, listVars, contextVars, requestVars
<1>2. /\ pc[r] # "forgetting" /\ \A q \in Requests \ {r} : pc'[q] = pc[q] /\ job'[q] = job[q]
      /\ pc'[r] \in Labels \ {"setup", "creating", "writing", "activating", "forgetting"}
      /\ pc'[r] = "disposing" => shells # NoList
    <2>1. UNCHANGED job \/ StartUpdatedShells(r)
        BY DEF BeginRequest, EnterReadLock, MonitorExtensions, DisposeShellContext,
            BuildCurrent, EnterBody, ReloadExtensions, EndRequest, NothingToUpdate,
            requestVars
    <2>2. \A q \in Requests \ {r} : job'[q] = job[q]
        BY <2>1 DEF TypeOK, StartUpdatedShells
    <2> QED
        BY <2>2 DEF TypeOK, BeginRequest, EnterReadLock, MonitorExtensions,
            DisposeShellContext, Disposed, BuildCurrent, EnterBody, ReloadExtensions,
            EndRequest, StartUpdatedShells, NothingToUpdate, Throw, Goto, Labels
<1>3. sync' = sync
    <2>1. sync' = sync \/ NothingToUpdate(r)
        BY DEF BeginRequest, EnterReadLock, MonitorExtensions, DisposeShellContext,
            BuildCurrent, EnterBody, ReloadExtensions, EndRequest, StartUpdatedShells,
            lockVars
    <2> QED
        BY <2>1 DEF NothingToUpdate, Throw, SyncFree, lockVars, ShellHostAssumption
<1>4. Held'
    BY <1>1, <1>2, <1>3, HeldAside DEF Holds
<1>5. Lists'
    BY <1>1, <1>2, <1>3, ListsKept DEF Lists, Disposing
<1> QED
    BY <1>4, <1>5

\* An attempt that has failed leaves the same tenants to start.
LEMMA StartFailsStep ==
    ASSUME TypeOK, Held, Lists, NEW r \in Requests, StartFails(r)
    PROVE  Held' /\ Lists'
<1>1. /\ pc[r] = "creating"
      /\ UNCHANGED <<use, tenantOf, life, shells, sync, job, context, pc>>
    BY DEF StartFails, bounds, listVars, contextVars, lockVars, requestVars
<1>2. PICK j \in toBuild : toBuild' = Retried(j)
    BY DEF StartFails
<1>3. \A i \in toBuild' : \/ i \in toBuild \ {j}
                          \/ i = [j EXCEPT !.attempt = @ + 1] /\ i.tenant = j.tenant
    BY <1>2 DEF Retried, TypeOK, Attempt
<1>4. /\ \A i, k \in toBuild : i.tenant = k.tenant => i = k
      /\ \A i \in toBuild : \A c \in Listed : tenantOf[c] # i.tenant
    BY <1>1 DEF Held
<1>5. Listed' = Listed
    BY <1>1 DEF Listed
<1>6. /\ \A i, k \in toBuild' : i.tenant = k.tenant => i = k
      /\ \A i \in toBuild' : \A c \in Listed' : tenantOf'[c] # i.tenant
    BY <1>1, <1>3, <1>4, <1>5
<1>7. Held'
    BY <1>1, <1>5, <1>6 DEF Held, Holds
<1>8. Lists'
    BY <1>1, ListsKept DEF Disposing, Lists
<1> QED
    BY <1>7, <1>8

\* An exception that escapes when a shell is started.
LEMMA StartThrows ==
    ASSUME ShellHostAssumption, TypeOK, NoneDropped, Held, Lists, NEW r \in Requests,
           StartsAbort(r) \/ StartTenantFails(r)
    PROVE  Held' /\ Lists'
<1>1. /\ Throw(r) /\ UNCHANGED <<use, tenantOf, life, shells, job, context>>
      /\ pc[r] = "creating" \/ (pc[r] = "updating" /\ sync = NoRequest)
    <2>1. ~use.mayClash
        BY DEF NoneDropped
    <2>2. Throw(r) /\ UNCHANGED <<use, listVars, job, context>>
        BY <2>1 DEF StartsAbort, StartTenantFails, bounds
    <2>3. pc[r] = "creating" \/ (pc[r] = "updating" /\ sync = NoRequest)
        BY DEF StartsAbort, StartTenantFails, ToStartTenant, SyncFree
    <2> QED
        BY <2>2, <2>3 DEF listVars, contextVars
<1>2. pc'[r] = "idle" /\ \A q \in Requests \ {r} : pc'[q] = pc[q]
    BY <1>1 DEF TypeOK, Throw, Goto
<1>3. sync' = NoRequest /\ \A q \in Requests \ {r} : ~Holds(q)
    BY <1>1, OneHolds DEF Held, Holds, Throw
<1>4. Held'
    BY <1>2, <1>3 DEF Held, Holds
<1>5. Lists'
    BY <1>1, <1>2, <1>3, ListsKept DEF Disposing
<1> QED
    BY <1>4, <1>5

\* Nothing is changed of what a request will do.
LEMMA UseIsKept ==
    ASSUME [Next]_vars PROVE use' = use
<1>1. ASSUME NEW r \in Requests,
             \/ BeginRequest(r) \/ EnterReadLock(r) \/ MonitorExtensions(r)
             \/ DisposeShellContext(r) \/ DisposeShells(r) \/ ForgetShells(r)
             \/ BuildCurrent(r) \/ LockAndBuild(r) \/ SetupExtensions(r) \/ StartShell(r)
             \/ StartFails(r) \/ StartClashes(r) \/ StartsAbort(r) \/ AllStarted(r)
             \/ EnterBody(r)
      PROVE  use' = use
    BY <1>1 DEF bounds, BeginRequest, EnterReadLock, MonitorExtensions,
        DisposeShellContext, DisposeShells, ForgetShells, BuildCurrent, LockAndBuild,
        SetupExtensions, StartShell, StartFails, StartClashes, StartsAbort, AllStarted,
        EnterBody
<1>2. ASSUME NEW r \in Requests,
             \/ ReloadExtensions(r) \/ EndRequest(r) \/ StartUpdatedShells(r)
             \/ NothingToUpdate(r) \/ StartTenant(r) \/ StartTenantFails(r) \/ StopTenant(r)
             \/ StopTenantFails(r) \/ AwaitWriteLock(r) \/ ReplaceShell(r)
             \/ ActivateReplacement(r) \/ ReplacementFails(r) \/ ReplacementClashes(r)
      PROVE  use' = use
    BY <1>2 DEF bounds, ReloadExtensions, EndRequest, StartUpdatedShells,
        NothingToUpdate, StartTenant, StartTenantFails, StopTenant, StopTenantFails,
        AwaitWriteLock, ReplaceShell, ActivateReplacement, ReplacementFails,
        ReplacementClashes
<1>3. ASSUME NEW r \in Requests, NEW t \in Tenants,
             DescriptorChanged(r, t) \/ \E s \in use.saved : SaveSettings(r, t, s)
      PROVE  use' = use
    BY <1>3 DEF SaveSettings, DescriptorChanged
<1>4. ExtensionsChange => use' = use
    BY DEF ExtensionsChange
<1>5. UNCHANGED vars => use' = use
    BY DEF vars, bounds
<1> QED
    BY <1>1, <1>2, <1>3, <1>4, <1>5 DEF Next, Proceed

\* Every step preserves the invariant.
LEMMA HostStep ==
    ASSUME ShellHostAssumption, TypeOK, Turns, HostInv, [Next]_vars
    PROVE  HostInv'
<1> SUFFICES ASSUME NoneDropped, Held, Flagged, Lists
             PROVE  Held' /\ Flagged' /\ Lists'
    BY UseIsKept DEF HostInv, NoneDropped, OneReload
<1>1. ASSUME NEW r \in Requests
      PROVE  ~StartClashes(r) /\ ~StopTenantFails(r) /\ ~ReplacementClashes(r)
    BY DEF StartClashes, StopTenantFails, ReplacementClashes, NoneDropped
<1>2. ASSUME \/ ExtensionsChange \/ UNCHANGED vars
             \/ \E r \in Requests, t \in Tenants :
                    DescriptorChanged(r, t) \/ \E s \in use.saved : SaveSettings(r, t, s)
      PROVE  Held' /\ Lists'
    <2>1. UNCHANGED <<use, tenantOf, life, shells, sync, job, context, pc, toBuild>>
        BY <1>2 DEF ExtensionsChange, DescriptorChanged, SaveSettings, vars, bounds,
            listVars, contextVars, lockVars, requestVars
    <2>2. Held'
        BY <2>1, HeldKept
    <2>3. Lists'
        BY <2>1, ListsKept DEF Disposing, Lists
    <2> QED
        BY <2>2, <2>3
<1>3. ASSUME NEW r \in Requests, Proceed(r) \/ BeginRequest(r) \/ ReloadExtensions(r)
      PROVE  Held' /\ Lists'
    BY <1>1, <1>3, StartFailsStep, StartThrows, StartTenantStep, StartShellStep,
       StopTenantStep, ReplaceShellStep, ReplacedStep, DisposeShellsStep, ForgetShellsStep,
       BuildStep, AwaitWriteLockStep, OtherSteps DEF Proceed
<1>4. Held' /\ Lists'
    BY <1>2, <1>3 DEF Next
<1> QED
    BY <1>4, FlaggedStep

\* At the beginning there is no list, and nobody has begun.
LEMMA HostInit ==
    ASSUME ShellHostAssumption, Init
    PROVE  Turns /\ HostInv
<1>1. /\ shells = NoList /\ changes = 0 /\ stale /\ cache = NoRequest /\ sync = NoRequest
      /\ \A r \in Requests : pc[r] = "idle" /\ pending[r] = <<>>
      /\ \A c \in Contexts : life[c] = "unused"
    BY DEF Init
<1>2. Listed = {} /\ Active = {} /\ shells # {}
    BY <1>1 DEF Listed, Active, ShellHostAssumption
<1>3. Turns
    BY <1>1 DEF Turns, Fresh, Disposes, Disposing, ShellHostAssumption
<1>4. Held /\ Flagged /\ Lists
    BY <1>1, <1>2 DEF Held, Holds, Flagged, Lists, Disposing
<1> QED
    BY <1>3, <1>4 DEF HostInv

------------------------------------------------------------------------------
\* The list has one context of a tenant.
Tidy ==
    /\ \A c \in Listed : life[c] # "unused" /\ tenantOf[c] \in Tenants
    /\ \A c, d \in Listed : tenantOf[c] = tenantOf[d] => c = d

\* It has, whatever fails: a context that is created takes the place of the one of its
\* tenant, or of the one that the holder of _syncLock has found.
Replaces(r) == pc[r] \in {"writing", "activating"}
Unique ==
    /\ Tidy
    /\ \A r \in Requests : Holds(r) => sync = r
    /\ \A r \in Requests : Replaces(r) /\ shells # NoList =>
        context[r] \in Listed /\ tenantOf[context[r]] = job[r].tenant

\* A request leaves the others where they are, and what they work on.
Alone(r) ==
    \A q \in Requests \ {r} :
        pc'[q] = pc[q] /\ context'[q] = context[q] /\ job'[q] = job[q]

LEMMA StepsAlone ==
    ASSUME TypeOK, NEW r \in Requests, Proceed(r) \/ BeginRequest(r) \/ ReloadExtensions(r)
    PROVE  Alone(r)
<1> USE DEF TypeOK, Alone, Goto, requestVars
<1>1. CASE \/ BeginRequest(r) \/ EnterReadLock(r) \/ MonitorExtensions(r)
           \/ BuildCurrent(r) \/ LockAndBuild(r) \/ SetupExtensions(r)
           \/ StartShell(r) \/ StartFails(r) \/ StartClashes(r) \/ AllStarted(r)
           \/ EnterBody(r) \/ ReloadExtensions(r) \/ EndRequest(r)
    BY <1>1 DEF BeginRequest, EnterReadLock, MonitorExtensions, BuildCurrent, LockAndBuild,
        SetupExtensions, StartShell, StartFails, StartClashes, AllStarted, EnterBody,
        ReloadExtensions, EndRequest
<1>2. CASE DisposeShellContext(r) \/ ForgetShells(r)
    BY <1>2 DEF DisposeShellContext, ForgetShells, Disposed
<1>3. CASE DisposeShells(r) \/ NothingToUpdate(r)
    BY <1>3 DEF DisposeShells, NothingToUpdate, Throw
<1>4. CASE StartsAbort(r) \/ StartTenantFails(r) \/ StopTenantFails(r)
    BY <1>4 DEF StartsAbort, StartTenantFails, StopTenantFails, Throw
<1>5. CASE ReplacementFails(r) \/ ReplacementClashes(r)
    BY <1>5 DEF ReplacementFails, ReplacementClashes, Throw
<1>6. CASE \/ StartUpdatedShells(r) \/ StartTenant(r) \/ StopTenant(r)
           \/ AwaitWriteLock(r) \/ ReplaceShell(r) \/ ActivateReplacement(r)
    BY <1>6 DEF StartUpdatedShells, StartTenant, StopTenant, AwaitWriteLock, ReplaceShell,
        ActivateReplacement
<1> QED
    BY <1>1, <1>2, <1>3, <1>4, <1>5, <1>6 DEF Proceed

\* Who holds _syncLock after a step had it, or takes it when it is free.
LEMMA SyncStep ==
    ASSUME ShellHostAssumption, TypeOK, \A q \in Requests : Holds(q) => sync = q,
           NEW r \in Requests, Proceed(r) \/ BeginRequest(r) \/ ReloadExtensions(r)
    PROVE  \A q \in Requests : Holds(q)' => sync' = q
<1>1. /\ sync' = sync \/ sync = NoRequest \/ sync = r
      /\ Holds(r)' => sync' = r
    <2> USE DEF TypeOK, Goto, Holds, lockVars, SyncFree
    <2>1. CASE \/ BeginRequest(r) \/ EnterReadLock(r) \/ MonitorExtensions(r)
               \/ BuildCurrent(r) \/ EnterBody(r) \/ ReloadExtensions(r) \/ EndRequest(r)
               \/ StartUpdatedShells(r)
        BY <2>1 DEF BeginRequest, EnterReadLock, MonitorExtensions, BuildCurrent, EnterBody,
            ReloadExtensions, EndRequest, StartUpdatedShells
    <2>2. CASE DisposeShellContext(r) \/ ForgetShells(r)
        BY <2>2 DEF DisposeShellContext, ForgetShells, Disposed
    <2>3. CASE LockAndBuild(r) \/ AwaitWriteLock(r) \/ AllStarted(r)
        BY <2>3 DEF LockAndBuild, AwaitWriteLock, AllStarted
    <2>4. CASE \/ SetupExtensions(r) \/ StartShell(r) \/ StartFails(r) \/ StartClashes(r)
               \/ ReplaceShell(r)
        BY <2>4 DEF SetupExtensions, StartShell, StartFails, StartClashes, ReplaceShell
    <2>5. CASE StartTenant(r) \/ StopTenant(r) \/ ActivateReplacement(r)
        BY <2>5 DEF StartTenant, StopTenant, ActivateReplacement
    <2>6. CASE Throw(r)
        BY <2>6 DEF Throw
    <2>7. CASE ~Throw(r) /\ (DisposeShells(r) \/ NothingToUpdate(r))
        BY <2>7 DEF DisposeShells, NothingToUpdate
    <2>8. ASSUME \/ StartsAbort(r) \/ StartTenantFails(r) \/ StopTenantFails(r)
                 \/ ReplacementFails(r) \/ ReplacementClashes(r)
          PROVE  Throw(r)
        BY <2>8 DEF StartsAbort, StartTenantFails, StopTenantFails, ReplacementFails,
            ReplacementClashes
    <2> QED
        BY <2>1, <2>2, <2>3, <2>4, <2>5, <2>6, <2>7, <2>8 DEF Proceed
<1>2. \A q \in Requests \ {r} : pc'[q] = pc[q]
    BY StepsAlone DEF Alone
<1> QED
    BY <1>1, <1>2 DEF Holds, ShellHostAssumption

\* Steps that leave the list as it is, and what is in it.
LEMMA UniqueKept ==
    ASSUME TypeOK, Unique, NEW r \in Requests, Alone(r),
           UNCHANGED <<tenantOf, shells>>, \A c \in Listed : life'[c] # "unused",
           \A q \in Requests : Holds(q)' => sync' = q, ~Replaces(r)'
    PROVE  Unique'
<1>1. Listed' = Listed
    BY DEF Listed
<1>2. Tidy'
    BY <1>1 DEF Unique, Tidy
<1>3. \A q \in Requests : Replaces(q)' /\ shells' # NoList =>
        context'[q] \in Listed' /\ tenantOf'[context'[q]] = job'[q].tenant
    BY <1>1 DEF Unique, Alone, Replaces
<1> QED
    BY <1>2, <1>3 DEF Unique

\* A context that is started takes the place of that of its tenant.
LEMMA StartUnique ==
    ASSUME ShellHostAssumption, TypeOK, Unique, NEW r \in Requests, Alone(r),
           NEW t \in Tenants, NEW s, Start(t, s),
           sync \in {NoRequest, r}, ~Replaces(r)',
           \A q \in Requests : Holds(q)' => sync' = q
    PROVE  Unique'
<1>1. New \in Contexts /\ life[New] = "unused"
    BY NewIsUnused DEF Start, CreateShellContext
<1>2. New \notin Listed /\ Listed \subseteq Contexts
    BY <1>1, ListedTypes DEF Unique, Tidy
<1>3. shells' = {c \in Listed : tenantOf[c] # t} \cup {New}
    BY DEF Start
<1>4. Listed' = {c \in Listed : tenantOf[c] # t} \cup {New}
    BY <1>1, <1>2, <1>3 DEF ShellHostAssumption, Listed
<1>5. /\ tenantOf'[New] = t /\ life'[New] = "active"
      /\ \A c \in Contexts \ {New} : tenantOf'[c] = tenantOf[c] /\ life'[c] = life[c]
    BY <1>1 DEF TypeOK, Start, CreateShellContext
<1>6. \A c \in Listed : tenantOf'[c] = tenantOf[c] /\ life'[c] = life[c]
    BY <1>2, <1>5
<1>7. Tidy'
    BY <1>4, <1>5, <1>6 DEF Unique, Tidy
<1>8. \A q \in Requests \ {r} : ~Holds(q)
    BY DEF Unique, ShellHostAssumption
<1>9. \A q \in Requests : ~Replaces(q)'
    BY <1>8 DEF Alone, Replaces, Holds
<1> QED
    BY <1>7, <1>9 DEF Unique

\* The holder of _syncLock puts a new context in the place of the one it has found.
LEMMA ReplaceUnique ==
    ASSUME ShellHostAssumption, TypeOK, Unique, NEW r \in Requests, Alone(r),
           ReplaceShell(r), \A q \in Requests : Holds(q)' => sync' = q
    PROVE  Unique'
<1> DEFINE t == job[r].tenant
           old == context[r]
<1>1. /\ pc[r] = "writing" /\ ~Broken /\ CreateShellContext(t, job[r].settings)
      /\ life' = [Retire(old) EXCEPT ![New] = "built"]
      /\ shells' = {c \in shells : tenantOf[c] # t} \cup {New}
      /\ context' = [context EXCEPT ![r] = New]
      /\ Goto(r, "activating") /\ UNCHANGED job
    BY DEF ReplaceShell
<1>2. New \in Contexts /\ life[New] = "unused" /\ t \in Tenants
    BY <1>1, NewIsUnused DEF CreateShellContext, TypeOK, Job
<1>3. Listed = shells /\ shells # NoList /\ Listed \subseteq Contexts /\ New \notin Listed
    BY <1>1, <1>2, ListedTypes DEF Broken, Unique, Tidy
<1>4. sync = r /\ old \in Listed /\ tenantOf[old] = t
    BY <1>1, <1>3 DEF Unique, Holds, Replaces
<1>5. {c \in shells : tenantOf[c] # t} = Listed \ {old}
    BY <1>3, <1>4 DEF Unique, Tidy
<1>6. Listed' = (Listed \ {old}) \cup {New}
    BY <1>1, <1>2, <1>3, <1>5 DEF Listed, ShellHostAssumption
<1>7. /\ tenantOf'[New] = t /\ life'[New] = "built"
      /\ \A c \in Contexts \ {New, old} : tenantOf'[c] = tenantOf[c] /\ life'[c] = life[c]
    BY <1>1, <1>2, <1>3, <1>4 DEF TypeOK, CreateShellContext, Retire
<1>8. Tidy'
    BY <1>2, <1>3, <1>4, <1>5, <1>6, <1>7 DEF Unique, Tidy
<1>9. \A q \in Requests \ {r} : ~Replaces(q)'
    BY <1>4 DEF Unique, Alone, Replaces, Holds, ShellHostAssumption
<1>10. context'[r] \in Listed' /\ tenantOf'[context'[r]] = job'[r].tenant
    BY <1>1, <1>6, <1>7 DEF TypeOK
<1> QED
    BY <1>8, <1>9, <1>10 DEF Unique

\* _syncLock is taken by a request that has found the context of its tenant.
LEMMA AwaitUnique ==
    ASSUME ShellHostAssumption, TypeOK, Unique, NEW r \in Requests, Alone(r),
           AwaitWriteLock(r), \A q \in Requests : Holds(q)' => sync' = q
    PROVE  Unique'
<1>1. /\ sync = NoRequest /\ Current(r) # NoContext
      /\ context' = [context EXCEPT ![r] = Current(r)]
      /\ UNCHANGED <<tenantOf, life, shells, job>>
    BY DEF AwaitWriteLock, SyncFree, listVars, contextVars
<1>2. Current(r) \in Listed /\ tenantOf[Current(r)] = job[r].tenant
    BY <1>1, ContextOfTenant DEF Current, ContextOf
<1>3. context'[r] = Current(r) /\ Listed' = Listed
    BY <1>1 DEF TypeOK, Listed
<1>4. \A q \in Requests \ {r} : ~Replaces(q)'
    BY <1>1 DEF Unique, Alone, Replaces, Holds, ShellHostAssumption
<1>5. Tidy'
    BY <1>1, <1>3 DEF Unique, Tidy
<1> QED
    BY <1>1, <1>2, <1>3, <1>4, <1>5 DEF Unique

\* A tenant that is stopped leaves the list, while nobody replaces another one.
LEMMA StopUnique ==
    ASSUME ShellHostAssumption, TypeOK, Unique, NEW r \in Requests, Alone(r),
           StopTenant(r), \A q \in Requests : Holds(q)' => sync' = q
    PROVE  Unique'
<1> DEFINE c == Current(r)
<1>1. /\ sync = NoRequest /\ ~Broken /\ shells' = shells \ {c}
      /\ life' = [life EXCEPT ![c] = "unused"]
      /\ Goto(r, "ending") /\ UNCHANGED tenantOf
    BY DEF StopTenant, ToStopTenant, SyncFree
<1>2. Listed = shells /\ Listed \subseteq Contexts
    BY <1>1, ListedTypes DEF Broken
<1>3. Listed' = Listed \ {c}
    BY <1>1, <1>2 DEF Listed, ShellHostAssumption
<1>4. \A d \in Contexts \ {c} : life'[d] = life[d]
    BY <1>1 DEF TypeOK
<1>5. Tidy'
    BY <1>1, <1>2, <1>3, <1>4 DEF Unique, Tidy
<1>6. \A q \in Requests : ~Replaces(q)'
    BY <1>1 DEF Unique, Alone, Replaces, Holds, ShellHostAssumption, TypeOK, Goto
<1> QED
    BY <1>5, <1>6 DEF Unique

\* Every step keeps one context of a tenant in the list.
LEMMA UniqueStep ==
    ASSUME ShellHostAssumption, TypeOK, Unique, [Next]_vars
    PROVE  Unique'
<1>1. ASSUME \/ ExtensionsChange \/ UNCHANGED vars
             \/ \E r \in Requests, t \in Tenants :
                    DescriptorChanged(r, t) \/ \E s \in use.saved : SaveSettings(r, t, s)
      PROVE  Unique'
    <2>1. UNCHANGED <<tenantOf, life, shells, sync, job, context, pc>>
        BY <1>1 DEF ExtensionsChange, DescriptorChanged, SaveSettings, vars, listVars,
            contextVars, lockVars, requestVars
    <2> QED
        BY <2>1 DEF Unique, Tidy, Holds, Replaces, Listed
<1>2. ASSUME NEW r \in Requests, Proceed(r) \/ BeginRequest(r) \/ ReloadExtensions(r)
      PROVE  Unique'
    <2>1. Alone(r) /\ \A q \in Requests : Holds(q)' => sync' = q
        BY <1>2, StepsAlone, SyncStep DEF Unique
    <2>2. pc[r] = "creating" => sync = r
        BY DEF Unique, Holds
    <2>3. /\ \A j \in toBuild : j.tenant \in Tenants
          /\ job[r].tenant \in Tenants
        BY DEF TypeOK, Attempt, Job
    <2>4. CASE StartShell(r) \/ StartClashes(r)
        <3>1. \E j \in toBuild : Start(j.tenant, j.settings)
            BY <2>4 DEF StartShell, StartClashes
        <3>2. ~Replaces(r)' /\ sync = r
            BY <2>2, <2>4 DEF StartShell, StartClashes, Replaces
        <3> QED
            BY <2>1, <2>3, <3>1, <3>2, StartUnique
    <2>5. CASE StartTenant(r)
        <3>1. Start(job[r].tenant, job[r].settings) /\ sync = NoRequest /\ ~Replaces(r)'
            BY <2>5 DEF StartTenant, ToStartTenant, SyncFree, Replaces, Goto, TypeOK
        <3> QED
            BY <2>1, <2>3, <3>1, StartUnique
    <2>6. Throw(r) => ~Replaces(r)'
        BY DEF Throw, Replaces, Goto, TypeOK
    <2>7. CASE StartsAbort(r)
        <3>1. Throw(r) /\ sync = r
            BY <2>2, <2>7 DEF StartsAbort
        <3>2. CASE UNCHANGED listVars
            BY <2>1, <2>6, <3>1, <3>2, UniqueKept DEF listVars, contextVars, Unique, Tidy
        <3>3. CASE \E j \in toBuild : Start(j.tenant, j.settings)
            BY <2>1, <2>3, <2>6, <3>1, <3>3, StartUnique
        <3> QED
            BY <2>7, <3>2, <3>3 DEF StartsAbort
    <2>8. CASE StartTenantFails(r)
        <3>1. Throw(r) /\ sync = NoRequest
            BY <2>8 DEF StartTenantFails, ToStartTenant, SyncFree
        <3>2. CASE UNCHANGED listVars
            BY <2>1, <2>6, <3>1, <3>2, UniqueKept DEF listVars, contextVars, Unique, Tidy
        <3>3. CASE Start(job[r].tenant, job[r].settings)
            BY <2>1, <2>3, <2>6, <3>1, <3>3, StartUnique
        <3> QED
            BY <2>8, <3>2, <3>3 DEF StartTenantFails
    <2>9. CASE ForgetShells(r)
        <3>1. shells' = NoList /\ ~Replaces(r)'
            BY <2>9 DEF ForgetShells, Disposed, Replaces, Goto, TypeOK
        <3> QED
            BY <2>1, <3>1 DEF Unique, Tidy, Listed
    <2>10. CASE \/ BeginRequest(r) \/ EnterReadLock(r) \/ MonitorExtensions(r)
                \/ DisposeShellContext(r) \/ BuildCurrent(r) \/ LockAndBuild(r)
                \/ SetupExtensions(r) \/ StartFails(r) \/ AllStarted(r) \/ EnterBody(r)
                \/ ReloadExtensions(r) \/ EndRequest(r) \/ StartUpdatedShells(r)
                \/ NothingToUpdate(r)
        <3>1. UNCHANGED <<tenantOf, life, shells>>
            BY <2>10 DEF BeginRequest, EnterReadLock, MonitorExtensions,
                DisposeShellContext, BuildCurrent, LockAndBuild, SetupExtensions,
                StartFails, AllStarted, EnterBody, ReloadExtensions, EndRequest,
                StartUpdatedShells, NothingToUpdate, listVars, contextVars
        <3>2. ~Replaces(r)'
            BY <2>6, <2>10 DEF BeginRequest, EnterReadLock, MonitorExtensions,
                DisposeShellContext, Disposed, BuildCurrent, LockAndBuild, SetupExtensions,
                StartFails, AllStarted, EnterBody, ReloadExtensions, EndRequest,
                StartUpdatedShells, NothingToUpdate, Replaces, Goto, TypeOK
        <3> QED
            BY <2>1, <3>1, <3>2, UniqueKept DEF Unique, Tidy
    <2>11. CASE DisposeShells(r)
        <3>1. UNCHANGED <<tenantOf, shells>> /\ \A c \in Listed : life'[c] # "unused"
            BY <2>11, ListedTypes DEF DisposeShells, Unique, Tidy
        <3>2. ~Replaces(r)'
            BY <2>6, <2>11 DEF DisposeShells, Replaces, Goto, TypeOK
        <3> QED
            BY <2>1, <3>1, <3>2, UniqueKept
    <2>12. CASE StopTenantFails(r)
        <3>1. UNCHANGED <<tenantOf, shells>> /\ Throw(r)
            BY <2>12 DEF StopTenantFails
        <3>2. \A c \in Listed : life'[c] # "unused"
            BY <2>12, ListedTypes DEF StopTenantFails, Unique, Tidy, TypeOK
        <3> QED
            BY <2>1, <2>6, <3>1, <3>2, UniqueKept
    <2>13. CASE ActivateReplacement(r) \/ ReplacementClashes(r) \/ ReplacementFails(r)
        <3>1. UNCHANGED <<tenantOf, shells>>
            BY <2>13 DEF ActivateReplacement, ReplacementClashes, ReplacementFails
        <3>2. ~Replaces(r)'
            BY <2>6, <2>13 DEF ActivateReplacement, ReplacementClashes, ReplacementFails,
                Replaces, Goto, TypeOK
        <3>3. \A c \in Listed : life'[c] # "unused"
            BY <2>13, ListedTypes DEF ActivateReplacement, ReplacementClashes,
                ReplacementFails, Kept, Unique, Tidy, TypeOK
        <3> QED
            BY <2>1, <3>1, <3>2, <3>3, UniqueKept
    <2> QED
        BY <1>2, <2>1, <2>4, <2>5, <2>7, <2>8, <2>9, <2>10, <2>11, <2>12, <2>13,
           ReplaceUnique, AwaitUnique, StopUnique DEF Proceed
<1> QED
    BY <1>1, <1>2 DEF Next

\* The list never has two contexts of a tenant, whatever fails.  No two of a tenant are
\* active either, while changes of the table do not throw and no list is dropped that is
\* in use, however requests that come, save tenants and find changed extensions
\* interleave, and shells fail to start.
THEOREM HostOneShellPerTenant ==
    ASSUME ShellHostAssumption
    PROVE  Spec => []OneShellPerTenant
<1>1. Init => Unique
    BY DEF Init, Unique, Tidy, Listed, Holds, Replaces
<1>2. Unique /\ HostInv => OneShellPerTenant
    <2> SUFFICES ASSUME Unique, HostInv, NEW c \in Contexts, NEW d \in Contexts,
                        c # d, tenantOf[c] = tenantOf[d]
                 PROVE  /\ ~({c, d} \subseteq Listed)
                        /\ NoneDropped => ~({c, d} \subseteq Active)
        BY DEF OneShellPerTenant
    <2>1. ~({c, d} \subseteq Listed)
        BY DEF Unique, Tidy
    <2>2. NoneDropped => Active \subseteq Listed
        BY DEF HostInv, Lists
    <2> QED
        BY <2>1, <2>2
<1> QED
    BY <1>1, <1>2, TypeInit, TypeStep, HostInit, TurnsStep, HostStep, UniqueStep, PTL
    DEF Spec

\* A list that is forgotten leaves no shell that is active.
THEOREM HostNoneForgotten ==
    ASSUME ShellHostAssumption
    PROVE  Spec => []NoneForgotten
<1>1. HostInv => NoneForgotten
    BY DEF HostInv, Lists, NoneForgotten, Listed
<1> QED
    BY <1>1, TypeInit, TypeStep, HostInit, TurnsStep, HostStep, PTL DEF Spec

------------------------------------------------------------------------------
\* SettingsApplied: what one request saves, while nothing fails, is followed by the list
\* as soon as there is one.  Tenants may be disabled while extensions change here, so the
\* locks and the list are known less well than above.
Steadily == OneReload /\ OneSaver /\ ~use.mayFail /\ ~use.mayClash

\* Who has _syncLock, while a list that was disposed of waits to be forgotten.
Rights ==
    /\ \A r \in Requests : Holds(r) => sync = r
    /\ \A r \in Requests : pc[r] = "setup" => shells = NoList
    /\ \A r \in Requests : Disposing(r) => shells # NoList
    /\ \A q, r \in Requests : pc[q] = "forgetting" => pc[r] \notin {"setup", "creating"}
    /\ (\E c \in Listed : life[c] = "disposed") =>
            sync = NoRequest /\ \E r \in Requests : pc[r] = "forgetting"

\* What the holder of _syncLock is about.
Duty(r) ==
    /\ pc[r] = "creating" =>
        /\ \A i, j \in toBuild : i.tenant = j.tenant => i = j
        /\ \A j \in toBuild : \A c \in Listed : tenantOf[c] # j.tenant
    /\ pc[r] \in {"writing", "activating"} /\ shells # NoList =>
        context[r] \in Listed /\ tenantOf[context[r]] = job[r].tenant
    /\ pc[r] = "activating" /\ shells # NoList =>
        builtFrom[context[r]] = job[r].settings

\* What is flagged are settings that were saved last, by the one that saves.
AtWork(r) == pc[r] \in {"updating", "writing", "activating"}
Marked(r) ==
    /\ pending[r] # <<>> => r \in use.admins /\ pc[r] # "idle"
    /\ \A i \in DOMAIN pending[r] :
        pending[r][i].settings = settings[pending[r][i].tenant]
    /\ AtWork(r) => r \in use.admins /\ job[r].settings = settings[job[r].tenant]
    /\ pc[r] \in {"writing", "activating"} => job[r].settings.state = "Running"

\* Settings are applied, or wait for a request that has flagged them or for the one that
\* builds the list.
Awaits(r, t) ==
    \/ AtWork(r) /\ job[r].tenant = t
    \/ \E i \in DOMAIN pending[r] : pending[r][i].tenant = t
Waiting(t) == \E r \in Requests : Awaits(r, t)
Creating == \E r \in Requests : pc[r] = "creating"
Queued(t) == Creating /\ \E j \in toBuild : j.tenant = t
Applied(t) ==
    IF settings[t].state = "Disabled"
    THEN \A c \in Listed : tenantOf[c] = t => builtFrom[c].state = "Invalid"
    ELSE \E c \in Listed : tenantOf[c] = t /\ builtFrom[c] = settings[t]

Usable == Creating \/ ~Broken
Followed == Usable => \A t \in Tenants : Applied(t) \/ Waiting(t) \/ Queued(t)

\* What is loaded to be started is what was saved last, or waits as well.
Suits(s, t) ==
    \/ s = settings[t] /\ s.state # "Disabled"
    \/ s.state = "Invalid" /\ settings[t].state = "Disabled"
Loaded == Creating => \A j \in toBuild : Suits(j.settings, j.tenant) \/ Waiting(j.tenant)

Steady ==
    /\ Rights /\ Tidy /\ Followed /\ Loaded
    /\ \A r \in Requests : Duty(r) /\ Marked(r)

SettledInv == Steadily => Steady

\* Nobody holds _syncLock that is free, and nobody else one that is held.
LEMMA OneHasRight ==
    ASSUME ShellHostAssumption, Rights
    PROVE  /\ sync = NoRequest => \A r \in Requests : ~Holds(r)
           /\ \A q, r \in Requests : Holds(q) /\ Holds(r) => q = r
    BY DEF Rights, ShellHostAssumption

\* One request at a time is between the check of DisposeShellContext and its end.
LEMMA OneForgets ==
    ASSUME ShellHostAssumption, TypeOK, Turns, OneReload
    PROVE  \A q, r \in Requests : Disposing(q) /\ Disposing(r) => q = r
<1>1. CASE use.reloaders = {}
    BY <1>1 DEF Turns, Disposes
<1>2. CASE use.changes <= 1
    BY <1>2 DEF Turns, OneDisposes, Fresh, Disposes, Disposing
<1> QED
    BY <1>1, <1>2 DEF OneReload

\* What a request has flagged stays marked when nothing of it changes.
LEMMA MarkedKept ==
    ASSUME NEW r \in Requests, Marked(r), UNCHANGED <<use, settings>>,
           pending'[r] = pending[r], job'[r] = job[r],
           pc'[r] = pc[r] \/ (~AtWork(r)' /\ (pending[r] # <<>> => pc'[r] # "idle"))
    PROVE  Marked(r)'
    BY DEF Marked, AtWork

\* So does the duty of the holder, or of nobody.
LEMMA DutyKept ==
    ASSUME NEW r \in Requests, Duty(r),
           \/ ~Holds(r)'
           \/ /\ UNCHANGED <<tenantOf, builtFrom, shells, toBuild>>
              /\ pc'[r] = pc[r] /\ job'[r] = job[r] /\ context'[r] = context[r]
    PROVE  Duty(r)'
<1>1. CASE ~Holds(r)'
    BY <1>1 DEF Duty, Holds
<1>2. CASE /\ UNCHANGED <<tenantOf, builtFrom, shells, toBuild>>
           /\ pc'[r] = pc[r] /\ job'[r] = job[r] /\ context'[r] = context[r]
    <2>1. Listed' = Listed
        BY <1>2 DEF Listed
    <2> QED
        BY <1>2, <2>1 DEF Duty
<1> QED
    BY <1>1, <1>2

\* The list and what it should have stay as they are, and what waits goes on to or is
\* applied.
LEMMA FollowedKept ==
    ASSUME TypeOK, Followed, Loaded, UNCHANGED <<settings, tenantOf, builtFrom, shells>>,
           Usable' => Usable,
           \A t \in Tenants : Waiting(t) => Waiting(t)' \/ (Applied(t) /\ ~Creating'),
           Creating' => Creating /\ toBuild' = toBuild,
           Creating /\ ~Creating' => toBuild = {}
    PROVE  Followed' /\ Loaded'
<1>1. Listed' = Listed
    BY DEF Listed
<1>2. \A t \in Tenants : Applied(t)' <=> Applied(t)
    BY <1>1 DEF Applied
<1>3. ASSUME NEW t \in Tenants, Queued(t), ~Queued(t)' PROVE FALSE
    BY <1>3 DEF Queued
<1>4. Followed'
    BY <1>2, <1>3 DEF Followed
<1>5. Creating' => \A j \in toBuild : j.tenant \in Tenants
    BY DEF TypeOK, Attempt
<1>6. ASSUME Creating', NEW j \in toBuild'
      PROVE  Suits(j.settings, j.tenant)' \/ Waiting(j.tenant)'
    <2>1. j \in toBuild /\ j.tenant \in Tenants
        BY <1>5, <1>6
    <2>2. Suits(j.settings, j.tenant) \/ Waiting(j.tenant)
        BY <1>6, <2>1 DEF Loaded
    <2>3. Suits(j.settings, j.tenant) => Suits(j.settings, j.tenant)'
        BY DEF Suits
    <2>4. Waiting(j.tenant) => Waiting(j.tenant)'
        BY <1>6, <2>1
    <2> QED
        BY <2>2, <2>3, <2>4
<1>7. Loaded'
    BY <1>6 DEF Loaded
<1> QED
    BY <1>4, <1>7

\* What waits goes on to when nobody takes it.
LEMMA WaitingKept ==
    ASSUME NEW t \in Tenants, NEW r \in Requests,
           \A q \in Requests \ {r} :
                pc'[q] = pc[q] /\ pending'[q] = pending[q] /\ job'[q] = job[q],
           Awaits(r, t) => Awaits(r, t)'
    PROVE  Waiting(t) => Waiting(t)'
<1>1. ASSUME NEW q \in Requests \ {r}, Awaits(q, t) PROVE Awaits(q, t)'
    BY <1>1 DEF Awaits, AtWork
<1> QED
    BY <1>1 DEF Waiting

\* A step of a request that changes neither the list nor what is to be done to it, unless
\* there is nothing left to do.
Aside(r) ==
    /\ UNCHANGED <<use, settings, tenantOf, builtFrom, life, shells, sync, toBuild, pending,
                   job, context>>
    /\ \A q \in Requests \ {r} : pc'[q] = pc[q]
    /\ ~Holds(r) /\ ~Holds(r)' /\ ~AtWork(r)'
    /\ AtWork(r) => Applied(job[r].tenant) /\ ~Creating
    /\ pc[r] # "forgetting" /\ pc'[r] # "forgetting"
    /\ Disposing(r)' => shells # NoList
    /\ pending[r] # <<>> => pc'[r] # "idle"

\* Such a step changes nothing.
LEMMA AsideStep ==
    ASSUME TypeOK, Steady, NEW r \in Requests, Aside(r)
    PROVE  Steady'
<1>1. Listed' = Listed /\ (Broken' <=> Broken)
    BY DEF Aside, Listed, Broken
<1>2. \A q \in Requests : Holds(q)' => q # r /\ Holds(q)
    BY DEF Aside, Holds
<1>3. Creating' <=> Creating
    BY DEF Aside, Creating, Holds
<1>4. Rights'
    <2>1. /\ \A q \in Requests : Holds(q)' => sync' = q
          /\ \A q \in Requests : pc'[q] = "setup" => shells' = NoList
        BY <1>2 DEF Aside, Steady, Rights, Holds
    <2>2. \A q \in Requests : Disposing(q)' => shells' # NoList
        BY DEF Aside, Steady, Rights, Disposing
    <2>3. \A p, q \in Requests : pc'[p] = "forgetting" => pc'[q] \notin {"setup", "creating"}
        BY DEF Aside, Steady, Rights, Holds
    <2>4. (\E c \in Listed' : life'[c] = "disposed") =>
              sync' = NoRequest /\ \E q \in Requests : pc'[q] = "forgetting"
        BY <1>1 DEF Aside, Steady, Rights
    <2> QED
        BY <2>1, <2>2, <2>3, <2>4 DEF Rights
<1>5. Tidy'
    BY <1>1 DEF Aside, Steady, Tidy
<1>6. ASSUME NEW q \in Requests PROVE Duty(q)' /\ Marked(q)'
    <2>1. Duty(q) /\ Marked(q)
        BY DEF Steady
    <2>2. Duty(q)'
        BY <2>1, DutyKept DEF Aside
    <2>3. Marked(q)'
        BY <2>1, MarkedKept DEF Aside
    <2> QED
        BY <2>2, <2>3
<1>7. ASSUME NEW t \in Tenants, Waiting(t) PROVE Waiting(t)' \/ (Applied(t) /\ ~Creating')
    <2>1. CASE AtWork(r) /\ job[r].tenant = t
        BY <1>3, <2>1 DEF Aside
    <2>2. CASE ~(AtWork(r) /\ job[r].tenant = t)
        <3>1. Awaits(r, t) => Awaits(r, t)'
            BY <2>2 DEF Aside, Awaits
        <3> QED
            BY <1>7, <3>1, WaitingKept DEF Aside
    <2> QED
        BY <2>1, <2>2
<1>8. Followed' /\ Loaded'
    BY <1>1, <1>3, <1>7, FollowedKept DEF Steady, Usable, Aside
<1> QED
    BY <1>4, <1>5, <1>6, <1>8 DEF Steady

\* The steps that are aside.
LEMMA AsideSteps ==
    ASSUME ShellHostAssumption, TypeOK, Steady, NEW r \in Requests,
        \/ BeginRequest(r) \/ EnterReadLock(r) \/ MonitorExtensions(r)
        \/ DisposeShellContext(r) \/ BuildCurrent(r) \/ EnterBody(r) \/ ReloadExtensions(r)
        \/ EndRequest(r) \/ (LockAndBuild(r) /\ shells # NoList)
        \/ (StartUpdatedShells(r) /\ pending[r] = <<>>)
    PROVE  Steady'
<1>1. UNCHANGED <<use, settings, tenantOf, builtFrom, life, shells, sync, toBuild, pending,
                  job, context>>
    BY DEF BeginRequest, EnterReadLock, MonitorExtensions, DisposeShellContext,
        BuildCurrent, EnterBody, ReloadExtensions, EndRequest, LockAndBuild,
        StartUpdatedShells, bounds, listVars, contextVars, requestVars, lockVars
<1>2. /\ \A q \in Requests \ {r} : pc'[q] = pc[q]
      /\ pc[r] \in {"idle", "reading", "monitor", "dispose", "build", "building", "built",
                    "body", "ending"}
      /\ pc'[r] \in {"idle", "reading", "monitor", "dispose", "disposing", "build",
                     "building", "built", "body", "ending"}
      /\ pc'[r] = "disposing" => shells # NoList
      /\ pc'[r] = "idle" => pending[r] = <<>>
    BY DEF TypeOK, BeginRequest, EnterReadLock, MonitorExtensions, DisposeShellContext,
        Disposed, BuildCurrent, EnterBody, ReloadExtensions, EndRequest, LockAndBuild,
        StartUpdatedShells, Goto
<1>3. Aside(r)
    BY <1>1, <1>2 DEF Aside, Holds, AtWork, Disposing
<1> QED
    BY <1>3, AsideStep

\* Steps that change nothing of all this at all.
LEMMA StillStep ==
    ASSUME Steady, UNCHANGED <<use, settings, tenantOf, builtFrom, life, shells, sync,
                               toBuild, pending, job, context, pc>>
    PROVE  Steady'
    BY DEF Steady, Rights, Tidy, Duty, Marked, AtWork, Awaits, Waiting, Creating, Queued,
        Applied, Usable, Broken, Listed, Followed, Suits, Loaded, Holds, Disposing

\* The next tenant is taken from those that are flagged.
LEMMA TakeStep ==
    ASSUME TypeOK, Steady, NEW r \in Requests, StartUpdatedShells(r), pending[r] # <<>>
    PROVE  Steady'
<1>1. /\ pc[r] = "ending" /\ pc' = [pc EXCEPT ![r] = "updating"]
      /\ job' = [job EXCEPT ![r] = Head(pending[r])]
      /\ pending' = [pending EXCEPT ![r] = Tail(pending[r])]
      /\ UNCHANGED <<use, settings, tenantOf, builtFrom, life, shells, sync, toBuild,
                     context>>
    BY DEF StartUpdatedShells, Taken, Goto, bounds, listVars, contextVars, lockVars
<1>2. /\ pc'[r] = "updating" /\ job'[r] = Head(pending[r]) /\ pending'[r] = Tail(pending[r])
      /\ \A q \in Requests \ {r} :
            pc'[q] = pc[q] /\ pending'[q] = pending[q] /\ job'[q] = job[q]
    BY <1>1 DEF TypeOK
<1>3. /\ pending[r] \in Seq(Job) /\ 1 \in DOMAIN pending[r] /\ Head(pending[r]) = pending[r][1]
      /\ \A i \in DOMAIN Tail(pending[r]) :
            i + 1 \in DOMAIN pending[r] /\ Tail(pending[r])[i] = pending[r][i + 1]
      /\ \A i \in DOMAIN pending[r] :
            i = 1 \/ (i - 1 \in DOMAIN Tail(pending[r])
                        /\ Tail(pending[r])[i - 1] = pending[r][i])
    BY DEF TypeOK
<1>4. Listed' = Listed /\ (Broken' <=> Broken)
    BY <1>1 DEF Listed, Broken
<1>5. \A q \in Requests : pc'[q] = pc[q] \/ (pc[q] = "ending" /\ pc'[q] = "updating")
    BY <1>1, <1>2
<1>6. Rights'
    BY <1>1, <1>4, <1>5 DEF Steady, Rights, Holds, Disposing
<1>7. Tidy'
    BY <1>1, <1>4 DEF Steady, Tidy
<1>8. ASSUME NEW q \in Requests PROVE Duty(q)' /\ Marked(q)'
    <2>1. Duty(q) /\ Marked(q)
        BY DEF Steady
    <2>2. Duty(q)'
        BY <1>1, <1>2, <2>1, DutyKept DEF Holds
    <2>3. Marked(r)'
        <3>1. Marked(r)
            BY DEF Steady
        <3>2. /\ r \in use.admins
              /\ \A i \in DOMAIN pending[r] :
                    pending[r][i].settings = settings[pending[r][i].tenant]
            BY <3>1 DEF Marked
        <3>3. job'[r].settings = settings[job'[r].tenant]
            BY <1>2, <1>3, <3>2
        <3>4. \A i \in DOMAIN pending'[r] :
                pending'[r][i].settings = settings[pending'[r][i].tenant]
            BY <1>2, <1>3, <3>2
        <3> QED
            BY <1>1, <1>2, <3>2, <3>3, <3>4 DEF Marked, AtWork
    <2>4. q # r => Marked(q)'
        BY <1>1, <1>2, <2>1, MarkedKept
    <2> QED
        BY <2>2, <2>3, <2>4
<1>9. \A t \in Tenants : Waiting(t) => Waiting(t)'
    <2>1. ASSUME NEW t \in Tenants, Awaits(r, t) PROVE Awaits(r, t)'
        <3>1. PICK i \in DOMAIN pending[r] : pending[r][i].tenant = t
            BY <1>1, <2>1 DEF Awaits, AtWork
        <3>2. CASE i = 1
            <4>1. job'[r].tenant = t /\ AtWork(r)'
                BY <1>2, <1>3, <3>1, <3>2 DEF AtWork
            <4> QED
                BY <4>1 DEF Awaits
        <3>3. CASE i # 1
            <4>1. /\ i - 1 \in DOMAIN Tail(pending[r])
                  /\ Tail(pending[r])[i - 1] = pending[r][i]
                BY <1>3, <3>3
            <4>2. i - 1 \in DOMAIN pending'[r] /\ pending'[r][i - 1].tenant = t
                BY <1>2, <3>1, <4>1
            <4> QED
                BY <4>2 DEF Awaits
        <3> QED
            BY <3>2, <3>3
    <2> QED
        BY <1>2, <2>1, WaitingKept
<1>10. Creating' <=> Creating
    BY <1>5 DEF Creating
<1>11. Followed' /\ Loaded'
    BY <1>1, <1>4, <1>9, <1>10, FollowedKept DEF Steady, Usable
<1> QED
    BY <1>6, <1>7, <1>8, <1>11 DEF Steady

\* _syncLock is taken to build the list, when there is none.
LEMMA LockToBuildStep ==
    ASSUME ShellHostAssumption, TypeOK, Steady, NEW r \in Requests, LockAndBuild(r),
           shells = NoList
    PROVE  Steady'
<1>1. /\ pc[r] = "building" /\ sync = NoRequest /\ sync' = r /\ Goto(r, "setup")
      /\ UNCHANGED <<use, settings, tenantOf, builtFrom, life, shells, toBuild, pending,
                     job, context>>
    BY DEF LockAndBuild, SyncFree, bounds, listVars, contextVars, requestVars
<1>2. pc'[r] = "setup" /\ \A q \in Requests \ {r} : pc'[q] = pc[q]
    BY <1>1 DEF TypeOK, Goto
<1>3. \A q \in Requests : ~Holds(q) /\ ~Disposing(q)
    BY <1>1, OneHasRight DEF Steady, Rights
<1>4. Listed = {} /\ Listed' = {} /\ Broken /\ Broken'
    BY <1>1 DEF Listed, Broken
<1>5. \A q \in Requests : ~Disposing(q)' /\ (Holds(q)' => q = r)
    BY <1>2, <1>3 DEF Disposing, Holds
<1>6. Rights'
    BY <1>1, <1>4, <1>5 DEF Rights, Disposing
<1>7. Tidy'
    BY <1>4 DEF Tidy
<1>8. ASSUME NEW q \in Requests PROVE Duty(q)' /\ Marked(q)'
    <2>1. Duty(q)'
        BY <1>1, <1>2, <1>5 DEF Duty, Holds
    <2>2. Marked(q)
        BY DEF Steady
    <2>3. Marked(q)'
        BY <1>1, <1>2, <2>2, MarkedKept DEF AtWork
    <2> QED
        BY <2>1, <2>3
<1>9. ~Creating /\ ~Creating'
    BY <1>2, <1>3 DEF Creating, Holds
<1>10. Followed' /\ Loaded'
    BY <1>4, <1>9 DEF Followed, Usable, Loaded
<1> QED
    BY <1>6, <1>7, <1>8, <1>10 DEF Steady

\* The settings are loaded: every tenant that is to be started is queued.
LEMMA SetupStep ==
    ASSUME ShellHostAssumption, TypeOK, Steady, NEW r \in Requests, SetupExtensions(r)
    PROVE  Steady'
<1>1. /\ pc[r] = "setup" /\ toBuild' = ToStart /\ Goto(r, "creating")
      /\ UNCHANGED <<use, settings, tenantOf, builtFrom, life, shells, sync, pending, job,
                     context>>
    BY DEF SetupExtensions, bounds, listVars, contextVars, lockVars, requestVars
<1>2. pc'[r] = "creating" /\ \A q \in Requests \ {r} : pc'[q] = pc[q]
    BY <1>1 DEF TypeOK, Goto
<1>3. /\ sync = r /\ shells = NoList /\ Listed = {} /\ Listed' = {}
      /\ \A q \in Requests : ~Disposing(q)
    BY <1>1 DEF Steady, Rights, Holds, Listed
<1>4. \A q \in Requests : Holds(q) => q = r
    BY <1>1, OneHasRight DEF Steady, Holds
<1>5. \A q \in Requests : ~Disposing(q)' /\ (Holds(q)' => q = r)
    BY <1>2, <1>3, <1>4 DEF Disposing, Holds
<1>6. Rights'
    BY <1>1, <1>2, <1>3, <1>5 DEF Rights, Disposing
<1>7. Tidy'
    BY <1>3 DEF Tidy
<1>8. \A i, j \in ToStart : i.tenant = j.tenant => i = j
    BY DEF ToStart
<1>9. ASSUME NEW q \in Requests PROVE Duty(q)' /\ Marked(q)'
    <2>1. Duty(q) /\ Marked(q)
        BY DEF Steady
    <2>2. q = r => Duty(q)'
        BY <1>1, <1>2, <1>3, <1>8 DEF Duty
    <2>3. q # r => Duty(q)'
        BY <1>5, <2>1, DutyKept
    <2>4. Marked(q)'
        BY <1>1, <1>2, <2>1, MarkedKept DEF AtWork
    <2> QED
        BY <2>2, <2>3, <2>4
<1>10. Creating'
    BY <1>2 DEF Creating
<1>11. ASSUME NEW t \in Tenants PROVE Applied(t)' \/ Queued(t)'
    <2>1. CASE settings[t].state = "Disabled"
        BY <1>1, <1>3, <2>1 DEF Applied
    <2>2. CASE settings[t].state # "Disabled"
        <3>1. [tenant |-> t, settings |-> settings[t], attempt |-> 0] \in ToStart
            BY <2>2 DEF ToStart
        <3> QED
            BY <1>1, <1>10, <3>1 DEF Queued
    <2> QED
        BY <2>1, <2>2
<1>12. Followed'
    BY <1>11 DEF Followed
<1>13. \A j \in ToStart : Suits(j.settings, j.tenant)
    <2>1. ASSUME NEW t \in Tenants, settings[t].state # "Disabled"
          PROVE  Suits(settings[t], t)
        BY <2>1 DEF Suits
    <2>2. ASSUME \A t \in Tenants : settings[t].state = "Disabled"
          PROVE  Suits([state |-> "Invalid", version |-> settings[Default].version], Default)
        BY <2>2 DEF Suits, ShellHostAssumption
    <2> QED
        BY <2>1, <2>2 DEF ToStart
<1>14. \A j \in ToStart : Suits(j.settings, j.tenant)'
    BY <1>1, <1>13 DEF Suits
<1>15. Loaded'
    BY <1>1, <1>14 DEF Loaded
<1> QED
    BY <1>6, <1>7, <1>9, <1>12, <1>15 DEF Steady

\* The list is complete, and _syncLock is left.
LEMMA AllStartedStep ==
    ASSUME ShellHostAssumption, TypeOK, Steady, NEW r \in Requests, AllStarted(r)
    PROVE  Steady'
<1>1. /\ pc[r] = "creating" /\ toBuild = {} /\ sync' = NoRequest /\ Goto(r, "built")
      /\ UNCHANGED <<use, settings, tenantOf, builtFrom, life, shells, toBuild, pending,
                     job, context>>
    BY DEF AllStarted, bounds, listVars, contextVars, requestVars
<1>2. pc'[r] = "built" /\ \A q \in Requests \ {r} : pc'[q] = pc[q]
    BY <1>1 DEF TypeOK, Goto
<1>3. Listed' = Listed /\ Creating
    BY <1>1 DEF Listed, Creating
<1>4. \A q \in Requests : ~Holds(q)'
    BY <1>1, <1>2, OneHasRight DEF Steady, Holds
<1>5. \A c \in Listed : life[c] # "disposed"
    BY <1>1 DEF Steady, Rights
<1>6. Rights'
    BY <1>1, <1>2, <1>3, <1>4, <1>5 DEF Steady, Rights, Holds, Disposing
<1>7. Tidy'
    BY <1>1, <1>3 DEF Steady, Tidy
<1>8. ASSUME NEW q \in Requests PROVE Duty(q)' /\ Marked(q)'
    <2>1. Duty(q) /\ Marked(q)
        BY DEF Steady
    <2>2. Duty(q)'
        BY <1>4, <2>1, DutyKept
    <2>3. Marked(q)'
        BY <1>1, <1>2, <2>1, MarkedKept DEF AtWork
    <2> QED
        BY <2>2, <2>3
<1>9. \A t \in Tenants : Waiting(t) => Waiting(t)'
    <2>1. \A t \in Tenants : Awaits(r, t) => Awaits(r, t)'
        BY <1>1, <1>2 DEF Awaits, AtWork
    <2> QED
        BY <1>1, <1>2, <2>1, WaitingKept
<1>10. ~Creating'
    BY <1>4 DEF Creating, Holds
<1>11. Followed' /\ Loaded'
    BY <1>1, <1>3, <1>9, <1>10, FollowedKept DEF Steady, Usable
<1> QED
    BY <1>6, <1>7, <1>8, <1>11 DEF Steady

\* An exception of a request that finds no list that it can use: what it has flagged is
\* lost, but the list will be built from what it saved.
LEMMA ThrowStep ==
    ASSUME ShellHostAssumption, TypeOK, Steady, NEW r \in Requests, Throw(r), Broken,
           ~Creating, sync = NoRequest \/ (sync = r /\ shells = NoList),
           UNCHANGED <<use, settings, tenantOf, builtFrom, shells, toBuild, job>>,
           \A c \in Listed : life'[c] = life[c], pc[r] # "forgetting",
           \A q \in Requests \ {r} : context'[q] = context[q]
    PROVE  Steady'
<1>1. /\ pc'[r] = "idle" /\ pending'[r] = <<>> /\ sync' = NoRequest
      /\ \A q \in Requests \ {r} : pc'[q] = pc[q] /\ pending'[q] = pending[q]
    BY DEF TypeOK, Throw, Goto
<1>2. Listed' = Listed /\ Broken'
    BY DEF Listed, Broken
<1>3. \A q \in Requests : ~Holds(q)'
    BY <1>1, OneHasRight DEF Steady, Holds, Rights, ShellHostAssumption
<1>4. \A q \in Requests : pc'[q] = "forgetting" <=> pc[q] = "forgetting"
    BY <1>1
<1>5. Rights'
    <2>1. \A q \in Requests : Disposing(q)' => shells' # NoList
        BY <1>1 DEF Steady, Rights, Disposing
    <2>2. (\E c \in Listed' : life'[c] = "disposed") =>
              sync' = NoRequest /\ \E q \in Requests : pc'[q] = "forgetting"
        BY <1>1, <1>2, <1>4 DEF Steady, Rights
    <2> QED
        BY <1>3, <2>1, <2>2 DEF Rights, Holds
<1>6. Tidy'
    BY <1>2 DEF Steady, Tidy
<1>7. ASSUME NEW q \in Requests PROVE Duty(q)' /\ Marked(q)'
    <2>1. Duty(q) /\ Marked(q)
        BY DEF Steady
    <2>2. Duty(q)'
        BY <1>3, <2>1, DutyKept
    <2>3. q # r => Marked(q)'
        BY <1>1, <2>1, MarkedKept
    <2>4. q = r => Marked(q)'
        BY <1>1 DEF Marked, AtWork
    <2> QED
        BY <2>2, <2>3, <2>4
<1>8. ~Creating'
    BY <1>3 DEF Creating, Holds
<1>9. Followed' /\ Loaded'
    BY <1>2, <1>8 DEF Followed, Usable, Loaded
<1> QED
    BY <1>5, <1>6, <1>7, <1>9 DEF Steady

\* The list is disposed of: it cannot be used any more, unless it is empty.
LEMMA DisposedStep ==
    ASSUME ShellHostAssumption, TypeOK, Steady, NEW r \in Requests, DisposeShells(r)
    PROVE  Steady'
<1>1. /\ pc[r] = "disposing" /\ sync = NoRequest
      /\ UNCHANGED <<use, settings, tenantOf, builtFrom, shells, toBuild, job, context>>
    BY DEF DisposeShells, SyncFree, bounds
<1>2. \A q \in Requests : ~Holds(q)
    BY <1>1, OneHasRight DEF Steady
<1>3. ~Creating /\ shells # NoList
    BY <1>1, <1>2 DEF Creating, Holds, Steady, Rights, Disposing
<1>4. CASE \E c \in Listed : life[c] = "disposed"
    <2>1. Throw(r) /\ UNCHANGED life /\ Broken
        BY <1>4 DEF DisposeShells, Broken
    <2> QED
        BY <1>1, <1>3, <2>1, ThrowStep
<1>5. CASE ~\E c \in Listed : life[c] = "disposed"
    <2>1. /\ life' = [c \in Contexts |-> IF c \in Listed THEN "disposed" ELSE life[c]]
          /\ Goto(r, "forgetting") /\ sync' = sync /\ pending' = pending
        BY <1>5 DEF DisposeShells, lockVars
    <2>2. pc'[r] = "forgetting" /\ \A q \in Requests \ {r} : pc'[q] = pc[q]
        BY <2>1 DEF TypeOK, Goto
    <2>3. Listed' = Listed /\ Listed \subseteq Contexts
        BY <1>1, ListedTypes DEF Listed
    <2>4. \A q \in Requests : ~Holds(q)'
        BY <1>2, <2>2 DEF Holds
    <2>5. Rights'
        <3>1. \A q \in Requests : Disposing(q)' => shells' # NoList
            BY <1>1, <1>3
        <3> QED
            BY <1>1, <2>1, <2>2, <2>4, <3>1 DEF Rights, Holds
    <2>6. Tidy'
        BY <1>1, <2>1, <2>3 DEF Steady, Tidy
    <2>7. ASSUME NEW q \in Requests PROVE Duty(q)' /\ Marked(q)'
        <3>1. Duty(q) /\ Marked(q)
            BY DEF Steady
        <3>2. Duty(q)'
            BY <2>4, <3>1, DutyKept
        <3>3. Marked(q)'
            BY <1>1, <2>1, <2>2, <3>1, MarkedKept DEF AtWork
        <3> QED
            BY <3>2, <3>3
    <2>8. ~Creating'
        BY <2>4 DEF Creating, Holds
    <2>9. Usable' => Usable
        BY <1>1, <1>3, <1>5, <2>8 DEF Usable, Broken
    <2>10. \A t \in Tenants : Waiting(t) => Waiting(t)'
        <3>1. \A t \in Tenants : Awaits(r, t) => Awaits(r, t)'
            BY <1>1, <2>1 DEF Awaits, AtWork
        <3> QED
            BY <1>1, <2>1, <2>2, <3>1, WaitingKept
    <2>11. Followed' /\ Loaded'
        BY <1>1, <1>3, <2>8, <2>9, <2>10, FollowedKept DEF Steady
    <2> QED
        BY <2>5, <2>6, <2>7, <2>11 DEF Steady
<1> QED
    BY <1>4, <1>5

\* The list is forgotten: the next one will follow the settings.
LEMMA ForgottenStep ==
    ASSUME ShellHostAssumption, TypeOK, Turns, OneReload, Steady, NEW r \in Requests,
           ForgetShells(r)
    PROVE  Steady'
<1>1. /\ pc[r] = "forgetting" /\ shells' = NoList /\ Disposed(r)
      /\ UNCHANGED <<use, settings, tenantOf, builtFrom, sync, toBuild, pending, job,
                     context>>
    BY DEF ForgetShells, bounds, requestVars
<1>2. pc'[r] \in {"build", "body"} /\ \A q \in Requests \ {r} : pc'[q] = pc[q]
    BY <1>1 DEF TypeOK, Disposed, Goto
<1>3. \A q \in Requests : ~Disposing(q)'
    BY <1>1, <1>2, OneForgets DEF Disposing
<1>4. \A q \in Requests : pc'[q] \notin {"setup", "creating"}
    BY <1>1, <1>2 DEF Steady, Rights
<1>5. Listed' = {} /\ Broken'
    BY <1>1 DEF Listed, Broken
<1>6. Rights'
    BY <1>1, <1>2, <1>3, <1>4, <1>5 DEF Steady, Rights, Holds, Disposing
<1>7. Tidy'
    BY <1>5 DEF Tidy
<1>8. ASSUME NEW q \in Requests PROVE Duty(q)' /\ Marked(q)'
    <2>1. Duty(q)'
        BY <1>1, <1>4 DEF Duty
    <2>2. Marked(q)
        BY DEF Steady
    <2>3. Marked(q)'
        BY <1>1, <1>2, <2>2, MarkedKept DEF AtWork
    <2> QED
        BY <2>1, <2>3
<1>9. Followed' /\ Loaded'
    BY <1>4, <1>5 DEF Followed, Usable, Creating, Loaded
<1> QED
    BY <1>6, <1>7, <1>8, <1>9 DEF Steady

\* The context New enters the list for its tenant.
LEMMA EnteredList ==
    ASSUME ShellHostAssumption, TypeOK, Tidy, settings' = settings,
           NEW t \in Tenants, NEW s, CreateShellContext(t, s),
           shells' = {c \in Listed : tenantOf[c] # t} \cup {New},
           life'[New] \in {"built", "active"},
           \A c \in Listed : tenantOf[c] # t => life'[c] = life[c]
    PROVE  /\ shells' # NoList /\ New \in Listed' /\ Tidy'
           /\ tenantOf'[New] = t /\ builtFrom'[New] = s
           /\ \A c \in Listed' \ {New} :
                /\ c \in Listed /\ tenantOf[c] # t
                /\ tenantOf'[c] = tenantOf[c] /\ life'[c] = life[c]
           /\ \A u \in Tenants \ {t} : Applied(u) => Applied(u)'
           /\ Suits(s, t) => Applied(t)'
<1>1. New \in Contexts /\ life[New] = "unused"
    BY NewIsUnused DEF CreateShellContext
<1>2. New \notin Listed /\ Listed \subseteq Contexts
    BY <1>1, ListedTypes DEF Tidy
<1>3. shells' # NoList /\ Listed' = {c \in Listed : tenantOf[c] # t} \cup {New}
    BY <1>1, <1>2 DEF Listed, ShellHostAssumption
<1>4. /\ tenantOf'[New] = t /\ builtFrom'[New] = s
      /\ \A c \in Contexts \ {New} : tenantOf'[c] = tenantOf[c] /\ builtFrom'[c] = builtFrom[c]
    BY <1>1 DEF TypeOK, CreateShellContext
<1>5. \A c \in Listed' \ {New} :
        /\ c \in Listed /\ tenantOf[c] # t
        /\ tenantOf'[c] = tenantOf[c] /\ builtFrom'[c] = builtFrom[c] /\ life'[c] = life[c]
    BY <1>2, <1>3, <1>4
<1>6. Tidy'
    BY <1>3, <1>4, <1>5 DEF Tidy
<1>7. ASSUME NEW u \in Tenants \ {t}, Applied(u) PROVE Applied(u)'
    <2>1. CASE settings[u].state = "Disabled"
        BY <1>3, <1>4, <1>5, <1>7, <2>1 DEF Applied
    <2>2. CASE settings[u].state # "Disabled"
        <3>1. PICK c \in Listed : tenantOf[c] = u /\ builtFrom[c] = settings[u]
            BY <1>7, <2>2 DEF Applied
        <3>2. c \in Listed' \ {New}
            BY <1>2, <1>3, <1>7, <3>1
        <3> QED
            BY <1>5, <2>2, <3>1, <3>2 DEF Applied
    <2> QED
        BY <2>1, <2>2
<1>8. ASSUME Suits(s, t) PROVE Applied(t)'
    BY <1>3, <1>4, <1>5, <1>8 DEF Suits, Applied
<1> QED
    BY <1>3, <1>4, <1>5, <1>6, <1>7, <1>8

\* A tenant is started that was saved: it has its settings.
LEMMA TenantStartedStep ==
    ASSUME ShellHostAssumption, TypeOK, Steady, NEW r \in Requests, StartTenant(r)
    PROVE  Steady'
<1>0. PICK j \in Job : j = job[r]
    BY DEF TypeOK
<1> DEFINE t == j.tenant
           s == j.settings
<1>1. /\ pc[r] = "updating" /\ sync = NoRequest /\ ~Broken /\ Goto(r, "ending")
      /\ CreateShellContext(t, s) /\ life' = [life EXCEPT ![New] = "active"]
      /\ shells' = {c \in Listed : tenantOf[c] # t} \cup {New}
      /\ UNCHANGED <<use, settings, sync, toBuild, pending, job, context>>
    BY <1>0 DEF StartTenant, ToStartTenant, Start, SyncFree, bounds, lockVars, requestVars
<1>2. s.state # "Disabled"
    BY <1>0 DEF StartTenant, ToStartTenant
<1>3. t \in Tenants
    BY DEF Job
<1>4. pc'[r] = "ending" /\ \A q \in Requests \ {r} : pc'[q] = pc[q]
    BY <1>1 DEF TypeOK, Goto
<1>5. \A q \in Requests : ~Holds(q) /\ ~Holds(q)'
    BY <1>1, <1>4, OneHasRight DEF Steady, Holds
<1>6. ~Creating /\ ~Creating'
    BY <1>5 DEF Creating, Holds
<1>7. New \in Contexts /\ life'[New] = "active" /\ \A c \in Contexts \ {New} : life'[c] = life[c]
    BY <1>1, NewIsUnused DEF TypeOK, CreateShellContext
<1>8. \A c \in Listed : life'[c] = life[c]
    BY <1>1, <1>7, NewIsUnused, ListedTypes DEF Steady, Tidy, CreateShellContext
<1> HIDE DEF t, s
<1>9. /\ shells' # NoList /\ Tidy'
      /\ \A c \in Listed' \ {New} : c \in Listed /\ life'[c] = life[c]
      /\ \A u \in Tenants \ {t} : Applied(u) => Applied(u)'
      /\ Suits(s, t) => Applied(t)'
    BY <1>1, <1>3, <1>7, <1>8, EnteredList DEF Steady
<1>10. Rights'
    <2>1. ~\E c \in Listed' : life'[c] = "disposed"
        BY <1>1, <1>7, <1>9 DEF Broken
    <2> QED
        BY <1>4, <1>5, <1>9, <2>1 DEF Rights, Holds
<1>11. ASSUME NEW q \in Requests PROVE Duty(q)' /\ Marked(q)'
    <2>1. Duty(q) /\ Marked(q)
        BY DEF Steady
    <2>2. Duty(q)'
        BY <1>5, <2>1, DutyKept
    <2>3. Marked(q)'
        BY <1>1, <1>4, <2>1, MarkedKept DEF AtWork
    <2> QED
        BY <2>2, <2>3
<1>12. Applied(t)'
    <2>1. s = settings[t]
        BY <1>0, <1>1 DEF Steady, Marked, AtWork, s, t
    <2> QED
        BY <1>2, <1>9, <2>1 DEF Suits
<1>13. ASSUME NEW u \in Tenants PROVE Applied(u)' \/ Waiting(u)'
    <2>1. Applied(u) \/ Waiting(u)
        BY <1>1, <1>6 DEF Steady, Followed, Usable, Queued
    <2>2. u # t /\ Awaits(r, u) => Awaits(r, u)'
        BY <1>0, <1>1 DEF Awaits, t
    <2>3. u # t /\ Waiting(u) => Waiting(u)'
        BY <1>1, <1>4, <2>2, WaitingKept
    <2> QED
        BY <1>9, <1>12, <2>1, <2>3
<1>14. Followed' /\ Loaded'
    BY <1>6, <1>13 DEF Followed, Loaded
<1> QED
    BY <1>9, <1>10, <1>11, <1>14 DEF Steady

\* A tenant is started while the list is built.
LEMMA ShellStartedStep ==
    ASSUME ShellHostAssumption, TypeOK, Steady, NEW r \in Requests, StartShell(r)
    PROVE  Steady'
<1>1. PICK j \in toBuild : Start(j.tenant, j.settings) /\ toBuild' = toBuild \ {j}
    BY DEF StartShell
<1> DEFINE t == j.tenant
           s == j.settings
<1>2. /\ pc[r] = "creating" /\ UNCHANGED <<use, settings, sync, pending, job, context, pc>>
      /\ CreateShellContext(t, s) /\ life' = [life EXCEPT ![New] = "active"]
      /\ shells' = {c \in Listed : tenantOf[c] # t} \cup {New}
    BY <1>1 DEF StartShell, Start, bounds, lockVars, requestVars
<1>3. t \in Tenants
    BY DEF TypeOK, Attempt
<1>4. /\ \A i \in toBuild : i # j => i.tenant # t
      /\ \A i \in toBuild : \A c \in Listed : tenantOf[c] # i.tenant
    BY <1>2 DEF Steady, Duty
<1>5. sync = r /\ \A q \in Requests : Holds(q) => q = r
    BY <1>2, OneHasRight DEF Steady, Rights, Holds
<1>6. Creating /\ Creating'
    BY <1>2 DEF Creating
<1>7. New \in Contexts /\ life'[New] = "active" /\ \A c \in Contexts \ {New} : life'[c] = life[c]
    BY <1>2, NewIsUnused DEF TypeOK, CreateShellContext
<1>8. \A c \in Listed : life'[c] = life[c]
    BY <1>2, <1>7, NewIsUnused, ListedTypes DEF Steady, Tidy, CreateShellContext
<1> HIDE DEF t, s
<1>9. /\ shells' # NoList /\ Tidy' /\ tenantOf'[New] = t
      /\ \A c \in Listed' \ {New} :
            c \in Listed /\ tenantOf'[c] = tenantOf[c] /\ life'[c] = life[c]
      /\ \A u \in Tenants \ {t} : Applied(u) => Applied(u)'
      /\ Suits(s, t) => Applied(t)'
    BY <1>2, <1>3, <1>7, <1>8, EnteredList DEF Steady
<1>10. Rights'
    <2>1. ~\E c \in Listed : life[c] = "disposed"
        BY <1>5 DEF Steady, Rights, ShellHostAssumption
    <2>2. ~\E c \in Listed' : life'[c] = "disposed"
        BY <1>7, <1>9, <2>1
    <2>3. \A q \in Requests : pc[q] # "setup"
        BY <1>2, <1>5 DEF Holds
    <2> QED
        BY <1>2, <1>9, <2>2, <2>3 DEF Steady, Rights, Holds
<1>11. Duty(r)'
    <2>1. \A i \in toBuild' : i \in toBuild /\ i.tenant # t
        BY <1>1, <1>4
    <2>2. \A i \in toBuild' : \A c \in Listed' : tenantOf'[c] # i.tenant
        BY <1>4, <1>9, <2>1
    <2>3. \A i, k \in toBuild' : i.tenant = k.tenant => i = k
        BY <1>2, <2>1 DEF Steady, Duty
    <2> QED
        BY <1>2, <2>2, <2>3 DEF Duty
<1>12. ASSUME NEW q \in Requests PROVE Duty(q)' /\ Marked(q)'
    <2>1. Duty(q) /\ Marked(q)
        BY DEF Steady
    <2>2. q # r => Duty(q)'
        BY <1>2, <1>5, <2>1, DutyKept DEF Holds
    <2>3. Marked(q)'
        BY <1>2, <2>1, MarkedKept
    <2> QED
        BY <1>11, <2>2, <2>3
<1>13. \A u \in Tenants : Waiting(u) => Waiting(u)'
    BY <1>2 DEF Waiting, Awaits, AtWork
<1>14. \A i \in toBuild : Suits(i.settings, i.tenant) \/ Waiting(i.tenant)
    BY <1>6 DEF Steady, Loaded
<1>15. Suits(s, t) \/ Waiting(t)
    BY <1>14 DEF s, t
<1>16. ASSUME NEW u \in Tenants PROVE Applied(u)' \/ Waiting(u)' \/ Queued(u)'
    <2>1. Applied(u) \/ Waiting(u) \/ Queued(u)
        BY <1>6 DEF Steady, Followed, Usable
    <2>2. Queued(u) /\ u # t => Queued(u)'
        BY <1>1, <1>6 DEF Queued, t
    <2> QED
        BY <1>9, <1>13, <1>15, <2>1, <2>2
<1>17. Followed'
    BY <1>16 DEF Followed
<1>18. Loaded'
    <2>1. ASSUME NEW i \in toBuild'
          PROVE  Suits(i.settings, i.tenant)' \/ Waiting(i.tenant)'
        <3>1. i \in toBuild /\ i.tenant \in Tenants
            BY <1>1 DEF TypeOK, Attempt
        <3>2. Suits(i.settings, i.tenant) => Suits(i.settings, i.tenant)'
            BY <1>2 DEF Suits
        <3> QED
            BY <1>13, <1>14, <3>1, <3>2
    <2> QED
        BY <2>1 DEF Loaded
<1> QED
    BY <1>9, <1>10, <1>12, <1>17, <1>18 DEF Steady

\* A tenant that is disabled leaves the list.
LEMMA TenantStoppedStep ==
    ASSUME ShellHostAssumption, TypeOK, Steady, NEW r \in Requests, StopTenant(r)
    PROVE  Steady'
<1>0. PICK j \in Job : j = job[r]
    BY DEF TypeOK
<1> DEFINE t == j.tenant
<1>1. PICK c : c = Current(r)
    OBVIOUS
<1>2. /\ pc[r] = "updating" /\ sync = NoRequest /\ ~Broken /\ Goto(r, "ending")
      /\ c # NoContext /\ j.settings.state = "Disabled"
      /\ life' = [life EXCEPT ![c] = "unused"] /\ shells' = shells \ {c}
      /\ UNCHANGED <<use, settings, tenantOf, builtFrom, sync, toBuild, pending, job,
                     context>>
    BY <1>0, <1>1 DEF StopTenant, ToStopTenant, SyncFree, bounds, lockVars, requestVars
<1>3. pc'[r] = "ending" /\ \A q \in Requests \ {r} : pc'[q] = pc[q]
    BY <1>2 DEF TypeOK, Goto
<1>4. \A q \in Requests : ~Holds(q) /\ ~Holds(q)'
    BY <1>2, <1>3, OneHasRight DEF Steady, Holds
<1>5. ~Creating /\ ~Creating'
    BY <1>4 DEF Creating, Holds
<1>6. c \in Listed /\ tenantOf[c] = t
    BY <1>0, <1>1, <1>2, ContextOfTenant DEF Current, ContextOf
<1>7. Listed = shells /\ shells # NoList /\ Listed \subseteq Contexts
    BY <1>2, ListedTypes DEF Broken
<1>8. Listed' = Listed \ {c} /\ shells' # NoList
    BY <1>2, <1>7 DEF Listed, ShellHostAssumption
<1>9. \A d \in Listed' : life'[d] = life[d]
    BY <1>2, <1>7, <1>8 DEF TypeOK
<1>10. Rights'
    <2>1. ~\E d \in Listed' : life'[d] = "disposed"
        BY <1>2, <1>8, <1>9 DEF Broken
    <2> QED
        BY <1>3, <1>4, <1>8, <2>1 DEF Rights, Holds
<1>11. Tidy'
    BY <1>2, <1>8, <1>9 DEF Steady, Tidy
<1>12. ASSUME NEW q \in Requests PROVE Duty(q)' /\ Marked(q)'
    <2>1. Duty(q) /\ Marked(q)
        BY DEF Steady
    <2>2. Duty(q)'
        BY <1>4, <2>1, DutyKept
    <2>3. Marked(q)'
        BY <1>2, <1>3, <2>1, MarkedKept DEF AtWork
    <2> QED
        BY <2>2, <2>3
<1> HIDE DEF t
<1>13. Applied(t)'
    <2>1. settings[t].state = "Disabled"
        BY <1>0, <1>2 DEF Steady, Marked, AtWork, t
    <2>2. \A d \in Listed' : tenantOf'[d] # t
        BY <1>2, <1>6, <1>8 DEF Steady, Tidy
    <2> QED
        BY <1>2, <2>1, <2>2 DEF Applied
<1>14. ASSUME NEW u \in Tenants PROVE Applied(u)' \/ Waiting(u)'
    <2>1. Applied(u) \/ Waiting(u)
        BY <1>2, <1>5 DEF Steady, Followed, Usable, Queued
    <2>2. u # t /\ Awaits(r, u) => Awaits(r, u)'
        BY <1>0, <1>2 DEF Awaits, t
    <2>3. u # t /\ Waiting(u) => Waiting(u)'
        BY <1>2, <1>3, <2>2, WaitingKept
    <2>4. u # t /\ Applied(u) => Applied(u)'
        BY <1>2, <1>6, <1>8 DEF Applied
    <2> QED
        BY <1>13, <2>1, <2>3, <2>4
<1>15. Followed' /\ Loaded'
    BY <1>5, <1>14 DEF Followed, Loaded
<1> QED
    BY <1>10, <1>11, <1>12, <1>15 DEF Steady

\* A disabled tenant has no context: nothing is left to do for it.
LEMMA NothingStep ==
    ASSUME ShellHostAssumption, TypeOK, Steady, NEW r \in Requests, NothingToUpdate(r)
    PROVE  Steady'
<1>1. /\ pc[r] = "updating" /\ sync = NoRequest
      /\ UNCHANGED <<use, settings, tenantOf, builtFrom, life, shells, toBuild, job, context>>
    BY DEF NothingToUpdate, SyncFree, bounds, listVars, contextVars
<1>2. ~Creating
    BY <1>1, OneHasRight DEF Steady, Creating, Holds
<1>3. CASE Broken
    <2>1. Throw(r)
        BY <1>3 DEF NothingToUpdate
    <2> QED
        BY <1>1, <1>2, <1>3, <2>1, ThrowStep
<1>4. CASE ~Broken
    <2>1. /\ Current(r) = NoContext /\ job[r].settings.state = "Disabled"
          /\ Goto(r, "ending") /\ sync' = sync /\ pending' = pending
        BY <1>4 DEF NothingToUpdate, lockVars
    <2>2. pc'[r] = "ending" /\ \A q \in Requests \ {r} : pc'[q] = pc[q]
        BY <2>1 DEF TypeOK, Goto
    <2>3. \A c \in Listed : tenantOf[c] # job[r].tenant
        BY <2>1, ContextOfTenant, ListedTypes DEF Current
    <2>4. settings[job[r].tenant].state = "Disabled"
        BY <1>1, <2>1 DEF Steady, Marked, AtWork
    <2>5. Applied(job[r].tenant)
        BY <2>3, <2>4 DEF Applied
    <2>6. Aside(r)
        BY <1>1, <1>2, <2>1, <2>2, <2>5 DEF Aside, Holds, AtWork, Disposing
    <2> QED
        BY <2>6, AsideStep
<1> QED
    BY <1>3, <1>4

\* The context that is to be replaced is in the list, which is not disposed of.
LEMMA WriteLockStep ==
    ASSUME ShellHostAssumption, TypeOK, Steady, NEW r \in Requests, AwaitWriteLock(r)
    PROVE  Steady'
<1>1. /\ pc[r] = "updating" /\ sync = NoRequest /\ ~Broken /\ Goto(r, "writing")
      /\ Current(r) # NoContext /\ job[r].settings.state = "Running"
      /\ context' = [context EXCEPT ![r] = Current(r)] /\ sync' = r
      /\ UNCHANGED <<use, settings, tenantOf, builtFrom, life, shells, toBuild, pending, job>>
    BY DEF AwaitWriteLock, SyncFree, bounds, listVars, contextVars
<1>2. pc'[r] = "writing" /\ \A q \in Requests \ {r} : pc'[q] = pc[q]
    BY <1>1 DEF TypeOK, Goto
<1>3. Listed' = Listed /\ (Broken' <=> Broken)
    BY <1>1 DEF Listed, Broken
<1>4. \A q \in Requests : ~Holds(q) /\ (Holds(q)' => q = r)
    BY <1>1, <1>2, OneHasRight DEF Steady, Holds
<1>5. ~Creating /\ ~Creating'
    BY <1>2, <1>4 DEF Creating, Holds
<1>6. Rights'
    <2>1. \A q \in Requests : pc'[q] \notin {"setup", "creating"}
        BY <1>2, <1>4 DEF Holds
    <2>2. \A q \in Requests : Disposing(q)' => shells' # NoList
        BY <1>1 DEF Broken
    <2>3. ~\E c \in Listed' : life'[c] = "disposed"
        BY <1>1, <1>3 DEF Broken
    <2> QED
        BY <1>1, <1>4, <2>1, <2>2, <2>3 DEF Rights
<1>7. Tidy'
    BY <1>1, <1>3 DEF Steady, Tidy
<1>8. Duty(r)'
    <2>1. Current(r) \in Listed /\ tenantOf[Current(r)] = job[r].tenant
        BY <1>1, ContextOfTenant DEF Current, ContextOf
    <2>2. context'[r] = Current(r)
        BY <1>1 DEF TypeOK
    <2> QED
        BY <1>1, <1>2, <1>3, <2>1, <2>2 DEF Duty
<1>9. ASSUME NEW q \in Requests PROVE Duty(q)' /\ Marked(q)'
    <2>1. Duty(q) /\ Marked(q)
        BY DEF Steady
    <2>2. q # r => Duty(q)'
        BY <1>4, <2>1, DutyKept
    <2>3. q # r => Marked(q)'
        BY <1>1, <1>2, <2>1, MarkedKept
    <2>4. q = r => Marked(q)'
        BY <1>1, <1>2, <2>1 DEF Marked, AtWork
    <2> QED
        BY <1>8, <2>2, <2>3, <2>4
<1>10. \A t \in Tenants : Waiting(t) => Waiting(t)'
    <2>1. \A t \in Tenants : Awaits(r, t) => Awaits(r, t)'
        BY <1>1, <1>2 DEF Awaits, AtWork
    <2> QED
        BY <1>1, <1>2, <2>1, WaitingKept
<1>11. Followed' /\ Loaded'
    BY <1>1, <1>3, <1>5, <1>10, FollowedKept DEF Steady, Usable
<1> QED
    BY <1>6, <1>7, <1>9, <1>11 DEF Steady

\* The new context has the settings that were saved, and is in the list already.
LEMMA ReplacingStep ==
    ASSUME ShellHostAssumption, TypeOK, Steady, NEW r \in Requests, ReplaceShell(r)
    PROVE  Steady'
<1>0. PICK j \in Job : j = job[r]
    BY DEF TypeOK
<1> DEFINE t == j.tenant
           s == j.settings
           old == context[r]
<1>1. /\ pc[r] = "writing" /\ ~Broken /\ Goto(r, "activating")
      /\ CreateShellContext(t, s) /\ life' = [Retire(old) EXCEPT ![New] = "built"]
      /\ shells' = {c \in shells : tenantOf[c] # t} \cup {New}
      /\ context' = [context EXCEPT ![r] = New]
      /\ UNCHANGED <<use, settings, sync, toBuild, pending, job>>
    BY <1>0 DEF ReplaceShell, bounds, lockVars
<1>2. t \in Tenants
    BY DEF Job
<1>3. pc'[r] = "activating" /\ \A q \in Requests \ {r} : pc'[q] = pc[q]
    BY <1>1 DEF TypeOK, Goto
<1>4. sync = r /\ \A q \in Requests : Holds(q) => q = r
    BY <1>1, OneHasRight DEF Steady, Rights, Holds
<1>5. \A q \in Requests : Holds(q)' => q = r
    BY <1>3, <1>4 DEF Holds
<1>6. ~Creating /\ ~Creating'
    BY <1>1, <1>3, <1>4 DEF Creating, Holds
<1>7. Listed = shells /\ shells # NoList /\ Listed \subseteq Contexts
    BY <1>1, ListedTypes DEF Broken
<1>8. old \in Listed /\ tenantOf[old] = t
    BY <1>0, <1>1, <1>7 DEF Steady, Duty
<1>9. New \in Contexts /\ New \notin Listed
    BY <1>1, NewIsUnused DEF Steady, Tidy, CreateShellContext
<1>10. /\ life'[New] = "built"
       /\ \A c \in Contexts \ {New, old} : life'[c] = life[c]
    BY <1>1, <1>7, <1>8, <1>9 DEF TypeOK, Retire
<1>11. \A c \in Listed : tenantOf[c] # t => life'[c] = life[c]
    BY <1>7, <1>8, <1>9, <1>10
<1> HIDE DEF t, s, old
<1>12. /\ shells' # NoList /\ New \in Listed' /\ Tidy'
       /\ tenantOf'[New] = t /\ builtFrom'[New] = s
       /\ \A c \in Listed' \ {New} : c \in Listed /\ life'[c] = life[c]
       /\ \A u \in Tenants \ {t} : Applied(u) => Applied(u)'
    BY <1>1, <1>2, <1>7, <1>10, <1>11, EnteredList DEF Steady
<1>13. Rights'
    <2>1. ~\E c \in Listed' : life'[c] = "disposed"
        BY <1>1, <1>10, <1>12 DEF Broken
    <2>2. \A q \in Requests : pc'[q] \notin {"setup", "creating"}
        BY <1>3, <1>5 DEF Holds
    <2> QED
        BY <1>1, <1>4, <1>5, <1>12, <2>1, <2>2 DEF Rights
<1>14. Duty(r)'
    <2>1. context'[r] = New /\ job'[r] = j /\ j.tenant = t /\ j.settings = s
        BY <1>0, <1>1 DEF TypeOK, t, s
    <2> QED
        BY <1>3, <1>12, <2>1 DEF Duty
<1>15. ASSUME NEW q \in Requests PROVE Duty(q)' /\ Marked(q)'
    <2>1. Duty(q) /\ Marked(q)
        BY DEF Steady
    <2>2. q # r => Duty(q)'
        BY <1>5, <2>1, DutyKept
    <2>3. q # r => Marked(q)'
        BY <1>1, <1>3, <2>1, MarkedKept
    <2>4. q = r => Marked(q)'
        BY <1>1, <1>3, <2>1 DEF Marked, AtWork
    <2> QED
        BY <1>14, <2>2, <2>3, <2>4
<1>16. \A u \in Tenants : Waiting(u) => Waiting(u)'
    <2>1. \A u \in Tenants : Awaits(r, u) => Awaits(r, u)'
        BY <1>1, <1>3 DEF Awaits, AtWork
    <2> QED
        BY <1>1, <1>3, <2>1, WaitingKept
<1>17. ASSUME NEW u \in Tenants PROVE Applied(u)' \/ Waiting(u)'
    <2>1. Applied(u) \/ Waiting(u)
        BY <1>1, <1>6 DEF Steady, Followed, Usable, Queued
    <2>2. u = t => Waiting(u)
        BY <1>0, <1>1 DEF Waiting, Awaits, AtWork, t
    <2> QED
        BY <1>12, <1>16, <2>1, <2>2
<1>18. Followed' /\ Loaded'
    BY <1>6, <1>17 DEF Followed, Loaded
<1> QED
    BY <1>12, <1>13, <1>15, <1>18 DEF Steady

\* The new context is activated: the tenant has its settings, if the list is still there.
LEMMA ReplacementStep ==
    ASSUME ShellHostAssumption, TypeOK, Steady, NEW r \in Requests, ActivateReplacement(r)
    PROVE  Steady'
<1>0a. PICK c : c = context[r]
    OBVIOUS
<1>0b. PICK j \in Job : j = job[r]
    BY DEF TypeOK
<1>1. /\ pc[r] = "activating" /\ Goto(r, "ending") /\ sync' = NoRequest
      /\ life' = [life EXCEPT ![c] = "active"] /\ context' = [context EXCEPT ![r] = NoContext]
      /\ UNCHANGED <<use, settings, tenantOf, builtFrom, shells, toBuild, pending, job>>
    BY <1>0a DEF ActivateReplacement, bounds
<1>2. pc'[r] = "ending" /\ \A q \in Requests \ {r} : pc'[q] = pc[q]
    BY <1>1 DEF TypeOK, Goto
<1>3. sync = r /\ \A q \in Requests : Holds(q) => q = r
    BY <1>1, OneHasRight DEF Steady, Rights, Holds
<1>4. \A q \in Requests : ~Holds(q)'
    BY <1>2, <1>3 DEF Holds
<1>5. ~Creating /\ ~Creating'
    BY <1>1, <1>3, <1>4 DEF Creating, Holds
<1>6. Listed' = Listed /\ Listed \subseteq Contexts
    BY <1>1, ListedTypes DEF Listed
<1>7. \A d \in Listed : life[d] # "disposed"
    BY <1>3 DEF Steady, Rights, ShellHostAssumption
<1>8. \A d \in Listed : life'[d] = "active" \/ life'[d] = life[d]
    BY <1>1, <1>6 DEF TypeOK
<1>9. Rights'
    <2>1. \A q \in Requests : Disposing(q)' => shells' # NoList
        BY <1>1, <1>2 DEF Steady, Rights, Disposing
    <2>2. ~\E d \in Listed' : life'[d] = "disposed"
        BY <1>6, <1>7, <1>8
    <2> QED
        BY <1>4, <2>1, <2>2 DEF Rights, Holds
<1>10. Tidy'
    BY <1>1, <1>6, <1>8 DEF Steady, Tidy
<1>11. ASSUME NEW q \in Requests PROVE Duty(q)' /\ Marked(q)'
    <2>1. Duty(q) /\ Marked(q)
        BY DEF Steady
    <2>2. Duty(q)'
        BY <1>4, <2>1, DutyKept
    <2>3. Marked(q)'
        BY <1>1, <1>2, <2>1, MarkedKept DEF AtWork
    <2> QED
        BY <2>2, <2>3
<1>12. ASSUME shells = NoList PROVE Followed' /\ Loaded'
    BY <1>1, <1>5, <1>12 DEF Followed, Usable, Broken, Loaded
<1>13. ASSUME shells # NoList PROVE Followed' /\ Loaded'
    <2>1. ~Broken
        BY <1>7, <1>13 DEF Broken
    <2>2. Applied(j.tenant)
        <3>1. c \in Listed /\ tenantOf[c] = j.tenant /\ builtFrom[c] = j.settings
            BY <1>0a, <1>0b, <1>1, <1>13 DEF Steady, Duty
        <3>2. settings[j.tenant] = j.settings /\ j.settings.state = "Running"
            BY <1>0a, <1>0b, <1>1 DEF Steady, Marked, AtWork
        <3> QED
            BY <3>1, <3>2 DEF Applied
    <2>3. ASSUME NEW u \in Tenants, Waiting(u) PROVE Waiting(u)' \/ Applied(u)
        <3>1. u # j.tenant /\ Awaits(r, u) => Awaits(r, u)'
            BY <1>0a, <1>0b, <1>1 DEF Awaits
        <3> QED
            BY <1>1, <1>2, <2>2, <2>3, <3>1, WaitingKept
    <2> QED
        BY <1>1, <1>5, <2>1, <2>3, FollowedKept DEF Steady, Usable
<1> QED
    BY <1>9, <1>10, <1>11, <1>12, <1>13 DEF Steady

\* It cannot be replaced because the list is gone.
LEMMA NotReplacedStep ==
    ASSUME ShellHostAssumption, TypeOK, Steady, ~use.mayFail, NEW r \in Requests,
           ReplacementFails(r)
    PROVE  Steady'
<1>1. /\ pc[r] = "writing" /\ Broken /\ Throw(r)
      /\ context' = [context EXCEPT ![r] = NoContext]
      /\ UNCHANGED <<use, settings, tenantOf, builtFrom, shells, toBuild, job>>
    BY DEF ReplacementFails, bounds
<1>2. sync = r /\ \A q \in Requests : Holds(q) => q = r
    BY <1>1, OneHasRight DEF Steady, Rights, Holds
<1>3. ~Creating
    BY <1>1, <1>2 DEF Creating, Holds
<1>4. shells = NoList
    BY <1>1, <1>2 DEF Steady, Rights, Broken, ShellHostAssumption
<1>5. Listed = {}
    BY <1>4 DEF Listed
<1>6. \A q \in Requests \ {r} : context'[q] = context[q]
    BY <1>1 DEF TypeOK
<1> QED
    BY <1>1, <1>2, <1>3, <1>4, <1>5, <1>6, ThrowStep

\* The one request that saves flags the settings that a tenant has then.
LEMMA MarkStep ==
    ASSUME TypeOK, Steady, OneSaver, NEW r \in Requests, r \in use.admins, pc[r] = "body",
           NEW t \in Tenants, NEW s, Flag(r, t, s), settings' \in [Tenants -> Settings],
           ~\E i \in DOMAIN pending[r] : pending[r][i].tenant = t,
           settings'[t] = s, \A u \in Tenants \ {t} : settings'[u] = settings[u],
           UNCHANGED <<use, tenantOf, builtFrom, life, shells, sync, toBuild, job, context,
                       pc>>
    PROVE  Steady'
<1> DEFINE new == [tenant |-> t, settings |-> s]
<1>1. /\ pending' = [pending EXCEPT ![r] = Append(pending[r], new)]
      /\ pending'[r] = Append(pending[r], new)
      /\ \A q \in Requests \ {r} : pending'[q] = pending[q]
    BY DEF TypeOK, Flag
<1>2. /\ pending'[r] # <<>> /\ Len(pending[r]) + 1 \in DOMAIN pending'[r]
      /\ pending'[r][Len(pending[r]) + 1] = new
      /\ \A i \in DOMAIN pending[r] :
            i \in DOMAIN pending'[r] /\ pending'[r][i] = pending[r][i]
      /\ \A i \in DOMAIN pending'[r] : i \in DOMAIN pending[r] \/ pending'[r][i] = new
      /\ \A i \in DOMAIN pending[r] : pending[r][i].tenant \in Tenants
    <2>1. pending[r] \in Seq(Job)
        BY DEF TypeOK
    <2>2. \A i \in DOMAIN pending[r] : pending[r][i] \in Job
        BY <2>1
    <2>3. \A i \in DOMAIN pending[r] : pending[r][i].tenant \in Tenants
        BY <2>2 DEF Job
    <2> HIDE DEF new
    <2> QED
        BY <1>1, <2>1, <2>3
<1>3. Listed' = Listed /\ (Broken' <=> Broken)
    BY DEF Listed, Broken
<1>4. Rights' /\ Tidy'
    BY <1>3 DEF Steady, Rights, Tidy, Holds, Disposing
<1>5. Marked(r)'
    <2>1. \A i \in DOMAIN pending'[r] :
            pending'[r][i].settings = settings'[pending'[r][i].tenant]
        BY <1>2 DEF Steady, Marked
    <2> QED
        BY <2>1 DEF Marked, AtWork
<1>6. ASSUME NEW q \in Requests PROVE Duty(q)' /\ Marked(q)'
    <2>1. Duty(q) /\ Marked(q)
        BY DEF Steady
    <2>2. Duty(q)'
        BY <2>1, DutyKept
    <2>3. q # r => pending[q] = <<>> /\ ~AtWork(q)
        BY <2>1 DEF Marked, OneSaver
    <2>4. q # r => Marked(q)'
        BY <1>1, <2>1, <2>3 DEF Marked, AtWork
    <2> QED
        BY <1>5, <2>2, <2>4
<1>7. Waiting(t)' /\ \A u \in Tenants : Waiting(u) => Waiting(u)'
    <2>1. Awaits(r, t)'
        BY <1>2 DEF Awaits
    <2>2. \A u \in Tenants : Awaits(r, u) => Awaits(r, u)'
        BY <1>2 DEF Awaits, AtWork
    <2> QED
        BY <1>1, <2>1, <2>2, WaitingKept DEF Waiting
<1>8. (Creating' <=> Creating) /\ (Usable' <=> Usable)
    BY <1>3 DEF Creating, Usable
<1>9. ASSUME NEW u \in Tenants, u # t
      PROVE  (Applied(u) => Applied(u)') /\ (Queued(u) => Queued(u)')
    BY <1>3, <1>8, <1>9 DEF Applied, Queued
<1>10. Followed'
    BY <1>7, <1>8, <1>9 DEF Steady, Followed
<1>11. ASSUME Creating', NEW j \in toBuild'
       PROVE  Suits(j.settings, j.tenant)' \/ Waiting(j.tenant)'
    <2>1. j \in toBuild /\ j.tenant \in Tenants
        BY <1>11 DEF TypeOK, Attempt
    <2>2. Suits(j.settings, j.tenant) \/ Waiting(j.tenant)
        BY <1>8, <1>11, <2>1 DEF Steady, Loaded
    <2>3. j.tenant # t /\ Suits(j.settings, j.tenant) => Suits(j.settings, j.tenant)'
        BY <2>1 DEF Suits
    <2> QED
        BY <1>7, <2>1, <2>2, <2>3
<1>12. Loaded'
    BY <1>11 DEF Loaded
<1> QED
    BY <1>4, <1>6, <1>10, <1>12 DEF Steady

\* A tenant is saved.
LEMMA SavedStep ==
    ASSUME ShellHostAssumption, TypeOK, Steady, OneSaver, NEW r \in Requests,
           NEW t \in Tenants, NEW state \in use.saved, SaveSettings(r, t, state)
    PROVE  Steady'
<1>0. PICK s : s = [state |-> state, version |-> saves + 1]
    OBVIOUS
<1>1. /\ pc[r] = "body" /\ r \in use.admins /\ Flag(r, t, s)
      /\ ~\E i \in DOMAIN pending[r] : pending[r][i].tenant = t
      /\ settings' = [settings EXCEPT ![t] = s] /\ saves < use.saves
      /\ UNCHANGED <<use, tenantOf, builtFrom, life, shells, sync, toBuild, job, context, pc>>
    BY <1>0 DEF SaveSettings, listVars, contextVars, lockVars
<1>2. s \in Settings
    BY <1>0, <1>1, UseTypes DEF TypeOK, Settings
<1>3. /\ settings' \in [Tenants -> Settings] /\ settings'[t] = s
      /\ \A u \in Tenants \ {t} : settings'[u] = settings[u]
    BY <1>1, <1>2 DEF TypeOK
<1> QED
    BY <1>1, <1>3, MarkStep

\* The features of a tenant change: its context has the settings that were saved.
LEMMA ChangedStep ==
    ASSUME ShellHostAssumption, TypeOK, Steady, OneSaver, NEW r \in Requests,
           NEW t \in Tenants, DescriptorChanged(r, t)
    PROVE  Steady'
<1>0. PICK c, s : c = ContextOf(t) /\ s = builtFrom[c]
    OBVIOUS
<1>1. /\ pc[r] = "body" /\ r \in use.admins /\ Flag(r, t, s) /\ ~Broken
      /\ c # NoContext /\ s.state = "Running"
      /\ ~\E i \in DOMAIN pending[r] : pending[r][i].tenant = t
      /\ UNCHANGED <<use, settings, tenantOf, builtFrom, life, shells, sync, toBuild, job,
                     context, pc>>
    BY <1>0 DEF DescriptorChanged, listVars, contextVars, lockVars
<1>2. c \in Listed /\ tenantOf[c] = t
    BY <1>0, <1>1, ContextOfTenant DEF ContextOf
<1>3. ~Waiting(t)
    <2>1. ASSUME NEW q \in Requests, Awaits(q, t) PROVE FALSE
        <3>1. q \in use.admins
            BY <2>1 DEF Steady, Marked, Awaits
        <3>2. q = r
            BY <1>1, <3>1 DEF OneSaver
        <3> QED
            BY <1>1, <2>1, <3>2 DEF Awaits, AtWork
    <2> QED
        BY <2>1 DEF Waiting
<1>4. ~Queued(t)
    BY <1>2 DEF Steady, Duty, Queued, Creating
<1>5. Applied(t)
    BY <1>1, <1>3, <1>4 DEF Steady, Followed, Usable
<1>6. settings[t] = s
    <2>1. settings[t].state # "Disabled"
        BY <1>0, <1>1, <1>2, <1>5 DEF Applied
    <2>2. PICK d \in Listed : tenantOf[d] = t /\ builtFrom[d] = settings[t]
        BY <1>5, <2>1 DEF Applied
    <2>3. d = c
        BY <1>2, <2>2 DEF Steady, Tidy
    <2> QED
        BY <1>0, <2>2, <2>3
<1>7. settings' \in [Tenants -> Settings]
    BY <1>1 DEF TypeOK
<1> QED
    BY <1>1, <1>6, <1>7, MarkStep

\* Every step preserves the invariant.
LEMMA SettledStep ==
    ASSUME ShellHostAssumption, TypeOK, Turns, SettledInv, [Next]_vars
    PROVE  SettledInv'
<1> SUFFICES ASSUME Steadily, Steady PROVE Steady'
    BY UseIsKept DEF SettledInv, Steadily, OneReload, OneSaver
<1>1. OneReload /\ OneSaver /\ ~use.mayFail /\ ~use.mayClash
    BY DEF Steadily
<1>2. CASE ExtensionsChange \/ UNCHANGED vars
    BY <1>2, StillStep DEF ExtensionsChange, vars, bounds, listVars, contextVars, lockVars,
        requestVars
<1>3. ASSUME NEW r \in Requests, Proceed(r) \/ BeginRequest(r) \/ ReloadExtensions(r)
      PROVE  Steady'
    <2>1. /\ ~StartFails(r) /\ ~StartClashes(r) /\ ~StartsAbort(r) /\ ~StartTenantFails(r)
          /\ ~StopTenantFails(r) /\ ~ReplacementClashes(r)
        BY <1>1 DEF StartFails, StartClashes, StartsAbort, StartTenantFails,
            StopTenantFails, ReplacementClashes
    <2> QED
        BY <1>1, <1>3, <2>1, AsideSteps, TakeStep, LockToBuildStep, SetupStep,
           AllStartedStep, DisposedStep, ForgottenStep, TenantStartedStep,
           ShellStartedStep, TenantStoppedStep, NothingStep, WriteLockStep, ReplacingStep,
           ReplacementStep, NotReplacedStep DEF Proceed
<1> QED
    BY <1>1, <1>2, <1>3, SavedStep, ChangedStep DEF Next

\* At the beginning there is nothing to follow.
LEMMA SettledInit ==
    ASSUME ShellHostAssumption, Init
    PROVE  SettledInv
<1>1. /\ shells = NoList /\ toBuild = {}
      /\ \A r \in Requests : pc[r] = "idle" /\ pending[r] = <<>>
    BY DEF Init
<1>2. Listed = {} /\ Broken /\ ~Creating
    BY <1>1 DEF Listed, Broken, Creating
<1>3. Rights /\ Tidy /\ Followed /\ Loaded
    BY <1>1, <1>2 DEF Rights, Tidy, Followed, Loaded, Usable, Holds, Disposing
<1>4. \A r \in Requests : Duty(r) /\ Marked(r)
    BY <1>1 DEF Duty, Marked, AtWork
<1> QED
    BY <1>3, <1>4 DEF SettledInv, Steady

\* Between requests every tenant runs from the settings that were saved last, and a
\* disabled one does not run, when one request saves and nothing fails, however the
\* others come and extensions change meanwhile.
THEOREM HostSettingsApplied ==
    ASSUME ShellHostAssumption
    PROVE  Spec => []SettingsApplied
<1>1. SettledInv => SettingsApplied
    <2> SUFFICES ASSUME Steady, AtRest, shells # NoList, NEW t \in Tenants
                 PROVE  /\ settings[t].state = "Disabled" =>
                             \A c \in shells : tenantOf[c] = t => builtFrom[c].state = "Invalid"
                        /\ settings[t].state # "Disabled" =>
                             \E c \in shells : tenantOf[c] = t /\ builtFrom[c] = settings[t]
        BY DEF SettledInv, Steadily, SettingsApplied
    <2>1. \A r \in Requests : pc[r] = "idle" /\ pending[r] = <<>>
        BY DEF AtRest, Steady, Marked
    <2>2. ~Creating /\ ~Waiting(t) /\ Listed = shells
        BY <2>1 DEF Creating, Waiting, Awaits, AtWork, Listed
    <2>3. ~Broken
        BY <2>1 DEF Steady, Rights, Broken
    <2>4. Applied(t)
        BY <2>2, <2>3 DEF Steady, Followed, Usable, Queued
    <2> QED
        BY <2>2, <2>4 DEF Applied
<1> QED
    BY <1>1, TypeInit, TypeStep, HostInit, SettledInit, TurnsStep, SettledStep, PTL DEF Spec
==============================================================================
