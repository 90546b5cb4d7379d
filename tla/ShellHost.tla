------------------------------ MODULE ShellHost ------------------------------
(***************************************************************************)
(* DefaultOrchardHost (src/src/Orchard/Environment/DefaultOrchardHost.cs): *)
(* the list of shell contexts of a web server, built on demand, torn down  *)
(* when extensions change, and updated when tenants are saved, with the    *)
(* RunningShellTable and the locks around them.                            *)
(*                                                                         *)
(* A request runs BeginRequest, then application code (its body: it may    *)
(* save tenants or change their features), then EndRequest, and starts     *)
(* over.  The locks are _syncLock (sync), the lock of the cache entry that *)
(* MonitorExtensions keeps (cache) and one reader/writer lock per tenant   *)
(* (readers; a writer is a request that is at "writing" or "activating").  *)
(* _shellContextsWriteLock is held for single steps only.                  *)
(***************************************************************************)
EXTENDS Naturals, Sequences, FiniteSets

CONSTANTS
    Requests,
    Tenants,
    Default,          \* the tenant that gets the setup when there is no other
    Contexts,         \* identities of shell contexts; bounds how many live at once
    Uses,             \* what the requests do to a server
    Retries,          \* how often a shell that cannot be started is tried again
    MaxSaves,         \* bound: saves and feature changes
    NoRequest, NoTenant, NoList, NoContext

\* Invalid: the settings of a tenant that were never saved
States == {"Running", "Uninitialized", "Disabled", "Invalid"}

\* requests: those that come; admins: those whose body saves tenants or changes
\* features; reloaders: those whose body calls ReloadExtensions; initial, saved:
\* tenant states at the start, and those that are saved; mayFail: creating or
\* activating a shell may throw; mayClash: hosts of tenants may differ in case only,
\* and changes of the running shell table throw (RunningShellTable); saves, changes:
\* bounds on saves and feature changes, and on changes of extensions and calls of
\* ReloadExtensions
AllUses ==
    [requests : SUBSET Requests, admins : SUBSET Requests, reloaders : SUBSET Requests,
     initial : SUBSET (States \ {"Invalid"}), saved : SUBSET (States \ {"Invalid"}),
     mayFail : BOOLEAN, mayClash : BOOLEAN, saves : 0..MaxSaves, changes : Nat]

ASSUME ShellHostAssumption ==
    /\ Default \in Tenants
    /\ MaxSaves \in Nat
    /\ Retries \in Nat
    /\ \A u \in Uses : u \in AllUses
    /\ NoRequest \notin Requests
    /\ NoTenant \notin Tenants
    /\ \A S \in SUBSET Contexts : S # NoList
    /\ NoContext \notin Contexts

\* ShellSettings of a tenant; version tells one save from another
Settings == [state : States, version : 0..MaxSaves]

VARIABLES
    use,        \* what the requests do; never changes
    settings,   \* what the settings file of each tenant holds
    tenantOf,   \* tenantOf[c]: tenant of the shell context c
    builtFrom,  \* builtFrom[c]: ShellSettings of the shell context c
    life,       \* life[c]: "unused", "built", "active", "terminated", "disposed";
                \* active: its background tasks run, which is the last that
                \* Shell.Activate sees to; a disposed context that leaves the list is
                \* garbage, and unused
    shells,     \* _shellContexts
    table,      \* the tenants that RunningShellTable may give for a request
    stale,      \* the tokens of the entry OrchardHost_Extensions are not current
    sync,       \* the request that holds _syncLock
    cache,      \* the request that holds the lock of that cache entry
    readers,    \* readers[t]: requests that hold the read lock of tenant t
    toBuild,    \* the settings CreateAndActivateShells loaded and has yet to start
    pending,    \* pending[r]: _tenantsToRestart of request r
    target,     \* target[r]: tenant of the request
    job,        \* job[r]: the settings ActivateShell(settings) works on
    context,    \* context[r]: the shell context it replaces, and then the new one
    pc,         \* pc[r]: where request r is
    saves, changes   \* counters for the bounds

contextVars == <<tenantOf, builtFrom, life>>
listVars == <<contextVars, shells, table>>
lockVars == <<sync, cache, readers>>
requestVars == <<pending, target, job, context>>
bounds == <<use, saves, changes>>
vars == <<bounds, settings, listVars, stale, lockVars, toBuild, requestVars, pc>>

Job == [tenant : Tenants, settings : Settings]
Attempt == [tenant : Tenants, settings : Settings, attempt : 0..Retries]

Init ==
    /\ use \in Uses
    /\ settings \in [Tenants -> [state : use.initial, version : {0}]]
    /\ tenantOf = [c \in Contexts |-> NoTenant]
    /\ builtFrom = [c \in Contexts |-> [state |-> "Disabled", version |-> 0]]
    /\ life = [c \in Contexts |-> "unused"]
    /\ shells = NoList
    /\ table = {}
    /\ stale = TRUE
    /\ sync = NoRequest
    /\ cache = NoRequest
    /\ readers = [t \in Tenants |-> {}]
    /\ toBuild = {}
    /\ pending = [r \in Requests |-> <<>>]
    /\ target = [r \in Requests |-> NoTenant]
    /\ job = [r \in Requests |-> [tenant |-> Default, settings |-> settings[Default]]]
    /\ context = [r \in Requests |-> NoContext]
    /\ pc = [r \in Requests |-> "idle"]
    /\ saves = 0
    /\ changes = 0

Goto(r, label) == pc' = [pc EXCEPT ![r] = label]

Listed == IF shells = NoList THEN {} ELSE shells

\* the shell context of tenant t in _shellContexts
ContextOf(t) ==
    IF \E c \in Listed : tenantOf[c] = t
    THEN CHOOSE c \in Listed : tenantOf[c] = t
    ELSE NoContext

\* Code that reads _shellContexts through LINQ throws when it is null, and when
\* it holds disposed contexts, whose Settings and Shell are null.
Broken == shells = NoList \/ \E c \in Listed : life[c] = "disposed"

\* Mutant of SyncFree: no lock.
SyncFree_NoLock == TRUE
SyncFree == sync = NoRequest

CacheFree == cache = NoRequest

\* A shell context that is created next
New == CHOOSE c \in Contexts : life[c] = "unused"

\* CreateShellContext for the settings s of tenant t
CreateShellContext(t, s) ==
    /\ \E c \in Contexts : life[c] = "unused"
    /\ tenantOf' = [tenantOf EXCEPT ![New] = t]
    /\ builtFrom' = [builtFrom EXCEPT ![New] = s]

\* CreateShellContext, and ActivateShell(context): the new context replaces the
\* one of its tenant in the list, and the tenant enters the table.
Start(t, s) ==
    /\ CreateShellContext(t, s)
    /\ life' = [life EXCEPT ![New] = "active"]
    /\ shells' = {c \in Listed : tenantOf[c] # t} \cup {New}
    /\ table' = table \cup {t}

(***************************************************************************)
(* BeginRequest                                                            *)
(***************************************************************************)
\* _runningShellTable.Match
BeginRequest(r) ==
    /\ r \in use.requests
    /\ pc[r] = "idle"
    /\ \E t \in table \cup {NoTenant} :
          /\ target' = [target EXCEPT ![r] = t]
          /\ Goto(r, IF t = NoTenant THEN "monitor" ELSE "reading")
    /\ UNCHANGED <<bounds, settings, listVars, stale, lockVars, toBuild, pending, job,
                   context>>

\* Requests that want to write, or do: ReaderWriterLockSlim holds new readers back.
Writers(t) ==
    {w \in Requests : pc[w] \in {"writing", "activating"} /\ job[w].tenant = t}

EnterReadLock(r) ==
    /\ pc[r] = "reading"
    /\ Writers(target[r]) = {}
    /\ readers' = [readers EXCEPT ![target[r]] = @ \cup {r}]
    /\ Goto(r, "monitor")
    /\ UNCHANGED <<bounds, settings, listVars, stale, sync, cache, toBuild, requestVars>>

\* MonitorExtensions: a current cache entry is returned; otherwise its tokens
\* are renewed and DisposeShellContext follows, within the lock of the entry.
MonitorExtensions(r) ==
    /\ pc[r] = "monitor"
    /\ CacheFree
    /\ IF stale
       THEN cache' = r /\ stale' = FALSE /\ Goto(r, "dispose")
       ELSE Goto(r, "build") /\ UNCHANGED <<cache, stale>>
    /\ UNCHANGED <<bounds, settings, listVars, sync, readers, toBuild, requestVars>>

\* Where DisposeShellContext returns to: MonitorExtensions or ReloadExtensions.
Disposed(r) ==
    IF cache = r THEN cache' = NoRequest /\ Goto(r, "build")
                 ELSE UNCHANGED cache /\ Goto(r, "body")

\* DisposeShellContext: the check before the lock
DisposeShellContext(r) ==
    /\ pc[r] = "dispose"
    /\ IF shells = NoList THEN Disposed(r)
                          ELSE Goto(r, "disposing") /\ UNCHANGED cache
    /\ UNCHANGED <<bounds, settings, listVars, stale, sync, readers, toBuild,
                   requestVars>>

\* What an exception leaves behind: the locks are released, the cache entry is
\* not renewed, and what was pending is lost when it escapes from EndRequest.
Throw(r) ==
    /\ cache' = IF cache = r THEN NoRequest ELSE cache
    /\ stale' = (stale \/ cache = r)
    /\ sync' = IF sync = r THEN NoRequest ELSE sync
    /\ readers' = [t \in Tenants |-> readers[t] \ {r}]
    /\ pending' = [pending EXCEPT ![r] = <<>>]
    /\ Goto(r, "idle")

\* DisposeShellContext: the check within the lock, and the shells terminated and
\* disposed; Terminate on a disposed context is an exception.
DisposeShells(r) ==
    /\ pc[r] = "disposing"
    /\ SyncFree
    /\ IF \E c \in Listed : life[c] = "disposed"
       THEN Throw(r) /\ UNCHANGED life
       ELSE /\ life' = [c \in Contexts |-> IF c \in Listed THEN "disposed" ELSE life[c]]
            /\ Goto(r, "forgetting")
            /\ UNCHANGED <<stale, lockVars, pending>>
    /\ UNCHANGED <<bounds, settings, tenantOf, builtFrom, shells, table, toBuild,
                   target, job, context>>

\* DisposeShellContext: _shellContexts = null, after the lock
ForgetShells(r) ==
    /\ pc[r] = "forgetting"
    /\ shells' = NoList
    /\ life' = [c \in Contexts |-> IF life[c] = "disposed" THEN "unused" ELSE life[c]]
    /\ Disposed(r)
    /\ UNCHANGED <<bounds, settings, tenantOf, builtFrom, table, stale, sync, readers,
                   toBuild, requestVars>>

\* BuildCurrent: the check before the lock
BuildCurrent(r) ==
    /\ pc[r] = "build"
    /\ Goto(r, IF shells # NoList THEN "built" ELSE "building")
    /\ UNCHANGED <<bounds, settings, listVars, stale, lockVars, toBuild, requestVars>>

\* BuildCurrent: the check within the lock
LockAndBuild(r) ==
    /\ pc[r] = "building"
    /\ SyncFree
    /\ IF shells # NoList
       THEN Goto(r, "built") /\ UNCHANGED sync
       ELSE sync' = r /\ Goto(r, "setup")
    /\ UNCHANGED <<bounds, settings, listVars, stale, cache, readers, toBuild,
                   requestVars>>

\* The tenants CreateAndActivateShells starts, or the setup when there is none
ToStart ==
    LET started == {t \in Tenants : settings[t].state # "Disabled"}
    IN  IF started # {}
        THEN {[tenant |-> t, settings |-> settings[t], attempt |-> 0] : t \in started}
        ELSE {[tenant |-> Default,
               settings |-> [state |-> "Invalid",
                             version |-> settings[Default].version],
               attempt |-> 0]}

\* Within the lock: MonitorExtensions, whose DisposeShellContext finds no list,
\* then CreateAndActivateShells loads the settings.
SetupExtensions(r) ==
    /\ pc[r] = "setup"
    /\ CacheFree
    /\ stale' = FALSE
    /\ toBuild' = ToStart
    /\ Goto(r, "creating")
    /\ UNCHANGED <<bounds, settings, listVars, lockVars, requestVars>>

\* The tenants are started in parallel: one of them is created, activated and
\* published ...
StartShell(r) ==
    /\ pc[r] = "creating"
    /\ \E j \in toBuild : Start(j.tenant, j.settings) /\ toBuild' = toBuild \ {j}
    /\ UNCHANGED <<bounds, settings, stale, lockVars, requestVars, pc>>

\* Mutant of Retried: once too often.
Retried_Again(j) ==
    (toBuild \ {j}) \cup
    {i \in {[j EXCEPT !.attempt = @ + 1]} : i.attempt <= Retries + 1}

\* What is left to start when an attempt at j has failed.
Retried(j) ==
    (toBuild \ {j}) \cup
    {i \in {[j EXCEPT !.attempt = @ + 1]} : i.attempt <= Retries}

IsSetup(j) == j.settings.state = "Invalid"

\* ... or cannot be created or activated ...
StartFails(r) ==
    /\ use.mayFail
    /\ pc[r] = "creating"
    /\ \E j \in toBuild : ~IsSetup(j) /\ toBuild' = Retried(j)
    /\ UNCHANGED <<bounds, settings, listVars, stale, lockVars, requestVars, pc>>

\* ... or is active and in the list when _runningShellTable.Add throws: another
\* context takes its place at the next attempt, and it is not terminated.
StartClashes(r) ==
    /\ use.mayClash
    /\ pc[r] = "creating"
    /\ \E j \in toBuild :
        ~IsSetup(j) /\ Start(j.tenant, j.settings) /\ toBuild' = Retried(j)
    /\ UNCHANGED <<bounds, settings, stale, lockVars, requestVars, pc>>

\* What nothing catches: the setup cannot be started, or a task throws that a shell
\* has added when it was activated; Parallel.ForEach begins with no other tenant.
StartsAbort(r) ==
    /\ pc[r] = "creating"
    /\ \/ use.mayFail /\ UNCHANGED listVars
       \/ /\ use.mayClash
          /\ \E j \in toBuild : IsSetup(j) /\ Start(j.tenant, j.settings)
    /\ toBuild' = {}
    /\ Throw(r)
    /\ UNCHANGED <<bounds, settings, target, job, context>>

AllStarted(r) ==
    /\ pc[r] = "creating"
    /\ toBuild = {}
    /\ sync' = NoRequest
    /\ Goto(r, "built")
    /\ UNCHANGED <<bounds, settings, listVars, stale, cache, readers, toBuild,
                   requestVars>>

\* The read lock is released; a new request has no tenants to restart.
EnterBody(r) ==
    /\ pc[r] = "built"
    /\ readers' = [t \in Tenants |-> readers[t] \ {r}]
    /\ Goto(r, "body")
    /\ UNCHANGED <<bounds, settings, listVars, stale, sync, cache, toBuild, requestVars>>

(***************************************************************************)
(* The body                                                                *)
(***************************************************************************)
\* Mutant of Flag: a tenant is not flagged while another one is.
Flag_OnlyOne(r, t, s) ==
    pending' = [pending EXCEPT ![r] =
        IF @ # <<>> THEN @ ELSE <<[tenant |-> t, settings |-> s]>>]

\* The tenant is flagged for restart, unless it is already.
Flag(r, t, s) ==
    pending' = [pending EXCEPT ![r] =
        IF \E i \in DOMAIN @ : @[i].tenant = t
        THEN @ ELSE Append(@, [tenant |-> t, settings |-> s])]

\* ShellSettingsManager.SaveSettings and the handler of its Saved event.  A
\* request saves a tenant once: saving it again saves the same object.
SaveSettings(r, t, s) ==
    LET saved == [state |-> s, version |-> saves + 1] IN
    /\ pc[r] = "body"
    /\ r \in use.admins
    /\ saves < use.saves
    /\ ~\E i \in DOMAIN pending[r] : pending[r][i].tenant = t
    /\ saves' = saves + 1
    /\ settings' = [settings EXCEPT ![t] = saved]
    /\ Flag(r, t, saved)
    /\ UNCHANGED <<listVars, stale, lockVars, toBuild, use, target, job, context, pc,
                   changes>>

\* IShellDescriptorManagerEventHandler.Changed: a running tenant is flagged.
DescriptorChanged(r, t) ==
    /\ pc[r] = "body"
    /\ r \in use.admins
    /\ saves < use.saves
    /\ ~Broken
    /\ ContextOf(t) # NoContext
    /\ builtFrom[ContextOf(t)].state = "Running"
    /\ ~\E i \in DOMAIN pending[r] : pending[r][i].tenant = t
    /\ saves' = saves + 1
    /\ Flag(r, t, builtFrom[ContextOf(t)])
    /\ UNCHANGED <<settings, listVars, stale, lockVars, toBuild, use, target, job,
                   context, pc, changes>>

ReloadExtensions(r) ==
    /\ pc[r] = "body"
    /\ r \in use.reloaders
    /\ changes < use.changes
    /\ changes' = changes + 1
    /\ Goto(r, "dispose")
    /\ UNCHANGED <<settings, listVars, stale, lockVars, toBuild, requestVars, use, saves>>

(***************************************************************************)
(* EndRequest: StartUpdatedShells                                          *)
(***************************************************************************)
EndRequest(r) ==
    /\ pc[r] = "body"
    /\ Goto(r, "ending")
    /\ UNCHANGED <<bounds, settings, listVars, stale, lockVars, toBuild, requestVars>>

\* Mutant of Taken: the tenant stays in the list.
Taken_Kept(r) == UNCHANGED pending

\* The first of the tenants to restart leaves the list.
Taken(r) == pending' = [pending EXCEPT ![r] = Tail(@)]

\* The next of the tenants to restart is taken from the list.
StartUpdatedShells(r) ==
    /\ pc[r] = "ending"
    /\ IF pending[r] = <<>>
       THEN Goto(r, "idle") /\ UNCHANGED <<pending, job>>
       ELSE /\ job' = [job EXCEPT ![r] = Head(pending[r])]
            /\ Taken(r)
            /\ Goto(r, "updating")
    /\ UNCHANGED <<bounds, settings, listVars, stale, lockVars, toBuild, target, context>>

Current(r) == ContextOf(job[r].tenant)

\* ActivateShell(settings) throws, or has nothing to do for a disabled tenant.
NothingToUpdate(r) ==
    /\ pc[r] = "updating"
    /\ SyncFree
    /\ IF Broken
       THEN Throw(r)
       ELSE /\ Current(r) = NoContext
            /\ job[r].settings.state = "Disabled"
            /\ Goto(r, "ending")
            /\ UNCHANGED <<stale, lockVars, pending>>
    /\ UNCHANGED <<bounds, settings, listVars, toBuild, target, job, context>>

\* ActivateShell(settings) starts a new tenant, or one that waits for its setup.
ToStartTenant(r) ==
    /\ pc[r] = "updating"
    /\ SyncFree
    /\ ~Broken
    /\ \/ Current(r) = NoContext /\ job[r].settings.state # "Disabled"
       \/ job[r].settings.state = "Uninitialized"

StartTenant(r) ==
    /\ ToStartTenant(r)
    /\ Start(job[r].tenant, job[r].settings)
    /\ Goto(r, "ending")
    /\ UNCHANGED <<bounds, settings, stale, lockVars, toBuild, requestVars>>

\* It cannot be started, or is when _runningShellTable.Add throws.
StartTenantFails(r) ==
    /\ ToStartTenant(r)
    /\ \/ use.mayFail /\ UNCHANGED listVars
       \/ use.mayClash /\ Start(job[r].tenant, job[r].settings)
    /\ Throw(r)
    /\ UNCHANGED <<bounds, settings, toBuild, target, job, context>>

\* ActivateShell(settings): the tenant was disabled
ToStopTenant(r) ==
    /\ pc[r] = "updating"
    /\ SyncFree
    /\ ~Broken
    /\ Current(r) # NoContext
    /\ job[r].settings.state = "Disabled"

StopTenant(r) ==
    /\ ToStopTenant(r)
    /\ life' = [life EXCEPT ![Current(r)] = "unused"]
    /\ table' = table \ {job[r].tenant}
    /\ shells' = shells \ {Current(r)}
    /\ Goto(r, "ending")
    /\ UNCHANGED <<bounds, settings, tenantOf, builtFrom, stale, lockVars, toBuild,
                   requestVars>>

\* _runningShellTable.Remove throws, and the terminated shell stays in the list.
StopTenantFails(r) ==
    /\ ToStopTenant(r)
    /\ use.mayClash
    /\ life' = [life EXCEPT ![Current(r)] = "terminated"]
    /\ Throw(r)
    /\ UNCHANGED <<bounds, settings, tenantOf, builtFrom, shells, table, toBuild, target,
                   job, context>>

\* ActivateShell(settings): the settings of a running tenant changed, and
\* _syncLock is held while the write lock of the tenant is awaited.
AwaitWriteLock(r) ==
    /\ pc[r] = "updating"
    /\ SyncFree
    /\ ~Broken
    /\ Current(r) # NoContext
    /\ job[r].settings.state = "Running"
    /\ context' = [context EXCEPT ![r] = Current(r)]
    /\ sync' = r
    /\ Goto(r, "writing")
    /\ UNCHANGED <<bounds, settings, listVars, stale, cache, readers, toBuild, pending,
                   target, job>>

\* Mutant of Retire: the previous shell is not terminated.
Retire_Forgotten(c) == life

\* The previous context is terminated, and disposed once it is out of the list.
Retire(c) == [life EXCEPT ![c] = "unused"]

\* Within the write lock the new context takes the place of the previous one ...
ReplaceShell(r) ==
    /\ pc[r] = "writing"
    /\ readers[job[r].tenant] = {}
    /\ ~Broken
    /\ CreateShellContext(job[r].tenant, job[r].settings)
    /\ life' = [Retire(context[r]) EXCEPT ![New] = "built"]
    /\ shells' = {c \in shells : tenantOf[c] # job[r].tenant} \cup {New}
    /\ context' = [context EXCEPT ![r] = New]
    /\ Goto(r, "activating")
    /\ UNCHANGED <<bounds, settings, table, stale, lockVars, toBuild, pending, target,
                   job>>

\* ... and is activated; _runningShellTable.Update
ActivateReplacement(r) ==
    /\ pc[r] = "activating"
    /\ life' = [life EXCEPT ![context[r]] = "active"]
    /\ table' = table \cup {job[r].tenant}
    /\ context' = [context EXCEPT ![r] = NoContext]
    /\ sync' = NoRequest
    /\ Goto(r, "ending")
    /\ UNCHANGED <<bounds, settings, tenantOf, builtFrom, shells, stale, cache, readers,
                   toBuild, pending, target, job>>

\* _runningShellTable.Update throws, when the new context is active.
ReplacementClashes(r) ==
    /\ pc[r] = "activating"
    /\ use.mayClash
    /\ life' = [life EXCEPT ![context[r]] = "active"]
    /\ table' = table \cup {job[r].tenant}
    /\ context' = [context EXCEPT ![r] = NoContext]
    /\ Throw(r)
    /\ UNCHANGED <<bounds, settings, tenantOf, builtFrom, shells, toBuild, target, job>>

\* What a context is that is in the list, or of no use to anybody.
Kept(c, state) == IF c \in Listed THEN state ELSE "unused"

\* The new context cannot be created, or the list is gone: the previous one stays
\* terminated.  It cannot be activated: it stays as it is.
ReplacementFails(r) ==
    /\ \/ /\ pc[r] = "writing"
          /\ readers[job[r].tenant] = {}
          /\ use.mayFail \/ Broken
          /\ life' = [life EXCEPT ![context[r]] = Kept(context[r], "terminated")]
       \/ /\ pc[r] = "activating" /\ use.mayFail
          /\ life' = [life EXCEPT ![context[r]] = Kept(context[r], "built")]
    /\ context' = [context EXCEPT ![r] = NoContext]
    /\ Throw(r)
    /\ UNCHANGED <<bounds, settings, tenantOf, builtFrom, shells, table, toBuild,
                   target, job>>

------------------------------------------------------------------------------
\* Files of an extension change: the tokens of the cache entry expire.
ExtensionsChange ==
    /\ changes < use.changes
    /\ ~stale
    /\ changes' = changes + 1
    /\ stale' = TRUE
    /\ UNCHANGED <<settings, listVars, lockVars, toBuild, requestVars, use, pc, saves>>

\* What a request does once it has begun
Proceed(r) ==
    \/ EnterReadLock(r) \/ MonitorExtensions(r)
    \/ DisposeShellContext(r) \/ DisposeShells(r) \/ ForgetShells(r)
    \/ BuildCurrent(r) \/ LockAndBuild(r) \/ SetupExtensions(r)
    \/ StartShell(r) \/ StartFails(r) \/ StartClashes(r) \/ StartsAbort(r)
    \/ AllStarted(r) \/ EnterBody(r) \/ EndRequest(r) \/ StartUpdatedShells(r)
    \/ NothingToUpdate(r) \/ StartTenant(r) \/ StartTenantFails(r)
    \/ StopTenant(r) \/ StopTenantFails(r) \/ AwaitWriteLock(r) \/ ReplaceShell(r)
    \/ ActivateReplacement(r) \/ ReplacementFails(r) \/ ReplacementClashes(r)

Next ==
    \/ \E r \in Requests :
          \/ BeginRequest(r)
          \/ Proceed(r)
          \/ \E t \in Tenants :
                \/ \E s \in use.saved : SaveSettings(r, t, s)
                \/ DescriptorChanged(r, t)
          \/ ReloadExtensions(r)
    \/ ExtensionsChange

Spec == Init /\ [][Next]_vars

\* A request that has begun is run until it ends.
FairSpec == Spec /\ \A r \in Requests : WF_vars(Proceed(r))

------------------------------------------------------------------------------
Labels == {"idle", "reading", "monitor", "dispose", "disposing", "forgetting",
           "build", "building", "setup", "creating", "built", "body", "ending",
           "updating", "writing", "activating"}

TypeOK ==
    /\ use \in Uses
    /\ settings \in [Tenants -> Settings]
    /\ tenantOf \in [Contexts -> Tenants \cup {NoTenant}]
    /\ builtFrom \in [Contexts -> Settings]
    /\ life \in [Contexts -> {"unused", "built", "active", "terminated", "disposed"}]
    /\ shells \in {NoList} \cup SUBSET Contexts
    /\ table \in SUBSET Tenants
    /\ stale \in BOOLEAN
    /\ sync \in Requests \cup {NoRequest}
    /\ cache \in Requests \cup {NoRequest}
    /\ readers \in [Tenants -> SUBSET Requests]
    /\ toBuild \in SUBSET Attempt
    /\ pending \in [Requests -> Seq(Job)]
    /\ target \in [Requests -> Tenants \cup {NoTenant}]
    /\ job \in [Requests -> Job]
    /\ context \in [Requests -> Contexts \cup {NoContext}]
    /\ pc \in [Requests -> Labels]
    /\ saves \in 0..use.saves
    /\ changes \in 0..use.changes

Active == {c \in Contexts : life[c] = "active"}

\* Two calls of DisposeShellContext do not overlap: the second one could forget the
\* list that is built after the first, or what is in it by then.
OneReload == use.reloaders = {} \/ use.changes <= 1

\* Tenants that wait for their setup are not saved: ActivateShell would start a second
\* shell for them, and leave the first one as it is.  Nor are tenants disabled while
\* extensions change: an empty list, to which ActivateShell adds a shell, could then
\* be forgotten with it.  And changes of the table do not throw: StartClashes leaves
\* behind a shell that is active and in no list.
NoneDropped ==
    /\ "Uninitialized" \notin use.saved
    /\ use.changes > 0 => "Disabled" \notin use.saved
    /\ OneReload
    /\ ~use.mayClash

\* GetShellContext, which expects at most one context of a tenant, finds no two in the
\* list, whatever fails.  Two shells of one tenant are never active together (each runs
\* the background tasks and has published the routes of the tenant).
OneShellPerTenant ==
    \A c, d \in Contexts :
        c # d /\ tenantOf[c] = tenantOf[d] /\ tenantOf[c] # NoTenant =>
            /\ ~({c, d} \subseteq Listed)
            /\ NoneDropped => ~({c, d} \subseteq Active)

\* "Terminates all active shell contexts, and dispose their scope, forcing them
\* to be reloaded": once the list is forgotten no shell is left active, whatever fails.
NoneForgotten ==
    NoneDropped => (shells = NoList => Active = {})

\* One request at most saves tenants or changes their features.
OneSaver == \A q, r \in use.admins : q = r

AtRest == \A r \in Requests : pc[r] = "idle"

\* Between requests every tenant runs from the settings last saved, and a
\* disabled one does not run (the setup of the default tenant may): even if the
\* extensions change on the way, but one request at a time saves.
SettingsApplied ==
    /\ AtRest /\ shells # NoList /\ OneReload
    /\ OneSaver /\ ~use.mayFail /\ ~use.mayClash
    =>
        \A t \in Tenants :
            IF settings[t].state = "Disabled"
            THEN \A c \in shells : tenantOf[c] = t => builtFrom[c].state = "Invalid"
            ELSE \E c \in shells : tenantOf[c] = t /\ builtFrom[c] = settings[t]

\* A request that holds a read lock does not wait for _syncLock while its holder
\* waits for that request to release the read lock.
NoCircularWait ==
    \A r, w \in Requests :
        pc[w] = "writing" /\ r \in readers[job[w].tenant] =>
            pc[r] \notin {"disposing", "building"}

\* Every request that has begun ends: no lock is waited for in vain.  Extensions do
\* not change while tenants are saved.
RequestsEnd == \A r \in Requests : pc[r] # "idle" ~> pc[r] = "idle"
==============================================================================
