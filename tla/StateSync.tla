------------------------------ MODULE StateSync ------------------------------
(***************************************************************************)
(* The state synchronisation of xray-agent: the panel's desired state, the *)
(* agent's in-memory store, Xray's runtime users and routing rules, and    *)
(* the two goroutines that reconcile them (runStateLoop, and the command   *)
(* loop after it restarted Xray), which share Agent.syncMu.                *)
(*                                                                         *)
(* One RPC is one step; between two RPCs of a sync the panel may edit its  *)
(* state, Xray may crash, the other goroutine may restart Xray and the     *)
(* agent may die.  The panel and Xray are not in the repository: they are  *)
(* modelled from how the agent uses them.                                  *)
(***************************************************************************)
EXTENDS Integers

CONSTANTS
    Emails,            \* client identities
    Protos,            \* values of Client.Proto
    Supported,         \* the ones tagForProto and buildUser know
    Secrets,           \* (ID, Password) pairs
    Tags,              \* route tags
    RouteRules,        \* route bodies: everything of a rule but its tag
    Buildable,         \* the ones buildRoutingConfig accepts
    Versions,          \* values of config_version
    None,              \* an absent entry, a free lock
    SyncRetries,       \* coreRestartSyncRetries
    ManualStarts,      \* the agent may also be started by hand, not by its unit
    HttpFaults,        \* calls to the panel may fail
    RpcFaults,         \* calls to Xray's API may fail or time out
    MaxRev,            \* bound: states the panel publishes
    MaxFaults,         \* bound: failed calls
    MaxCrashes,        \* bound: restarts of Xray on its own
    MaxAgentRestarts,  \* bound: restarts of the agent
    MaxCommands        \* bound: commands that restart Xray

Client == [proto : Protos, secret : Secrets]
Procs  == {"state", "command"}   \* runStateLoop, runCommandLoop

ASSUME SetsAssumption  == Supported \subseteq Protos /\ Buildable \subseteq RouteRules
ASSUME NoneAssumption  == /\ None \notin Client /\ None \notin Secrets
                          /\ None \notin RouteRules /\ None \notin Procs
                          /\ None \notin Emails /\ None \notin Tags
ASSUME VersionsAssumption == Versions \subseteq Nat /\ Versions # {}
ASSUME SwitchAssumption   ==
    {ManualStarts, HttpFaults, RpcFaults} \subseteq BOOLEAN
ASSUME BoundsAssumption   ==
    /\ SyncRetries \in Nat \ {0}
    /\ {MaxRev, MaxFaults, MaxCrashes, MaxAgentRestarts, MaxCommands} \subseteq Nat

VARIABLES
    desired,  \* what the panel's state endpoint answers
    store,    \* state.Store: what the agent last applied without an error
    users,    \* Xray: users[proto][email], the account of the inbound's user
    rules,    \* Xray: rules[tag], the routing rule of that tag
    syncMu,   \* holder of Agent.syncMu
    job,      \* job[p]: the syncState call goroutine p is in
    cmd,      \* where the command loop is in a command that restarts Xray
    attempt,  \* syncStateAfterCoreRestart: number of the current attempt
    epoch,    \* incarnation of the Xray process
    exact,    \* history: the runtime was what the last diff assumed, and no
              \* crash, fault or failed sync has come between since
    spent     \* how much of each bound is used up

vars == <<desired, store, users, rules, syncMu, job, cmd, attempt, epoch, exact, spent>>
-----------------------------------------------------------------------------
(* States and runtimes.  A list of clients with distinct emails, and a list  *)
(* of routes after NormalizeRouteRules, is the function it defines.          *)

State == [rev     : Nat,                          \* history: serial of the panel's edit
          version : Versions \cup {-1},
          clients : [Emails -> Client \cup {None}],
          routes  : [Tags -> RouteRules \cup {None}]]

NoClients == [e \in Emails |-> None]
NoRoutes  == [t \in Tags |-> None]
NoUsers   == [pr \in Protos |-> NoClients]

\* state.New: nothing applied yet, lastVersion -1.
EmptyStore == [rev |-> 0, version |-> -1, clients |-> NoClients, routes |-> NoRoutes]

\* The account that inbound pr holds for e once the clients cs are applied.
Account(cs, pr, e) ==
    IF cs[e] # None /\ cs[e].proto = pr THEN cs[e].secret ELSE None

AppliedUsers(cs) == [pr \in Protos |-> [e \in Emails |-> Account(cs, pr, e)]]

\* The runtime holds exactly what the state s asks for.
RuntimeIs(s) == users = AppliedUsers(s.clients) /\ rules = s.routes

\* Mutant: the version alone is compared.
IsUnchangedVersionOnly(s) == s.version = store.version

\* Store.IsUnchanged.
IsUnchanged(s) == /\ s.version = store.version
                  /\ s.clients = store.clients
                  /\ s.routes  = store.routes

\* Mutants: a changed entry is not removed first; every wanted entry is added.
RemovesDroppedOnly(cur, want) == {k \in DOMAIN cur : cur[k] # None /\ want[k] = None}
AddsEverything(cur, want)     == {k \in DOMAIN cur : want[k] # None}

\* diffClients and diffRoutes: what goes, what comes.
Removes(cur, want) == {k \in DOMAIN cur : cur[k] # None /\ cur[k] # want[k]}
Adds(cur, want)    == {k \in DOMAIN cur : want[k] # None /\ cur[k] # want[k]}

Job == [phase : {"idle", "fetch", "apply"},
        ds    : State,               \* the state GetState returned
        base  : State,               \* what the runtime is taken to hold
        rmUsers : SUBSET Emails, addUsers  : SUBSET Emails,
        rmRoutes : SUBSET Tags,  addRoutes : SUBSET Tags,
        pre   : Emails \cup Tags \cup {None},  \* stale entry dropped, add to follow
        epoch : Nat]                 \* Xray's incarnation when the diff was made

IdleJob == [phase |-> "idle", ds |-> EmptyStore, base |-> EmptyStore,
            rmUsers |-> {}, addUsers |-> {}, rmRoutes |-> {}, addRoutes |-> {},
            pre |-> None, epoch |-> 0]
FetchJob == [IdleJob EXCEPT !.phase = "fetch"]

ApplyJob(ds, base) ==
    [phase |-> "apply", ds |-> ds, base |-> base,
     rmUsers  |-> Removes(base.clients, ds.clients),
     addUsers |-> Adds(base.clients, ds.clients),
     rmRoutes  |-> Removes(base.routes, ds.routes),
     addRoutes |-> Adds(base.routes, ds.routes),
     pre |-> None, epoch |-> epoch]

NothingSpent == [faults |-> 0, crashes |-> 0, agentRestarts |-> 0, commands |-> 0]

Init ==
    /\ desired = [EmptyStore EXCEPT !.rev = 1, !.version = CHOOSE v \in Versions : TRUE]
    /\ store = EmptyStore
    /\ users = NoUsers /\ rules = NoRoutes
    /\ syncMu = None
    /\ job = [p \in Procs |-> IdleJob]
    /\ cmd = "none" /\ attempt = 1
    /\ epoch = 0 /\ exact = TRUE
    /\ spent = NothingSpent
-----------------------------------------------------------------------------
(* The panel.                                                               *)

Publish(version, clients, routes) ==
    desired' = [rev |-> desired.rev + 1, version |-> version,
                clients |-> clients, routes |-> routes]

\* One client or one route is added, changed or dropped; the version the panel
\* attaches is arbitrary (IsUnchanged does not rely on it alone).
PanelEdit ==
    /\ desired.rev < MaxRev
    /\ \E v \in Versions :
          \/ \E e \in Emails, c \in Client \cup {None} :
                Publish(v, [desired.clients EXCEPT ![e] = c], desired.routes)
          \/ \E t \in Tags, r \in RouteRules \cup {None} :
                Publish(v, desired.clients, [desired.routes EXCEPT ![t] = r])
    /\ UNCHANGED <<store, users, rules, syncMu, job, cmd, attempt, epoch, exact, spent>>
-----------------------------------------------------------------------------
(* syncState: entering, fetching, leaving.                                  *)

\* Mutant: the runtime is taken for what the store says even after a restart.
AssumeEmptyRuntimeNever(p) == FALSE

\* A sync of the command loop takes the runtime to be empty.
AssumeEmptyRuntime(p) == p = "command"

\* The state loop syncs on every tick, the command loop while it retries.
WantsSync(p) == job[p].phase = "idle" /\ (p = "command" => cmd = "sync")

\* Mutant: the command loop does not take the lock.
LockStateLoopOnly(p) ==
    /\ WantsSync(p)
    /\ p = "state" => syncMu = None
    /\ syncMu' = p
    /\ job' = [job EXCEPT ![p] = FetchJob]
    /\ UNCHANGED <<desired, store, users, rules, cmd, attempt, epoch, exact, spent>>

Lock(p) ==
    /\ WantsSync(p)
    /\ syncMu = None
    /\ syncMu' = p
    /\ job' = [job EXCEPT ![p] = FetchJob]
    /\ UNCHANGED <<desired, store, users, rules, cmd, attempt, epoch, exact, spent>>

\* Mutants: the retry loop is off by one; it never gives up.
ReturnOneTooMany(p, ok) ==
    /\ syncMu' = None
    /\ job' = [job EXCEPT ![p] = IdleJob]
    /\ IF p = "command"
       THEN /\ cmd' = IF ok THEN "ackSucceeded"
                      ELSE IF attempt > SyncRetries THEN "ackFailed" ELSE cmd
            /\ attempt' = IF ok \/ attempt > SyncRetries THEN attempt ELSE attempt + 1
       ELSE UNCHANGED <<cmd, attempt>>
ReturnRetriesForEver(p, ok) ==
    /\ syncMu' = None
    /\ job' = [job EXCEPT ![p] = IdleJob]
    /\ cmd' = IF p = "command" /\ ok THEN "ackSucceeded" ELSE cmd
    /\ UNCHANGED attempt

\* syncState returns: the deferred Unlock, and for the command loop what
\* syncStateAfterCoreRestart makes of the result.
Return(p, ok) ==
    /\ syncMu' = None
    /\ job' = [job EXCEPT ![p] = IdleJob]
    /\ IF p = "command"
       THEN /\ cmd' = IF ok THEN "ackSucceeded"
                      ELSE IF attempt >= SyncRetries THEN "ackFailed" ELSE cmd
            /\ attempt' = IF ok \/ attempt >= SyncRetries THEN attempt ELSE attempt + 1
       ELSE UNCHANGED <<cmd, attempt>>

Spend(what) == spent' = [spent EXCEPT ![what] = @ + 1]

\* GetState answers and the state is the one already applied.
GetStateUnchanged(p) ==
    /\ job[p].phase = "fetch"
    /\ ~AssumeEmptyRuntime(p)
    /\ IsUnchanged(desired)
    /\ Return(p, TRUE)
    /\ UNCHANGED <<desired, store, users, rules, epoch, exact, spent>>

\* GetState answers and the differences are computed, from the store or, after
\* a restart of Xray, from nothing.
GetStateChanged(p) ==
    /\ job[p].phase = "fetch"
    /\ AssumeEmptyRuntime(p) \/ ~IsUnchanged(desired)
    /\ LET base == IF AssumeEmptyRuntime(p) THEN EmptyStore ELSE store
       IN  /\ job' = [job EXCEPT ![p] = ApplyJob(desired, base)]
           /\ exact' = RuntimeIs(base)
    /\ UNCHANGED <<desired, store, users, rules, syncMu, cmd, attempt, epoch, spent>>

\* The request fails or times out.
GetStateFails(p) ==
    /\ job[p].phase = "fetch"
    /\ HttpFaults /\ spent.faults < MaxFaults
    /\ Spend("faults")
    /\ Return(p, FALSE)
    /\ UNCHANGED <<desired, store, users, rules, epoch, exact>>

\* A step of the apply phase fails: syncState returns the error and leaves the
\* store, and whatever was already applied, as they are.
Abort(p) == /\ Return(p, FALSE)
            /\ exact' = FALSE

\* Mutant: the state is recorded once the users are done.
CommitBeforeRoutes(p) ==
    /\ job[p].phase = "apply" /\ job[p].rmUsers = {} /\ job[p].addUsers = {}
    /\ store' = job[p].ds
    /\ Return(p, TRUE)
    /\ UNCHANGED <<desired, users, rules, epoch, exact, spent>>

\* Everything was applied: Store.Update, then Unlock.
Commit(p) ==
    /\ job[p].phase = "apply"
    /\ job[p].rmUsers = {} /\ job[p].addUsers = {}
    /\ job[p].rmRoutes = {} /\ job[p].addRoutes = {}
    /\ store' = job[p].ds
    /\ Return(p, TRUE)
    /\ UNCHANGED <<desired, users, rules, epoch, exact, spent>>
-----------------------------------------------------------------------------
(* Manager.State: all removals of users, all additions, then the routes.    *)

SetUser(pr, e, account) == users' = [users EXCEPT ![pr] = [@ EXCEPT ![e] = account]]
SetRule(t, rule)        == rules' = [rules EXCEPT ![t] = rule]

\* An RPC of p's sync succeeds, is refused, or fails on the way: an error that
\* leaves open whether Xray carried the request out.
Proceed(p, j) == /\ job' = [job EXCEPT ![p] = j]
                 /\ UNCHANGED <<syncMu, cmd, attempt, exact>>
Refused(p)    == Abort(p) /\ UNCHANGED spent
RpcMayFail    == RpcFaults /\ spent.faults < MaxFaults
Lost(p)       == RpcMayFail /\ Abort(p) /\ Spend("faults")

AddingUsers(p)    == job[p].phase = "apply" /\ job[p].rmUsers = {}
RemovingRoutes(p) == AddingUsers(p) /\ job[p].addUsers = {}
AddingRoutes(p)   == RemovingRoutes(p) /\ job[p].rmRoutes = {}

\* removeUser in the first loop of applyViaHandler.  Whether Xray refuses to
\* remove a user it does not have is left open.
RemoveUser(p, e) ==
    LET pr   == job[p].base.clients[e].proto
        rest == [job[p] EXCEPT !.rmUsers = @ \ {e}]
    IN  /\ job[p].phase = "apply" /\ e \in job[p].rmUsers
        /\ \/ pr \in Supported /\ SetUser(pr, e, None) /\ Proceed(p, rest) /\ UNCHANGED spent
           \/ (pr \notin Supported \/ users[pr][e] = None) /\ Refused(p) /\ UNCHANGED users
           \/ pr \in Supported /\ (SetUser(pr, e, None) \/ UNCHANGED users) /\ Lost(p)
        /\ UNCHANGED <<desired, store, rules, epoch>>

\* addUser, first half: the stale user is removed and the result is ignored;
\* an unsupported protocol ends the sync before anything is called.
PreRemoveUser(p, e) ==
    LET pr   == job[p].ds.clients[e].proto
        next == [job[p] EXCEPT !.pre = e]
    IN  /\ AddingUsers(p) /\ job[p].pre = None /\ e \in job[p].addUsers
        /\ IF pr \in Supported
           THEN /\ Proceed(p, next)
                /\ \/ SetUser(pr, e, None) /\ UNCHANGED spent
                   \/ UNCHANGED users /\ RpcMayFail /\ Spend("faults")
           ELSE Refused(p) /\ UNCHANGED users
        /\ UNCHANGED <<desired, store, rules, epoch>>

\* Mutant: the error of the second call is ignored like that of the first.
AddUserIgnoresError(p, e) ==
    LET c    == job[p].ds.clients[e]
        rest == [job[p] EXCEPT !.pre = None, !.addUsers = @ \ {e}]
    IN  /\ AddingUsers(p) /\ job[p].pre = e /\ e \in job[p].addUsers
        /\ Proceed(p, rest)
        /\ IF users[c.proto][e] # None THEN UNCHANGED users ELSE SetUser(c.proto, e, c.secret)
        /\ UNCHANGED <<desired, store, rules, epoch, spent>>

\* addUser, second half.  Xray refuses a user it already has.
AddUser(p, e) ==
    LET c    == job[p].ds.clients[e]
        rest == [job[p] EXCEPT !.pre = None, !.addUsers = @ \ {e}]
    IN  /\ AddingUsers(p) /\ job[p].pre = e /\ e \in job[p].addUsers
        /\ IF users[c.proto][e] # None
           THEN Refused(p) /\ UNCHANGED users
           ELSE \/ SetUser(c.proto, e, c.secret) /\ Proceed(p, rest) /\ UNCHANGED spent
                \/ (SetUser(c.proto, e, c.secret) \/ UNCHANGED users) /\ Lost(p)
        /\ UNCHANGED <<desired, store, rules, epoch>>

\* removeRoute in the first loop of applyRoutes: "not found" is an error here.
RemoveRoute(p, t) ==
    LET rest == [job[p] EXCEPT !.rmRoutes = @ \ {t}]
    IN  /\ RemovingRoutes(p) /\ t \in job[p].rmRoutes
        /\ \/ SetRule(t, None) /\ Proceed(p, rest) /\ UNCHANGED spent
           \/ rules[t] = None /\ Refused(p) /\ UNCHANGED rules
           \/ (SetRule(t, None) \/ UNCHANGED rules) /\ Lost(p)
        /\ UNCHANGED <<desired, store, users, epoch>>

\* addRoute, first half: only "not found" is tolerated (isRouteNotFoundError).
PreRemoveRoute(p, t) ==
    LET next == [job[p] EXCEPT !.pre = t]
    IN  /\ AddingRoutes(p) /\ job[p].pre = None /\ t \in job[p].addRoutes
        /\ \/ SetRule(t, None) /\ Proceed(p, next) /\ UNCHANGED spent
           \/ (SetRule(t, None) \/ UNCHANGED rules) /\ Lost(p)
        /\ UNCHANGED <<desired, store, users, epoch>>

\* Mutant: a rule that cannot be built is skipped.
AddRouteSkipsUnbuildable(p, t) ==
    LET r    == job[p].ds.routes[t]
        rest == [job[p] EXCEPT !.pre = None, !.addRoutes = @ \ {t}]
    IN  /\ AddingRoutes(p) /\ job[p].pre = t /\ t \in job[p].addRoutes
        /\ Proceed(p, rest)
        /\ IF r \in Buildable THEN SetRule(t, r) ELSE UNCHANGED rules
        /\ UNCHANGED <<desired, store, users, epoch, spent>>

\* addRoute, second half.  A rule that cannot be built ends the sync after the
\* old one was removed; Xray refuses a tag it already has.
AddRoute(p, t) ==
    LET r    == job[p].ds.routes[t]
        rest == [job[p] EXCEPT !.pre = None, !.addRoutes = @ \ {t}]
    IN  /\ AddingRoutes(p) /\ job[p].pre = t /\ t \in job[p].addRoutes
        /\ IF r \notin Buildable \/ rules[t] # None
           THEN Refused(p) /\ UNCHANGED rules
           ELSE \/ SetRule(t, r) /\ Proceed(p, rest) /\ UNCHANGED spent
                \/ (SetRule(t, r) \/ UNCHANGED rules) /\ Lost(p)
        /\ UNCHANGED <<desired, store, users, epoch>>
-----------------------------------------------------------------------------
(* Commands that restart Xray: RESTART_CORE, and UPDATE_CORE once the new   *)
(* binary is installed.                                                     *)

\* executeNextCommand receives the command.
FetchCommand ==
    /\ cmd = "none"
    /\ spent.commands < MaxCommands
    /\ cmd' = "restart"
    /\ Spend("commands")
    /\ UNCHANGED <<desired, store, users, rules, syncMu, job, attempt, epoch, exact>>

\* The Xray process is replaced: everything set over its API is gone.
RuntimeReset == users' = NoUsers /\ rules' = NoRoutes /\ epoch' = epoch + 1

\* systemctl restart xray succeeds; the loop of forced syncs starts.
RestartCore ==
    /\ cmd = "restart"
    /\ RuntimeReset
    /\ exact' = FALSE
    /\ cmd' = "sync" /\ attempt' = 1
    /\ UNCHANGED <<desired, store, syncMu, job, spent>>

\* systemctl fails or times out, with or without Xray restarted.
RestartCoreFails ==
    /\ cmd = "restart"
    /\ RpcMayFail
    /\ \/ RuntimeReset /\ exact' = FALSE
       \/ UNCHANGED <<users, rules, epoch, exact>>
    /\ cmd' = "ackFailed"
    /\ Spend("faults")
    /\ UNCHANGED <<desired, store, syncMu, job, attempt>>

\* The acknowledgement is posted; executeNextCommand returns either way.
Ack ==
    /\ cmd \in {"ackSucceeded", "ackFailed"}
    /\ cmd' = "none"
    /\ UNCHANGED <<desired, store, users, rules, syncMu, job, attempt, epoch, exact, spent>>
-----------------------------------------------------------------------------
(* Restarts nobody asked the agent for.                                     *)

\* xray.service: Restart=on-failure.
XrayCrash ==
    /\ spent.crashes < MaxCrashes
    /\ Spend("crashes")
    /\ RuntimeReset
    /\ exact' = FALSE
    /\ UNCHANGED <<desired, store, syncMu, job, cmd, attempt>>

\* The agent dies at any point and is started again with an empty store.  Its
\* unit restarts Xray first; a manual start does not.
AgentRestart ==
    /\ spent.agentRestarts < MaxAgentRestarts
    /\ Spend("agentRestarts")
    /\ store' = EmptyStore
    /\ syncMu' = None
    /\ job' = [p \in Procs |-> IdleJob]
    /\ cmd' = "none" /\ attempt' = 1
    /\ \/ RuntimeReset /\ exact' = TRUE
       \/ ManualStarts /\ UNCHANGED <<users, rules, epoch>> /\ exact' = FALSE
    /\ UNCHANGED desired
-----------------------------------------------------------------------------
Fetch(p) == GetStateUnchanged(p) \/ GetStateChanged(p) \/ GetStateFails(p)

Apply(p) ==
    \/ \E e \in Emails : RemoveUser(p, e) \/ PreRemoveUser(p, e) \/ AddUser(p, e)
    \/ \E t \in Tags : RemoveRoute(p, t) \/ PreRemoveRoute(p, t) \/ AddRoute(p, t)
    \/ Commit(p)

Command == FetchCommand \/ RestartCore \/ RestartCoreFails \/ Ack

Next == \/ PanelEdit
        \/ \E p \in Procs : Lock(p) \/ Fetch(p) \/ Apply(p)
        \/ Command
        \/ XrayCrash
        \/ AgentRestart

Spec == Init /\ [][Next]_vars

\* Both loops keep running.  A goroutine waiting for syncMu gets it although the
\* other one locks it over and over: Go's sync.Mutex hands the lock to a waiter
\* that has starved for a millisecond.
Fairness == /\ \A p \in Procs : SF_vars(Lock(p)) /\ WF_vars(Fetch(p)) /\ WF_vars(Apply(p))
            /\ WF_vars(RestartCore \/ RestartCoreFails \/ Ack)

FairSpec == Spec /\ Fairness
-----------------------------------------------------------------------------
(* Safety.                                                                  *)

\* Every variable stays in its type; accounts sit only in known inbounds.
TypeOK ==
    /\ desired \in State /\ store \in State
    /\ users \in [Protos -> [Emails -> Secrets \cup {None}]]
    /\ rules \in [Tags -> RouteRules \cup {None}]
    /\ syncMu \in Procs \cup {None}
    /\ job \in [Procs -> Job]
    /\ cmd \in {"none", "restart", "sync", "ackSucceeded", "ackFailed"}
    /\ attempt \in 1..SyncRetries
    /\ epoch \in Nat /\ exact \in BOOLEAN
    /\ spent \in [{"faults", "crashes", "agentRestarts", "commands"} -> Nat]

\* The reconciliation is exact: when the runtime was what the diff assumed and
\* nothing disturbed it, then after the sync (removals, additions with their
\* pre-removals, routes, Store.Update) Xray holds the stored clients and routes,
\* every account in the right inbound, and nothing else.
CleanSyncExact == exact /\ syncMu = None => RuntimeIs(store)

\* Every client of s has a supported protocol, every route can be built.
Applicable(s) ==
    /\ \A e \in Emails : s.clients[e] # None => s.clients[e].proto \in Supported
    /\ \A t \in Tags : s.routes[t] # None => s.routes[t] \in Buildable

\* The store only ever holds what could be applied: an unsupported protocol or
\* an unbuildable route fails State before Store.Update (agent.go:130-137), so
\* no later sync has to remove an entry that removeUser cannot address.
StoreApplicable == Applicable(store)

\* Fetching under syncMu: two goroutines sync, yet the store never goes back to
\* a state the panel published earlier (only a restart of the agent empties it).
StoreMonotonic ==
    [][store'.rev >= store.rev \/ spent'.agentRestarts > spent.agentRestarts]_vars

\* "applies only the deltas": while Xray keeps running, the account of a client
\* is touched only by a sync whose base and fetched state differ in that client.
OnlyDeltas ==
    [][epoch' = epoch =>
         \A pr \in Protos, e \in Emails :
            users'[pr][e] # users[pr][e] =>
               \E p \in Procs : /\ job[p].phase = "apply"
                                /\ job[p].base.clients[e] # job[p].ds.clients[e]]_vars

\* What p's Store.Update is about to record of client e is in Xray: the account
\* it asks for is there, the one it replaces is gone.
ClientLanded(p, e) ==
    LET old == job[p].base.clients[e]
        new == job[p].ds.clients[e]
    IN  /\ new # None => users[new.proto][e] = new.secret
        /\ old # None => users[old.proto][e] = Account(job[p].ds.clients, old.proto, e)

\* No lost update: when a sync commits and Xray has not restarted since its
\* diff, every client and route it meant to change has changed in Xray, whatever
\* faults, crashes and failed syncs there were before.
CommitLanded ==
    [][\A p \in Procs : Commit(p) /\ job[p].epoch = epoch =>
          /\ \A e \in Emails :
                job[p].base.clients[e] # job[p].ds.clients[e] => ClientLanded(p, e)
          /\ \A t \in Tags :
                job[p].base.routes[t] # job[p].ds.routes[t] => rules[t] = job[p].ds.routes[t]
      ]_vars

\* RESTART_CORE and UPDATE_CORE answer SUCCEEDED only after the forced sync put
\* every client and every route of the state it fetched back into Xray (unless
\* Xray went down again meanwhile).
RestartRestores ==
    [][cmd = "sync" /\ cmd' = "ackSucceeded" /\ job["command"].epoch = epoch =>
          /\ \A e \in Emails : LET c == store'.clients[e]
                               IN  c # None => users[c.proto][e] = c.secret
          /\ \A t \in Tags : store'.routes[t] # None => rules[t] = store'.routes[t]]_vars
-----------------------------------------------------------------------------
(* The inductive invariant behind the safety properties.                    *)

\* Only the holder of syncMu is inside syncState.
Locked == \A p \in Procs : job[p].phase # "idle" => syncMu = p

\* The lists of a running sync stay within the differences of its two states,
\* and nothing is added before everything is removed.
Planned ==
    \A p \in Procs : job[p].phase = "apply" =>
        /\ job[p].rmUsers   \subseteq Removes(job[p].base.clients, job[p].ds.clients)
        /\ job[p].addUsers  \subseteq Adds(job[p].base.clients, job[p].ds.clients)
        /\ job[p].rmRoutes  \subseteq Removes(job[p].base.routes, job[p].ds.routes)
        /\ job[p].addRoutes \subseteq Adds(job[p].base.routes, job[p].ds.routes)
        /\ job[p].rmUsers # {} => job[p].addUsers = Adds(job[p].base.clients, job[p].ds.clients)
        /\ job[p].rmRoutes # {} => job[p].addRoutes = Adds(job[p].base.routes, job[p].ds.routes)

\* Half-way through an undisturbed sync an entry still to be removed is the old
\* one, an entry still to be added is absent, any other is the new one.
Midway(old, new, toRemove, toAdd) ==
    IF toRemove THEN old ELSE IF toAdd THEN None ELSE new

HalfApplied(us, rs, j) ==
    /\ \A pr \in Protos, e \in Emails :
          us[pr][e] = Midway(Account(j.base.clients, pr, e), Account(j.ds.clients, pr, e),
                             e \in j.rmUsers, e \in j.addUsers)
    /\ \A t \in Tags :
          rs[t] = Midway(j.base.routes[t], j.ds.routes[t], t \in j.rmRoutes, t \in j.addRoutes)

Tracked ==
    exact => /\ \A p \in Procs : job[p].phase = "apply" => HalfApplied(users, rules, job[p])
             /\ (\A p \in Procs : job[p].phase # "apply") => RuntimeIs(store)

\* A state is fetched under the lock, so it is no older than the stored one.
Ordered ==
    /\ store.rev <= desired.rev
    /\ \A p \in Procs : job[p].phase = "apply" =>
          store.rev <= job[p].ds.rev /\ job[p].ds.rev <= desired.rev

\* Of an entry the sync j changes: once it is removed the old account is gone, or
\* is the new one if that is added already; once it is added the new one is there.
ClientUnderway(j, us, e) ==
    LET old == j.base.clients[e]
        new == j.ds.clients[e]
    IN  old # new /\ e \notin j.rmUsers =>
          /\ old # None => us[old.proto][e] = IF e \in j.addUsers THEN None
                                             ELSE Account(j.ds.clients, old.proto, e)
          /\ new # None /\ e \notin j.addUsers => us[new.proto][e] = new.secret

RouteUnderway(j, rs, t) ==
    j.base.routes[t] # j.ds.routes[t] /\ t \notin j.rmRoutes =>
        IF t \in j.addRoutes THEN j.base.routes[t] # None => rs[t] = None
                             ELSE rs[t] = j.ds.routes[t]

\* What a sync starts from, and what it has no longer to add, can be applied; a
\* user is added only after its protocol was found to be a supported one.
Checked ==
    \A p \in Procs : job[p].phase = "apply" =>
        /\ Applicable(job[p].base)
        /\ \A e \in Emails : LET c == job[p].ds.clients[e]
                             IN  c # None /\ (e \notin job[p].addUsers \/ e = job[p].pre) =>
                                    c.proto \in Supported
        /\ \A t \in Tags : LET r == job[p].ds.routes[t]
                           IN  r # None /\ t \notin job[p].addRoutes => r \in Buildable

\* As long as Xray does not restart, and whatever it held before the sync, the
\* entries the sync is done with are as they should be.
Landed ==
    \A p \in Procs : job[p].phase = "apply" =>
        /\ job[p].epoch <= epoch
        /\ job[p].epoch = epoch =>
              /\ \A e \in Emails : ClientUnderway(job[p], users, e)
              /\ \A t \in Tags : RouteUnderway(job[p], rules, t)

\* The forced sync of the command loop starts from the empty store.
FromEmpty == job["command"].phase = "apply" => job["command"].base = EmptyStore

\* What makes the safety properties inductive: the lock is held by the goroutine
\* that syncs, its lists stay within the diff, an undisturbed runtime is tracked
\* through the half-applied states, the revisions are ordered, and of any other
\* runtime at least the entries done with are known.
IInv == /\ TypeOK /\ Locked /\ Planned /\ Tracked /\ Ordered
        /\ StoreApplicable /\ Checked /\ Landed /\ FromEmpty
-----------------------------------------------------------------------------
(* Liveness.                                                                *)

\* Single source of truth (README.md:7): once the panel publishes a state that
\* can be applied and leaves it there, Xray comes to hold exactly that state.
Converges == <>[]Applicable(desired) => <>[]RuntimeIs(desired)

\* The same where Xray may be restarted by a command: convergence is only lost
\* when a sync met a runtime that was not what it took it for.
ConvergesUndisturbed == <>[]exact => Converges

\* A command that restarts Xray is always answered or given up: the forced syncs
\* are bounded and cannot be kept from syncMu by the state loop for ever.
CommandAnswered == cmd = "restart" ~> cmd = "none"

\* Users Xray accepts and the panel does not want.
NoStaleUser ==
    \A pr \in Protos, e \in Emails :
        users[pr][e] # None => users[pr][e] = Account(desired.clients, pr, e)

\* A user dropped by the panel is eventually gone from Xray (manager.go:98).
StaleUsersGo == <>[]NoStaleUser

\* Routes the endpoint keeps sending are in Xray again after Xray restarted.
RoutesRestored == <>[](rules = desired.routes)
-----------------------------------------------------------------------------
(* Refinement.  A slot of the abstract runtime is an account of an inbound   *)
(* or a routing rule; the sync under way is the one of the lock's holder.    *)

UserSlots == {<<"user", pr, e>> : pr \in Protos, e \in Emails}
RuleSlots == {<<"rule", t>> : t \in Tags}
Slots     == UserSlots \cup RuleSlots

Slotted(us, rs) ==
    [s \in Slots |-> IF s[1] = "user" THEN us[s[2]][s[3]] ELSE rs[s[2]]]
SlotsOf(st) == Slotted(AppliedUsers(st.clients), st.routes)

Syncing == syncMu # None /\ job[syncMu].phase = "apply"

Promise == INSTANCE SyncPromise WITH
    Values  <- Secrets \cup RouteRules,
    wanted  <- [rev |-> desired.rev, slots |-> SlotsOf(desired)],
    kept    <- [rev |-> store.rev, slots |-> SlotsOf(store)],
    runtime <- Slotted(users, rules),
    goal    <- IF Syncing THEN [rev |-> job[syncMu].ds.rev, slots |-> SlotsOf(job[syncMu].ds)]
                          ELSE None,
    base    <- IF Syncing THEN SlotsOf(job[syncMu].base) ELSE None,
    clean   <- exact

\* None is no state of the panel either.
ASSUME GoalAssumption == None \notin Promise!States

\* The series of single calls under the lock, with all its faults, crashes and
\* restarts, is a serial reconciler: whole states only, in the order of the
\* panel, touching only differences, exact when nothing interferes.
KeepsPromise == Promise!Spec
=============================================================================
