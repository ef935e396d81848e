--------------------------- MODULE StateSync_proofs ---------------------------
(* Proofs about StateSync, for every value of its constants.                *)
EXTENDS StateSync, TLAPS

USE SetsAssumption, NoneAssumption, VersionsAssumption, BoundsAssumption, SwitchAssumption

LEMMA EmptyStoreType == EmptyStore \in State
  BY DEF EmptyStore, State, NoClients, NoRoutes

LEMMA IdleJobType == IdleJob \in Job /\ FetchJob \in Job
  BY EmptyStoreType DEF IdleJob, FetchJob, Job

LEMMA ApplyJobType ==
  ASSUME NEW ds \in State, NEW base \in State, epoch \in Nat
  PROVE  ApplyJob(ds, base) \in Job
  BY DEF ApplyJob, Job, Removes, Adds, State

LEMMA InitType == Init => TypeOK
<1> SUFFICES ASSUME Init PROVE TypeOK
  OBVIOUS
<1>1. desired \in State
  <2>1. (CHOOSE v \in Versions : TRUE) \in Versions
    OBVIOUS
  <2> QED BY <2>1, EmptyStoreType DEF Init, State
<1>2. users \in [Protos -> [Emails -> Secrets \cup {None}]]
  BY DEF Init, NoUsers, NoClients
<1>3. spent \in [{"faults", "crashes", "agentRestarts", "commands"} -> Nat]
  BY DEF Init, NothingSpent
<1> QED
  BY <1>1, <1>2, <1>3, EmptyStoreType, IdleJobType DEF Init, TypeOK, NoRoutes

LEMMA ReturnType ==
  ASSUME TypeOK, NEW p \in Procs, NEW ok \in BOOLEAN, Return(p, ok),
         job[p].phase # "idle"
  PROVE  /\ syncMu' \in Procs \cup {None}
         /\ job' \in [Procs -> Job]
         /\ cmd' \in {"none", "restart", "sync", "ackSucceeded", "ackFailed"}
         /\ attempt' \in 1..SyncRetries
  BY IdleJobType DEF Return, TypeOK

LEMMA SpendType ==
  ASSUME TypeOK, NEW what \in {"faults", "crashes", "agentRestarts", "commands"}, Spend(what)
  PROVE  spent' \in [{"faults", "crashes", "agentRestarts", "commands"} -> Nat]
  BY DEF Spend, TypeOK

LEMMA SetUserType ==
  ASSUME TypeOK, NEW pr, NEW e, NEW a \in Secrets \cup {None}, SetUser(pr, e, a)
  PROVE  users' \in [Protos -> [Emails -> Secrets \cup {None}]]
  BY DEF SetUser, TypeOK

LEMMA SetRuleType ==
  ASSUME TypeOK, NEW t, NEW r \in RouteRules \cup {None}, SetRule(t, r)
  PROVE  rules' \in [Tags -> RouteRules \cup {None}]
  BY DEF SetRule, TypeOK

LEMMA ResetType ==
  ASSUME TypeOK, RuntimeReset
  PROVE  /\ users' \in [Protos -> [Emails -> Secrets \cup {None}]]
         /\ rules' \in [Tags -> RouteRules \cup {None}]
         /\ epoch' \in Nat
  BY DEF RuntimeReset, NoUsers, NoClients, NoRoutes, TypeOK

\* What the six steps of the apply phase have in common.
LEMMA StepType ==
  ASSUME TypeOK, NEW p \in Procs, job[p].phase # "idle",
         UNCHANGED <<desired, store, epoch>>,
         users' \in [Protos -> [Emails -> Secrets \cup {None}]],
         rules' \in [Tags -> RouteRules \cup {None}],
         \/ Refused(p)
         \/ Lost(p)
         \/ \E j \in Job : Proceed(p, j) /\ (UNCHANGED spent \/ Spend("faults"))
  PROVE  TypeOK'
<1>1. CASE Refused(p)
  BY <1>1, ReturnType DEF Refused, Abort, TypeOK
<1>2. CASE Lost(p)
  BY <1>2, ReturnType, SpendType DEF Lost, Abort, TypeOK
<1>3. CASE \E j \in Job : Proceed(p, j) /\ (UNCHANGED spent \/ Spend("faults"))
  BY <1>3, SpendType DEF Proceed, TypeOK
<1> QED BY <1>1, <1>2, <1>3

LEMMA NextType == TypeOK /\ Planned /\ [Next]_vars => TypeOK'
<1> SUFFICES ASSUME TypeOK, Planned, [Next]_vars PROVE TypeOK'
  OBVIOUS
<1>0. job \in [Procs -> Job] /\ \A p \in Procs : job[p] \in Job
  BY DEF TypeOK
<1>1. CASE PanelEdit
  <2>1. desired' \in State
    BY <1>1 DEF PanelEdit, Publish, TypeOK, State
  <2> QED BY <1>1, <2>1 DEF PanelEdit, TypeOK
<1>2. ASSUME NEW p \in Procs, Lock(p) PROVE TypeOK'
  BY <1>2, IdleJobType DEF Lock, TypeOK
<1>3. ASSUME NEW p \in Procs, Fetch(p) PROVE TypeOK'
  <2>1. CASE GetStateUnchanged(p)
    BY <2>1, ReturnType DEF GetStateUnchanged, TypeOK
  <2>2. CASE GetStateChanged(p)
    <3> DEFINE base == IF AssumeEmptyRuntime(p) THEN EmptyStore ELSE store
    <3>1. base \in State /\ ApplyJob(desired, base) \in Job
      BY ApplyJobType, EmptyStoreType DEF TypeOK
    <3>2. job' \in [Procs -> Job]
      BY <2>2, <3>1 DEF GetStateChanged, TypeOK
    <3>3. exact' \in BOOLEAN
      BY <2>2, Zenon DEF GetStateChanged, RuntimeIs
    <3> QED BY <2>2, <3>2, <3>3 DEF GetStateChanged, TypeOK
  <2>3. CASE GetStateFails(p)
    BY <2>3, ReturnType, SpendType DEF GetStateFails, TypeOK
  <2> QED BY <1>3, <2>1, <2>2, <2>3 DEF Fetch
<1>4. ASSUME NEW p \in Procs, NEW e \in Emails, RemoveUser(p, e) PROVE TypeOK'
  <2>1. [job[p] EXCEPT !.rmUsers = @ \ {e}] \in Job
    BY <1>0 DEF Job
  <2>2. users' \in [Protos -> [Emails -> Secrets \cup {None}]]
    BY <1>4, SetUserType DEF RemoveUser, TypeOK
  <2> QED BY <1>4, <2>1, <2>2, StepType DEF RemoveUser, TypeOK
<1>5. ASSUME NEW p \in Procs, NEW e \in Emails, PreRemoveUser(p, e) PROVE TypeOK'
  <2>1. [job[p] EXCEPT !.pre = e] \in Job
    BY <1>0 DEF Job
  <2>2. users' \in [Protos -> [Emails -> Secrets \cup {None}]]
    BY <1>5, SetUserType DEF PreRemoveUser, TypeOK
  <2> QED BY <1>5, <2>1, <2>2, StepType DEF PreRemoveUser, AddingUsers, TypeOK
<1>6. ASSUME NEW p \in Procs, NEW e \in Emails, AddUser(p, e) PROVE TypeOK'
  <2>0. job[p].ds.clients[e] \in Client
    BY <1>0, <1>6 DEF AddUser, AddingUsers, Planned, Adds, Job, State
  <2>1. [job[p] EXCEPT !.pre = None, !.addUsers = @ \ {e}] \in Job
    BY <1>0 DEF Job
  <2>2. users' \in [Protos -> [Emails -> Secrets \cup {None}]]
    BY <1>6, <2>0, SetUserType DEF AddUser, Client, TypeOK
  <2> QED BY <1>6, <2>1, <2>2, StepType DEF AddUser, AddingUsers, TypeOK
<1>7. ASSUME NEW p \in Procs, NEW t \in Tags, RemoveRoute(p, t) PROVE TypeOK'
  <2>1. [job[p] EXCEPT !.rmRoutes = @ \ {t}] \in Job
    BY <1>0 DEF Job
  <2>2. rules' \in [Tags -> RouteRules \cup {None}]
    BY <1>7, SetRuleType DEF RemoveRoute, TypeOK
  <2> QED BY <1>7, <2>1, <2>2, StepType DEF RemoveRoute, RemovingRoutes, AddingUsers, TypeOK
<1>8. ASSUME NEW p \in Procs, NEW t \in Tags, PreRemoveRoute(p, t) PROVE TypeOK'
  <2>1. [job[p] EXCEPT !.pre = t] \in Job
    BY <1>0 DEF Job
  <2>2. rules' \in [Tags -> RouteRules \cup {None}]
    BY <1>8, SetRuleType DEF PreRemoveRoute, TypeOK
  <2> QED BY <1>8, <2>1, <2>2, StepType
          DEF PreRemoveRoute, AddingRoutes, RemovingRoutes, AddingUsers, TypeOK
<1>9. ASSUME NEW p \in Procs, NEW t \in Tags, AddRoute(p, t) PROVE TypeOK'
  <2>1. [job[p] EXCEPT !.pre = None, !.addRoutes = @ \ {t}] \in Job
    BY <1>0 DEF Job
  <2>2. rules' \in [Tags -> RouteRules \cup {None}]
    BY <1>0, <1>9, SetRuleType DEF AddRoute, Job, State, TypeOK
  <2> QED BY <1>9, <2>1, <2>2, StepType
          DEF AddRoute, AddingRoutes, RemovingRoutes, AddingUsers, TypeOK
<1>10. ASSUME NEW p \in Procs, Commit(p) PROVE TypeOK'
  BY <1>10, ReturnType DEF Commit, Job, TypeOK
<1>11. CASE Command
  <2>1. CASE FetchCommand \/ Ack
    BY <2>1, SpendType DEF FetchCommand, Ack, TypeOK
  <2>2. CASE RestartCore
    <3>1. attempt' \in 1..SyncRetries
      BY <2>2 DEF RestartCore
    <3>2. /\ users' \in [Protos -> [Emails -> Secrets \cup {None}]]
          /\ rules' \in [Tags -> RouteRules \cup {None}]
          /\ epoch' \in Nat
      BY <2>2, ResetType DEF RestartCore
    <3> QED BY <2>2, <3>1, <3>2 DEF RestartCore, TypeOK
  <2>3. CASE RestartCoreFails
    <3>1. /\ users' \in [Protos -> [Emails -> Secrets \cup {None}]]
          /\ rules' \in [Tags -> RouteRules \cup {None}]
          /\ epoch' \in Nat /\ exact' \in BOOLEAN
      BY <2>3, ResetType DEF RestartCoreFails, TypeOK
    <3> QED BY <2>3, <3>1, SpendType DEF RestartCoreFails, TypeOK
  <2> QED BY <1>11, <2>1, <2>2, <2>3 DEF Command
<1>12. CASE XrayCrash
  BY <1>12, ResetType, SpendType DEF XrayCrash, TypeOK
<1>13. CASE AgentRestart
  <2>1. job' \in [Procs -> Job] /\ store' \in State
    BY <1>13, EmptyStoreType, IdleJobType DEF AgentRestart
  <2>2. /\ users' \in [Protos -> [Emails -> Secrets \cup {None}]]
        /\ rules' \in [Tags -> RouteRules \cup {None}]
        /\ epoch' \in Nat /\ exact' \in BOOLEAN
    BY <1>13, ResetType DEF AgentRestart, TypeOK
  <2> QED BY <1>13, <2>1, <2>2, SpendType DEF AgentRestart, TypeOK
<1>14. CASE UNCHANGED vars
  BY <1>14 DEF vars, TypeOK
<1> QED
  BY <1>1, <1>2, <1>3, <1>4, <1>5, <1>6, <1>7, <1>8, <1>9, <1>10, <1>11, <1>12, <1>13, <1>14
     DEF Next, Apply

-----------------------------------------------------------------------------
(* The plan of a running sync.                                              *)

Shorter(j, k) == /\ j.phase = k.phase /\ j.ds = k.ds /\ j.base = k.base /\ j.epoch = k.epoch
                 /\ j.rmUsers \subseteq k.rmUsers /\ j.addUsers \subseteq k.addUsers
                 /\ j.rmRoutes \subseteq k.rmRoutes /\ j.addRoutes \subseteq k.addRoutes
                 /\ k.rmUsers # {} => j.addUsers = k.addUsers
                 /\ k.rmRoutes # {} => j.addRoutes = k.addRoutes

\* A step of the apply phase shortens the lists of p's own job, or ends it.
ApplyEffect(p) ==
    /\ job[p].phase = "apply"
    /\ \E j : /\ job' = [job EXCEPT ![p] = j]
              /\ \/ j = IdleJob /\ syncMu' = None
                 \/ Shorter(j, job[p]) /\ syncMu' = syncMu
    /\ store' \in {store, job[p].ds}
    /\ desired' = desired /\ epoch' = epoch /\ spent'.agentRestarts = spent.agentRestarts

LEMMA ApplyShortens ==
  ASSUME TypeOK, NEW p \in Procs, Apply(p)
  PROVE  ApplyEffect(p)
<1>0. job[p] \in Job
  BY DEF TypeOK
<1>a. \/ UNCHANGED spent \/ Spend("faults")
  BY DEF Apply, RemoveUser, PreRemoveUser, AddUser, RemoveRoute, PreRemoveRoute, AddRoute, Commit,
         Refused, Lost
<1>b. spent'.agentRestarts = spent.agentRestarts
  BY <1>a DEF Spend, TypeOK
<1> USE <1>0, <1>b DEF Refused, Lost, Abort, Return, Proceed, ApplyEffect,
                 AddingUsers, RemovingRoutes, AddingRoutes
<1>1. ASSUME NEW e \in Emails, RemoveUser(p, e) PROVE ApplyEffect(p)
  <2>1. Shorter([job[p] EXCEPT !.rmUsers = @ \ {e}], job[p])
    BY DEF Job, Shorter
  <2> QED BY <1>1, <2>1 DEF RemoveUser
<1>2. ASSUME NEW e \in Emails, PreRemoveUser(p, e) PROVE ApplyEffect(p)
  <2>1. Shorter([job[p] EXCEPT !.pre = e], job[p])
    BY DEF Job, Shorter
  <2> QED BY <1>2, <2>1 DEF PreRemoveUser
<1>3. ASSUME NEW e \in Emails, AddUser(p, e) PROVE ApplyEffect(p)
  <2>1. Shorter([job[p] EXCEPT !.pre = None, !.addUsers = @ \ {e}], job[p])
    BY <1>3 DEF Job, Shorter, AddUser
  <2> QED BY <1>3, <2>1 DEF AddUser
<1>4. ASSUME NEW t \in Tags, RemoveRoute(p, t) PROVE ApplyEffect(p)
  <2>1. Shorter([job[p] EXCEPT !.rmRoutes = @ \ {t}], job[p])
    BY DEF Job, Shorter
  <2> QED BY <1>4, <2>1 DEF RemoveRoute
<1>5. ASSUME NEW t \in Tags, PreRemoveRoute(p, t) PROVE ApplyEffect(p)
  <2>1. Shorter([job[p] EXCEPT !.pre = t], job[p])
    BY DEF Job, Shorter
  <2> QED BY <1>5, <2>1 DEF PreRemoveRoute
<1>6. ASSUME NEW t \in Tags, AddRoute(p, t) PROVE ApplyEffect(p)
  <2>1. Shorter([job[p] EXCEPT !.pre = None, !.addRoutes = @ \ {t}], job[p])
    BY <1>6 DEF Job, Shorter, AddRoute
  <2> QED BY <1>6, <2>1 DEF AddRoute
<1>7. ASSUME Commit(p) PROVE ApplyEffect(p)
  BY <1>7 DEF Commit
<1> QED BY <1>1, <1>2, <1>3, <1>4, <1>5, <1>6, <1>7, Zenon DEF Apply

LEMMA NextLocked == TypeOK /\ Locked /\ [Next]_vars => Locked'
<1> SUFFICES ASSUME TypeOK, Locked, [Next]_vars PROVE Locked'
  OBVIOUS
<1>0. job \in [Procs -> Job]
  BY DEF TypeOK
<1>1. ASSUME NEW p \in Procs, Lock(p) PROVE Locked'
  BY <1>0, <1>1 DEF Lock, Locked
<1>2. ASSUME NEW p \in Procs, Fetch(p) PROVE Locked'
  BY <1>0, <1>2 DEF Fetch, GetStateUnchanged, GetStateChanged, GetStateFails, Return, Locked, IdleJob
<1>3. ASSUME NEW p \in Procs, Apply(p) PROVE Locked'
  BY <1>0, <1>3, ApplyShortens DEF ApplyEffect, Shorter, Locked, IdleJob
<1>4. CASE PanelEdit \/ Command \/ XrayCrash \/ UNCHANGED vars
  BY <1>4 DEF PanelEdit, Command, FetchCommand, RestartCore, RestartCoreFails, Ack, XrayCrash,
              vars, Locked
<1>5. CASE AgentRestart
  BY <1>5 DEF AgentRestart, Locked, IdleJob
<1> QED BY <1>1, <1>2, <1>3, <1>4, <1>5 DEF Next

LEMMA NextPlanned == TypeOK /\ Planned /\ [Next]_vars => Planned'
<1> SUFFICES ASSUME TypeOK, Planned, [Next]_vars PROVE Planned'
  OBVIOUS
<1>0. job \in [Procs -> Job]
  BY DEF TypeOK
<1>1. ASSUME NEW p \in Procs, Lock(p) PROVE Planned'
  BY <1>0, <1>1 DEF Lock, Planned, FetchJob, IdleJob
<1>2. ASSUME NEW p \in Procs, Fetch(p) PROVE Planned'
  <2>1. CASE GetStateChanged(p)
    BY <1>0, <2>1 DEF GetStateChanged, Planned, ApplyJob
  <2>2. CASE GetStateUnchanged(p) \/ GetStateFails(p)
    BY <1>0, <2>2 DEF GetStateUnchanged, GetStateFails, Return, Planned, IdleJob
  <2> QED BY <1>2, <2>1, <2>2 DEF Fetch
<1>3. ASSUME NEW p \in Procs, Apply(p) PROVE Planned'
  BY <1>0, <1>3, ApplyShortens DEF ApplyEffect, Shorter, Planned, IdleJob
<1>4. CASE PanelEdit \/ Command \/ XrayCrash \/ UNCHANGED vars
  BY <1>4 DEF PanelEdit, Command, FetchCommand, RestartCore, RestartCoreFails, Ack, XrayCrash,
              vars, Planned
<1>5. CASE AgentRestart
  BY <1>5 DEF AgentRestart, Planned, IdleJob
<1> QED BY <1>1, <1>2, <1>3, <1>4, <1>5 DEF Next

LEMMA NextOrdered == TypeOK /\ Locked /\ Ordered /\ [Next]_vars => Ordered'
<1> SUFFICES ASSUME TypeOK, Locked, Ordered, [Next]_vars PROVE Ordered'
  OBVIOUS
<1>0. /\ job \in [Procs -> Job] /\ \A p \in Procs : job[p].ds.rev \in Nat
      /\ store.rev \in Nat /\ desired.rev \in Nat
  BY DEF TypeOK, Job, State
<1>1. ASSUME NEW p \in Procs, Lock(p) PROVE Ordered'
  BY <1>0, <1>1 DEF Lock, Ordered, FetchJob, IdleJob
<1>2. ASSUME NEW p \in Procs, Fetch(p) PROVE Ordered'
  <2>1. CASE GetStateChanged(p)
    BY <1>0, <2>1 DEF GetStateChanged, Ordered, ApplyJob
  <2>2. CASE GetStateUnchanged(p) \/ GetStateFails(p)
    BY <1>0, <2>2 DEF GetStateUnchanged, GetStateFails, Return, Ordered, IdleJob
  <2> QED BY <1>2, <2>1, <2>2 DEF Fetch
<1>3. ASSUME NEW p \in Procs, Apply(p) PROVE Ordered'
  <2>1. \A q \in Procs \ {p} : job[q].phase = "idle" /\ job'[q].phase = "idle"
    BY <1>0, <1>3, ApplyShortens DEF ApplyEffect, Locked
  <2> QED BY <1>0, <1>3, <2>1, ApplyShortens DEF ApplyEffect, Shorter, Ordered, IdleJob
<1>4. CASE PanelEdit
  BY <1>0, <1>4 DEF PanelEdit, Publish, Ordered
<1>5. CASE Command \/ XrayCrash \/ UNCHANGED vars
  BY <1>5 DEF Command, FetchCommand, RestartCore, RestartCoreFails, Ack, XrayCrash, vars, Ordered
<1>6. CASE AgentRestart
  BY <1>0, <1>6 DEF AgentRestart, Ordered, IdleJob, EmptyStore
<1> QED BY <1>1, <1>2, <1>3, <1>4, <1>5, <1>6 DEF Next

-----------------------------------------------------------------------------
(* Tracking the runtime through a sync.                                     *)

LEMMA EmptyRuntime ==
  /\ NoUsers = AppliedUsers(EmptyStore.clients)
  /\ NoRoutes = EmptyStore.routes
  BY DEF NoUsers, NoClients, AppliedUsers, Account, EmptyStore

\* Right after the diff nothing is applied yet.
LEMMA DiffHalfApplied ==
  ASSUME TypeOK, NEW ds \in State, NEW base \in State, RuntimeIs(base)
  PROVE  HalfApplied(users, rules, ApplyJob(ds, base))
<1>1. ASSUME NEW pr \in Protos, NEW e \in Emails
      PROVE  users[pr][e] = Midway(Account(base.clients, pr, e), Account(ds.clients, pr, e),
                                   e \in Removes(base.clients, ds.clients),
                                   e \in Adds(base.clients, ds.clients))
  <2>1. users[pr][e] = Account(base.clients, pr, e)
    BY DEF RuntimeIs, AppliedUsers
  <2>2. e \in DOMAIN base.clients
    BY DEF State
  <2> QED BY <2>1, <2>2 DEF Midway, Removes, Adds, Account
<1>2. ASSUME NEW t \in Tags
      PROVE  rules[t] = Midway(base.routes[t], ds.routes[t],
                               t \in Removes(base.routes, ds.routes),
                               t \in Adds(base.routes, ds.routes))
  <2>1. t \in DOMAIN base.routes
    BY DEF State
  <2> QED BY <2>1 DEF RuntimeIs, Midway, Removes, Adds
<1> QED BY <1>1, <1>2 DEF HalfApplied, ApplyJob

\* Once all lists are empty the runtime is the fetched state.
LEMMA FullyApplied ==
  ASSUME TypeOK, NEW j \in Job, HalfApplied(users, rules, j),
         j.rmUsers = {}, j.addUsers = {}, j.rmRoutes = {}, j.addRoutes = {}
  PROVE  RuntimeIs(j.ds)
<1>1. \A pr \in Protos, e \in Emails : users[pr][e] = Account(j.ds.clients, pr, e)
  BY DEF HalfApplied, Midway
<1>2. users = AppliedUsers(j.ds.clients)
  BY <1>1 DEF AppliedUsers, TypeOK
<1>3. rules = j.ds.routes
  BY DEF HalfApplied, Midway, TypeOK, Job, State
<1> QED BY <1>2, <1>3 DEF RuntimeIs

LEMMA NextTracked ==
  TypeOK /\ Locked /\ Planned /\ Tracked /\ [Next]_vars => Tracked'
<1> SUFFICES ASSUME TypeOK, Locked, Planned, Tracked, [Next]_vars, exact' PROVE Tracked'
  BY DEF Tracked
<1>0. job \in [Procs -> Job]
  BY DEF TypeOK
<1>a. ASSUME NEW p \in Procs, job[p].phase # "idle"
      PROVE  \A q \in Procs \ {p} : job[q].phase = "idle"
  BY <1>a DEF Locked
<1>1. ASSUME NEW p \in Procs, Lock(p) PROVE Tracked'
  <2>1. \A q \in Procs : job[q].phase = "idle" /\ job'[q].phase # "apply"
    BY <1>0, <1>1 DEF Lock, Locked, FetchJob, IdleJob
  <2> QED BY <1>1, <2>1 DEF Lock, Tracked, RuntimeIs
<1>2. ASSUME NEW p \in Procs, GetStateUnchanged(p) \/ GetStateFails(p) PROVE Tracked'
  <2>1. \A q \in Procs : job[q].phase # "apply" /\ job'[q].phase # "apply"
    <3>1. job[p].phase = "fetch" /\ job' = [job EXCEPT ![p] = IdleJob]
      BY <1>2 DEF GetStateUnchanged, GetStateFails, Return
    <3>2. \A q \in Procs \ {p} : job[q].phase = "idle"
      BY <1>a, <3>1
    <3> QED BY <1>0, <3>1, <3>2 DEF IdleJob
  <2> QED BY <1>2, <2>1 DEF GetStateUnchanged, GetStateFails, Tracked, RuntimeIs
<1>3. ASSUME NEW p \in Procs, GetStateChanged(p) PROVE Tracked'
  <2> DEFINE base == IF AssumeEmptyRuntime(p) THEN EmptyStore ELSE store
  <2>1. base \in State /\ desired \in State
    BY EmptyStoreType DEF TypeOK
  <2>2. RuntimeIs(base)
    BY <1>3 DEF GetStateChanged
  <2>3. HalfApplied(users, rules, ApplyJob(desired, base))
    BY <2>1, <2>2, DiffHalfApplied
  <2>4. job'[p] = ApplyJob(desired, base) /\ \A q \in Procs \ {p} : job'[q].phase = "idle"
    BY <1>0, <1>3, <1>a DEF GetStateChanged
  <2>5. HalfApplied(users', rules', job'[p])
    BY <1>3, <2>3, <2>4 DEF GetStateChanged
  <2>6. job'[p].phase = "apply"
    BY <2>4 DEF ApplyJob
  <2> QED BY <2>4, <2>5, <2>6 DEF Tracked
<1>4. ASSUME NEW p \in Procs, Apply(p) PROVE Tracked'
  <2>0. /\ job[p] \in Job /\ job[p].phase = "apply"
        /\ HalfApplied(users, rules, job[p])
        /\ \A q \in Procs \ {p} : job'[q].phase = "idle"
    <3>1. job[p].phase = "apply" /\ \A q \in Procs \ {p} : job'[q] = job[q]
      BY <1>0, <1>4, ApplyShortens DEF ApplyEffect
    <3>2. exact
      BY <1>4 DEF Apply, RemoveUser, PreRemoveUser, AddUser, RemoveRoute, PreRemoveRoute, AddRoute,
                  Commit, Refused, Lost, Abort, Proceed
    <3> QED BY <1>0, <1>a, <3>1, <3>2 DEF Tracked
  <2>a. ASSUME job'[p].phase = "apply", HalfApplied(users', rules', job'[p])
        PROVE  Tracked'
    BY <2>0, <2>a DEF Tracked
  <2>1. ASSUME NEW e \in Emails, RemoveUser(p, e) PROVE Tracked'
    <3> DEFINE old == job[p].base.clients[e]
    <3>1. /\ SetUser(old.proto, e, None) /\ rules' = rules
          /\ job'[p] = [job[p] EXCEPT !.rmUsers = @ \ {e}]
      BY <1>0, <2>1 DEF RemoveUser, Refused, Lost, Abort, Proceed
    <3>2. /\ old \in Client /\ e \in job[p].rmUsers /\ old # job[p].ds.clients[e]
          /\ job[p].ds.clients[e] # None => e \in job[p].addUsers
      BY <2>0, <2>1 DEF RemoveUser, Planned, Removes, Adds, Job, State
    <3>3. HalfApplied(users', rules', job'[p])
      BY <2>0, <3>1, <3>2 DEF HalfApplied, SetUser, Midway, Account, Job, Client, TypeOK
    <3>4. job'[p].phase = "apply"
      BY <2>0, <3>1 DEF Job
    <3> QED BY <2>a, <3>3, <3>4
  <2>2. ASSUME NEW e \in Emails, PreRemoveUser(p, e) PROVE Tracked'
    <3> DEFINE new == job[p].ds.clients[e]
    <3>1. /\ SetUser(new.proto, e, None) \/ users' = users
          /\ rules' = rules
          /\ job'[p] = [job[p] EXCEPT !.pre = e]
      BY <1>0, <2>2 DEF PreRemoveUser, Refused, Abort, Proceed
    <3>2. e \in job[p].addUsers /\ job[p].rmUsers = {}
      BY <2>2 DEF PreRemoveUser, AddingUsers
    <3>3. HalfApplied(users', rules', job'[p])
      BY <2>0, <3>1, <3>2 DEF HalfApplied, SetUser, Midway, Job, TypeOK
    <3>4. job'[p].phase = "apply"
      BY <2>0, <3>1 DEF Job
    <3> QED BY <2>a, <3>3, <3>4
  <2>3. ASSUME NEW e \in Emails, AddUser(p, e) PROVE Tracked'
    <3> DEFINE new == job[p].ds.clients[e]
    <3>1. /\ SetUser(new.proto, e, new.secret) /\ rules' = rules
          /\ job'[p] = [job[p] EXCEPT !.pre = None, !.addUsers = @ \ {e}]
      BY <1>0, <2>3 DEF AddUser, Refused, Lost, Abort, Proceed
    <3>2. e \in job[p].addUsers /\ job[p].rmUsers = {} /\ new \in Client
      BY <2>0, <2>3 DEF AddUser, AddingUsers, Planned, Adds, Job, State
    <3>3. HalfApplied(users', rules', job'[p])
      BY <2>0, <3>1, <3>2 DEF HalfApplied, SetUser, Midway, Account, Job, Client, TypeOK
    <3>4. job'[p].phase = "apply"
      BY <2>0, <3>1 DEF Job
    <3> QED BY <2>a, <3>3, <3>4
  <2>4. ASSUME NEW t \in Tags, RemoveRoute(p, t) PROVE Tracked'
    <3>1. /\ SetRule(t, None) /\ users' = users
          /\ job'[p] = [job[p] EXCEPT !.rmRoutes = @ \ {t}]
      BY <1>0, <2>4 DEF RemoveRoute, Refused, Lost, Abort, Proceed
    <3>2. /\ t \in job[p].rmRoutes
          /\ job[p].ds.routes[t] # None => t \in job[p].addRoutes
      BY <2>0, <2>4 DEF RemoveRoute, Planned, Removes, Adds, Job, State
    <3>3. HalfApplied(users', rules', job'[p])
      BY <2>0, <3>1, <3>2 DEF HalfApplied, SetRule, Midway, Job, TypeOK
    <3>4. job'[p].phase = "apply"
      BY <2>0, <3>1 DEF Job
    <3> QED BY <2>a, <3>3, <3>4
  <2>5. ASSUME NEW t \in Tags, PreRemoveRoute(p, t) PROVE Tracked'
    <3>1. /\ SetRule(t, None) /\ users' = users
          /\ job'[p] = [job[p] EXCEPT !.pre = t]
      BY <1>0, <2>5 DEF PreRemoveRoute, Lost, Abort, Proceed
    <3>2. t \in job[p].addRoutes /\ job[p].rmRoutes = {}
      BY <2>5 DEF PreRemoveRoute, AddingRoutes
    <3>3. HalfApplied(users', rules', job'[p])
      BY <2>0, <3>1, <3>2 DEF HalfApplied, SetRule, Midway, Job, TypeOK
    <3>4. job'[p].phase = "apply"
      BY <2>0, <3>1 DEF Job
    <3> QED BY <2>a, <3>3, <3>4
  <2>6. ASSUME NEW t \in Tags, AddRoute(p, t) PROVE Tracked'
    <3>1. /\ SetRule(t, job[p].ds.routes[t]) /\ users' = users
          /\ job'[p] = [job[p] EXCEPT !.pre = None, !.addRoutes = @ \ {t}]
      BY <1>0, <2>6 DEF AddRoute, Refused, Lost, Abort, Proceed
    <3>2. t \in job[p].addRoutes /\ job[p].rmRoutes = {}
      BY <2>6 DEF AddRoute, AddingRoutes
    <3>3. HalfApplied(users', rules', job'[p])
      BY <2>0, <3>1, <3>2 DEF HalfApplied, SetRule, Midway, Job, TypeOK
    <3>4. job'[p].phase = "apply"
      BY <2>0, <3>1 DEF Job
    <3> QED BY <2>a, <3>3, <3>4
  <2>7. ASSUME Commit(p) PROVE Tracked'
    <3>1. RuntimeIs(job[p].ds)
      BY <2>0, <2>7, FullyApplied DEF Commit
    <3>2. RuntimeIs(store)'
      BY <2>7, <3>1 DEF Commit, RuntimeIs
    <3>3. job'[p].phase = "idle"
      BY <1>0, <2>7 DEF Commit, Return, IdleJob
    <3> QED BY <2>0, <3>2, <3>3 DEF Tracked
  <2> QED BY <1>4, <2>1, <2>2, <2>3, <2>4, <2>5, <2>6, <2>7 DEF Apply
<1>5. CASE PanelEdit \/ FetchCommand \/ Ack \/ UNCHANGED vars
  BY <1>5 DEF PanelEdit, FetchCommand, Ack, vars, Tracked, RuntimeIs
<1>6. CASE RestartCore \/ XrayCrash
  BY <1>6 DEF RestartCore, XrayCrash
<1>7. CASE RestartCoreFails
  BY <1>7 DEF RestartCoreFails, Tracked, RuntimeIs
<1>8. CASE AgentRestart
  <2>1. users' = NoUsers /\ rules' = NoRoutes /\ store' = EmptyStore
    BY <1>8 DEF AgentRestart, RuntimeReset
  <2>2. RuntimeIs(store)'
    BY <2>1, EmptyRuntime DEF RuntimeIs
  <2>3. \A q \in Procs : job'[q].phase = "idle"
    BY <1>8 DEF AgentRestart, IdleJob
  <2> QED BY <2>2, <2>3 DEF Tracked
<1> QED BY <1>1, <1>2, <1>3, <1>4, <1>5, <1>6, <1>7, <1>8 DEF Next, Fetch, Command
-----------------------------------------------------------------------------
(* What is recorded could be applied.                                       *)

LEMMA EmptyApplicable == Applicable(EmptyStore)
  BY DEF Applicable, EmptyStore, NoClients, NoRoutes

\* Checked, for one job.
CheckedJob(j) ==
    j.phase = "apply" =>
        /\ Applicable(j.base)
        /\ \A e \in Emails : j.ds.clients[e] # None /\ (e \notin j.addUsers \/ e = j.pre) =>
                                j.ds.clients[e].proto \in Supported
        /\ \A t \in Tags : j.ds.routes[t] # None /\ t \notin j.addRoutes =>
                                j.ds.routes[t] \in Buildable

LEMMA CheckedByJob == Checked <=> \A p \in Procs : CheckedJob(job[p])
  BY DEF Checked, CheckedJob

LEMMA DiffChecked ==
  ASSUME NEW ds \in State, NEW base \in State, Applicable(base)
  PROVE  CheckedJob(ApplyJob(ds, base))
  BY DEF CheckedJob, ApplyJob, Applicable, Adds, State

LEMMA NextChecked ==
  TypeOK /\ StoreApplicable /\ Checked /\ [Next]_vars => StoreApplicable' /\ Checked'
<1> SUFFICES ASSUME TypeOK, StoreApplicable, Checked, [Next]_vars
             PROVE  StoreApplicable' /\ Checked'
  OBVIOUS
<1>0. job \in [Procs -> Job] /\ \A p \in Procs : CheckedJob(job[p])
  BY CheckedByJob DEF TypeOK
<1>a. ASSUME \A p \in Procs : CheckedJob(job'[p]) PROVE Checked'
  BY <1>a DEF Checked, CheckedJob
<1>b. ASSUME store' = store PROVE StoreApplicable'
  BY <1>b DEF StoreApplicable, Applicable
<1>c. CheckedJob(IdleJob) /\ CheckedJob(FetchJob)
  BY DEF CheckedJob, IdleJob, FetchJob
<1>1. ASSUME NEW p \in Procs, Lock(p) PROVE StoreApplicable' /\ Checked'
  BY <1>0, <1>a, <1>b, <1>c, <1>1 DEF Lock
<1>2. ASSUME NEW p \in Procs, GetStateUnchanged(p) \/ GetStateFails(p)
      PROVE  StoreApplicable' /\ Checked'
  BY <1>0, <1>a, <1>b, <1>c, <1>2 DEF GetStateUnchanged, GetStateFails, Return
<1>3. ASSUME NEW p \in Procs, GetStateChanged(p) PROVE StoreApplicable' /\ Checked'
  <2> DEFINE base == IF AssumeEmptyRuntime(p) THEN EmptyStore ELSE store
  <2>1. base \in State /\ desired \in State /\ Applicable(base)
    BY EmptyStoreType, EmptyApplicable DEF TypeOK, StoreApplicable
  <2>2. CheckedJob(ApplyJob(desired, base))
    BY <2>1, DiffChecked
  <2>3. store' = store /\ job' = [job EXCEPT ![p] = ApplyJob(desired, base)]
    BY <1>3 DEF GetStateChanged
  <2> QED BY <1>0, <1>a, <1>b, <2>2, <2>3
<1>4. ASSUME NEW p \in Procs, Apply(p) PROVE StoreApplicable' /\ Checked'
  <2>0. job[p] \in Job /\ job[p].phase = "apply" /\ CheckedJob(job[p])
    BY <1>0, <1>4, ApplyShortens DEF ApplyEffect
  <2>a. ASSUME NEW j, job' = [job EXCEPT ![p] = j], CheckedJob(j) PROVE Checked'
    BY <1>0, <1>a, <2>a
  <2>b. ASSUME job' = [job EXCEPT ![p] = IdleJob] PROVE Checked'
    BY <1>c, <2>a, <2>b
  <2> USE DEF Refused, Lost, Abort, Return, Proceed
  <2>1. ASSUME NEW e \in Emails, RemoveUser(p, e) PROVE StoreApplicable' /\ Checked'
    <3> DEFINE j == [job[p] EXCEPT !.rmUsers = @ \ {e}]
    <3>1. CheckedJob(j)
      BY <2>0 DEF CheckedJob, Job
    <3>2. store' = store /\ (job' = [job EXCEPT ![p] = j] \/ job' = [job EXCEPT ![p] = IdleJob])
      BY <2>1 DEF RemoveUser
    <3> QED BY <1>b, <2>a, <2>b, <3>1, <3>2
  <2>2. ASSUME NEW e \in Emails, PreRemoveUser(p, e) PROVE StoreApplicable' /\ Checked'
    <3> DEFINE j == [job[p] EXCEPT !.pre = e]
    <3>1. CASE job[p].ds.clients[e].proto \in Supported
      <4>1. CheckedJob(j)
        BY <2>0, <3>1 DEF CheckedJob, Job
      <4>2. store' = store /\ job' = [job EXCEPT ![p] = j]
        BY <2>2, <3>1 DEF PreRemoveUser
      <4> QED BY <1>b, <2>a, <4>1, <4>2
    <3>2. CASE job[p].ds.clients[e].proto \notin Supported
      <4>1. store' = store /\ job' = [job EXCEPT ![p] = IdleJob]
        BY <2>2, <3>2 DEF PreRemoveUser
      <4> QED BY <1>b, <2>b, <4>1
    <3> QED BY <3>1, <3>2
  <2>3. ASSUME NEW e \in Emails, AddUser(p, e) PROVE StoreApplicable' /\ Checked'
    <3> DEFINE j == [job[p] EXCEPT !.pre = None, !.addUsers = @ \ {e}]
    <3>1. CheckedJob(j)
      BY <2>0, <2>3 DEF AddUser, CheckedJob, Job
    <3>2. store' = store /\ (job' = [job EXCEPT ![p] = j] \/ job' = [job EXCEPT ![p] = IdleJob])
      BY <2>3 DEF AddUser
    <3> QED BY <1>b, <2>a, <2>b, <3>1, <3>2
  <2>4. ASSUME NEW t \in Tags, RemoveRoute(p, t) PROVE StoreApplicable' /\ Checked'
    <3> DEFINE j == [job[p] EXCEPT !.rmRoutes = @ \ {t}]
    <3>1. CheckedJob(j)
      BY <2>0 DEF CheckedJob, Job
    <3>2. store' = store /\ (job' = [job EXCEPT ![p] = j] \/ job' = [job EXCEPT ![p] = IdleJob])
      BY <2>4 DEF RemoveRoute
    <3> QED BY <1>b, <2>a, <2>b, <3>1, <3>2
  <2>5. ASSUME NEW t \in Tags, PreRemoveRoute(p, t) PROVE StoreApplicable' /\ Checked'
    <3> DEFINE j == [job[p] EXCEPT !.pre = t]
    <3>1. CheckedJob(j)
      BY <2>0, <2>5 DEF PreRemoveRoute, AddingRoutes, RemovingRoutes, CheckedJob, Job
    <3>2. store' = store /\ (job' = [job EXCEPT ![p] = j] \/ job' = [job EXCEPT ![p] = IdleJob])
      BY <2>5 DEF PreRemoveRoute
    <3> QED BY <1>b, <2>a, <2>b, <3>1, <3>2
  <2>6. ASSUME NEW t \in Tags, AddRoute(p, t) PROVE StoreApplicable' /\ Checked'
    <3> DEFINE j == [job[p] EXCEPT !.pre = None, !.addRoutes = @ \ {t}]
    <3>1. CASE job[p].ds.routes[t] \in Buildable
      <4>1. CheckedJob(j)
        BY <2>0, <3>1 DEF CheckedJob, Job
      <4>2. store' = store /\ (job' = [job EXCEPT ![p] = j] \/ job' = [job EXCEPT ![p] = IdleJob])
        BY <2>6 DEF AddRoute
      <4> QED BY <1>b, <2>a, <2>b, <4>1, <4>2
    <3>2. CASE job[p].ds.routes[t] \notin Buildable
      <4>1. store' = store /\ job' = [job EXCEPT ![p] = IdleJob]
        BY <2>6, <3>2 DEF AddRoute
      <4> QED BY <1>b, <2>b, <4>1
    <3> QED BY <3>1, <3>2
  <2>7. ASSUME Commit(p) PROVE StoreApplicable' /\ Checked'
    <3>1. store' = job[p].ds /\ job' = [job EXCEPT ![p] = IdleJob]
      BY <2>7 DEF Commit
    <3>2. Applicable(job[p].ds)
      BY <2>0, <2>7 DEF Commit, CheckedJob, Applicable
    <3>3. StoreApplicable'
      BY <3>1, <3>2 DEF StoreApplicable, Applicable
    <3> QED BY <2>b, <3>1, <3>3
  <2> QED BY <1>4, <2>1, <2>2, <2>3, <2>4, <2>5, <2>6, <2>7 DEF Apply
<1>5. CASE PanelEdit \/ Command \/ XrayCrash \/ UNCHANGED vars
  <2>1. job' = job /\ store' = store
    BY <1>5 DEF PanelEdit, Command, FetchCommand, RestartCore, RestartCoreFails, Ack, XrayCrash, vars
  <2> QED BY <1>0, <1>a, <1>b, <2>1
<1>6. CASE AgentRestart
  <2>1. store' = EmptyStore /\ \A p \in Procs : job'[p] = IdleJob
    BY <1>6 DEF AgentRestart
  <2>2. StoreApplicable'
    BY <2>1, EmptyApplicable DEF StoreApplicable, Applicable
  <2> QED BY <1>a, <1>c, <2>1, <2>2
<1> QED BY <1>1, <1>2, <1>3, <1>4, <1>5, <1>6 DEF Next, Fetch
-----------------------------------------------------------------------------
(* What a sync is done with is in Xray, whatever Xray held before.          *)

\* Landed, for one job and one runtime.
LandedJob(j, us, rs, ep) ==
    j.phase = "apply" =>
        /\ j.epoch <= ep
        /\ j.epoch = ep => /\ \A e \in Emails : ClientUnderway(j, us, e)
                           /\ \A t \in Tags : RouteUnderway(j, rs, t)

LEMMA LandedByJob == Landed <=> \A p \in Procs : LandedJob(job[p], users, rules, epoch)
  BY DEF Landed, LandedJob

LEMMA DiffLanded ==
  ASSUME NEW ds \in State, NEW base \in State, epoch \in Nat
  PROVE  LandedJob(ApplyJob(ds, base), users, rules, epoch)
<1> DEFINE j == ApplyJob(ds, base)
<1>1. ASSUME NEW e \in Emails PROVE ClientUnderway(j, users, e)
  BY DEF ClientUnderway, ApplyJob, Removes, Adds, State
<1>2. ASSUME NEW t \in Tags PROVE RouteUnderway(j, rules, t)
  BY DEF RouteUnderway, ApplyJob, Removes, Adds, State
<1> QED BY <1>1, <1>2 DEF LandedJob, ApplyJob

\* What a call does to one user.
LEMMA SetUserAt ==
  ASSUME TypeOK, NEW pr, NEW e \in Emails, NEW a, SetUser(pr, e, a)
  PROVE  /\ \A q \in Protos, f \in Emails :
               users'[q][f] = IF q = pr /\ f = e THEN a ELSE users[q][f]
  BY DEF SetUser, TypeOK

\* A call for one user leaves what is known of the others.
LEMMA OtherClient ==
  ASSUME NEW j \in Job, NEW k \in Job, NEW f \in Emails, NEW us, NEW vs,
         j.ds = k.ds, j.base = k.base,
         f \in j.rmUsers <=> f \in k.rmUsers, f \in j.addUsers <=> f \in k.addUsers,
         \A q \in Protos : vs[q][f] = us[q][f],
         ClientUnderway(k, us, f)
  PROVE  ClientUnderway(j, vs, f)
<1>1. /\ k.base.clients[f] # None => k.base.clients[f].proto \in Protos
      /\ k.ds.clients[f] # None => k.ds.clients[f].proto \in Protos
  BY DEF Job, State, Client
<1> QED BY <1>1 DEF ClientUnderway

\* A restart of Xray is a new epoch: nothing is claimed of the syncs under way.
LEMMA ResetLanded ==
  ASSUME TypeOK, Landed, RuntimeReset, job' = job
  PROVE  Landed'
  BY DEF Landed, RuntimeReset, TypeOK, Job

LEMMA NextLanded ==
  TypeOK /\ Locked /\ Planned /\ Landed /\ [Next]_vars => Landed'
<1> SUFFICES ASSUME TypeOK, Locked, Planned, Landed, [Next]_vars PROVE Landed'
  OBVIOUS
<1>0. /\ job \in [Procs -> Job] /\ epoch \in Nat
      /\ \A p \in Procs : LandedJob(job[p], users, rules, epoch)
  BY LandedByJob DEF TypeOK
<1>a. ASSUME \A p \in Procs : LandedJob(job'[p], users', rules', epoch') PROVE Landed'
  BY <1>a DEF Landed, LandedJob
<1>b. \A us, rs, ep : LandedJob(IdleJob, us, rs, ep) /\ LandedJob(FetchJob, us, rs, ep)
  BY DEF LandedJob, IdleJob, FetchJob
<1>1. ASSUME NEW p \in Procs, Lock(p) \/ GetStateUnchanged(p) \/ GetStateFails(p) PROVE Landed'
  <2>1. /\ job' = [job EXCEPT ![p] = FetchJob] \/ job' = [job EXCEPT ![p] = IdleJob]
        /\ UNCHANGED <<users, rules, epoch>>
    BY <1>1 DEF Lock, GetStateUnchanged, GetStateFails, Return
  <2> QED BY <1>0, <1>a, <1>b, <2>1
<1>2. ASSUME NEW p \in Procs, GetStateChanged(p) PROVE Landed'
  <2> DEFINE base == IF AssumeEmptyRuntime(p) THEN EmptyStore ELSE store
  <2>1. base \in State /\ desired \in State
    BY EmptyStoreType DEF TypeOK
  <2>2. LandedJob(ApplyJob(desired, base), users, rules, epoch)
    BY <1>0, <2>1, DiffLanded
  <2>3. job' = [job EXCEPT ![p] = ApplyJob(desired, base)] /\ UNCHANGED <<users, rules, epoch>>
    BY <1>2 DEF GetStateChanged
  <2> QED BY <1>0, <1>a, <2>2, <2>3
<1>3. ASSUME NEW p \in Procs, Apply(p) PROVE Landed'
  <2>0. /\ job[p] \in Job /\ job[p].phase = "apply" /\ epoch' = epoch
        /\ LandedJob(job[p], users, rules, epoch)
        /\ \A q \in Procs \ {p} : job'[q].phase = "idle"
    <3>1. /\ job[p].phase = "apply" /\ epoch' = epoch
          /\ \A q \in Procs \ {p} : job'[q] = job[q]
      BY <1>0, <1>3, ApplyShortens DEF ApplyEffect
    <3> QED BY <1>0, <3>1 DEF Locked
  <2>a. ASSUME LandedJob(job'[p], users', rules', epoch) PROVE Landed'
    BY <1>a, <2>0, <2>a DEF LandedJob
  <2>b. ASSUME job' = [job EXCEPT ![p] = IdleJob] PROVE Landed'
    BY <1>0, <1>b, <2>a, <2>b
  <2>c. ASSUME NEW j \in Job, job' = [job EXCEPT ![p] = j],
               j.phase = "apply", j.epoch = job[p].epoch,
               ASSUME job[p].epoch = epoch
               PROVE  /\ \A e \in Emails : ClientUnderway(j, users', e)
                      /\ \A t \in Tags : RouteUnderway(j, rules', t)
        PROVE  Landed'
    <3>1. job'[p] = j
      BY <1>0, <2>c
    <3>2. LandedJob(j, users', rules', epoch)
      BY <2>0, <2>c DEF LandedJob
    <3> QED BY <2>a, <3>1, <3>2
  <2> DEFINE Before == /\ \A e \in Emails : ClientUnderway(job[p], users, e)
                       /\ \A t \in Tags : RouteUnderway(job[p], rules, t)
  <2>d. job[p].epoch = epoch => Before
    BY <2>0 DEF LandedJob
  <2>e. ASSUME NEW j \in Job, j.ds = job[p].ds, j.base = job[p].base,
               j.rmUsers = job[p].rmUsers, j.addUsers = job[p].addUsers, Before, users' = users
        PROVE  \A e \in Emails : ClientUnderway(j, users', e)
    BY <2>e DEF ClientUnderway
  <2>f. ASSUME NEW j \in Job, j.ds = job[p].ds, j.base = job[p].base,
               j.rmRoutes = job[p].rmRoutes, j.addRoutes = job[p].addRoutes, Before, rules' = rules
        PROVE  \A t \in Tags : RouteUnderway(j, rules', t)
    BY <2>f DEF RouteUnderway
  <2> HIDE DEF Before
  <2>1. ASSUME NEW e \in Emails, RemoveUser(p, e) PROVE Landed'
    <3> DEFINE old == job[p].base.clients[e]
               j   == [job[p] EXCEPT !.rmUsers = @ \ {e}]
    <3>1. CASE job' = [job EXCEPT ![p] = IdleJob]
      BY <2>b, <3>1
    <3>2. CASE job' # [job EXCEPT ![p] = IdleJob]
      <4>1. SetUser(old.proto, e, None) /\ rules' = rules /\ job' = [job EXCEPT ![p] = j]
        BY <2>1, <3>2 DEF RemoveUser, Refused, Lost, Abort, Return, Proceed
      <4>2. /\ j \in Job /\ j.phase = "apply" /\ j.epoch = job[p].epoch
            /\ j.ds = job[p].ds /\ j.base = job[p].base
            /\ j.rmUsers = job[p].rmUsers \ {e} /\ j.addUsers = job[p].addUsers
            /\ j.rmRoutes = job[p].rmRoutes /\ j.addRoutes = job[p].addRoutes
        BY <2>0 DEF Job
      <4>3. /\ old \in Client /\ old # job[p].ds.clients[e]
            /\ job[p].ds.clients[e] # None => e \in job[p].addUsers
        BY <2>0, <2>1 DEF RemoveUser, Planned, Removes, Adds, Job, State
      <4> HIDE DEF j
      <4>4. ASSUME Before, NEW f \in Emails PROVE ClientUnderway(j, users', f)
        <5>0. ClientUnderway(job[p], users, f)
          BY <4>4 DEF Before
        <5>1. CASE f # e
          <6>1. \A q \in Protos : users'[q][f] = users[q][f]
            BY <4>1, <5>1, SetUserAt
          <6>2. (f \in j.rmUsers <=> f \in job[p].rmUsers) /\ (f \in j.addUsers <=> f \in job[p].addUsers)
            BY <4>2, <5>1
          <6> QED BY <2>0, <4>2, <5>0, <6>1, <6>2, OtherClient
        <5>2. CASE f = e
          <6>1. \A q \in Protos : users'[q][e] = IF q = old.proto THEN None ELSE users[q][e]
            BY <4>1, <5>2, SetUserAt
          <6> QED BY <2>0, <4>2, <4>3, <5>0, <5>2, <6>1
                  DEF ClientUnderway, Account, Job, State, Client
        <5> QED BY <5>1, <5>2
      <4> QED BY <2>c, <2>d, <2>f, <4>1, <4>2, <4>4
    <3> QED BY <3>1, <3>2
  <2>2. ASSUME NEW e \in Emails, PreRemoveUser(p, e) PROVE Landed'
    <3> DEFINE new == job[p].ds.clients[e]
               j   == [job[p] EXCEPT !.pre = e]
    <3>1. CASE job' = [job EXCEPT ![p] = IdleJob]
      BY <2>b, <3>1
    <3>2. CASE job' # [job EXCEPT ![p] = IdleJob]
      <4>1. /\ SetUser(new.proto, e, None) \/ users' = users
            /\ rules' = rules /\ job' = [job EXCEPT ![p] = j]
        BY <2>2, <3>2 DEF PreRemoveUser, Refused, Abort, Return, Proceed
      <4>2. /\ j \in Job /\ j.phase = "apply" /\ j.epoch = job[p].epoch
            /\ j.ds = job[p].ds /\ j.base = job[p].base
            /\ j.rmUsers = job[p].rmUsers /\ j.addUsers = job[p].addUsers
            /\ j.rmRoutes = job[p].rmRoutes /\ j.addRoutes = job[p].addRoutes
        BY <2>0 DEF Job
      <4>3. e \in job[p].addUsers
        BY <2>2 DEF PreRemoveUser
      <4> HIDE DEF j
      <4>4. ASSUME Before, NEW f \in Emails PROVE ClientUnderway(j, users', f)
        <5>0. ClientUnderway(job[p], users, f)
          BY <4>4 DEF Before
        <5>1. CASE f # e
          <6>1. \A q \in Protos : users'[q][f] = users[q][f]
            BY <4>1, <5>1, SetUserAt
          <6>2. (f \in j.rmUsers <=> f \in job[p].rmUsers) /\ (f \in j.addUsers <=> f \in job[p].addUsers)
            BY <4>2, <5>1
          <6> QED BY <2>0, <4>2, <5>0, <6>1, <6>2, OtherClient
        <5>2. CASE f = e
          <6>1. \A q \in Protos : users'[q][e] = (IF q = new.proto THEN None ELSE users[q][e]) \/ users'[q][e] = users[q][e]
            BY <4>1, <5>2, SetUserAt
          <6> QED BY <2>0, <4>2, <4>3, <5>0, <5>2, <6>1
                  DEF ClientUnderway, Account, Job, State, Client
        <5> QED BY <5>1, <5>2
      <4> QED BY <2>c, <2>d, <2>f, <4>1, <4>2, <4>4
    <3> QED BY <3>1, <3>2
  <2>3. ASSUME NEW e \in Emails, AddUser(p, e) PROVE Landed'
    <3> DEFINE new == job[p].ds.clients[e]
               j   == [job[p] EXCEPT !.pre = None, !.addUsers = @ \ {e}]
    <3>1. CASE job' = [job EXCEPT ![p] = IdleJob]
      BY <2>b, <3>1
    <3>2. CASE job' # [job EXCEPT ![p] = IdleJob]
      <4>1. SetUser(new.proto, e, new.secret) /\ rules' = rules /\ job' = [job EXCEPT ![p] = j]
        BY <2>3, <3>2 DEF AddUser, Refused, Lost, Abort, Return, Proceed
      <4>2. /\ j \in Job /\ j.phase = "apply" /\ j.epoch = job[p].epoch
            /\ j.ds = job[p].ds /\ j.base = job[p].base
            /\ j.rmUsers = job[p].rmUsers /\ j.addUsers = job[p].addUsers \ {e}
            /\ j.rmRoutes = job[p].rmRoutes /\ j.addRoutes = job[p].addRoutes
        BY <2>0 DEF Job
      <4>3. e \in job[p].addUsers /\ job[p].rmUsers = {} /\ new \in Client
        BY <2>0, <2>3 DEF AddUser, AddingUsers, Planned, Adds, Job, State
      <4> HIDE DEF j
      <4>4. ASSUME Before, NEW f \in Emails PROVE ClientUnderway(j, users', f)
        <5>0. ClientUnderway(job[p], users, f)
          BY <4>4 DEF Before
        <5>1. CASE f # e
          <6>1. \A q \in Protos : users'[q][f] = users[q][f]
            BY <4>1, <5>1, SetUserAt
          <6>2. (f \in j.rmUsers <=> f \in job[p].rmUsers) /\ (f \in j.addUsers <=> f \in job[p].addUsers)
            BY <4>2, <5>1
          <6> QED BY <2>0, <4>2, <5>0, <6>1, <6>2, OtherClient
        <5>2. CASE f = e
          <6>1. \A q \in Protos : users'[q][e] = IF q = new.proto THEN new.secret ELSE users[q][e]
            BY <4>1, <5>2, SetUserAt
          <6> QED BY <2>0, <4>2, <4>3, <5>0, <5>2, <6>1
                  DEF ClientUnderway, Account, Job, State, Client
        <5> QED BY <5>1, <5>2
      <4> QED BY <2>c, <2>d, <2>f, <4>1, <4>2, <4>4
    <3> QED BY <3>1, <3>2
  <2>4. ASSUME NEW t \in Tags, RemoveRoute(p, t) PROVE Landed'
    <3> DEFINE j == [job[p] EXCEPT !.rmRoutes = @ \ {t}]
    <3>1. CASE job' = [job EXCEPT ![p] = IdleJob]
      BY <2>b, <3>1
    <3>2. CASE job' # [job EXCEPT ![p] = IdleJob]
      <4>1. SetRule(t, None) /\ users' = users /\ job' = [job EXCEPT ![p] = j]
        BY <2>4, <3>2 DEF RemoveRoute, Refused, Lost, Abort, Return, Proceed
      <4>2. /\ j \in Job /\ j.phase = "apply" /\ j.epoch = job[p].epoch
            /\ j.ds = job[p].ds /\ j.base = job[p].base
            /\ j.rmUsers = job[p].rmUsers /\ j.addUsers = job[p].addUsers
            /\ j.rmRoutes = job[p].rmRoutes \ {t} /\ j.addRoutes = job[p].addRoutes
        BY <2>0 DEF Job
      <4>3. job[p].ds.routes[t] # None => t \in job[p].addRoutes
        BY <2>0, <2>4 DEF RemoveRoute, Planned, Removes, Adds, Job, State
      <4>4. ASSUME Before PROVE \A u \in Tags : RouteUnderway(j, rules', u)
        BY <2>0, <4>1, <4>2, <4>3, <4>4 DEF Before, RouteUnderway, SetRule, TypeOK
      <4> HIDE DEF j
      <4> QED BY <2>c, <2>d, <2>e, <4>1, <4>2, <4>4
    <3> QED BY <3>1, <3>2
  <2>5. ASSUME NEW t \in Tags, PreRemoveRoute(p, t) PROVE Landed'
    <3> DEFINE j == [job[p] EXCEPT !.pre = t]
    <3>1. CASE job' = [job EXCEPT ![p] = IdleJob]
      BY <2>b, <3>1
    <3>2. CASE job' # [job EXCEPT ![p] = IdleJob]
      <4>1. SetRule(t, None) /\ users' = users /\ job' = [job EXCEPT ![p] = j]
        BY <2>5, <3>2 DEF PreRemoveRoute, Lost, Abort, Return, Proceed
      <4>2. /\ j \in Job /\ j.phase = "apply" /\ j.epoch = job[p].epoch
            /\ j.ds = job[p].ds /\ j.base = job[p].base
            /\ j.rmUsers = job[p].rmUsers /\ j.addUsers = job[p].addUsers
            /\ j.rmRoutes = job[p].rmRoutes /\ j.addRoutes = job[p].addRoutes
        BY <2>0 DEF Job
      <4>3. t \in job[p].addRoutes
        BY <2>5 DEF PreRemoveRoute
      <4>4. ASSUME Before PROVE \A u \in Tags : RouteUnderway(j, rules', u)
        BY <2>0, <4>1, <4>2, <4>3, <4>4 DEF Before, RouteUnderway, SetRule, TypeOK
      <4> HIDE DEF j
      <4> QED BY <2>c, <2>d, <2>e, <4>1, <4>2, <4>4
    <3> QED BY <3>1, <3>2
  <2>6. ASSUME NEW t \in Tags, AddRoute(p, t) PROVE Landed'
    <3> DEFINE j == [job[p] EXCEPT !.pre = None, !.addRoutes = @ \ {t}]
    <3>1. CASE job' = [job EXCEPT ![p] = IdleJob]
      BY <2>b, <3>1
    <3>2. CASE job' # [job EXCEPT ![p] = IdleJob]
      <4>1. SetRule(t, job[p].ds.routes[t]) /\ users' = users /\ job' = [job EXCEPT ![p] = j]
        BY <2>6, <3>2 DEF AddRoute, Refused, Lost, Abort, Return, Proceed
      <4>2. /\ j \in Job /\ j.phase = "apply" /\ j.epoch = job[p].epoch
            /\ j.ds = job[p].ds /\ j.base = job[p].base
            /\ j.rmUsers = job[p].rmUsers /\ j.addUsers = job[p].addUsers
            /\ j.rmRoutes = job[p].rmRoutes /\ j.addRoutes = job[p].addRoutes \ {t}
        BY <2>0 DEF Job
      <4>4. ASSUME Before PROVE \A u \in Tags : RouteUnderway(j, rules', u)
        BY <2>0, <4>1, <4>2, <4>4 DEF Before, RouteUnderway, SetRule, TypeOK
      <4> HIDE DEF j
      <4> QED BY <2>c, <2>d, <2>e, <4>1, <4>2, <4>4
    <3> QED BY <3>1, <3>2
  <2>7. ASSUME Commit(p) PROVE Landed'
    BY <2>7, <2>b DEF Commit, Return
  <2> QED BY <1>3, <2>1, <2>2, <2>3, <2>4, <2>5, <2>6, <2>7 DEF Apply
<1>4. CASE RestartCore \/ XrayCrash
  BY <1>4, ResetLanded DEF RestartCore, XrayCrash
<1>5. CASE RestartCoreFails
  <2>1. CASE RuntimeReset
    BY <1>5, <2>1, ResetLanded DEF RestartCoreFails
  <2>2. CASE UNCHANGED <<users, rules, epoch>>
    BY <1>5, <2>2 DEF RestartCoreFails, Landed
  <2> QED BY <1>5, <2>1, <2>2 DEF RestartCoreFails
<1>6. CASE PanelEdit \/ FetchCommand \/ Ack \/ UNCHANGED vars
  BY <1>6 DEF PanelEdit, FetchCommand, Ack, vars, Landed
<1>7. CASE AgentRestart
  BY <1>a, <1>b, <1>7 DEF AgentRestart
<1> QED BY <1>1, <1>2, <1>3, <1>4, <1>5, <1>6, <1>7 DEF Next, Fetch, Command

LEMMA NextFromEmpty == TypeOK /\ FromEmpty /\ [Next]_vars => FromEmpty'
<1> SUFFICES ASSUME TypeOK, FromEmpty, [Next]_vars PROVE FromEmpty'
  OBVIOUS
<1>0. job \in [Procs -> Job] /\ "command" \in Procs
  BY DEF TypeOK, Procs
<1>1. ASSUME NEW p \in Procs, Lock(p) PROVE FromEmpty'
  BY <1>0, <1>1 DEF Lock, FromEmpty, FetchJob, IdleJob
<1>2. ASSUME NEW p \in Procs, Fetch(p) PROVE FromEmpty'
  <2>1. CASE GetStateChanged(p)
    BY <1>0, <2>1 DEF GetStateChanged, AssumeEmptyRuntime, FromEmpty, ApplyJob
  <2>2. CASE GetStateUnchanged(p) \/ GetStateFails(p)
    BY <1>0, <2>2 DEF GetStateUnchanged, GetStateFails, Return, FromEmpty, IdleJob
  <2> QED BY <1>2, <2>1, <2>2 DEF Fetch
<1>3. ASSUME NEW p \in Procs, Apply(p) PROVE FromEmpty'
  BY <1>0, <1>3, ApplyShortens DEF ApplyEffect, Shorter, FromEmpty, IdleJob
<1>4. CASE PanelEdit \/ Command \/ XrayCrash \/ UNCHANGED vars
  BY <1>4 DEF PanelEdit, Command, FetchCommand, RestartCore, RestartCoreFails, Ack, XrayCrash,
              vars, FromEmpty
<1>5. CASE AgentRestart
  BY <1>0, <1>5 DEF AgentRestart, FromEmpty, IdleJob
<1> QED BY <1>1, <1>2, <1>3, <1>4, <1>5 DEF Next
-----------------------------------------------------------------------------
(* The theorems.                                                            *)

LEMMA InitIInv == Init => IInv
<1> SUFFICES ASSUME Init PROVE IInv
  OBVIOUS
<1>1. \A p \in Procs : job[p].phase = "idle"
  BY DEF Init, IdleJob
<1>2. RuntimeIs(store)
  BY EmptyRuntime DEF Init, RuntimeIs
<1>3. Ordered
  BY <1>1 DEF Init, Ordered, EmptyStore
<1>4. StoreApplicable
  BY EmptyApplicable DEF Init, StoreApplicable
<1>5. Checked /\ Landed /\ FromEmpty
  BY <1>1 DEF Checked, Landed, FromEmpty, Procs
<1> QED BY <1>1, <1>2, <1>3, <1>4, <1>5, InitType DEF IInv, Locked, Planned, Tracked

LEMMA NextIInv == IInv /\ [Next]_vars => IInv'
  BY NextType, NextLocked, NextPlanned, NextTracked, NextOrdered, NextChecked, NextLanded,
     NextFromEmpty DEF IInv

\* The inductive invariant holds throughout.
THEOREM Inductive == Spec => []IInv
  BY InitIInv, NextIInv, PTL DEF Spec

\* Type correctness of the whole reconciliation, for every set of clients,
\* protocols and routes and every bound.
THEOREM TypeCorrect == Spec => []TypeOK
<1>1. IInv => TypeOK
  BY DEF IInv
<1> QED BY <1>1, Inductive, PTL

\* A sync that finds the runtime it assumes and is not disturbed leaves Xray
\* with the stored clients and routes and nothing else: diffClients, diffRoutes
\* and the order of the calls in Manager.State are right for every pair of
\* states, although two goroutines sync.
THEOREM CleanSync == Spec => []CleanSyncExact
<1>1. IInv => CleanSyncExact
  <2> SUFFICES ASSUME IInv, exact, syncMu = None PROVE RuntimeIs(store)
    BY DEF CleanSyncExact
  <2>1. \A p \in Procs : job[p].phase # "apply"
    BY DEF IInv, Locked
  <2> QED BY <2>1 DEF IInv, Tracked
<1> QED BY <1>1, Inductive, PTL

\* Fetching and updating under one lock: the store never goes back to an earlier
\* state of the panel, whichever goroutine commits.
THEOREM Monotonic == Spec => StoreMonotonic
<1> DEFINE Step == store'.rev >= store.rev \/ spent'.agentRestarts > spent.agentRestarts
<1>1. IInv /\ [Next]_vars => [Step]_vars
  <2> SUFFICES ASSUME IInv, Next PROVE Step
    BY DEF StoreMonotonic
  <2>0. /\ store.rev \in Nat /\ spent.agentRestarts \in Nat /\ TypeOK
    BY DEF IInv, TypeOK, State
  <2>1. ASSUME NEW p \in Procs, Apply(p) PROVE Step
    <3>1. store' \in {store, job[p].ds} /\ job[p].phase = "apply"
      BY <2>0, <2>1, ApplyShortens DEF ApplyEffect
    <3>2. store.rev <= job[p].ds.rev /\ job[p].ds.rev \in Nat
      BY <3>1 DEF IInv, Ordered, TypeOK, Job, State
    <3> QED BY <2>0, <3>1, <3>2
  <2>2. CASE AgentRestart
    BY <2>0, <2>2 DEF AgentRestart, Spend, TypeOK
  <2>3. CASE PanelEdit \/ Command \/ XrayCrash \/ \E p \in Procs : Lock(p) \/ Fetch(p)
    <3>1. store' = store
      BY <2>3 DEF PanelEdit, Command, FetchCommand, RestartCore, RestartCoreFails, Ack, XrayCrash,
                  Lock, Fetch, GetStateUnchanged, GetStateChanged, GetStateFails
    <3> QED BY <2>0, <3>1
  <2> QED BY <2>1, <2>2, <2>3 DEF Next
<1> QED BY <1>1, Inductive, PTL DEF Spec, StoreMonotonic

\* The store never holds an unsupported client or a route that cannot be built:
\* such a state fails State before Store.Update, through every failed sync,
\* restart and change of the panel's mind.
THEOREM Applied == Spec => []StoreApplicable
<1>1. IInv => StoreApplicable
  BY DEF IInv
<1> QED BY <1>1, Inductive, PTL

\* Only deltas: an account changes in a running Xray only by a sync in which that
\* client differs.
THEOREM Deltas == Spec => OnlyDeltas
<1> DEFINE Step == epoch' = epoch =>
         \A pr \in Protos, e \in Emails :
            users'[pr][e] # users[pr][e] =>
               \E p \in Procs : /\ job[p].phase = "apply"
                                /\ job[p].base.clients[e] # job[p].ds.clients[e]
<1>1. IInv /\ [Next]_vars => [Step]_vars
  <2> SUFFICES ASSUME IInv, Next, epoch' = epoch, NEW pr \in Protos, NEW e \in Emails,
                      users'[pr][e] # users[pr][e]
               PROVE  \E p \in Procs : /\ job[p].phase = "apply"
                                       /\ job[p].base.clients[e] # job[p].ds.clients[e]
    OBVIOUS
  <2>0. TypeOK /\ Planned /\ users' # users
    BY DEF IInv
  <2>1. ASSUME NEW p \in Procs, Apply(p)
        PROVE  job[p].phase = "apply" /\ job[p].base.clients[e] # job[p].ds.clients[e]
    <3>1. PICK f \in Emails : RemoveUser(p, f) \/ PreRemoveUser(p, f) \/ AddUser(p, f)
      BY <2>0, <2>1 DEF Apply, RemoveRoute, PreRemoveRoute, AddRoute, Commit
    <3>2. \E qr, a : SetUser(qr, f, a)
      BY <2>0, <3>1 DEF RemoveUser, PreRemoveUser, AddUser
    <3>3. f = e
      BY <2>0, <3>2, SetUserAt
    <3>4. /\ job[p].phase = "apply"
          /\ f \in job[p].rmUsers \cup job[p].addUsers
      BY <3>1 DEF RemoveUser, PreRemoveUser, AddUser, AddingUsers
    <3> QED BY <2>0, <3>3, <3>4 DEF Planned, Removes, Adds
  <2>2. CASE PanelEdit \/ Command \/ XrayCrash \/ AgentRestart
    <3>1. epoch' = epoch + 1
      BY <2>0, <2>2 DEF PanelEdit, Command, FetchCommand, RestartCore, RestartCoreFails, Ack,
                        XrayCrash, AgentRestart, RuntimeReset
    <3> QED BY <2>0, <3>1 DEF TypeOK
  <2>3. ASSUME NEW p \in Procs, Lock(p) \/ Fetch(p) PROVE FALSE
    BY <2>0, <2>3 DEF Lock, Fetch, GetStateUnchanged, GetStateChanged, GetStateFails
  <2> QED BY <2>1, <2>2, <2>3 DEF Next
<1> QED BY <1>1, Inductive, PTL DEF Spec, OnlyDeltas

\* What a commit of p records of the entries it changed, unless Xray restarted.
LEMMA CommitLands ==
  ASSUME IInv, NEW p \in Procs, Commit(p), job[p].epoch = epoch
  PROVE  /\ \A e \in Emails : job[p].base.clients[e] # job[p].ds.clients[e] => ClientLanded(p, e)
         /\ \A t \in Tags :
               job[p].base.routes[t] # job[p].ds.routes[t] => rules[t] = job[p].ds.routes[t]
<1>1. /\ \A e \in Emails : ClientUnderway(job[p], users, e)
      /\ \A t \in Tags : RouteUnderway(job[p], rules, t)
  BY DEF IInv, Landed, Commit
<1>2. job[p].rmUsers = {} /\ job[p].addUsers = {} /\ job[p].rmRoutes = {} /\ job[p].addRoutes = {}
  BY DEF Commit
<1> QED BY <1>1, <1>2 DEF ClientUnderway, RouteUnderway, ClientLanded

\* No lost update: what Store.Update records has landed in Xray, whatever Xray
\* held when the sync began and whatever failed before.
THEOREM NoLostUpdate == Spec => CommitLanded
<1> DEFINE Step == \A p \in Procs : Commit(p) /\ job[p].epoch = epoch =>
          /\ \A e \in Emails :
                job[p].base.clients[e] # job[p].ds.clients[e] => ClientLanded(p, e)
          /\ \A t \in Tags :
                job[p].base.routes[t] # job[p].ds.routes[t] => rules[t] = job[p].ds.routes[t]
<1>1. IInv => Step
  BY CommitLands
<1> QED BY <1>1, Inductive, PTL DEF CommitLanded

\* A command that restarts Xray succeeds only after every client and route of the
\* recorded state is back.
THEOREM RestoresAll == Spec => RestartRestores
<1> DEFINE Step == cmd = "sync" /\ cmd' = "ackSucceeded" /\ job["command"].epoch = epoch =>
          /\ \A e \in Emails : LET c == store'.clients[e]
                               IN  c # None => users[c.proto][e] = c.secret
          /\ \A t \in Tags : store'.routes[t] # None => rules[t] = store'.routes[t]
<1>1. IInv /\ [Next]_vars => [Step]_vars
  <2> SUFFICES ASSUME IInv, Next, cmd = "sync", cmd' = "ackSucceeded",
                      job["command"].epoch = epoch
               PROVE  Step
    OBVIOUS
  <2>1. "command" \in Procs /\ Commit("command")
    <3>1. ~(PanelEdit \/ Command \/ XrayCrash \/ AgentRestart \/ \E p \in Procs : Lock(p))
      BY DEF PanelEdit, Command, FetchCommand, RestartCore, RestartCoreFails, Ack, XrayCrash,
             AgentRestart, Lock
    <3>2. PICK p \in Procs : Fetch(p) \/ Apply(p)
      BY <3>1 DEF Next
    <3>3. CASE Fetch(p)
      BY <3>3 DEF Fetch, GetStateUnchanged, GetStateChanged, GetStateFails, Return,
                  AssumeEmptyRuntime
    <3>4. CASE Apply(p)
      <4>1. CASE Commit(p)
        BY <4>1 DEF Commit, Return
      <4>2. CASE ~Commit(p)
        BY <3>4, <4>2 DEF Apply, RemoveUser, PreRemoveUser, AddUser, RemoveRoute, PreRemoveRoute,
                          AddRoute, Refused, Lost, Abort, Return, Proceed
      <4> QED BY <4>1, <4>2
    <3> QED BY <3>2, <3>3, <3>4
  <2>2. store' = job["command"].ds /\ job["command"].base = EmptyStore
    BY <2>1 DEF Commit, IInv, FromEmpty
  <2>3. /\ \A e \in Emails : job["command"].base.clients[e] = None
        /\ \A t \in Tags : job["command"].base.routes[t] = None
    BY <2>2 DEF EmptyStore, NoClients, NoRoutes
  <2> QED BY <2>1, <2>2, <2>3, CommitLands DEF ClientLanded
<1> QED BY <1>1, Inductive, PTL DEF Spec, RestartRestores
=============================================================================
