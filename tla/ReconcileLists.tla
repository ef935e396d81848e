---------------------------- MODULE ReconcileLists ----------------------------
(***************************************************************************)
(* The reconciliation at the level of lists: what StateSync abstracts to   *)
(* functions.  The panel sends lists that may repeat a route tag or an     *)
(* email, in any order; the store keeps maps; diffClients and diffRoutes   *)
(* turn both into calls made one after the other; and Xray, which applies  *)
(* the first routing rule that matches, keeps its rules in a list.         *)
(*                                                                         *)
(* Syncs are serial (StateSync), so one is modelled here: its calls are    *)
(* single steps, each may fail and end it, and Xray may restart before or  *)
(* after it.                                                               *)
(***************************************************************************)
EXTENDS Naturals, FiniteSets, Sequences, SequencesExt

CONSTANTS
    Clients,      \* entries of the client list: records with email, proto, secret
    Routes,       \* entries of the route list: records with tag, rule
    Answers,      \* Answers[f]: the states the panel sends in a behaviour of feed f
    MaxFaults     \* bound: lost calls and restarts of Xray

Feeds == DOMAIN Answers
States == [version : Nat, clients : Seq(Clients), routes : Seq(Routes)]

ASSUME AnswersAssumption == \A f \in Feeds : Answers[f] \subseteq States
ASSUME FaultsAssumption  == MaxFaults \in Nat

VARIABLES
    feed,     \* which kind of states this panel sends
    ds,       \* the state GetState returned last
    store,    \* state.Store
    users,    \* Xray: the clients of its inbounds
    rules,    \* Xray: its routing rules, in the order they are tried
    sync,     \* the syncState call under way and the calls it has left
    forced,   \* the command loop restarted Xray and is to force a sync
    settled,  \* history: the last sync returned without an error
    exact,    \* history: the runtime was what the last diff assumed, and
              \* nothing failed and Xray did not restart since
    before,   \* history: the rules Xray had when the sync under way began
    steady,   \* history: Xray has not restarted since then
    faults    \* number of lost calls and restarts of Xray so far

vars == <<feed, ds, store, users, rules, sync, forced, settled, exact, before, steady, faults>>

-----------------------------------------------------------------------------
(* Lists and maps.  A map from an email or a tag to an entry is the set of   *)
(* its entries: no two of them have the same key.  What a loop over a list   *)
(* keeps of it, in its order, is the set of the places of what it keeps.     *)

EmailsOf(cs) == [i \in DOMAIN cs |-> cs[i].email]
TagsOf(rs)   == [i \in DOMAIN rs |-> rs[i].tag]

\* Mutants: repeated keys are not noticed; the first entry of a key is kept.
EveryIndex(keys, places) == places
FirstIndex(keys, places) == {i \in places : \A j \in places : j < i => keys[j] # keys[i]}

\* Where the keys occur last: what a loop that writes a map leaves in it.
LastIndex(keys, places) == {i \in places : \A j \in places : i < j => keys[j] # keys[i]}

\* Mutant: the routes are left as they were sent.
NormalizeNothing(rs) == DOMAIN rs

\* NormalizeRouteRules: last write wins, and keeps its place.
NormalizeRouteRules(rs) == LastIndex(TagsOf(rs), DOMAIN rs)

ClientMap(cs) == {cs[i] : i \in LastIndex(EmailsOf(cs), DOMAIN cs)}
\* Written from the normalised routes.
RouteMap(rs)  == {rs[i] : i \in LastIndex(TagsOf(rs), NormalizeRouteRules(rs))}

EmptyStore == [version |-> 0, clients |-> {}, routes |-> {}]

\* Mutant: unchanged entries are applied again.
MissingAll(have, want, places) == places

\* The entries of a list, at the places, that are not the current ones.
Missing(have, want, places) == {i \in places : want[i] \notin have}

\* Store.IsUnchanged, called with the normalised routes: the lengths are those
\* of the lists, the sizes those of the maps.
IsUnchanged(d) ==
    /\ d.version = store.version
    /\ Len(d.clients) = Cardinality(store.clients)
    /\ Cardinality(NormalizeRouteRules(d.routes)) = Cardinality(store.routes)
    /\ Missing(store.clients, d.clients, DOMAIN d.clients) = {}
    /\ Missing(store.routes, d.routes, NormalizeRouteRules(d.routes)) = {}

Idle == [phase |-> "idle", base |-> EmptyStore,
         rmUsers |-> {}, addUsers |-> {}, rmRoutes |-> {}, addRoutes |-> {}]

\* diffClients and diffRoutes.  Every entry of the list is compared, not only
\* the last of its key; what is to be added is added in the order of the list.
Diff(base, d) ==
    [phase |-> "apply", base |-> base,
     rmUsers   |-> base.clients \ ClientMap(d.clients),
     addUsers  |-> Missing(base.clients, d.clients, DOMAIN d.clients),
     rmRoutes  |-> base.routes \ RouteMap(d.routes),
     addRoutes |-> Missing(base.routes, d.routes, NormalizeRouteRules(d.routes))]

Init ==
    /\ feed \in Feeds
    /\ ds = [version |-> 0, clients |-> <<>>, routes |-> <<>>]
    /\ store = EmptyStore
    /\ users = {} /\ rules = <<>>
    /\ sync = Idle
    /\ forced = FALSE /\ settled = FALSE /\ exact = TRUE
    /\ before = <<>> /\ steady = TRUE
    /\ faults = 0
-----------------------------------------------------------------------------
(* syncState.                                                               *)

GetStateUnchanged ==
    /\ sync.phase = "idle"
    /\ ds' \in Answers[feed]
    /\ IsUnchanged(ds')
    /\ settled' = TRUE
    /\ UNCHANGED <<feed, store, users, rules, sync, forced, exact, before, steady, faults>>

Begin(base) ==
    /\ sync' = Diff(base, ds')
    /\ exact' = (users = base.clients /\ ToSet(rules) = base.routes)
    /\ before' = rules /\ steady' = TRUE
    /\ UNCHANGED <<feed, store, users, rules, settled, faults>>

GetStateChanged ==
    /\ sync.phase = "idle"
    /\ ds' \in Answers[feed]
    /\ ~IsUnchanged(ds')
    /\ Begin(store)
    /\ UNCHANGED forced

\* The forced sync of the command loop; a failed attempt is followed by another
\* one or by none.
GetStateForced ==
    /\ sync.phase = "idle" /\ forced
    /\ ds' \in Answers[feed]
    /\ Begin(EmptyStore)
    /\ forced' \in BOOLEAN

\* State returns an error: the store stays as it is.
Abort == sync' = Idle /\ exact' = FALSE /\ settled' = FALSE /\ before' = <<>> /\ steady' = TRUE
Fault == faults < MaxFaults /\ faults' = faults + 1

\* A call was carried out; its answer may be lost on the way.
Continue(rest) == \/ sync' = rest /\ UNCHANGED <<exact, settled, before, steady, faults>>
                  \/ Abort /\ Fault

First(i, places) == i \in places /\ \A j \in places : i <= j

NoUser(us, c) == {u \in us : u.email # c.email \/ u.proto # c.proto}
\* A rule is only added when there is none of its tag (addRoute), so there is at
\* most one to be removed.
NoRule(rs, r) ==
    LET found == {k \in DOMAIN rs : rs[k].tag = r.tag}
    IN  IF found = {} THEN rs ELSE RemoveAt(rs, CHOOSE k \in found : TRUE)

RemoveUser ==
    /\ sync.phase = "apply"
    /\ \E c \in sync.rmUsers : /\ users' = NoUser(users, c)
                               /\ Continue([sync EXCEPT !.rmUsers = @ \ {c}])
    /\ UNCHANGED <<feed, ds, store, rules, forced>>

\* addUser: the stale user of that inbound is removed, the new one added.
AddUser ==
    /\ sync.phase = "apply" /\ sync.rmUsers = {}
    /\ \E i \in DOMAIN ds.clients :
          /\ First(i, sync.addUsers)
          /\ users' = NoUser(users, ds.clients[i]) \cup {ds.clients[i]}
          /\ Continue([sync EXCEPT !.addUsers = @ \ {i}])
    /\ UNCHANGED <<feed, ds, store, rules, forced>>

UsersDone == sync.phase = "apply" /\ sync.rmUsers = {} /\ sync.addUsers = {}

RemoveRoute ==
    /\ UsersDone
    /\ \E r \in sync.rmRoutes : /\ rules' = NoRule(rules, r)
                                /\ Continue([sync EXCEPT !.rmRoutes = @ \ {r}])
    /\ UNCHANGED <<feed, ds, store, users, forced>>

\* addRoute: the stale rule is removed, the new one appended (ShouldAppend).
AddRoute ==
    /\ UsersDone /\ sync.rmRoutes = {}
    /\ \E i \in DOMAIN ds.routes :
          /\ First(i, sync.addRoutes)
          /\ rules' = Append(NoRule(rules, ds.routes[i]), ds.routes[i])
          /\ Continue([sync EXCEPT !.addRoutes = @ \ {i}])
    /\ UNCHANGED <<feed, ds, store, users, forced>>

Finished == UsersDone /\ sync.rmRoutes = {} /\ sync.addRoutes = {}

\* A call fails without effect: it is lost, or Xray does not know what is to be
\* removed.
CallFails ==
    /\ sync.phase = "apply" /\ ~Finished
    /\ \/ Fault
       \/ /\ \/ \E c \in sync.rmUsers : NoUser(users, c) = users
             \/ UsersDone /\ \E r \in sync.rmRoutes : NoRule(rules, r) = rules
          /\ UNCHANGED faults
    /\ Abort
    /\ UNCHANGED <<feed, ds, store, users, rules, forced>>

\* Store.Update writes the lists into new maps.
Update ==
    /\ Finished
    /\ store' = [version |-> ds.version, clients |-> ClientMap(ds.clients),
                 routes  |-> RouteMap(ds.routes)]
    /\ sync' = Idle /\ before' = <<>> /\ steady' = TRUE
    /\ settled' = TRUE
    /\ UNCHANGED <<feed, ds, users, rules, forced, exact, faults>>

\* Xray starts anew, by itself or by a command, which then forces a sync.
XrayRestart ==
    /\ Fault
    /\ users' = {} /\ rules' = <<>> /\ exact' = FALSE
    /\ before' = <<>> /\ steady' = (sync.phase = "idle")
    /\ forced' \in BOOLEAN
    /\ UNCHANGED <<feed, ds, store, sync, settled>>

Next == \/ GetStateUnchanged \/ GetStateChanged \/ GetStateForced
        \/ RemoveUser \/ AddUser \/ RemoveRoute \/ AddRoute \/ CallFails \/ Update
        \/ XrayRestart

Spec == Init /\ [][Next]_vars
-----------------------------------------------------------------------------
Stores == [version : Nat, clients : SUBSET Clients, routes : SUBSET Routes]

\* A store: its maps are finite and hold no two entries of one key.
IsStore(st) ==
    /\ st \in Stores /\ IsFiniteSet(st.clients) /\ IsFiniteSet(st.routes)
    /\ \A c, d \in st.clients : c.email = d.email => c = d
    /\ \A r, q \in st.routes  : r.tag = q.tag => r = q

\* Every variable stays in its type, no map holds two entries of one key, Xray
\* never has two rules of one tag, and a sync that is over has nothing left to do.
TypeOK ==
    /\ feed \in Feeds
    /\ ds \in States
    /\ users \subseteq Clients /\ rules \in Seq(Routes) /\ IsInjective(TagsOf(rules))
    /\ IsStore(store) /\ IsStore(sync.base)
    /\ sync \in [phase : {"idle", "apply"}, base : Stores,
                 rmUsers  : SUBSET Clients, addUsers  : SUBSET Nat,
                 rmRoutes : SUBSET Routes,  addRoutes : SUBSET Nat]
    /\ sync.phase = "idle" => sync = Idle
    /\ sync.addUsers \subseteq DOMAIN ds.clients /\ sync.addRoutes \subseteq DOMAIN ds.routes
    /\ before \in Seq(Routes)
    /\ forced \in BOOLEAN /\ settled \in BOOLEAN /\ exact \in BOOLEAN /\ steady \in BOOLEAN
    /\ faults \in Nat

\* The last line of the list for a tag is the one that counts.
LastLine(rs, i) == ~\E j \in DOMAIN rs : j > i /\ rs[j].tag = rs[i].tag

\* An undisturbed sync makes Xray hold the list the panel sent: every client of
\* it in its inbound, for every tag the last rule of the list, once, and nothing
\* else (syncState, agent.go:98-137, with lists that repeat route tags).
ListApplied ==
    sync.phase = "idle" /\ settled /\ exact =>
        /\ users = ToSet(ds.clients)
        /\ ToSet(rules) = {ds.routes[i] : i \in {k \in DOMAIN ds.routes : LastLine(ds.routes, k)}}
        /\ IsInjective([i \in DOMAIN rules |-> rules[i].tag])

\* s is what a line of entries has at the places, in its order.
InOrder(s, line, places) ==
    \E at \in [DOMAIN s -> places] :
        /\ \A k, l \in DOMAIN s : k < l => at[k] < at[l]
        /\ \A k \in DOMAIN s : s[k] = line[at[k]]
        /\ \A p \in places : \E k \in DOMAIN s : at[k] = p

\* Of the rules was, followed by a list: those with none of the tags that are gone
\* or added, and the entries of the list that are added.
Left(was, gone, list, added) ==
    {k \in DOMAIN was : /\ \A q \in gone : q.tag # was[k].tag
                        /\ \A i \in added : list[i].tag # was[k].tag}
    \cup {Len(was) + i : i \in added}

\* The first rule that matches wins, so the place of a rule matters: a sync
\* leaves the rules it does not touch in front, in the order they had, and puts
\* the new and changed ones behind them in the order of the panel's list, whatever
\* earlier syncs that failed half-way have left in Xray.  After a restart of Xray
\* that is the order of the whole list (manager.go:140, 179).
NewRulesBehind ==
    [][Update /\ steady =>
         LET counts  == {i \in DOMAIN ds.routes : LastLine(ds.routes, i)}
             dropped == sync.base.routes \ {ds.routes[i] : i \in counts}
             new     == {i \in counts : ds.routes[i] \notin sync.base.routes}
         IN  InOrder(rules, before \o ds.routes, Left(before, dropped, ds.routes, new))]_vars

\* "applies only the deltas" (README.md:7): a state that was applied and is sent
\* again costs no call of Xray's API, which would cut the user's connections.
ResentQuiet ==
    [][settled /\ ds' = ds /\ sync.phase = "idle" /\ ~forced =>
          /\ sync'.rmUsers = {} /\ sync'.addUsers = {}
          /\ sync'.rmRoutes = {} /\ sync'.addRoutes = {}]_vars
-----------------------------------------------------------------------------
(* The inductive invariant behind these, for lists that name no client twice. *)

Unrepeated == \A f \in Feeds : \A d \in Answers[f] : IsInjective(EmailsOf(d.clients))

\* The rules of a list that count, and the places of the new ones of a sync.
Kept(rs) == {rs[i] : i \in NormalizeRouteRules(rs)}
NewUsers == Missing(sync.base.clients, ds.clients, DOMAIN ds.clients)
NewRules == Missing(sync.base.routes, ds.routes, NormalizeRouteRules(ds.routes))

\* What a sync has left is part of what its diff found; nothing is removed once
\* something was added.
Plan ==
    /\ IsInjective(EmailsOf(ds.clients))
    /\ sync.phase = "apply" =>
          /\ sync.rmUsers  \subseteq sync.base.clients \ ToSet(ds.clients)
          /\ sync.rmRoutes \subseteq sync.base.routes \ Kept(ds.routes)
          /\ sync.addUsers  \subseteq NewUsers
          /\ sync.addRoutes \subseteq NewRules
          /\ sync.rmUsers # {}  => sync.addUsers = NewUsers
          /\ sync.rmRoutes # {} => sync.addRoutes = NewRules

\* What Xray has during an undisturbed sync: of the list what is not yet to be
\* added, and what is still to be removed; between syncs, what the store has.
Tracked ==
    exact =>
        /\ sync.phase = "apply" =>
              /\ users = {ds.clients[i] : i \in DOMAIN ds.clients \ sync.addUsers} \cup sync.rmUsers
              /\ ToSet(rules) = {ds.routes[i] : i \in NormalizeRouteRules(ds.routes) \ sync.addRoutes}
                                \cup sync.rmRoutes
        /\ sync.phase = "idle" => users = store.clients /\ ToSet(rules) = store.routes

\* After a sync the store has the lists of the panel's last answer.
Remembered ==
    sync.phase = "idle" /\ settled =>
        /\ store.version = ds.version
        /\ store.clients = ToSet(ds.clients) /\ store.routes = Kept(ds.routes)

\* NewRulesBehind for what has been removed and added so far; what was added comes
\* before what is to come.
Behind ==
    steady /\ sync.phase = "apply" =>
        LET added == NewRules \ sync.addRoutes
            gone  == (sync.base.routes \ Kept(ds.routes)) \ sync.rmRoutes
        IN  /\ \A i \in added, j \in sync.addRoutes : i < j
            /\ InOrder(rules, before \o ds.routes, Left(before, gone, ds.routes, added))

IInv == TypeOK /\ Plan /\ Tracked /\ Remembered /\ Behind
=============================================================================
