--------------------------- MODULE StateSync_refines ---------------------------
(* StateSync implements SyncPromise, for every value of the constants.       *)
EXTENDS StateSync_proofs

USE SetsAssumption, NoneAssumption

Users == [Protos -> [Emails -> Secrets \cup {None}]]
Rules == [Tags -> RouteRules \cup {None}]
-----------------------------------------------------------------------------
(* Slots.                                                                   *)

LEMMA SlotParts ==
  /\ \A pr \in Protos, e \in Emails : <<"user", pr, e>> \in Slots
  /\ \A t \in Tags : <<"rule", t>> \in Slots
  /\ \A s \in Slots : \/ \E pr \in Protos, e \in Emails : s = <<"user", pr, e>>
                      \/ \E t \in Tags : s = <<"rule", t>>
  BY DEF Slots, UserSlots, RuleSlots

\* What a slot of a runtime holds.
LEMMA SlottedAt ==
  ASSUME NEW us, NEW rs
  PROVE  /\ \A pr \in Protos, e \in Emails : Slotted(us, rs)[<<"user", pr, e>>] = us[pr][e]
         /\ \A t \in Tags : Slotted(us, rs)[<<"rule", t>>] = rs[t]
         /\ DOMAIN Slotted(us, rs) = Slots
         /\ Slotted(us, rs) = [s \in Slots |-> Slotted(us, rs)[s]]
  BY SlotParts DEF Slotted

\* Two runtimes with the same slots are the same.
LEMMA SlottedEqual ==
  ASSUME NEW us \in Users, NEW vs \in Users, NEW rs \in Rules, NEW qs \in Rules
  PROVE  Slotted(us, rs) = Slotted(vs, qs) <=> us = vs /\ rs = qs
<1> SUFFICES ASSUME Slotted(us, rs) = Slotted(vs, qs) PROVE us = vs /\ rs = qs
  OBVIOUS
<1>1. ASSUME NEW pr \in Protos, NEW e \in Emails PROVE us[pr][e] = vs[pr][e]
  <2>1. Slotted(us, rs)[<<"user", pr, e>>] = us[pr][e]
    BY SlottedAt
  <2>2. Slotted(vs, qs)[<<"user", pr, e>>] = vs[pr][e]
    BY SlottedAt
  <2> QED BY <2>1, <2>2
<1>2. ASSUME NEW t \in Tags PROVE rs[t] = qs[t]
  <2>1. Slotted(us, rs)[<<"rule", t>>] = rs[t]
    BY SlottedAt
  <2>2. Slotted(vs, qs)[<<"rule", t>>] = qs[t]
    BY SlottedAt
  <2> QED BY <2>1, <2>2
<1>3. \A pr \in Protos : us[pr] = vs[pr]
  BY <1>1 DEF Users
<1> QED BY <1>2, <1>3 DEF Users, Rules

LEMMA SlotTypes ==
  ASSUME NEW us \in Users, NEW rs \in Rules
  PROVE  Slotted(us, rs) \in Promise!Contents
<1>1. ASSUME NEW s \in Slots
      PROVE  Slotted(us, rs)[s] \in (Secrets \cup RouteRules) \cup {None}
  BY SlotParts, SlottedAt DEF Users, Rules
<1> QED BY <1>1, SlottedAt DEF Promise!Contents

LEMMA StateParts ==
  ASSUME NEW st \in State
  PROVE  AppliedUsers(st.clients) \in Users /\ st.routes \in Rules /\ st.rev \in Nat
<1>1. ASSUME NEW pr \in Protos, NEW e \in Emails
      PROVE  Account(st.clients, pr, e) \in Secrets \cup {None}
  BY DEF Account, State, Client
<1> QED BY <1>1 DEF AppliedUsers, State, Users, Rules

\* The slots of a state.
LEMMA StateSlots ==
  ASSUME NEW st \in State
  PROVE  /\ \A pr \in Protos, e \in Emails :
              SlotsOf(st)[<<"user", pr, e>>] = Account(st.clients, pr, e)
         /\ \A t \in Tags : SlotsOf(st)[<<"rule", t>>] = st.routes[t]
         /\ SlotsOf(st) \in Promise!Contents
<1>1. \A pr \in Protos, e \in Emails :
         AppliedUsers(st.clients)[pr][e] = Account(st.clients, pr, e)
  BY DEF AppliedUsers
<1>2. SlotsOf(st) \in Promise!Contents
  BY StateParts, SlotTypes DEF SlotsOf
<1> QED BY <1>1, <1>2, SlottedAt DEF SlotsOf

LEMMA EmptySlots ==
  SlotsOf(EmptyStore) = Promise!Nothing /\ Slotted(NoUsers, NoRoutes) = Promise!Nothing
<1>1. \A s \in Slots : Slotted(NoUsers, NoRoutes)[s] = None
  BY SlotParts, SlottedAt DEF NoUsers, NoClients, NoRoutes
<1>2. Slotted(NoUsers, NoRoutes) = Promise!Nothing
  BY <1>1, SlottedAt DEF Promise!Nothing
<1> QED BY <1>2, EmptyRuntime DEF SlotsOf

\* The runtime is what a state asks for when their slots agree.
LEMMA RuntimeSlots ==
  ASSUME TypeOK, NEW st \in State
  PROVE  RuntimeIs(st) <=> Slotted(users, rules) = SlotsOf(st)
<1>1. users \in Users /\ rules \in Rules
  BY DEF TypeOK, Users, Rules
<1>2. AppliedUsers(st.clients) \in Users /\ st.routes \in Rules
  BY StateParts
<1>3. Slotted(users, rules) = Slotted(AppliedUsers(st.clients), st.routes)
         <=> users = AppliedUsers(st.clients) /\ rules = st.routes
  BY <1>1, <1>2, SlottedEqual
<1> QED BY <1>3 DEF RuntimeIs, SlotsOf

\* A call to Xray writes one slot.
LEMMA SetUserSlot ==
  ASSUME TypeOK, NEW pr \in Protos, NEW e \in Emails, NEW a, SetUser(pr, e, a), rules' = rules
  PROVE  Slotted(users, rules)' = [Slotted(users, rules) EXCEPT ![<<"user", pr, e>>] = a]
<1> DEFINE new == [Slotted(users, rules) EXCEPT ![<<"user", pr, e>>] = a]
<1>1. ASSUME NEW qr \in Protos, NEW f \in Emails
      PROVE  Slotted(users', rules')[<<"user", qr, f>>] = new[<<"user", qr, f>>]
  <2>1. Slotted(users', rules')[<<"user", qr, f>>] = users'[qr][f]
    BY SlottedAt
  <2>2. Slotted(users, rules)[<<"user", qr, f>>] = users[qr][f]
    BY SlottedAt
  <2>3. users'[qr][f] = IF qr = pr /\ f = e THEN a ELSE users[qr][f]
    BY DEF SetUser, TypeOK
  <2>4. <<"user", qr, f>> \in DOMAIN Slotted(users, rules)
    BY SlotParts, SlottedAt
  <2>5. <<"user", qr, f>> = <<"user", pr, e>> <=> qr = pr /\ f = e
    OBVIOUS
  <2> QED BY <2>1, <2>2, <2>3, <2>4, <2>5
<1>2. ASSUME NEW t \in Tags
      PROVE  Slotted(users', rules')[<<"rule", t>>] = new[<<"rule", t>>]
  <2>1. Slotted(users', rules')[<<"rule", t>>] = rules'[t]
    BY SlottedAt
  <2>2. Slotted(users, rules)[<<"rule", t>>] = rules[t]
    BY SlottedAt
  <2>3. <<"rule", t>> \in DOMAIN Slotted(users, rules) /\ <<"rule", t>> # <<"user", pr, e>>
    BY SlotParts, SlottedAt
  <2> QED BY <2>1, <2>2, <2>3
<1>3. ASSUME NEW s \in Slots PROVE Slotted(users', rules')[s] = new[s]
  BY <1>1, <1>2, SlotParts
<1>4. DOMAIN new = Slots /\ new = [s \in Slots |-> new[s]]
  BY SlottedAt
<1>5. Slotted(users', rules') = [s \in Slots |-> Slotted(users', rules')[s]]
  BY SlottedAt
<1>6. Slotted(users', rules') = new
  BY <1>3, <1>4, <1>5
<1> QED BY <1>6

LEMMA SetRuleSlot ==
  ASSUME TypeOK, NEW t \in Tags, NEW r, SetRule(t, r), users' = users
  PROVE  Slotted(users, rules)' = [Slotted(users, rules) EXCEPT ![<<"rule", t>>] = r]
<1> DEFINE new == [Slotted(users, rules) EXCEPT ![<<"rule", t>>] = r]
<1>1. ASSUME NEW qr \in Protos, NEW f \in Emails
      PROVE  Slotted(users', rules')[<<"user", qr, f>>] = new[<<"user", qr, f>>]
  <2>1. Slotted(users', rules')[<<"user", qr, f>>] = users'[qr][f]
    BY SlottedAt
  <2>2. Slotted(users, rules)[<<"user", qr, f>>] = users[qr][f]
    BY SlottedAt
  <2>3. <<"user", qr, f>> \in DOMAIN Slotted(users, rules) /\ <<"rule", t>> # <<"user", qr, f>>
    BY SlotParts, SlottedAt
  <2> QED BY <2>1, <2>2, <2>3
<1>2. ASSUME NEW u \in Tags
      PROVE  Slotted(users', rules')[<<"rule", u>>] = new[<<"rule", u>>]
  <2>1. Slotted(users', rules')[<<"rule", u>>] = rules'[u]
    BY SlottedAt
  <2>2. Slotted(users, rules)[<<"rule", u>>] = rules[u]
    BY SlottedAt
  <2>3. rules'[u] = IF u = t THEN r ELSE rules[u]
    BY DEF SetRule, TypeOK
  <2>4. <<"rule", u>> \in DOMAIN Slotted(users, rules)
    BY SlotParts, SlottedAt
  <2>5. <<"rule", u>> = <<"rule", t>> <=> u = t
    OBVIOUS
  <2> QED BY <2>1, <2>2, <2>3, <2>4, <2>5
<1>3. ASSUME NEW s \in Slots PROVE Slotted(users', rules')[s] = new[s]
  BY <1>1, <1>2, SlotParts
<1>4. DOMAIN new = Slots /\ new = [s \in Slots |-> new[s]]
  BY SlottedAt
<1>5. Slotted(users', rules') = [s \in Slots |-> Slotted(users', rules')[s]]
  BY SlottedAt
<1>6. Slotted(users', rules') = new
  BY <1>3, <1>4, <1>5
<1> QED BY <1>6
-----------------------------------------------------------------------------
(* Steps.                                                                   *)

\* The sync under way is the one of the goroutine that applies.
LEMMA SyncOf ==
  ASSUME TypeOK, Locked, NEW p \in Procs, job[p].phase = "apply"
  PROVE  /\ Syncing /\ syncMu = p
         /\ job[p].ds \in State /\ job[p].base \in State
         /\ [rev |-> job[p].ds.rev, slots |-> SlotsOf(job[p].ds)] # None
<1>1. Syncing /\ syncMu = p
  BY DEF Locked, Syncing
<1>2. job[p].ds \in State /\ job[p].base \in State
  BY DEF TypeOK, Job
<1>3. [rev |-> job[p].ds.rev, slots |-> SlotsOf(job[p].ds)] \in Promise!States
  BY <1>2, StateParts, StateSlots DEF Promise!States
<1> QED BY <1>1, <1>2, <1>3, GoalAssumption

\* While p fetches no sync is under way.
LEMMA NoSync ==
  ASSUME TypeOK, Locked, NEW p \in Procs, job[p].phase # "apply", syncMu \in {p, None}
  PROVE  ~Syncing
  BY DEF Syncing

LEMMA Goes ==
  ASSUME TypeOK, Locked, NEW p \in Procs, job[p].phase = "apply",
         NEW j, Proceed(p, j), j.phase = "apply", j.ds = job[p].ds, j.base = job[p].base
  PROVE  Syncing' /\ syncMu' = p /\ job'[p].ds = job[p].ds /\ job'[p].base = job[p].base
<1>1. syncMu' = p /\ job'[p] = j
  BY SyncOf DEF Proceed, TypeOK
<1> QED BY <1>1 DEF Syncing

LEMMA Stops ==
  ASSUME NEW p, syncMu' = None
  PROVE  ~Syncing'
  BY DEF Syncing

\* A call that may write a slot in which the two states differ.
LEMMA CallTouches ==
  ASSUME TypeOK, Locked, NEW p \in Procs, job[p].phase = "apply",
         UNCHANGED <<desired, store>>,
         NEW s \in Slots, SlotsOf(job[p].base)[s] # SlotsOf(job[p].ds)[s],
         \E v \in {None, SlotsOf(job[p].ds)[s]} :
            Slotted(users, rules)' = [Slotted(users, rules) EXCEPT ![s] = v],
         \/ Abort(p)
         \/ \E j : Proceed(p, j) /\ j.phase = "apply" /\ j.ds = job[p].ds /\ j.base = job[p].base
  PROVE  Promise!Next
<1>1. /\ Syncing /\ syncMu = p
      /\ [rev |-> job[p].ds.rev, slots |-> SlotsOf(job[p].ds)] # None
  BY SyncOf
<1>2. CASE Abort(p)
  <2>1. ~Syncing' /\ exact' = FALSE
    BY <1>2, Stops DEF Abort, Return
  <2>2. Promise!Touch(s)
    BY <1>1, <2>1 DEF Promise!Touch, Promise!Stop
  <2> QED BY <2>2 DEF Promise!Next
<1>3. CASE \E j : Proceed(p, j) /\ j.phase = "apply" /\ j.ds = job[p].ds /\ j.base = job[p].base
  <2>1. Syncing' /\ syncMu' = p /\ job'[p].ds = job[p].ds /\ job'[p].base = job[p].base
    BY <1>3, Goes
  <2>2. exact' = exact
    BY <1>3 DEF Proceed
  <2>3. Promise!Touch(s)
    BY <1>1, <2>1, <2>2 DEF Promise!Touch
  <2> QED BY <2>3 DEF Promise!Next
<1> QED BY <1>2, <1>3

\* A call that changes nothing and ends the sync.
LEMMA CallGivesUp ==
  ASSUME TypeOK, Locked, NEW p \in Procs, job[p].phase = "apply",
         UNCHANGED <<desired, store, users, rules>>, Abort(p)
  PROVE  Promise!Next
<1>1. /\ Syncing /\ syncMu = p
      /\ [rev |-> job[p].ds.rev, slots |-> SlotsOf(job[p].ds)] # None
  BY SyncOf
<1>2. ~Syncing' /\ exact' = FALSE
  BY Stops DEF Abort, Return
<1>3. Promise!GiveUp
  BY <1>1, <1>2 DEF Promise!GiveUp, Promise!Stop
<1> QED BY <1>3 DEF Promise!Next

\* The slot of an account or a rule that a sync removes or adds is one in which
\* the state it starts from and the state it fetched differ.
LEMMA ClientSlots ==
  ASSUME TypeOK, Locked, NEW p \in Procs, job[p].phase = "apply", NEW e \in Emails,
         job[p].base.clients[e] # job[p].ds.clients[e],
         NEW c \in {job[p].base.clients[e], job[p].ds.clients[e]}, c # None
  PROVE  /\ c.proto \in Protos
         /\ <<"user", c.proto, e>> \in Slots
         /\ SlotsOf(job[p].base)[<<"user", c.proto, e>>] # SlotsOf(job[p].ds)[<<"user", c.proto, e>>]
         /\ c = job[p].ds.clients[e] => SlotsOf(job[p].ds)[<<"user", c.proto, e>>] = c.secret
<1> DEFINE old == job[p].base.clients[e]
           new == job[p].ds.clients[e]
<1>1. job[p].ds \in State /\ job[p].base \in State
  BY SyncOf
<1>2. old \in Client \cup {None} /\ new \in Client \cup {None}
  BY <1>1 DEF State
<1>3. c \in Client /\ c.proto \in Protos /\ c.secret \in Secrets
  BY <1>2 DEF Client
<1>4. /\ SlotsOf(job[p].base)[<<"user", c.proto, e>>] = Account(job[p].base.clients, c.proto, e)
      /\ SlotsOf(job[p].ds)[<<"user", c.proto, e>>] = Account(job[p].ds.clients, c.proto, e)
  BY <1>1, <1>3, StateSlots
<1>5. Account(job[p].base.clients, c.proto, e) # Account(job[p].ds.clients, c.proto, e)
  BY <1>2, <1>3 DEF Account, Client
<1>6. c = new => Account(job[p].ds.clients, c.proto, e) = c.secret
  BY DEF Account
<1> QED BY <1>3, <1>4, <1>5, <1>6, SlotParts

LEMMA RouteSlots ==
  ASSUME TypeOK, Locked, NEW p \in Procs, job[p].phase = "apply", NEW t \in Tags,
         job[p].base.routes[t] # job[p].ds.routes[t]
  PROVE  /\ <<"rule", t>> \in Slots
         /\ SlotsOf(job[p].base)[<<"rule", t>>] # SlotsOf(job[p].ds)[<<"rule", t>>]
         /\ SlotsOf(job[p].ds)[<<"rule", t>>] = job[p].ds.routes[t]
<1>1. job[p].ds \in State /\ job[p].base \in State
  BY SyncOf
<1> QED BY <1>1, StateSlots, SlotParts

\* removeUser and the two halves of addUser.
LEMMA UserSteps ==
  ASSUME TypeOK, Locked, Planned, NEW p \in Procs, NEW e \in Emails,
         RemoveUser(p, e) \/ PreRemoveUser(p, e) \/ AddUser(p, e)
  PROVE  Promise!Next \/ UNCHANGED Promise!vars
<1> DEFINE old == job[p].base.clients[e]
           new == job[p].ds.clients[e]
<1>0. job[p] \in Job /\ job[p].phase = "apply" /\ UNCHANGED <<desired, store, rules>>
  BY DEF TypeOK, RemoveUser, PreRemoveUser, AddUser, AddingUsers
<1>1. CASE RemoveUser(p, e)
  <2>1. old # None /\ old # new
    BY <1>1, <1>0 DEF RemoveUser, Planned, Removes
  <2>2. old.proto \in Protos
    BY <2>1, <1>0, ClientSlots
  <2>3. CASE SetUser(old.proto, e, None) /\ (Lost(p) \/ Proceed(p, [job[p] EXCEPT !.rmUsers = @ \ {e}]))
    <3>1. Slotted(users, rules)' = [Slotted(users, rules) EXCEPT ![<<"user", old.proto, e>>] = None]
      BY <1>0, <2>2, <2>3, SetUserSlot
    <3>2. \/ Abort(p)
          \/ \E j : Proceed(p, j) /\ j.phase = "apply" /\ j.ds = job[p].ds /\ j.base = job[p].base
      BY <1>0, <2>3 DEF Lost, Job
    <3> QED BY <1>0, <2>1, <3>1, <3>2, ClientSlots, CallTouches
  <2>4. CASE UNCHANGED users /\ Abort(p)
    BY <1>0, <2>4, CallGivesUp
  <2> QED BY <1>1, <2>3, <2>4 DEF RemoveUser, Lost, Refused
<1>2. CASE PreRemoveUser(p, e)
  <2>1. new # None /\ old # new
    BY <1>2, <1>0 DEF PreRemoveUser, AddingUsers, Planned, Adds
  <2>2. new.proto \in Protos
    BY <2>1, <1>0, ClientSlots
  <2>a. Proceed(p, [job[p] EXCEPT !.pre = e]) =>
          \E j : Proceed(p, j) /\ j.phase = "apply" /\ j.ds = job[p].ds /\ j.base = job[p].base
    BY <1>0 DEF Job
  <2>3. CASE SetUser(new.proto, e, None) /\ Proceed(p, [job[p] EXCEPT !.pre = e])
    <3>1. Slotted(users, rules)' = [Slotted(users, rules) EXCEPT ![<<"user", new.proto, e>>] = None]
      BY <1>0, <2>2, <2>3, SetUserSlot
    <3> QED BY <1>0, <2>1, <2>a, <2>3, <3>1, ClientSlots, CallTouches
  <2>4. CASE UNCHANGED users /\ Abort(p)
    BY <1>0, <2>4, CallGivesUp
  <2>5. CASE UNCHANGED users /\ Proceed(p, [job[p] EXCEPT !.pre = e])
    <3>1. Syncing' /\ syncMu' = p /\ job'[p].ds = job[p].ds /\ job'[p].base = job[p].base
      BY <1>0, <2>a, <2>5, Goes
    <3>2. Syncing /\ syncMu = p /\ exact' = exact
      BY <1>0, <2>5, SyncOf DEF Proceed
    <3> QED BY <1>0, <2>5, <3>1, <3>2 DEF Promise!vars
  <2> QED BY <1>2, <2>3, <2>4, <2>5 DEF PreRemoveUser, Refused
<1>3. CASE AddUser(p, e)
  <2>1. new # None /\ old # new
    BY <1>3, <1>0 DEF AddUser, AddingUsers, Planned, Adds
  <2>2. new.proto \in Protos
    BY <2>1, <1>0, ClientSlots
  <2>a. Proceed(p, [job[p] EXCEPT !.pre = None, !.addUsers = @ \ {e}]) =>
          \E j : Proceed(p, j) /\ j.phase = "apply" /\ j.ds = job[p].ds /\ j.base = job[p].base
    <3>1. \A j : j = [job[p] EXCEPT !.pre = None, !.addUsers = @ \ {e}] =>
                   j.phase = "apply" /\ j.ds = job[p].ds /\ j.base = job[p].base
      BY <1>0 DEF Job
    <3> QED BY <3>1
  <2>3. CASE /\ SetUser(new.proto, e, new.secret)
             /\ Lost(p) \/ Proceed(p, [job[p] EXCEPT !.pre = None, !.addUsers = @ \ {e}])
    <3>1. Slotted(users, rules)' =
            [Slotted(users, rules) EXCEPT ![<<"user", new.proto, e>>] = new.secret]
      BY <1>0, <2>2, <2>3, SetUserSlot
    <3>2. \/ Abort(p)
          \/ \E j : Proceed(p, j) /\ j.phase = "apply" /\ j.ds = job[p].ds /\ j.base = job[p].base
      BY <2>a, <2>3 DEF Lost
    <3>3. /\ <<"user", new.proto, e>> \in Slots
          /\ SlotsOf(job[p].base)[<<"user", new.proto, e>>] # SlotsOf(job[p].ds)[<<"user", new.proto, e>>]
          /\ new.secret \in {None, SlotsOf(job[p].ds)[<<"user", new.proto, e>>]}
      BY <1>0, <2>1, ClientSlots
    <3>4. \E v \in {None, SlotsOf(job[p].ds)[<<"user", new.proto, e>>]} :
             Slotted(users, rules)' = [Slotted(users, rules) EXCEPT ![<<"user", new.proto, e>>] = v]
      BY <3>1, <3>3
    <3> QED BY <1>0, <3>2, <3>3, <3>4, CallTouches
  <2>4. CASE UNCHANGED users /\ Abort(p)
    BY <1>0, <2>4, CallGivesUp
  <2> QED BY <1>3, <2>3, <2>4 DEF AddUser, Refused, Lost
<1> QED BY <1>1, <1>2, <1>3

\* removeRoute and the two halves of addRoute.
LEMMA RouteSteps ==
  ASSUME TypeOK, Locked, Planned, NEW p \in Procs, NEW t \in Tags,
         RemoveRoute(p, t) \/ PreRemoveRoute(p, t) \/ AddRoute(p, t)
  PROVE  Promise!Next
<1> USE DEF RemovingRoutes, AddingRoutes, AddingUsers
<1>0. job[p] \in Job /\ job[p].phase = "apply" /\ UNCHANGED <<desired, store, users>>
  BY DEF TypeOK, RemoveRoute, PreRemoveRoute, AddRoute
<1>1. job[p].base.routes[t] # job[p].ds.routes[t]
  BY <1>0 DEF RemoveRoute, PreRemoveRoute, AddRoute, Planned, Removes, Adds
<1>2. \A j \in {[job[p] EXCEPT !.rmRoutes = @ \ {t}], [job[p] EXCEPT !.pre = t],
                [job[p] EXCEPT !.pre = None, !.addRoutes = @ \ {t}]} :
         j.phase = "apply" /\ j.ds = job[p].ds /\ j.base = job[p].base
  BY <1>0 DEF Job
<1>3. \/ UNCHANGED rules /\ Abort(p)
      \/ /\ \E r \in {None, job[p].ds.routes[t]} : SetRule(t, r)
         /\ \/ Abort(p)
            \/ \E j : Proceed(p, j) /\ j.phase = "apply" /\ j.ds = job[p].ds /\ j.base = job[p].base
  <2>1. CASE RemoveRoute(p, t)
    BY <1>2, <2>1 DEF RemoveRoute, Refused, Lost
  <2>2. CASE PreRemoveRoute(p, t)
    BY <1>2, <2>2 DEF PreRemoveRoute, Refused, Lost
  <2>3. CASE AddRoute(p, t)
    BY <1>2, <2>3 DEF AddRoute, Refused, Lost
  <2> QED BY <2>1, <2>2, <2>3
<1>4. CASE UNCHANGED rules /\ Abort(p)
  BY <1>0, <1>4, CallGivesUp
<1>5. ASSUME NEW r \in {None, job[p].ds.routes[t]}, SetRule(t, r),
             \/ Abort(p)
             \/ \E j : Proceed(p, j) /\ j.phase = "apply" /\ j.ds = job[p].ds /\ j.base = job[p].base
      PROVE  Promise!Next
  <2>1. Slotted(users, rules)' = [Slotted(users, rules) EXCEPT ![<<"rule", t>>] = r]
    BY <1>0, <1>5, SetRuleSlot
  <2>2. /\ <<"rule", t>> \in Slots
        /\ SlotsOf(job[p].base)[<<"rule", t>>] # SlotsOf(job[p].ds)[<<"rule", t>>]
        /\ r \in {None, SlotsOf(job[p].ds)[<<"rule", t>>]}
    BY <1>0, <1>1, RouteSlots
  <2>3. \E v \in {None, SlotsOf(job[p].ds)[<<"rule", t>>]} :
           Slotted(users, rules)' = [Slotted(users, rules) EXCEPT ![<<"rule", t>>] = v]
    BY <2>1, <2>2
  <2> QED BY <1>0, <1>5, <2>2, <2>3, CallTouches
<1> QED BY <1>3, <1>4, <1>5

\* GetState finds a difference: a sync begins.
LEMMA FetchBegins ==
  ASSUME TypeOK, Locked, NEW p \in Procs, GetStateChanged(p)
  PROVE  Promise!Begin
<1> DEFINE from == IF AssumeEmptyRuntime(p) THEN EmptyStore ELSE store
<1>1. job[p].phase = "fetch" /\ syncMu = p /\ syncMu' = p
      /\ UNCHANGED <<desired, store, users, rules>>
  BY DEF GetStateChanged, Locked
<1>2. ~Syncing
  BY <1>1, NoSync
<1>3. job'[p] = ApplyJob(desired, from) /\ exact' = RuntimeIs(from)
  BY DEF GetStateChanged, TypeOK
<1>4. Syncing' /\ job'[p].ds = desired /\ job'[p].base = from
  BY <1>1, <1>3 DEF Syncing, ApplyJob
<1>5. from \in State /\ SlotsOf(from) \in {SlotsOf(store), Promise!Nothing}
  BY EmptyStoreType, EmptySlots DEF TypeOK
<1>6. exact' = (Slotted(users, rules) = SlotsOf(from))
  <2>1. RuntimeIs(from) <=> Slotted(users, rules) = SlotsOf(from)
    BY <1>5, RuntimeSlots
  <2>2. RuntimeIs(from) \in BOOLEAN
    BY Zenon DEF RuntimeIs
  <2> QED BY <1>3, <2>1, <2>2
<1>7. /\ (IF Syncing' THEN [rev |-> job'[syncMu'].ds.rev, slots |-> SlotsOf(job'[syncMu'].ds)]
                      ELSE None) = [rev |-> desired.rev, slots |-> SlotsOf(desired)]
      /\ (IF Syncing' THEN SlotsOf(job'[syncMu'].base) ELSE None) = SlotsOf(from)
  BY <1>1, <1>4
<1> QED BY <1>1, <1>2, <1>5, <1>6, <1>7 DEF Promise!Begin

\* Store.Update records the fetched state; an undisturbed runtime holds it.
LEMMA CommitRecords ==
  ASSUME TypeOK, Locked, Tracked, NEW p \in Procs, Commit(p)
  PROVE  Promise!Record
<1>1. /\ job[p].phase = "apply" /\ store' = job[p].ds /\ ~Syncing'
      /\ UNCHANGED <<desired, users, rules, exact>>
  BY Stops DEF Commit, Return
<1>2. /\ Syncing /\ syncMu = p /\ job[p].ds \in State
      /\ [rev |-> job[p].ds.rev, slots |-> SlotsOf(job[p].ds)] # None
  BY <1>1, SyncOf
<1>3. exact => Slotted(users, rules) = SlotsOf(job[p].ds)
  <2>1. exact => RuntimeIs(job[p].ds)
    BY <1>1, FullyApplied DEF Tracked, Commit, TypeOK
  <2> QED BY <1>2, <2>1, RuntimeSlots
<1> QED BY <1>1, <1>2, <1>3 DEF Promise!Record, Promise!Stop

\* A restart of Xray empties every slot and leaves the sync under way alone.
LEMMA ResetResets ==
  ASSUME RuntimeReset, exact' = FALSE, UNCHANGED <<desired, store, syncMu, job>>
  PROVE  Promise!Reset
<1>1. Slotted(users', rules') = Promise!Nothing
  BY EmptySlots DEF RuntimeReset
<1>2. Syncing' <=> Syncing
  BY DEF Syncing
<1> QED BY <1>1, <1>2 DEF Promise!Reset

LEMMA NextImplements ==
  TypeOK /\ Locked /\ Planned /\ Tracked /\ [Next]_vars
    => [Promise!Next]_(Promise!vars)
<1> SUFFICES ASSUME TypeOK, Locked, Planned, Tracked, [Next]_vars
             PROVE  Promise!Next \/ UNCHANGED Promise!vars
  OBVIOUS
<1>1. CASE PanelEdit
  <2>1. desired' \in State /\ desired'.rev = desired.rev + 1
    BY <1>1 DEF PanelEdit, Publish, TypeOK, State
  <2>2. SlotsOf(desired') \in Promise!Contents
    BY <2>1, StateSlots
  <2>3. Promise!Publish
    BY <1>1, <2>1, <2>2 DEF PanelEdit, Promise!Publish, Syncing
  <2> QED BY <2>3 DEF Promise!Next
<1>2. ASSUME NEW p \in Procs, Lock(p) PROVE UNCHANGED Promise!vars
  <2>1. ~Syncing
    BY <1>2 DEF Lock, Syncing
  <2>2. job'[p].phase = "fetch" /\ syncMu' = p
    BY <1>2 DEF Lock, TypeOK, FetchJob, IdleJob
  <2>3. ~Syncing'
    BY <2>2 DEF Syncing
  <2> QED BY <1>2, <2>1, <2>3 DEF Lock, Promise!vars
<1>3. ASSUME NEW p \in Procs, GetStateUnchanged(p) \/ GetStateFails(p)
      PROVE  UNCHANGED Promise!vars
  <2>1. ~Syncing
    BY <1>3, NoSync DEF GetStateUnchanged, GetStateFails, Locked
  <2>2. ~Syncing'
    BY <1>3, Stops DEF GetStateUnchanged, GetStateFails, Return
  <2> QED BY <1>3, <2>1, <2>2 DEF GetStateUnchanged, GetStateFails, Promise!vars
<1>4. ASSUME NEW p \in Procs, GetStateChanged(p) PROVE Promise!Next
  BY <1>4, FetchBegins DEF Promise!Next
<1>5. ASSUME NEW p \in Procs, Apply(p) PROVE Promise!Next \/ UNCHANGED Promise!vars
  <2>1. CASE Commit(p)
    BY <2>1, CommitRecords DEF Promise!Next
  <2> QED BY <1>5, <2>1, UserSteps, RouteSteps DEF Apply
<1>6. CASE FetchCommand \/ Ack \/ UNCHANGED vars
  BY <1>6 DEF FetchCommand, Ack, vars, Syncing, Promise!vars
<1>7. CASE RestartCore \/ XrayCrash
  <2>1. Promise!Reset
    BY <1>7, ResetResets DEF RestartCore, XrayCrash
  <2> QED BY <2>1 DEF Promise!Next
<1>8. CASE RestartCoreFails
  <2>1. CASE RuntimeReset /\ exact' = FALSE
    <3>1. Promise!Reset
      BY <1>8, <2>1, ResetResets DEF RestartCoreFails
    <3> QED BY <3>1 DEF Promise!Next
  <2>2. CASE UNCHANGED <<users, rules, epoch, exact>>
    BY <1>8, <2>2 DEF RestartCoreFails, Syncing, Promise!vars
  <2> QED BY <1>8, <2>1, <2>2 DEF RestartCoreFails
<1>9. CASE AgentRestart
  <2>1. ~Syncing' /\ store' = EmptyStore /\ EmptyStore.rev = 0
    BY <1>9, Stops DEF AgentRestart, EmptyStore
  <2>2. [rev |-> store'.rev, slots |-> SlotsOf(store')] = Promise!Blank
    BY <2>1, EmptySlots DEF Promise!Blank
  <2>3. \/ Slotted(users', rules') = Promise!Nothing /\ exact' = TRUE
        \/ Slotted(users', rules') = Slotted(users, rules) /\ exact' = FALSE
    BY <1>9, EmptySlots DEF AgentRestart, RuntimeReset
  <2>4. Promise!Restart
    BY <1>9, <2>1, <2>2, <2>3 DEF AgentRestart, Promise!Restart, Promise!Stop
  <2> QED BY <2>4 DEF Promise!Next
<1> QED BY <1>1, <1>2, <1>3, <1>4, <1>5, <1>6, <1>7, <1>8, <1>9 DEF Next, Fetch, Command

LEMMA InitImplements == Init => Promise!Init
<1> SUFFICES ASSUME Init PROVE Promise!Init
  OBVIOUS
<1>1. ~Syncing
  BY DEF Init, Syncing
<1>2. /\ desired.rev = 1 /\ desired.clients = EmptyStore.clients
      /\ desired.routes = EmptyStore.routes
  BY DEF Init, EmptyStore
<1>3. SlotsOf(desired) = Promise!Nothing
  BY <1>2, EmptySlots DEF SlotsOf
<1>4. store = EmptyStore /\ EmptyStore.rev = 0 /\ Slotted(users, rules) = Promise!Nothing
  BY EmptySlots DEF Init, EmptyStore
<1> QED BY <1>1, <1>2, <1>3, <1>4, EmptySlots DEF Init, Promise!Init, Promise!Blank

\* KeepsPromise: the interleaving of the two goroutines' single calls with the
\* panel's edits, faults, crashes and restarts implements the serial reconciler
\* of SyncPromise (syncState under syncMu, agent.go:89-139).
THEOREM Implements == Spec => KeepsPromise
<1>1. IInv => TypeOK /\ Locked /\ Planned /\ Tracked
  BY DEF IInv
<1> QED BY <1>1, Inductive, InitImplements, NextImplements, PTL DEF Spec, KeepsPromise, Promise!Spec
=============================================================================
