------------------------- MODULE ReconcileLists_proofs -------------------------
(* Proofs about ReconcileLists, for every value of its constants.           *)
EXTENDS ReconcileLists, FiniteSetTheorems, SequenceTheorems, TLAPS

USE AnswersAssumption, FaultsAssumption

-----------------------------------------------------------------------------
(* Lists and maps.                                                          *)

\* Where the keys occur last no two are equal.
LEMMA LastIndexOnce ==
  ASSUME NEW keys, NEW places \in SUBSET Nat
  PROVE  /\ LastIndex(keys, places) \subseteq places
         /\ \A i, j \in LastIndex(keys, places) : keys[i] = keys[j] => i = j
  BY DEF LastIndex

\* Distinct entries at distinct places: there are as many of them as places.
LEMMA SameSize ==
  ASSUME NEW f, NEW I, IsFiniteSet(I), \A i, j \in I : f[i] = f[j] => i = j
  PROVE  /\ IsFiniteSet({f[i] : i \in I})
         /\ Cardinality({f[i] : i \in I}) = Cardinality(I)
<1> DEFINE T == {f[i] : i \in I}
           g == [i \in I |-> f[i]]
<1>1. g \in Injection(I, T) /\ g \in Surjection(I, T)
  BY DEF Injection, Surjection, IsInjective
<1>2. ExistsBijection(I, T)
  BY <1>1 DEF Bijection, ExistsBijection
<1> QED BY <1>2, FS_Bijection

LEMMA ClientList ==
  ASSUME NEW cs \in Seq(Clients), IsInjective(EmailsOf(cs))
  PROVE  /\ ClientMap(cs) = ToSet(cs) /\ ToSet(cs) \subseteq Clients
         /\ \A i, j \in DOMAIN cs : cs[i].email = cs[j].email => i = j
         /\ \A c, d \in ToSet(cs) : c.email = d.email => c = d
         /\ IsFiniteSet(ToSet(cs)) /\ Cardinality(ToSet(cs)) = Len(cs)
<1>0. Len(cs) \in Nat /\ DOMAIN cs = 1..Len(cs)
  OBVIOUS
<1>1. \A i, j \in DOMAIN cs : cs[i].email = cs[j].email => i = j
  BY DEF IsInjective, EmailsOf
<1>2. LastIndex(EmailsOf(cs), DOMAIN cs) = DOMAIN cs
  <2>1. \A i \in DOMAIN cs : EmailsOf(cs)[i] = cs[i].email
    BY DEF EmailsOf
  <2>2. \A i, j \in DOMAIN cs : i < j => EmailsOf(cs)[j] # EmailsOf(cs)[i]
    BY <1>0, <1>1, <2>1
  <2> QED BY <2>2 DEF LastIndex
<1>3. ClientMap(cs) = ToSet(cs)
  BY <1>2 DEF ClientMap, ToSet
<1>4. IsFiniteSet(DOMAIN cs) /\ Cardinality(DOMAIN cs) = Len(cs)
  <2>1. /\ IsFiniteSet(1..Len(cs))
        /\ Cardinality(1..Len(cs)) = IF 1 > Len(cs) THEN 0 ELSE Len(cs) - 1 + 1
    BY <1>0, FS_Interval
  <2> QED BY <1>0, <2>1
<1>5. \A i, j \in DOMAIN cs : cs[i] = cs[j] => i = j
  BY <1>1
<1>6. IsFiniteSet(ToSet(cs)) /\ Cardinality(ToSet(cs)) = Len(cs)
  BY <1>4, <1>5, SameSize DEF ToSet
<1>7. ToSet(cs) \subseteq Clients /\ \A c, d \in ToSet(cs) : c.email = d.email => c = d
  BY <1>1 DEF ToSet
<1> QED BY <1>1, <1>3, <1>6, <1>7

LEMMA RouteList ==
  ASSUME NEW rs \in Seq(Routes)
  PROVE  /\ RouteMap(rs) = Kept(rs) /\ Kept(rs) \subseteq Routes
         /\ NormalizeRouteRules(rs) \subseteq DOMAIN rs
         /\ NormalizeRouteRules(rs) = {k \in DOMAIN rs : LastLine(rs, k)}
         /\ \A i, j \in NormalizeRouteRules(rs) : rs[i].tag = rs[j].tag => i = j
         /\ \A r, q \in Kept(rs) : r.tag = q.tag => r = q
         /\ IsFiniteSet(NormalizeRouteRules(rs)) /\ IsFiniteSet(Kept(rs))
         /\ Cardinality(Kept(rs)) = Cardinality(NormalizeRouteRules(rs))
<1> DEFINE N == NormalizeRouteRules(rs)
<1>1. N \subseteq DOMAIN rs /\ \A i, j \in N : rs[i].tag = rs[j].tag => i = j
  BY DEF NormalizeRouteRules, LastIndex, TagsOf
<1>2. N = {k \in DOMAIN rs : LastLine(rs, k)}
  BY DEF NormalizeRouteRules, LastIndex, TagsOf, LastLine
<1>3. LastIndex(TagsOf(rs), N) = N
  BY <1>1 DEF LastIndex, TagsOf
<1>4. IsFiniteSet(N)
  <2>0. Len(rs) \in Nat /\ DOMAIN rs = 1..Len(rs)
    OBVIOUS
  <2>1. IsFiniteSet(DOMAIN rs)
    BY <2>0, FS_Interval
  <2> QED BY <1>1, <2>1, FS_Subset
<1> HIDE DEF N
<1>5. IsFiniteSet(Kept(rs)) /\ Cardinality(Kept(rs)) = Cardinality(N)
  <2>1. \A i, j \in N : rs[i] = rs[j] => i = j
    BY <1>1
  <2> QED BY <1>4, <2>1, SameSize DEF Kept, N
<1>6. RouteMap(rs) = Kept(rs)
  BY <1>3 DEF RouteMap, Kept, N
<1>7. Kept(rs) \subseteq Routes /\ \A r, q \in Kept(rs) : r.tag = q.tag => r = q
  BY <1>1 DEF Kept, N
<1> QED BY <1>1, <1>2, <1>4, <1>5, <1>6, <1>7 DEF N

\* Store.IsUnchanged decides whether the store has the lists.
LEMMA UnchangedIff ==
  ASSUME NEW d \in States, IsInjective(EmailsOf(d.clients)), IsStore(store)
  PROVE  IsUnchanged(d) <=> /\ d.version = store.version
                            /\ ToSet(d.clients) = store.clients
                            /\ Kept(d.routes) = store.routes
<1>1. d.clients \in Seq(Clients) /\ d.routes \in Seq(Routes)
  BY DEF States
<1>2. IsFiniteSet(store.clients) /\ IsFiniteSet(store.routes)
  BY DEF IsStore
<1>3. /\ Missing(store.clients, d.clients, DOMAIN d.clients) = {} <=> ToSet(d.clients) \subseteq store.clients
      /\ Missing(store.routes, d.routes, NormalizeRouteRules(d.routes)) = {}
            <=> Kept(d.routes) \subseteq store.routes
  BY DEF Missing, ToSet, Kept
<1>4. ToSet(d.clients) \subseteq store.clients =>
         (Len(d.clients) = Cardinality(store.clients) <=> ToSet(d.clients) = store.clients)
  BY <1>1, <1>2, ClientList, FS_Subset
<1>5. Kept(d.routes) \subseteq store.routes =>
         (Cardinality(NormalizeRouteRules(d.routes)) = Cardinality(store.routes)
            <=> Kept(d.routes) = store.routes)
  BY <1>1, <1>2, RouteList, FS_Subset
<1> QED BY <1>3, <1>4, <1>5 DEF IsUnchanged
-----------------------------------------------------------------------------
(* Xray's rules.                                                            *)

LEMMA TagsOnce ==
  ASSUME NEW rs
  PROVE  IsInjective(TagsOf(rs)) <=> \A i, j \in DOMAIN rs : rs[i].tag = rs[j].tag => i = j
  BY DEF IsInjective, TagsOf

LEMMA RemoveAtIs ==
  ASSUME NEW rs \in Seq(Routes), NEW k \in DOMAIN rs
  PROVE  /\ RemoveAt(rs, k) \in Seq(Routes)
         /\ DOMAIN RemoveAt(rs, k) = 1..Len(rs) - 1
         /\ \A i \in 1..Len(rs) - 1 : RemoveAt(rs, k)[i] = IF i < k THEN rs[i] ELSE rs[i + 1]
<1> DEFINE front == SubSeq(rs, 1, k - 1)
           back  == SubSeq(rs, k + 1, Len(rs))
<1>0. Len(rs) \in Nat /\ k \in 1..Len(rs)
  OBVIOUS
<1>1. front \in Seq(Routes) /\ Len(front) = k - 1
  BY <1>0
<1>2. back \in Seq(Routes) /\ Len(back) = Len(rs) - k
  BY <1>0
<1>3. \A i \in 1..k - 1 : front[i] = rs[i]
  BY <1>0
<1>4. \A i \in 1..Len(rs) - k : back[i] = rs[k + i]
  BY <1>0
<1>5. RemoveAt(rs, k) = front \o back
  BY DEF RemoveAt
<1> HIDE DEF front, back
<1>6. /\ front \o back \in Seq(Routes) /\ Len(front \o back) = Len(front) + Len(back)
      /\ \A i \in 1..Len(front) + Len(back) :
            (front \o back)[i] = IF i <= Len(front) THEN front[i] ELSE back[i - Len(front)]
  BY <1>1, <1>2, ConcatProperties
<1>7. RemoveAt(rs, k) \in Seq(Routes) /\ Len(RemoveAt(rs, k)) = Len(rs) - 1
  BY <1>0, <1>1, <1>2, <1>5, <1>6
<1>8. ASSUME NEW i \in 1..Len(rs) - 1
      PROVE  RemoveAt(rs, k)[i] = IF i < k THEN rs[i] ELSE rs[i + 1]
  <2>1. CASE i < k
    <3>1. i \in 1..k - 1 /\ i <= Len(front) /\ i \in 1..Len(front) + Len(back)
      BY <1>0, <1>1, <1>2, <1>8, <2>1
    <3> QED BY <1>3, <1>5, <1>6, <2>1, <3>1
  <2>2. CASE ~(i < k)
    <3>1. /\ i - Len(front) \in 1..Len(rs) - k /\ ~(i <= Len(front))
          /\ i \in 1..Len(front) + Len(back) /\ k + (i - Len(front)) = i + 1
      BY <1>0, <1>1, <1>2, <1>8, <2>2
    <3> QED BY <1>4, <1>5, <1>6, <2>2, <3>1
  <2> QED BY <2>1, <2>2
<1> QED BY <1>7, <1>8

LEMMA NoRuleIs ==
  ASSUME NEW rs \in Seq(Routes), IsInjective(TagsOf(rs)), NEW r
  PROVE  /\ NoRule(rs, r) \in Seq(Routes) /\ IsInjective(TagsOf(NoRule(rs, r)))
         /\ ToSet(NoRule(rs, r)) = {q \in ToSet(rs) : q.tag # r.tag}
         /\ (\A q \in ToSet(rs) : q.tag # r.tag) => NoRule(rs, r) = rs
<1> DEFINE found == {k \in DOMAIN rs : rs[k].tag = r.tag}
<1>0. \A i, j \in DOMAIN rs : rs[i].tag = rs[j].tag => i = j
  BY TagsOnce
<1>1. CASE found = {}
  <2>1. NoRule(rs, r) = rs
    BY <1>1 DEF NoRule
  <2>2. \A q \in ToSet(rs) : q.tag # r.tag
    BY <1>1 DEF ToSet
  <2> QED BY <2>1, <2>2
<1>2. CASE found # {}
  <2>1. PICK k \in found : NoRule(rs, r) = RemoveAt(rs, k)
    BY <1>2 DEF NoRule
  <2> DEFINE s == RemoveAt(rs, k)
             n == Len(rs)
  <2>2. /\ s \in Seq(Routes) /\ DOMAIN s = 1..n - 1
        /\ \A i \in 1..n - 1 : s[i] = IF i < k THEN rs[i] ELSE rs[i + 1]
    BY <2>1, RemoveAtIs
  <2>3. n \in Nat /\ DOMAIN rs = 1..n /\ k \in 1..n /\ rs[k].tag = r.tag
    BY <2>1
  <2>4. \A j \in 1..n : j # k => rs[j].tag # r.tag
    BY <1>0, <2>3
  <2> HIDE DEF s, n
  <2>5. IsInjective(TagsOf(s))
    <3> DEFINE from(i) == IF i < k THEN i ELSE i + 1
    <3>1. \A i \in DOMAIN s : from(i) \in DOMAIN rs /\ s[i] = rs[from(i)]
      BY <2>2, <2>3
    <3>2. \A i, j \in DOMAIN s : from(i) = from(j) => i = j
      BY <2>2, <2>3
    <3> HIDE DEF from
    <3>3. \A i, j \in DOMAIN s : s[i].tag = s[j].tag => i = j
      BY <1>0, <3>1, <3>2
    <3> QED BY <3>3, TagsOnce
  <2>6. ASSUME NEW q \in ToSet(s) PROVE q \in ToSet(rs) /\ q.tag # r.tag
    <3>1. PICK i \in 1..n - 1 : q = s[i]
      BY <2>2, <2>6 DEF ToSet
    <3>2. PICK j \in 1..n : j # k /\ q = rs[j]
      BY <2>2, <2>3, <3>1
    <3> QED BY <2>3, <2>4, <3>2 DEF ToSet
  <2>7. ASSUME NEW q \in ToSet(rs), q.tag # r.tag PROVE q \in ToSet(s)
    <3>1. PICK j \in 1..n : q = rs[j]
      BY <2>3, <2>7 DEF ToSet
    <3>2. CASE j < k
      <4>1. j \in 1..n - 1 /\ s[j] = q
        BY <2>2, <2>3, <3>1, <3>2
      <4> QED BY <2>2, <4>1 DEF ToSet
    <3>3. CASE j > k
      <4>1. j - 1 \in 1..n - 1 /\ ~(j - 1 < k) /\ (j - 1) + 1 = j
        BY <2>3, <3>1, <3>3
      <4>2. s[j - 1] = q
        BY <2>2, <3>1, <4>1
      <4> QED BY <2>2, <4>1, <4>2 DEF ToSet
    <3> QED BY <2>3, <2>7, <3>1, <3>2, <3>3
  <2>8. rs[k] \in ToSet(rs)
    BY <2>3 DEF ToSet
  <2> QED BY <2>1, <2>2, <2>3, <2>5, <2>6, <2>7, <2>8 DEF s
<1> QED BY <1>1, <1>2

LEMMA AppendIs ==
  ASSUME NEW rs \in Seq(Routes), IsInjective(TagsOf(rs)), NEW r \in Routes,
         \A q \in ToSet(rs) : q.tag # r.tag
  PROVE  /\ Append(rs, r) \in Seq(Routes) /\ IsInjective(TagsOf(Append(rs, r)))
         /\ ToSet(Append(rs, r)) = ToSet(rs) \cup {r}
<1> DEFINE s == Append(rs, r)
           n == Len(rs)
<1>1. /\ s \in Seq(Routes) /\ DOMAIN s = 1..n + 1 /\ n \in Nat /\ DOMAIN rs = 1..n
      /\ s[n + 1] = r /\ \A i \in 1..n : s[i] = rs[i]
  OBVIOUS
<1> HIDE DEF s, n
<1>2. \A i \in 1..n : rs[i].tag # r.tag
  BY <1>1 DEF ToSet
<1>3. \A i, j \in DOMAIN s : s[i].tag = s[j].tag => i = j
  <2>1. \A i, j \in 1..n : rs[i].tag = rs[j].tag => i = j
    BY <1>1, TagsOnce
  <2>2. \A i \in DOMAIN s : i \in 1..n \/ i = n + 1
    BY <1>1
  <2> QED BY <1>1, <1>2, <2>1, <2>2
<1>4. IsInjective(TagsOf(s))
  BY <1>3, TagsOnce
<1>5. ToSet(s) = ToSet(rs) \cup {r}
  <2>1. \A i \in DOMAIN s : i \in 1..n \/ i = n + 1
    BY <1>1
  <2>2. \A i \in 1..n : i \in DOMAIN s
    BY <1>1
  <2>3. n + 1 \in DOMAIN s
    BY <1>1
  <2> QED BY <1>1, <2>1, <2>2, <2>3 DEF ToSet
<1> QED BY <1>1, <1>4, <1>5 DEF s
-----------------------------------------------------------------------------
(* Types.                                                                   *)

LEMMA ClientMapType ==
  ASSUME NEW cs \in Seq(Clients)
  PROVE  /\ ClientMap(cs) \subseteq Clients /\ IsFiniteSet(ClientMap(cs))
         /\ \A c, d \in ClientMap(cs) : c.email = d.email => c = d
<1> DEFINE I == LastIndex(EmailsOf(cs), DOMAIN cs)
<1>0. Len(cs) \in Nat /\ DOMAIN cs = 1..Len(cs)
  OBVIOUS
<1>1. I \subseteq DOMAIN cs /\ \A i, j \in I : EmailsOf(cs)[i] = EmailsOf(cs)[j] => i = j
  BY <1>0, LastIndexOnce
<1>2. \A i, j \in I : cs[i].email = cs[j].email => i = j
  BY <1>1 DEF EmailsOf
<1>3. IsFiniteSet(I)
  <2>1. IsFiniteSet(1..Len(cs))
    BY <1>0, FS_Interval
  <2> QED BY <1>0, <1>1, <2>1, FS_Subset
<1> HIDE DEF I
<1>4. \A i, j \in I : cs[i] = cs[j] => i = j
  BY <1>2
<1>5. IsFiniteSet({cs[i] : i \in I})
  BY <1>3, <1>4, SameSize
<1> QED BY <1>1, <1>2, <1>5 DEF ClientMap, I

\* The parts of the state that the proofs speak about.
LEMMA Parts ==
  TypeOK => /\ ds.clients \in Seq(Clients) /\ ds.routes \in Seq(Routes) /\ ds.version \in Nat
            /\ DOMAIN ds.clients \subseteq Nat /\ DOMAIN ds.routes \subseteq Nat
            /\ sync.rmUsers \subseteq Clients /\ sync.rmRoutes \subseteq Routes
            /\ rules \in Seq(Routes) /\ IsInjective(TagsOf(rules)) /\ users \subseteq Clients
            /\ IsStore(store) /\ IsStore(sync.base) /\ before \in Seq(Routes)
  BY DEF TypeOK, States

LEMMA IdleType ==
  /\ IsStore(EmptyStore)
  /\ Idle \in [phase : {"idle", "apply"}, base : Stores, rmUsers : SUBSET Clients,
               addUsers : SUBSET Nat, rmRoutes : SUBSET Routes, addRoutes : SUBSET Nat]
<1>1. IsStore(EmptyStore)
  BY FS_EmptySet DEF IsStore, EmptyStore, Stores
<1> QED BY <1>1 DEF Idle, IsStore

LEMMA InitType == Init => TypeOK
<1> SUFFICES ASSUME Init PROVE TypeOK
  OBVIOUS
<1>1. ds \in States /\ DOMAIN ds.clients = {} /\ DOMAIN ds.routes = {}
  BY DEF Init, States
<1>2. rules \in Seq(Routes) /\ IsInjective(TagsOf(rules))
  BY DEF Init, IsInjective, TagsOf
<1>3. sync.base = EmptyStore /\ sync.addUsers = {} /\ sync.addRoutes = {}
  BY DEF Init, Idle
<1> QED BY <1>1, <1>2, <1>3, IdleType DEF Init, TypeOK

\* What the diff of a sync finds.
LEMMA DiffIs ==
  ASSUME NEW d \in States, NEW base, IsStore(base)
  PROVE  /\ Diff(base, d) \in [phase : {"idle", "apply"}, base : Stores, rmUsers : SUBSET Clients,
                               addUsers : SUBSET Nat, rmRoutes : SUBSET Routes, addRoutes : SUBSET Nat]
         /\ Diff(base, d).phase = "apply" /\ Diff(base, d).base = base
         /\ Diff(base, d).rmUsers  = base.clients \ ClientMap(d.clients)
         /\ Diff(base, d).rmRoutes = base.routes \ Kept(d.routes)
         /\ Diff(base, d).addUsers  = Missing(base.clients, d.clients, DOMAIN d.clients)
         /\ Diff(base, d).addRoutes = Missing(base.routes, d.routes, NormalizeRouteRules(d.routes))
         /\ Diff(base, d).addUsers \subseteq DOMAIN d.clients
         /\ Diff(base, d).addRoutes \subseteq DOMAIN d.routes
<1>1. d.clients \in Seq(Clients) /\ d.routes \in Seq(Routes)
  BY DEF States
<1>2. DOMAIN d.clients \subseteq Nat /\ DOMAIN d.routes \subseteq Nat
  BY <1>1
<1>3. RouteMap(d.routes) = Kept(d.routes) /\ NormalizeRouteRules(d.routes) \subseteq DOMAIN d.routes
  BY <1>1, RouteList
<1>4. /\ Missing(base.clients, d.clients, DOMAIN d.clients) \subseteq DOMAIN d.clients
      /\ Missing(base.routes, d.routes, NormalizeRouteRules(d.routes)) \subseteq DOMAIN d.routes
  BY <1>3 DEF Missing
<1>5. base \in Stores /\ base.clients \subseteq Clients /\ base.routes \subseteq Routes
  BY DEF IsStore, Stores
<1> QED BY <1>2, <1>3, <1>4, <1>5 DEF Diff

LEMMA BeginType ==
  ASSUME TypeOK, ds' \in States, NEW base, IsStore(base), Begin(base), forced' \in BOOLEAN
  PROVE  TypeOK'
<1>1. sync' = Diff(base, ds')
  BY DEF Begin
<1>2. exact' \in BOOLEAN
  BY Zenon DEF Begin
<1>3. /\ sync' \in [phase : {"idle", "apply"}, base : Stores, rmUsers : SUBSET Clients,
                    addUsers : SUBSET Nat, rmRoutes : SUBSET Routes, addRoutes : SUBSET Nat]
      /\ sync'.phase = "apply" /\ sync'.base = base
      /\ sync'.addUsers \subseteq DOMAIN ds'.clients
      /\ sync'.addRoutes \subseteq DOMAIN ds'.routes
  BY <1>1, DiffIs
<1>4. before' \in Seq(Routes) /\ steady' \in BOOLEAN
  BY Parts DEF Begin
<1> QED BY <1>2, <1>3, <1>4 DEF TypeOK, Begin, IsStore, IsInjective

LEMMA ContinueType ==
  ASSUME TypeOK, NEW rest, Continue(rest), UNCHANGED <<feed, ds, store, forced>>,
         users' \subseteq Clients, rules' \in Seq(Routes), IsInjective(TagsOf(rules')),
         rest \in [phase : {"idle", "apply"}, base : Stores, rmUsers : SUBSET Clients,
                   addUsers : SUBSET Nat, rmRoutes : SUBSET Routes, addRoutes : SUBSET Nat],
         rest.phase = "apply", rest.base = sync.base, rest.addUsers \subseteq sync.addUsers,
         rest.addRoutes \subseteq sync.addRoutes
  PROVE  TypeOK'
<1>1. CASE sync' = rest /\ UNCHANGED <<exact, settled, before, steady, faults>>
  BY <1>1 DEF TypeOK, IsStore, IsInjective, TagsOf
<1>2. CASE Abort /\ Fault
  <2>1. sync'.base = EmptyStore /\ sync'.addUsers = {} /\ sync'.addRoutes = {} /\ sync' = Idle
    BY <1>2 DEF Abort, Idle
  <2>2. exact' = FALSE /\ settled' = FALSE /\ steady' = TRUE /\ before' = <<>>
    BY <1>2 DEF Abort
  <2>3. faults' \in Nat
    BY <1>2 DEF Fault, TypeOK
  <2>4. <<>> \in Seq(Routes)
    OBVIOUS
  <2> QED BY <2>1, <2>2, <2>3, <2>4, IdleType DEF TypeOK, IsStore, IsInjective, TagsOf
<1> QED BY <1>1, <1>2 DEF Continue

LEMMA NoUserType ==
  ASSUME NEW us \in SUBSET Clients, NEW c
  PROVE  NoUser(us, c) \subseteq Clients
  BY DEF NoUser

\* What RemoveRoute and AddRoute leave in Xray.
LEMMA RulesType ==
  ASSUME TypeOK, NEW r
  PROVE  /\ NoRule(rules, r) \in Seq(Routes) /\ IsInjective(TagsOf(NoRule(rules, r)))
         /\ ToSet(NoRule(rules, r)) = {q \in ToSet(rules) : q.tag # r.tag}
         /\ r \in Routes => /\ Append(NoRule(rules, r), r) \in Seq(Routes)
                            /\ IsInjective(TagsOf(Append(NoRule(rules, r), r)))
                            /\ ToSet(Append(NoRule(rules, r), r)) = ToSet(NoRule(rules, r)) \cup {r}
<1>1. rules \in Seq(Routes) /\ IsInjective(TagsOf(rules))
  BY Parts
<1>2. /\ NoRule(rules, r) \in Seq(Routes) /\ IsInjective(TagsOf(NoRule(rules, r)))
      /\ ToSet(NoRule(rules, r)) = {q \in ToSet(rules) : q.tag # r.tag}
  BY <1>1, NoRuleIs
<1>3. \A q \in ToSet(NoRule(rules, r)) : q.tag # r.tag
  BY <1>2
<1> QED BY <1>2, <1>3, AppendIs

LEMMA NextType == TypeOK /\ [Next]_vars => TypeOK'
<1> SUFFICES ASSUME TypeOK, [Next]_vars PROVE TypeOK'
  OBVIOUS
<1>0. /\ sync \in [phase : {"idle", "apply"}, base : Stores, rmUsers : SUBSET Clients,
                   addUsers : SUBSET Nat, rmRoutes : SUBSET Routes, addRoutes : SUBSET Nat]
      /\ feed \in Feeds /\ users \in SUBSET Clients
      /\ rules \in Seq(Routes) /\ IsInjective(TagsOf(rules))
  BY DEF TypeOK
<1>1. CASE GetStateUnchanged
  <2>1. ds' \in States
    BY <1>0, <1>1 DEF GetStateUnchanged
  <2>2. sync = Idle /\ sync.addUsers = {} /\ sync.addRoutes = {}
    BY <1>1 DEF GetStateUnchanged, TypeOK, Idle
  <2>3. UNCHANGED <<feed, store, users, rules, sync, forced, exact, before, steady, faults>> /\ settled' = TRUE
    BY <1>1 DEF GetStateUnchanged
  <2> QED BY <2>1, <2>2, <2>3 DEF TypeOK, IsStore, IsInjective, TagsOf
<1>2. CASE GetStateChanged
  <2>1. ds' \in States /\ forced' \in BOOLEAN /\ IsStore(store)
    BY <1>0, <1>2 DEF GetStateChanged, TypeOK
  <2> QED BY <1>2, <2>1, BeginType DEF GetStateChanged
<1>3. CASE GetStateForced
  <2>1. ds' \in States /\ forced' \in BOOLEAN
    BY <1>0, <1>3 DEF GetStateForced
  <2> QED BY <1>3, <2>1, BeginType, IdleType DEF GetStateForced
<1>4. CASE RemoveUser
  <2>1. PICK c \in sync.rmUsers : users' = NoUser(users, c) /\ Continue([sync EXCEPT !.rmUsers = @ \ {c}])
    BY <1>4 DEF RemoveUser
  <2>2. UNCHANGED <<feed, ds, store, rules, forced>> /\ sync.phase = "apply"
    BY <1>4 DEF RemoveUser
  <2>3. users' \subseteq Clients
    BY <1>0, <2>1, NoUserType
  <2> DEFINE rest == [sync EXCEPT !.rmUsers = @ \ {c}]
  <2>4. /\ rest \in [phase : {"idle", "apply"}, base : Stores, rmUsers : SUBSET Clients,
                     addUsers : SUBSET Nat, rmRoutes : SUBSET Routes, addRoutes : SUBSET Nat]
        /\ rest.phase = "apply" /\ rest.base = sync.base /\ rest.addUsers = sync.addUsers
        /\ rest.addRoutes = sync.addRoutes
    BY <1>0, <2>2
  <2> HIDE DEF rest
  <2>5. Continue(rest) /\ rules' \in Seq(Routes) /\ IsInjective(TagsOf(rules'))
    BY <1>0, <2>1, <2>2 DEF rest
  <2> QED BY <2>2, <2>3, <2>4, <2>5, ContinueType
<1>5. CASE AddUser
  <2>1. PICK i \in DOMAIN ds.clients :
           /\ users' = NoUser(users, ds.clients[i]) \cup {ds.clients[i]}
           /\ Continue([sync EXCEPT !.addUsers = @ \ {i}])
    BY <1>5 DEF AddUser
  <2>2. UNCHANGED <<feed, ds, store, rules, forced>> /\ sync.phase = "apply"
    BY <1>5 DEF AddUser
  <2>3. users' \subseteq Clients
    <3>1. ds.clients[i] \in Clients
      BY <2>1, Parts
    <3> QED BY <1>0, <2>1, <3>1, NoUserType
  <2> DEFINE rest == [sync EXCEPT !.addUsers = @ \ {i}]
  <2>4. /\ rest \in [phase : {"idle", "apply"}, base : Stores, rmUsers : SUBSET Clients,
                     addUsers : SUBSET Nat, rmRoutes : SUBSET Routes, addRoutes : SUBSET Nat]
        /\ rest.phase = "apply" /\ rest.base = sync.base /\ rest.addUsers \subseteq sync.addUsers
        /\ rest.addRoutes = sync.addRoutes
    BY <1>0, <2>2
  <2> HIDE DEF rest
  <2>5. Continue(rest) /\ rules' \in Seq(Routes) /\ IsInjective(TagsOf(rules'))
    BY <1>0, <2>1, <2>2 DEF rest
  <2> QED BY <2>2, <2>3, <2>4, <2>5, ContinueType
<1>6. CASE RemoveRoute
  <2>1. PICK r \in sync.rmRoutes : rules' = NoRule(rules, r) /\ Continue([sync EXCEPT !.rmRoutes = @ \ {r}])
    BY <1>6 DEF RemoveRoute
  <2>2. UNCHANGED <<feed, ds, store, users, forced>> /\ sync.phase = "apply"
    BY <1>6 DEF RemoveRoute, UsersDone
  <2>3. rules' \in Seq(Routes) /\ IsInjective(TagsOf(rules'))
    BY <2>1, RulesType
  <2> DEFINE rest == [sync EXCEPT !.rmRoutes = @ \ {r}]
  <2>4. /\ rest \in [phase : {"idle", "apply"}, base : Stores, rmUsers : SUBSET Clients,
                     addUsers : SUBSET Nat, rmRoutes : SUBSET Routes, addRoutes : SUBSET Nat]
        /\ rest.phase = "apply" /\ rest.base = sync.base /\ rest.addUsers = sync.addUsers
        /\ rest.addRoutes = sync.addRoutes
    BY <1>0, <2>2
  <2> HIDE DEF rest
  <2>5. Continue(rest) /\ users' \subseteq Clients
    BY <1>0, <2>1, <2>2 DEF rest
  <2> QED BY <2>2, <2>3, <2>4, <2>5, ContinueType
<1>7. CASE AddRoute
  <2>1. PICK i \in DOMAIN ds.routes :
           /\ rules' = Append(NoRule(rules, ds.routes[i]), ds.routes[i])
           /\ Continue([sync EXCEPT !.addRoutes = @ \ {i}])
    BY <1>7 DEF AddRoute
  <2>2. UNCHANGED <<feed, ds, store, users, forced>> /\ sync.phase = "apply"
    BY <1>7 DEF AddRoute, UsersDone
  <2>3. rules' \in Seq(Routes) /\ IsInjective(TagsOf(rules'))
    <3>1. ds.routes[i] \in Routes
      BY <2>1, Parts
    <3> QED BY <2>1, <3>1, RulesType
  <2> DEFINE rest == [sync EXCEPT !.addRoutes = @ \ {i}]
  <2>4. /\ rest \in [phase : {"idle", "apply"}, base : Stores, rmUsers : SUBSET Clients,
                     addUsers : SUBSET Nat, rmRoutes : SUBSET Routes, addRoutes : SUBSET Nat]
        /\ rest.phase = "apply" /\ rest.base = sync.base /\ rest.addUsers = sync.addUsers
        /\ rest.addRoutes \subseteq sync.addRoutes
    BY <1>0, <2>2
  <2> HIDE DEF rest
  <2>5. Continue(rest) /\ users' \subseteq Clients
    BY <1>0, <2>1, <2>2 DEF rest
  <2> QED BY <2>2, <2>3, <2>4, <2>5, ContinueType
<1>8. CASE CallFails
  <2>1. /\ UNCHANGED <<feed, ds, store, users, rules, forced>> /\ sync' = Idle
        /\ exact' = FALSE /\ settled' = FALSE /\ before' \in Seq(Routes) /\ steady' = TRUE
    BY <1>8 DEF CallFails, Abort
  <2>2. faults' \in Nat
    BY <1>8 DEF CallFails, Fault, TypeOK
  <2>3. sync'.base = EmptyStore /\ sync'.addUsers = {} /\ sync'.addRoutes = {}
    BY <2>1 DEF Idle
  <2> QED BY <2>1, <2>2, <2>3, IdleType DEF TypeOK
<1>9. CASE Update
  <2>1. /\ UNCHANGED <<feed, ds, users, rules, forced, exact, faults>> /\ sync' = Idle
        /\ settled' = TRUE /\ before' \in Seq(Routes) /\ steady' = TRUE
        /\ store' = [version |-> ds.version, clients |-> ClientMap(ds.clients),
                     routes |-> RouteMap(ds.routes)]
    BY <1>9 DEF Update
  <2>2. IsStore(store')
    <3>1. /\ ds.version \in Nat
          /\ ClientMap(ds.clients) \subseteq Clients /\ IsFiniteSet(ClientMap(ds.clients))
          /\ \A c, d \in ClientMap(ds.clients) : c.email = d.email => c = d
          /\ RouteMap(ds.routes) \subseteq Routes /\ IsFiniteSet(RouteMap(ds.routes))
          /\ \A r, q \in RouteMap(ds.routes) : r.tag = q.tag => r = q
      BY Parts, ClientMapType, RouteList
    <3> QED BY <2>1, <3>1 DEF IsStore, Stores
  <2>3. sync'.base = EmptyStore /\ sync'.addUsers = {} /\ sync'.addRoutes = {}
    BY <2>1 DEF Idle
  <2> QED BY <2>1, <2>2, <2>3, IdleType DEF TypeOK, IsStore, IsInjective, TagsOf
<1>10. CASE XrayRestart
  <2>1. /\ UNCHANGED <<feed, ds, store, sync, settled>>
        /\ exact' = FALSE /\ forced' \in BOOLEAN /\ users' \subseteq Clients
        /\ before' \in Seq(Routes)
    BY <1>10 DEF XrayRestart
  <2>4. steady' \in BOOLEAN
    BY <1>10, Zenon DEF XrayRestart
  <2>2. faults' \in Nat
    BY <1>10 DEF XrayRestart, Fault, TypeOK
  <2>3. rules' \in Seq(Routes) /\ IsInjective(TagsOf(rules'))
    BY <1>10 DEF XrayRestart, IsInjective, TagsOf
  <2> QED BY <2>1, <2>2, <2>3, <2>4 DEF TypeOK, IsStore, IsInjective, TagsOf
<1>11. CASE UNCHANGED vars
  BY <1>11 DEF vars, TypeOK, IsStore, IsInjective, TagsOf
<1> QED BY <1>1, <1>2, <1>3, <1>4, <1>5, <1>6, <1>7, <1>8, <1>9, <1>10, <1>11 DEF Next
-----------------------------------------------------------------------------
(* The course of a sync.                                                    *)

LEMMA BeginIs ==
  ASSUME TypeOK, Unrepeated, ds' \in Answers[feed], NEW base, IsStore(base), Begin(base)
  PROVE  /\ ds' \in States /\ IsInjective(EmailsOf(ds'.clients))
         /\ sync'.phase = "apply" /\ sync'.base = base
         /\ sync'.rmUsers  = base.clients \ ToSet(ds'.clients)
         /\ sync'.rmRoutes = base.routes \ Kept(ds'.routes)
         /\ sync'.addUsers  = Missing(base.clients, ds'.clients, DOMAIN ds'.clients)
         /\ sync'.addRoutes = Missing(base.routes, ds'.routes, NormalizeRouteRules(ds'.routes))
         /\ exact' => users = base.clients /\ ToSet(rules) = base.routes
         /\ UNCHANGED <<users, rules>> /\ before' = rules
<1>1. ds' \in States /\ IsInjective(EmailsOf(ds'.clients))
  BY DEF TypeOK, Unrepeated
<1>2. ds'.clients \in Seq(Clients)
  BY <1>1 DEF States
<1>3. ClientMap(ds'.clients) = ToSet(ds'.clients)
  BY <1>1, <1>2, ClientList
<1>4. sync' = Diff(base, ds')
  BY DEF Begin
<1>5. exact' => users = base.clients /\ ToSet(rules) = base.routes
  BY Zenon DEF Begin
<1>6. UNCHANGED <<users, rules>> /\ before' = rules
  BY DEF Begin
<1> QED BY <1>1, <1>3, <1>4, <1>5, <1>6, DiffIs

\* A step of GetState that begins a sync.
Begins == \E base : IsStore(base) /\ ds' \in Answers[feed] /\ Begin(base)

LEMMA GetStateBegins == TypeOK /\ (GetStateChanged \/ GetStateForced) => Begins
  BY Parts, IdleType DEF Begins, GetStateChanged, GetStateForced

\* A sync ends without success; or one of its calls succeeds and it goes on.
Ended == sync' = Idle /\ exact' = FALSE /\ settled' = FALSE /\ UNCHANGED ds
Goes  == /\ sync.phase = "apply" /\ sync'.phase = "apply" /\ sync'.base = sync.base
         /\ UNCHANGED <<ds, store, exact, settled, before, steady>>

\* Which of its calls it was, and its effect.
RemovesUser ==
    \E c \in sync.rmUsers :
       /\ users' = NoUser(users, c) /\ rules' = rules
       /\ sync'.rmUsers = sync.rmUsers \ {c} /\ sync'.addUsers = sync.addUsers
       /\ sync'.rmRoutes = sync.rmRoutes /\ sync'.addRoutes = sync.addRoutes
AddsUser ==
    \E i \in DOMAIN ds.clients :
       /\ First(i, sync.addUsers) /\ sync.rmUsers = {}
       /\ users' = NoUser(users, ds.clients[i]) \cup {ds.clients[i]} /\ rules' = rules
       /\ sync'.rmUsers = sync.rmUsers /\ sync'.addUsers = sync.addUsers \ {i}
       /\ sync'.rmRoutes = sync.rmRoutes /\ sync'.addRoutes = sync.addRoutes
RemovesRoute ==
    \E r \in sync.rmRoutes :
       /\ rules' = NoRule(rules, r) /\ users' = users
       /\ sync'.rmUsers = sync.rmUsers /\ sync'.addUsers = sync.addUsers
       /\ sync'.rmRoutes = sync.rmRoutes \ {r} /\ sync'.addRoutes = sync.addRoutes
AddsRoute ==
    \E i \in DOMAIN ds.routes :
       /\ First(i, sync.addRoutes) /\ sync.rmRoutes = {}
       /\ rules' = Append(NoRule(rules, ds.routes[i]), ds.routes[i]) /\ users' = users
       /\ sync'.rmUsers = sync.rmUsers /\ sync'.addUsers = sync.addUsers
       /\ sync'.rmRoutes = sync.rmRoutes /\ sync'.addRoutes = sync.addRoutes \ {i}

LEMMA CallSteps ==
  ASSUME TypeOK
  PROVE  /\ RemoveUser  => Ended \/ (Goes /\ RemovesUser)
         /\ AddUser     => Ended \/ (Goes /\ AddsUser)
         /\ RemoveRoute => Ended \/ (Goes /\ RemovesRoute)
         /\ AddRoute    => Ended \/ (Goes /\ AddsRoute)
<1>0. sync \in [phase : {"idle", "apply"}, base : Stores, rmUsers : SUBSET Clients,
                addUsers : SUBSET Nat, rmRoutes : SUBSET Routes, addRoutes : SUBSET Nat]
  BY DEF TypeOK
<1>1. ASSUME RemoveUser PROVE Ended \/ (Goes /\ RemovesUser)
  <2>1. PICK c \in sync.rmUsers : users' = NoUser(users, c) /\ Continue([sync EXCEPT !.rmUsers = @ \ {c}])
    BY <1>1 DEF RemoveUser
  <2>2. sync.phase = "apply" /\ UNCHANGED <<ds, store, rules>>
    BY <1>1 DEF RemoveUser
  <2>3. CASE Abort
    BY <2>2, <2>3 DEF Abort, Ended
  <2>4. CASE sync' = [sync EXCEPT !.rmUsers = @ \ {c}] /\ UNCHANGED <<exact, settled, before, steady>>
    BY <1>0, <2>1, <2>2, <2>4 DEF Goes, RemovesUser
  <2> QED BY <2>1, <2>3, <2>4 DEF Continue
<1>2. ASSUME AddUser PROVE Ended \/ (Goes /\ AddsUser)
  <2>1. PICK i \in DOMAIN ds.clients :
           /\ First(i, sync.addUsers)
           /\ users' = NoUser(users, ds.clients[i]) \cup {ds.clients[i]}
           /\ Continue([sync EXCEPT !.addUsers = @ \ {i}])
    BY <1>2 DEF AddUser
  <2>2. sync.phase = "apply" /\ sync.rmUsers = {} /\ UNCHANGED <<ds, store, rules>>
    BY <1>2 DEF AddUser
  <2>3. CASE Abort
    BY <2>2, <2>3 DEF Abort, Ended
  <2>4. CASE sync' = [sync EXCEPT !.addUsers = @ \ {i}] /\ UNCHANGED <<exact, settled, before, steady>>
    BY <1>0, <2>1, <2>2, <2>4 DEF Goes, AddsUser
  <2> QED BY <2>1, <2>3, <2>4 DEF Continue
<1>3. ASSUME RemoveRoute PROVE Ended \/ (Goes /\ RemovesRoute)
  <2>1. PICK r \in sync.rmRoutes : rules' = NoRule(rules, r) /\ Continue([sync EXCEPT !.rmRoutes = @ \ {r}])
    BY <1>3 DEF RemoveRoute
  <2>2. sync.phase = "apply" /\ UNCHANGED <<ds, store, users>>
    BY <1>3 DEF RemoveRoute, UsersDone
  <2>3. CASE Abort
    BY <2>2, <2>3 DEF Abort, Ended
  <2>4. CASE sync' = [sync EXCEPT !.rmRoutes = @ \ {r}] /\ UNCHANGED <<exact, settled, before, steady>>
    BY <1>0, <2>1, <2>2, <2>4 DEF Goes, RemovesRoute
  <2> QED BY <2>1, <2>3, <2>4 DEF Continue
<1>4. ASSUME AddRoute PROVE Ended \/ (Goes /\ AddsRoute)
  <2>1. PICK i \in DOMAIN ds.routes :
           /\ First(i, sync.addRoutes)
           /\ rules' = Append(NoRule(rules, ds.routes[i]), ds.routes[i])
           /\ Continue([sync EXCEPT !.addRoutes = @ \ {i}])
    BY <1>4 DEF AddRoute
  <2>2. sync.phase = "apply" /\ sync.rmRoutes = {} /\ UNCHANGED <<ds, store, users>>
    BY <1>4 DEF AddRoute, UsersDone
  <2>3. CASE Abort
    BY <2>2, <2>3 DEF Abort, Ended
  <2>4. CASE sync' = [sync EXCEPT !.addRoutes = @ \ {i}] /\ UNCHANGED <<exact, settled, before, steady>>
    BY <1>0, <2>1, <2>2, <2>4 DEF Goes, AddsRoute
  <2> QED BY <2>1, <2>3, <2>4 DEF Continue
<1> QED BY <1>1, <1>2, <1>3, <1>4

\* What a step is, for the invariants below.
LEMMA StepCases ==
  ASSUME TypeOK, [Next]_vars
  PROVE  \/ GetStateUnchanged \/ Begins \/ Ended \/ Update
         \/ Goes /\ (RemovesUser \/ AddsUser \/ RemovesRoute \/ AddsRoute)
         \/ /\ UNCHANGED <<ds, store, sync, settled>> /\ exact' = FALSE
            /\ sync.phase = "apply" => steady' = FALSE
         \/ UNCHANGED vars
<1>1. XrayRestart => /\ UNCHANGED <<ds, store, sync, settled>> /\ exact' = FALSE
                     /\ sync.phase = "apply" => steady' = FALSE
  BY DEF XrayRestart
<1>2. CallFails => Ended
  BY DEF CallFails, Abort, Ended
<1> QED BY <1>1, <1>2, CallSteps, GetStateBegins DEF Next

LEMMA NextPlan == TypeOK /\ Unrepeated /\ Plan /\ [Next]_vars => Plan'
<1> SUFFICES ASSUME TypeOK, Unrepeated, Plan, [Next]_vars PROVE Plan'
  OBVIOUS
<1>1. CASE GetStateUnchanged
  <2>1. IsInjective(EmailsOf(ds'.clients))
    BY <1>1 DEF GetStateUnchanged, Unrepeated, TypeOK
  <2>2. sync' = sync /\ sync.phase = "idle"
    BY <1>1 DEF GetStateUnchanged
  <2> QED BY <2>1, <2>2 DEF Plan
<1>2. CASE Begins
  <2>1. PICK base : IsStore(base) /\ ds' \in Answers[feed] /\ Begin(base)
    BY <1>2 DEF Begins
  <2> QED BY <2>1, BeginIs DEF Plan, NewUsers, NewRules
<1>3. CASE Ended \/ Update
  <2>1. ds' = ds /\ sync'.phase = "idle"
    BY <1>3 DEF Ended, Update, Idle
  <2> QED BY <2>1 DEF Plan
<1>4. CASE Goes /\ RemovesUser
  BY <1>4 DEF Goes, RemovesUser, Plan, NewUsers, NewRules
<1>5. CASE Goes /\ AddsUser
  BY <1>5 DEF Goes, AddsUser, Plan, NewUsers, NewRules
<1>6. CASE Goes /\ RemovesRoute
  BY <1>6 DEF Goes, RemovesRoute, Plan, NewUsers, NewRules
<1>7. CASE Goes /\ AddsRoute
  BY <1>7 DEF Goes, AddsRoute, Plan, NewUsers, NewRules
<1>8. CASE UNCHANGED <<ds, sync>>
  BY <1>8 DEF Plan, NewUsers, NewRules
<1> QED BY <1>1, <1>2, <1>3, <1>4, <1>5, <1>6, <1>7, <1>8, StepCases DEF vars

\* The calls on users: each does to Xray what it does to the plan.
LEMMA UserCalls ==
  ASSUME TypeOK, Plan, sync.phase = "apply", ds' = ds,
         users = {ds.clients[i] : i \in DOMAIN ds.clients \ sync.addUsers} \cup sync.rmUsers,
         RemovesUser \/ AddsUser
  PROVE  users' = {ds.clients[i] : i \in DOMAIN ds.clients \ sync'.addUsers} \cup sync'.rmUsers
<1>0. /\ \A i, j \in DOMAIN ds.clients : ds.clients[i].email = ds.clients[j].email => i = j
      /\ \A c, d \in sync.base.clients : c.email = d.email => c = d
  BY Parts, ClientList DEF Plan, IsStore
<1>1. CASE RemovesUser
  <2>1. PICK c \in sync.rmUsers : users' = NoUser(users, c) /\ sync'.rmUsers = sync.rmUsers \ {c}
                                  /\ sync'.addUsers = sync.addUsers
    BY <1>1 DEF RemovesUser
  <2>2. users \subseteq sync.base.clients /\ c \in sync.base.clients
    BY <2>1 DEF Plan, NewUsers, Missing
  <2>3. NoUser(users, c) = users \ {c}
    BY <1>0, <2>2 DEF NoUser
  <2>4. \A i \in DOMAIN ds.clients : ds.clients[i] # c
    BY <2>1 DEF Plan, ToSet
  <2> QED BY <2>1, <2>3, <2>4
<1>2. CASE AddsUser
  <2>1. PICK i \in DOMAIN ds.clients :
           /\ i \in sync.addUsers /\ sync.rmUsers = {} /\ sync'.rmUsers = {}
           /\ users' = NoUser(users, ds.clients[i]) \cup {ds.clients[i]}
           /\ sync'.addUsers = sync.addUsers \ {i}
    BY <1>2 DEF AddsUser, First
  <2>2. \A u \in users : u.email # ds.clients[i].email
    BY <1>0, <2>1
  <2>3. NoUser(users, ds.clients[i]) = users
    BY <2>2 DEF NoUser
  <2> QED BY <2>1, <2>3
<1> QED BY <1>1, <1>2

\* The calls on routes likewise; a rule that is added meets none of its tag.
LEMMA RouteCalls ==
  ASSUME TypeOK, Plan, sync.phase = "apply", ds' = ds,
         ToSet(rules) = {ds.routes[i] : i \in NormalizeRouteRules(ds.routes) \ sync.addRoutes}
                        \cup sync.rmRoutes,
         RemovesRoute \/ AddsRoute
  PROVE  ToSet(rules') = {ds.routes[i] : i \in NormalizeRouteRules(ds.routes) \ sync'.addRoutes}
                         \cup sync'.rmRoutes
<1> DEFINE N == NormalizeRouteRules(ds.routes)
<1>0. /\ N \subseteq DOMAIN ds.routes
      /\ \A i, j \in N : ds.routes[i].tag = ds.routes[j].tag => i = j
      /\ \A r, q \in sync.base.routes : r.tag = q.tag => r = q
  BY Parts, RouteList DEF IsStore
<1>a. ds.routes \in Seq(Routes) /\ rules \in Seq(Routes) /\ IsInjective(TagsOf(rules))
  BY Parts
<1> HIDE DEF N
<1>1. ASSUME RemovesRoute
      PROVE  ToSet(rules') = {ds.routes[i] : i \in N \ sync'.addRoutes} \cup sync'.rmRoutes
  <2>1. PICK r \in sync.rmRoutes : rules' = NoRule(rules, r) /\ sync'.rmRoutes = sync.rmRoutes \ {r}
                                   /\ sync'.addRoutes = sync.addRoutes
    BY <1>1 DEF RemovesRoute
  <2>2. ToSet(rules) \subseteq sync.base.routes /\ r \in sync.base.routes
    BY <2>1 DEF Plan, NewRules, Missing, N
  <2>3. ToSet(rules') = {q \in ToSet(rules) : q.tag # r.tag}
    BY <2>1, RulesType
  <2>4. ToSet(rules') = ToSet(rules) \ {r}
    BY <1>0, <2>2, <2>3
  <2>5. \A i \in N : ds.routes[i] # r
    BY <2>1 DEF Plan, Kept, N
  <2>6. ToSet(rules) = {ds.routes[i] : i \in N \ sync.addRoutes} \cup sync.rmRoutes
    BY DEF N
  <2> QED BY <2>1, <2>4, <2>5, <2>6
<1>2. ASSUME AddsRoute
      PROVE  ToSet(rules') = {ds.routes[i] : i \in N \ sync'.addRoutes} \cup sync'.rmRoutes
  <2>1. PICK i \in DOMAIN ds.routes :
           /\ First(i, sync.addRoutes) /\ sync.rmRoutes = {} /\ sync'.rmRoutes = {}
           /\ rules' = Append(NoRule(rules, ds.routes[i]), ds.routes[i])
           /\ sync'.addRoutes = sync.addRoutes \ {i}
    BY <1>2 DEF AddsRoute
  <2>2. i \in sync.addRoutes /\ i \in N
    BY <2>1 DEF First, Plan, NewRules, Missing, N
  <2>3. ToSet(rules) = {ds.routes[j] : j \in N \ sync.addRoutes}
    BY <2>1 DEF N
  <2>4. \A q \in ToSet(rules) : q.tag # ds.routes[i].tag
    BY <1>0, <2>2, <2>3
  <2>5. NoRule(rules, ds.routes[i]) = rules
    BY <1>a, <2>4, NoRuleIs
  <2>6. ds.routes[i] \in Routes
    BY <1>a, <2>1
  <2>7. ToSet(rules') = ToSet(rules) \cup {ds.routes[i]}
    BY <2>1, <2>5, <2>6, RulesType
  <2> QED BY <2>1, <2>2, <2>3, <2>7
<1> QED BY <1>1, <1>2 DEF N

LEMMA NextTracked == TypeOK /\ Unrepeated /\ Plan /\ Tracked /\ [Next]_vars => Tracked'
<1> SUFFICES ASSUME TypeOK, Unrepeated, Plan, Tracked, [Next]_vars PROVE Tracked'
  OBVIOUS
<1>0. exact' \in BOOLEAN
  BY NextType DEF TypeOK
<1> SUFFICES ASSUME exact' = TRUE PROVE Tracked'
  BY <1>0 DEF Tracked
<1>1. CASE GetStateUnchanged
  BY <1>1 DEF GetStateUnchanged, Tracked
<1>2. CASE Begins
  <2>1. PICK base : IsStore(base) /\ ds' \in Answers[feed] /\ Begin(base)
    BY <1>2 DEF Begins
  <2>2. /\ sync'.phase = "apply" /\ users' = base.clients /\ ToSet(rules') = base.routes
        /\ sync'.rmUsers  = base.clients \ ToSet(ds'.clients)
        /\ sync'.rmRoutes = base.routes \ Kept(ds'.routes)
        /\ sync'.addUsers  = Missing(base.clients, ds'.clients, DOMAIN ds'.clients)
        /\ sync'.addRoutes = Missing(base.routes, ds'.routes, NormalizeRouteRules(ds'.routes))
    BY <2>1, BeginIs
  <2>3. base.clients = {ds'.clients[i] : i \in DOMAIN ds'.clients \ sync'.addUsers} \cup sync'.rmUsers
    BY <2>2 DEF Missing, ToSet
  <2>4. base.routes = {ds'.routes[i] : i \in NormalizeRouteRules(ds'.routes) \ sync'.addRoutes}
                      \cup sync'.rmRoutes
    BY <2>2 DEF Missing, Kept
  <2> QED BY <2>2, <2>3, <2>4 DEF Tracked
<1>3. CASE Ended
  BY <1>3 DEF Ended
<1>4. CASE Update
  <2>1. /\ sync.phase = "apply" /\ sync.rmUsers = {} /\ sync.addUsers = {}
        /\ sync.rmRoutes = {} /\ sync.addRoutes = {} /\ exact' = exact
    BY <1>4 DEF Update, Finished, UsersDone
  <2>2. users = ToSet(ds.clients) /\ ToSet(rules) = Kept(ds.routes)
    <3>1. /\ users = {ds.clients[i] : i \in DOMAIN ds.clients \ {}} \cup {}
          /\ ToSet(rules) = {ds.routes[i] : i \in NormalizeRouteRules(ds.routes) \ {}} \cup {}
      BY <2>1 DEF Tracked
    <3>2. users = ToSet(ds.clients)
      BY <3>1 DEF ToSet
    <3>3. ToSet(rules) = Kept(ds.routes)
      BY <3>1 DEF Kept
    <3> QED BY <3>2, <3>3
  <2>3. ClientMap(ds.clients) = ToSet(ds.clients) /\ RouteMap(ds.routes) = Kept(ds.routes)
    BY Parts, ClientList, RouteList DEF Plan
  <2>4. /\ sync'.phase = "idle" /\ users' = users /\ rules' = rules
        /\ store'.clients = ClientMap(ds.clients) /\ store'.routes = RouteMap(ds.routes)
    BY <1>4 DEF Update, Idle
  <2> QED BY <2>2, <2>3, <2>4 DEF Tracked
<1>5. CASE Goes /\ (RemovesUser \/ AddsUser)
  <2>1. /\ sync.phase = "apply" /\ sync'.phase = "apply" /\ ds' = ds /\ exact = TRUE
        /\ rules' = rules /\ sync'.rmRoutes = sync.rmRoutes /\ sync'.addRoutes = sync.addRoutes
    BY <1>5 DEF Goes, RemovesUser, AddsUser
  <2>2. users' = {ds.clients[i] : i \in DOMAIN ds.clients \ sync'.addUsers} \cup sync'.rmUsers
    BY <1>5, <2>1, UserCalls DEF Tracked
  <2> QED BY <2>1, <2>2 DEF Tracked
<1>6. CASE Goes /\ (RemovesRoute \/ AddsRoute)
  <2>1. /\ sync.phase = "apply" /\ sync'.phase = "apply" /\ ds' = ds /\ exact = TRUE
        /\ users' = users /\ sync'.rmUsers = sync.rmUsers /\ sync'.addUsers = sync.addUsers
    BY <1>6 DEF Goes, RemovesRoute, AddsRoute
  <2>2. ToSet(rules') = {ds.routes[i] : i \in NormalizeRouteRules(ds.routes) \ sync'.addRoutes}
                        \cup sync'.rmRoutes
    BY <1>6, <2>1, RouteCalls DEF Tracked
  <2> QED BY <2>1, <2>2 DEF Tracked
<1>7. CASE exact' = FALSE
  BY <1>7
<1>8. CASE UNCHANGED vars
  BY <1>8 DEF vars, Tracked
<1> QED BY <1>1, <1>2, <1>3, <1>4, <1>5, <1>6, <1>7, <1>8, StepCases

LEMMA NextRemembered == TypeOK /\ Unrepeated /\ Plan /\ Remembered /\ [Next]_vars => Remembered'
<1> SUFFICES ASSUME TypeOK, Unrepeated, Plan, Remembered, [Next]_vars PROVE Remembered'
  OBVIOUS
<1>1. CASE GetStateUnchanged
  <2>1. ds' \in States /\ IsInjective(EmailsOf(ds'.clients)) /\ IsUnchanged(ds') /\ store' = store
    BY <1>1 DEF GetStateUnchanged, Unrepeated, TypeOK
  <2>2. /\ ds'.version = store.version /\ ToSet(ds'.clients) = store.clients
        /\ Kept(ds'.routes) = store.routes
    BY <2>1, UnchangedIff, Parts
  <2> QED BY <2>1, <2>2 DEF Remembered
<1>2. CASE Begins
  <2>1. sync'.phase = "apply"
    BY <1>2, BeginIs DEF Begins
  <2> QED BY <2>1 DEF Remembered
<1>3. CASE Ended
  BY <1>3 DEF Ended, Remembered
<1>4. CASE Update
  <2>1. ClientMap(ds.clients) = ToSet(ds.clients) /\ RouteMap(ds.routes) = Kept(ds.routes)
    BY Parts, ClientList, RouteList DEF Plan
  <2>2. /\ ds' = ds /\ store'.version = ds.version
        /\ store'.clients = ClientMap(ds.clients) /\ store'.routes = RouteMap(ds.routes)
    BY <1>4 DEF Update
  <2> QED BY <2>1, <2>2 DEF Remembered
<1>5. CASE Goes
  BY <1>5 DEF Goes, Remembered
<1>6. CASE UNCHANGED <<ds, store, sync, settled>>
  BY <1>6 DEF Remembered
<1> QED BY <1>1, <1>2, <1>3, <1>4, <1>5, <1>6, StepCases DEF vars

(* The order of the rules.                                                  *)

\* A list is itself in order.
LEMMA InOrderAll ==
  ASSUME NEW rs \in Seq(Routes), NEW list \in Seq(Routes)
  PROVE  InOrder(rs, rs \o list, Left(rs, {}, list, {}))
<1> DEFINE at == [k \in DOMAIN rs |-> k]
<1>1. Left(rs, {}, list, {}) = DOMAIN rs
  BY DEF Left
<1>2. at \in [DOMAIN rs -> DOMAIN rs] /\ \A k \in DOMAIN rs : at[k] = k
  OBVIOUS
<1>3. \A k \in DOMAIN rs : rs[k] = (rs \o list)[k]
  BY ConcatProperties
<1>4. /\ \A k, l \in DOMAIN rs : k < l => at[k] < at[l]
      /\ \A k \in DOMAIN rs : rs[k] = (rs \o list)[at[k]]
      /\ \A p \in DOMAIN rs : \E k \in DOMAIN rs : at[k] = p
  BY <1>2, <1>3
<1> HIDE DEF at
<1> QED BY <1>1, <1>2, <1>4 DEF InOrder

\* Removing a rule keeps the others in order.
LEMMA InOrderRemove ==
  ASSUME NEW rs \in Seq(Routes), IsInjective(TagsOf(rs)), NEW r, NEW line,
         NEW places \in SUBSET Nat, InOrder(rs, line, places)
  PROVE  InOrder(NoRule(rs, r), line, {p \in places : line[p].tag # r.tag})
<1> DEFINE found == {k \in DOMAIN rs : rs[k].tag = r.tag}
           rest  == {p \in places : line[p].tag # r.tag}
<1>0. \A i, j \in DOMAIN rs : rs[i].tag = rs[j].tag => i = j
  BY TagsOnce
<1>a. PICK at \in [DOMAIN rs -> places] :
         /\ \A k, l \in DOMAIN rs : k < l => at[k] < at[l]
         /\ \A k \in DOMAIN rs : rs[k] = line[at[k]]
         /\ \A p \in places : \E k \in DOMAIN rs : at[k] = p
  BY DEF InOrder
<1>1. CASE found = {}
  <2>1. NoRule(rs, r) = rs
    BY <1>1 DEF NoRule
  <2>2. ASSUME NEW p \in places PROVE line[p].tag # r.tag
    <3>1. PICK k \in DOMAIN rs : at[k] = p
      BY <1>a
    <3>2. rs[k] = line[p] /\ k \notin found
      BY <1>1, <1>a, <3>1
    <3> QED BY <3>2
  <2>3. rest = places
    BY <2>2
  <2> QED BY <2>1, <2>3
<1>2. CASE found # {}
  <2>1. PICK k \in found : NoRule(rs, r) = RemoveAt(rs, k)
    BY <1>2 DEF NoRule
  <2> DEFINE s == RemoveAt(rs, k)
             n == Len(rs)
             from(i) == IF i < k THEN i ELSE i + 1
             to == [i \in DOMAIN s |-> at[from(i)]]
  <2>2. /\ DOMAIN s = 1..n - 1
        /\ \A i \in 1..n - 1 : s[i] = IF i < k THEN rs[i] ELSE rs[i + 1]
    BY <2>1, RemoveAtIs
  <2>3. n \in Nat /\ DOMAIN rs = 1..n /\ k \in 1..n /\ rs[k].tag = r.tag
    BY <2>1
  <2> HIDE DEF s, n
  <2>4. \A i \in DOMAIN s : from(i) \in DOMAIN rs /\ from(i) # k /\ s[i] = rs[from(i)]
    BY <2>2, <2>3
  <2>5. \A i, j \in DOMAIN s : i < j => from(i) < from(j)
    BY <2>2, <2>3
  <2>6. ASSUME NEW l \in DOMAIN rs, l # k PROVE \E i \in DOMAIN s : from(i) = l
    <3>1. CASE l < k
      <4>1. l \in DOMAIN s /\ from(l) = l
        BY <2>2, <2>3, <2>6, <3>1
      <4> QED BY <4>1
    <3>2. CASE l > k
      <4>1. l - 1 \in DOMAIN s /\ from(l - 1) = l
        BY <2>2, <2>3, <2>6, <3>2
      <4> QED BY <4>1
    <3> QED BY <2>3, <2>6, <3>1, <3>2
  <2> HIDE DEF from
  <2>7. \A i \in DOMAIN s : to[i] = at[from(i)]
    OBVIOUS
  <2>8. ASSUME NEW i \in DOMAIN s PROVE to[i] \in rest /\ s[i] = line[to[i]]
    <3>1. s[i] = line[to[i]] /\ to[i] \in places
      BY <1>a, <2>4, <2>7
    <3>2. s[i].tag # r.tag
      BY <1>0, <2>3, <2>4
    <3> QED BY <3>1, <3>2
  <2>9. to \in [DOMAIN s -> rest]
    BY <2>8
  <2>10. \A i, j \in DOMAIN s : i < j => to[i] < to[j]
    BY <1>a, <2>4, <2>5, <2>7
  <2>11. ASSUME NEW p \in rest PROVE \E i \in DOMAIN s : to[i] = p
    <3>1. PICK l \in DOMAIN rs : at[l] = p
      BY <1>a, <2>11
    <3>2. l # k
      BY <1>a, <2>3, <2>11, <3>1
    <3> QED BY <2>6, <2>7, <3>1, <3>2
  <2> HIDE DEF to, rest
  <2>12. InOrder(s, line, rest)
    BY <2>8, <2>9, <2>10, <2>11 DEF InOrder
  <2> QED BY <2>1, <2>12 DEF s, rest
<1> QED BY <1>1, <1>2

\* A rule appended from a later place of the line is in order too.
LEMMA InOrderAppend ==
  ASSUME NEW rs \in Seq(Routes), NEW line, NEW places \in SUBSET Nat, NEW q \in Nat,
         InOrder(rs, line, places), \A p \in places : p < q
  PROVE  InOrder(Append(rs, line[q]), line, places \cup {q})
<1> DEFINE n  == Len(rs)
           s  == Append(rs, line[q])
<1>1. n \in Nat /\ DOMAIN rs = 1..n
  OBVIOUS
<1>2. DOMAIN s = 1..n + 1 /\ s[n + 1] = line[q] /\ \A k \in 1..n : s[k] = rs[k]
  OBVIOUS
<1>3. PICK at \in [DOMAIN rs -> places] :
         /\ \A k, l \in DOMAIN rs : k < l => at[k] < at[l]
         /\ \A k \in DOMAIN rs : rs[k] = line[at[k]]
         /\ \A p \in places : \E k \in DOMAIN rs : at[k] = p
  BY DEF InOrder
<1> DEFINE to == [k \in DOMAIN s |-> IF k = n + 1 THEN q ELSE at[k]]
<1> HIDE DEF n, s
<1>4. \A k \in DOMAIN s : k = n + 1 \/ (k \in DOMAIN rs /\ k # n + 1)
  BY <1>1, <1>2
<1>5. /\ n + 1 \in DOMAIN s /\ to[n + 1] = q
      /\ \A k \in DOMAIN rs : k \in DOMAIN s /\ to[k] = at[k] /\ at[k] \in places
  BY <1>1, <1>2, <1>3
<1>6. to \in [DOMAIN s -> places \cup {q}]
  BY <1>3, <1>4
<1> HIDE DEF to
<1>7. ASSUME NEW k \in DOMAIN s, NEW l \in DOMAIN s, k < l PROVE to[k] < to[l]
  <2>1. k \in DOMAIN rs /\ (l \in DOMAIN rs \/ l = n + 1)
    BY <1>1, <1>2, <1>7
  <2> QED BY <1>3, <1>5, <1>7, <2>1
<1>8. \A k \in DOMAIN s : s[k] = line[to[k]]
  BY <1>1, <1>2, <1>3, <1>4, <1>5
<1>9. \A p \in places \cup {q} : \E k \in DOMAIN s : to[k] = p
  BY <1>3, <1>5
<1>10. InOrder(s, line, places \cup {q})
  BY <1>6, <1>7, <1>8, <1>9 DEF InOrder
<1> QED BY <1>10 DEF s

\* What the line of the rules before and the list has at its places.
LEMMA LineIs ==
  ASSUME NEW was \in Seq(Routes), NEW list \in Seq(Routes), NEW gone,
         NEW added \in SUBSET DOMAIN list
  PROVE  /\ \A k \in DOMAIN was : (was \o list)[k] = was[k] /\ k \in 1..Len(was)
         /\ \A i \in DOMAIN list : /\ (was \o list)[Len(was) + i] = list[i]
                                    /\ Len(was) + i \in Nat /\ Len(was) + i \notin DOMAIN was
         /\ Left(was, gone, list, added) \in SUBSET Nat
<1>1. Len(was) \in Nat /\ DOMAIN was = 1..Len(was) /\ Len(list) \in Nat /\ DOMAIN list = 1..Len(list)
  OBVIOUS
<1>2. \A k \in 1..Len(was) + Len(list) :
         (was \o list)[k] = IF k <= Len(was) THEN was[k] ELSE list[k - Len(was)]
  BY ConcatProperties
<1>3. ASSUME NEW i \in DOMAIN list
      PROVE  /\ (was \o list)[Len(was) + i] = list[i]
             /\ Len(was) + i \in Nat /\ Len(was) + i \notin DOMAIN was
  <2>1. /\ Len(was) + i \in 1..Len(was) + Len(list) /\ ~(Len(was) + i <= Len(was))
        /\ (Len(was) + i) - Len(was) = i
    BY <1>1
  <2> QED BY <1>1, <1>2, <2>1
<1>4. \A k \in DOMAIN was : (was \o list)[k] = was[k] /\ k \in 1..Len(was)
  BY <1>1, <1>2
<1>5. Left(was, gone, list, added) \in SUBSET Nat
  BY <1>1, <1>3 DEF Left
<1> QED BY <1>3, <1>4, <1>5

\* A rule that is added: those of its tag are removed, it comes last.
LEMMA LeftAdd ==
  ASSUME NEW was \in Seq(Routes), NEW list \in Seq(Routes), NEW gone,
         NEW added \in SUBSET DOMAIN list, NEW i \in DOMAIN list,
         \A j \in added : list[j].tag # list[i].tag /\ j < i
  PROVE  LET rest == {p \in Left(was, gone, list, added) : (was \o list)[p].tag # list[i].tag}
         IN  /\ Left(was, gone, list, added \cup {i}) = rest \cup {Len(was) + i}
             /\ \A p \in rest : p < Len(was) + i
<1> DEFINE line == was \o list
           rest == {p \in Left(was, gone, list, added) : line[p].tag # list[i].tag}
           kept(new) == {k \in DOMAIN was : /\ \A q \in gone : q.tag # was[k].tag
                                            /\ \A j \in new : list[j].tag # was[k].tag}
           put(new) == {Len(was) + j : j \in new}
<1>1. /\ \A k \in DOMAIN was : line[k] = was[k] /\ k \in 1..Len(was)
      /\ \A j \in DOMAIN list : line[Len(was) + j] = list[j]
  BY LineIs
<1>2. Len(was) \in Nat /\ i \in Nat /\ i >= 1 /\ added \subseteq Nat
  OBVIOUS
<1> HIDE DEF line
<1>3. \A new : Left(was, gone, list, new) = kept(new) \cup put(new)
  BY DEF Left
<1>4. kept(added \cup {i}) = {p \in kept(added) : line[p].tag # list[i].tag}
  BY <1>1
<1>5. \A p \in put(added) : line[p].tag # list[i].tag
  BY <1>1
<1>6. put(added \cup {i}) = put(added) \cup {Len(was) + i}
  OBVIOUS
<1>7. rest = kept(added \cup {i}) \cup put(added)
  <2>1. Left(was, gone, list, added) = kept(added) \cup put(added)
    BY <1>3
  <2> HIDE DEF kept, put
  <2> QED BY <1>4, <1>5, <2>1
<1>8. \A p \in rest : p < Len(was) + i
  <2>1. \A p \in kept(added \cup {i}) : p < Len(was) + i
    BY <1>1, <1>2
  <2>2. \A p \in put(added) : p < Len(was) + i
    BY <1>2
  <2> HIDE DEF kept, put
  <2> QED BY <1>7, <2>1, <2>2
<1>9. Left(was, gone, list, added \cup {i}) = rest \cup {Len(was) + i}
  <2>1. Left(was, gone, list, added \cup {i}) = kept(added \cup {i}) \cup put(added \cup {i})
    BY <1>3
  <2> HIDE DEF kept, put
  <2> QED BY <1>6, <1>7, <2>1
<1> QED BY <1>8, <1>9 DEF line

\* Behind with the state it speaks about as parameters.
Ordered(rls, was, list, base, new, toRemove, toAdd) ==
    /\ \A i \in new \ toAdd, j \in toAdd : i < j
    /\ InOrder(rls, was \o list, Left(was, (base \ Kept(list)) \ toRemove, list, new \ toAdd))

LEMMA NextBehind == TypeOK /\ Unrepeated /\ Plan /\ Behind /\ [Next]_vars => Behind'
<1> SUFFICES ASSUME TypeOK, Unrepeated, Plan, Behind, [Next]_vars PROVE Behind'
  OBVIOUS
<1>0. steady \in BOOLEAN /\ steady' \in BOOLEAN
  BY NextType DEF TypeOK
<1> DEFINE now  == Ordered(rules, before, ds.routes, sync.base.routes, NewRules,
                           sync.rmRoutes, sync.addRoutes)
           then == Ordered(rules', before', ds'.routes, sync'.base.routes, NewRules',
                           sync'.rmRoutes, sync'.addRoutes)
<1>a. Behind <=> (steady /\ sync.phase = "apply" => now)
  BY DEF Behind, Ordered
<1>b. Behind' <=> (steady' /\ sync'.phase = "apply" => then)
  BY DEF Behind, Ordered
<1> HIDE DEF now, then
<1> SUFFICES ASSUME steady' = TRUE, sync'.phase = "apply" PROVE then
  BY <1>0, <1>b
<1>c. /\ rules \in Seq(Routes) /\ IsInjective(TagsOf(rules))
      /\ before \in Seq(Routes) /\ ds.routes \in Seq(Routes)
  BY Parts
<1>1. CASE GetStateUnchanged
  <2>1. sync'.phase = "idle"
    BY <1>1 DEF GetStateUnchanged
  <2> QED BY <2>1
<1>2. CASE Begins
  <2>1. PICK base : IsStore(base) /\ ds' \in Answers[feed] /\ Begin(base)
    BY <1>2 DEF Begins
  <2>2. /\ sync'.base = base /\ rules' = rules /\ before' = rules /\ ds' \in States
        /\ sync'.rmRoutes = base.routes \ Kept(ds'.routes)
        /\ sync'.addRoutes = Missing(base.routes, ds'.routes, NormalizeRouteRules(ds'.routes))
    BY <2>1, BeginIs
  <2>3. NewRules' \ sync'.addRoutes = {}
    BY <2>2 DEF NewRules
  <2>4. (sync'.base.routes \ Kept(ds'.routes)) \ sync'.rmRoutes = {}
    BY <2>2
  <2>5. InOrder(rules, rules \o ds'.routes, Left(rules, {}, ds'.routes, {}))
    BY <1>c, <2>2, InOrderAll DEF States
  <2> QED BY <2>2, <2>3, <2>4, <2>5 DEF then, Ordered
<1>3. CASE Ended
  BY <1>3 DEF Ended, Idle
<1>4. CASE Update
  <2>1. sync'.phase = "idle"
    BY <1>4 DEF Update, Idle
  <2> QED BY <2>1
<1>5. CASE Goes /\ (RemovesUser \/ AddsUser \/ RemovesRoute \/ AddsRoute)
  <2>1. /\ sync.phase = "apply" /\ steady = TRUE /\ ds' = ds /\ sync'.base = sync.base
        /\ NewRules' = NewRules /\ before' = before
    BY <1>5 DEF Goes, NewRules
  <2> DEFINE line  == before \o ds.routes
             added == NewRules \ sync.addRoutes
             lost  == sync.base.routes \ Kept(ds.routes)
             gone  == lost \ sync.rmRoutes
  <2>2. now
    BY <2>1, <1>a
  <2>3. /\ \A i \in added, j \in sync.addRoutes : i < j
        /\ InOrder(rules, line, Left(before, gone, ds.routes, added))
    BY <2>2 DEF now, Ordered
  <2>4. /\ NewRules \subseteq NormalizeRouteRules(ds.routes) /\ sync.addRoutes \subseteq NewRules
        /\ NormalizeRouteRules(ds.routes) \subseteq DOMAIN ds.routes
        /\ \A i, j \in NormalizeRouteRules(ds.routes) : ds.routes[i].tag = ds.routes[j].tag => i = j
    BY <2>1, Parts, RouteList DEF Plan, NewRules, Missing
  <2>5. Left(before, gone, ds.routes, added) \in SUBSET Nat
    BY <1>c, <2>4, LineIs
  <2>6. CASE RemovesUser \/ AddsUser
    <3>1. rules' = rules /\ sync'.addRoutes = sync.addRoutes /\ sync'.rmRoutes = sync.rmRoutes
      BY <2>6 DEF RemovesUser, AddsUser
    <3> QED BY <2>1, <2>2, <3>1 DEF then, now
  <2>7. CASE RemovesRoute
    <3>1. PICK r \in sync.rmRoutes : /\ rules' = NoRule(rules, r) /\ sync'.addRoutes = sync.addRoutes
                                     /\ sync'.rmRoutes = sync.rmRoutes \ {r}
      BY <2>7 DEF RemovesRoute
    <3>2. added = {} /\ sync.rmRoutes \subseteq lost
      BY <2>1, <3>1 DEF Plan
    <3>3. lost \ sync'.rmRoutes = gone \cup {r}
      BY <3>1, <3>2
    <3> DEFINE places == Left(before, gone, ds.routes, added)
               rest   == {p \in places : line[p].tag # r.tag}
    <3>a. Left(before, gone \cup {r}, ds.routes, {}) = rest
      <4> HIDE DEF gone, added
      <4>1. \A p : p \in Left(before, gone \cup {r}, ds.routes, {}) <=>
                     p \in Left(before, gone, ds.routes, {}) /\ line[p].tag # r.tag
        <5>1. \A k \in DOMAIN before : line[k] = before[k]
          BY <1>c, LineIs
        <5> HIDE DEF line
        <5> QED BY <5>1 DEF Left
      <4> QED BY <3>2, <4>1
    <3>b. places \in SUBSET Nat /\ InOrder(rules, line, places)
      BY <2>3, <2>5
    <3> HIDE DEF line, gone, lost, places
    <3>4. InOrder(NoRule(rules, r), line, rest)
      BY <1>c, <3>b, InOrderRemove
    <3> HIDE DEF rest
    <3>5. InOrder(rules', line, Left(before, gone \cup {r}, ds.routes, {}))
      BY <3>1, <3>4, <3>a
    <3>6. InOrder(rules', line, Left(before, lost \ sync'.rmRoutes, ds.routes, added))
      BY <3>2, <3>3, <3>5
    <3> QED BY <2>1, <2>3, <3>1, <3>6 DEF then, Ordered, line, lost
  <2>8. CASE AddsRoute
    <3>1. PICK i \in DOMAIN ds.routes :
             /\ First(i, sync.addRoutes) /\ sync'.rmRoutes = sync.rmRoutes
             /\ rules' = Append(NoRule(rules, ds.routes[i]), ds.routes[i])
             /\ sync'.addRoutes = sync.addRoutes \ {i}
      BY <2>8 DEF AddsRoute
    <3>2. i \in sync.addRoutes /\ \A j \in sync.addRoutes : i <= j
      BY <3>1 DEF First
    <3>3. /\ added \in SUBSET DOMAIN ds.routes
          /\ \A j \in added : ds.routes[j].tag # ds.routes[i].tag /\ j < i
      BY <2>3, <2>4, <3>2
    <3> DEFINE places == Left(before, gone, ds.routes, added)
               rest   == {p \in places : line[p].tag # ds.routes[i].tag}
    <3>4. InOrder(NoRule(rules, ds.routes[i]), line, rest) /\ rest \in SUBSET Nat
      <4>1. places \in SUBSET Nat /\ InOrder(rules, line, places)
        BY <2>3, <2>5
      <4> HIDE DEF line, gone, added, places
      <4>2. InOrder(NoRule(rules, ds.routes[i]), line, rest)
        BY <1>c, <4>1, InOrderRemove
      <4>3. rest \in SUBSET Nat
        BY <4>1
      <4> QED BY <4>2, <4>3
    <3>5. /\ Left(before, gone, ds.routes, added \cup {i}) = rest \cup {Len(before) + i}
          /\ \A p \in rest : p < Len(before) + i
      BY <1>c, <3>3, LeftAdd
    <3>6. line[Len(before) + i] = ds.routes[i] /\ Len(before) + i \in Nat
      BY <1>c, <3>3, LineIs
    <3>7. NoRule(rules, ds.routes[i]) \in Seq(Routes)
      BY <1>c, NoRuleIs
    <3> HIDE DEF rest, line, gone
    <3>8. InOrder(Append(NoRule(rules, ds.routes[i]), line[Len(before) + i]), line, rest \cup {Len(before) + i})
      BY <3>4, <3>5, <3>6, <3>7, InOrderAppend
    <3>9. InOrder(rules', line, Left(before, gone, ds.routes, added \cup {i}))
      BY <3>1, <3>5, <3>6, <3>8
    <3>10. NewRules \ sync'.addRoutes = added \cup {i}
      BY <2>4, <3>1, <3>2
    <3>11. \A j \in added \cup {i}, k \in sync'.addRoutes : j < k
      <4>1. \A k \in sync'.addRoutes : k \in sync.addRoutes /\ k # i /\ i <= k
        BY <3>1, <3>2
      <4>2. i \in Nat /\ sync'.addRoutes \subseteq Nat
        BY <1>c, <2>4, <3>1, <4>1
      <4>3. \A k \in sync'.addRoutes : i < k
        BY <4>1, <4>2
      <4> QED BY <2>3, <4>1, <4>3
    <3> HIDE DEF added
    <3> QED BY <2>1, <3>1, <3>9, <3>10, <3>11 DEF then, Ordered, line, gone
  <2> QED BY <1>5, <2>6, <2>7, <2>8
<1>6. CASE UNCHANGED vars
  <2>1. UNCHANGED <<rules, before, ds, sync, steady, NewRules>>
    BY <1>6 DEF vars, NewRules
  <2>2. now
    BY <2>1, <1>a
  <2> QED BY <2>1, <2>2 DEF then, now
<1>7. CASE UNCHANGED sync /\ (sync.phase = "apply" => steady' = FALSE)
  BY <1>7
<1> QED BY <1>1, <1>2, <1>3, <1>4, <1>5, <1>6, <1>7, StepCases

LEMMA InitIInv == Init => IInv
<1> SUFFICES ASSUME Init PROVE IInv
  OBVIOUS
<1>1. TypeOK
  BY InitType
<1>2. sync.phase = "idle" /\ settled = FALSE /\ users = {} /\ rules = <<>> /\ store.clients = {} /\ store.routes = {}
  BY DEF Init, Idle, EmptyStore
<1>3. ToSet(rules) = {} /\ IsInjective(EmailsOf(ds.clients))
  BY <1>2 DEF Init, ToSet, IsInjective, EmailsOf
<1> QED BY <1>1, <1>2, <1>3 DEF IInv, Plan, Tracked, Remembered, Behind

LEMMA NextIInv == Unrepeated /\ IInv /\ [Next]_vars => IInv'
  BY NextType, NextPlan, NextTracked, NextRemembered, NextBehind DEF IInv

\* Whatever the panel sends and whatever fails, the store's maps (store.go:45-60)
\* never hold two entries of one key, and Xray never has two rules of one tag
\* (addRoute, manager.go:160-190): removing a rule by its tag removes the one there is.
THEOREM TypeCorrect == Spec => []TypeOK
<1>1. Init => TypeOK
  BY InitType
<1>2. TypeOK /\ [Next]_vars => TypeOK'
  BY NextType
<1> QED BY <1>1, <1>2, PTL DEF Spec

\* The strengthening of the properties that is inductive: what a sync has left of
\* its plan, what Xray has meanwhile, and what the store remembers (syncState,
\* agent.go:98-137).  It needs that no list names a client twice (MCDuplicateClient
\* shows what happens otherwise); route tags may repeat.
THEOREM Inductive == ASSUME Unrepeated PROVE Spec => []IInv
<1>1. Init => IInv
  BY InitIInv
<1>2. IInv /\ [Next]_vars => IInv'
  BY NextIInv
<1> QED BY <1>1, <1>2, PTL DEF Spec

\* An undisturbed sync (syncState, agent.go:98-137) makes Xray hold exactly the
\* panel's list: its clients, and for every tag the last rule (NormalizeRouteRules,
\* routes.go:7-40), however many there are and however often the tags repeat.
THEOREM ListHolds == ASSUME Unrepeated PROVE Spec => []ListApplied
<1>1. IInv => ListApplied
  <2> SUFFICES ASSUME IInv, sync.phase = "idle", settled, exact
               PROVE  /\ users = ToSet(ds.clients)
                      /\ ToSet(rules) = {ds.routes[i] : i \in {k \in DOMAIN ds.routes : LastLine(ds.routes, k)}}
                      /\ IsInjective([i \in DOMAIN rules |-> rules[i].tag])
    BY DEF ListApplied
  <2>1. users = store.clients /\ ToSet(rules) = store.routes
    BY DEF IInv, Tracked
  <2>2. store.clients = ToSet(ds.clients) /\ store.routes = Kept(ds.routes)
    BY DEF IInv, Remembered
  <2>3. NormalizeRouteRules(ds.routes) = {k \in DOMAIN ds.routes : LastLine(ds.routes, k)}
    BY Parts, RouteList DEF IInv
  <2>4. IsInjective([i \in DOMAIN rules |-> rules[i].tag])
    BY DEF IInv, TypeOK, TagsOf
  <2> QED BY <2>1, <2>2, <2>3, <2>4 DEF Kept
<1> QED BY <1>1, Inductive, PTL

\* A state that was applied and is sent again is recognised by Store.IsUnchanged
\* (store.go:25-43), so that no call of Xray's API is made: the comparison of the
\* lengths of lists with the sizes of maps is right whenever no list names a
\* client twice, although the route tags may repeat.
THEOREM ResentIsQuiet == ASSUME Unrepeated PROVE Spec => ResentQuiet
<1>1. ASSUME IInv, [Next]_vars
      PROVE  [settled /\ ds' = ds /\ sync.phase = "idle" /\ ~forced =>
                /\ sync'.rmUsers = {} /\ sync'.addUsers = {}
                /\ sync'.rmRoutes = {} /\ sync'.addRoutes = {}]_vars
  <2> SUFFICES ASSUME settled, ds' = ds, sync.phase = "idle", ~forced
               PROVE  /\ sync'.rmUsers = {} /\ sync'.addUsers = {}
                      /\ sync'.rmRoutes = {} /\ sync'.addRoutes = {}
    OBVIOUS
  <2>1. sync = Idle
    BY <1>1 DEF IInv, TypeOK
  <2>2. IsUnchanged(ds)
    <3>1. ds \in States /\ IsInjective(EmailsOf(ds.clients)) /\ IsStore(store)
      BY <1>1 DEF IInv, TypeOK, Plan
    <3>2. /\ ds.version = store.version
          /\ ToSet(ds.clients) = store.clients /\ Kept(ds.routes) = store.routes
      BY <1>1 DEF IInv, Remembered
    <3> QED BY <3>1, <3>2, UnchangedIff
  <2>3. ~GetStateChanged /\ ~GetStateForced
    BY <2>2 DEF GetStateChanged, GetStateForced
  <2>4. ~(RemoveUser \/ AddUser \/ RemoveRoute \/ AddRoute \/ CallFails \/ Update)
    BY DEF RemoveUser, AddUser, RemoveRoute, AddRoute, CallFails, Update, Finished, UsersDone
  <2>5. sync' = sync
    BY <1>1, <2>3, <2>4 DEF Next, vars, GetStateUnchanged, XrayRestart
  <2> QED BY <2>1, <2>5 DEF Idle
<1> QED BY <1>1, Inductive, PTL DEF Spec, ResentQuiet

\* A successful sync during which Xray does not restart leaves the rules it does not
\* touch in front, all of them and in the order they had, and the new and changed
\* ones behind them in the order of the panel's list, whatever Xray held: addRoute
\* appends (manager.go:179), so the order in which Xray tries the rules depends on
\* the history, and in exactly this way.
THEOREM NewRulesLast == ASSUME Unrepeated PROVE Spec => NewRulesBehind
<1> DEFINE counts  == {i \in DOMAIN ds.routes : LastLine(ds.routes, i)}
           dropped == sync.base.routes \ {ds.routes[i] : i \in counts}
           new     == {i \in counts : ds.routes[i] \notin sync.base.routes}
           Ends    == InOrder(rules, before \o ds.routes, Left(before, dropped, ds.routes, new))
<1>1. ASSUME IInv, Update, steady PROVE Ends
  <2>1. sync.phase = "apply" /\ sync.addRoutes = {} /\ sync.rmRoutes = {}
    BY <1>1 DEF Update, Finished, UsersDone
  <2>2. NormalizeRouteRules(ds.routes) = counts
    BY <1>1, Parts, RouteList DEF IInv
  <2>3. NewRules \ sync.addRoutes = new
    BY <2>1, <2>2 DEF NewRules, Missing
  <2>4. (sync.base.routes \ Kept(ds.routes)) \ sync.rmRoutes = dropped
    BY <2>1, <2>2 DEF Kept
  <2> HIDE DEF new, dropped
  <2> QED BY <1>1, <2>1, <2>3, <2>4 DEF IInv, Behind
<1>2. ASSUME IInv PROVE [Update /\ steady => Ends]_vars
  BY <1>1, <1>2
<1> QED BY <1>2, Inductive, PTL DEF NewRulesBehind
=============================================================================
