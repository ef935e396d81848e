--------------------------- MODULE UsageStats_proofs ---------------------------
(* Proofs about UsageStats, for every value of its constants.               *)
EXTENDS UsageStats, TLAPS

USE LowerAssumption, NoSampleAssumption, LimitsAssumption

-----------------------------------------------------------------------------
(* usageCounterDelta.                                                       *)

LEMMA DeltaType ==
  ASSUME NEW prev \in Nat, NEW curr \in Nat
  PROVE  UsageCounterDelta(prev, curr) \in Nat
  BY DEF UsageCounterDelta

\* Reading a counter in two steps never yields less than reading it in one, even
\* if it started over in between.
LEMMA DeltaTriangle ==
  ASSUME NEW a \in Nat, NEW b \in Nat, NEW c \in Nat
  PROVE  UsageCounterDelta(a, c) <= UsageCounterDelta(a, b) + UsageCounterDelta(b, c)
  BY DEF UsageCounterDelta

\* A unit of traffic adds at most one.
LEMMA DeltaStep ==
  ASSUME NEW a \in Nat, NEW c \in Nat
  PROVE  UsageCounterDelta(a, c + 1) <= UsageCounterDelta(a, c) + 1
  BY DEF UsageCounterDelta

LEMMA DeltaZero ==
  ASSUME NEW a \in Nat
  PROVE  UsageCounterDelta(a, a) = 0 /\ UsageCounterDelta(a, 0) = 0
  BY DEF UsageCounterDelta
-----------------------------------------------------------------------------
(* Types.                                                                   *)

LEMMA NamesAt ==
  /\ \A e \in Emails, d \in Dirs : <<e, d>> \in Names /\ <<e, d>>[1] = e /\ <<e, d>>[2] = d
  /\ \A n \in Names : n[1] \in Emails /\ n[2] \in Dirs /\ n = <<n[1], n[2]>>
  BY DEF Names

LEMMA Numbers ==
  ASSUME TypeOK
  PROVE  /\ traffic \in [Names -> Nat] /\ counter \in [Names -> Nat]
         /\ batch \in [Names -> Nat] /\ reported \in [Names -> Nat] /\ lost \in [Names -> Nat]
         /\ \A n \in Names : /\ traffic[n] \in Nat /\ counter[n] \in Nat
                             /\ batch[n] \in Nat /\ reported[n] \in Nat /\ lost[n] \in Nat
<1>1. /\ traffic \in [Names -> Nat] /\ counter \in [Names -> Nat]
      /\ batch \in [Names -> Nat] /\ reported \in [Names -> Nat] /\ lost \in [Names -> Nat]
  BY DEF TypeOK
<1> QED BY <1>1

LEMMA PlusType ==
  ASSUME NEW f \in [Names -> Nat], NEW g \in [Names -> Nat]
  PROVE  /\ Plus(f, g) \in [Names -> Nat]
         /\ \A n \in Names : Plus(f, g)[n] = f[n] + g[n]
  BY DEF Plus

LEMMA ZeroType == Zero \in [Names -> Nat] /\ \A n \in Names : Zero[n] = 0
  BY DEF Zero

LEMMA SpendType ==
  ASSUME TypeOK, NEW what \in {"bytes", "edits", "faults", "crashes", "agentRestarts"}, Spend(what)
  PROVE  /\ spent' \in [{"bytes", "edits", "faults", "crashes", "agentRestarts"} -> Nat]
         /\ spent'.crashes = 0 => spent.crashes = 0 /\ what # "crashes"
  BY DEF TypeOK, Spend

\* What Diff(e) computes for the counters of e.
Usage(e, d) == Since(snapshot[Lower[e]], d, batch[<<e, d>>])

\* What a first sample of counter n writes off.
Rest(n) == WrittenOff(batch[n] - reported[n] - lost[n])

LEMMA DiffEffect ==
  ASSUME TypeOK, NEW e \in Emails, Diff(e)
  PROVE  /\ batch' \in [Names -> Nat] /\ lost' \in [Names -> Nat]
         /\ snapshot' \in [Keys -> [Dirs -> Nat] \cup {None}]
         /\ \A n \in Names : n[1] # e => /\ batch'[n] = batch[n] /\ lost'[n] = lost[n]
                                         /\ snapshot'[Lower[n[1]]] = snapshot[Lower[n[1]]]
         /\ \A d \in Dirs : /\ batch'[<<e, d>>] = Usage(e, d)
                            /\ snapshot'[Lower[e]] # None
                            /\ snapshot'[Lower[e]][d] = batch[<<e, d>>]
                            /\ lost'[<<e, d>>] = lost[<<e, d>>] +
                                 IF snapshot[Lower[e]] = None
                                 THEN Rest(<<e, d>>) ELSE 0
<1> DEFINE prev  == snapshot[Lower[e]]
           value == [d \in Dirs |-> batch[<<e, d>>]]
<1>1. Lower[e] \in Keys /\ prev \in [Dirs -> Nat] \cup {None}
  BY DEF TypeOK
<1>2. value \in [Dirs -> Nat] /\ value # None
  <2>1. \A d \in Dirs : batch[<<e, d>>] \in Nat
    BY Numbers, NamesAt
  <2> QED BY <2>1
<1>3. \A d \in Dirs : Usage(e, d) \in Nat
  BY <1>1, NamesAt, DeltaType, Numbers DEF Usage, Since, TypeOK
<1>4. batch' = [n \in Names |-> IF n[1] = e THEN Usage(e, n[2]) ELSE batch[n]]
  BY NamesAt DEF Diff, Usage, Since, FirstUsage
<1>5. snapshot' = [snapshot EXCEPT ![Lower[e]] = value]
  BY DEF Diff
<1>6. lost' = [n \in Names |-> IF n[1] = e
                 THEN lost[n] + (IF prev = None THEN Rest(n) ELSE 0)
                 ELSE lost[n]]
  <2> DEFINE unsaid(d) == IF prev = None
                          THEN WrittenOff(value[d] - 0 - reported[<<e, d>>] - lost[<<e, d>>]) ELSE 0
  <2>1. lost' = [n \in Names |-> IF n[1] = e THEN lost[n] + unsaid(n[2]) ELSE lost[n]]
    <3> DEFINE usage == [d \in Dirs |-> IF prev = None THEN 0
                                        ELSE UsageCounterDelta(prev[d], value[d])]
               rest(d) == IF prev = None
                          THEN WrittenOff(value[d] - usage[d] - reported[<<e, d>>] - lost[<<e, d>>])
                          ELSE 0
    <3>1. lost' = [n \in Names |-> IF n[1] = e THEN lost[n] + rest(n[2]) ELSE lost[n]]
      BY DEF Diff, FirstUsage
    <3>2. \A n \in Names : rest(n[2]) = unsaid(n[2])
      BY NamesAt
    <3> HIDE DEF rest, unsaid
    <3> QED BY <3>1, <3>2
  <2>2. ASSUME NEW n \in Names, n[1] = e
        PROVE  unsaid(n[2]) = IF prev = None THEN Rest(n) ELSE 0
    <3>1. n = <<e, n[2]>> /\ n[2] \in Dirs
      BY <2>2, NamesAt
    <3>2. value[n[2]] = batch[n] /\ batch[n] \in Nat
      BY <3>1, Numbers
    <3> QED BY <3>1, <3>2 DEF Rest
  <2> HIDE DEF unsaid
  <2> QED BY <2>1, <2>2
<1>7. batch' \in [Names -> Nat] /\ lost' \in [Names -> Nat]
  <2>1. \A n \in Names : Rest(n) \in Nat
    BY Numbers DEF Rest, WrittenOff
  <2> QED BY <1>3, <1>4, <1>6, <2>1, NamesAt, Numbers
<1>8. snapshot' \in [Keys -> [Dirs -> Nat] \cup {None}]
  BY <1>1, <1>2, <1>5 DEF TypeOK
<1>9. \A n \in Names : n[1] # e => /\ batch'[n] = batch[n] /\ lost'[n] = lost[n]
                                   /\ snapshot'[Lower[n[1]]] = snapshot[Lower[n[1]]]
  <2>1. \A n \in Names : n[1] # e => Lower[n[1]] # Lower[e] /\ Lower[n[1]] \in Keys
    BY NamesAt
  <2> QED BY <1>4, <1>5, <1>6, <2>1 DEF TypeOK
<1>10. snapshot'[Lower[e]] = value
  BY <1>1, <1>5 DEF TypeOK
<1>11. ASSUME NEW d \in Dirs
       PROVE  /\ batch'[<<e, d>>] = Usage(e, d)
              /\ snapshot'[Lower[e]][d] = batch[<<e, d>>]
              /\ lost'[<<e, d>>] = lost[<<e, d>>] +
                   IF prev = None THEN Rest(<<e, d>>) ELSE 0
  <2>1. <<e, d>> \in Names /\ <<e, d>>[1] = e /\ <<e, d>>[2] = d
    BY NamesAt
  <2>2. batch'[<<e, d>>] = Usage(e, d)
    BY <1>4, <2>1
  <2>3. lost'[<<e, d>>] = lost[<<e, d>>] +
          IF prev = None THEN Rest(<<e, d>>) ELSE 0
    BY <1>6, <2>1
  <2> QED BY <1>10, <2>2, <2>3
<1> QED BY <1>2, <1>7, <1>8, <1>9, <1>10, <1>11

LEMMA InitType == Init => TypeOK
  BY ZeroType DEF Init, TypeOK, NoSample

LEMMA NextType == TypeOK /\ TickShape /\ [Next]_vars => TypeOK'
<1> SUFFICES ASSUME TypeOK, TickShape, [Next]_vars PROVE TypeOK'
  OBVIOUS
<1>1. ASSUME NEW n \in Names, Traffic(n) PROVE TypeOK'
  BY <1>1, SpendType DEF Traffic, TypeOK, loop
<1>2. ASSUME NEW n \in Names, QuerySingle(n) PROVE TypeOK'
  BY <1>2 DEF QuerySingle, TypeOK
<1>3. ASSUME NEW n \in Names, QueryFails(n) PROVE TypeOK'
  <2>1. lost' \in [Names -> Nat] /\ counter' \in [Names -> Nat]
    <3>1. [batch EXCEPT ![n] = counter[n]] \in [Names -> Nat]
      BY Numbers
    <3>2. [counter EXCEPT ![n] = 0] \in [Names -> Nat]
      BY Numbers
    <3>3. /\ Plus(lost, batch) \in [Names -> Nat]
          /\ Plus(lost, [batch EXCEPT ![n] = counter[n]]) \in [Names -> Nat]
      BY <3>1, Numbers, PlusType
    <3> QED BY <1>3, <3>2, <3>3, Numbers DEF QueryFails
  <2> QED BY <1>3, <2>1, SpendType, ZeroType DEF QueryFails, Idle, TypeOK
<1>4. ASSUME NEW e \in Emails, Diff(e) PROVE TypeOK'
  <2>1. UNCHANGED <<reset, clients, traffic, counter, pc, asked, todo, measured, reported, spent>>
        /\ undiffed' \in SUBSET Emails
    BY <1>4 DEF Diff, TypeOK
  <2> QED BY <1>4, <2>1, DiffEffect DEF TypeOK
<1>5. CASE StoreUpdate
  BY <1>5, SpendType DEF StoreUpdate, TypeOK, loop
<1>6. CASE XrayRestart
  <2>1. lost' \in [Names -> Nat]
    BY <1>6, PlusType DEF XrayRestart, TypeOK
  <2> QED BY <1>6, <2>1, SpendType, ZeroType DEF XrayRestart, TypeOK, loop
<1>7. CASE AgentRestart
  <2>1. lost' \in [Names -> Nat]
    BY <1>7, PlusType DEF AgentRestart, TypeOK
  <2> QED BY <1>7, <2>1, SpendType, ZeroType DEF AgentRestart, Idle, NoSample, TypeOK
<1>8. CASE Tick
  <2>1. clients \X Dirs \subseteq Names
    BY DEF Names, TypeOK
  <2> QED BY <1>8, <2>1 DEF Tick, TypeOK
<1>9. CASE QueryDone
  BY <1>9 DEF QueryDone, NoSample, TypeOK
<1>10. CASE DiffDone
  BY <1>10 DEF DiffDone, DropAbsent, TypeOK
<1>11. CASE PostStats
  <2>1. reported' \in [Names -> Nat]
    BY <1>11, PlusType DEF PostStats, TypeOK
  <2> QED BY <1>11, <2>1, ZeroType DEF PostStats, Idle, TypeOK
<1>12. CASE PostStatsFails
  <2>1. reported' \in [Names -> Nat] /\ lost' \in [Names -> Nat]
    BY <1>12, PlusType DEF PostStatsFails, TypeOK
  <2> QED BY <1>12, <2>1, SpendType, ZeroType DEF PostStatsFails, Idle, TypeOK
<1>13. CASE UNCHANGED vars
  BY <1>13 DEF vars, TypeOK
<1> QED BY <1>1, <1>2, <1>3, <1>4, <1>5, <1>6, <1>7, <1>8, <1>9, <1>10, <1>11, <1>12, <1>13
        DEF Next
-----------------------------------------------------------------------------
(* A tick.                                                                  *)

LEMMA IdleShape ==
  ASSUME Idle
  PROVE  TickShape'
  BY ZeroType DEF Idle, TickShape

LEMMA NextShape == TypeOK /\ TickShape /\ [Next]_vars => TickShape'
<1> SUFFICES ASSUME TypeOK, TickShape, [Next]_vars PROVE TickShape'
  OBVIOUS
<1>1. ASSUME NEW n \in Names, Traffic(n) PROVE TickShape'
  BY <1>1 DEF Traffic, TickShape, loop
<1>2. ASSUME NEW n \in Names, QuerySingle(n) PROVE TickShape'
  <2>1. n[1] \in asked
    BY <1>2, NamesAt DEF QuerySingle, TickShape
  <2>2. \A m \in Names : m[1] \notin asked \/ m \in todo' => batch'[m] = 0
    BY <1>2, <2>1, Numbers DEF QuerySingle, TickShape
  <2> QED BY <1>2, <2>2 DEF QuerySingle, TickShape
<1>3. ASSUME NEW n \in Names, QueryFails(n) PROVE TickShape'
  BY <1>3, IdleShape DEF QueryFails
<1>4. ASSUME NEW e \in Emails, Diff(e) PROVE TickShape'
  <2>1. e \in asked /\ todo = {} /\ undiffed' \subseteq undiffed /\ UNCHANGED <<pc, asked, todo, reset>>
    BY <1>4 DEF Diff, TickShape
  <2>2. \A n \in Names : n[1] \notin asked \/ n \in todo' => batch'[n] = 0
    BY <1>4, <2>1, DiffEffect DEF TickShape
  <2> QED BY <1>4, <2>1, <2>2 DEF Diff, TickShape
<1>5. CASE StoreUpdate \/ XrayRestart
  BY <1>5 DEF StoreUpdate, XrayRestart, TickShape, loop
<1>6. CASE AgentRestart \/ PostStats \/ PostStatsFails
  BY <1>6, IdleShape DEF AgentRestart, PostStats, PostStatsFails
<1>7. CASE Tick
  BY <1>7 DEF Tick, TickShape
<1>8. CASE QueryDone
  BY <1>8 DEF QueryDone, TickShape
<1>9. CASE DiffDone
  BY <1>9 DEF DiffDone, TickShape
<1>10. CASE UNCHANGED vars
  BY <1>10 DEF vars, TickShape
<1> QED BY <1>1, <1>2, <1>3, <1>4, <1>5, <1>6, <1>7, <1>8, <1>9, <1>10 DEF Next
-----------------------------------------------------------------------------
(* With resets.                                                             *)

LEMMA NextResetConserves ==
  TypeOK /\ TickShape /\ ResetConserves /\ [Next]_vars => ResetConserves'
<1> SUFFICES ASSUME TypeOK, TickShape, ResetConserves, [Next]_vars, reset', NEW m \in Names
             PROVE  traffic'[m] = counter'[m] + batch'[m] + reported'[m] + lost'[m]
  BY DEF ResetConserves
<1>a. reset' = reset
  BY DEF Next, vars, Traffic, QuerySingle, QueryFails, Diff, StoreUpdate, XrayRestart, AgentRestart,
         Tick, QueryDone, DiffDone, PostStats, PostStatsFails
<1>b. traffic[m] = counter[m] + batch[m] + reported[m] + lost[m]
  BY <1>a DEF ResetConserves
<1>c. /\ traffic[m] \in Nat /\ counter[m] \in Nat
      /\ batch[m] \in Nat /\ reported[m] \in Nat /\ lost[m] \in Nat
  BY Numbers
<1>d. /\ Plus(lost, batch)[m] = lost[m] + batch[m]
      /\ Plus(lost, counter)[m] = lost[m] + counter[m]
      /\ Plus(reported, batch)[m] = reported[m] + batch[m]
      /\ Zero[m] = 0
  BY Numbers, PlusType, ZeroType
<1>1. ASSUME NEW n \in Names, Traffic(n)
      PROVE  traffic'[m] = counter'[m] + batch'[m] + reported'[m] + lost'[m]
  BY <1>1, <1>b, <1>c, Numbers DEF Traffic, loop
<1>2. ASSUME NEW n \in Names, QuerySingle(n)
      PROVE  traffic'[m] = counter'[m] + batch'[m] + reported'[m] + lost'[m]
  <2>1. batch[n] = 0
    BY <1>2 DEF QuerySingle, TickShape
  <2> QED BY <1>2, <2>1, <1>a, <1>b, <1>c, Numbers DEF QuerySingle
<1>3. ASSUME NEW n \in Names, QueryFails(n)
      PROVE  traffic'[m] = counter'[m] + batch'[m] + reported'[m] + lost'[m]
  <2>1. batch[n] = 0 /\ batch' = Zero /\ UNCHANGED <<traffic, reported>>
    BY <1>3 DEF QueryFails, TickShape, Idle
  <2>2. CASE UNCHANGED counter /\ lost' = Plus(lost, batch)
    BY <2>1, <2>2, <1>b, <1>c, <1>d
  <2>3. CASE /\ counter' = [counter EXCEPT ![n] = 0]
             /\ lost' = Plus(lost, [batch EXCEPT ![n] = counter[n]])
    <3> DEFINE read == [batch EXCEPT ![n] = counter[n]]
    <3>a. read \in [Names -> Nat] /\ read[m] = IF m = n THEN counter[n] ELSE batch[m]
      BY Numbers
    <3> HIDE DEF read
    <3>b. Plus(lost, read)[m] = lost[m] + read[m]
      BY <3>a, Numbers, PlusType
    <3>1. lost'[m] = lost[m] + (IF m = n THEN counter[n] ELSE batch[m])
      BY <2>3, <3>a, <3>b DEF read
    <3>2. counter'[m] = IF m = n THEN 0 ELSE counter[m]
      BY <2>3, Numbers
    <3> QED BY <2>1, <3>1, <3>2, <1>b, <1>c, <1>d
  <2> QED BY <1>3, <1>a, <2>2, <2>3 DEF QueryFails
<1>4. CASE XrayRestart
  BY <1>4, <1>a, <1>b, <1>c, <1>d DEF XrayRestart, loop
<1>5. CASE AgentRestart
  <2>0. reset \/ pc = "push"
    BY <1>a
  <2>1. lost' = Plus(lost, batch)
    BY <1>5, <2>0 DEF AgentRestart
  <2> QED BY <1>5, <2>1, <1>b, <1>c, <1>d DEF AgentRestart, Idle
<1>6. CASE PostStats \/ PostStatsFails
  <2>1. batch' = Zero /\ UNCHANGED <<traffic, counter>>
    BY <1>6 DEF PostStats, PostStatsFails, Idle
  <2>2. \/ reported' = Plus(reported, batch) /\ lost' = lost
        \/ lost' = Plus(lost, batch) /\ reported' = reported
    BY <1>6 DEF PostStats, PostStatsFails
  <2> QED BY <2>1, <2>2, <1>b, <1>c, <1>d
<1>7. ASSUME NEW e \in Emails, Diff(e) PROVE FALSE
  BY <1>7, <1>a DEF Diff, TickShape
<1>8. CASE StoreUpdate \/ Tick \/ QueryDone \/ DiffDone \/ UNCHANGED vars
  BY <1>8, <1>b DEF StoreUpdate, Tick, QueryDone, DiffDone, vars, loop
<1> QED BY <1>1, <1>2, <1>3, <1>4, <1>5, <1>6, <1>7, <1>8 DEF Next
-----------------------------------------------------------------------------
(* Without resets.                                                          *)

LEMMA SampleType ==
  ASSUME TypeOK, NEW n \in Names
  PROVE  snapshot[Lower[n[1]]] = None \/ snapshot[Lower[n[1]]][n[2]] \in Nat
<1>1. Lower[n[1]] \in Keys /\ n[2] \in Dirs
  BY NamesAt
<1> QED BY <1>1 DEF TypeOK

\* usageCounterDelta's properties hold for a user with or without a sample.
LEMMA SinceFacts ==
  ASSUME NEW sample, NEW d, sample = None \/ sample[d] \in Nat, NEW b \in Nat, NEW c \in Nat
  PROVE  /\ Since(sample, d, b) \in Nat
         /\ Since(sample, d, c) \in Nat
         /\ UsageCounterDelta(b, c) \in Nat
         /\ Since(sample, d, 0) = 0
         /\ Since(sample, d, c) <= Since(sample, d, b) + UsageCounterDelta(b, c)
         /\ Since(sample, d, c + 1) <= Since(sample, d, c) + 1
<1>1. CASE sample = None
  <2>1. \A v : Since(sample, d, v) = 0
    BY <1>1 DEF Since
  <2>2. UsageCounterDelta(b, c) \in Nat
    BY DeltaType
  <2> QED BY <2>1, <2>2
<1>2. CASE sample # None
  <2>1. sample[d] \in Nat
    BY <1>2
  <2> QED BY <1>2, <2>1, DeltaType, DeltaZero, DeltaTriangle, DeltaStep DEF Since
<1> QED BY <1>1, <1>2

\* Which values are raw before and after each step of the loop.
LEMMA RawSteps ==
  ASSUME TypeOK, TickShape, ~reset, ~reset', NEW m \in Names
  PROVE  /\ UNCHANGED <<pc, asked, todo, undiffed>> => (Raw(m)' <=> Raw(m))
         /\ Idle => ~Raw(m)'
         /\ pc \in {"idle", "push"} => ~Raw(m)
         /\ \A n \in Names : QuerySingle(n) => IF m = n THEN ~Raw(m) /\ Raw(m)'
                                                        ELSE Raw(m)' <=> Raw(m)
         /\ \A e \in Emails : Diff(e) => IF m[1] = e THEN Raw(m) /\ ~Raw(m)'
                                                     ELSE Raw(m)' <=> Raw(m)
         /\ Tick => ~Raw(m) /\ ~Raw(m)'
         /\ QueryDone => (Raw(m)' <=> Raw(m))
         /\ DiffDone => ~Raw(m) /\ ~Raw(m)'
<1> USE DEF Raw
<1>1. UNCHANGED <<pc, asked, todo, undiffed>> => (Raw(m)' <=> Raw(m))
  OBVIOUS
<1>2. Idle => ~Raw(m)'
  BY DEF Idle
<1>3. ASSUME NEW n \in Names, QuerySingle(n)
      PROVE  IF m = n THEN ~Raw(m) /\ Raw(m)' ELSE Raw(m)' <=> Raw(m)
  <2>1. n[1] \in asked
    BY <1>3, NamesAt DEF QuerySingle, TickShape
  <2> QED BY <1>3, <2>1 DEF QuerySingle
<1>4. ASSUME NEW e \in Emails, Diff(e)
      PROVE  IF m[1] = e THEN Raw(m) /\ ~Raw(m)' ELSE Raw(m)' <=> Raw(m)
  BY <1>4 DEF Diff
<1>5. ASSUME Tick PROVE ~Raw(m) /\ ~Raw(m)'
  <2>1. m[1] \in clients => m \in clients \X Dirs
    BY NamesAt
  <2> QED BY <1>5, <2>1 DEF Tick, TickShape
<1>6. ASSUME QueryDone PROVE Raw(m)' <=> Raw(m)
  BY <1>6 DEF QueryDone
<1>7. ASSUME DiffDone PROVE ~Raw(m) /\ ~Raw(m)'
  BY <1>7 DEF DiffDone
<1> QED BY <1>1, <1>2, <1>3, <1>4, <1>5, <1>6, <1>7

\* The part of Bounded about one counter.
BoundedAt(n, raw, sample, r, b, c, t) ==
    IF raw THEN r + Since(sample, n[2], b) + UsageCounterDelta(b, c) <= t
           ELSE r + b + Since(sample, n[2], c) <= t

LEMMA NextBounded == TypeOK /\ TickShape /\ Bounded /\ [Next]_vars => Bounded'
<1> DEFINE S(n) == snapshot[Lower[n[1]]]
           Good(n) == BoundedAt(n, Raw(n), S(n), reported[n], batch[n], counter[n], traffic[n])
<1>0. Bounded <=> (~reset => \A n \in Names : Good(n))
  BY DEF Bounded, BoundedAt
<1>0p. Bounded' <=> (~reset' => \A n \in Names : Good(n)')
  BY DEF Bounded, BoundedAt
<1> SUFFICES ASSUME TypeOK, TickShape, Bounded, [Next]_vars, ~reset', NEW m \in Names
             PROVE  Good(m)'
  BY <1>0p
<1> DEFINE s == S(m)
           d == m[2]
           r == reported[m]
           b == batch[m]
           c == counter[m]
           t == traffic[m]
<1>a. ~reset
  BY DEF Next, vars, Traffic, QuerySingle, QueryFails, Diff, StoreUpdate, XrayRestart, AgentRestart,
         Tick, QueryDone, DiffDone, PostStats, PostStatsFails
<1>b. BoundedAt(m, Raw(m), s, r, b, c, t)
  BY <1>0, <1>a
<1>c. t \in Nat /\ c \in Nat /\ b \in Nat /\ r \in Nat
  BY Numbers
<1>d. s = None \/ s[d] \in Nat
  BY SampleType
<1>e. /\ Since(s, d, b) \in Nat /\ Since(s, d, c) \in Nat /\ UsageCounterDelta(b, c) \in Nat
      /\ Since(s, d, 0) = 0
      /\ Since(s, d, c) <= Since(s, d, b) + UsageCounterDelta(b, c)
      /\ Since(s, d, c + 1) <= Since(s, d, c) + 1 /\ Since(s, d, c + 1) \in Nat
      /\ UsageCounterDelta(b, c + 1) <= UsageCounterDelta(b, c) + 1
      /\ UsageCounterDelta(b, c + 1) \in Nat /\ UsageCounterDelta(b, 0) = 0
      /\ UsageCounterDelta(c, c) = 0
  <2>1. c + 1 \in Nat
    BY <1>c
  <2> QED BY <1>c, <1>d, <2>1, SinceFacts, DeltaStep, DeltaZero, DeltaType
<1>f. Zero[m] = 0 /\ Plus(reported, batch)[m] = r + b
  BY Numbers, PlusType, ZeroType
<1>g. r + Since(s, d, c) <= t /\ r <= t
  BY <1>b, <1>c, <1>e DEF BoundedAt
<1> HIDE DEF Good
<1>1. ASSUME NEW n \in Names, Traffic(n) PROVE Good(m)'
  <2>1. (Raw(m)' <=> Raw(m)) /\ S(m)' = s /\ reported'[m] = r /\ batch'[m] = b
    BY <1>1, <1>a, RawSteps DEF Traffic, loop
  <2>2. \/ counter'[m] = c + 1 /\ traffic'[m] = t + 1
        \/ counter'[m] = c /\ traffic'[m] = t
    BY <1>1, Numbers DEF Traffic
  <2> QED BY <2>1, <2>2, <1>b, <1>c, <1>e DEF BoundedAt, Good
<1>2. ASSUME NEW n \in Names, QuerySingle(n) PROVE Good(m)'
  <2>1. S(m)' = s /\ reported'[m] = r /\ counter'[m] = c /\ traffic'[m] = t
    BY <1>2, <1>a DEF QuerySingle
  <2>2. CASE m = n
    <3>1. Raw(m)' /\ batch'[m] = c
      BY <1>2, <2>2, <1>a, Numbers, RawSteps DEF QuerySingle
    <3> QED BY <2>1, <3>1, <1>c, <1>e, <1>g DEF BoundedAt, Good
  <2>3. CASE m # n
    <3>1. (Raw(m)' <=> Raw(m)) /\ batch'[m] = b
      BY <1>2, <2>3, <1>a, Numbers, RawSteps DEF QuerySingle
    <3> QED BY <2>1, <3>1, <1>b DEF BoundedAt, Good
  <2> QED BY <2>2, <2>3
<1>3. ASSUME NEW n \in Names, QueryFails(n) PROVE Good(m)'
  <2>1. /\ ~Raw(m)' /\ S(m)' = s /\ reported'[m] = r /\ batch'[m] = 0
        /\ counter'[m] = c /\ traffic'[m] = t
    BY <1>3, <1>a, <1>f, RawSteps DEF QueryFails, Idle
  <2> QED BY <2>1, <1>c, <1>e, <1>g DEF BoundedAt, Good
<1>4. ASSUME NEW e \in Emails, Diff(e) PROVE Good(m)'
  <2>1. reported'[m] = r /\ counter'[m] = c /\ traffic'[m] = t
    BY <1>4 DEF Diff
  <2>2. CASE m[1] = e
    <3>1. m = <<e, d>> /\ d \in Dirs
      BY <2>2, NamesAt
    <3>2. batch'[m] = Since(s, d, b) /\ S(m)' # None /\ S(m)'[d] = b
      BY <1>4, <2>2, <3>1, DiffEffect DEF Usage
    <3>3. Raw(m) /\ ~Raw(m)'
      BY <1>4, <2>2, <1>a, RawSteps
    <3>4. Since(S(m)', d, c) = UsageCounterDelta(b, c)
      BY <3>2 DEF Since
    <3> QED BY <2>1, <3>2, <3>3, <3>4, <1>b DEF BoundedAt, Good
  <2>3. CASE m[1] # e
    <3>1. batch'[m] = b /\ S(m)' = s
      BY <1>4, <2>3, DiffEffect
    <3>2. Raw(m)' <=> Raw(m)
      BY <1>4, <2>3, <1>a, RawSteps
    <3> QED BY <2>1, <3>1, <3>2, <1>b DEF BoundedAt, Good
  <2> QED BY <2>2, <2>3
<1>5. CASE StoreUpdate \/ UNCHANGED vars
  <2>1. /\ Raw(m)' <=> Raw(m)
        /\ S(m)' = s /\ reported'[m] = r /\ batch'[m] = b /\ counter'[m] = c /\ traffic'[m] = t
    BY <1>5, <1>a, RawSteps DEF StoreUpdate, vars, loop
  <2> QED BY <2>1, <1>b DEF BoundedAt, Good
<1>6. CASE XrayRestart
  <2>1. /\ Raw(m)' <=> Raw(m)
        /\ S(m)' = s /\ reported'[m] = r /\ batch'[m] = b /\ counter'[m] = 0 /\ traffic'[m] = t
    BY <1>6, <1>a, <1>f, RawSteps DEF XrayRestart, loop
  <2> QED BY <2>1, <1>b, <1>c, <1>e DEF BoundedAt, Good
<1>7. CASE AgentRestart
  <2>1. /\ ~Raw(m)' /\ reported'[m] = r /\ batch'[m] = 0
        /\ counter'[m] = c /\ traffic'[m] = t
    BY <1>7, <1>a, <1>f, RawSteps DEF AgentRestart, Idle
  <2>2. Since(S(m)', d, c) = 0
    BY <1>7, NamesAt DEF AgentRestart, NoSample, Since
  <2> QED BY <2>1, <2>2, <1>c, <1>g DEF BoundedAt, Good
<1>8. CASE Tick \/ QueryDone
  <2>1. /\ S(m)' = s /\ reported'[m] = r /\ batch'[m] = b /\ counter'[m] = c /\ traffic'[m] = t
        /\ Raw(m)' <=> Raw(m)
    BY <1>8, <1>a, RawSteps DEF Tick, QueryDone
  <2> QED BY <2>1, <1>b DEF BoundedAt, Good
<1>9. CASE DiffDone
  <2>1. /\ reported'[m] = r /\ batch'[m] = b /\ counter'[m] = c /\ traffic'[m] = t
        /\ ~Raw(m)' /\ ~Raw(m)
    BY <1>9, <1>a, RawSteps DEF DiffDone
  <2>2. S(m)' \in {s, None}
    BY <1>9, NamesAt DEF DiffDone, DropAbsent
  <2>3. Since(S(m)', d, c) = Since(s, d, c) \/ Since(S(m)', d, c) = 0
    BY <2>2 DEF Since
  <2> QED BY <2>1, <2>3, <1>b, <1>c, <1>e DEF BoundedAt, Good
<1>10. CASE PostStats \/ PostStatsFails
  <2>1. /\ ~Raw(m) /\ ~Raw(m)' /\ S(m)' = s /\ batch'[m] = 0
        /\ counter'[m] = c /\ traffic'[m] = t /\ reported'[m] \in {r, r + b}
    BY <1>10, <1>a, <1>f, RawSteps DEF PostStats, PostStatsFails, Idle
  <2> QED BY <2>1, <1>b, <1>c, <1>e DEF BoundedAt, Good
<1> QED BY <1>1, <1>2, <1>3, <1>4, <1>5, <1>6, <1>7, <1>8, <1>9, <1>10 DEF Next, Good

\* The part of Adjoining about one counter.
AdjoiningAt(n, raw, sample, r, b, c, l) ==
    IF raw THEN /\ r + l <= b /\ b <= c
                /\ sample # None => sample[n[2]] = r + l
           ELSE /\ r + l + b <= c
                /\ sample # None => sample[n[2]] = r + l + b

LEMMA NextAdjoining == TypeOK /\ TickShape /\ Adjoining /\ [Next]_vars => Adjoining'
<1> DEFINE S(n) == snapshot[Lower[n[1]]]
           Good(n) == AdjoiningAt(n, Raw(n), S(n), reported[n], batch[n], counter[n], lost[n])
<1>0. TypeOK => (Adjoining <=> (~reset /\ spent.crashes = 0 => \A n \in Names : Good(n)))
  BY Numbers DEF Adjoining, AdjoiningAt
<1>0p. TypeOK' => (Adjoining' <=> (~reset' /\ spent'.crashes = 0 => \A n \in Names : Good(n)'))
  <2> SUFFICES ASSUME TypeOK'
               PROVE  Adjoining' <=> (~reset' /\ spent'.crashes = 0 => \A n \in Names : Good(n)')
    OBVIOUS
  <2>1. \A n \in Names : reported'[n] \in Nat /\ lost'[n] \in Nat
    BY DEF TypeOK
  <2> QED BY <2>1 DEF Adjoining, AdjoiningAt
<1> SUFFICES ASSUME TypeOK, TickShape, Adjoining, [Next]_vars, ~reset', spent'.crashes = 0,
                    NEW m \in Names
             PROVE  Good(m)'
  BY <1>0p, NextType
<1> DEFINE s == S(m)
           d == m[2]
           r == reported[m]
           b == batch[m]
           c == counter[m]
           l == lost[m]
<1>a. ~reset
  BY DEF Next, vars, Traffic, QuerySingle, QueryFails, Diff, StoreUpdate, XrayRestart, AgentRestart,
         Tick, QueryDone, DiffDone, PostStats, PostStatsFails
<1>b. spent.crashes = 0 /\ ~XrayRestart
  <2>1. \/ UNCHANGED spent /\ ~XrayRestart
        \/ \E what \in {"bytes", "edits", "faults", "agentRestarts"} : Spend(what)
        \/ XrayRestart
    BY DEF Next, vars, Traffic, QuerySingle, QueryFails, Diff, StoreUpdate, AgentRestart,
           Tick, QueryDone, DiffDone, PostStats, PostStatsFails
  <2>2. ~XrayRestart
    BY SpendType DEF XrayRestart
  <2> QED BY <2>1, <2>2, SpendType
<1>c. AdjoiningAt(m, Raw(m), s, r, b, c, l)
  BY <1>0, <1>a, <1>b
<1>d. c \in Nat /\ b \in Nat /\ r \in Nat /\ l \in Nat
  BY Numbers
<1>e. s = None \/ s[d] \in Nat
  BY SampleType
<1>f. Zero[m] = 0 /\ Plus(reported, batch)[m] = r + b /\ Plus(lost, batch)[m] = l + b
  BY Numbers, PlusType, ZeroType
<1> HIDE DEF Good
<1>1. ASSUME NEW n \in Names, Traffic(n) PROVE Good(m)'
  <2>1. (Raw(m)' <=> Raw(m)) /\ S(m)' = s /\ reported'[m] = r /\ batch'[m] = b /\ lost'[m] = l
    BY <1>1, <1>a, RawSteps DEF Traffic, loop
  <2>2. counter'[m] \in {c, c + 1}
    BY <1>1, Numbers DEF Traffic
  <2> QED BY <2>1, <2>2, <1>c, <1>d, <1>e DEF AdjoiningAt, Good
<1>2. ASSUME NEW n \in Names, QuerySingle(n) PROVE Good(m)'
  <2>1. S(m)' = s /\ reported'[m] = r /\ counter'[m] = c /\ lost'[m] = l
    BY <1>2, <1>a DEF QuerySingle
  <2>2. CASE m = n
    <3>1. ~Raw(m) /\ Raw(m)' /\ batch'[m] = c /\ b = 0
      BY <1>2, <2>2, <1>a, Numbers, RawSteps DEF QuerySingle, TickShape
    <3> QED BY <2>1, <3>1, <1>c, <1>d, <1>e DEF AdjoiningAt, Good
  <2>3. CASE m # n
    <3>1. (Raw(m)' <=> Raw(m)) /\ batch'[m] = b
      BY <1>2, <2>3, <1>a, Numbers, RawSteps DEF QuerySingle
    <3> QED BY <2>1, <3>1, <1>c DEF AdjoiningAt, Good
  <2> QED BY <2>2, <2>3
<1>3. ASSUME NEW n \in Names, QueryFails(n) PROVE Good(m)'
  <2>1. /\ ~Raw(m)' /\ S(m)' = s /\ reported'[m] = r /\ batch'[m] = 0
        /\ counter'[m] = c /\ lost'[m] = l
    BY <1>3, <1>a, <1>f, RawSteps DEF QueryFails, Idle
  <2>2. ~Raw(m) => b = 0
    BY <1>3, <1>a DEF QueryFails, TickShape, Raw
  <2> QED BY <2>1, <2>2, <1>c, <1>d, <1>e DEF AdjoiningAt, Good
<1>4. ASSUME NEW e \in Emails, Diff(e) PROVE Good(m)'
  <2>1. reported'[m] = r /\ counter'[m] = c
    BY <1>4 DEF Diff
  <2>2. CASE m[1] = e
    <3>1. m = <<e, d>> /\ d \in Dirs
      BY <2>2, NamesAt
    <3>2. /\ batch'[m] = Since(s, d, b) /\ S(m)' # None /\ S(m)'[d] = b
          /\ lost'[m] = l + IF s = None THEN Rest(m) ELSE 0
      BY <1>4, <2>2, <3>1, DiffEffect DEF Usage
    <3>3. Raw(m) /\ ~Raw(m)' /\ b <= c /\ r + l <= b
      BY <1>4, <2>2, <1>a, <1>c, RawSteps DEF AdjoiningAt
    <3>4. CASE s = None
      <4>1. batch'[m] = 0 /\ lost'[m] = b - r
        BY <3>2, <3>3, <3>4, <1>d DEF Since, Rest, WrittenOff
      <4> QED BY <2>1, <3>2, <3>3, <3>4, <4>1, <1>d DEF AdjoiningAt, Good
    <3>5. CASE s # None
      <4>1. s[d] \in Nat /\ s[d] = r + l
        BY <3>3, <3>5, <1>c, <1>e DEF AdjoiningAt
      <4>2. batch'[m] = b - s[d] /\ s[d] <= b
        BY <3>2, <3>3, <3>5, <4>1, <1>d DEF Since, UsageCounterDelta
      <4> QED BY <2>1, <3>2, <3>3, <3>5, <4>1, <4>2, <1>d DEF AdjoiningAt, Good
    <3> QED BY <3>4, <3>5
  <2>3. CASE m[1] # e
    <3>1. batch'[m] = b /\ S(m)' = s /\ lost'[m] = l
      BY <1>4, <2>3, DiffEffect
    <3>2. Raw(m)' <=> Raw(m)
      BY <1>4, <2>3, <1>a, RawSteps
    <3> QED BY <2>1, <3>1, <3>2, <1>c DEF AdjoiningAt, Good
  <2> QED BY <2>2, <2>3
<1>5. CASE StoreUpdate \/ UNCHANGED vars \/ Tick \/ QueryDone
  <2>1. /\ Raw(m)' <=> Raw(m)
        /\ S(m)' = s /\ reported'[m] = r /\ batch'[m] = b /\ counter'[m] = c /\ lost'[m] = l
    BY <1>5, <1>a, RawSteps DEF StoreUpdate, vars, loop, Tick, QueryDone
  <2> QED BY <2>1, <1>c DEF AdjoiningAt, Good
<1>6. CASE AgentRestart
  <2>1. ~Raw(m)'
    BY <1>6, <1>a, RawSteps DEF AgentRestart
  <2>2. S(m)' = None /\ reported'[m] = r /\ counter'[m] = c /\ batch'[m] = 0
    BY <1>6, <1>f, NamesAt DEF AgentRestart, NoSample, Idle
  <2>3. lost'[m] = IF pc = "push" THEN l + b ELSE l
    BY <1>6, <1>a, <1>f DEF AgentRestart
  <2>4. pc = "push" => ~Raw(m)
    BY DEF Raw
  <2> QED BY <2>1, <2>2, <2>3, <2>4, <1>c, <1>d DEF AdjoiningAt, Good
<1>7. CASE DiffDone
  <2>1. /\ reported'[m] = r /\ batch'[m] = b /\ counter'[m] = c /\ lost'[m] = l
        /\ ~Raw(m)' /\ ~Raw(m)
    BY <1>7, <1>a, RawSteps DEF DiffDone
  <2>2. S(m)' \in {s, None}
    BY <1>7, NamesAt DEF DiffDone, DropAbsent
  <2> QED BY <2>1, <2>2, <1>c DEF AdjoiningAt, Good
<1>8. CASE PostStats \/ PostStatsFails
  <2>1. /\ ~Raw(m) /\ ~Raw(m)' /\ S(m)' = s /\ batch'[m] = 0 /\ counter'[m] = c
    BY <1>8, <1>a, <1>f, RawSteps DEF PostStats, PostStatsFails, Idle
  <2>2. \/ reported'[m] = r + b /\ lost'[m] = l
        \/ reported'[m] = r /\ lost'[m] = l + b
    BY <1>8, <1>f DEF PostStats, PostStatsFails
  <2> QED BY <2>1, <2>2, <1>c, <1>d, <1>e DEF AdjoiningAt, Good
<1> QED BY <1>1, <1>2, <1>3, <1>4, <1>5, <1>6, <1>7, <1>8, <1>b DEF Next

LEMMA NextCurrent == TypeOK /\ TickShape /\ Current /\ [Next]_vars => Current'
<1> DEFINE S(n) == snapshot[Lower[n[1]]]
           Kept(n) == S(n) # None =>
                        IF pc = "push" THEN n[1] \in asked
                        ELSE n[1] \in measured \/ (pc = "diff" /\ n[1] \in asked \ undiffed)
           Unbilled(n) == n[1] \notin measured /\ ~Raw(n) => batch[n] = 0
<1> SUFFICES ASSUME TypeOK, TickShape, Current, [Next]_vars, ~reset', NEW m \in Names
             PROVE  Kept(m)' /\ Unbilled(m)'
  BY DEF Current
<1>a. ~reset
  BY DEF Next, vars, Traffic, QuerySingle, QueryFails, Diff, StoreUpdate, XrayRestart, AgentRestart,
         Tick, QueryDone, DiffDone, PostStats, PostStatsFails
<1>b. Kept(m) /\ Unbilled(m)
  BY <1>a DEF Current
<1>c. Zero[m] = 0
  BY ZeroType
<1>1. ASSUME NEW n \in Names, Traffic(n) PROVE Kept(m)' /\ Unbilled(m)'
  <2>1. UNCHANGED <<S(m), pc, asked, undiffed, measured, batch>> /\ (Raw(m)' <=> Raw(m))
    BY <1>1, <1>a, RawSteps DEF Traffic, loop
  <2> QED BY <2>1, <1>b
<1>2. ASSUME NEW n \in Names, QuerySingle(n) PROVE Kept(m)' /\ Unbilled(m)'
  <2>1. UNCHANGED <<S(m), pc, asked, undiffed, measured>>
    BY <1>2 DEF QuerySingle
  <2>2. IF m = n THEN Raw(m)' ELSE (Raw(m)' <=> Raw(m)) /\ batch'[m] = batch[m]
    BY <1>2, <1>a, RawSteps, Numbers DEF QuerySingle
  <2> QED BY <2>1, <2>2, <1>b
<1>3. ASSUME NEW n \in Names, QueryFails(n) PROVE Kept(m)' /\ Unbilled(m)'
  <2>1. UNCHANGED <<S(m), measured>> /\ pc = "query" /\ pc' = "idle" /\ batch'[m] = 0
    BY <1>3, <1>c DEF QueryFails, Idle
  <2> QED BY <2>1, <1>b
<1>4. ASSUME NEW e \in Emails, Diff(e) PROVE Kept(m)' /\ Unbilled(m)'
  <2>1. /\ UNCHANGED <<pc, asked, measured>> /\ pc = "diff"
        /\ e \in asked /\ e \in undiffed /\ undiffed' = undiffed \ {e}
    BY <1>4 DEF Diff, TickShape
  <2>2. CASE m[1] = e
    <3>1. m = <<e, m[2]>> /\ m[2] \in Dirs
      BY <2>2, NamesAt
    <3>2. batch'[m] = Since(S(m), m[2], batch[m])
      BY <1>4, <2>2, <3>1, DiffEffect DEF Usage
    <3>3. m[1] \notin measured => S(m) = None
      BY <2>1, <2>2, <1>b
    <3> QED BY <2>1, <2>2, <3>2, <3>3 DEF Since
  <2>3. CASE m[1] # e
    <3>1. batch'[m] = batch[m] /\ S(m)' = S(m) /\ (Raw(m)' <=> Raw(m))
      BY <1>4, <2>3, <1>a, DiffEffect, RawSteps
    <3> QED BY <2>1, <2>3, <3>1, <1>b
  <2> QED BY <2>2, <2>3
<1>5. CASE StoreUpdate \/ XrayRestart \/ UNCHANGED vars
  <2>1. UNCHANGED <<S(m), pc, asked, undiffed, measured, batch>> /\ (Raw(m)' <=> Raw(m))
    BY <1>5, <1>a, RawSteps DEF StoreUpdate, XrayRestart, vars, loop
  <2> QED BY <2>1, <1>b
<1>6. CASE AgentRestart
  <2>1. S(m)' = None /\ batch'[m] = 0
    BY <1>6, <1>c, NamesAt DEF AgentRestart, NoSample, Idle
  <2> QED BY <2>1
<1>7. CASE Tick
  <2>1. /\ UNCHANGED <<S(m), measured, batch>> /\ pc = "idle" /\ pc' \in {"idle", "query"}
        /\ ~Raw(m)
    BY <1>7, <1>a, RawSteps DEF Tick
  <2> QED BY <2>1, <1>b
<1>8. CASE QueryDone
  <2>1. /\ UNCHANGED <<S(m), measured, batch, asked>> /\ pc = "query" /\ pc' = "diff"
        /\ (Raw(m)' <=> Raw(m))
    BY <1>8, <1>a, RawSteps DEF QueryDone
  <2> QED BY <2>1, <1>b
<1>9. CASE DiffDone
  <2>1. /\ UNCHANGED <<measured, batch, asked>> /\ pc' = "push" /\ ~Raw(m) /\ ~Raw(m)'
    BY <1>9, <1>a, RawSteps DEF DiffDone
  <2>2. S(m)' # None => m[1] \in asked
    <3>1. m[1] \in Emails /\ Lower[m[1]] \in Keys
      BY NamesAt
    <3>2. S(m)' = IF \E e \in asked : Lower[e] = Lower[m[1]] THEN S(m) ELSE None
      BY <1>9, <3>1 DEF DiffDone, DropAbsent
    <3>3. \A e \in asked : e \in Emails
      BY DEF TypeOK
    <3> QED BY <3>1, <3>2, <3>3
  <2> QED BY <2>1, <2>2, <1>b
<1>10. CASE PostStats \/ PostStatsFails
  <2>1. /\ UNCHANGED S(m) /\ pc = "push" /\ pc' = "idle" /\ measured' = asked /\ batch'[m] = 0
    BY <1>10, <1>c DEF PostStats, PostStatsFails, Idle
  <2> QED BY <2>1, <1>b
<1> QED BY <1>1, <1>2, <1>3, <1>4, <1>5, <1>6, <1>7, <1>8, <1>9, <1>10 DEF Next
-----------------------------------------------------------------------------
(* The theorems.                                                            *)

LEMMA InitIInv == Init => IInv
<1> SUFFICES ASSUME Init PROVE IInv
  OBVIOUS
<1>1. TypeOK
  BY InitType
<1>2. \A n \in Names : /\ traffic[n] = 0 /\ counter[n] = 0 /\ reported[n] = 0
                       /\ lost[n] = 0 /\ batch[n] = 0 /\ snapshot[Lower[n[1]]] = None /\ ~Raw(n)
  BY ZeroType, NamesAt DEF Init, NoSample, Raw
<1>3. TickShape
  BY <1>2 DEF Init, TickShape
<1>4. ResetConserves
  BY <1>2 DEF ResetConserves
<1>5. Bounded
  BY <1>2 DEF Bounded, Since
<1>6. Adjoining
  BY <1>2 DEF Adjoining
<1>7. Current
  BY <1>2 DEF Current
<1> QED BY <1>1, <1>3, <1>4, <1>5, <1>6, <1>7 DEF IInv

LEMMA NextIInv == IInv /\ [Next]_vars => IInv'
  BY NextType, NextShape, NextResetConserves, NextBounded, NextAdjoining,
     NextCurrent DEF IInv

\* The inductive invariant holds of every reachable state: it accounts for the
\* traffic at every step of a tick of runStatsLoop.
THEOREM Inductive == Spec => []IInv
  BY InitIInv, NextIInv, PTL DEF Spec

\* TypeOK: every variable of runStatsLoop's model stays in its type, so
\* usageCounterDelta never yields a negative usage.
THEOREM TypeCorrect == Spec => []TypeOK
<1>1. IInv => TypeOK
  BY DEF IInv
<1> QED BY <1>1, Inductive, PTL

\* ResetConserves: with stats_reset_each_push no unit of traffic is lost or
\* duplicated between Xray's counter, the batch, the panel and the failed calls.
THEOREM NothingVanishes == Spec => []ResetConserves
<1>1. IInv => ResetConserves
  BY DEF IInv
<1> QED BY <1>1, Inductive, PTL

\* DeltaConserves: without resets successive deltas of normalizeStatsDeltas
\* adjoin through failed ticks, and clients that leave and come back are billed
\* nothing twice.
THEOREM DeltasAdjoin == Spec => []DeltaConserves
<1>1. IInv => DeltaConserves
  <2> SUFFICES ASSUME IInv, ~reset, spent.crashes = 0, pc \in {"idle", "push"},
                      NEW e \in Emails, NEW d \in Dirs, snapshot[Lower[e]] # None
               PROVE  snapshot[Lower[e]][d] =
                        batch[<<e, d>>] + reported[<<e, d>>] + lost[<<e, d>>]
    BY DEF DeltaConserves
  <2>1. <<e, d>> \in Names /\ <<e, d>>[1] = e /\ <<e, d>>[2] = d
    BY NamesAt
  <2>2. ~Raw(<<e, d>>)
    BY DEF Raw
  <2>3. TypeOK
    BY DEF IInv
  <2> DEFINE n == <<e, d>>
  <2>4. batch[n] \in Nat /\ reported[n] \in Nat /\ lost[n] \in Nat
    BY <2>1, <2>3, Numbers
  <2>5. snapshot[Lower[n[1]]][n[2]] = reported[n] + lost[n] + batch[n]
    BY <2>1, <2>2 DEF IInv, Adjoining
  <2> HIDE DEF n
  <2>6. snapshot[Lower[n[1]]][n[2]] = batch[n] + reported[n] + lost[n]
    BY <2>4, <2>5
  <2> QED BY <2>1, <2>6 DEF n
<1> QED BY <1>1, Inductive, PTL

\* NoUsageAcrossAbsence: without resets no usage is measured against a sample
\* that an earlier life of the client left in statsSnapshot.
THEOREM ReturnUnbilled == Spec => []NoUsageAcrossAbsence
<1>1. IInv => NoUsageAcrossAbsence
  BY DEF IInv, Current, NoUsageAcrossAbsence, Raw
<1> QED BY <1>1, Inductive, PTL

\* NeverOverReport: in both modes, and however Xray and the agent restart, the
\* panel is never told of more traffic than there was.
THEOREM NoOverbilling == Spec => []NeverOverReport
<1>1. IInv => NeverOverReport
  <2> SUFFICES ASSUME IInv, NEW n \in Names PROVE reported[n] <= traffic[n]
    BY DEF NeverOverReport
  <2>0. TypeOK
    BY DEF IInv
  <2>1. /\ traffic[n] \in Nat /\ counter[n] \in Nat
        /\ batch[n] \in Nat /\ reported[n] \in Nat /\ lost[n] \in Nat
    BY <2>0, Numbers
  <2>2. CASE reset
    BY <2>1, <2>2 DEF IInv, ResetConserves
  <2>3. CASE ~reset
    <3>1. snapshot[Lower[n[1]]] = None \/ snapshot[Lower[n[1]]][n[2]] \in Nat
      BY <2>0, SampleType
    <3>2. /\ Since(snapshot[Lower[n[1]]], n[2], batch[n]) \in Nat
          /\ Since(snapshot[Lower[n[1]]], n[2], counter[n]) \in Nat
          /\ UsageCounterDelta(batch[n], counter[n]) \in Nat
      BY <2>1, <3>1, SinceFacts
    <3> QED BY <2>1, <2>3, <3>2 DEF IInv, Bounded
  <2> QED BY <2>2, <2>3
<1> QED BY <1>1, Inductive, PTL
=============================================================================
