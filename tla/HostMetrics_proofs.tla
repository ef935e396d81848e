-------------------------- MODULE HostMetrics_proofs --------------------------
(* Proofs about HostMetrics, for every value of its constants.              *)
EXTENDS HostMetrics, TLAPS

USE RateAssumption, MetricAssumption, MarkAssumption

-----------------------------------------------------------------------------
(* diffUint64 and the line.                                                 *)

\* What is between two readings, and what a step of the host makes of it: a
\* reading in the middle takes nothing away, a byte adds at most one, a lost
\* interface adds nothing.
LEMMA DiffFacts ==
  ASSUME NEW a \in Nat, NEW b \in Nat, NEW c \in Nat
  PROVE  /\ Diff(a, b) \in Nat /\ Diff(a, a) = 0
         /\ Diff(a, c) <= Diff(a, b) + Diff(b, c)
         /\ Diff(a + 1, b) <= Diff(a, b) + 1
         /\ b <= a => Diff(a, b) = a - b
         /\ c <= a => Diff(c, b) <= Diff(a, b)
  BY DEF Diff

\* Once more the line rate for each unit of time.
LEMMA LineFacts ==
  ASSUME NEW t \in Nat, NEW u \in Nat, t <= u
  PROVE  /\ LineRate * t \in Nat /\ LineRate * (t + 1) = LineRate * t + LineRate
         /\ LineRate * 0 = 0
         /\ LineRate * t <= LineRate * u
<1>1. LineRate \in Nat
  OBVIOUS
<1>2. PICK d \in Nat : u = t + d
  <2>1. u - t \in Nat /\ u = t + (u - t)
    OBVIOUS
  <2> QED BY <2>1
<1>3. LineRate * u = LineRate * t + LineRate * d
  BY <1>1, <1>2
<1>4. LineRate * d \in Nat /\ LineRate * t \in Nat
  BY <1>1, <1>2
<1> QED BY <1>1, <1>3, <1>4
-----------------------------------------------------------------------------
(* Types, and what the actions do to what has been reported.                *)

LEMMA SpendType ==
  ASSUME TypeOK, NEW what \in {"resets", "restarts", "faults"}, NEW max, Spend(what, max)
  PROVE  /\ spent' \in [{"resets", "restarts", "faults"} -> Nat]
         /\ what # "resets" => spent'["resets"] = spent["resets"]
         /\ what = "resets" => spent'["resets"] # 0
  BY DEF TypeOK, Spend

LEMMA ReportedType == TypeOK => Reported \in Nat
  BY DEF TypeOK, Reported, Pending, Rates

LEMMA ReportedKept ==
  ASSUME UNCHANGED <<sum, push>>
  PROVE  Reported' = Reported
  BY DEF Reported, Pending

\* What Sample takes from the counter it reports.
LEMMA SampleReports ==
  ASSUME TypeOK, Stamped, Sample
  PROVE  /\ Reported' = Reported + Diff(reading.total, lastNet)
         /\ push' \in Rates \cup {None} /\ sum' \in [posted : Nat, unposted : Nat, dropped : Nat]
         /\ push' # None => /\ push'.delta = Diff(reading.total, lastNet)
                            /\ push'.elapsed = clock - lastAt /\ clock > lastAt
<1> DEFINE delta == Diff(reading.total, lastNet)
<1>1. /\ reading # None /\ lastNet \in Nat /\ reading.total \in Nat /\ push = None
      /\ clock \in Nat /\ lastAt \in Nat
      /\ sum \in [posted : Nat, unposted : Nat, dropped : Nat]
  BY DEF TypeOK, Sample, Stamped, Readings
<1>2. delta \in Nat
  BY <1>1, DiffFacts
<1> HIDE DEF delta
<1>3. CASE clock <= lastAt
  <2>1. sum' = [sum EXCEPT !.dropped = sum.dropped + delta] /\ push' = None
    BY <1>1, <1>3 DEF Sample, delta
  <2>2. /\ sum'.posted = sum.posted /\ sum'.unposted = sum.unposted
        /\ sum'.dropped = sum.dropped + delta
    BY <1>1, <2>1
  <2>3. Reported' = Reported + delta
    BY <1>1, <1>2, <2>1, <2>2 DEF Reported, Pending
  <2> QED BY <1>1, <1>2, <2>1, <2>3 DEF delta
<1>4. CASE ~(clock <= lastAt)
  <2>1. push' = [delta |-> delta, elapsed |-> clock - lastAt] /\ sum' = sum
    BY <1>4 DEF Sample, delta
  <2>2. push' \in Rates /\ push' # None /\ push'.delta = delta
    BY <1>1, <1>2, <1>4, <2>1 DEF Rates
  <2>3. Reported' = Reported + delta
    BY <1>1, <1>2, <2>1, <2>2 DEF Reported, Pending
  <2> QED BY <1>1, <1>4, <2>1, <2>2, <2>3 DEF delta
<1> QED BY <1>3, <1>4

LEMMA PostReports ==
  ASSUME TypeOK, PostMetrics
  PROVE  /\ Reported' = Reported /\ push' = None
         /\ sum' \in [posted : Nat, unposted : Nat, dropped : Nat]
         /\ spent' \in [{"resets", "restarts", "faults"} -> Nat]
         /\ spent'["resets"] = spent["resets"]
<1>1. /\ push # None /\ push.delta \in Nat /\ push' = None
      /\ sum \in [posted : Nat, unposted : Nat, dropped : Nat]
      /\ spent \in [{"resets", "restarts", "faults"} -> Nat]
  BY DEF TypeOK, PostMetrics, Rates
<1>2. CASE sum' = [sum EXCEPT !.posted = sum.posted + push.delta] /\ UNCHANGED spent
  <2>1. Reported' = Reported
    BY <1>1, <1>2 DEF Reported, Pending
  <2> QED BY <1>1, <1>2, <2>1
<1>3. CASE sum' = [sum EXCEPT !.unposted = sum.unposted + push.delta] /\ Spend("faults", MaxFaults)
  <2>1. Reported' = Reported
    BY <1>1, <1>3 DEF Reported, Pending
  <2> QED BY <1>1, <1>3, <2>1, SpendType
<1> QED BY <1>2, <1>3 DEF PostMetrics

LEMMA RestartReports ==
  ASSUME TypeOK, AgentRestart
  PROVE  Reported' = 0
  BY DEF AgentRestart, Reported, Pending, Nothing

LEMMA InitType == Init => TypeOK
  BY DEF Init, TypeOK, Nothing

LEMMA NextType == TypeOK /\ Stamped /\ [Next]_vars => TypeOK'
<1> SUFFICES ASSUME TypeOK, Stamped, [Next]_vars PROVE TypeOK'
  OBVIOUS
<1> USE DEF TypeOK
<1>1. CASE Carry
  BY <1>1 DEF Carry
<1>2. CASE InterfaceReset
  BY <1>2, SpendType DEF InterfaceReset, Collector
<1>3. CASE Tick
  BY <1>3 DEF Tick, Collector
<1>4. CASE ReadCounters
  <2>1. reading' \in Readings \cup {None}
    BY <1>4 DEF ReadCounters, Readings
  <2>2. spent' \in [{"resets", "restarts", "faults"} -> Nat]
    BY <1>4, SpendType DEF ReadCounters
  <2> QED BY <1>4, <2>1, <2>2 DEF ReadCounters
<1>5. CASE FirstSample
  <2>1. reading.total \in Nat /\ clock - reading.at \in 0..MaxTime
    BY <1>5 DEF FirstSample, Stamped, Readings
  <2> QED BY <1>5, <2>1 DEF FirstSample
<1>6. CASE Sample
  <2>1. reading.total \in Nat /\ clock - reading.at \in 0..MaxTime
    BY <1>6 DEF Sample, Stamped, Readings
  <2>2. /\ lastNet' = reading.total /\ lastAt' = clock /\ skew' = clock - reading.at
        /\ reading' = None /\ UNCHANGED <<total, clock, unit, carried, spent>>
    BY <1>6 DEF Sample
  <2> QED BY <1>6, <2>1, <2>2, SampleReports
<1>7. CASE PostMetrics
  <2>1. UNCHANGED <<total, clock, unit, lastNet, lastAt, reading, carried, skew>>
    BY <1>7 DEF PostMetrics
  <2> QED BY <1>7, <2>1, PostReports
<1>8. CASE AgentRestart
  BY <1>8, SpendType DEF AgentRestart, Nothing
<1>9. CASE UNCHANGED vars
  BY <1>9 DEF vars
<1> QED BY <1>1, <1>2, <1>3, <1>4, <1>5, <1>6, <1>7, <1>8, <1>9 DEF Next

LEMMA Numbers ==
  TypeOK => /\ total \in Nat /\ clock \in Nat /\ unit \in Nat /\ unit <= LineRate
            /\ lastAt \in Nat /\ skew \in Nat /\ carried \in Nat /\ Reported \in Nat
            /\ (lastNet # None => lastNet \in Nat)
            /\ (reading # None => reading.total \in Nat /\ reading.at \in Nat)
  BY ReportedType DEF TypeOK, Readings

LEMMA ReadEffect ==
  ASSUME TypeOK, ReadCounters
  PROVE  /\ reading = None /\ push = None
         /\ UNCHANGED <<total, clock, unit, lastNet, lastAt, push, carried, skew, sum>>
         /\ Reported' = Reported
         /\ spent'["resets"] = spent["resets"]
         /\ \/ reading' # None /\ reading'.total = total /\ reading'.at = clock
            \/ reading' = None
<1>1. [total |-> total, at |-> clock] \in Readings
  BY Numbers DEF Readings
<1>2. [total |-> total, at |-> clock] # None
  BY <1>1
<1> QED BY <1>2, ReportedKept, SpendType DEF ReadCounters
-----------------------------------------------------------------------------
(* The clock.                                                               *)

LEMMA NextStamped == TypeOK /\ Stamped /\ [Next]_vars => Stamped'
<1> SUFFICES ASSUME TypeOK, Stamped, [Next]_vars PROVE Stamped'
  OBVIOUS
<1> USE Numbers
<1>1. CASE Carry \/ InterfaceReset \/ UNCHANGED vars
  BY <1>1 DEF Carry, InterfaceReset, Collector, vars, Stamped
<1>2. CASE Tick
  BY <1>2 DEF Tick, Collector, Stamped
<1>3. CASE ReadCounters
  BY <1>3, ReadEffect DEF Stamped
<1>4. CASE FirstSample
  BY <1>4 DEF FirstSample, Stamped
<1>5. CASE Sample
  <2>1. lastAt' = clock /\ skew' = clock - reading.at /\ reading' = None /\ clock' = clock
        /\ reading # None
    BY <1>5 DEF Sample
  <2> QED BY <2>1 DEF Stamped
<1>6. CASE PostMetrics
  BY <1>6 DEF PostMetrics, Stamped
<1>7. CASE AgentRestart
  BY <1>7 DEF AgentRestart, Stamped
<1> QED BY <1>1, <1>2, <1>3, <1>4, <1>5, <1>6, <1>7 DEF Next
-----------------------------------------------------------------------------
(* What is reported and what was carried.                                   *)

LEMMA NextFresh == TypeOK /\ Stamped /\ Fresh /\ [Next]_vars => Fresh'
<1> SUFFICES ASSUME TypeOK, Stamped, Fresh, [Next]_vars PROVE Fresh'
  OBVIOUS
<1> USE Numbers
<1>1. CASE Carry
  BY <1>1, ReportedKept DEF Carry, Fresh
<1>2. CASE Tick \/ InterfaceReset \/ UNCHANGED vars
  BY <1>2, ReportedKept DEF Tick, InterfaceReset, Collector, vars, Fresh
<1>3. CASE ReadCounters
  BY <1>3, ReadEffect DEF Fresh
<1>4. CASE FirstSample \/ Sample
  <2>1. lastNet' # None
    BY <1>4 DEF FirstSample, Sample
  <2> QED BY <2>1 DEF Fresh
<1>5. CASE PostMetrics
  <2>1. UNCHANGED <<lastNet, reading, carried>>
    BY <1>5 DEF PostMetrics
  <2> QED BY <1>5, <2>1, PostReports DEF Fresh
<1>6. CASE AgentRestart
  BY <1>6, RestartReports DEF AgentRestart, Fresh
<1> QED BY <1>1, <1>2, <1>3, <1>4, <1>5, <1>6 DEF Next

LEMMA NextCovered == TypeOK /\ Stamped /\ Fresh /\ Covered /\ [Next]_vars => Covered'
<1> SUFFICES ASSUME TypeOK, Stamped, Fresh, Covered, [Next]_vars PROVE Covered'
  OBVIOUS
<1> USE Numbers
<1>1. CASE Carry
  <2>1. /\ total' = total + 1 /\ UNCHANGED <<lastNet, reading>> /\ Reported' = Reported
        /\ lastNet # None \/ reading # None => carried' = carried + 1
    BY <1>1, ReportedKept DEF Carry
  <2>2. /\ lastNet # None => /\ Diff(total + 1, lastNet) <= Diff(total, lastNet) + 1
                             /\ Diff(total + 1, lastNet) \in Nat /\ Diff(total, lastNet) \in Nat
        /\ reading # None => /\ Diff(total + 1, reading.total) <= Diff(total, reading.total) + 1
                             /\ Diff(total + 1, reading.total) \in Nat
                             /\ Diff(total, reading.total) \in Nat
        /\ lastNet # None /\ reading # None => Diff(reading.total, lastNet) \in Nat
    BY total + 1 \in Nat, DiffFacts
  <2> QED BY <2>1, <2>2 DEF Covered
<1>2. CASE InterfaceReset
  <2>1. /\ total' \in Nat /\ total' <= total /\ UNCHANGED <<lastNet, reading, carried>>
        /\ Reported' = Reported
    BY <1>2, ReportedKept DEF InterfaceReset, Collector
  <2>2. /\ lastNet # None => /\ Diff(total', lastNet) <= Diff(total, lastNet)
                             /\ Diff(total', lastNet) \in Nat /\ Diff(total, lastNet) \in Nat
        /\ reading # None => /\ Diff(total', reading.total) <= Diff(total, reading.total)
                             /\ Diff(total', reading.total) \in Nat
                             /\ Diff(total, reading.total) \in Nat
        /\ lastNet # None /\ reading # None => Diff(reading.total, lastNet) \in Nat
    BY <2>1, DiffFacts
  <2> QED BY <2>1, <2>2 DEF Covered
<1>3. CASE Tick \/ UNCHANGED vars
  BY <1>3, ReportedKept DEF Tick, Collector, vars, Covered
<1>4. CASE ReadCounters
  <2>1. Diff(total, total) = 0 /\ (lastNet # None => Diff(total, lastNet) \in Nat)
    BY DiffFacts
  <2> QED BY <1>4, <2>1, ReadEffect DEF Covered, Fresh
<1>5. CASE FirstSample
  <2>1. /\ lastNet = None /\ reading # None /\ lastNet' = reading.total /\ reading' = None
        /\ UNCHANGED <<total, carried>> /\ Reported' = Reported /\ lastNet' # None
    BY <1>5, ReportedKept DEF FirstSample
  <2>2. Diff(total, reading.total) \in Nat
    BY <2>1, DiffFacts
  <2> QED BY <2>1, <2>2 DEF Covered, Fresh
<1>6. CASE Sample
  <2>1. /\ lastNet # None /\ reading # None /\ lastNet' = reading.total /\ reading' = None
        /\ UNCHANGED <<total, carried>> /\ lastNet' # None
    BY <1>6 DEF Sample
  <2> QED BY <1>6, <2>1, SampleReports DEF Covered
<1>7. CASE PostMetrics
  <2>1. UNCHANGED <<total, lastNet, reading, carried>>
    BY <1>7 DEF PostMetrics
  <2> QED BY <1>7, <2>1, PostReports DEF Covered
<1>8. CASE AgentRestart
  BY <1>8 DEF AgentRestart, Covered
<1> QED BY <1>1, <1>2, <1>3, <1>4, <1>5, <1>6, <1>7, <1>8 DEF Next

LEMMA NextAdjoining == TypeOK /\ Stamped /\ Fresh /\ Adjoining /\ [Next]_vars => Adjoining'
<1> SUFFICES ASSUME TypeOK, Stamped, Fresh, Adjoining, [Next]_vars, spent'["resets"] = 0
             PROVE  Adjoining'
  BY DEF Adjoining
<1> USE Numbers
<1>1. CASE Carry
  <2>1. /\ total' = total + 1 /\ UNCHANGED <<lastNet, reading, spent>> /\ Reported' = Reported
        /\ lastNet # None \/ reading # None => carried' = carried + 1
    BY <1>1, ReportedKept DEF Carry
  <2> QED BY <2>1 DEF Adjoining
<1>2. CASE InterfaceReset
  BY <1>2, SpendType DEF InterfaceReset
<1>3. CASE Tick \/ UNCHANGED vars
  BY <1>3, ReportedKept DEF Tick, Collector, vars, Adjoining
<1>4. CASE ReadCounters
  BY <1>4, ReadEffect DEF Adjoining, Fresh
<1>5. CASE FirstSample
  <2>1. /\ lastNet = None /\ reading # None /\ lastNet' = reading.total /\ reading' = None
        /\ UNCHANGED <<total, carried, spent>> /\ Reported' = Reported /\ lastNet' # None
    BY <1>5, ReportedKept DEF FirstSample
  <2> QED BY <2>1 DEF Adjoining, Fresh
<1>6. CASE Sample
  <2>1. /\ lastNet # None /\ reading # None /\ lastNet' = reading.total /\ reading' = None
        /\ UNCHANGED <<total, carried, spent>> /\ lastNet' # None
    BY <1>6 DEF Sample
  <2>2. lastNet <= reading.total => Diff(reading.total, lastNet) = reading.total - lastNet
    BY <2>1, DiffFacts
  <2> QED BY <1>6, <2>1, <2>2, SampleReports DEF Adjoining
<1>7. CASE PostMetrics
  <2>1. UNCHANGED <<total, lastNet, reading, carried>>
    BY <1>7 DEF PostMetrics
  <2> QED BY <1>7, <2>1, PostReports DEF Adjoining
<1>8. CASE AgentRestart
  BY <1>8 DEF AgentRestart, Adjoining
<1> QED BY <1>1, <1>2, <1>3, <1>4, <1>5, <1>6, <1>7, <1>8 DEF Next
-----------------------------------------------------------------------------
(* What is reported and what the line can carry.                            *)

\* The times since the readings, and what they are worth on the line.
LEMMA Spans ==
  ASSUME TypeOK, Stamped
  PROVE  /\ clock - (lastAt - skew) \in Nat
         /\ LineRate * (clock - (lastAt - skew)) \in Nat
         /\ reading # None => /\ clock - reading.at \in Nat
                              /\ LineRate * (clock - reading.at) \in Nat
                              /\ reading.at - (lastAt - skew) + 1 \in Nat
                              /\ LineRate * (reading.at - (lastAt - skew) + 1) \in Nat
<1>1. /\ clock - (lastAt - skew) \in Nat
      /\ reading # None => /\ clock - reading.at \in Nat
                           /\ reading.at - (lastAt - skew) + 1 \in Nat
  BY Numbers DEF Stamped
<1> QED BY <1>1, LineFacts

LEMMA NextCarriable == TypeOK /\ Stamped /\ Carriable /\ [Next]_vars => Carriable'
<1> SUFFICES ASSUME TypeOK, Stamped, Carriable, [Next]_vars PROVE Carriable'
  OBVIOUS
<1> USE Numbers
<1>a. /\ lastNet # None => Diff(total, lastNet) \in Nat
      /\ reading # None => Diff(total, reading.total) \in Nat
      /\ lastNet # None /\ reading # None => Diff(reading.total, lastNet) \in Nat
  BY DiffFacts
<1>1. CASE Carry
  <2>1. /\ total' = total + 1 /\ unit' = unit + 1
        /\ UNCHANGED <<lastNet, lastAt, skew, reading, clock>>
    BY <1>1 DEF Carry
  <2>2. /\ lastNet # None => /\ Diff(total + 1, lastNet) <= Diff(total, lastNet) + 1
                             /\ Diff(total + 1, lastNet) \in Nat
        /\ reading # None => /\ Diff(total + 1, reading.total) <= Diff(total, reading.total) + 1
                             /\ Diff(total + 1, reading.total) \in Nat
    BY total + 1 \in Nat, DiffFacts
  <2> QED BY <1>a, <2>1, <2>2, Spans DEF Carriable
<1>2. CASE InterfaceReset
  <2>1. /\ total' \in Nat /\ total' <= total
        /\ UNCHANGED <<lastNet, lastAt, skew, reading, clock, unit>>
    BY <1>2 DEF InterfaceReset, Collector
  <2>2. /\ lastNet # None => /\ Diff(total', lastNet) <= Diff(total, lastNet)
                             /\ Diff(total', lastNet) \in Nat
        /\ reading # None => /\ Diff(total', reading.total) <= Diff(total, reading.total)
                             /\ Diff(total', reading.total) \in Nat
    BY <2>1, DiffFacts
  <2> QED BY <1>a, <2>1, <2>2, Spans DEF Carriable
<1>3. CASE Tick
  <2>1. /\ clock' = clock + 1 /\ unit' = 0
        /\ UNCHANGED <<total, lastNet, lastAt, skew, reading>>
    BY <1>3 DEF Tick, Collector
  <2>2. LineRate * ((clock - (lastAt - skew)) + 1) = LineRate * (clock - (lastAt - skew)) + LineRate
    BY Spans, LineFacts
  <2>3. reading # None =>
           LineRate * ((clock - reading.at) + 1) = LineRate * (clock - reading.at) + LineRate
    BY Spans, LineFacts
  <2>4. /\ clock' - (lastAt' - skew') = (clock - (lastAt - skew)) + 1
        /\ reading # None => clock' - reading'.at = (clock - reading.at) + 1
    BY <2>1
  <2>5. /\ lastNet # None => Diff(total, lastNet) <= LineRate * (clock' - (lastAt' - skew')) + unit'
        /\ reading # None => Diff(total, reading.total) <= LineRate * (clock' - reading'.at) + unit'
    BY <1>a, <2>1, <2>2, <2>3, <2>4, Spans DEF Carriable
  <2> QED BY <2>1, <2>5 DEF Carriable
<1>4. CASE ReadCounters
  <2> DEFINE span == clock - (lastAt - skew)
  <2>1. UNCHANGED <<total, clock, unit, lastNet, lastAt, skew>>
    BY <1>4, ReadEffect
  <2>2. CASE reading' = None
    BY <2>1, <2>2 DEF Carriable
  <2>3. CASE reading' # None /\ reading'.total = total /\ reading'.at = clock
    <3>1. Diff(total, total) = 0
      BY DiffFacts
    <3>2. LineRate * (span + 1) = LineRate * span + LineRate
      BY Spans, LineFacts
    <3>3. lastNet # None => Diff(total, lastNet) <= LineRate * (span + 1)
      BY <1>a, <3>2, Spans DEF Carriable
    <3>4. clock - clock = 0 /\ LineRate * 0 = 0
      BY LineFacts
    <3> QED BY <2>1, <2>3, <3>1, <3>3, <3>4 DEF Carriable
  <2> QED BY <1>4, <2>2, <2>3, ReadEffect
<1>5. CASE FirstSample \/ Sample
  <2>1. /\ reading # None /\ lastNet' = reading.total /\ lastAt' = clock /\ reading' = None
        /\ skew' = clock - reading.at /\ UNCHANGED <<total, clock, unit>>
    BY <1>5 DEF FirstSample, Sample
  <2>2. clock' - (lastAt' - skew') = clock - reading.at
    BY <2>1
  <2> QED BY <2>1, <2>2 DEF Carriable
<1>6. CASE PostMetrics \/ UNCHANGED vars
  BY <1>6 DEF PostMetrics, vars, Carriable
<1>7. CASE AgentRestart
  BY <1>7 DEF AgentRestart, Carriable
<1> QED BY <1>1, <1>2, <1>3, <1>4, <1>5, <1>6, <1>7 DEF Next
-----------------------------------------------------------------------------
(* The results.                                                             *)

LEMMA InitIInv == Init => IInv
<1> SUFFICES ASSUME Init PROVE IInv
  OBVIOUS
<1>1. Stamped /\ Covered /\ Adjoining /\ Carriable
  BY DEF Init, Stamped, Covered, Adjoining, Carriable
<1>2. Fresh
  BY DEF Init, Fresh, Reported, Pending, Nothing
<1> QED BY <1>1, <1>2, InitType DEF IInv

LEMMA NextIInv == IInv /\ [Next]_vars => IInv'
  BY NextType, NextStamped, NextFresh, NextCovered, NextAdjoining, NextCarriable DEF IInv

\* The inductive invariant holds of every reachable state.
THEOREM Inductive == Spec => []IInv
  BY InitIInv, NextIInv, PTL DEF Spec

\* Whatever fails in Collector.Sample and PostMetrics, every variable keeps its
\* type: bytesToMbps never divides by a zero or negative time.
THEOREM TypeCorrect == Spec => []TypeOK
  BY Inductive, PTL DEF IInv

\* diffUint64 never makes netThroughput report more bytes than the host carried
\* since the agent's first sample, however many interfaces come and go.
THEOREM NothingInvented == Spec => []NeverOverstated
<1>1. IInv => NeverOverstated
  <2> SUFFICES ASSUME IInv PROVE Reported <= carried
    BY DEF NeverOverstated
  <2>0. TypeOK /\ Fresh /\ Covered
    BY DEF IInv
  <2>1. /\ lastNet # None => Diff(total, lastNet) \in Nat
        /\ reading # None => Diff(total, reading.total) \in Nat
        /\ lastNet # None /\ reading # None => Diff(reading.total, lastNet) \in Nat
    BY <2>0, Numbers, DiffFacts
  <2> QED BY <2>0, <2>1, Numbers DEF Fresh, Covered
<1> QED BY <1>1, Inductive, PTL

\* The samples of netThroughput tile what the host carried, across readings and
\* pushes that fail and restarts of the agent, while no interface starts over.
THEOREM SamplesTile == Spec => []SamplesAdjoin
<1>1. IInv => SamplesAdjoin
  BY DEF IInv, Adjoining, SamplesAdjoin
<1> QED BY <1>1, Inductive, PTL

\* A rate of netThroughput exceeds the line's by no more than what the delay
\* between net.IOCounters and time.Now of the sample before accounts for, at
\* whatever times the two are read.
THEOREM NoPhantomRate == Spec => RateBounded
<1>1. ASSUME IInv, [Next]_vars, push = None, push' # None
      PROVE  push'.delta <= LineRate * (push'.elapsed + skew + 1)
  <2>0. TypeOK /\ Stamped /\ Carriable
    BY <1>1 DEF IInv
  <2>1. Sample
    BY <1>1, <2>0 DEF Next, vars, Carry, InterfaceReset, Tick, Collector, ReadCounters,
                      FirstSample, PostMetrics, AgentRestart
  <2>2. lastNet # None /\ reading # None
    BY <2>1 DEF Sample
  <2>3. /\ push'.delta = Diff(reading.total, lastNet) /\ push'.elapsed = clock - lastAt
        /\ clock > lastAt
    BY <1>1, <2>0, <2>1, SampleReports
  <2>4. /\ reading.at - (lastAt - skew) + 1 \in Nat /\ push'.elapsed + skew + 1 \in Nat
        /\ reading.at - (lastAt - skew) + 1 <= push'.elapsed + skew + 1
    BY <2>0, <2>2, <2>3, Numbers DEF Stamped
  <2>5. LineRate * (reading.at - (lastAt - skew) + 1) <= LineRate * (push'.elapsed + skew + 1)
    BY <2>4, LineFacts
  <2>6. /\ LineRate * (reading.at - (lastAt - skew) + 1) \in Nat
        /\ LineRate * (push'.elapsed + skew + 1) \in Nat
    BY <2>4, LineFacts
  <2>7. Diff(reading.total, lastNet) \in Nat
    BY <2>0, <2>2, Numbers, DiffFacts
  <2> QED BY <2>0, <2>2, <2>3, <2>5, <2>6, <2>7 DEF Carriable
<1> QED BY <1>1, Inductive, PTL DEF RateBounded, Spec
=============================================================================
