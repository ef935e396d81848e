----------------------------- MODULE HostMetrics -----------------------------
(***************************************************************************)
(* The bandwidth the agent reports: runMetricsLoop and the collector, whose *)
(* netThroughput turns two readings of the host's byte counters and of the *)
(* clock into a rate.  The counter is read first and the clock after it,   *)
(* interfaces come and go, a reading or a push may fail.                   *)
(*                                                                         *)
(* The collector asks for the sum over all interfaces, so the interfaces   *)
(* are modelled by that sum.  One direction is modelled (both are treated  *)
(* alike) and a rate is kept as the pair of its delta and elapsed time.    *)
(***************************************************************************)
EXTENDS Naturals

CONSTANTS
    LineRate,    \* bytes that all interfaces carry in one unit of time at most
    None,
    MaxBefore,   \* bound: bytes carried before the agent starts
    MaxTime,     \* bound: length of a behaviour
    MaxResets,   \* bound: interfaces that start over
    MaxRestarts, \* bound: restarts of the agent
    MaxFaults    \* bound: failed readings and pushes

ASSUME RateAssumption   == LineRate \in Nat \ {0}
ASSUME MetricAssumption == {MaxBefore, MaxTime, MaxResets, MaxRestarts, MaxFaults} \subseteq Nat

Readings == [total : Nat, at : Nat]
Rates    == [delta : Nat, elapsed : Nat \ {0}]
\* A mark is neither a number nor a reading nor a rate.
ASSUME MarkAssumption == None \notin Nat \cup Readings \cup Rates

VARIABLES
    total,     \* BytesSent, summed over the interfaces
    clock,     \* time
    unit,      \* bytes carried in the current unit of time
    lastNet,   \* Collector.lastNet: the total of the last sample
    lastAt,    \* Collector.lastAt
    reading,   \* a total that was read and not yet stamped, and when it was read
    push,      \* the rate about to be posted
    carried,   \* history: bytes carried since the first sample of this agent
    skew,      \* history: time between reading and stamping the last sample
    sum,       \* history: what became of the bytes: posted, unposted, dropped
    spent      \* how much of each bound is used up

vars == <<total, clock, unit, lastNet, lastAt, reading, push, carried, skew, sum, spent>>

Collector == <<lastNet, lastAt, reading, push, carried, skew, sum>>
Nothing == [posted |-> 0, unposted |-> 0, dropped |-> 0]

Init ==
    /\ total \in 0..MaxBefore     \* the host was up before the agent
    /\ clock = 0 /\ unit = 0
    /\ lastNet = None /\ lastAt = 0
    /\ reading = None /\ push = None
    /\ carried = 0 /\ skew = 0 /\ sum = Nothing
    /\ spent = [resets |-> 0, restarts |-> 0, faults |-> 0]

Spend(what, max) == spent[what] < max /\ spent' = [spent EXCEPT ![what] = @ + 1]
-----------------------------------------------------------------------------
(* The host.                                                                *)

Carry ==
    /\ unit < LineRate
    /\ unit' = unit + 1
    /\ total' = total + 1
    /\ carried' = IF lastNet = None /\ reading = None THEN 0 ELSE carried + 1
    /\ UNCHANGED <<clock, lastNet, lastAt, reading, push, skew, sum, spent>>

Tick ==
    /\ clock < MaxTime
    /\ clock' = clock + 1 /\ unit' = 0
    /\ UNCHANGED <<total, Collector, spent>>

\* An interface goes or is created anew: its part of the total is gone.
InterfaceReset ==
    /\ Spend("resets", MaxResets)
    /\ \E part \in 1..total : total' = total - part
    /\ UNCHANGED <<clock, unit, Collector>>
-----------------------------------------------------------------------------
(* runMetricsLoop, collectMetricsSample, Sample.                            *)

\* net.IOCounters of a tick; a failure leaves the collector as it is.
ReadCounters ==
    /\ reading = None /\ push = None
    /\ \/ reading' = [total |-> total, at |-> clock] /\ UNCHANGED spent
       \/ Spend("faults", MaxFaults) /\ UNCHANGED reading
    /\ UNCHANGED <<total, clock, unit, lastNet, lastAt, push, carried, skew, sum>>

\* Mutant: a counter that went back is taken for one that started from zero.
DiffFromZero(curr, prev) == IF curr >= prev THEN curr - prev ELSE curr

\* diffUint64.
Diff(curr, prev) == IF curr >= prev THEN curr - prev ELSE 0

\* Mutant: the first sample is compared with zero.
FirstSampleFromZero ==
    /\ reading # None /\ lastNet = None
    /\ push' = IF clock > lastAt THEN [delta |-> reading.total, elapsed |-> clock - lastAt] ELSE None
    /\ lastNet' = reading.total /\ lastAt' = clock
    /\ skew' = clock - reading.at
    /\ reading' = None
    /\ UNCHANGED <<total, clock, unit, carried, sum, spent>>

\* The first sample has nothing to be compared with.
FirstSample ==
    /\ reading # None /\ lastNet = None
    /\ lastNet' = reading.total /\ lastAt' = clock
    /\ skew' = clock - reading.at
    /\ reading' = None
    /\ UNCHANGED <<total, clock, unit, push, carried, sum, spent>>

\* Mutant: samples of the same instant are not recognised.
SampleUnguarded ==
    /\ reading # None /\ lastNet # None
    /\ push' = [delta |-> Diff(reading.total, lastNet), elapsed |-> clock - lastAt]
    /\ lastNet' = reading.total /\ lastAt' = clock
    /\ skew' = clock - reading.at
    /\ reading' = None
    /\ UNCHANGED <<total, clock, unit, carried, sum, spent>>

\* Mutant: the total is kept, the clock is not, when the clock stood still.
SampleKeepsTotal ==
    /\ reading # None /\ lastNet # None
    /\ IF clock <= lastAt
       THEN UNCHANGED <<push, sum, lastNet>>
       ELSE /\ push' = [delta |-> Diff(reading.total, lastNet), elapsed |-> clock - lastAt]
            /\ UNCHANGED <<sum, lastNet>>
    /\ lastAt' = clock
    /\ skew' = clock - reading.at
    /\ reading' = None
    /\ UNCHANGED <<total, clock, unit, carried, spent>>

\* netThroughput: no rate if no time passed; the pair is replaced in any case.
Sample ==
    /\ reading # None /\ lastNet # None
    /\ LET delta == Diff(reading.total, lastNet)
       IN  IF clock <= lastAt
           THEN sum' = [sum EXCEPT !.dropped = @ + delta] /\ UNCHANGED push
           ELSE push' = [delta |-> delta, elapsed |-> clock - lastAt] /\ UNCHANGED sum
    /\ lastNet' = reading.total /\ lastAt' = clock
    /\ skew' = clock - reading.at
    /\ reading' = None
    /\ UNCHANGED <<total, clock, unit, carried, spent>>

\* PostMetrics: a failed push is logged and forgotten.
PostMetrics ==
    /\ push # None
    /\ \/ sum' = [sum EXCEPT !.posted = @ + push.delta] /\ UNCHANGED spent
       \/ sum' = [sum EXCEPT !.unposted = @ + push.delta] /\ Spend("faults", MaxFaults)
    /\ push' = None
    /\ UNCHANGED <<total, clock, unit, lastNet, lastAt, reading, carried, skew>>

\* A new agent starts with a new collector.
AgentRestart ==
    /\ Spend("restarts", MaxRestarts)
    /\ lastNet' = None /\ lastAt' = 0
    /\ reading' = None /\ push' = None
    /\ carried' = 0 /\ skew' = 0 /\ sum' = Nothing
    /\ UNCHANGED <<total, clock, unit>>

Next == \/ Carry \/ InterfaceReset
        \/ Tick \/ ReadCounters \/ FirstSample \/ Sample \/ PostMetrics \/ AgentRestart

Spec == Init /\ [][Next]_vars
-----------------------------------------------------------------------------
Pending == IF push = None THEN 0 ELSE push.delta
Reported == sum.posted + sum.unposted + sum.dropped + Pending

\* Every variable stays in its type, and a rate has a positive elapsed time to
\* be divided by.
TypeOK ==
    /\ total \in Nat /\ clock \in 0..MaxTime /\ unit \in 0..LineRate
    /\ lastNet \in Nat \cup {None} /\ lastAt \in 0..MaxTime
    /\ reading \in Readings \cup {None} /\ push \in Rates \cup {None}
    /\ carried \in Nat /\ skew \in 0..MaxTime
    /\ sum \in [posted : Nat, unposted : Nat, dropped : Nat]
    /\ spent \in [{"resets", "restarts", "faults"} -> Nat]

\* The deltas never add up to more than the host carried since the agent's first
\* sample, also when interfaces come and go (diffUint64, collector.go:99).
NeverOverstated == Reported <= carried

\* As long as no interface starts over the samples neither overlap nor leave a
\* gap, whatever readings and pushes fail: what is not in a delta is what came
\* after the last reading.
SamplesAdjoin ==
    lastNet # None /\ spent["resets"] = 0 => Reported + (total - lastNet) = carried

\* A rate is no fiction: it does not exceed what the line carries, save for the
\* time the collector lost between reading the counter and the clock, and for
\* the units of time the interval begins and ends in (collector.go:60-92).
RateBounded ==
    [][push = None /\ push' # None => push'.delta <= LineRate * (push'.elapsed + skew + 1)]_vars
-----------------------------------------------------------------------------
(* The inductive invariant behind these.                                    *)

\* The clock does not run back; a sample is stamped after it was read, and read
\* after the one before it was posted.
Stamped ==
    /\ skew <= lastAt /\ lastAt <= clock
    /\ reading # None => lastAt <= reading.at /\ reading.at <= clock /\ push = None

\* Before its first sample an agent has reported nothing, and what the host
\* carries counts from the reading of that sample.
Fresh ==
    lastNet = None => /\ Reported = 0
                      /\ reading = None => carried = 0

\* NeverOverstated with what the samples to come will add.
Covered ==
    /\ lastNet # None /\ reading = None => Reported + Diff(total, lastNet) <= carried
    /\ lastNet # None /\ reading # None =>
          Reported + Diff(reading.total, lastNet) + Diff(total, reading.total) <= carried
    /\ lastNet = None /\ reading # None => Diff(total, reading.total) <= carried

\* SamplesAdjoin with the reading that is not yet a sample.
Adjoining ==
    spent["resets"] = 0 =>
        /\ reading # None => reading.total <= total
        /\ lastNet # None => lastNet <= total
        /\ lastNet # None /\ reading # None => lastNet <= reading.total
        /\ lastNet = None /\ reading # None => carried = total - reading.total
        /\ lastNet # None => Reported + (total - lastNet) = carried

\* What the line can have carried since the last sample was read, since the
\* reading, and between the two.
Carriable ==
    /\ lastNet # None => Diff(total, lastNet) <= LineRate * (clock - (lastAt - skew)) + unit
    /\ reading # None => Diff(total, reading.total) <= LineRate * (clock - reading.at) + unit
    /\ lastNet # None /\ reading # None =>
          Diff(reading.total, lastNet) <= LineRate * (reading.at - (lastAt - skew) + 1)

IInv == TypeOK /\ Stamped /\ Fresh /\ Covered /\ Adjoining /\ Carriable
=============================================================================
