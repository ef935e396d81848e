------------------------------ MODULE UsageStats ------------------------------
(***************************************************************************)
(* The usage accounting of xray-agent (runStatsLoop): per-user traffic     *)
(* counters are read from Xray one RPC at a time, turned into deltas and   *)
(* pushed to the panel.  Two modes: with stats_reset_each_push Xray zeroes *)
(* a counter as it is read; otherwise the agent keeps the last sample of   *)
(* every user and sends differences.  Nothing is retried.                  *)
(*                                                                         *)
(* The loop interleaves with traffic, with the state loop that changes the *)
(* stored clients, with restarts of Xray and of the agent, and every call  *)
(* may fail with or without having taken effect.                           *)
(***************************************************************************)
EXTENDS Integers

CONSTANTS
    Emails,            \* emails of clients, as the panel spells them
    Keys,              \* emails in lower case
    Lower,             \* strings.ToLower
    None,              \* no sample kept
    MaxBytes,          \* bound: units of traffic
    MaxEdits,          \* bound: changes of the stored clients
    MaxFaults,         \* bound: failed calls
    MaxCrashes,        \* bound: restarts of Xray
    MaxAgentRestarts   \* bound: restarts of the agent

Dirs  == {"uplink", "downlink"}
Names == Emails \X Dirs     \* user>>>email>>>traffic>>>direction

ASSUME LowerAssumption  == /\ Lower \in [Emails -> Keys]
                           /\ \A e, f \in Emails : Lower[e] = Lower[f] => e = f
ASSUME NoSampleAssumption == None \notin [Dirs -> Nat]
ASSUME LimitsAssumption == {MaxBytes, MaxEdits, MaxFaults, MaxCrashes, MaxAgentRestarts} \subseteq Nat

VARIABLES
    reset,     \* xray.stats_reset_each_push, fixed by the configuration
    clients,   \* emails in state.Store
    traffic,   \* history: units that went through Xray, per counter name
    counter,   \* Xray's counters
    snapshot,  \* Agent.statsSnapshot: the last sample per lower-case email
    pc,        \* where the loop is: between ticks, reading, taking deltas, pushing
    asked,     \* the emails of this tick
    todo,      \* counters still to be read
    undiffed,  \* emails normalizeStatsDeltas has still to visit
    batch,     \* the values read, later the usages to push
    measured,  \* history: the emails of the last tick of this process that took its deltas
    reported,  \* history: what the panel has added up
    lost,      \* history: units dropped with a failed call, a first sample or a dead process
    spent      \* how much of each bound is used up

vars == <<reset, clients, traffic, counter, snapshot, pc, asked, todo, undiffed, batch, measured, reported, lost, spent>>
loop == <<pc, asked, todo, undiffed, batch>>

Zero     == [n \in Names |-> 0]
NoSample == [k \in Keys |-> None]

Init ==
    /\ reset \in BOOLEAN
    /\ clients = {}
    /\ traffic = Zero /\ counter = Zero /\ reported = Zero /\ lost = Zero
    /\ snapshot = NoSample
    /\ pc = "idle" /\ asked = {} /\ todo = {} /\ undiffed = {} /\ batch = Zero /\ measured = {}
    /\ spent = [bytes |-> 0, edits |-> 0, faults |-> 0, crashes |-> 0, agentRestarts |-> 0]

Spend(what)  == spent' = [spent EXCEPT ![what] = @ + 1]
MayFail      == spent.faults < MaxFaults
Plus(f, g)   == [n \in Names |-> f[n] + g[n]]
-----------------------------------------------------------------------------
(* The surroundings.                                                        *)

Traffic(n) ==
    /\ spent.bytes < MaxBytes
    /\ Spend("bytes")
    /\ traffic' = [traffic EXCEPT ![n] = @ + 1]
    /\ counter' = [counter EXCEPT ![n] = @ + 1]
    /\ UNCHANGED <<reset, clients, snapshot, loop, measured, reported, lost>>

\* Store.Update by a sync.
StoreUpdate ==
    /\ spent.edits < MaxEdits
    /\ Spend("edits")
    /\ clients' \in SUBSET Emails
    /\ UNCHANGED <<reset, traffic, counter, snapshot, loop, measured, reported, lost>>

\* Counters live in the Xray process.
XrayRestart ==
    /\ spent.crashes < MaxCrashes
    /\ Spend("crashes")
    /\ counter' = Zero
    /\ lost' = IF reset THEN Plus(lost, counter) ELSE lost
    /\ UNCHANGED <<reset, clients, traffic, snapshot, loop, measured, reported>>

Idle == /\ pc' = "idle" /\ batch' = Zero
        /\ asked' = {} /\ todo' = {} /\ undiffed' = {}

\* Samples and store live in the agent's memory.
AgentRestart ==
    /\ spent.agentRestarts < MaxAgentRestarts
    /\ Spend("agentRestarts")
    /\ clients' = {} /\ snapshot' = NoSample /\ measured' = {}
    /\ Idle
    /\ lost' = IF reset \/ pc = "push" THEN Plus(lost, batch) ELSE lost
    /\ UNCHANGED <<reset, traffic, counter, reported>>
-----------------------------------------------------------------------------
(* runStatsLoop.                                                            *)

\* A tick: the emails in the store are read once; without any it does nothing.
Tick ==
    /\ pc = "idle"
    /\ IF clients = {}
       THEN UNCHANGED <<pc, asked, todo>>
       ELSE pc' = "query" /\ asked' = clients /\ todo' = clients \X Dirs
    /\ UNCHANGED <<reset, clients, traffic, counter, snapshot, undiffed, batch, measured, reported, lost, spent>>

\* Mutant: the reset flag is not passed on.
QuerySingleNoReset(n) ==
    /\ pc = "query" /\ n \in todo
    /\ batch' = [batch EXCEPT ![n] = counter[n]]
    /\ todo' = todo \ {n}
    /\ UNCHANGED <<reset, clients, traffic, counter, snapshot, pc, asked, undiffed, measured, reported, lost, spent>>

\* querySingle: one counter is read, and zeroed in the same call if so asked.
\* The order of the calls (sorted emails, uplink first) is left open.
QuerySingle(n) ==
    /\ pc = "query" /\ n \in todo
    /\ batch' = [batch EXCEPT ![n] = counter[n]]
    /\ counter' = IF reset THEN [counter EXCEPT ![n] = 0] ELSE counter
    /\ todo' = todo \ {n}
    /\ UNCHANGED <<reset, clients, traffic, snapshot, pc, asked, undiffed, measured, reported, lost, spent>>

\* One failing call drops the whole tick, with everything read before it; the
\* counter may have been zeroed although no answer came.
QueryFails(n) ==
    /\ pc = "query" /\ n \in todo
    /\ MayFail /\ Spend("faults")
    /\ \/ /\ UNCHANGED counter
          /\ lost' = IF reset THEN Plus(lost, batch) ELSE lost
       \/ /\ reset
          /\ counter' = [counter EXCEPT ![n] = 0]
          /\ lost' = Plus(lost, [batch EXCEPT ![n] = counter[n]])
    /\ Idle
    /\ UNCHANGED <<reset, clients, traffic, snapshot, measured, reported>>

\* All counters are read.  With resets the values are the usages and old samples
\* are dropped; otherwise normalizeStatsDeltas starts.
QueryDone ==
    /\ pc = "query" /\ todo = {}
    /\ IF reset
       THEN pc' = "push" /\ snapshot' = NoSample /\ UNCHANGED undiffed
       ELSE pc' = "diff" /\ undiffed' = asked /\ UNCHANGED snapshot
    /\ UNCHANGED <<reset, clients, traffic, counter, asked, todo, batch, measured, reported, lost, spent>>

\* Mutant: a counter that started over is not recognised.
UsageCounterDeltaNoReset(prev, curr) == curr - prev

\* usageCounterDelta.
UsageCounterDelta(prev, curr) ==
    IF curr <= 0 THEN 0 ELSE IF curr >= prev THEN curr - prev ELSE curr

\* Mutant: the first sample counts from zero.
FirstUsageFromZero(value) == value

\* A user without a sample reports nothing yet.
FirstUsage(value) == 0

\* History: a first sample writes off what lies below it and is not yet accounted for.
WrittenOff(left) == IF left > 0 THEN left ELSE 0

\* normalizeStatsDeltas visits the emails in the order of a Go map.
Diff(e) ==
    LET prev  == snapshot[Lower[e]]
        value == [d \in Dirs |-> batch[<<e, d>>]]
        usage == [d \in Dirs |-> IF prev = None THEN FirstUsage(value[d])
                                 ELSE UsageCounterDelta(prev[d], value[d])]
        unsaid(d) == IF prev = None
                     THEN WrittenOff(value[d] - usage[d] - reported[<<e, d>>] - lost[<<e, d>>])
                     ELSE 0
    IN  /\ pc = "diff" /\ e \in undiffed
        /\ batch' = [n \in Names |-> IF n[1] = e THEN usage[n[2]] ELSE batch[n]]
        /\ snapshot' = [snapshot EXCEPT ![Lower[e]] = value]
        /\ lost' = [n \in Names |-> IF n[1] = e THEN lost[n] + unsaid(n[2]) ELSE lost[n]]
        /\ undiffed' = undiffed \ {e}
        /\ UNCHANGED <<reset, clients, traffic, counter, pc, asked, todo, measured, reported, spent>>

\* Mutant: samples are kept for good.
DropAbsentNever(samples) == samples

\* The samples of emails that were not asked for are deleted.
DropAbsent(samples) ==
    [k \in Keys |-> IF \E e \in asked : Lower[e] = k THEN samples[k] ELSE None]

DiffDone ==
    /\ pc = "diff" /\ undiffed = {}
    /\ pc' = "push"
    /\ snapshot' = DropAbsent(snapshot)
    /\ UNCHANGED <<reset, clients, traffic, counter, asked, todo, undiffed, batch, measured, reported, lost, spent>>

\* Mutant: a failed push is sent once more.
PostStatsRetries ==
    /\ pc = "push"
    /\ \/ Idle /\ UNCHANGED spent
       \/ MayFail /\ Spend("faults") /\ UNCHANGED loop
    /\ reported' = Plus(reported, batch) /\ measured' = asked
    /\ UNCHANGED <<reset, clients, traffic, counter, snapshot, lost>>

\* PostStats is accepted.
PostStats ==
    /\ pc = "push"
    /\ reported' = Plus(reported, batch) /\ measured' = asked
    /\ Idle
    /\ UNCHANGED <<reset, clients, traffic, counter, snapshot, lost, spent>>

\* PostStats fails, whether or not the panel got the batch; it is not kept.
PostStatsFails ==
    /\ pc = "push"
    /\ MayFail /\ Spend("faults")
    /\ \/ reported' = Plus(reported, batch) /\ UNCHANGED lost
       \/ lost' = Plus(lost, batch) /\ UNCHANGED reported
    /\ Idle /\ measured' = asked
    /\ UNCHANGED <<reset, clients, traffic, counter, snapshot>>
-----------------------------------------------------------------------------
Next ==
    \/ \E n \in Names : Traffic(n) \/ QuerySingle(n) \/ QueryFails(n)
    \/ \E e \in Emails : Diff(e)
    \/ StoreUpdate \/ XrayRestart \/ AgentRestart
    \/ Tick \/ QueryDone \/ DiffDone \/ PostStats \/ PostStatsFails

Spec == Init /\ [][Next]_vars
-----------------------------------------------------------------------------
(* Properties.                                                              *)

\* Every variable stays in its type; in particular no usage is negative.
TypeOK ==
    /\ reset \in BOOLEAN
    /\ clients \in SUBSET Emails /\ asked \in SUBSET Emails /\ undiffed \in SUBSET Emails
    /\ measured \in SUBSET Emails
    /\ {traffic, counter, batch, reported, lost} \subseteq [Names -> Nat]
    /\ snapshot \in [Keys -> [Dirs -> Nat] \cup {None}]
    /\ pc \in {"idle", "query", "diff", "push"}
    /\ todo \in SUBSET Names
    /\ spent \in [{"bytes", "edits", "faults", "crashes", "agentRestarts"} -> Nat]

\* No user is ever billed for traffic it did not make: failed pushes are not
\* repeated, counters that start over after a restart of Xray are recognised,
\* and a first sample counts nothing (agent.go:396-438).  Emails are taken to
\* differ in more than case.
NeverOverReport == \A n \in Names : reported[n] <= traffic[n]

\* With resets, every unit is in exactly one place: in Xray's counter, in the
\* batch of the running tick, with the panel, or lost with a failed call or a
\* dead process.  Nothing is lost or duplicated between two ticks.
ResetConserves ==
    reset => \A n \in Names : traffic[n] = counter[n] + batch[n] + reported[n] + lost[n]

\* With samples, as long as Xray does not restart: whatever lies below the
\* sample of a user has been reported, is in the batch, or was lost; nothing
\* above it was, and no unit counts twice.  The deltas of successive ticks add
\* up without gap or overlap through failed ticks, and a client that comes back,
\* or that a restarted agent meets again, is not billed a second time for what
\* an earlier sample of it covered (normalizeStatsDeltas, agent.go:396-428).
DeltaConserves ==
    ~reset /\ spent.crashes = 0 /\ pc \in {"idle", "push"} =>
        \A e \in Emails, d \in Dirs :
            snapshot[Lower[e]] # None =>
                snapshot[Lower[e]][d] = batch[<<e, d>>] + reported[<<e, d>>] + lost[<<e, d>>]

\* With samples, a tick bills nothing to a client that the tick before it did not
\* ask for, be it new, back after an absence, or met for the first time by this
\* process: no usage is measured against a sample of an earlier life of the
\* client (agent.go:421-425).  Ticks that find no client at all, or fail, do not
\* count as the tick before.
NoUsageAcrossAbsence ==
    ~reset /\ pc = "push" => \A n \in Names : n[1] \notin measured => batch[n] = 0
-----------------------------------------------------------------------------
(* The inductive invariant behind them.                                     *)

\* Without resets, batch[n] is a value read from Xray, not yet a usage.
Raw(n) == ~reset /\ \/ pc = "query" /\ n[1] \in asked /\ n \notin todo
                    \/ pc = "diff" /\ n[1] \in undiffed

\* The lists of a tick stay within the emails it asked for, and the batch is zero
\* wherever nothing has been read.
TickShape ==
    /\ todo \subseteq asked \X Dirs /\ (todo # {} => pc = "query")
    /\ undiffed \subseteq asked /\ (undiffed # {} => pc = "diff")
    /\ pc = "idle" => asked = {}
    /\ pc = "diff" => ~reset
    /\ \A n \in Names : n[1] \notin asked \/ n \in todo => batch[n] = 0

\* The usage that a counter at v adds to a sample.
Since(sample, d, v) == IF sample = None THEN 0 ELSE UsageCounterDelta(sample[d], v)

\* Without resets: what is reported, what is about to be and what the counter
\* would still add, also after it started over, stays below the traffic.
Bounded ==
    ~reset => \A n \in Names :
        LET sample == snapshot[Lower[n[1]]]
        IN  IF Raw(n) THEN reported[n] + Since(sample, n[2], batch[n])
                                       + UsageCounterDelta(batch[n], counter[n]) <= traffic[n]
                      ELSE reported[n] + batch[n] + Since(sample, n[2], counter[n]) <= traffic[n]

\* Without resets and restarts of Xray: values read and counters ascend and stay
\* above what was reported, is to be, or was lost, and a sample is made up of it.
Adjoining ==
    ~reset /\ spent.crashes = 0 => \A n \in Names :
        LET told   == reported[n] + lost[n] + (IF Raw(n) THEN 0 ELSE batch[n])
            sample == snapshot[Lower[n[1]]]
        IN  /\ IF Raw(n) THEN told <= batch[n] /\ batch[n] <= counter[n] ELSE told <= counter[n]
            /\ sample # None => sample[n[2]] = told

\* Without resets: outside a tick's deltas only emails of the last tick have
\* samples, and the others have no usage.
Current ==
    ~reset => \A n \in Names :
        /\ snapshot[Lower[n[1]]] # None =>
             IF pc = "push" THEN n[1] \in asked
                            ELSE n[1] \in measured \/ (pc = "diff" /\ n[1] \in asked \ undiffed)
        /\ n[1] \notin measured /\ ~Raw(n) => batch[n] = 0

IInv == TypeOK /\ TickShape /\ ResetConserves /\ Bounded /\ Adjoining /\ Current
=============================================================================
