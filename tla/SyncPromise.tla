----------------------------- MODULE SyncPromise -----------------------------
(***************************************************************************)
(* What the state synchronisation promises, without saying how: a runtime  *)
(* is a set of slots (an account of an inbound, a routing rule), syncs are *)
(* serial, each takes one state the panel published as a whole, changes    *)
(* only slots in which that state differs from what it took the runtime to *)
(* hold, and is recorded only as a whole.  StateSync implements it.        *)
(***************************************************************************)
EXTENDS Naturals

CONSTANTS Slots, Values, None   \* None is not one of the Values

VARIABLES
    wanted,   \* the panel's state: its serial number and its slots
    kept,     \* the state the agent recorded as applied
    runtime,  \* what Xray holds
    goal,     \* the state being applied, None between two syncs
    base,     \* the slots the current sync takes the runtime to hold
    clean     \* nothing but the current sync changed the runtime since it was base

vars == <<wanted, kept, runtime, goal, base, clean>>

Contents == [Slots -> Values \cup {None}]
States   == [rev : Nat, slots : Contents]
Nothing  == [s \in Slots |-> None]
Blank    == [rev |-> 0, slots |-> Nothing]

Init ==
    /\ wanted = [rev |-> 1, slots |-> Nothing]
    /\ kept = Blank
    /\ runtime = Nothing
    /\ goal = None /\ base = None
    /\ clean = TRUE

\* The panel publishes another state.
Publish ==
    /\ wanted' \in [rev : {wanted.rev + 1}, slots : Contents]
    /\ UNCHANGED <<kept, runtime, goal, base, clean>>

\* A sync starts from the recorded state or, after a restart of Xray, from nothing.
Begin ==
    /\ goal = None
    /\ goal' = wanted
    /\ base' \in {kept.slots, Nothing}
    /\ clean' = (runtime = base')
    /\ UNCHANGED <<wanted, kept, runtime>>

Stop == goal' = None /\ base' = None

\* A slot in which the states differ is emptied or filled; the call may fail.
Touch(s) ==
    /\ goal # None /\ base[s] # goal.slots[s]
    /\ \E v \in {None, goal.slots[s]} : runtime' = [runtime EXCEPT ![s] = v]
    /\ \/ UNCHANGED <<goal, base, clean>>
       \/ Stop /\ clean' = FALSE
    /\ UNCHANGED <<wanted, kept>>

GiveUp ==
    /\ goal # None
    /\ Stop /\ clean' = FALSE
    /\ UNCHANGED <<wanted, kept, runtime>>

\* The state is recorded; if nothing interfered, Xray holds it and nothing else.
Record ==
    /\ goal # None
    /\ clean => runtime = goal.slots
    /\ kept' = goal
    /\ Stop
    /\ UNCHANGED <<wanted, runtime, clean>>

\* Xray starts anew.
Reset ==
    /\ runtime' = Nothing /\ clean' = FALSE
    /\ UNCHANGED <<wanted, kept, goal, base>>

\* The agent starts anew, with Xray or without.
Restart ==
    /\ kept' = Blank
    /\ Stop
    /\ \/ runtime' = Nothing /\ clean' = TRUE
       \/ UNCHANGED runtime /\ clean' = FALSE
    /\ UNCHANGED wanted

Next == \/ Publish \/ Begin \/ GiveUp \/ Record \/ Reset \/ Restart
        \/ \E s \in Slots : Touch(s)

Spec == Init /\ [][Next]_vars
=============================================================================
