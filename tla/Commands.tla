------------------------------- MODULE Commands -------------------------------
(***************************************************************************)
(* The command loop of xray-agent: RESTART_CORE, RESTART_AGENT,            *)
(* UPDATE_CORE and UPDATE_AGENT, polled from the panel, executed and       *)
(* acknowledged; the Xray and agent binaries they replace; the restart of  *)
(* the agent that a systemd timer carries out; and the two other           *)
(* goroutines that touch the reported core version (runCoreUpdateLoop and  *)
(* runHeartbeatLoop).                                                      *)
(*                                                                         *)
(* A command stays with the panel until an acknowledgement arrives, so a   *)
(* lost one leads to a second execution.  How the forced sync works is     *)
(* StateSync's subject: here it succeeds or fails.                         *)
(***************************************************************************)
EXTENDS Integers

CONSTANTS
    Cmds,           \* commands the panel issues
    Versions,       \* release tags, in the normal form of normalizeTaggedVersion
    Oldest,         \* what is installed and running at first
    None,           \* no version, no command
    MaxFaults,      \* bound: failed calls, downloads and systemctl runs
    MaxDeaths,      \* bound: restarts of the agent nobody asked for
    MaxTimers       \* bound: scheduled restarts of the agent under way

ASSUME InstalledAssumption == Oldest \in Versions /\ None \notin Versions \cup Cmds
ASSUME CountsAssumption    == {MaxFaults, MaxDeaths, MaxTimers} \subseteq Nat

Types == {"RESTART_CORE", "RESTART_AGENT", "UPDATE_CORE", "UPDATE_AGENT", "OTHER"}

\* What a command asks for; target is what normalizeTargetVersion makes of the
\* payload, None when it is missing or blank.
Orders == [type : Types, target : Versions \cup {None}]

VARIABLES
    checking,     \* core_check_sec is not negative; fixed by the configuration
    status,       \* panel: "new", "pending" or the recorded answer, per command
    order,        \* panel: the content of each command
    pc, cur,      \* executeNextCommand: where it is, with which command
    result,       \* AgentCommandAck.Status
    coreBin,      \* version of the Xray binary on disk
    coreRun,      \* version of the Xray process
    agentBin,     \* version of the agent binary on disk
    agentRun,     \* version of the agent process
    timers,       \* systemd-run timers that will restart the agent
    coreVersion,  \* Client.xrayCoreVersion
    seen,         \* Check: the installed version read before asking GitHub
    beat,         \* runHeartbeatLoop: the version in the request under way
    shown,        \* panel: core version of the last heartbeat
    spent         \* how much of each bound is used up

vars  == <<checking, status, order, pc, cur, result, coreBin, coreRun, agentBin, agentRun, timers,
           coreVersion, seen, beat, shown, spent>>
panel == <<status, order>>
agent == <<agentBin, agentRun, timers>>
core  == <<coreBin, coreRun>>

Answers == {"SUCCEEDED", "FAILED"}

Init ==
    /\ checking \in BOOLEAN
    /\ status = [c \in Cmds |-> "new"]
    /\ order = [c \in Cmds |-> [type |-> "OTHER", target |-> None]]
    /\ pc = "idle" /\ cur = None /\ result = "FAILED"
    /\ coreBin = Oldest /\ coreRun = Oldest
    /\ agentBin = Oldest /\ agentRun = Oldest /\ timers = 0
    /\ coreVersion = Oldest /\ seen = None /\ beat = None /\ shown = Oldest
    /\ spent = [faults |-> 0, deaths |-> 0]

Fault == /\ spent.faults < MaxFaults
         /\ spent' = [spent EXCEPT !.faults = @ + 1]
-----------------------------------------------------------------------------
(* Polling and acknowledging.                                               *)

Issue(c) ==
    /\ status[c] = "new"
    /\ status' = [status EXCEPT ![c] = "pending"]
    /\ \E o \in Orders : order' = [order EXCEPT ![c] = o]
    /\ UNCHANGED <<checking, pc, cur, result, core, agent, coreVersion, seen, beat, shown, spent>>

\* GetNextCommand returns a command that has not been answered yet.
GetNextCommand(c) ==
    /\ pc = "idle" /\ status[c] = "pending"
    /\ pc' = "execute" /\ cur' = c
    /\ UNCHANGED <<checking, panel, result, core, agent, coreVersion, seen, beat, shown, spent>>

Ask(type) == pc = "execute" /\ order[cur].type = type
Finish(answer) == pc' = "ack" /\ result' = answer /\ cur' = cur

\* AckCommand: recorded, or lost on the way; the loop goes on either way.
AckCommand ==
    /\ pc = "ack"
    /\ pc' = "idle" /\ cur' = None /\ UNCHANGED result
    /\ \/ status' = [status EXCEPT ![cur] = result] /\ UNCHANGED spent
       \/ Fault /\ UNCHANGED status
    /\ UNCHANGED <<checking, order, core, agent, coreVersion, seen, beat, shown>>

\* Mutant: a type that is not known is passed over in silence.
UnsupportedIgnored ==
    /\ Ask("OTHER")
    /\ pc' = "idle" /\ cur' = None
    /\ UNCHANGED <<checking, panel, result, core, agent, coreVersion, seen, beat, shown, spent>>

\* executeAgentCommand, default branch.
Unsupported ==
    /\ Ask("OTHER")
    /\ Finish("FAILED")
    /\ UNCHANGED <<checking, panel, core, agent, coreVersion, seen, beat, shown, spent>>
-----------------------------------------------------------------------------
(* The agent's own restart and update.                                      *)

\* scheduleAgentRestart, then the acknowledgement.
Schedule ==
    \/ /\ timers < MaxTimers
       /\ timers' = timers + 1 /\ Finish("SUCCEEDED") /\ UNCHANGED spent
    \/ Fault /\ Finish("FAILED") /\ UNCHANGED timers

RestartAgent ==
    /\ Ask("RESTART_AGENT")
    /\ Schedule
    /\ UNCHANGED <<checking, panel, agentBin, agentRun, core, coreVersion, seen, beat, shown>>

\* Mutant: the target is compared with the binary on disk.
UpdateAgentComparesDisk ==
    LET target == order[cur].target
    IN  /\ Ask("UPDATE_AGENT")
        /\ \/ target = None /\ Finish("FAILED") /\ UNCHANGED agentBin
           \/ target = agentBin /\ Finish("SUCCEEDED") /\ UNCHANGED agentBin
           \/ /\ target \notin {None, agentBin}
              /\ agentBin' = target /\ pc' = "schedule" /\ UNCHANGED <<cur, result>>
        /\ UNCHANGED <<checking, panel, agentRun, timers, core, coreVersion, seen, beat, shown, spent>>

\* selfupdate.InstallOrUpdate: asking for the release, downloading, verifying or
\* writing the new binary fails, or it is renamed into place.
AgentInstallFails     == Fault /\ UNCHANGED agentBin
AgentInstalls(target) == agentBin' = target

\* updateAgentAndAck up to the new binary: the target is compared with the
\* running version.
UpdateAgent ==
    LET target == order[cur].target
    IN  /\ Ask("UPDATE_AGENT")
        /\ \/ target = None /\ Finish("FAILED") /\ UNCHANGED <<agentBin, spent>>
           \/ target # None /\ AgentInstallFails /\ Finish("FAILED")
           \/ target = agentRun /\ Finish("SUCCEEDED") /\ UNCHANGED <<agentBin, spent>>
           \/ /\ target \notin {None, agentRun}
              /\ AgentInstalls(target) /\ pc' = "schedule"
              /\ UNCHANGED <<cur, result, spent>>
        /\ UNCHANGED <<checking, panel, agentRun, timers, core, coreVersion, seen, beat, shown>>

\* updateAgentAndAck after the new binary is in place.
ScheduleUpdated ==
    /\ pc = "schedule"
    /\ Schedule
    /\ UNCHANGED <<checking, panel, agentBin, agentRun, core, coreVersion, seen, beat, shown>>

\* The agent process is replaced.  Its unit restarts Xray first (ExecStartPre),
\* and runAgentArgs reads the installed core version again.
AgentStart ==
    /\ agentRun' = agentBin
    /\ coreRun' = coreBin
    /\ coreVersion' = coreBin
    /\ pc' = "idle" /\ cur' = None /\ seen' = None /\ beat' = None
    /\ UNCHANGED <<checking, panel, result, agentBin, coreBin, shown>>

\* The timer of systemd-run is not the agent's child: it survives the agent.
TimerFires ==
    /\ timers > 0
    /\ timers' = timers - 1
    /\ AgentStart
    /\ UNCHANGED spent

AgentDies ==
    /\ spent.deaths < MaxDeaths
    /\ spent' = [spent EXCEPT !.deaths = @ + 1]
    /\ AgentStart
    /\ UNCHANGED timers
-----------------------------------------------------------------------------
(* Xray's restart and update.                                               *)

\* Mutants: the target is compared with the reported version; it is not required.
UpdateCoreComparesReported ==
    LET target == order[cur].target
    IN  /\ Ask("UPDATE_CORE")
        /\ IF target = None
           THEN Finish("FAILED") /\ UNCHANGED <<coreBin, coreVersion>>
           ELSE /\ coreVersion' = target
                /\ coreBin' = IF target = coreVersion THEN coreBin ELSE target
                /\ pc' = (IF target = coreVersion THEN "refresh" ELSE "restart")
                /\ UNCHANGED <<cur, result>>
        /\ UNCHANGED <<checking, panel, coreRun, agent, seen, beat, shown, spent>>
UpdateCoreNoTarget ==
    /\ Ask("UPDATE_CORE")
    /\ coreBin' = order[cur].target /\ coreVersion' = order[cur].target
    /\ pc' = "restart"
    /\ UNCHANGED <<checking, panel, cur, result, coreRun, agent, seen, beat, shown, spent>>

\* xraycore.InstallOrUpdate fails before the binary is replaced (release,
\* download, checksum) or after it (data files, config test, systemd unit), or
\* goes through.
CoreInstallFails(target) == Fault /\ coreBin' \in {coreBin, target}
CoreInstalls(target)     == coreBin' = target

\* updateCoreAndAck up to SetXrayCoreVersion: the target is compared with the
\* binary on disk.
UpdateCore ==
    LET target == order[cur].target
    IN  /\ Ask("UPDATE_CORE")
        /\ \/ target = None /\ Finish("FAILED") /\ UNCHANGED <<coreBin, coreVersion, spent>>
           \/ /\ target # None /\ CoreInstallFails(target)
              /\ Finish("FAILED") /\ UNCHANGED coreVersion
           \/ /\ target = coreBin
              /\ coreVersion' = target
              /\ pc' = "refresh" /\ UNCHANGED <<cur, result, coreBin, spent>>
           \/ /\ target \notin {None, coreBin}
              /\ CoreInstalls(target) /\ coreVersion' = target
              /\ pc' = "restart" /\ UNCHANGED <<cur, result, spent>>
        /\ UNCHANGED <<checking, panel, coreRun, agent, seen, beat, shown>>

\* executeAgentCommand, RESTART_CORE.
RestartCore ==
    /\ Ask("RESTART_CORE")
    /\ pc' = "restart"
    /\ UNCHANGED <<checking, panel, cur, result, core, agent, coreVersion, seen, beat, shown, spent>>

\* Mutant: the exit status of systemctl is not looked at.
RunSystemctlIgnoresError ==
    /\ pc = "restart"
    /\ pc' = "sync"
    /\ \/ coreRun' = coreBin /\ UNCHANGED spent
       \/ Fault /\ UNCHANGED coreRun
    /\ UNCHANGED <<checking, panel, cur, result, coreBin, agent, coreVersion, seen, beat, shown>>

\* systemctl restart xray, with or without effect when it fails.
RunSystemctl ==
    /\ pc = "restart"
    /\ \/ coreRun' = coreBin /\ pc' = "sync" /\ UNCHANGED <<cur, result, spent>>
       \/ Fault /\ coreRun' \in {coreRun, coreBin} /\ Finish("FAILED")
    /\ UNCHANGED <<checking, panel, coreBin, agent, coreVersion, seen, beat, shown>>

\* syncStateAfterCoreRestart, as a whole.
SyncAfterCoreRestart ==
    /\ pc = "sync"
    /\ \/ /\ IF order[cur].type = "UPDATE_CORE"
             THEN pc' = "refresh" /\ UNCHANGED <<cur, result>>
             ELSE Finish("SUCCEEDED")
          /\ UNCHANGED spent
       \/ Fault /\ Finish("FAILED")
    /\ UNCHANGED <<checking, panel, core, agent, coreVersion, seen, beat, shown>>

\* refreshCoreVersionHeartbeat: a failure is only logged.
RefreshHeartbeat ==
    /\ pc = "refresh"
    /\ \/ shown' = coreVersion /\ UNCHANGED spent
       \/ Fault /\ UNCHANGED shown
    /\ Finish("SUCCEEDED")
    /\ UNCHANGED <<checking, panel, core, agent, coreVersion, seen, beat>>
-----------------------------------------------------------------------------
(* The other goroutines.                                                    *)

\* runCoreUpdateLoop returns at once if core_check_sec is negative; otherwise
\* xraycore.Check reads the installed version, then asks GitHub for the latest.
CheckReads ==
    /\ checking /\ seen = None
    /\ seen' = coreBin
    /\ UNCHANGED <<checking, panel, pc, cur, result, core, agent, coreVersion, beat, shown, spent>>

\* Mutant: the result of the check is not taken over.
CheckEndsQuietly ==
    /\ seen # None
    /\ seen' = None
    /\ UNCHANGED <<checking, panel, pc, cur, result, core, agent, coreVersion, beat, shown, spent>>

\* GitHub answers and the version read before is set; on an error it is not.
CheckEnds ==
    /\ seen # None
    /\ seen' = None
    /\ \/ coreVersion' = seen /\ UNCHANGED spent
       \/ Fault /\ UNCHANGED coreVersion
    /\ UNCHANGED <<checking, panel, pc, cur, result, core, agent, beat, shown>>

\* Client.Heartbeat in runHeartbeatLoop: the version is read, the request arrives
\* later, after a refreshing one perhaps, or not at all.
HeartbeatReads ==
    /\ beat = None
    /\ beat' = coreVersion
    /\ UNCHANGED <<checking, panel, pc, cur, result, core, agent, coreVersion, seen, shown, spent>>

Heartbeat ==
    /\ beat # None
    /\ beat' = None
    /\ \/ shown' = beat /\ UNCHANGED spent
       \/ Fault /\ UNCHANGED shown
    /\ UNCHANGED <<checking, panel, pc, cur, result, core, agent, coreVersion, seen>>
-----------------------------------------------------------------------------
CommandLoop == \/ \E c \in Cmds : GetNextCommand(c)
               \/ AckCommand \/ Unsupported
               \/ RestartAgent \/ UpdateAgent \/ ScheduleUpdated
               \/ UpdateCore \/ RestartCore \/ RunSystemctl \/ SyncAfterCoreRestart
               \/ RefreshHeartbeat

Next == \/ \E c \in Cmds : Issue(c)
        \/ CommandLoop
        \/ TimerFires \/ AgentDies
        \/ CheckReads \/ CheckEnds \/ HeartbeatReads \/ Heartbeat

Spec == Init /\ [][Next]_vars

\* Every loop that has started keeps ticking, and timers go off; CheckReads is
\* never enabled where the update check is switched off.  Failures may happen at every
\* call, but not for ever (MaxFaults).  A restart of the agent, due after
\* agentRestartDelay, may overtake the acknowledgement of the command that asked
\* for it, but not each time the command is executed.
Fairness == /\ WF_vars(CommandLoop) /\ SF_vars(AckCommand) /\ WF_vars(TimerFires)
            /\ WF_vars(CheckReads) /\ WF_vars(CheckEnds)
            /\ WF_vars(HeartbeatReads) /\ WF_vars(Heartbeat)

FairSpec == Spec /\ Fairness
-----------------------------------------------------------------------------
(* Properties.                                                              *)

\* Every variable stays in its type; whoever is in a command has one.
TypeOK ==
    /\ checking \in BOOLEAN
    /\ status \in [Cmds -> {"new", "pending"} \cup Answers]
    /\ order \in [Cmds -> Orders]
    /\ pc \in {"idle", "execute", "schedule", "restart", "sync", "refresh", "ack"}
    /\ cur \in Cmds \cup {None} /\ (cur = None <=> pc = "idle")
    /\ result \in Answers
    /\ {coreBin, coreRun, agentBin, agentRun, coreVersion, shown} \subseteq Versions
    /\ timers \in 0..MaxTimers
    /\ {seen, beat} \subseteq Versions \cup {None}
    /\ spent \in [{"faults", "deaths"} -> Nat]

\* The panel records an answer of command c in this step.
Records(c, answer) == status[c] = "pending" /\ status'[c] = answer

\* UPDATE_AGENT answers SUCCEEDED only if the requested version runs or is on
\* disk with a restart under way, whatever failed before and however often the
\* command was delivered (command_loop.go:142-197).
UpdatedAgentRuns ==
    [][\A c \in Cmds : order[c].type = "UPDATE_AGENT" /\ Records(c, "SUCCEEDED") =>
          \/ agentRun = order[c].target
          \/ agentBin = order[c].target /\ timers > 0]_vars

\* The same for Xray's binary: a SUCCEEDED UPDATE_CORE leaves the requested
\* version installed, although the reported version it might be compared with
\* is written by two goroutines and can be stale.
UpdatedCoreInstalled ==
    [][\A c \in Cmds : order[c].type = "UPDATE_CORE" /\ Records(c, "SUCCEEDED") =>
          coreBin = order[c].target]_vars

\* A RESTART_CORE that SUCCEEDED left Xray running the binary on disk, also when
\* an earlier update had failed to restart it (command_loop.go:277-287).
RestartedCoreRuns ==
    [][\A c \in Cmds : order[c].type = "RESTART_CORE" /\ Records(c, "SUCCEEDED") =>
          coreRun = coreBin]_vars

\* Every command is answered in the end: lost acknowledgements, restarts of the
\* agent in the middle of a command and failed executions only delay it.
EveryCommandAnswered ==
    \A c \in Cmds : status[c] = "pending" ~> status[c] \in Answers

\* The panel ends up showing the core version the agent has, although a
\* heartbeat that was under way arrives after the newer one; and, where the update
\* check runs (agent.go:277-288), that is the version installed, although a check
\* that was under way writes back what it read before an update, and an update
\* that fails behind the new binary does not report it.
HeartbeatConverges == /\ <>[](shown = coreVersion)
                      /\ checking => <>[](shown = coreBin)
-----------------------------------------------------------------------------
(* The inductive invariant behind the safety properties.                    *)

\* A command being executed is still unanswered at the panel, so its content
\* stays what it was when it was fetched.
Unanswered == pc # "idle" => status[cur] = "pending"

\* What a command that has got this far has already brought about.
Staged ==
    /\ pc = "schedule" => order[cur].type = "UPDATE_AGENT" /\ agentBin = order[cur].target
    /\ pc \in {"restart", "sync"} => order[cur].type \in {"RESTART_CORE", "UPDATE_CORE"}
    /\ pc = "refresh" => order[cur].type = "UPDATE_CORE"
    /\ pc \in {"restart", "sync", "refresh"} /\ order[cur].type = "UPDATE_CORE" =>
          coreBin = order[cur].target
    /\ pc = "sync" => coreRun = coreBin

\* The answer about to be sent is true, and stays true until it is recorded.
Truthful ==
    pc = "ack" /\ result = "SUCCEEDED" =>
        /\ order[cur].type = "UPDATE_AGENT" =>
              \/ agentRun = order[cur].target
              \/ agentBin = order[cur].target /\ timers > 0
        /\ order[cur].type = "UPDATE_CORE" => coreBin = order[cur].target
        /\ order[cur].type = "RESTART_CORE" => coreRun = coreBin

IInv == TypeOK /\ Unanswered /\ Staged /\ Truthful
=============================================================================
