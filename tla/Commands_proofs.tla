---------------------------- MODULE Commands_proofs ----------------------------
(* Proofs about Commands, for every value of its constants.                 *)
EXTENDS Commands, TLAPS

USE InstalledAssumption, CountsAssumption

Spending == spent' = spent \/ Fault

LEMMA FaultType ==
  ASSUME TypeOK, Spending
  PROVE  spent' \in [{"faults", "deaths"} -> Nat]
  BY DEF TypeOK, Fault, Spending

\* The command being executed and its content.
LEMMA Current ==
  ASSUME TypeOK, pc # "idle"
  PROVE  /\ cur \in Cmds /\ cur # None /\ order[cur] \in Orders
         /\ order[cur].type \in Types /\ order[cur].target \in Versions \cup {None}
<1>1. cur \in Cmds /\ cur # None
  BY DEF TypeOK
<1>2. order[cur] \in Orders
  BY <1>1 DEF TypeOK
<1> QED BY <1>1, <1>2 DEF Orders

LEMMA InitType == Init => TypeOK
<1> SUFFICES ASSUME Init PROVE TypeOK
  OBVIOUS
<1>1. order \in [Cmds -> Orders]
  BY DEF Init, Orders, Types
<1> QED BY <1>1 DEF Init, TypeOK, Answers

LEMMA NextType == TypeOK /\ [Next]_vars => TypeOK'
<1> SUFFICES ASSUME TypeOK, [Next]_vars PROVE TypeOK'
  OBVIOUS
<1> USE DEF panel, agent, core, Finish, Answers
<1>1. ASSUME NEW c \in Cmds, Issue(c) PROVE TypeOK'
  BY <1>1 DEF Issue, TypeOK
<1>2. ASSUME NEW c \in Cmds, GetNextCommand(c) PROVE TypeOK'
  BY <1>2 DEF GetNextCommand, TypeOK
<1>3. CASE AckCommand
  <2>1. spent' \in [{"faults", "deaths"} -> Nat]
    BY <1>3, FaultType DEF AckCommand, Spending
  <2> QED BY <1>3, <2>1 DEF AckCommand, TypeOK
<1>4. CASE Unsupported
  BY <1>4 DEF Unsupported, Ask, TypeOK
<1>5. CASE RestartAgent \/ ScheduleUpdated
  <2>1. spent' \in [{"faults", "deaths"} -> Nat]
    BY <1>5, FaultType DEF RestartAgent, ScheduleUpdated, Schedule, Spending
  <2>2. pc # "idle" /\ cur' = cur /\ pc' = "ack" /\ result' \in Answers /\ timers' \in 0..MaxTimers
    BY <1>5 DEF RestartAgent, ScheduleUpdated, Schedule, Ask, TypeOK
  <2> QED BY <1>5, <2>1, <2>2 DEF RestartAgent, ScheduleUpdated, TypeOK
<1>6. CASE UpdateAgent
  <2>0. pc # "idle" /\ order[cur].target \in Versions \cup {None}
    BY <1>6, Current DEF UpdateAgent, Ask
  <2>1. spent' \in [{"faults", "deaths"} -> Nat]
    BY <1>6, FaultType DEF UpdateAgent, AgentInstallFails, Spending
  <2>2. agentBin' \in Versions /\ cur' = cur /\ pc' \in {"ack", "schedule"} /\ result' \in Answers
    BY <1>6, <2>0 DEF UpdateAgent, AgentInstallFails, AgentInstalls, TypeOK
  <2> QED BY <1>6, <2>0, <2>1, <2>2 DEF UpdateAgent, TypeOK
<1>7. CASE UpdateCore
  <2>0. pc # "idle" /\ order[cur].target \in Versions \cup {None}
    BY <1>7, Current DEF UpdateCore, Ask
  <2>1. spent' \in [{"faults", "deaths"} -> Nat]
    BY <1>7, FaultType DEF UpdateCore, CoreInstallFails, Spending
  <2>2. /\ coreBin' \in Versions /\ coreVersion' \in Versions /\ cur' = cur
        /\ pc' \in {"ack", "refresh", "restart"} /\ result' \in Answers
    BY <1>7, <2>0 DEF UpdateCore, CoreInstallFails, CoreInstalls, TypeOK
  <2> QED BY <1>7, <2>0, <2>1, <2>2 DEF UpdateCore, TypeOK
<1>8. CASE RestartCore
  BY <1>8 DEF RestartCore, Ask, TypeOK
<1>9. CASE RunSystemctl
  <2>1. spent' \in [{"faults", "deaths"} -> Nat]
    BY <1>9, FaultType DEF RunSystemctl, Spending
  <2> QED BY <1>9, <2>1 DEF RunSystemctl, TypeOK
<1>10. CASE SyncAfterCoreRestart
  <2>1. spent' \in [{"faults", "deaths"} -> Nat]
    BY <1>10, FaultType DEF SyncAfterCoreRestart, Spending
  <2> QED BY <1>10, <2>1 DEF SyncAfterCoreRestart, TypeOK
<1>11. CASE RefreshHeartbeat
  <2>1. spent' \in [{"faults", "deaths"} -> Nat]
    BY <1>11, FaultType DEF RefreshHeartbeat, Spending
  <2> QED BY <1>11, <2>1 DEF RefreshHeartbeat, TypeOK
<1>12. CASE TimerFires
  BY <1>12 DEF TimerFires, AgentStart, TypeOK
<1>13. CASE AgentDies
  BY <1>13 DEF AgentDies, AgentStart, TypeOK
<1>14. CASE CheckReads \/ HeartbeatReads
  BY <1>14 DEF CheckReads, HeartbeatReads, TypeOK
<1>15. CASE CheckEnds \/ Heartbeat
  <2>1. spent' \in [{"faults", "deaths"} -> Nat]
    BY <1>15, FaultType DEF CheckEnds, Heartbeat, Spending
  <2> QED BY <1>15, <2>1 DEF CheckEnds, Heartbeat, TypeOK
<1>16. CASE UNCHANGED vars
  BY <1>16 DEF vars, TypeOK
<1> QED BY <1>1, <1>2, <1>3, <1>4, <1>5, <1>6, <1>7, <1>8, <1>9, <1>10, <1>11, <1>12, <1>13,
           <1>14, <1>15, <1>16 DEF Next, CommandLoop
-----------------------------------------------------------------------------
(* The command being executed.                                              *)

\* Only the acknowledgement changes the status of a command that is executed,
\* and nothing changes its content.
LEMMA Kept ==
  ASSUME TypeOK, Unanswered, [Next]_vars, pc # "idle", ~AckCommand
  PROVE  status'[cur] = "pending" /\ order'[cur] = order[cur]
<1> USE DEF panel, agent, core
<1>0. cur \in Cmds /\ status[cur] = "pending"
  BY Current DEF Unanswered
<1>1. ASSUME NEW c \in Cmds, Issue(c) PROVE status'[cur] = "pending" /\ order'[cur] = order[cur]
  <2>1. c # cur
    BY <1>0, <1>1 DEF Issue
  <2> QED BY <1>0, <1>1, <2>1 DEF Issue, TypeOK
<1>2. CASE UNCHANGED panel
  BY <1>0, <1>2
<1>3. (\E c \in Cmds : Issue(c)) \/ UNCHANGED panel
  BY DEF Next, CommandLoop, GetNextCommand, Unsupported, RestartAgent, UpdateAgent,
         ScheduleUpdated, UpdateCore, RestartCore, RunSystemctl, SyncAfterCoreRestart,
         RefreshHeartbeat, TimerFires, AgentDies, AgentStart, CheckReads, CheckEnds,
         HeartbeatReads, Heartbeat, vars
<1> QED BY <1>1, <1>2, <1>3

\* The steps that are not the command loop's leave it alone or end it.
LEMMA Bystanders ==
  ASSUME [Next]_vars, ~CommandLoop
  PROVE  \/ pc' = "idle"
         \/ UNCHANGED <<pc, cur, result, coreBin, coreRun, agentBin, agentRun, timers>>
  BY DEF Next, Issue, TimerFires, AgentDies, AgentStart, CheckReads, CheckEnds,
         HeartbeatReads, Heartbeat, vars, agent, core

LEMMA NextUnanswered == TypeOK /\ Unanswered /\ [Next]_vars => Unanswered'
<1> SUFFICES ASSUME TypeOK, Unanswered, [Next]_vars, pc' # "idle" PROVE status'[cur'] = "pending"
  BY DEF Unanswered
<1>1. CASE \E c \in Cmds : GetNextCommand(c)
  BY <1>1 DEF GetNextCommand, panel
<1>2. CASE ~\E c \in Cmds : GetNextCommand(c)
  <2>1. pc # "idle" /\ cur' = cur /\ ~AckCommand
    BY <1>2, Bystanders DEF CommandLoop, Unsupported, RestartAgent, UpdateAgent, ScheduleUpdated,
       UpdateCore, RestartCore, RunSystemctl, SyncAfterCoreRestart, RefreshHeartbeat,
       Schedule, Finish, Ask, AckCommand
  <2> QED BY <2>1, Kept
<1> QED BY <1>1, <1>2

LEMMA NextStaged ==
  TypeOK /\ Unanswered /\ Staged /\ Truthful /\ [Next]_vars => Staged' /\ Truthful'
<1> SUFFICES ASSUME TypeOK, Unanswered, Staged, Truthful, [Next]_vars PROVE Staged' /\ Truthful'
  OBVIOUS
<1> USE DEF panel, agent, core, Finish
<1>1. CASE ~CommandLoop
  <2>1. CASE pc' = "idle"
    BY <2>1 DEF Staged, Truthful
  <2>2. CASE pc # "idle" /\ UNCHANGED <<pc, cur, result, coreBin, coreRun, agentBin, agentRun, timers>>
    <3>1. order'[cur] = order[cur]
      BY <1>1, <2>2, Kept DEF CommandLoop
    <3> QED BY <2>2, <3>1 DEF Staged, Truthful
  <2> QED BY <1>1, <2>1, <2>2, Bystanders
<1>2. CASE (\E c \in Cmds : GetNextCommand(c)) \/ AckCommand
  BY <1>2 DEF GetNextCommand, AckCommand, Staged, Truthful
<1>3. CASE Unsupported
  BY <1>3 DEF Unsupported, Staged, Truthful
<1>4. CASE RestartAgent
  BY <1>4 DEF RestartAgent, Schedule, Ask, Staged, Truthful
<1>5. CASE ScheduleUpdated
  <2>1. timers \in Nat
    BY DEF TypeOK
  <2> QED BY <1>5, <2>1 DEF ScheduleUpdated, Schedule, Staged, Truthful
<1>6. CASE UpdateAgent
  BY <1>6 DEF UpdateAgent, AgentInstalls, Ask, Staged, Truthful
<1>7. CASE UpdateCore
  BY <1>7 DEF UpdateCore, CoreInstalls, Ask, Staged, Truthful
<1>8. CASE RestartCore
  BY <1>8 DEF RestartCore, Ask, Staged, Truthful
<1>9. CASE RunSystemctl
  BY <1>9 DEF RunSystemctl, Staged, Truthful
<1>10. CASE SyncAfterCoreRestart
  BY <1>10 DEF SyncAfterCoreRestart, Staged, Truthful
<1>11. CASE RefreshHeartbeat
  BY <1>11 DEF RefreshHeartbeat, Staged, Truthful
<1> QED BY <1>1, <1>2, <1>3, <1>4, <1>5, <1>6, <1>7, <1>8, <1>9, <1>10, <1>11 DEF CommandLoop
-----------------------------------------------------------------------------
(* The theorems.                                                            *)

LEMMA InitIInv == Init => IInv
  BY InitType DEF Init, IInv, Unanswered, Staged, Truthful

LEMMA NextIInv == IInv /\ [Next]_vars => IInv'
  BY NextType, NextUnanswered, NextStaged DEF IInv

\* The inductive invariant holds of every reachable state: what a command in the
\* middle of executeNextCommand has done is what its answer is going to say.
THEOREM Inductive == Spec => []IInv
  BY InitIInv, NextIInv, PTL DEF Spec

\* TypeOK: every variable of the command loop's model stays in its type; a
\* command is being executed exactly when the loop is not idle.
THEOREM TypeCorrect == Spec => []TypeOK
<1>1. IInv => TypeOK
  BY DEF IInv
<1> QED BY <1>1, Inductive, PTL

\* An answer is recorded only for the command under way, and is its result.
LEMMA Recorded ==
  ASSUME TypeOK, Unanswered, [Next]_vars, NEW c \in Cmds, Records(c, "SUCCEEDED")
  PROVE  pc = "ack" /\ c = cur /\ result = "SUCCEEDED"
<1>1. CASE AckCommand
  <2>1. cur \in Cmds
    BY <1>1, Current DEF AckCommand
  <2> QED BY <1>1, <2>1 DEF AckCommand, Records, TypeOK
<1>2. CASE ~AckCommand
  <2>1. (\E b \in Cmds : Issue(b)) \/ UNCHANGED panel
    BY <1>2 DEF Next, CommandLoop, GetNextCommand, Unsupported, RestartAgent, UpdateAgent,
         ScheduleUpdated, UpdateCore, RestartCore, RunSystemctl, SyncAfterCoreRestart,
         RefreshHeartbeat, TimerFires, AgentDies, AgentStart, CheckReads, CheckEnds,
         HeartbeatReads, Heartbeat, vars, panel
  <2> QED BY <2>1 DEF Issue, panel, Records, TypeOK
<1> QED BY <1>1, <1>2

\* UpdatedAgentRuns: a SUCCEEDED UPDATE_AGENT means that the requested version
\* runs, or is on disk with a restart scheduled (updateAgentAndAck).
THEOREM AgentUpdateTrue == Spec => UpdatedAgentRuns
<1> DEFINE A == \A c \in Cmds : order[c].type = "UPDATE_AGENT" /\ Records(c, "SUCCEEDED") =>
                   \/ agentRun = order[c].target
                   \/ agentBin = order[c].target /\ timers > 0
<1>1. IInv /\ [Next]_vars => A
  BY Recorded DEF IInv, Truthful
<1>2. IInv /\ [Next]_vars => [A]_vars
  BY <1>1
<1> QED BY <1>2, Inductive, PTL DEF Spec, UpdatedAgentRuns

\* UpdatedCoreInstalled: a SUCCEEDED UPDATE_CORE left the requested Xray
\* installed (updateCoreAndAck).
THEOREM CoreUpdateTrue == Spec => UpdatedCoreInstalled
<1> DEFINE A == \A c \in Cmds : order[c].type = "UPDATE_CORE" /\ Records(c, "SUCCEEDED") =>
                   coreBin = order[c].target
<1>1. IInv /\ [Next]_vars => A
  BY Recorded DEF IInv, Truthful
<1>2. IInv /\ [Next]_vars => [A]_vars
  BY <1>1
<1> QED BY <1>2, Inductive, PTL DEF Spec, UpdatedCoreInstalled

\* RestartedCoreRuns: after a SUCCEEDED RESTART_CORE Xray runs the binary on
\* disk (executeAgentCommand, runSystemctl).
THEOREM CoreRestartTrue == Spec => RestartedCoreRuns
<1> DEFINE A == \A c \in Cmds : order[c].type = "RESTART_CORE" /\ Records(c, "SUCCEEDED") =>
                   coreRun = coreBin
<1>1. IInv /\ [Next]_vars => A
  BY Recorded DEF IInv, Truthful
<1>2. IInv /\ [Next]_vars => [A]_vars
  BY <1>1
<1> QED BY <1>2, Inductive, PTL DEF Spec, RestartedCoreRuns
=============================================================================
