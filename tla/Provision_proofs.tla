--------------------------- MODULE Provision_proofs ---------------------------
(* Proofs about Provision, for every value of its constants.                *)
EXTENDS Provision, TLAPS

USE TargetAssumption, MarksAssumption, LimitAssumption, ContentAssumption

Insts   == [pc : Steps \cup {"idle"}, target : Versions \cup {None},
            seen : Versions \cup {None}, archive : Versions \cup {None, Cut}]
Agents  == [pc : AgentSteps, hand : BOOLEAN, loaded : Config \cup {None}]
Admins  == [cmd : {"none", "core", "setup", "update"}, flags : Flags, restart : BOOLEAN,
            todo : Todos, new : Config \cup {None, Whole}]

LEMMA Todo ==
  ASSUME NEW todo \in Todos, todo # <<>>
  PROVE  Head(todo) \in {"config", "binary", "unit"} /\ Tail(todo) \in Todos
<1>1. CASE todo = <<"config">>
  <2>1. Tail(todo) = <<>> /\ Head(todo) = "config"
    BY <1>1
  <2> QED BY <2>1 DEF Todos
<1>2. CASE todo = <<"binary", "unit">>
  <2>1. Tail(todo) = <<"unit">> /\ Head(todo) = "binary"
    BY <1>2
  <2> QED BY <2>1 DEF Todos
<1>3. CASE todo = <<"config", "binary", "unit">>
  <2>1. Tail(todo) = <<"binary", "unit">> /\ Head(todo) = "config"
    BY <1>3
  <2> QED BY <2>1 DEF Todos
<1>4. CASE todo = <<"unit">>
  <2>1. Tail(todo) = <<>> /\ Head(todo) = "unit"
    BY <1>4
  <2> QED BY <2>1 DEF Todos
<1> QED BY <1>1, <1>2, <1>3, <1>4 DEF Todos

LEMMA IdleTypes ==
  /\ IdleInst \in Insts /\ IdleAdmin \in Admins /\ Down \in Agents
  /\ [Down EXCEPT !.pc = "start"] \in Agents /\ NoFlags \in Flags
<1>1. NoFlags \in Flags
  BY DEF Flags, NoFlags
<1>2. <<>> \in Todos
  BY DEF Todos
<1> QED BY <1>1, <1>2 DEF IdleInst, IdleAdmin, Down, Insts, Admins, Agents, AgentSteps

LEMMA SpendType ==
  ASSUME TypeOK, NEW what \in {"faults", "admin", "updates"}, NEW max, Spend(what, max)
  PROVE  spent' \in [{"faults", "admin", "updates"} -> Nat]
  BY DEF TypeOK, Spend

LEMMA AppliedType ==
  ASSUME NEW config \in Config, NEW flags \in Flags
  PROVE  Applied(config, flags) \in Config
  BY DEF Applied, Config, Flags

LEMMA SampleConfig == [f \in Fields |-> Sample] \in Config
  BY DEF Config

\* How the agent goes on.
AgentFine(a) == a \in Agents /\ (a.loaded = None <=> a.pc \in {"off", "start", "load"})

LEMMA ExitedFine ==
  ASSUME NEW a
  PROVE  AgentFine(Exited(a)) /\ AgentFine(Down) /\ AgentFine([Down EXCEPT !.pc = "start"])
  BY IdleTypes DEF Exited, AgentFine, Down, Agents, AgentSteps

LEMMA MovesFine ==
  ASSUME NEW a, AgentFine(a), a.pc \notin {"off", "start", "load"},
         NEW pc \in {"install", "run", "update", "restartCore"}
  PROVE  AgentFine([a EXCEPT !.pc = pc])
  BY DEF AgentFine, Agents, AgentSteps

LEMMA ReturnedType ==
  ASSUME TypeOK, NEW p \in Procs, NEW ok, NEW updated, Returned(p, ok, updated),
         p = "agent" => agent.pc \in {"install", "update"}
  PROVE  AgentFine(agent') /\ admin' \in Admins
<1>1. AgentFine(agent) /\ admin \in Admins
  BY DEF TypeOK, AgentFine, Agents, Admins
<1>2. CASE p = "admin"
  BY <1>1, <1>2, IdleTypes DEF Returned
<1>3. CASE p # "admin"
  <2>1. agent.pc \notin {"off", "start", "load"}
    BY <1>3 DEF Procs
  <2>2. AgentFine([agent EXCEPT !.pc = "restartCore"]) /\ AgentFine([agent EXCEPT !.pc = "run"])
    BY <1>1, <2>1, MovesFine
  <2>3. agent' \in {Exited(agent), [agent EXCEPT !.pc = "restartCore"], [agent EXCEPT !.pc = "run"]}
        /\ admin' = admin
    BY <1>3 DEF Returned
  <2> QED BY <1>1, <2>2, <2>3, ExitedFine
<1> QED BY <1>2, <1>3

LEMMA InitType == Init => TypeOK
<1> SUFFICES ASSUME Init PROVE TypeOK
  OBVIOUS
<1>1. admin \in Admins /\ inst \in [Procs -> Insts] /\ AgentFine(agent)
  BY IdleTypes, ExitedFine DEF Init
<1>2. asked \in Config
  BY SampleConfig DEF Init
<1> QED BY <1>1, <1>2 DEF Init, TypeOK, Admins, Insts, AgentFine, Agents

\* TypeOK in the terms of this module.
LEMMA TypeParts ==
  TypeOK <=> /\ core \in [bin : Versions \cup {None}, data : Versions \cup {None},
                          conf : BOOLEAN, unit : BOOLEAN]
             /\ xray \in Versions \cup {None}
             /\ files \in [config : Config \cup {None, Cut}, binary : {None, Cut, Whole},
                           unit : {None, Cut, Whole}, enabled : BOOLEAN]
             /\ AgentFine(agent) /\ admin \in Admins /\ inst \in [Procs -> Insts]
             /\ clean \in BOOLEAN /\ asked \in Config
             /\ spent \in [{"faults", "admin", "updates"} -> Nat]
  BY DEF TypeOK, AgentFine, Agents, Admins, Insts

LEMMA EndsType ==
  ASSUME TypeOK, NEW p \in Procs, Ends(p)
  PROVE  inst' \in [Procs -> Insts] /\ clean' \in BOOLEAN
<1>1. inst \in [Procs -> Insts]
  BY TypeParts
<1>2. inst' \in [Procs -> Insts]
  BY <1>1, IdleTypes DEF Ends
<1>3. clean' \in BOOLEAN
  BY Zenon DEF Ends
<1> QED BY <1>2, <1>3

LEMMA InstallType ==
  ASSUME TypeOK, NEW p \in Procs, NEW v \in Versions, Install(p, v)
  PROVE  inst' \in [Procs -> Insts]
<1>1. [IdleInst EXCEPT !.pc = "version", !.target = v] \in Insts
  BY DEF IdleInst, Insts, Steps
<1> QED BY <1>1, TypeParts DEF Install

LEMMA GotoType ==
  ASSUME TypeOK, NEW p \in Procs, NEW pc \in Steps, Goto(p, pc)
  PROVE  inst' \in [Procs -> Insts]
<1>1. inst[p] \in Insts /\ inst \in [Procs -> Insts]
  BY TypeParts
<1>2. [inst[p] EXCEPT !.pc = pc] \in Insts
  BY <1>1 DEF Insts
<1> QED BY <1>1, <1>2 DEF Goto

\* The steps of InstallOrUpdate.
LEMMA InstallOrUpdateType ==
  ASSUME TypeOK, Waiting, Authentic, NEW p \in Procs, InstallOrUpdate(p)
  PROVE  TypeOK'
<1>0. /\ inst[p] \in Insts /\ inst \in [Procs -> Insts] /\ AgentFine(agent) /\ admin \in Admins
      /\ clean \in BOOLEAN
      /\ core \in [bin : Versions \cup {None}, data : Versions \cup {None},
                   conf : BOOLEAN, unit : BOOLEAN]
  BY TypeParts
<1>1. inst[p].pc # "idle" => (p = "agent" => agent.pc \in {"install", "update"})
  BY DEF Waiting
<1>a. inst[p].pc # "idle" => inst[p].target \in Versions
  BY DEF Authentic
<1> USE DEF Stays
<1>2. CASE InstalledVersion(p)
  <2>1. [inst[p] EXCEPT !.pc = "fetch", !.seen = core.bin] \in Insts
    BY <1>0 DEF Insts, Steps
  <2>2. inst' \in [Procs -> Insts]
    BY <1>0, <1>2, <2>1 DEF InstalledVersion
  <2> QED BY <1>2, <2>2, TypeParts DEF InstalledVersion, TypeOK, Insts
<1>3. CASE FetchRelease(p) \/ Verify(p)
  <2>1. \/ Ends(p) /\ (\E ok \in BOOLEAN : Returned(p, ok, FALSE))
        \/ (\E pc \in Steps : Goto(p, pc)) /\ UNCHANGED <<clean, agent, admin>>
    BY <1>3 DEF FetchRelease, Verify, Steps
  <2>2. inst[p].pc # "idle" /\ UNCHANGED <<core, xray, files, asked, spent>>
    BY <1>3 DEF FetchRelease, Verify
  <2>3. inst' \in [Procs -> Insts] /\ clean' \in BOOLEAN
    BY <1>0, <2>1, EndsType, GotoType
  <2>4. AgentFine(agent') /\ admin' \in Admins
    BY <1>0, <1>1, <2>1, <2>2, ReturnedType
  <2> QED BY <2>2, <2>3, <2>4, TypeParts DEF TypeOK, AgentFine, Agents, Admins, Insts
<1>4. CASE Download(p)
  <2>1. \A a \in {inst[p].target, Cut} : [inst[p] EXCEPT !.pc = "verify", !.archive = a] \in Insts
    BY <1>0 DEF Insts, Steps
  <2>2. inst' \in [Procs -> Insts]
    BY <1>0, <1>4, <2>1 DEF Download
  <2>3. spent' \in [{"faults", "admin", "updates"} -> Nat]
    BY <1>4, SpendType DEF Download, Fault, TypeOK
  <2> QED BY <1>4, <2>2, <2>3 DEF Download, TypeOK, Insts
<1>5. CASE InstallBinary(p)
  <2>1. inst' \in [Procs -> Insts]
    BY <1>5, GotoType DEF InstallBinary, Steps
  <2>2. core' \in [bin : Versions \cup {None}, data : Versions \cup {None},
                   conf : BOOLEAN, unit : BOOLEAN]
    BY <1>0, <1>5, <1>a DEF InstallBinary, Authentic
  <2>3. clean' \in BOOLEAN
    BY <1>5, Zenon DEF InstallBinary
  <2> QED BY <1>5, <2>1, <2>2, <2>3 DEF InstallBinary, TypeOK, Insts
<1>6. CASE InstallData(p) \/ CopySampleConfig(p) \/ TestConfig(p) \/ InstallService(p)
  <2>1. inst' \in [Procs -> Insts]
    BY <1>6, GotoType DEF InstallData, CopySampleConfig, TestConfig, InstallService, Steps
  <2>2. core' \in [bin : Versions \cup {None}, data : Versions \cup {None},
                   conf : BOOLEAN, unit : BOOLEAN]
    BY <1>0, <1>6, <1>a DEF InstallData, CopySampleConfig, TestConfig, InstallService
  <2> QED BY <1>6, <2>1, <2>2
          DEF InstallData, CopySampleConfig, TestConfig, InstallService, TypeOK, Insts
<1>7. CASE EnableService(p)
  <2>1. inst' \in [Procs -> Insts]
    BY <1>0, <1>7, IdleTypes DEF EnableService
  <2>2. AgentFine(agent') /\ admin' \in Admins
    BY <1>1, <1>7, ReturnedType DEF EnableService
  <2> QED BY <1>7, <2>1, <2>2 DEF EnableService, TypeOK, AgentFine, Agents, Admins, Insts
<1>8. CASE InstallFails(p)
  <2>1. inst' \in [Procs -> Insts] /\ clean' \in BOOLEAN
    BY <1>8, EndsType DEF InstallFails
  <2>2. AgentFine(agent') /\ admin' \in Admins
    BY <1>1, <1>8, ReturnedType DEF InstallFails
  <2>3. spent' \in [{"faults", "admin", "updates"} -> Nat]
    BY <1>8, SpendType DEF InstallFails, Fault
  <2> QED BY <1>8, <2>1, <2>2, <2>3 DEF InstallFails, TypeOK, AgentFine, Agents, Admins, Insts
<1> QED BY <1>2, <1>3, <1>4, <1>5, <1>6, <1>7, <1>8 DEF InstallOrUpdate

LEMMA NextType ==
  TypeOK /\ SettingsKept /\ Waiting /\ Writing /\ Authentic /\ [Next]_vars => TypeOK'
<1> SUFFICES ASSUME TypeOK, SettingsKept, Waiting, Writing, Authentic, [Next]_vars PROVE TypeOK'
  OBVIOUS
<1>0. /\ AgentFine(agent) /\ admin \in Admins /\ inst \in [Procs -> Insts]
      /\ files \in [config : Config \cup {None, Cut}, binary : {None, Cut, Whole},
                    unit : {None, Cut, Whole}, enabled : BOOLEAN]
      /\ core.bin \in Versions \cup {None} /\ asked \in Config
  BY TypeParts
<1>1. CASE AgentStart
  <2>1. AgentFine([agent EXCEPT !.pc = "load"])
    BY <1>0, <1>1 DEF AgentStart, AgentFine, Agents, AgentSteps
  <2> QED BY <1>0, <1>1, <2>1 DEF AgentStart, TypeOK, AgentFine, Agents
<1>2. CASE AgentLoad
  <2>1. files.config \notin {None, Cut} => AgentFine([agent EXCEPT !.pc = "ensure", !.loaded = files.config])
    BY <1>0 DEF AgentFine, Agents, AgentSteps
  <2>2. AgentFine(agent')
    BY <1>2, <2>1, ExitedFine DEF AgentLoad
  <2> QED BY <1>2, <2>2 DEF AgentLoad, TypeOK, AgentFine, Agents
<1>3. CASE EnsureCore
  <2>1. AgentFine([agent EXCEPT !.pc = "run"]) /\ AgentFine([agent EXCEPT !.pc = "install"])
    BY <1>0, <1>3, MovesFine DEF EnsureCore
  <2>2. AgentFine(agent')
    BY <1>3, <2>1 DEF EnsureCore
  <2>3. inst' \in [Procs -> Insts]
    BY <1>0, <1>3, InstallType DEF EnsureCore, Procs
  <2> QED BY <1>3, <2>2, <2>3 DEF EnsureCore, TypeOK, AgentFine, Agents, Insts
<1>4. ASSUME NEW v \in Versions, UpdateCore(v) PROVE TypeOK'
  <2>1. AgentFine(agent')
    BY <1>0, <1>4, MovesFine DEF UpdateCore
  <2>2. inst' \in [Procs -> Insts]
    BY <1>4, InstallType DEF UpdateCore, Procs
  <2>3. spent' \in [{"faults", "admin", "updates"} -> Nat]
    BY <1>4, SpendType DEF UpdateCore
  <2> QED BY <1>4, <2>1, <2>2, <2>3 DEF UpdateCore, TypeOK, AgentFine, Agents, Insts
<1>5. CASE RestartCore
  <2>1. AgentFine(agent')
    BY <1>0, <1>5, MovesFine DEF RestartCore
  <2>2. spent' \in [{"faults", "admin", "updates"} -> Nat]
    BY <1>5, SpendType DEF RestartCore, Fault, TypeOK
  <2> QED BY <1>0, <1>5, <2>1, <2>2 DEF RestartCore, TypeOK, AgentFine, Agents
<1>6. CASE AgentDies
  <2>1. inst' \in [Procs -> Insts] /\ clean' \in BOOLEAN
    BY <1>6, EndsType DEF AgentDies, Procs
  <2>2. AgentFine(agent')
    BY <1>6, ExitedFine DEF AgentDies
  <2>3. spent' \in [{"faults", "admin", "updates"} -> Nat]
    BY <1>6, SpendType DEF AgentDies, Fault
  <2> QED BY <1>6, <2>1, <2>2, <2>3 DEF AgentDies, TypeOK, AgentFine, Agents, Insts
<1>7. ASSUME NEW p \in Procs, InstallOrUpdate(p) PROVE TypeOK'
  BY <1>7, InstallOrUpdateType
<1>8. CASE RunByHand
  <2>1. AgentFine(agent')
    BY <1>8 DEF RunByHand, AgentFine, Agents, AgentSteps
  <2>2. spent' \in [{"faults", "admin", "updates"} -> Nat] /\ admin' \in Admins
    BY <1>8, SpendType, IdleTypes DEF RunByHand, Command
  <2> QED BY <1>8, <2>1, <2>2 DEF RunByHand, TypeOK, AgentFine, Agents, Admins
<1>9. ASSUME NEW v \in Versions, CoreCommand(v) PROVE TypeOK'
  <2>1. inst' \in [Procs -> Insts]
    BY <1>9, InstallType DEF CoreCommand, Procs
  <2>2. [IdleAdmin EXCEPT !.cmd = "core"] \in Admins
    BY IdleTypes DEF Admins
  <2>3. spent' \in [{"faults", "admin", "updates"} -> Nat] /\ admin' \in Admins
    BY <1>9, <2>2, SpendType DEF CoreCommand, Command
  <2> QED BY <1>9, <2>1, <2>3 DEF CoreCommand, TypeOK, Admins, Insts
<1>10. ASSUME NEW flags \in Flags, SetupCommand(flags) PROVE TypeOK'
  <2>1. [IdleAdmin EXCEPT !.cmd = "setup", !.flags = flags,
                          !.todo = <<"config", "binary", "unit">>] \in Admins
    BY IdleTypes DEF Admins, Todos
  <2>2. spent' \in [{"faults", "admin", "updates"} -> Nat] /\ admin' \in Admins
    BY <1>10, <2>1, SpendType DEF SetupCommand, Command
  <2> QED BY <1>10, <2>2 DEF SetupCommand, TypeOK, Admins
<1>11. ASSUME NEW flags \in Flags, NEW r \in BOOLEAN, UpdateConfigCommand(flags, r) PROVE TypeOK'
  <2>1. [IdleAdmin EXCEPT !.cmd = "update", !.flags = flags,
                          !.restart = r, !.todo = <<"config">>] \in Admins
    BY IdleTypes DEF Admins, Todos
  <2>2. spent' \in [{"faults", "admin", "updates"} -> Nat] /\ admin' \in Admins
    BY <1>11, <2>1, SpendType DEF UpdateConfigCommand, Command
  <2> QED BY <1>11, <2>2 DEF UpdateConfigCommand, TypeOK, Admins
<1>12. CASE OpenFile
  <2> DEFINE file == Head(admin.todo)
  <2>1. file \in {"config", "binary", "unit"}
    BY <1>0, <1>12, Todo DEF OpenFile, Admins
  <2>2. CASE OpenRefused(file) /\ admin' = IdleAdmin /\ UNCHANGED files
    BY <1>12, <2>2, IdleTypes DEF OpenFile, TypeOK, Admins
  <2>3. CASE /\ file = "config" => files.config # Cut
             /\ admin' = [admin EXCEPT !.new = Content(file)]
             /\ files' = [files EXCEPT ![file] = Cut]
    <3>1. file = "config" => Loaded \in Config
      BY <1>0, <2>3, SampleConfig DEF Loaded
    <3>2. Content(file) \in Config \cup {Whole}
      BY <1>0, <3>1, AppliedType DEF Content, Admins
    <3>3. admin' \in Admins
      BY <1>0, <2>3, <3>2 DEF Admins
    <3>4. files' \in [config : Config \cup {None, Cut}, binary : {None, Cut, Whole},
                      unit : {None, Cut, Whole}, enabled : BOOLEAN]
      BY <1>0, <2>1, <2>3
    <3> QED BY <1>12, <3>3, <3>4 DEF OpenFile, TypeOK, Admins
  <2> QED BY <1>12, <2>2, <2>3 DEF OpenFile
<1>13. CASE WriteFile
  <2> DEFINE file == Head(admin.todo)
  <2>0. admin.todo # <<>>
    BY <1>13 DEF WriteFile, Waiting
  <2>1. file \in {"config", "binary", "unit"} /\ Tail(admin.todo) \in Todos
    BY <1>0, <2>0, Todo DEF Admins
  <2>2. admin' \in Admins
    BY <1>0, <1>13, <2>1 DEF WriteFile, Admins
  <2>3. Applied(asked, admin.flags) \in Config
    BY <1>0, AppliedType DEF Admins
  <2>4. IF file = "config" THEN admin.new \in Config ELSE admin.new = Whole
    BY <1>13, <2>3 DEF WriteFile, Writing
  <2>5. files' \in [config : Config \cup {None, Cut}, binary : {None, Cut, Whole},
                    unit : {None, Cut, Whole}, enabled : BOOLEAN]
    BY <1>0, <1>13, <2>1, <2>4 DEF WriteFile
  <2> QED BY <1>13, <2>2, <2>3, <2>5 DEF WriteFile, TypeOK, Admins
<1>14. CASE Systemctl
  <2>1. admin' \in Admins
    BY <1>14, IdleTypes DEF Systemctl
  <2>2. AgentFine(agent')
    BY <1>0, <1>14, ExitedFine DEF Systemctl
  <2>3. inst' \in [Procs -> Insts] /\ clean' \in BOOLEAN
    <3>1. Ends("agent") \/ UNCHANGED <<inst, clean>>
      BY <1>14 DEF Systemctl
    <3>2. clean \in BOOLEAN
      BY DEF TypeOK
    <3> QED BY <1>0, <3>1, <3>2, EndsType DEF Procs
  <2>4. files' \in [config : Config \cup {None, Cut}, binary : {None, Cut, Whole},
                    unit : {None, Cut, Whole}, enabled : BOOLEAN]
    BY <1>0, <1>14 DEF Systemctl
  <2>5. UNCHANGED <<core, xray, asked, spent>>
    BY <1>14 DEF Systemctl
  <2> QED BY <2>1, <2>2, <2>3, <2>4, <2>5 DEF TypeOK, AgentFine, Agents, Admins, Insts
<1>15. CASE AdminDies
  <2>1. inst' \in [Procs -> Insts] /\ clean' \in BOOLEAN
    BY <1>15, EndsType DEF AdminDies, Procs
  <2>2. admin' \in Admins
    BY <1>15, IdleTypes DEF AdminDies
  <2>3. spent' \in [{"faults", "admin", "updates"} -> Nat]
    BY <1>15, SpendType DEF AdminDies, Fault
  <2> QED BY <1>15, <2>1, <2>2, <2>3 DEF AdminDies, TypeOK, Admins, Insts
<1>16. CASE UNCHANGED vars
  BY <1>16 DEF vars, TypeOK
<1> QED BY <1>1, <1>2, <1>3, <1>4, <1>5, <1>6, <1>7, <1>8, <1>9, <1>10, <1>11, <1>12, <1>13,
           <1>14, <1>15, <1>16 DEF Next, Agent, Admin, Procs
-----------------------------------------------------------------------------
(* Who waits for whom.                                                      *)

\* What a step of InstallOrUpdate does to its own record and to its caller.
LEMMA InstallEffect ==
  ASSUME TypeOK, NEW p \in Procs, InstallOrUpdate(p)
  PROVE  /\ inst[p].pc # "idle"
         /\ \A q \in Procs \ {p} : inst'[q] = inst[q]
         /\ UNCHANGED <<files, asked>>
         /\ \/ inst'[p].pc # "idle" /\ UNCHANGED <<agent, admin>>
            \/ inst'[p] = IdleInst /\ \E ok, updated \in BOOLEAN : Returned(p, ok, updated)
<1> USE TypeParts DEF Stays, Goto, Ends, Steps
<1>0. inst \in [Procs -> Insts] /\ inst[p] \in Insts
  OBVIOUS
<1>1. CASE InstalledVersion(p)
  BY <1>0, <1>1 DEF InstalledVersion, Insts
<1>2. CASE FetchRelease(p) \/ Verify(p)
  <2>1. inst[p].pc # "idle" /\ UNCHANGED <<files, asked>>
    BY <1>2 DEF FetchRelease, Verify
  <2>2. \/ inst' = [inst EXCEPT ![p] = IdleInst] /\ \E ok, updated \in BOOLEAN : Returned(p, ok, updated)
        \/ /\ \E pc \in Steps : inst' = [inst EXCEPT ![p] = [inst[p] EXCEPT !.pc = pc]]
           /\ UNCHANGED <<agent, admin>>
    BY <1>0, <1>2 DEF FetchRelease, Verify
  <2>3. CASE inst' = [inst EXCEPT ![p] = IdleInst] /\ \E ok, updated \in BOOLEAN : Returned(p, ok, updated)
    BY <1>0, <2>1, <2>3
  <2>4. ASSUME NEW pc \in Steps, inst' = [inst EXCEPT ![p] = [inst[p] EXCEPT !.pc = pc]]
        PROVE  inst'[p].pc # "idle" /\ \A q \in Procs \ {p} : inst'[q] = inst[q]
    BY <1>0, <2>4 DEF Insts
  <2> QED BY <2>1, <2>2, <2>3, <2>4
<1>3. CASE Download(p)
  <2>1. \E a \in {inst[p].target, Cut} :
           inst' = [inst EXCEPT ![p] = [inst[p] EXCEPT !.pc = "verify", !.archive = a]]
    BY <1>3 DEF Download
  <2>2. inst'[p].pc = "verify" /\ \A q \in Procs \ {p} : inst'[q] = inst[q]
    BY <1>0, <2>1 DEF Insts
  <2> QED BY <1>3, <2>2 DEF Download
<1>4. CASE InstallBinary(p) \/ InstallData(p)
  BY <1>0, <1>4 DEF InstallBinary, InstallData, Insts
<1>5. CASE CopySampleConfig(p) \/ TestConfig(p) \/ InstallService(p)
  BY <1>0, <1>5 DEF CopySampleConfig, TestConfig, InstallService, Insts
<1>6. CASE EnableService(p)
  BY <1>0, <1>6 DEF EnableService
<1>7. CASE InstallFails(p)
  BY <1>0, <1>7 DEF InstallFails
<1> QED BY <1>1, <1>2, <1>3, <1>4, <1>5, <1>6, <1>7 DEF InstallOrUpdate

LEMMA NextWaiting == TypeOK /\ Waiting /\ [Next]_vars => Waiting'
<1> SUFFICES ASSUME TypeOK, Waiting, [Next]_vars PROVE Waiting'
  OBVIOUS
<1>0. /\ AgentFine(agent) /\ admin \in Admins /\ inst \in [Procs -> Insts]
      /\ "agent" \in Procs /\ "admin" \in Procs /\ "agent" # "admin"
      /\ inst["agent"] \in Insts /\ inst["admin"] \in Insts
  BY TypeParts DEF Procs
<1>i. IdleInst.pc = "idle" /\ IdleAdmin.cmd = "none" /\ IdleAdmin.todo = <<>> /\ IdleAdmin.new = None
  BY DEF IdleInst, IdleAdmin
<1>d. \A a : Exited(a).pc \in {"off", "start"}
  BY DEF Exited, Down
<1>1. CASE AgentStart
  BY <1>0, <1>1 DEF AgentStart, Waiting, AgentFine, Agents
<1>2. CASE AgentLoad
  <2>1. agent'.pc \in {"off", "start", "ensure"}
    BY <1>0, <1>2, <1>d DEF AgentLoad, AgentFine, Agents
  <2> QED BY <1>2, <2>1 DEF AgentLoad, Waiting
<1>3. CASE EnsureCore
  <2>1. CASE inst' = inst /\ agent'.pc = "run"
    BY <1>3, <2>1 DEF EnsureCore, Waiting
  <2>2. CASE agent'.pc = "install" /\ Install("agent", Target)
    <3>1. inst'["agent"].pc = "version" /\ inst'["admin"] = inst["admin"]
      BY <1>0, <2>2 DEF Install, IdleInst
    <3> QED BY <1>3, <2>2, <3>1 DEF EnsureCore, Waiting
  <2> QED BY <1>0, <1>3, <2>1, <2>2 DEF EnsureCore, AgentFine, Agents
<1>4. ASSUME NEW v \in Versions, UpdateCore(v) PROVE Waiting'
  <2>1. inst'["agent"].pc = "version" /\ inst'["admin"] = inst["admin"]
    BY <1>0, <1>4 DEF UpdateCore, Install, IdleInst
  <2> QED BY <1>0, <1>4, <2>1 DEF UpdateCore, Waiting, AgentFine, Agents
<1>5. CASE RestartCore
  BY <1>0, <1>5 DEF RestartCore, Waiting, AgentFine, Agents
<1>6. CASE AgentDies
  <2>1. inst'["agent"].pc = "idle" /\ inst'["admin"] = inst["admin"] /\ agent'.pc \in {"off", "start"}
    BY <1>0, <1>6, <1>i, <1>d DEF AgentDies, Ends
  <2> QED BY <1>6, <2>1 DEF AgentDies, Waiting
<1>7. CASE InstallOrUpdate("agent")
  <2>1. /\ inst["agent"].pc # "idle" /\ inst'["admin"] = inst["admin"]
        /\ \/ inst'["agent"].pc # "idle" /\ UNCHANGED <<agent, admin>>
           \/ inst'["agent"] = IdleInst /\ \E ok, updated \in BOOLEAN : Returned("agent", ok, updated)
    BY <1>0, <1>7, InstallEffect
  <2>2. CASE inst'["agent"].pc # "idle" /\ UNCHANGED <<agent, admin>>
    BY <2>1, <2>2 DEF Waiting
  <2>3. ASSUME NEW ok \in BOOLEAN, NEW updated \in BOOLEAN, inst'["agent"] = IdleInst,
               Returned("agent", ok, updated)
        PROVE  Waiting'
    <3>1. /\ agent' \in {Exited(agent), [agent EXCEPT !.pc = "restartCore"], [agent EXCEPT !.pc = "run"]}
          /\ admin' = admin
      BY <2>3 DEF Returned
    <3>2. agent'.pc \in {"off", "start", "restartCore", "run"}
      BY <1>0, <3>1, <1>d DEF AgentFine, Agents
    <3> QED BY <2>1, <2>3, <3>1, <3>2, <1>i DEF Waiting
  <2> QED BY <2>1, <2>2, <2>3
<1>8. CASE InstallOrUpdate("admin")
  <2>1. /\ inst["admin"].pc # "idle" /\ inst'["agent"] = inst["agent"]
        /\ \/ inst'["admin"].pc # "idle" /\ UNCHANGED <<agent, admin>>
           \/ inst'["admin"] = IdleInst /\ \E ok, updated \in BOOLEAN : Returned("admin", ok, updated)
    BY <1>0, <1>8, InstallEffect
  <2>2. \/ UNCHANGED <<agent, admin>>
        \/ inst'["admin"] = IdleInst /\ admin' = IdleAdmin /\ agent' = agent
    BY <2>1 DEF Returned
  <2> QED BY <2>1, <2>2, <1>i DEF Waiting
<1>9. CASE RunByHand
  BY <1>9, <1>i DEF RunByHand, Command, Waiting
<1>10. ASSUME NEW v \in Versions, CoreCommand(v) PROVE Waiting'
  <2>1. inst'["admin"].pc = "version" /\ inst'["agent"] = inst["agent"]
    BY <1>0, <1>10 DEF CoreCommand, Install, IdleInst
  <2>2. admin'.cmd = "core" /\ admin'.todo = <<>> /\ admin'.new = None
    BY <1>10 DEF CoreCommand, Command, IdleAdmin
  <2> QED BY <1>10, <2>1, <2>2 DEF CoreCommand, Waiting
<1>11. ASSUME NEW flags \in Flags, SetupCommand(flags) PROVE Waiting'
  <2>1. admin'.cmd = "setup" /\ admin'.todo = <<"config", "binary", "unit">>
    BY <1>11 DEF SetupCommand, Command, IdleAdmin
  <2> QED BY <1>11, <2>1 DEF SetupCommand, Command, Waiting
<1>12. ASSUME NEW flags \in Flags, NEW r \in BOOLEAN, UpdateConfigCommand(flags, r) PROVE Waiting'
  <2>1. admin'.cmd = "update" /\ admin'.todo = <<"config">>
    BY <1>12 DEF UpdateConfigCommand, Command, IdleAdmin
  <2> QED BY <1>12, <2>1 DEF UpdateConfigCommand, Command, Waiting
<1>13. CASE OpenFile
  <2>1. \/ admin' = IdleAdmin
        \/ admin'.cmd = admin.cmd /\ admin'.todo = admin.todo /\ admin.todo # <<>>
    BY <1>0, <1>13 DEF OpenFile, Admins
  <2>2. inst["admin"].pc = "idle" /\ UNCHANGED <<agent, inst>>
    BY <1>13 DEF OpenFile, Waiting
  <2> QED BY <2>1, <2>2, <1>i DEF Waiting
<1>14. CASE WriteFile
  <2>1. admin'.cmd = admin.cmd /\ admin'.new = None /\ admin.todo # <<>>
    BY <1>0, <1>14 DEF WriteFile, Admins, Waiting
  <2> QED BY <1>14, <2>1 DEF WriteFile, Waiting
<1>15. CASE Systemctl
  <2>0. inst["admin"].pc = "idle" /\ admin' = IdleAdmin
    BY <1>15 DEF Systemctl, Waiting
  <2>1. CASE UNCHANGED inst /\ agent' \in {agent, [Down EXCEPT !.pc = "start"]}
             /\ (agent.pc = "off" \/ agent' = agent)
    <3>1. [Down EXCEPT !.pc = "start"].pc = "start"
      BY DEF Down
    <3> QED BY <2>0, <2>1, <3>1, <1>i DEF Waiting
  <2>2. CASE Ends("agent") /\ agent' = [Down EXCEPT !.pc = "start"]
    <3>1. inst'["agent"].pc = "idle" /\ inst'["admin"] = inst["admin"] /\ agent'.pc = "start"
      BY <1>0, <2>2, <1>i DEF Ends, Down
    <3> QED BY <2>0, <3>1, <1>i DEF Waiting
  <2> QED BY <1>15, <2>1, <2>2 DEF Systemctl
<1>16. CASE AdminDies
  <2>1. inst'["admin"].pc = "idle" /\ inst'["agent"] = inst["agent"]
    BY <1>0, <1>16, <1>i DEF AdminDies, Ends
  <2> QED BY <1>16, <2>1, <1>i DEF AdminDies, Waiting
<1>17. CASE UNCHANGED vars
  BY <1>17 DEF vars, Waiting
<1> QED BY <1>1, <1>2, <1>3, <1>4, <1>5, <1>6, <1>7, <1>8, <1>9, <1>10, <1>11, <1>12, <1>13,
           <1>14, <1>15, <1>16, <1>17 DEF Next, Agent, Admin
-----------------------------------------------------------------------------
(* Configuration files.                                                     *)

\* The steps that do not write the agent's files.
Unwritten == /\ UNCHANGED <<files, asked>>
             /\ admin' = admin \/ admin'.new = None

LEMMA UnwrittenKeeps ==
  ASSUME SettingsKept, Writing, Unwritten
  PROVE  SettingsKept' /\ Writing'
  BY DEF SettingsKept, Writing, Unwritten

LEMMA NextWriting ==
  TypeOK /\ SettingsKept /\ Waiting /\ Writing /\ [Next]_vars => SettingsKept' /\ Writing'
<1> SUFFICES ASSUME TypeOK, SettingsKept, Waiting, Writing, [Next]_vars
             PROVE  SettingsKept' /\ Writing'
  OBVIOUS
<1>0. /\ admin \in Admins /\ asked \in Config
      /\ files \in [config : Config \cup {None, Cut}, binary : {None, Cut, Whole},
                    unit : {None, Cut, Whole}, enabled : BOOLEAN]
  BY TypeParts
<1>i. IdleAdmin.new = None
  BY DEF IdleAdmin
<1>1. ASSUME NEW p \in Procs, InstallOrUpdate(p) PROVE Unwritten
  BY <1>1, <1>i, InstallEffect DEF Unwritten, Returned
<1>2. CASE AgentStart \/ AgentLoad \/ EnsureCore \/ RestartCore \/ AgentDies \/ UNCHANGED vars
  <2>1. Unwritten
    BY <1>2 DEF AgentStart, AgentLoad, EnsureCore, RestartCore, AgentDies, vars, Unwritten
  <2> QED BY <2>1, UnwrittenKeeps
<1>3. CASE \E v \in Versions : UpdateCore(v) \/ CoreCommand(v)
  <2>1. Unwritten
    BY <1>3 DEF UpdateCore, CoreCommand, Command, IdleAdmin, Unwritten
  <2> QED BY <2>1, UnwrittenKeeps
<1>4. CASE RunByHand \/ AdminDies
  <2>1. Unwritten
    BY <1>4, <1>i DEF RunByHand, Command, AdminDies, Unwritten
  <2> QED BY <2>1, UnwrittenKeeps
<1>5. ASSUME NEW flags \in Flags, NEW r \in BOOLEAN,
             SetupCommand(flags) \/ UpdateConfigCommand(flags, r)
      PROVE  SettingsKept' /\ Writing'
  <2>1. Unwritten
    BY <1>5 DEF SetupCommand, UpdateConfigCommand, Command, IdleAdmin, Unwritten
  <2> QED BY <2>1, UnwrittenKeeps
<1>6. CASE OpenFile
  <2> DEFINE file == Head(admin.todo)
  <2>1. file \in {"config", "binary", "unit"}
    BY <1>0, <1>6, Todo DEF OpenFile, Admins
  <2>2. CASE OpenRefused(file) /\ admin' = IdleAdmin /\ UNCHANGED files
    <3>1. Unwritten
      BY <1>6, <2>2, <1>i DEF OpenFile, Unwritten
    <3> QED BY <3>1, UnwrittenKeeps
  <2>3. CASE /\ file = "config" => files.config # Cut
             /\ admin' = [admin EXCEPT !.new = Content(file)]
             /\ files' = [files EXCEPT ![file] = Cut]
    <3>1. /\ admin'.new = Content(file) /\ admin'.todo = admin.todo
          /\ admin'.flags = admin.flags /\ asked' = asked
      BY <1>0, <1>6, <2>3 DEF OpenFile, Admins
    <3>2. CASE file = "config"
      <4>1. Loaded = asked
        BY <1>0, <2>3, <3>2 DEF Loaded, SettingsKept, Writing
      <4>2. files'.config = Cut /\ admin'.new = Applied(asked, admin.flags)
        BY <1>0, <2>3, <3>1, <3>2, <4>1 DEF Content
      <4> QED BY <3>1, <3>2, <4>2, MarksAssumption DEF SettingsKept, Writing, Applied
    <3>3. CASE file # "config"
      <4>1. files'.config = files.config /\ admin'.new = Whole
        BY <1>0, <2>1, <2>3, <3>1, <3>3 DEF Content
      <4> QED BY <3>1, <3>3, <4>1 DEF SettingsKept, Writing
    <3> QED BY <3>2, <3>3
  <2> QED BY <1>6, <2>2, <2>3 DEF OpenFile
<1>7. CASE WriteFile
  <2> DEFINE file == Head(admin.todo)
  <2>0. admin.todo # <<>> /\ admin'.new = None
    BY <1>0, <1>7 DEF WriteFile, Waiting, Admins
  <2>1. file \in {"config", "binary", "unit"}
    BY <1>0, <2>0, Todo DEF Admins
  <2>2. CASE file = "config"
    <3>1. /\ files'.config = Applied(asked, admin.flags) /\ asked' = Applied(asked, admin.flags)
      BY <1>0, <1>7, <2>2 DEF WriteFile, Writing
    <3>2. files'.config \in Config
      BY <1>0, <3>1, AppliedType DEF Admins
    <3> QED BY <2>0, <3>1, <3>2 DEF SettingsKept, Writing
  <2>3. CASE file # "config"
    <3>1. files'.config = files.config /\ asked' = asked
      BY <1>0, <1>7, <2>1, <2>3 DEF WriteFile
    <3> QED BY <2>0, <3>1 DEF SettingsKept, Writing
  <2> QED BY <2>2, <2>3
<1>8. CASE Systemctl
  <2>1. files'.config = files.config /\ asked' = asked /\ admin'.new = None
    BY <1>0, <1>8, <1>i DEF Systemctl
  <2> QED BY <2>1 DEF SettingsKept, Writing
<1> QED BY <1>1, <1>2, <1>3, <1>4, <1>5, <1>6, <1>7, <1>8, UnwrittenKeeps
        DEF Next, Agent, Admin, Procs
-----------------------------------------------------------------------------
(* Xray-core's files.                                                       *)

LEMMA NextAuthentic == TypeOK /\ Authentic /\ [Next]_vars => Authentic'
<1> SUFFICES ASSUME TypeOK, Authentic, [Next]_vars PROVE Authentic'
  OBVIOUS
<1>0. inst \in [Procs -> Insts] /\ \A p \in Procs : inst[p] \in Insts
  BY TypeParts
<1> DEFINE Fine(i) == /\ i.pc # "idle" => i.target \in Versions
                      /\ i.pc = "verify" => i.archive \in {i.target, Cut}
                      /\ i.pc = "binary" => i.archive = i.target
<1>a. \A p \in Procs : Fine(inst[p])
  BY DEF Authentic
<1>b. Fine(IdleInst)
  BY DEF IdleInst
<1>c. (\A p \in Procs : Fine(inst'[p])) => Authentic'
  BY DEF Authentic
<1>1. ASSUME NEW p \in Procs, NEW i, Fine(i), inst' = [inst EXCEPT ![p] = i] PROVE Authentic'
  BY <1>0, <1>1, <1>a, <1>c
<1>2. ASSUME NEW p \in Procs, NEW v \in Versions, Install(p, v) PROVE Authentic'
  <2>1. Fine([IdleInst EXCEPT !.pc = "version", !.target = v])
    BY DEF IdleInst
  <2> HIDE DEF Fine
  <2> QED BY <1>1, <1>2, <2>1 DEF Install
<1>3. ASSUME NEW p \in Procs, InstallOrUpdate(p) PROVE Authentic'
  <2>1. CASE inst' = [inst EXCEPT ![p] = IdleInst]
    BY <1>1, <1>b, <2>1
  <2>2. CASE InstalledVersion(p)
    <3>1. Fine([inst[p] EXCEPT !.pc = "fetch", !.seen = core.bin])
      BY <1>0, <1>a, <2>2 DEF InstalledVersion, Insts
    <3> HIDE DEF Fine
    <3> QED BY <1>1, <2>2, <3>1 DEF InstalledVersion
  <2>3. CASE FetchRelease(p) /\ Goto(p, "download")
    <3>1. Fine([inst[p] EXCEPT !.pc = "download"])
      BY <1>0, <1>a, <2>3 DEF FetchRelease, Insts
    <3> HIDE DEF Fine
    <3> QED BY <1>1, <2>3, <3>1 DEF Goto
  <2>4. CASE Download(p)
    <3>1. \A a \in {inst[p].target, Cut} : Fine([inst[p] EXCEPT !.pc = "verify", !.archive = a])
      BY <1>0, <1>a, <2>4 DEF Download, Insts
    <3> HIDE DEF Fine
    <3> QED BY <1>1, <2>4, <3>1 DEF Download
  <2>5. CASE Verify(p) /\ inst[p].archive # Cut /\ Goto(p, "binary")
    <3>1. Fine([inst[p] EXCEPT !.pc = "binary"])
      BY <1>0, <1>a, <2>5 DEF Verify, Insts
    <3> HIDE DEF Fine
    <3> QED BY <1>1, <2>5, <3>1 DEF Goto
  <2>6. CASE InstallBinary(p) \/ InstallData(p) \/ CopySampleConfig(p) \/ TestConfig(p) \/ InstallService(p)
    <3>1. \A pc \in Half : Fine([inst[p] EXCEPT !.pc = pc])
      BY <1>0, <1>a, <2>6
         DEF InstallBinary, InstallData, CopySampleConfig, TestConfig, InstallService, Half, Insts
    <3>2. \E pc \in Half : inst' = [inst EXCEPT ![p] = [inst[p] EXCEPT !.pc = pc]]
      BY <2>6 DEF InstallBinary, InstallData, CopySampleConfig, TestConfig, InstallService, Half, Goto
    <3> HIDE DEF Fine
    <3> QED BY <1>1, <3>1, <3>2
  <2>7. CASE EnableService(p) \/ InstallFails(p)
    BY <2>1, <2>7 DEF EnableService, InstallFails, Ends
  <2> QED BY <1>3, <2>1, <2>2, <2>3, <2>4, <2>5, <2>6, <2>7
          DEF InstallOrUpdate, FetchRelease, Verify, Ends
<1>4. CASE Ends("agent") \/ Ends("admin")
  <2> HIDE DEF Fine
  <2> QED BY <1>1, <1>4, <1>b DEF Ends, Procs
<1>5. CASE UNCHANGED inst
  BY <1>5 DEF Authentic
<1>6. \/ \E p \in Procs : InstallOrUpdate(p)
      \/ \E p \in Procs, v \in Versions : Install(p, v)
      \/ Ends("agent") \/ Ends("admin")
      \/ UNCHANGED inst
  BY DEF Next, Agent, Admin, AgentStart, AgentLoad, EnsureCore, RestartCore, OpenFile, WriteFile,
         Systemctl, AgentDies, AdminDies, RunByHand, UpdateCore, CoreCommand, SetupCommand,
         UpdateConfigCommand, vars, Procs
<1> QED BY <1>2, <1>3, <1>4, <1>5, <1>6

\* The steps that neither touch the files of Xray-core nor stop Xray, nor have a
\* process leave the half-way steps of a clean installation or enter them.
Harmless ==
    /\ core' = core
    /\ clean' => clean
    /\ xray # None => xray' # None
    /\ \A p \in Procs : \/ inst'[p] = inst[p]
                        \/ inst'[p].pc \notin Half /\ (clean' => inst[p].pc \notin Half)

LEMMA HarmlessKeeps ==
  ASSUME HalfWay, Complete, Harmless
  PROVE  HalfWay' /\ Complete'
<1>1. HalfWay'
  BY DEF HalfWay, Harmless, Half
<1>2. Complete'
  <2> SUFFICES ASSUME clean', core'.bin # None, \A p \in Procs : inst'[p].pc \notin Half
               PROVE  core'.data = core'.bin /\ core'.conf /\ core'.unit /\ xray' # None
    BY DEF Complete
  <2>1. \A p \in Procs : inst[p].pc \notin Half
    BY DEF Harmless
  <2> QED BY <2>1 DEF Complete, Harmless
<1> QED BY <1>1, <1>2

LEMMA InstallHarmless ==
  ASSUME TypeOK, NEW p \in Procs, NEW v, inst[p].pc = "idle", Install(p, v),
         UNCHANGED <<core, xray, clean>>
  PROVE  Harmless
<1>1. inst \in [Procs -> Insts]
  BY TypeParts
<1>2. inst'[p].pc \notin Half
  BY <1>1 DEF Install, IdleInst, Half
<1>3. \A q \in Procs \ {p} : inst'[q] = inst[q]
  BY <1>1 DEF Install
<1> QED BY <1>2, <1>3 DEF Harmless, Half

LEMMA EndsHarmless ==
  ASSUME TypeOK, NEW p \in Procs, Ends(p), core' = core, xray' = xray
  PROVE  Harmless
<1>1. inst \in [Procs -> Insts]
  BY TypeParts
<1>2. inst'[p].pc \notin Half
  BY <1>1 DEF Ends, IdleInst, Half
<1>3. \A q \in Procs \ {p} : inst'[q] = inst[q]
  BY <1>1 DEF Ends
<1>4. clean' => clean /\ inst[p].pc \notin Half
  BY Zenon DEF Ends
<1> QED BY <1>2, <1>3, <1>4 DEF Harmless

\* A process goes on to a step before or after the files are replaced.
LEMMA GotoEffect ==
  ASSUME TypeOK, NEW p \in Procs, NEW pc, Goto(p, pc)
  PROVE  /\ inst'[p].pc = pc /\ inst'[p].target = inst[p].target
         /\ \A q \in Procs \ {p} : inst'[q] = inst[q]
<1>1. inst \in [Procs -> Insts] /\ inst[p] \in Insts
  BY TypeParts
<1> QED BY <1>1 DEF Goto, Insts

LEMMA InstallsComplete ==
  ASSUME TypeOK, Authentic, HalfWay, Complete, NEW p \in Procs, InstallOrUpdate(p)
  PROVE  HalfWay' /\ Complete'
<1>0. /\ inst \in [Procs -> Insts] /\ \A q \in Procs : inst[q] \in Insts
      /\ core \in [bin : Versions \cup {None}, data : Versions \cup {None},
                   conf : BOOLEAN, unit : BOOLEAN]
      /\ xray \in Versions \cup {None}
  BY TypeParts
<1>1. CASE InstalledVersion(p) \/ Download(p)
  <2>1. inst[p].pc \notin Half /\ UNCHANGED <<core, xray, clean>>
    BY <1>1 DEF InstalledVersion, Download, Half
  <2>2. CASE InstalledVersion(p)
    <3>1. inst'[p].pc = "fetch" /\ \A q \in Procs \ {p} : inst'[q] = inst[q]
      BY <1>0, <2>2 DEF InstalledVersion, Insts
    <3>2. Harmless
      BY <2>1, <3>1 DEF Harmless, Half
    <3> QED BY <3>2, HarmlessKeeps
  <2>3. CASE Download(p)
    <3>1. \E a \in {inst[p].target, Cut} :
             inst' = [inst EXCEPT ![p] = [inst[p] EXCEPT !.pc = "verify", !.archive = a]]
      BY <2>3 DEF Download
    <3>2. inst'[p].pc = "verify" /\ \A q \in Procs \ {p} : inst'[q] = inst[q]
      BY <1>0, <3>1 DEF Insts
    <3>3. Harmless
      BY <2>1, <3>2 DEF Harmless, Half
    <3> QED BY <3>3, HarmlessKeeps
  <2> QED BY <1>1, <2>2, <2>3
<1>2. CASE FetchRelease(p) \/ Verify(p)
  <2>1. inst[p].pc \notin Half /\ UNCHANGED <<core, xray>>
    BY <1>2 DEF FetchRelease, Verify, Half
  <2>2. CASE Ends(p)
    BY <2>1, <2>2, EndsHarmless, HarmlessKeeps
  <2>3. CASE clean' = clean /\ \E pc \in {"download", "binary"} : Goto(p, pc)
    <3>1. Harmless
      BY <2>1, <2>3, GotoEffect DEF Harmless, Half
    <3> QED BY <3>1, HarmlessKeeps
  <2> QED BY <1>2, <2>2, <2>3 DEF FetchRelease, Verify
<1>3. CASE InstallFails(p)
  BY <1>3, EndsHarmless, HarmlessKeeps DEF InstallFails
<1>4. CASE InstallBinary(p)
  <2>1. clean' => clean /\ ~Mixed(p)
    BY <1>4, Zenon DEF InstallBinary
  <2>2. /\ inst'[p].pc = "data" /\ inst'[p].target = inst[p].target
        /\ \A q \in Procs \ {p} : inst'[q] = inst[q]
    BY <1>4, GotoEffect DEF InstallBinary
  <2>3. core'.bin = inst[p].target /\ core'.data = core.data /\ core'.conf = core.conf
        /\ core'.unit = core.unit
    BY <1>0, <1>4 DEF InstallBinary, Authentic
  <2>4. HalfWay'
    <3> SUFFICES ASSUME clean', NEW q \in Procs
                 PROVE  /\ inst'[q].pc \in Half => core'.bin = inst'[q].target
                        /\ inst'[q].pc \in Half \ {"data"} => core'.data = inst'[q].target
                        /\ inst'[q].pc \in {"test", "unit", "enable"} => core'.conf
                        /\ inst'[q].pc = "enable" => core'.unit
      BY DEF HalfWay
    <3>1. CASE q = p
      BY <2>2, <2>3, <3>1
    <3>2. CASE q # p
      <4>1. inst[q].pc = "idle" \/ inst[q].target = inst[p].target
        BY <2>1, <3>2 DEF Mixed
      <4> QED BY <2>1, <2>2, <2>3, <3>2, <4>1 DEF HalfWay, Half
    <3> QED BY <3>1, <3>2
  <2>5. Complete'
    BY <2>2 DEF Complete, Half
  <2> QED BY <2>4, <2>5
<1>5. CASE InstallData(p)
  <2>1. /\ inst'[p].pc = "config" /\ inst'[p].target = inst[p].target
        /\ \A q \in Procs \ {p} : inst'[q] = inst[q]
    BY <1>5, GotoEffect DEF InstallData
  <2>2. /\ core'.bin = core.bin /\ core'.data = inst[p].target
        /\ core'.conf = core.conf /\ core'.unit = core.unit /\ clean' = clean
        /\ inst[p].pc = "data"
    BY <1>0, <1>5 DEF InstallData
  <2>3. HalfWay'
    BY <2>1, <2>2 DEF HalfWay, Half
  <2>4. Complete'
    BY <2>1 DEF Complete, Half
  <2> QED BY <2>3, <2>4
<1>6. CASE CopySampleConfig(p)
  <2>1. /\ inst'[p].pc = "test" /\ inst'[p].target = inst[p].target
        /\ \A q \in Procs \ {p} : inst'[q] = inst[q]
    BY <1>6, GotoEffect DEF CopySampleConfig
  <2>2. /\ core'.bin = core.bin /\ core'.data = core.data /\ core'.conf
        /\ core'.unit = core.unit /\ clean' = clean /\ inst[p].pc = "config"
    BY <1>0, <1>6 DEF CopySampleConfig
  <2>3. HalfWay'
    BY <2>1, <2>2 DEF HalfWay, Half
  <2>4. Complete'
    BY <2>1 DEF Complete, Half
  <2> QED BY <2>3, <2>4
<1>7. CASE TestConfig(p)
  <2>1. /\ inst'[p].pc = "unit" /\ inst'[p].target = inst[p].target
        /\ \A q \in Procs \ {p} : inst'[q] = inst[q]
    BY <1>7, GotoEffect DEF TestConfig
  <2>2. core' = core /\ clean' = clean /\ inst[p].pc = "test"
    BY <1>7 DEF TestConfig
  <2>3. HalfWay'
    BY <2>1, <2>2 DEF HalfWay, Half
  <2>4. Complete'
    BY <2>1 DEF Complete, Half
  <2> QED BY <2>3, <2>4
<1>8. CASE InstallService(p)
  <2>1. /\ inst'[p].pc = "enable" /\ inst'[p].target = inst[p].target
        /\ \A q \in Procs \ {p} : inst'[q] = inst[q]
    BY <1>8, GotoEffect DEF InstallService
  <2>2. /\ core'.bin = core.bin /\ core'.data = core.data /\ core'.conf = core.conf
        /\ core'.unit /\ clean' = clean /\ inst[p].pc = "unit"
    BY <1>0, <1>8 DEF InstallService
  <2>3. HalfWay'
    BY <2>1, <2>2 DEF HalfWay, Half
  <2>4. Complete'
    BY <2>1 DEF Complete, Half
  <2> QED BY <2>3, <2>4
<1>9. CASE EnableService(p)
  <2>1. inst'[p].pc = "idle" /\ \A q \in Procs \ {p} : inst'[q] = inst[q]
    BY <1>0, <1>9 DEF EnableService, IdleInst
  <2>2. core' = core /\ clean' = clean /\ inst[p].pc = "enable"
        /\ xray' = IF xray = None THEN core.bin ELSE xray
    BY <1>9 DEF EnableService
  <2>3. HalfWay'
    BY <2>1, <2>2 DEF HalfWay, Half
  <2>4. Complete'
    BY <2>2 DEF Complete, HalfWay, Half
  <2> QED BY <2>3, <2>4
<1> QED BY <1>1, <1>2, <1>3, <1>4, <1>5, <1>6, <1>7, <1>8, <1>9 DEF InstallOrUpdate

\* The steps that at most start Xray.
Quiet == /\ core' = core /\ clean' = clean /\ inst' = inst
         /\ xray' = xray \/ (Startable /\ xray' = core.bin)

LEMMA QuietHarmless == Quiet => Harmless
  BY DEF Quiet, Harmless, Startable

LEMMA NextComplete ==
  TypeOK /\ Waiting /\ Authentic /\ HalfWay /\ Complete /\ [Next]_vars => HalfWay' /\ Complete'
<1> SUFFICES ASSUME TypeOK, Waiting, Authentic, HalfWay, Complete, [Next]_vars
             PROVE  HalfWay' /\ Complete'
  OBVIOUS
<1>0. /\ "agent" \in Procs /\ "admin" \in Procs
      /\ (agent.pc \in {"ensure", "run"} => inst["agent"].pc = "idle")
      /\ (admin.cmd = "none" => inst["admin"].pc = "idle")
  BY DEF Procs, Waiting
<1>1. CASE \E p \in Procs : InstallOrUpdate(p)
  BY <1>1, InstallsComplete
<1>2. CASE AgentStart
  BY <1>2, QuietHarmless, HarmlessKeeps DEF AgentStart, Quiet
<1>3. CASE RestartCore
  BY <1>3, QuietHarmless, HarmlessKeeps DEF RestartCore, Quiet
<1>4. CASE AgentLoad \/ OpenFile \/ WriteFile \/ RunByHand \/ UNCHANGED vars
  <2>1. Quiet
    BY <1>4 DEF AgentLoad, OpenFile, WriteFile, RunByHand, vars, Quiet
  <2> QED BY <2>1, QuietHarmless, HarmlessKeeps
<1>5. CASE \E flags \in Flags : SetupCommand(flags) \/ \E r \in BOOLEAN : UpdateConfigCommand(flags, r)
  <2>1. Quiet
    BY <1>5 DEF SetupCommand, UpdateConfigCommand, Quiet
  <2> QED BY <2>1, QuietHarmless, HarmlessKeeps
<1>6. CASE EnsureCore
  <2>1. \/ Quiet
        \/ inst["agent"].pc = "idle" /\ Install("agent", Target) /\ UNCHANGED <<core, xray, clean>>
    BY <1>0, <1>6 DEF EnsureCore, Quiet
  <2> QED BY <1>0, <2>1, QuietHarmless, InstallHarmless, HarmlessKeeps
<1>7. ASSUME NEW v \in Versions, UpdateCore(v) PROVE HalfWay' /\ Complete'
  <2>1. inst["agent"].pc = "idle" /\ Install("agent", v) /\ UNCHANGED <<core, xray, clean>>
    BY <1>0, <1>7 DEF UpdateCore
  <2> QED BY <1>0, <2>1, InstallHarmless, HarmlessKeeps
<1>8. ASSUME NEW v \in Versions, CoreCommand(v) PROVE HalfWay' /\ Complete'
  <2>1. inst["admin"].pc = "idle" /\ Install("admin", v) /\ UNCHANGED <<core, xray, clean>>
    BY <1>0, <1>8 DEF CoreCommand, Command
  <2> QED BY <1>0, <2>1, InstallHarmless, HarmlessKeeps
<1>9. CASE Systemctl
  <2>1. Quiet \/ (Ends("agent") /\ core' = core /\ xray' = xray)
    BY <1>9 DEF Systemctl, Quiet
  <2> QED BY <1>0, <2>1, QuietHarmless, EndsHarmless, HarmlessKeeps
<1>10. CASE AgentDies \/ AdminDies
  <2>1. \E p \in Procs : Ends(p) /\ core' = core /\ xray' = xray
    BY <1>0, <1>10 DEF AgentDies, AdminDies
  <2> QED BY <2>1, EndsHarmless, HarmlessKeeps
<1> QED BY <1>0, <1>1, <1>2, <1>3, <1>4, <1>5, <1>6, <1>7, <1>8, <1>9, <1>10 DEF Next, Agent, Admin
-----------------------------------------------------------------------------
(* The results.                                                             *)

LEMMA InitIInv == Init => IInv
<1> SUFFICES ASSUME Init PROVE IInv
  OBVIOUS
<1>1. TypeOK
  BY InitType
<1>2. inst = [p \in Procs |-> IdleInst] /\ \A p \in Procs : inst[p] = IdleInst
  BY DEF Init
<1>3. SettingsKept /\ Writing
  BY DEF Init, SettingsKept, Writing, IdleAdmin
<1>4. Waiting
  BY <1>2 DEF Init, Waiting, IdleAdmin, IdleInst, Down, Procs
<1>5. Authentic /\ HalfWay
  BY <1>2 DEF Authentic, HalfWay, IdleInst, Half
<1>6. Complete
  BY DEF Init, Complete
<1> QED BY <1>1, <1>3, <1>4, <1>5, <1>6 DEF IInv

LEMMA NextIInv == IInv /\ [Next]_vars => IInv'
  BY NextType, NextWaiting, NextWriting, NextAuthentic, NextComplete DEF IInv

\* The inductive invariant holds of every reachable state.
THEOREM Inductive == Spec => []IInv
  BY InitIInv, NextIInv, PTL DEF Spec

\* Whatever the two processes do to the files and wherever they are killed,
\* every variable keeps its type: xraycore.InstallOrUpdate puts no archive in
\* place whose checksum failed, and an agent that main.run lets past
\* config.Load holds a configuration that was completely written.
THEOREM TypeCorrect == Spec => []TypeOK
  BY Inductive, PTL DEF IInv

\* agentsetup.Setup and agentsetup.UpdateConfig, over any number of commands and
\* broken off anywhere: a configuration that can be read has every setting as
\* the last command that wrote it left it.
THEOREM SettingsSurvive == Spec => []SettingsKept
  BY Inductive, PTL DEF IInv

\* Two processes in xraycore.InstallOrUpdate at the same time, without a lock,
\* leave a complete core of one release with Xray running, unless one broke off
\* after it had replaced the binary or they installed different releases.
THEOREM CoreComplete == Spec => []CoreSetComplete
<1>1. IInv => CoreSetComplete
  BY DEF IInv, Complete, CoreSetComplete, Half
<1> QED BY <1>1, Inductive, PTL
=============================================================================
