------------------------------- MODULE Provision -------------------------------
(***************************************************************************)
(* Setting up a node: the administrator's commands (setup, update-config,  *)
(* core install), the start of the agent with its ensureCore, and the      *)
(* UPDATE_CORE command.  The agent and the administrator's command are two *)
(* processes that install Xray-core with the same InstallOrUpdate, into    *)
(* the same places and without a lock; restarting the agent kills its      *)
(* installation wherever it is.                                            *)
(*                                                                         *)
(* Each file operation is a step.  xraycore writes to a temporary file and *)
(* renames it, so a file is replaced in one step; agentsetup writes in     *)
(* place, so a file is first truncated and then filled.                    *)
(***************************************************************************)
EXTENDS Naturals, Sequences

CONSTANTS
    Versions,    \* releases of Xray-core
    Target,      \* xray.version of the configuration
    Fields,      \* settings of the configuration the commands can change
    Values,      \* what they can be set to
    Sample,      \* their value in the embedded sample
    None,        \* an absent file, a flag not given, a stopped process
    Cut,         \* a file opened for writing and not yet written
    Whole,       \* the content of the agent's binary and of its unit
    MaxFaults,   \* bound: failed steps and killed processes
    MaxAdmin,    \* bound: commands of the administrator
    MaxUpdates   \* bound: UPDATE_CORE commands

ASSUME TargetAssumption == Target \in Versions
ASSUME MarksAssumption  == /\ None \notin Versions \cup Values /\ Cut \notin Versions
                           /\ None # Cut /\ Whole \notin {None, Cut} /\ Sample # None
ASSUME LimitAssumption  == {MaxFaults, MaxAdmin, MaxUpdates} \subseteq Nat

VARIABLES
    core,    \* Xray-core on disk: bin and data (their release), conf and unit (present)
    xray,    \* the release the xray service runs
    files,   \* the agent's configuration, binary and unit, and whether it is enabled
    agent,   \* the agent: where it is, how it was started, what it loaded
    admin,   \* the administrator's command
    inst,    \* inst[p]: p's InstallOrUpdate
    clean,   \* history: no installation failed, died or met another one half-way
    asked,   \* history: the settings the administrator's commands have written
    spent    \* how much of each bound is used up

vars == <<core, xray, files, agent, admin, inst, clean, asked, spent>>

Procs  == {"agent", "admin"}
Config == [Fields -> Values \cup {Sample}]
Flags  == [Fields -> Values \cup {None}]
NoFlags == [f \in Fields |-> None]

\* A mark is no configuration.
ASSUME ContentAssumption == \A mark \in {None, Cut, Whole} : mark \notin Config

Steps == {"version", "fetch", "download", "verify", "binary",
          "data", "config", "test", "unit", "enable"}
\* The steps at which the new binary is in place and the rest is not.
Half  == {"data", "config", "test", "unit", "enable"}
AgentSteps == {"off", "start", "load", "ensure", "install", "run", "update", "restartCore"}
\* What setup and update-config have still to write.
Todos == {<<>>, <<"config">>, <<"unit">>, <<"binary", "unit">>, <<"config", "binary", "unit">>}
IdleInst == [pc |-> "idle", target |-> None, seen |-> None, archive |-> None]

IdleAdmin == [cmd |-> "none", flags |-> NoFlags, restart |-> FALSE,
              todo |-> <<>>, new |-> None]
Down == [pc |-> "off", hand |-> FALSE, loaded |-> None]

Init ==
    /\ core = [bin |-> None, data |-> None, conf |-> FALSE, unit |-> FALSE]
    /\ xray = None
    /\ files = [config |-> None, binary |-> None, unit |-> None, enabled |-> FALSE]
    /\ agent = Down
    /\ admin = IdleAdmin
    /\ inst = [p \in Procs |-> IdleInst]
    /\ clean = TRUE
    /\ asked = [f \in Fields |-> Sample]
    /\ spent = [faults |-> 0, admin |-> 0, updates |-> 0]

Spend(what, max) == spent[what] < max /\ spent' = [spent EXCEPT ![what] = @ + 1]
Fault == Spend("faults", MaxFaults)

\* The service of Xray is (re)started: it runs what is on disk.
Startable  == core.unit /\ core.conf /\ core.bin # None
-----------------------------------------------------------------------------
(* The agent's process.                                                     *)

\* Mutant: the service is not started again.
ExitedForGood(a) == Down

\* os.Exit(1) or death: the unit starts the agent again (Restart=always).
Exited(a) == IF a.hand THEN Down ELSE [Down EXCEPT !.pc = "start"]

\* ExecStartPre restarts a running Xray, Wants= starts a stopped one; whether
\* try-restart fails where there is no such unit is left open.
AgentStart ==
    /\ agent.pc = "start"
    /\ files.binary \notin {None, Cut}
    /\ xray' = IF Startable THEN core.bin ELSE xray
    /\ agent' = [agent EXCEPT !.pc = "load"]
    /\ UNCHANGED <<core, files, admin, inst, clean, asked, spent>>

\* Mutant: a truncated configuration is taken as it is.
AgentLoadAnything ==
    /\ agent.pc = "load"
    /\ agent' = IF files.config = None THEN Exited(agent)
                ELSE [agent EXCEPT !.pc = "ensure", !.loaded = files.config]
    /\ UNCHANGED <<core, xray, files, admin, inst, clean, asked, spent>>

\* config.Load: a missing or truncated file is refused.
AgentLoad ==
    /\ agent.pc = "load"
    /\ agent' = IF files.config \in {None, Cut} THEN Exited(agent)
                ELSE [agent EXCEPT !.pc = "ensure", !.loaded = files.config]
    /\ UNCHANGED <<core, xray, files, admin, inst, clean, asked, spent>>

\* p calls InstallOrUpdate.
Install(p, v) == inst' = [inst EXCEPT ![p] = [IdleInst EXCEPT !.pc = "version", !.target = v]]

\* ensureCore: any version will do; a missing core is installed.
EnsureCore ==
    /\ agent.pc = "ensure"
    /\ IF core.bin # None
       THEN agent' = [agent EXCEPT !.pc = "run"] /\ UNCHANGED inst
       ELSE agent' = [agent EXCEPT !.pc = "install"] /\ Install("agent", Target)
    /\ UNCHANGED <<core, xray, files, admin, clean, asked, spent>>

UpdateCore(v) ==
    /\ agent.pc = "run"
    /\ Spend("updates", MaxUpdates)
    /\ agent' = [agent EXCEPT !.pc = "update"]
    /\ Install("agent", v)
    /\ UNCHANGED <<core, xray, files, admin, clean, asked>>

\* systemctl restart xray after an update; its failure is reported to the panel.
RestartCore ==
    /\ agent.pc = "restartCore"
    /\ agent' = [agent EXCEPT !.pc = "run"]
    /\ \/ xray' = (IF Startable THEN core.bin ELSE xray) /\ UNCHANGED spent
       \/ Fault /\ UNCHANGED xray
    /\ UNCHANGED <<core, files, admin, inst, clean, asked>>

\* An installation ends that is not complete.
Ends(p)  == /\ inst' = [inst EXCEPT ![p] = IdleInst]
            /\ clean' = (clean /\ inst[p].pc \notin Half)

AgentDies ==
    /\ agent.pc \notin {"off", "start"}
    /\ Fault
    /\ agent' = Exited(agent)
    /\ Ends("agent")
    /\ UNCHANGED <<core, xray, files, admin, asked>>
-----------------------------------------------------------------------------
(* xraycore.InstallOrUpdate, in the agent or in the administrator's command. *)

\* What follows its return in the caller.
Returned(p, ok, updated) ==
    IF p = "admin"
    THEN admin' = IdleAdmin /\ UNCHANGED agent
    ELSE /\ agent' = CASE agent.pc = "install" /\ ~ok -> Exited(agent)
                       [] agent.pc = "update" /\ updated -> [agent EXCEPT !.pc = "restartCore"]
                       [] OTHER -> [agent EXCEPT !.pc = "run"]
         /\ UNCHANGED admin

Goto(p, pc) == inst' = [inst EXCEPT ![p] = [@ EXCEPT !.pc = pc]]
Stays       == UNCHANGED <<files, asked, spent, agent, admin>>

\* xray -version is run before the release is looked up.
InstalledVersion(p) ==
    /\ inst[p].pc = "version"
    /\ inst' = [inst EXCEPT ![p] = [@ EXCEPT !.pc = "fetch", !.seen = core.bin]]
    /\ UNCHANGED <<core, xray, clean>> /\ Stays

\* fetchRelease: nothing is done if that release is installed.
FetchRelease(p) ==
    /\ inst[p].pc = "fetch"
    /\ IF inst[p].seen = inst[p].target
       THEN Ends(p) /\ Returned(p, TRUE, FALSE)
       ELSE Goto(p, "download") /\ UNCHANGED <<clean, agent, admin>>
    /\ UNCHANGED <<core, xray, files, asked, spent>>

\* The archive and its digest arrive, perhaps not as they were sent.
Download(p) ==
    /\ inst[p].pc = "download"
    /\ \/ inst' = [inst EXCEPT ![p] = [@ EXCEPT !.pc = "verify", !.archive = inst[p].target]]
          /\ UNCHANGED spent
       \/ inst' = [inst EXCEPT ![p] = [@ EXCEPT !.pc = "verify", !.archive = Cut]]
          /\ Fault
    /\ UNCHANGED <<core, xray, files, agent, admin, clean, asked>>

\* verifySHA256, unzip.
Verify(p) ==
    /\ inst[p].pc = "verify"
    /\ IF inst[p].archive = Cut
       THEN Ends(p) /\ Returned(p, FALSE, FALSE)
       ELSE Goto(p, "binary") /\ UNCHANGED <<clean, agent, admin>>
    /\ UNCHANGED <<core, xray, files, asked, spent>>

\* Two installations of different releases at the same time mix their files.
Mixed(p) == \E q \in Procs \ {p} : inst[q].pc # "idle" /\ inst[q].target # inst[p].target

InstallBinary(p) ==
    /\ inst[p].pc = "binary"
    /\ core' = [core EXCEPT !.bin = inst[p].archive]
    /\ clean' = (clean /\ ~Mixed(p))
    /\ Goto(p, "data")
    /\ UNCHANGED xray /\ Stays

\* Mutant: the data files are left alone when they exist.
InstallDataOnce(p) ==
    /\ inst[p].pc = "data"
    /\ core' = IF core.data = None THEN [core EXCEPT !.data = inst[p].target] ELSE core
    /\ Goto(p, "config")
    /\ UNCHANGED <<xray, clean>> /\ Stays

\* geoip.dat and geosite.dat.
InstallData(p) ==
    /\ inst[p].pc = "data"
    /\ core' = [core EXCEPT !.data = inst[p].target]
    /\ Goto(p, "config")
    /\ UNCHANGED <<xray, clean>> /\ Stays

\* copySampleConfig: an existing configuration is kept.
CopySampleConfig(p) ==
    /\ inst[p].pc = "config"
    /\ core' = [core EXCEPT !.conf = TRUE]
    /\ Goto(p, "test")
    /\ UNCHANGED <<xray, clean>> /\ Stays

TestConfig(p) ==
    /\ inst[p].pc = "test"
    /\ Goto(p, "unit")
    /\ UNCHANGED <<core, xray, clean>> /\ Stays

InstallService(p) ==
    /\ inst[p].pc = "unit"
    /\ core' = [core EXCEPT !.unit = TRUE]
    /\ Goto(p, "enable")
    /\ UNCHANGED <<xray, clean>> /\ Stays

\* daemon-reload, enable --now: starts a stopped Xray, does not restart it.
EnableService(p) ==
    /\ inst[p].pc = "enable"
    /\ xray' = IF xray = None THEN core.bin ELSE xray
    /\ inst' = [inst EXCEPT ![p] = IdleInst]
    /\ Returned(p, TRUE, TRUE)
    /\ UNCHANGED <<core, files, clean, asked, spent>>

\* Any step but the first can fail: GitHub, a checksum, the disk, a
\* configuration the new release does not accept, systemctl.
InstallFails(p) ==
    /\ inst[p].pc \notin {"idle", "version"}
    /\ Fault
    /\ Ends(p)
    /\ Returned(p, FALSE, FALSE)
    /\ UNCHANGED <<core, xray, files, asked>>

InstallOrUpdate(p) ==
    \/ InstalledVersion(p) \/ FetchRelease(p) \/ Download(p) \/ Verify(p)
    \/ InstallBinary(p) \/ InstallData(p)
    \/ CopySampleConfig(p) \/ TestConfig(p) \/ InstallService(p) \/ EnableService(p)
    \/ InstallFails(p)
-----------------------------------------------------------------------------
(* The administrator's commands, one after the other.                       *)

Command(c) == /\ admin.cmd = "none"
              /\ Spend("admin", MaxAdmin)
              /\ admin' = c

\* xray-agent run, by hand.  Two agents at a time are not modelled.
RunByHand ==
    /\ agent.pc = "off"
    /\ Command(IdleAdmin)
    /\ agent' = [pc |-> "load", hand |-> TRUE, loaded |-> None]
    /\ UNCHANGED <<core, xray, files, inst, clean, asked>>

\* xray-agent core --action install: an unreadable configuration is an error.
CoreCommand(v) ==
    /\ files.config # Cut
    /\ Command([IdleAdmin EXCEPT !.cmd = "core"])
    /\ Install("admin", v)
    /\ UNCHANGED <<core, xray, files, agent, clean, asked>>

SetupCommand(flags) ==
    /\ ~agent.hand
    /\ Command([IdleAdmin EXCEPT !.cmd = "setup", !.flags = flags,
                                 !.todo = <<"config", "binary", "unit">>])
    /\ UNCHANGED <<core, xray, files, agent, inst, clean, asked>>

UpdateConfigCommand(flags, restart) ==
    /\ flags # NoFlags
    /\ restart => ~agent.hand
    /\ Command([IdleAdmin EXCEPT !.cmd = "update", !.flags = flags,
                                 !.restart = restart, !.todo = <<"config">>])
    /\ UNCHANGED <<core, xray, files, agent, inst, clean, asked>>

\* applyOptionalFields.
Applied(config, flags) ==
    [f \in Fields |-> IF flags[f] = None THEN config[f] ELSE flags[f]]

\* Mutant: the sample is the starting point even if there is a configuration.
LoadedSample == [f \in Fields |-> Sample]

\* loadConfig, ensureConfig: the configuration to start from.
Loaded == IF files.config = None THEN [f \in Fields |-> Sample] ELSE files.config

Content(file) == IF file = "config" THEN Applied(Loaded, admin.flags) ELSE Whole

\* config.Load refuses a truncated configuration, for good; and a binary that
\* is being executed cannot be written.
OpenRefused(file) ==
    \/ file = "config" /\ files.config = Cut
    \/ file = "binary" /\ agent.pc \notin {"off", "start"}

\* os.WriteFile opens with O_TRUNC...  The running agent may be another file
\* than the installed one.
OpenFile ==
    /\ admin.todo # <<>> /\ admin.new = None
    /\ LET file == Head(admin.todo)
       IN  \/ OpenRefused(file) /\ admin' = IdleAdmin /\ UNCHANGED files
           \/ /\ file = "config" => files.config # Cut
              /\ admin' = [admin EXCEPT !.new = Content(file)]
              /\ files' = [files EXCEPT ![file] = Cut]
    /\ UNCHANGED <<core, xray, agent, inst, clean, asked, spent>>

\* ... and then writes.
WriteFile ==
    /\ admin.new # None
    /\ LET file == Head(admin.todo)
       IN  /\ files' = [files EXCEPT ![file] = admin.new]
           /\ asked' = IF file = "config" THEN Applied(asked, admin.flags) ELSE asked
    /\ admin' = [admin EXCEPT !.todo = Tail(@), !.new = None]
    /\ UNCHANGED <<core, xray, agent, inst, clean, spent>>

\* systemd knows the agent's unit.
Restartable == files.unit = Whole \/ agent.pc # "off"

\* setup: enable --now starts the agent unless it runs; update-config: restart.
Systemctl ==
    /\ admin.cmd \in {"setup", "update"} /\ admin.todo = <<>>
    /\ admin' = IdleAdmin
    /\ files' = [files EXCEPT !.enabled = @ \/ admin.cmd = "setup"]
    /\ \/ /\ admin.cmd = "setup"
          /\ agent' = IF agent.pc = "off" THEN [Down EXCEPT !.pc = "start"] ELSE agent
          /\ UNCHANGED <<inst, clean>>
       \/ /\ admin.restart /\ Restartable
          /\ agent' = [Down EXCEPT !.pc = "start"]
          /\ Ends("agent")
       \/ /\ admin.cmd = "update" /\ ~(admin.restart /\ Restartable)
          /\ UNCHANGED <<agent, inst, clean>>
    /\ UNCHANGED <<core, xray, asked, spent>>

\* The command is interrupted, or one of its steps fails.
AdminDies ==
    /\ admin.cmd # "none"
    /\ Fault
    /\ admin' = IdleAdmin
    /\ Ends("admin")
    /\ UNCHANGED <<core, xray, files, agent, asked>>
-----------------------------------------------------------------------------
Agent == AgentStart \/ AgentLoad \/ EnsureCore \/ RestartCore \/ InstallOrUpdate("agent")
Admin == OpenFile \/ WriteFile \/ Systemctl \/ InstallOrUpdate("admin")

Next == \/ Agent \/ Admin
        \/ AgentDies \/ AdminDies \/ RunByHand
        \/ \E v \in Versions : UpdateCore(v) \/ CoreCommand(v)
        \/ \E flags \in Flags : \/ SetupCommand(flags)
                                \/ \E r \in BOOLEAN : UpdateConfigCommand(flags, r)

Spec == Init /\ [][Next]_vars

\* A process that can go on does.  systemd keeps starting the agent, every
\* RestartSec; that the start succeeds is only assumed where Xray has a unit.
Fairness == /\ WF_vars(Agent /\ (agent.pc = "start" => core.unit))
            /\ WF_vars(Admin)

FairSpec == Spec /\ Fairness
-----------------------------------------------------------------------------
\* Every variable stays in its type; in particular a damaged archive never gets
\* to Xray's place, and an agent past its start holds a configuration that was
\* completely written, although the file may be truncated at any time.
TypeOK ==
    /\ core \in [bin : Versions \cup {None}, data : Versions \cup {None},
                 conf : BOOLEAN, unit : BOOLEAN]
    /\ xray \in Versions \cup {None}
    /\ files \in [config : Config \cup {None, Cut}, binary : {None, Cut, Whole},
                  unit : {None, Cut, Whole}, enabled : BOOLEAN]
    /\ agent \in [pc : AgentSteps, hand : BOOLEAN, loaded : Config \cup {None}]
    /\ agent.loaded = None <=> agent.pc \in {"off", "start", "load"}
    /\ admin \in [cmd : {"none", "core", "setup", "update"}, flags : Flags, restart : BOOLEAN,
                  todo : Todos, new : Config \cup {None, Whole}]
    /\ inst \in [Procs -> [pc : Steps \cup {"idle"}, target : Versions \cup {None},
                           seen : Versions \cup {None}, archive : Versions \cup {None, Cut}]]
    /\ clean \in BOOLEAN /\ asked \in Config
    /\ spent \in [{"faults", "admin", "updates"} -> Nat]

\* Installations of two processes that share nothing but the disk leave a core
\* that is complete: its data is of its release, configuration and unit are
\* there and Xray runs, unless one was broken off after it had replaced the
\* binary, or two of different releases overlapped.
CoreSetComplete ==
    clean /\ core.bin # None /\ (\A p \in Procs : inst[p].pc = "idle") =>
        core.data = core.bin /\ core.conf /\ core.unit /\ xray # None

\* The settings given to setup and update-config add up: a configuration that
\* can be read has every setting as the last command that wrote it left it,
\* whatever was interrupted in between.
SettingsKept == files.config \notin {None, Cut} => files.config = asked

\* The agent's unit is enabled, its files are whole and Xray has its unit.
Installed == /\ files.enabled
             /\ files.config \notin {None, Cut}
             /\ files.binary = Whole
             /\ core.unit

\* The agent keeps coming up: after failed starts, kills, restarts in the middle
\* of an installation and truncated files, once its files are whole and for as
\* long as they stay so it ends up running, with a core.
ComesUp ==
    <>[]Installed => <>[](agent.pc = "run" /\ core.bin # None)

\* run "auto-installs Xray-core if missing" (README.md:120): once the agent runs
\* and nobody is installing, Xray's data, configuration and unit are there too.
CoreForAgent ==
    agent.pc = "run" /\ (\A p \in Procs : inst[p].pc = "idle") =>
        core.bin # None /\ core.data # None /\ core.conf /\ core.unit
-----------------------------------------------------------------------------
(* The inductive invariant behind the safety properties.                    *)

\* A process installs only where its caller waits for it; the commands that
\* write files do not install.
Waiting ==
    /\ inst["agent"].pc # "idle" <=> agent.pc \in {"install", "update"}
    /\ inst["admin"].pc # "idle" => admin.cmd = "core"
    /\ admin.cmd \in {"none", "core"} => admin.todo = <<>>
    /\ admin.todo = <<>> => admin.new = None

\* What setup and update-config are about to write, and what the settings asked
\* for so far are while there is no configuration.
Writing ==
    /\ files.config = None => asked = [f \in Fields |-> Sample]
    /\ admin.new # None =>
          IF Head(admin.todo) = "config"
          THEN files.config = Cut /\ admin.new = Applied(asked, admin.flags)
          ELSE admin.new = Whole

\* An archive that passed its check is the requested one.
Authentic ==
    \A p \in Procs :
        /\ inst[p].pc # "idle" => inst[p].target \in Versions
        /\ inst[p].pc = "verify" => inst[p].archive \in {inst[p].target, Cut}
        /\ inst[p].pc = "binary" => inst[p].archive = inst[p].target

\* What an installation has put in place so far is still there.
HalfWay ==
    clean => \A p \in Procs :
        /\ inst[p].pc \in Half => core.bin = inst[p].target
        /\ inst[p].pc \in Half \ {"data"} => core.data = inst[p].target
        /\ inst[p].pc \in {"test", "unit", "enable"} => core.conf
        /\ inst[p].pc = "enable" => core.unit

\* CoreSetComplete also where installations are under way that have not replaced
\* the binary yet.
Complete ==
    clean /\ core.bin # None /\ (\A p \in Procs : inst[p].pc \notin Half) =>
        core.data = core.bin /\ core.conf /\ core.unit /\ xray # None

IInv == TypeOK /\ SettingsKept /\ Waiting /\ Writing /\ Authentic /\ HalfWay /\ Complete
=============================================================================
