---------------------------- MODULE EgressGateway ----------------------------
(***************************************************************************)
(* The shared gateway VM and the host code that deploys it (module         *)
(* `platform` of src/src/private_egress.rs).                               *)
(*                                                                         *)
(* Every `coop` command of private-egress mode runs ensure_gateway: under  *)
(* a lock file it starts the VM, reuses the gateway when the deployment    *)
(* stamp of the host matches and the service is healthy, and otherwise     *)
(* installs a configuration with a new controller secret, the selector     *)
(* state that goes with it and the service, and stamps the deployment      *)
(* last. In the VM the service manager runs mihomo.service: it closes the  *)
(* kill switch, starts mihomo, restores the selectors and opens the kill   *)
(* switch. The VM is one for the host; lock and stamp live in data_dir.    *)
(***************************************************************************)
EXTENDS Naturals, Sequences

CONSTANTS
  Coop,         \* the `coop` commands that may run at the same time
  DataDirs,     \* the data directories of their configurations
  DirOf,        \* the data directory each command is configured with
  Deployments,  \* subscription, expected exit and selections, as one value
  None,
  MaxInstalls,  \* bound on configurations installed in one behaviour
  MaxFaults     \* bound on failures of the service and of the VM

ASSUME GatewayAssumption ==
  /\ DirOf \in [Coop -> DataDirs]
  /\ None \notin Coop \cup Deployments
  /\ MaxInstalls \in Nat
  /\ MaxFaults \in Nat

VARIABLES
  \* the host
  pc,        \* where each command is in ensure_gateway
  want,      \* the deployment each command was configured with
  version,   \* the configuration each command has installed, 0 for none
  lock,      \* per data directory: who holds .gateway-state.lock
  stamp,     \* per data directory: gateway-deployment.stamp
  contents,  \* the deployment in each configuration installed so far
  \* the gateway's disk
  config,    \* config.yaml: the configuration, with its controller secret
  selectors, \* selector-state.json: the configuration it was written for
  service,   \* unit file, kill switch and sysctl settings are installed
  \* the gateway's memory
  vm,        \* the VM runs
  unit,      \* state of mihomo.service
  running,   \* the configuration mihomo has loaded, 0 when it does not run
  selected,  \* the configuration whose selectors were restored since its start
  switch,    \* nft table coop_gateway_killswitch: "none", "closed", "open"
  forward,   \* net.ipv4.ip_forward
  faults

hostVars == <<pc, want, version, lock, stamp, contents>>
diskVars == <<config, selectors, service>>
memVars  == <<vm, unit, running, selected, switch, forward>>
vars == <<hostVars, diskVars, memVars, faults>>

Versions == 0..MaxInstalls
-----------------------------------------------------------------------------
TypeOK ==
  /\ pc \in [Coop -> {"idle", "lock", "vm", "check", "restart", "restarting",
                      "recheck", "config", "selectors", "setup", "start",
                      "starting", "active", "verify", "stamp", "ok"}]
  /\ want \in [Coop -> Deployments \cup {None}]
  /\ version \in [Coop -> Versions]
  /\ lock \in [DataDirs -> Coop \cup {None}]
  /\ stamp \in [DataDirs -> Deployments \cup {None}]
  /\ contents \in UNION {[1..n -> Deployments] : n \in Versions}
  /\ config \in Versions /\ selectors \in Versions
  /\ service \in BOOLEAN /\ vm \in BOOLEAN /\ forward \in BOOLEAN
  /\ unit \in {"dead", "start", "test", "restore", "open", "active", "stop",
              "restop", "failed"}
  /\ running \in Versions /\ selected \in Versions
  /\ switch \in {"none", "closed", "open"}
  /\ faults \in 0..MaxFaults

Init ==
  /\ pc = [p \in Coop |-> "idle"]
  /\ want = [p \in Coop |-> None]
  /\ version = [p \in Coop |-> 0]
  /\ lock = [d \in DataDirs |-> None]
  /\ stamp = [d \in DataDirs |-> None]
  /\ contents = <<>>
  /\ config = 0 /\ selectors = 0 /\ service = FALSE
  /\ vm = FALSE /\ unit = "dead" /\ running = 0 /\ selected = 0
  /\ switch = "none" /\ forward = FALSE
  /\ faults = 0

Fault == faults < MaxFaults /\ faults' = faults + 1
Goto(p, l) == pc' = [pc EXCEPT ![p] = l]
\* Mutant of Release: the lock outlives its holder.
KeepLock(p) == UNCHANGED lock

Release(p) == lock' = [lock EXCEPT ![DirOf[p]] = None]

\* gateway_service_healthy, as `limactl shell` sees it.
Healthy == vm /\ unit = "active" /\ running # 0 /\ switch = "open"
-----------------------------------------------------------------------------
(* ensure_gateway *)

Begin(p) ==
  /\ pc[p] = "idle"
  /\ Goto(p, "lock")
  /\ \E d \in Deployments : want' = [want EXCEPT ![p] = d]
  /\ version' = [version EXCEPT ![p] = 0]
  /\ UNCHANGED <<lock, stamp, contents, diskVars, memVars, faults>>

\* Mutant of AcquireLock: the lock is taken whoever holds it.
TakeLock(p) ==
  /\ pc[p] = "lock"
  /\ lock' = [lock EXCEPT ![DirOf[p]] = p]
  /\ Goto(p, "vm")
  /\ UNCHANGED <<want, version, stamp, contents, diskVars, memVars, faults>>

AcquireLock(p) ==
  /\ pc[p] = "lock"
  /\ lock[DirOf[p]] = None
  /\ lock' = [lock EXCEPT ![DirOf[p]] = p]
  /\ Goto(p, "vm")
  /\ UNCHANGED <<want, version, stamp, contents, diskVars, memVars, faults>>

\* The VM boots with the persisted sysctl settings and an enabled service.
Boot ==
  /\ vm' = TRUE
  /\ unit' = IF service THEN "start" ELSE "dead"
  /\ forward' = service
  /\ UNCHANGED <<running, selected, switch>>

EnsureVm(p) ==
  /\ pc[p] = "vm"
  /\ Goto(p, "check")
  /\ IF vm THEN UNCHANGED memVars ELSE Boot
  /\ UNCHANGED <<want, version, lock, stamp, contents, diskVars, faults>>

Succeed(p) == Goto(p, "ok") /\ Release(p)

CheckStamp(p) ==
  /\ pc[p] = "check"
  /\ \/ stamp[DirOf[p]] = want[p] /\ Healthy /\ Succeed(p)
     \/ stamp[DirOf[p]] = want[p] /\ ~Healthy /\ Goto(p, "restart") /\ UNCHANGED lock
     \/ stamp[DirOf[p]] # want[p] /\ Goto(p, "config") /\ UNCHANGED lock
  /\ UNCHANGED <<want, version, stamp, contents, diskVars, memVars, faults>>

\* `systemctl restart` stops the process, lets ExecStopPost close the switch
\* and starts the unit; the caller waits for the answer to its start job.
RestartUnit ==
  /\ unit' = IF unit \in {"dead", "failed"} THEN "start" ELSE "restop"
  /\ running' = 0 /\ selected' = 0
  /\ UNCHANGED <<vm, switch>>

RestartService(p) ==
  /\ pc[p] = "restart"
  /\ IF vm /\ service
       THEN RestartUnit /\ UNCHANGED forward /\ Goto(p, "restarting")
       ELSE UNCHANGED memVars /\ Goto(p, "recheck")
  /\ UNCHANGED <<want, version, lock, stamp, contents, diskVars, faults>>

\* The result of the restart is ignored; only the second health check decides.
Recheck(p) ==
  /\ pc[p] = "recheck"
  /\ \/ Healthy /\ Succeed(p)
     \/ ~Healthy /\ Goto(p, "config") /\ UNCHANGED lock
  /\ UNCHANGED <<want, version, stamp, contents, diskVars, memVars, faults>>

\* The subscription is fetched and hardened with a new random secret; then
\* install_gateway_config makes its three remote calls.
InstallConfig(p) ==
  /\ pc[p] = "config"
  /\ vm
  /\ Len(contents) < MaxInstalls
  /\ contents' = Append(contents, want[p])
  /\ version' = [version EXCEPT ![p] = Len(contents')]
  /\ config' = Len(contents')
  /\ Goto(p, "selectors")
  /\ UNCHANGED <<want, lock, stamp, selectors, service, memVars, faults>>

\* Mutant of InstallSelectors: off by one.
InstallNextSelectors(p) ==
  /\ pc[p] = "selectors"
  /\ vm
  /\ selectors' = version[p] + 1
  /\ Goto(p, "setup")
  /\ UNCHANGED <<want, version, lock, stamp, contents, config, service, memVars,
                 faults>>

InstallSelectors(p) ==
  /\ pc[p] = "selectors"
  /\ vm
  /\ selectors' = version[p]
  /\ Goto(p, "setup")
  /\ UNCHANGED <<want, version, lock, stamp, contents, config, service, memVars,
                 faults>>

\* The setup script up to `systemctl enable`; `sysctl --system` takes effect.
SetUpService(p) ==
  /\ pc[p] = "setup"
  /\ vm
  /\ service' = TRUE
  /\ forward' = TRUE
  /\ Goto(p, "start")
  /\ UNCHANGED <<want, version, lock, stamp, contents, config, selectors, vm,
                 unit, running, selected, switch, faults>>

\* Mutant of StartService: `start`, which leaves an active service as it is.
StartUnlessActive(p) ==
  /\ pc[p] = "start"
  /\ vm
  /\ IF unit = "active"
       THEN UNCHANGED <<vm, unit, running, selected, switch>> /\ Goto(p, "active")
       ELSE RestartUnit /\ Goto(p, "starting")
  /\ UNCHANGED <<want, version, lock, stamp, contents, diskVars, forward, faults>>

StartService(p) ==
  /\ pc[p] = "start"
  /\ vm
  /\ RestartUnit
  /\ Goto(p, "starting")
  /\ UNCHANGED <<want, version, lock, stamp, contents, diskVars, forward, faults>>

\* `systemctl is-active` in a loop.
AwaitService(p) ==
  /\ pc[p] = "active"
  /\ vm /\ unit = "active"
  /\ Goto(p, "verify")
  /\ UNCHANGED <<want, version, lock, stamp, contents, diskVars, memVars, faults>>

\* verify_gateway_connectivity answers from the gateway, through the tunnel.
VerifyConnectivity(p) ==
  /\ pc[p] = "verify"
  /\ vm /\ running # 0
  /\ Goto(p, "stamp")
  /\ UNCHANGED <<want, version, lock, stamp, contents, diskVars, memVars, faults>>

WriteStamp(p) ==
  /\ pc[p] = "stamp"
  /\ stamp' = [stamp EXCEPT ![DirOf[p]] = want[p]]
  /\ Succeed(p)
  /\ UNCHANGED <<want, version, contents, diskVars, memVars, faults>>

Return(p) ==
  /\ pc[p] = "ok"
  /\ Goto(p, "idle")
  /\ UNCHANGED <<want, version, lock, stamp, contents, diskVars, memVars, faults>>

\* Any call of ensure_gateway may fail, and the command may be killed: the
\* function returns, or the process ends, and the lock is free.
GiveUp(p) ==
  /\ pc[p] \notin {"idle", "ok"}
  /\ Goto(p, "idle")
  /\ IF lock[DirOf[p]] = p THEN Release(p) ELSE UNCHANGED lock
  /\ UNCHANGED <<want, version, stamp, contents, diskVars, memVars, faults>>

EnsureGateway(p) ==
  \/ AcquireLock(p) \/ EnsureVm(p) \/ CheckStamp(p) \/ RestartService(p)
  \/ Recheck(p) \/ InstallConfig(p) \/ InstallSelectors(p) \/ SetUpService(p)
  \/ StartService(p) \/ AwaitService(p) \/ VerifyConnectivity(p)
  \/ WriteStamp(p) \/ Return(p)
-----------------------------------------------------------------------------
(* mihomo.service, run by the VM's service manager *)

\* A start job ended: the setup script goes on or exits, and the commands that
\* only restarted the service check its health.
Answer(success) ==
  /\ pc' = [p \in Coop |->
             CASE pc[p] = "restarting" -> "recheck"
               [] pc[p] = "starting" -> IF success THEN "active" ELSE "idle"
               [] OTHER -> pc[p]]
  /\ lock' = [d \in DataDirs |->
               IF lock[d] # None /\ pc'[lock[d]] = "idle" THEN None ELSE lock[d]]
  /\ UNCHANGED <<want, version, stamp, contents>>

\* Mutant of CloseSwitch: the ExecStartPre line is missing.
SwitchNotClosed ==
  /\ unit = "start"
  /\ unit' = "test"
  /\ UNCHANGED <<hostVars, diskVars, vm, running, selected, switch, forward, faults>>

CloseSwitch ==
  /\ unit = "start"
  /\ switch' = "closed"
  /\ unit' = "test"
  /\ UNCHANGED <<hostVars, diskVars, vm, running, selected, forward, faults>>

\* `mihomo -t`, then mihomo itself, which loads the configuration on the disk.
StartMihomo ==
  /\ unit = "test"
  /\ config # 0
  /\ running' = config
  /\ selected' = 0
  /\ unit' = "restore"
  /\ UNCHANGED <<hostVars, diskVars, vm, switch, forward, faults>>

\* mihomo-restore-selectors authenticates with the secret of the state file.
RestoreSelectors ==
  /\ unit = "restore"
  /\ selectors # 0 /\ selectors = running
  /\ selected' = running
  /\ unit' = "open"
  /\ UNCHANGED <<hostVars, diskVars, vm, running, switch, forward, faults>>

\* Mutant of RestoreRefused: ExecStartPost=- ignores the failure.
RestoreIgnored ==
  /\ unit = "restore"
  /\ selectors = 0 \/ selectors # running
  /\ unit' = "open"
  /\ UNCHANGED <<hostVars, diskVars, vm, running, selected, switch, forward,
                 faults>>

RestoreRefused ==
  /\ unit = "restore"
  /\ selectors = 0 \/ selectors # running
  /\ unit' = "stop"
  /\ UNCHANGED <<hostVars, diskVars, vm, running, selected, switch, forward,
                 faults>>

OpenSwitch ==
  /\ unit = "open"
  /\ switch' = "open"
  /\ unit' = "active"
  /\ Answer(TRUE)
  /\ UNCHANGED <<diskVars, vm, running, selected, forward, faults>>

\* A command of the unit fails or mihomo ends; the manager stops what is left.
ServiceFails ==
  /\ unit \in {"start", "test", "restore", "open", "active"}
  /\ Fault
  /\ unit' = "stop"
  /\ running' \in {running, 0}
  /\ UNCHANGED <<hostVars, diskVars, vm, selected, switch, forward>>

\* The process is gone; ExecStopPost closes the switch.
StopService ==
  /\ unit = "stop"
  /\ unit' = "failed"
  /\ running' = 0 /\ selected' = 0
  /\ switch' = "closed"
  /\ Answer(FALSE)
  /\ UNCHANGED <<diskVars, vm, forward, faults>>

StopForRestart ==
  /\ unit = "restop"
  /\ unit' = "start"
  /\ switch' = "closed"
  /\ UNCHANGED <<hostVars, diskVars, vm, running, selected, forward, faults>>

\* Mutant of AutoRestart: Restart=no.
NoRestart == unit = "failed" /\ UNCHANGED vars

\* Restart=always.
AutoRestart ==
  /\ unit = "failed"
  /\ unit' = "start"
  /\ UNCHANGED <<hostVars, diskVars, vm, running, selected, switch, forward,
                 faults>>

ServiceStep ==
  \/ CloseSwitch \/ StartMihomo \/ RestoreSelectors \/ RestoreRefused
  \/ OpenSwitch \/ StopService \/ StopForRestart \/ AutoRestart

\* The VM stops or crashes: the disk stays, and whoever waits for a start job
\* loses its connection.
VmStops ==
  /\ vm
  /\ Fault
  /\ vm' = FALSE
  /\ unit' = "dead" /\ running' = 0 /\ selected' = 0
  /\ switch' = "none" /\ forward' = FALSE
  /\ Answer(FALSE)
  /\ UNCHANGED diskVars

Next ==
  \/ \E p \in Coop : Begin(p) \/ EnsureGateway(p) \/ GiveUp(p)
  \/ ServiceStep \/ ServiceFails \/ VmStops

Spec == Init /\ [][Next]_vars

\* The service manager goes on; a command that holds the lock goes on, fails or
\* is killed; the kernel serves the waiters of a lock file.
Fairness ==
  /\ WF_vars(ServiceStep)
  /\ \A p \in Coop :
       /\ WF_vars(EnsureGateway(p) \/ (pc[p] # "lock" /\ GiveUp(p)))
       /\ SF_vars(AcquireLock(p))

FairSpec == Spec /\ Fairness
-----------------------------------------------------------------------------
(* Properties *)

\* The kill switch lets the agents' packets into the tunnel only while the
\* running mihomo uses the selectors of its own configuration, whatever torn
\* installation, failed start, crash or reboot came before.
TunnelNeedsSelectors == switch = "open" /\ running # 0 => selected = running

\* From the start of its service to its stamp, a command finds on the gateway
\* nothing but its own configuration, its own selectors and, in memory, its
\* own mihomo: nobody exchanged them under it.
InstallIsUndisturbed ==
  \A p \in Coop : pc[p] \in {"starting", "active", "verify", "stamp"} =>
    config = version[p] /\ selectors = version[p] /\ running \in {0, version[p]}

\* A stamp is written only for an installation that went through to the end:
\* when a command succeeds by installing, its deployment is what runs.
InstalledIsRequested ==
  [][\A p \in Coop : pc[p] = "stamp" /\ pc'[p] = "ok" =>
        running = 0 \/ contents[running] = want[p]]_vars

\* A command that reuses the gateway finds the deployment it was configured
\* with ("unchanged healthy gateways are reused").
ReusedIsRequested ==
  [][\A p \in Coop : pc[p] \in {"check", "recheck"} /\ pc'[p] = "ok" =>
        contents[running] = want[p]]_vars

\* Nothing is forwarded past mihomo: while it runs, and after it failed, the VM
\* forwards only with the kill switch in place, whatever is reinstalled or
\* restarted. (From the kernel settings of the setup script or of a boot to the
\* first command of the service there is none yet.)
ForwardingIsGuarded ==
  vm /\ forward /\ (running # 0 \/ unit = "failed") => switch # "none"

\* A command that waits for the lock gets it or gives up, whatever happens to
\* the holder: it is killed, its service does not start, the VM stops.
LockWaitersServed == \A p \in Coop : pc[p] = "lock" ~> pc[p] # "lock"

\* Once the commands leave a gateway with a whole installation alone, the
\* service manager brings it back to forwarding after any crash, and it stays.
LeftAlone ==
  /\ \A p \in Coop : pc[p] = "idle"
  /\ unit # "dead" /\ config # 0 /\ selectors = config

ServiceRecovers == <>[]LeftAlone => <>[]Healthy
=============================================================================
