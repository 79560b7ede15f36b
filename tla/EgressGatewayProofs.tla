------------------------- MODULE EgressGatewayProofs -------------------------
(***************************************************************************)
(* EgressGateway, proved for every set of commands, data directories and   *)
(* deployments and any number of installations and faults: the types, the  *)
(* kill switch under all commands, and, when the commands share one data   *)
(* directory and so one lock, that an installation is not disturbed.       *)
(***************************************************************************)
EXTENDS EgressGateway, SequenceTheorems, TLAPS

\* The commands use one data directory: the lock file excludes all of them.
OneDirectory == \A p, q \in Coop : DirOf[p] = DirOf[q]

\* What the VM is doing while mihomo runs, per state of the unit.
UnitInv ==
  /\ unit \in {"dead", "start", "test", "restop", "failed"} => running = 0
  /\ unit \in {"test", "restore", "open"} => switch = "closed"
  /\ unit = "active" => switch = "open"
  /\ unit = "failed" \/ running # 0 => switch # "none"
  /\ unit \in {"open", "active"} => selected = running
  /\ ~vm => unit = "dead" /\ switch = "none"
  /\ TunnelNeedsSelectors

\* The commands past the lock and before the end of ensure_gateway.
Inside(p) == pc[p] \notin {"idle", "lock", "ok"}

\* Who is inside holds the lock of its data directory.
LockInv == \A p \in Coop : Inside(p) => lock[DirOf[p]] = p

\* What a command has installed so far is what the disk and mihomo have.
InstallInv ==
  \A p \in Coop :
    /\ pc[p] \in {"selectors", "setup", "start", "starting", "active",
                  "verify", "stamp"} =>
         /\ version[p] \in 1..Len(contents)
         /\ contents[version[p]] = want[p]
         /\ config = version[p]
    /\ pc[p] \in {"setup", "start", "starting", "active", "verify", "stamp"} =>
         selectors = version[p]
    /\ pc[p] \in {"starting", "active", "verify", "stamp"} =>
         running \in {0, version[p]}
-----------------------------------------------------------------------------
\* The types, and that a command under way knows its deployment.
TypeInv == TypeOK /\ \A p \in Coop : pc[p] # "idle" => want[p] \in Deployments

LEMMA ZeroVersion == 0 \in Versions
BY GatewayAssumption DEF Versions

\* A finite sequence of deployments, as the types state it.
LEMMA ContentsSeq ==
  TypeOK => contents \in Seq(Deployments) /\ Len(contents) \in Versions
BY GatewayAssumption DEF TypeOK, Versions

\* Appending to it gives another one, when there is room.
LEMMA ContentsGrow ==
  ASSUME TypeOK, Len(contents) < MaxInstalls, NEW d \in Deployments
  PROVE  /\ Append(contents, d) \in UNION {[1..n -> Deployments] : n \in Versions}
         /\ Len(Append(contents, d)) = Len(contents) + 1
         /\ Len(contents) + 1 \in Versions
         /\ Append(contents, d)[Len(contents) + 1] = d
         /\ \A i \in 1..Len(contents) : Append(contents, d)[i] = contents[i]
<1>1. contents \in Seq(Deployments) /\ Len(contents) \in Nat
  BY ContentsSeq, GatewayAssumption DEF Versions
<1>2. Len(contents) + 1 \in Versions
  BY <1>1, GatewayAssumption DEF Versions
<1>3. /\ Append(contents, d) \in Seq(Deployments)
      /\ Len(Append(contents, d)) = Len(contents) + 1
      /\ Append(contents, d)[Len(contents) + 1] = d
      /\ \A i \in 1..Len(contents) : Append(contents, d)[i] = contents[i]
  BY <1>1, AppendProperties
<1>4. Append(contents, d) \in [1..Len(contents) + 1 -> Deployments]
  BY <1>3, LenProperties
<1>. QED
  BY <1>1, <1>2, <1>3, <1>4
-----------------------------------------------------------------------------
\* The answer to a start job only moves commands on and frees their locks.
LEMMA AnswerTypes ==
  ASSUME TypeInv, Answer(TRUE) \/ Answer(FALSE)
  PROVE  /\ pc' \in [Coop -> {"idle", "lock", "vm", "check", "restart",
               "restarting", "recheck", "config", "selectors", "setup", "start",
               "starting", "active", "verify", "stamp", "ok"}]
         /\ lock' \in [DataDirs -> Coop \cup {None}]
         /\ UNCHANGED <<want, version, stamp, contents>>
         /\ \A p \in Coop : pc'[p] # "idle" => want'[p] \in Deployments
<1> USE DEF TypeInv
<1>1. \A p \in Coop : pc'[p] \in {pc[p], "recheck", "active", "idle"}
  BY DEF Answer
<1>2. \A d \in DataDirs : lock'[d] \in {lock[d], None}
  BY DEF Answer
<1>3. pc' = [p \in Coop |-> pc'[p]] /\ lock' = [d \in DataDirs |-> lock'[d]]
  BY DEF Answer
<1>. QED
  BY <1>1, <1>2, <1>3 DEF Answer, TypeOK

\* The commands keep the types.
LEMMA CommandTypes ==
  ASSUME TypeInv, NEW p \in Coop, Begin(p) \/ EnsureGateway(p) \/ GiveUp(p)
  PROVE  TypeInv'
<1> USE GatewayAssumption, ZeroVersion
    DEF TypeInv, Goto, Release, Succeed, hostVars, diskVars, memVars
<1>1. CASE \/ Begin(p) \/ AcquireLock(p) \/ CheckStamp(p) \/ Recheck(p)
           \/ AwaitService(p) \/ VerifyConnectivity(p) \/ Return(p) \/ GiveUp(p)
  BY <1>1 DEF TypeOK, Begin, AcquireLock, CheckStamp, Recheck, AwaitService,
              VerifyConnectivity, Return, GiveUp
<1>2. CASE EnsureVm(p) \/ RestartService(p) \/ StartService(p)
  BY <1>2 DEF TypeOK, EnsureVm, Boot, RestartService, StartService, RestartUnit
<1>3. CASE InstallConfig(p)
  <2>1. want[p] \in Deployments
    BY <1>3 DEF InstallConfig
  <2>. QED
    BY <1>3, <2>1, ContentsGrow DEF TypeOK, InstallConfig
<1>4. CASE InstallSelectors(p)
  BY <1>4 DEF TypeOK, InstallSelectors
<1>5. CASE SetUpService(p)
  BY <1>5 DEF TypeOK, SetUpService
<1>6. CASE WriteStamp(p)
  BY <1>6 DEF TypeOK, WriteStamp
<1>. QED
  BY <1>1, <1>2, <1>3, <1>4, <1>5, <1>6 DEF EnsureGateway

\* The service manager and the faults keep the types.
LEMMA ServiceTypes ==
  ASSUME TypeInv, ServiceStep \/ ServiceFails \/ VmStops
  PROVE  TypeInv'
<1> USE GatewayAssumption, ZeroVersion
    DEF TypeInv, hostVars, diskVars, memVars
<1>1. CASE CloseSwitch \/ StartMihomo \/ RestoreSelectors \/ RestoreRefused
           \/ StopForRestart \/ AutoRestart \/ ServiceFails
  BY <1>1 DEF TypeOK, CloseSwitch, StartMihomo, RestoreSelectors, RestoreRefused,
              StopForRestart, AutoRestart, ServiceFails, Fault
<1>2. CASE OpenSwitch
  BY <1>2, AnswerTypes DEF TypeOK, OpenSwitch
<1>3. CASE StopService
  BY <1>3, AnswerTypes DEF TypeOK, StopService
<1>4. CASE VmStops
  <2>1. service' \in BOOLEAN /\ vm' \in BOOLEAN /\ forward' \in BOOLEAN
    BY <1>4, Zenon DEF TypeOK, VmStops
  <2>2. faults' \in 0..MaxFaults
    BY <1>4 DEF TypeOK, VmStops, Fault
  <2>. QED
    BY <1>4, <2>1, <2>2, AnswerTypes DEF TypeOK, VmStops
<1>. QED
  BY <1>1, <1>2, <1>3, <1>4 DEF ServiceStep

\* TypeOK is a step's business only: no other invariant is needed for it.
LEMMA TypeStep == TypeInv /\ [Next]_vars => TypeInv'
<1> SUFFICES ASSUME TypeInv, [Next]_vars PROVE TypeInv'
  OBVIOUS
<1>1. CASE Next
  BY <1>1, CommandTypes, ServiceTypes DEF Next
<1>2. CASE UNCHANGED vars
  BY <1>2 DEF vars, hostVars, diskVars, memVars, TypeInv, TypeOK
<1>. QED
  BY <1>1, <1>2

LEMMA TypeInit == Init => TypeInv
<1> SUFFICES ASSUME Init PROVE TypeInv
  OBVIOUS
<1>1. contents \in UNION {[1..n -> Deployments] : n \in Versions}
  <2>1. contents \in [1..0 -> Deployments]
    BY DEF Init
  <2>. QED
    BY <2>1, ZeroVersion
<1>2. service \in BOOLEAN /\ vm \in BOOLEAN /\ forward \in BOOLEAN
  BY Zenon DEF Init
<1>. QED
  BY <1>1, <1>2, ZeroVersion, GatewayAssumption DEF Init, TypeInv, TypeOK

\* Everything has its type in every reachable state.
THEOREM TypeCorrect == Spec => []TypeOK
<1>1. TypeInv => TypeOK
  BY DEF TypeInv
<1>. QED
  BY TypeInit, TypeStep, <1>1, PTL DEF Spec
-----------------------------------------------------------------------------
\* Commands touch the unit through systemctl and the VM only.
LEMMA CommandUnit ==
  ASSUME UnitInv, NEW p \in Coop, Begin(p) \/ EnsureGateway(p) \/ GiveUp(p)
  PROVE  UnitInv'
<1> USE DEF UnitInv, TunnelNeedsSelectors, diskVars, memVars
<1>1. CASE EnsureVm(p)
  BY <1>1 DEF EnsureVm, Boot
<1>2. CASE RestartService(p) \/ StartService(p)
  BY <1>2 DEF RestartService, StartService, RestartUnit
<1>3. CASE UNCHANGED <<vm, unit, running, selected, switch>>
  BY <1>3
<1>. QED
  BY <1>1, <1>2, <1>3
  DEF EnsureGateway, Begin, GiveUp, AcquireLock, CheckStamp, Recheck, InstallConfig,
      InstallSelectors, SetUpService, AwaitService, VerifyConnectivity, WriteStamp,
      Return

\* The commands of the unit, run in their order, and what interrupts them.
LEMMA ServiceUnit ==
  ASSUME TypeOK, UnitInv, ServiceStep \/ ServiceFails \/ VmStops
  PROVE  UnitInv'
<1> USE DEF UnitInv, TunnelNeedsSelectors
<1>1. CASE CloseSwitch \/ StartMihomo \/ RestoreSelectors \/ RestoreRefused
  BY <1>1 DEF CloseSwitch, StartMihomo, RestoreSelectors, RestoreRefused
<1>2. CASE OpenSwitch \/ StopService \/ StopForRestart \/ AutoRestart
  BY <1>2 DEF OpenSwitch, StopService, StopForRestart, AutoRestart
<1>3. CASE ServiceFails
  BY <1>3 DEF ServiceFails
<1>4. CASE VmStops
  BY <1>4 DEF VmStops
<1>. QED
  BY <1>1, <1>2, <1>3, <1>4 DEF ServiceStep

LEMMA UnitStep == TypeOK /\ UnitInv /\ [Next]_vars => UnitInv'
<1>1. ASSUME TypeOK, UnitInv, Next PROVE UnitInv'
  BY <1>1, CommandUnit, ServiceUnit DEF Next
<1>2. ASSUME UnitInv, UNCHANGED vars PROVE UnitInv'
  BY <1>2 DEF UnitInv, TunnelNeedsSelectors, vars, memVars
<1>. QED
  BY <1>1, <1>2

\* What the VM does is as UnitInv says, under every command and fault.
LEMMA UnitAlways == Spec => []UnitInv
<1>1. Init => UnitInv
  BY DEF Init, UnitInv, TunnelNeedsSelectors
<1>. QED
  BY <1>1, TypeCorrect, UnitStep, PTL DEF Spec

\* The kill switch is open only for a mihomo with its own selectors.
THEOREM SwitchOpensSelected == Spec => []TunnelNeedsSelectors
<1>1. UnitInv => TunnelNeedsSelectors
  BY DEF UnitInv
<1>. QED
  BY <1>1, UnitAlways, PTL

\* The VM never forwards past mihomo once its service has started.
THEOREM NeverForwardsUnguarded == Spec => []ForwardingIsGuarded
<1>1. UnitInv => ForwardingIsGuarded
  BY DEF UnitInv, ForwardingIsGuarded
<1>. QED
  BY <1>1, UnitAlways, PTL
-----------------------------------------------------------------------------
\* Only the holder of the lock goes on, and who leaves no longer holds it.
LEMMA LockStep == TypeOK /\ LockInv /\ [Next]_vars => LockInv'
<1> USE GatewayAssumption DEF LockInv, Inside, TypeOK
<1>1. ASSUME TypeOK, LockInv, NEW p \in Coop, Begin(p) \/ EnsureGateway(p) \/ GiveUp(p)
      PROVE  LockInv'
  <2> USE DEF Goto, Release, Succeed
  <2>1. CASE Begin(p) \/ AcquireLock(p) \/ Return(p)
    BY <1>1, <2>1 DEF Begin, AcquireLock, Return
  <2>2. CASE EnsureVm(p) \/ RestartService(p)
    BY <1>1, <2>2 DEF EnsureVm, RestartService
  <2>3. CASE CheckStamp(p) \/ Recheck(p)
    BY <1>1, <2>3 DEF CheckStamp, Recheck
  <2>4. CASE InstallConfig(p) \/ InstallSelectors(p) \/ SetUpService(p) \/ StartService(p)
    BY <1>1, <2>4 DEF InstallConfig, InstallSelectors, SetUpService, StartService
  <2>5. CASE AwaitService(p) \/ VerifyConnectivity(p)
    BY <1>1, <2>5 DEF AwaitService, VerifyConnectivity
  <2>6. CASE WriteStamp(p) \/ GiveUp(p)
    BY <1>1, <2>6 DEF WriteStamp, GiveUp
  <2>. QED
    BY <1>1, <2>1, <2>2, <2>3, <2>4, <2>5, <2>6 DEF EnsureGateway
<1>2. ASSUME TypeOK, LockInv, Answer(TRUE) \/ Answer(FALSE)
      PROVE  LockInv'
  <2>1. \A p \in Coop : Inside(p)' => Inside(p) /\ pc'[p] # "idle"
    BY <1>2 DEF Answer
  <2>2. \A p \in Coop : lock[DirOf[p]] = p /\ pc'[p] # "idle" => lock'[DirOf[p]] = p
    BY <1>2 DEF Answer
  <2>. QED
    BY <1>2, <2>1, <2>2
<1>3. ASSUME LockInv, UNCHANGED hostVars PROVE LockInv'
  BY <1>3 DEF hostVars
<1>4. ASSUME ServiceStep \/ ServiceFails \/ VmStops
      PROVE  Answer(TRUE) \/ Answer(FALSE) \/ UNCHANGED hostVars
  BY <1>4 DEF ServiceStep, ServiceFails, VmStops, CloseSwitch, StartMihomo,
              RestoreSelectors, RestoreRefused, OpenSwitch, StopService,
              StopForRestart, AutoRestart
<1>. QED
  BY <1>1, <1>2, <1>3, <1>4 DEF Next, vars

LEMMA LockAlways == Spec => []LockInv
<1>1. Init => LockInv
  BY DEF Init, LockInv, Inside
<1>. QED
  BY <1>1, TypeCorrect, LockStep, PTL DEF Spec

\* With one lock, who is inside is alone.
LEMMA AloneInside ==
  ASSUME OneDirectory, LockInv, NEW p \in Coop, NEW q \in Coop, Inside(p), Inside(q)
  PROVE  p = q
BY DEF OneDirectory, LockInv

\* A command inside installs, and nobody else is there to be disturbed.
LEMMA CommandInstall ==
  ASSUME OneDirectory, TypeInv, LockInv, InstallInv, NEW p \in Coop,
         Begin(p) \/ EnsureGateway(p) \/ GiveUp(p)
  PROVE  InstallInv'
<1> USE GatewayAssumption DEF InstallInv, TypeInv, TypeOK, Goto, diskVars, memVars
<1>1. CASE Begin(p) \/ AcquireLock(p) \/ Return(p) \/ GiveUp(p)
  BY <1>1 DEF Begin, AcquireLock, Return, GiveUp
<1>2. CASE CheckStamp(p) \/ Recheck(p) \/ WriteStamp(p)
  BY <1>2 DEF CheckStamp, Recheck, WriteStamp, Succeed
<1>3. CASE AwaitService(p) \/ VerifyConnectivity(p)
  BY <1>3 DEF AwaitService, VerifyConnectivity
<1>4. ASSUME Inside(p) PROVE \A q \in Coop \ {p} : pc[q] \in {"idle", "lock", "ok"}
  BY <1>4, AloneInside DEF Inside
<1>5. CASE EnsureVm(p) \/ RestartService(p) \/ StartService(p)
  BY <1>5, <1>4 DEF EnsureVm, Boot, RestartService, StartService, RestartUnit, Inside
<1>6. CASE InstallConfig(p)
  <2>1. Inside(p) /\ want[p] \in Deployments
    BY <1>6 DEF InstallConfig, Inside
  <2>2. Len(contents) + 1 \in 1..Len(contents')
        /\ contents'[Len(contents) + 1] = want[p]
    BY <1>6, <2>1, ContentsGrow, ContentsSeq DEF InstallConfig, Versions
  <2>. QED
    BY <1>6, <1>4, <2>1, <2>2, ContentsGrow DEF InstallConfig
<1>7. CASE InstallSelectors(p) \/ SetUpService(p)
  BY <1>7, <1>4 DEF InstallSelectors, SetUpService, Inside
<1>. QED
  BY <1>1, <1>2, <1>3, <1>5, <1>6, <1>7 DEF EnsureGateway

\* The service loads what is on the disk, which is the installation's own.
LEMMA ServiceInstall ==
  ASSUME TypeOK, InstallInv, ServiceStep \/ ServiceFails \/ VmStops
  PROVE  InstallInv'
<1> USE DEF InstallInv, hostVars, diskVars, memVars
<1>1. UNCHANGED <<want, version, contents, config, selectors>>
  BY DEF ServiceStep, ServiceFails, VmStops, CloseSwitch, StartMihomo,
         RestoreSelectors, RestoreRefused, OpenSwitch, StopService,
         StopForRestart, AutoRestart, Answer
<1>2. running' \in {running, 0, config}
  BY DEF ServiceStep, ServiceFails, VmStops, CloseSwitch, StartMihomo,
         RestoreSelectors, RestoreRefused, OpenSwitch, StopService,
         StopForRestart, AutoRestart
<1>3. pc' = pc \/ Answer(TRUE) \/ Answer(FALSE)
  BY DEF ServiceStep, ServiceFails, VmStops, CloseSwitch, StartMihomo,
         RestoreSelectors, RestoreRefused, OpenSwitch, StopService,
         StopForRestart, AutoRestart
<1>4. \A p \in Coop :
        \/ pc'[p] = pc[p]
        \/ pc[p] = "starting" /\ pc'[p] = "active"
        \/ pc'[p] \in {"recheck", "idle"}
  BY <1>3 DEF Answer
<1>. QED
  BY <1>1, <1>2, <1>4

LEMMA InstallStep ==
  OneDirectory /\ TypeInv /\ LockInv /\ InstallInv /\ [Next]_vars => InstallInv'
<1>1. ASSUME InstallInv, UNCHANGED vars PROVE InstallInv'
  BY <1>1 DEF InstallInv, vars, hostVars, diskVars, memVars
<1>. QED
  BY <1>1, CommandInstall, ServiceInstall DEF Next, TypeInv

LEMMA InstallAlways == ASSUME OneDirectory PROVE Spec => []InstallInv
<1>1. Init => InstallInv
  BY DEF Init, InstallInv
<1>. QED
  BY <1>1, TypeInit, TypeStep, LockAlways, InstallStep, PTL DEF Spec

\* Nobody exchanges the configuration, the selectors or mihomo under a command
\* that has started its service, when one lock serves all commands.
THEOREM InstallationsExclusive ==
  ASSUME OneDirectory PROVE Spec => []InstallIsUndisturbed
<1>1. InstallInv => InstallIsUndisturbed
  BY DEF InstallInv, InstallIsUndisturbed
<1>. QED
  BY <1>1, InstallAlways, PTL

\* A command that succeeds by installing leaves its own deployment running.
THEOREM InstalledRuns == ASSUME OneDirectory PROVE Spec => InstalledIsRequested
<1> DEFINE Kept ==
      \A p \in Coop : pc[p] = "stamp" /\ pc'[p] = "ok" =>
        running = 0 \/ contents[running] = want[p]
<1>1. InstallInv => Kept
  BY DEF InstallInv
<1>2. [Next]_vars /\ InstallInv => [Kept]_vars
  BY <1>1
<1>. QED
  BY <1>2, InstallAlways, PTL DEF Spec, InstalledIsRequested
=============================================================================
