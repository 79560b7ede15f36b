-------------------------- MODULE HostResourcesProofs --------------------------
(***************************************************************************)
(* Proofs about HostResources: running VMs keep their network, processes   *)
(* that hold a credential stay on record, and a destroyed instance leaves  *)
(* nothing that coop does not know of.                                     *)
(***************************************************************************)
EXTENDS HostResources, FiniteSetTheorems, TLAPS

\* The shape of the state, and where the command is.
Shape ==
  /\ DOMAIN tap = Vms /\ DOMAIN vm = Vms /\ DOMAIN master = Vms /\ DOMAIN stray = Vms
  /\ DOMAIN rules = Rules /\ \A r \in Rules : rules[r] \in Nat
  /\ DOMAIN proxy = Slots /\ DOMAIN pid = Slots /\ DOMAIN token = Slots
  /\ DOMAIN ending = Slots /\ DOMAIN tunnel = Slots /\ DOMAIN fwdpid = Slots
  /\ \A v \in Vms : vm[v] \in {"absent", "off", "on"}

AgentSteps == {"agent", "ready", "record", "token", "tunnel", "tunnelpid", "bootstrap"}

At ==
  /\ pc \in {"idle", "ports", "bridge", "bridging", "tap", "attach", "boot", "forward",
             "halt", "unforward", "unproxy", "stopvm", "untap", "unbridge", "remove", "shared"}
            \cup AgentSteps
  /\ pc = "bridging" => step \in 1..6
  /\ pc \in {"unbridge", "shared"} => step \in 1..4
  /\ pc \in AgentSteps => step \in 1..Len(Providers)
  /\ pc \notin {"idle", "shared"} => target \in Vms /\ vm[target] # "absent"
  /\ pc \in {"ports", "bridge", "bridging", "tap", "attach", "boot"} => vm[target] = "off"
  /\ pc \in {"untap", "unbridge", "remove"} => vm[target] = "off"

\* What a purge has still to do; other commands have nothing else to do.
Todo ==
  /\ todo \subseteq Vms \ {target} /\ \A v \in todo : vm[v] # "absent"
  /\ pc = "idle" => todo = {}
  /\ pc # "idle" /\ verb = "purge" => \A v \in Vms \ (todo \cup {target}) : vm[v] = "absent"
  /\ pc = "shared" => \A v \in Vms : vm[v] = "absent"
-----------------------------------------------------------------------------
Whole == bridge = {"link", "addr", "up"} /\ \A r \in Rules : rules[r] > 0

\* A bridge that no interrupted command has left in part is whole while nothing
\* is being done to it; nobody is on one that is made or torn down.
Network ==
  /\ \A v \in Vms : vm[v] = "on" => tap[v] = "up"
  /\ pc = "boot" => tap[target] = "up"
  /\ "link" \notin bridge => bridge = {} /\ OnBridge = {}
  /\ pc \in {"bridging", "unbridge"} => OnBridge = {}
  /\ ~torn /\ "link" \in bridge /\ (pc \in {"unbridge", "shared"} => step = 1) =>
       Whole \/ pc = "bridging"
  /\ pc = "bridging" =>
       /\ step = 1 => bridge = {}
       /\ step = 2 => bridge = {"link"}
       /\ step = 3 => bridge = {"link", "addr"}
       /\ step >= 4 => bridge = {"link", "addr", "up"}
       /\ step >= 5 => rules["nat"] > 0
       /\ step = 6 => rules["out"] > 0
-----------------------------------------------------------------------------
\* A token is used once: the child at hand has the last one.
Minted ==
  /\ minted \in Nat
  /\ \A s \in Slots : proxy[s] \in 0..minted /\ (ending[s] => proxy[s] # 0)
  /\ pc \in {"ready", "record"} => child = minted /\ child # 0 /\ pid[Slot] = 0
  /\ pc = "ready" => \A s \in Slots : proxy[s] # child
  /\ pc = "record" /\ proxy[Slot] = child => ~ending[Slot]
  /\ pc \in {"token", "tunnel", "tunnelpid"} => pid[Slot] # 0

\* The files of an instance name nothing.
Forgotten(v) == \A s \in Slots : s[1] = v => token[s] = 0 /\ pid[s] = 0 /\ ~fwdpid[s]

\* What is left of an instance as it is destroyed, and after.
Leftovers ==
  /\ pc \in {"unproxy", "stopvm", "untap", "unbridge", "remove"} => master[target] = {}
  /\ pc \in {"untap", "unbridge", "remove"} \/ (pc = "stopvm" /\ verb # "stop") => Forgotten(target)
  /\ pc \in {"unbridge", "remove"} => tap[target] = "none"
  /\ \A v \in Vms : vm[v] = "absent" => master[v] = {} /\ tap[v] = "none" /\ Forgotten(v)

\* Ports that no socket leads to are those of a master that refused to exit.
Masters == \A v \in Vms : stray[v] = {} \/ v \in refused

HostInv ==
  Shape /\ At /\ Todo /\ Network /\ Minted /\ CredentialsTracked /\ Leftovers /\ Masters
\* The commands begin.
UpOrStart ==
  \E v \in Vms, P \in SUBSET HostPorts, W \in SUBSET {Providers[k] : k \in 1..Len(Providers)} :
    Up(v, P, W) \/ Start(v, P, W)
StopOrPurge == \E v \in Vms : Stop(v) \/ Purge(v)

\* The slot the command is at belongs to its target.
LEMMA SlotOfTarget ==
  ASSUME HostAssumption, At, pc \in AgentSteps
  PROVE  Slot \in Slots /\ Slot[1] = target
  BY DEF Slot, Slots, At, AgentSteps, HostAssumption


\* What stopping providers does to each slot.
Stopped(S) ==
  /\ proxy' = proxy /\ orphaned' = orphaned /\ minted' = minted
  /\ \A s \in Slots : ending'[s] => ending[s] \/ (pid[s] # 0 /\ pid[s] = proxy[s])
  /\ \A s \in Slots : s \in S =>
       /\ pid'[s] = 0 /\ token'[s] = 0 /\ ~fwdpid'[s]
       /\ tunnel'[s] => tunnel[s] /\ ~fwdpid[s]
       /\ ~ending'[s] => ~ending[s] /\ ~(pid[s] # 0 /\ pid[s] = proxy[s])
  /\ \A s \in Slots : s \notin S =>
       /\ pid'[s] = pid[s] /\ token'[s] = token[s] /\ (fwdpid'[s] <=> fwdpid[s])
       /\ (tunnel'[s] <=> tunnel[s]) /\ (ending'[s] <=> ending[s])

LEMMA StopStops ==
  ASSUME NEW S, StopProviders(S) PROVE Stopped(S)
<1>1. /\ proxy' = proxy /\ orphaned' = orphaned /\ minted' = minted
      /\ \A s \in Slots : pid'[s] = (IF s \in S THEN 0 ELSE pid[s])
      /\ \A s \in Slots : token'[s] = (IF s \in S THEN 0 ELSE token[s])
  BY DEF StopProviders
<1>2. /\ \A s \in Slots : ending'[s] <=> ending[s] \/ (s \in S /\ pid[s] # 0 /\ pid[s] = proxy[s])
      /\ \A s \in Slots : tunnel'[s] <=> tunnel[s] /\ ~(s \in S /\ fwdpid[s])
      /\ \A s \in Slots : fwdpid'[s] <=> fwdpid[s] /\ s \notin S
  BY Zenon DEF StopProviders
<1>. QED BY <1>1, <1>2 DEF Stopped
-----------------------------------------------------------------------------
\* The shape of the state, after every action.
LEMMA ShapeStep == ASSUME HostAssumption PROVE HostInv /\ [Next]_vars => Shape'
<1>. SUFFICES ASSUME HostInv, [Next]_vars PROVE Shape' OBVIOUS
<1>. USE DEF HostInv, netVars, fwdVars, proxyVars, cmdVars, Shape
<1>1. CASE UpOrStart
  BY <1>1 DEF UpOrStart, Up, Start, Begin
<1>2. CASE StopOrPurge
  BY <1>2 DEF StopOrPurge, Stop, Purge, Begin
<1>3. CASE CheckPorts \/ EnsureBridge \/ AddToBridge \/ BridgeFails
  BY <1>3 DEF CheckPorts, EnsureBridge, AddToBridge, BridgeFails, Fails, Ends, Fault
<1>4. CASE CreateTap \/ AttachTap \/ Boot \/ BootFails
  BY <1>4 DEF CreateTap, AttachTap, Boot, BootFails, Fails, Fault, Ends
<1>5. CASE SpawnForwards \/ ForwardsFail \/ StartAgent \/ SpawnFails
  BY <1>5 DEF SpawnForwards, ForwardsFail, Refuses, StartAgent, SpawnFails, Fails, Fault, Ends,
      StopProviders
<1>6. CASE AwaitReady \/ RecordProxy \/ WriteToken \/ OpenTunnel
  BY <1>6 DEF AwaitReady, RecordProxy, WriteToken, OpenTunnel, Fails, Ends, Fault
<1>7. CASE RecordTunnel \/ TunnelUnrecorded \/ AgentFails \/ AgentDone
  BY <1>7 DEF RecordTunnel, TunnelUnrecorded, AgentFails, AgentDone, Fails, Fault, Ends,
      StopProviders, GoOn
<1>8. CASE Unforward \/ Unproxy \/ StopVm \/ StopFails
  BY <1>8 DEF Unforward, Unproxy, StopVm, StopFails, CloseMaster, Refuses, Fault, Ends, GoOn,
      StopProviders
<1>9. CASE TearDownTap \/ TearDownBridge \/ Remove \/ Kill
  BY <1>9 DEF TearDownTap, TearDownBridge, Remove, Kill, RemoveOfBridge, Fault, Ends, GoOn,
      RmDir
<1>10. CASE VmDies \/ MasterEnds \/ ProxyEnds \/ TunnelEnds
  BY <1>10 DEF VmDies, MasterEnds, ProxyEnds, TunnelEnds, Fault, Forget
<1>11. CASE UNCHANGED vars
  BY <1>11 DEF vars
<1>. HIDE DEF HostInv, netVars, fwdVars, proxyVars, cmdVars, Shape
<1>. QED BY <1>1, <1>2, <1>3, <1>4, <1>5, <1>6, <1>7, <1>8, <1>9, <1>10, <1>11 DEF Next,
    UpOrStart, StopOrPurge
-----------------------------------------------------------------------------
\* Where the command goes next.
LEMMA AtStep == ASSUME HostAssumption PROVE HostInv /\ [Next]_vars => At'
<1>. SUFFICES ASSUME HostInv, [Next]_vars PROVE At' OBVIOUS
<1>. USE DEF HostInv, netVars, fwdVars, proxyVars, cmdVars, Shape, At, AgentSteps,
    LinkSteps, Todo, HostAssumption
<1>1. CASE UpOrStart
  BY <1>1 DEF UpOrStart, Up, Start, Begin
<1>2. CASE StopOrPurge
  BY <1>2 DEF StopOrPurge, Stop, Purge, Begin
<1>3. CASE CheckPorts \/ EnsureBridge \/ AddToBridge \/ BridgeFails
  BY <1>3 DEF CheckPorts, EnsureBridge, AddToBridge, BridgeFails, Fails, Ends, Fault
<1>4. CASE CreateTap \/ AttachTap \/ Boot \/ BootFails
  BY <1>4 DEF CreateTap, AttachTap, Boot, BootFails, Fails, Fault, Ends
<1>5. CASE SpawnForwards \/ ForwardsFail \/ StartAgent \/ SpawnFails
  BY <1>5 DEF SpawnForwards, ForwardsFail, Refuses, StartAgent, SpawnFails, Fails, Fault, Ends,
      StopProviders
<1>6. CASE AwaitReady \/ RecordProxy \/ WriteToken \/ OpenTunnel
  BY <1>6 DEF AwaitReady, RecordProxy, WriteToken, OpenTunnel, Fails, Ends, Fault
<1>7. CASE RecordTunnel \/ TunnelUnrecorded \/ AgentFails \/ AgentDone
  BY <1>7 DEF RecordTunnel, TunnelUnrecorded, AgentFails, AgentDone, Fails, Fault, Ends,
      StopProviders, GoOn
<1>8. CASE Unforward \/ Unproxy \/ StopVm \/ StopFails
  BY <1>8 DEF Unforward, Unproxy, StopVm, StopFails, CloseMaster, Refuses, Fault, Ends, GoOn,
      StopProviders
<1>9. CASE TearDownTap \/ TearDownBridge \/ Remove \/ Kill
  BY <1>9 DEF TearDownTap, TearDownBridge, Remove, Kill, RemoveOfBridge, Fault, Ends, GoOn,
      RmDir
<1>10. CASE VmDies \/ MasterEnds \/ ProxyEnds \/ TunnelEnds
  BY <1>10 DEF VmDies, MasterEnds, ProxyEnds, TunnelEnds, Fault, Forget
<1>11. CASE UNCHANGED vars
  BY <1>11 DEF vars
<1>. HIDE DEF HostInv, netVars, fwdVars, proxyVars, cmdVars, Shape, At, AgentSteps,
    LinkSteps, Todo, HostAssumption
<1>. QED BY <1>1, <1>2, <1>3, <1>4, <1>5, <1>6, <1>7, <1>8, <1>9, <1>10, <1>11 DEF Next,
    UpOrStart, StopOrPurge
-----------------------------------------------------------------------------
\* A purge goes through the instances there are.
LEMMA TodoStep == ASSUME HostAssumption PROVE HostInv /\ [Next]_vars => Todo'
<1>. SUFFICES ASSUME HostInv, [Next]_vars PROVE Todo' OBVIOUS
<1>. USE DEF HostInv, netVars, fwdVars, proxyVars, cmdVars, Shape, At, AgentSteps, Todo
<1>1. CASE UpOrStart
  BY <1>1 DEF UpOrStart, Up, Start, Begin
<1>2. CASE StopOrPurge
  BY <1>2 DEF StopOrPurge, Stop, Purge, Begin
<1>3. CASE CheckPorts \/ EnsureBridge \/ AddToBridge \/ BridgeFails
  BY <1>3 DEF CheckPorts, EnsureBridge, AddToBridge, BridgeFails, Fails, Ends, Fault
<1>4. CASE CreateTap \/ AttachTap \/ Boot \/ BootFails
  BY <1>4 DEF CreateTap, AttachTap, Boot, BootFails, Fails, Fault, Ends
<1>5. CASE SpawnForwards \/ ForwardsFail \/ StartAgent \/ SpawnFails
  BY <1>5 DEF SpawnForwards, ForwardsFail, Refuses, StartAgent, SpawnFails, Fails, Fault, Ends,
      StopProviders
<1>6. CASE AwaitReady \/ RecordProxy \/ WriteToken \/ OpenTunnel
  BY <1>6 DEF AwaitReady, RecordProxy, WriteToken, OpenTunnel, Fails, Ends, Fault
<1>7. CASE RecordTunnel \/ TunnelUnrecorded \/ AgentFails \/ AgentDone
  BY <1>7 DEF RecordTunnel, TunnelUnrecorded, AgentFails, AgentDone, Fails, Fault, Ends,
      StopProviders, GoOn
<1>8. CASE Unforward \/ Unproxy \/ StopVm \/ StopFails
  BY <1>8 DEF Unforward, Unproxy, StopVm, StopFails, CloseMaster, Refuses, Fault, Ends, GoOn,
      StopProviders
<1>9. CASE TearDownTap
  BY <1>9 DEF TearDownTap
<1>10. CASE TearDownBridge
  BY <1>10 DEF TearDownBridge, RemoveOfBridge, Fault, Ends, GoOn
<1>11. CASE Remove
  BY <1>11 DEF Remove, RmDir, Ends, GoOn
<1>12. CASE Kill \/ VmDies \/ MasterEnds \/ ProxyEnds
  BY <1>12 DEF Kill, VmDies, MasterEnds, ProxyEnds, Fault, Ends, Forget
<1>13. CASE TunnelEnds
  BY <1>13 DEF TunnelEnds, Forget
<1>14. CASE UNCHANGED vars
  BY <1>14 DEF vars
<1>. HIDE DEF HostInv, netVars, fwdVars, proxyVars, cmdVars, Shape, At, AgentSteps, Todo
<1>. QED BY <1>1, <1>2, <1>3, <1>4, <1>5, <1>6, <1>7, <1>8, <1>9, <1>10, <1>11, <1>12,
    <1>13, <1>14 DEF Next, UpOrStart, StopOrPurge
-----------------------------------------------------------------------------
\* The network: only `ensure_bridge` and `teardown_bridge` work on the bridge, and
\* nobody runs on it then.
LEMMA NetworkStep == ASSUME HostAssumption PROVE HostInv /\ [Next]_vars => Network'
<1>. SUFFICES ASSUME HostInv, [Next]_vars PROVE Network' OBVIOUS
<1>. USE DEF HostInv, netVars, fwdVars, proxyVars, cmdVars, Shape, At, AgentSteps,
    LinkSteps, Todo, Network, Whole, OnBridge, Rules
<1>1. CASE UpOrStart
  BY <1>1 DEF UpOrStart, Up, Start, Begin
<1>2. CASE StopOrPurge
  BY <1>2 DEF StopOrPurge, Stop, Purge, Begin
<1>3. CASE CheckPorts
  BY <1>3 DEF CheckPorts, Fails, Ends
<1>4. CASE EnsureBridge
  <2>1. /\ pc = "bridge" /\ step' = 1 /\ UNCHANGED <<bridge, rules, tap, vm, target>>
        /\ pc' = IF "link" \in bridge THEN "tap" ELSE "bridging"
    BY <1>4 DEF EnsureBridge
  <2>2. ~torn' /\ "link" \in bridge => ~torn
    BY <1>4, Zenon DEF EnsureBridge
  <2>3. CASE "link" \in bridge
    BY <2>1, <2>2, <2>3
  <2>4. CASE "link" \notin bridge
    BY <2>1, <2>4
  <2>. QED BY <2>3, <2>4
<1>5. CASE AddToBridge
  BY <1>5 DEF AddToBridge
<1>6. CASE BridgeFails
  <2>1. /\ pc = "bridging" /\ pc' \in {"idle", "unforward"}
        /\ UNCHANGED <<bridge, rules, tap, vm>>
    BY <1>6 DEF BridgeFails, Fails, Ends
  <2>2. ~torn' => ~torn /\ ~(step > 1)
    BY <1>6, Zenon DEF BridgeFails
  <2>. QED BY <2>1, <2>2
<1>7. CASE CreateTap \/ AttachTap \/ Boot \/ BootFails
  BY <1>7 DEF CreateTap, AttachTap, Boot, BootFails, Fails, Fault, Ends
<1>8. CASE SpawnForwards \/ ForwardsFail \/ StartAgent \/ SpawnFails
  BY <1>8 DEF SpawnForwards, ForwardsFail, Refuses, StartAgent, SpawnFails, Fails, Fault, Ends,
      StopProviders
<1>9. CASE AwaitReady \/ RecordProxy \/ WriteToken \/ OpenTunnel
  BY <1>9 DEF AwaitReady, RecordProxy, WriteToken, OpenTunnel, Fails, Ends, Fault
<1>10. CASE RecordTunnel \/ TunnelUnrecorded \/ AgentFails \/ AgentDone
  BY <1>10 DEF RecordTunnel, TunnelUnrecorded, AgentFails, AgentDone, Fails, Fault, Ends,
      StopProviders, GoOn
<1>11. CASE Unforward \/ Unproxy \/ StopVm \/ StopFails
  BY <1>11 DEF Unforward, Unproxy, StopVm, StopFails, CloseMaster, Refuses, Fault, Ends, GoOn,
      StopProviders
<1>12. CASE TearDownTap \/ TearDownBridge \/ Remove
  <2>1. CASE TearDownTap
    BY <2>1 DEF TearDownTap
  <2>2. CASE TearDownBridge
    BY <2>2 DEF TearDownBridge, RemoveOfBridge, Fault, Ends, GoOn
  <2>3. CASE Remove
    BY <2>3 DEF Remove, Ends, GoOn, RmDir
  <2>. QED BY <1>12, <2>1, <2>2, <2>3
<1>13. CASE Kill
  <2>1. pc # "idle" /\ pc' = "idle" /\ UNCHANGED <<bridge, rules, tap, vm>>
    BY <1>13 DEF Kill, Ends
  <2>2. ~torn' => ~torn /\ ~(pc \in {"bridging", "unbridge", "shared"} /\ step > 1)
    BY <1>13, Zenon DEF Kill
  <2>. QED BY <2>1, <2>2
<1>14. CASE VmDies \/ MasterEnds \/ ProxyEnds \/ TunnelEnds
  BY <1>14 DEF VmDies, MasterEnds, ProxyEnds, TunnelEnds, Fault, Forget
<1>15. CASE UNCHANGED vars
  BY <1>15 DEF vars
<1>. HIDE DEF HostInv, netVars, fwdVars, proxyVars, cmdVars, Shape, At, AgentSteps,
    LinkSteps, Todo, Network, Whole, OnBridge, Rules
<1>. QED BY <1>1, <1>2, <1>3, <1>4, <1>5, <1>6, <1>7, <1>8, <1>9, <1>10, <1>11, <1>12,
    <1>13, <1>14, <1>15 DEF Next, UpOrStart, StopOrPurge
-----------------------------------------------------------------------------
\* Tokens: a proxy that listens has one that was minted before the next child's.
LEMMA MintedStep == ASSUME HostAssumption PROVE HostInv /\ [Next]_vars => Minted'
<1>. SUFFICES ASSUME HostInv, [Next]_vars PROVE Minted' OBVIOUS
<1>. USE DEF HostInv, netVars, fwdVars, proxyVars, cmdVars, Shape, At, AgentSteps, Slot,
    Minted
<1>1. CASE UpOrStart
  BY <1>1 DEF UpOrStart, Up, Start, Begin
<1>2. CASE StopOrPurge
  BY <1>2 DEF StopOrPurge, Stop, Purge, Begin
<1>3. CASE CheckPorts \/ EnsureBridge \/ AddToBridge \/ BridgeFails
  BY <1>3 DEF CheckPorts, EnsureBridge, AddToBridge, BridgeFails, Fails, Ends, Fault
<1>4. CASE CreateTap \/ AttachTap \/ Boot \/ BootFails
  BY <1>4 DEF CreateTap, AttachTap, Boot, BootFails, Fails, Fault, Ends
<1>5. CASE SpawnForwards \/ ForwardsFail
  BY <1>5 DEF SpawnForwards, ForwardsFail, Refuses, Fails, Fault, Ends
<1>6. CASE StartAgent
  <2>1. /\ pc = "agent" /\ Slot \in Slots /\ Slot' = Slot
    BY <1>6, SlotOfTarget DEF StartAgent
  <2>2. CASE Slot[2] \notin wanted
    <3>1. pc' = "bootstrap" /\ StopProviders({Slot})
      BY <1>6, <2>2 DEF StartAgent
    <3>2. \A s \in Slots : ending'[s] => ending[s] \/ (pid[s] # 0 /\ pid[s] = proxy[s])
      BY <3>1, Zenon DEF StopProviders
    <3>. QED BY <3>1, <3>2 DEF StopProviders
  <2>3. CASE Slot[2] \in wanted
    <3>1. /\ minted' = minted + 1 /\ child' = minted + 1 /\ pc' = "ready" /\ proxy' = proxy
          /\ pid' = [pid EXCEPT ![Slot] = 0]
      BY <1>6, <2>3 DEF StartAgent
    <3>2. \A s \in Slots : ending'[s] => ending[s] \/ (pid[s] # 0 /\ pid[s] = proxy[s])
      BY <1>6, <2>3, Zenon DEF StartAgent
    <3>. QED BY <2>1, <3>1, <3>2
  <2>. QED BY <2>2, <2>3
<1>7. CASE SpawnFails
  BY <1>7 DEF SpawnFails, Fails, Fault, Ends
<1>8. CASE AwaitReady
  <2>1. /\ pc = "ready" /\ Slot \in Slots /\ (UNCHANGED cmdVars /\ step' = step => Slot' = Slot)
    BY <1>8, SlotOfTarget DEF AwaitReady
  <2>2. UNCHANGED <<minted, pid, ending>>
    BY <1>8 DEF AwaitReady
  <2>3. CASE proxy[Slot] = 0
    <3>1. /\ proxy' = [proxy EXCEPT ![Slot] = child]
          /\ pc' = "record" /\ UNCHANGED <<child, step, cmdVars>>
      BY <1>8, <2>3 DEF AwaitReady
    <3>2. Slot' = Slot
      BY <2>1, <3>1
    <3>. HIDE DEF Slot
    <3>. QED BY <2>1, <2>2, <2>3, <3>1, <3>2
  <2>4. CASE proxy[Slot] # 0
    BY <1>8, <2>1, <2>2, <2>4 DEF AwaitReady, Fails, Ends
  <2>. QED BY <2>3, <2>4
<1>9. CASE RecordProxy
  <2>1. /\ pc = "record" /\ Slot \in Slots /\ UNCHANGED <<minted, ending>>
    BY <1>9, SlotOfTarget DEF RecordProxy
  <2>2. CASE /\ pid' = [pid EXCEPT ![Slot] = child] /\ pc' = "token"
             /\ UNCHANGED <<proxy, step, cmdVars>>
    BY <2>1, <2>2
  <2>3. CASE /\ Fails
             /\ proxy' = [proxy EXCEPT ![Slot] = IF @ = child THEN 0 ELSE @]
             /\ pid' = pid
    <3>1. pc' \in {"idle", "unforward"}
      BY <2>3 DEF Fails, Ends
    <3>. HIDE DEF Slot
    <3>. QED BY <2>1, <2>3, <3>1
  <2>. QED BY <1>9, <2>2, <2>3 DEF RecordProxy
<1>10. CASE WriteToken \/ OpenTunnel \/ RecordTunnel \/ TunnelUnrecorded
  BY <1>10 DEF WriteToken, OpenTunnel, RecordTunnel, TunnelUnrecorded, Fails, Fault, Ends
<1>11. CASE AgentFails
  <2>1. /\ pc \in AgentSteps /\ Slot \in Slots /\ pc' \in {"idle", "unforward"}
        /\ UNCHANGED <<proxy, minted>>
    BY <1>11, SlotOfTarget DEF AgentFails, StopProviders, Fails, Ends
  <2>2. \A s \in Slots : ending'[s] => ending[s] \/ (pid[s] # 0 /\ pid[s] = proxy[s])
    <3>1. CASE UNCHANGED proxyVars
      BY <3>1
    <3>2. CASE StopProviders({Slot})
      BY <3>2, Zenon DEF StopProviders
    <3>. QED BY <1>11, <3>1, <3>2 DEF AgentFails
  <2>. QED BY <2>1, <2>2
<1>12. CASE AgentDone \/ Unforward \/ Unproxy \/ StopVm
  BY <1>12 DEF AgentDone, Unforward, Unproxy, StopVm, Ends, GoOn, CloseMaster, Refuses, Fault,
      StopProviders
<1>13. CASE StopFails \/ TearDownTap \/ TearDownBridge \/ Remove
  BY <1>13 DEF StopFails, TearDownTap, TearDownBridge, Remove, Fault, Ends, RemoveOfBridge,
      GoOn, RmDir
<1>14. CASE Kill
  <2>1. pc # "idle" /\ pc' = "idle" /\ UNCHANGED <<minted, ending, pid>>
    BY <1>14 DEF Kill, Ends
  <2>2. CASE pc = "ready" /\ proxy[Slot] = 0
    BY <1>14, <2>1, <2>2, SlotOfTarget DEF Kill
  <2>3. CASE ~(pc = "ready" /\ proxy[Slot] = 0)
    <3>1. proxy' = proxy
      BY <1>14, <2>3, Zenon DEF Kill
    <3>. QED BY <2>1, <3>1
  <2>. QED BY <2>2, <2>3
<1>15. CASE VmDies \/ MasterEnds
  BY <1>15 DEF VmDies, MasterEnds, Fault
<1>16. CASE ProxyEnds
  <2>1. /\ UNCHANGED <<pid, minted, pc, child, tunnel, fwdpid>> /\ Slot' = Slot
    BY <1>16 DEF ProxyEnds
  <2>2. PICK s \in Slots :
          /\ proxy[s] # 0 /\ proxy' = [proxy EXCEPT ![s] = 0]
          /\ ending' = [ending EXCEPT ![s] = FALSE]
          /\ orphaned' = Forget("proxy", {s})
    BY <1>16 DEF ProxyEnds
  <2>3. pc \in AgentSteps => Slot \in Slots
    BY SlotOfTarget
  <2>. QED BY <2>1, <2>2, <2>3
<1>17. CASE TunnelEnds
  BY <1>17 DEF TunnelEnds, Forget
<1>18. CASE UNCHANGED vars
  BY <1>18 DEF vars
<1>. HIDE DEF HostInv, netVars, fwdVars, proxyVars, cmdVars, Shape, At, AgentSteps, Slot,
    Minted
<1>. QED BY <1>1, <1>2, <1>3, <1>4, <1>5, <1>6, <1>7, <1>8, <1>9, <1>10, <1>11, <1>12,
    <1>13, <1>14, <1>15, <1>16, <1>17, <1>18 DEF Next, UpOrStart, StopOrPurge
-----------------------------------------------------------------------------
\* Every proxy and tunnel stays on record.
LEMMA TrackedStep == ASSUME HostAssumption PROVE HostInv /\ [Next]_vars => CredentialsTracked'
<1>. SUFFICES ASSUME HostInv, [Next]_vars PROVE CredentialsTracked' OBVIOUS
<1>. USE DEF HostInv, netVars, fwdVars, proxyVars, cmdVars, Shape, At, AgentSteps, Slot,
    Minted, CredentialsTracked
<1>1. CASE UpOrStart
  BY <1>1 DEF UpOrStart, Up, Start, Begin
<1>2. CASE StopOrPurge
  BY <1>2 DEF StopOrPurge, Stop, Purge, Begin
<1>3. CASE CheckPorts \/ EnsureBridge \/ AddToBridge \/ BridgeFails
  BY <1>3 DEF CheckPorts, EnsureBridge, AddToBridge, BridgeFails, Fails, Ends, Fault
<1>4. CASE CreateTap \/ AttachTap \/ Boot \/ BootFails
  BY <1>4 DEF CreateTap, AttachTap, Boot, BootFails, Fails, Fault, Ends
<1>5. CASE SpawnForwards \/ ForwardsFail
  BY <1>5 DEF SpawnForwards, ForwardsFail, Refuses, Fails, Fault, Ends
<1>6. CASE StartAgent
  <2>1. /\ pc = "agent" /\ Slot \in Slots
    BY <1>6, SlotOfTarget DEF StartAgent
  <2>2. CASE Slot[2] \notin wanted
    <3>1. pc' = "bootstrap" /\ Stopped({Slot})
      BY <1>6, <2>2, StopStops DEF StartAgent
    <3>. HIDE DEF Slot
    <3>. QED BY <2>1, <3>1 DEF Stopped
  <2>3. CASE Slot[2] \in wanted
    <3>1. /\ pid' = [pid EXCEPT ![Slot] = 0] /\ UNCHANGED <<proxy, tunnel, fwdpid, orphaned>>
      BY <1>6, <2>3 DEF StartAgent
    <3>2. \A s \in Slots : ending[s] => ending'[s]
      BY <1>6, <2>3, Zenon DEF StartAgent
    <3>3. pid[Slot] # 0 /\ pid[Slot] = proxy[Slot] => ending'[Slot]
      BY <1>6, <2>1, <2>3, Zenon DEF StartAgent
    <3>. HIDE DEF Slot
    <3>. QED BY <2>1, <3>1, <3>2, <3>3
  <2>. QED BY <2>2, <2>3
<1>7. CASE SpawnFails \/ AwaitReady \/ RecordProxy \/ WriteToken
  BY <1>7 DEF SpawnFails, AwaitReady, RecordProxy, WriteToken, Fails, Fault, Ends
<1>8. CASE OpenTunnel
  BY <1>8 DEF OpenTunnel
<1>9. CASE RecordTunnel
  BY <1>9 DEF RecordTunnel
<1>10. CASE TunnelUnrecorded
  BY <1>10 DEF TunnelUnrecorded, Fails, Fault, Ends
<1>11. CASE AgentFails
  <2>1. /\ pc \in {"token", "tunnel", "bootstrap"} /\ Slot \in Slots
        /\ pc' \in {"idle", "unforward"} /\ UNCHANGED <<master, vm, tap>>
    BY <1>11, SlotOfTarget DEF AgentFails, Fails, Ends
  <2>2. CASE UNCHANGED proxyVars
    BY <2>1, <2>2
  <2>3. CASE StopProviders({Slot})
    <3>1. Stopped({Slot})
      BY <2>3, StopStops
    <3>. HIDE DEF Slot
    <3>. QED BY <2>1, <3>1 DEF Stopped
  <2>. QED BY <1>11, <2>2, <2>3 DEF AgentFails
<1>12. CASE AgentDone \/ Unforward
  BY <1>12 DEF AgentDone, Unforward, Ends, GoOn, CloseMaster, Refuses, Fault
<1>13. CASE Unproxy
  BY <1>13 DEF Unproxy, Ends, GoOn, StopProviders
<1>14. CASE StopVm \/ StopFails \/ TearDownTap \/ TearDownBridge
  BY <1>14 DEF StopVm, StopFails, TearDownTap, TearDownBridge, Fault, Ends, RemoveOfBridge,
      GoOn
<1>15. CASE Remove
  <2>1. /\ pc = "remove" /\ UNCHANGED <<proxy, ending, tunnel, orphaned>>
        /\ \A s \in Slots : s[1] # target => pid'[s] = pid[s]
    BY <1>15 DEF Remove, RmDir
  <2>2. \A s \in Slots : s[1] # target => (fwdpid'[s] <=> fwdpid[s])
    BY <1>15, Zenon DEF Remove, RmDir
  <2>3. \A s \in Slots : s[1] = target => ~fwdpid[s] /\ pid[s] = 0
    BY <2>1 DEF Leftovers, Forgotten
  <2>. HIDE DEF Slot
  <2>. QED BY <2>1, <2>2, <2>3
<1>16. CASE Kill
  BY <1>16 DEF Kill, Fault, Ends
<1>17. CASE VmDies \/ MasterEnds
  BY <1>17 DEF VmDies, MasterEnds, Fault
<1>18. CASE ProxyEnds
  BY <1>18 DEF ProxyEnds, Fault, Forget
<1>19. CASE TunnelEnds
  BY <1>19 DEF TunnelEnds, Forget
<1>20. CASE UNCHANGED vars
  BY <1>20 DEF vars
<1>. HIDE DEF HostInv, netVars, fwdVars, proxyVars, cmdVars, Shape, At, AgentSteps, Slot,
    Minted, CredentialsTracked
<1>. QED BY <1>1, <1>2, <1>3, <1>4, <1>5, <1>6, <1>7, <1>8, <1>9, <1>10, <1>11, <1>12,
    <1>13, <1>14, <1>15, <1>16, <1>17, <1>18, <1>19, <1>20 DEF Next, UpOrStart, StopOrPurge
-----------------------------------------------------------------------------
\* What is gone stays gone until the instance starts again.
LEMMA LeftoversStep == ASSUME HostAssumption PROVE HostInv /\ [Next]_vars => Leftovers'
<1>. SUFFICES ASSUME HostInv, [Next]_vars PROVE Leftovers' OBVIOUS
<1>. USE DEF HostInv, netVars, fwdVars, proxyVars, cmdVars, Shape, At, AgentSteps, Slot,
    Todo, Network, Minted, Leftovers, Forgotten
<1>1. CASE UpOrStart
  BY <1>1 DEF UpOrStart, Up, Start, Begin
<1>2. CASE StopOrPurge
  BY <1>2 DEF StopOrPurge, Stop, Purge, Begin
<1>3. CASE CheckPorts \/ EnsureBridge \/ AddToBridge \/ BridgeFails
  BY <1>3 DEF CheckPorts, EnsureBridge, AddToBridge, BridgeFails, Fails, Ends, Fault
<1>4. CASE CreateTap \/ AttachTap \/ Boot \/ BootFails
  BY <1>4 DEF CreateTap, AttachTap, Boot, BootFails, Fails, Fault, Ends
<1>5. CASE SpawnForwards \/ ForwardsFail
  BY <1>5 DEF SpawnForwards, ForwardsFail, Refuses, Fails, Fault, Ends
<1>6. CASE StartAgent
  <2>1. /\ pc = "agent" /\ Slot \in Slots /\ Slot[1] = target /\ vm[target] # "absent"
        /\ UNCHANGED <<vm, tap, master, target>>
    BY <1>6, SlotOfTarget DEF StartAgent
  <2>2. CASE Slot[2] \notin wanted
    <3>1. pc' = "bootstrap" /\ Stopped({Slot})
      BY <1>6, <2>2, StopStops DEF StartAgent
    <3>. HIDE DEF Slot
    <3>. QED BY <2>1, <3>1 DEF Stopped
  <2>3. CASE Slot[2] \in wanted
    <3>1. /\ pid' = [pid EXCEPT ![Slot] = 0] /\ UNCHANGED <<tunnel, fwdpid, token>> /\ pc' = "ready"
      BY <1>6, <2>3 DEF StartAgent
    <3>. HIDE DEF Slot
    <3>. QED BY <2>1, <3>1
  <2>. QED BY <2>2, <2>3
<1>7. CASE SpawnFails \/ AwaitReady \/ RecordProxy \/ WriteToken
  BY <1>7 DEF SpawnFails, AwaitReady, RecordProxy, WriteToken, Fails, Fault, Ends
<1>8. CASE OpenTunnel \/ RecordTunnel \/ TunnelUnrecorded
  <2>1. CASE OpenTunnel
    BY <2>1 DEF OpenTunnel
  <2>2. CASE RecordTunnel
    BY <2>2 DEF RecordTunnel
  <2>3. CASE TunnelUnrecorded
    BY <2>3 DEF TunnelUnrecorded, Fails, Fault, Ends
  <2>. QED BY <1>8, <2>1, <2>2, <2>3
<1>9. CASE AgentFails
  <2>1. /\ pc \in {"token", "tunnel", "bootstrap"} /\ Slot \in Slots
        /\ pc' \in {"idle", "unforward"} /\ UNCHANGED <<master, vm, tap>>
    BY <1>9, SlotOfTarget DEF AgentFails, Fails, Ends
  <2>2. CASE UNCHANGED proxyVars
    BY <2>1, <2>2
  <2>3. CASE StopProviders({Slot})
    <3>1. Stopped({Slot})
      BY <2>3, StopStops
    <3>. HIDE DEF Slot
    <3>. QED BY <2>1, <3>1 DEF Stopped
  <2>. QED BY <1>9, <2>2, <2>3 DEF AgentFails
<1>10. CASE AgentDone
  BY <1>10 DEF AgentDone, Ends, GoOn
<1>11. CASE Unforward
  BY <1>11 DEF Unforward, CloseMaster, Refuses, Fault
<1>12. CASE Unproxy
  BY <1>12 DEF Unproxy, Ends, GoOn, StopProviders
<1>13. CASE StopVm \/ StopFails
  BY <1>13 DEF StopVm, StopFails, Fault, Ends
<1>14. CASE TearDownTap
  BY <1>14 DEF TearDownTap
<1>15. CASE TearDownBridge
  BY <1>15 DEF TearDownBridge, RemoveOfBridge, Fault, Ends, GoOn
<1>16. CASE Remove
  BY <1>16 DEF Remove, RmDir, Ends, GoOn
<1>17. CASE Kill \/ VmDies \/ MasterEnds \/ ProxyEnds
  BY <1>17 DEF Kill, VmDies, MasterEnds, ProxyEnds, Fault, Ends, Forget
<1>18. CASE TunnelEnds
  BY <1>18 DEF TunnelEnds, Forget
<1>19. CASE UNCHANGED vars
  BY <1>19 DEF vars
<1>. HIDE DEF HostInv, netVars, fwdVars, proxyVars, cmdVars, Shape, At, AgentSteps, Slot,
    Todo, Network, Minted, Leftovers, Forgotten
<1>. QED BY <1>1, <1>2, <1>3, <1>4, <1>5, <1>6, <1>7, <1>8, <1>9, <1>10, <1>11, <1>12,
    <1>13, <1>14, <1>15, <1>16, <1>17, <1>18, <1>19 DEF Next, UpOrStart, StopOrPurge
-----------------------------------------------------------------------------
LEMMA MastersStep == ASSUME HostAssumption PROVE HostInv /\ [Next]_vars => Masters'
<1>. SUFFICES ASSUME HostInv, [Next]_vars PROVE Masters' OBVIOUS
<1>. DOMAIN stray = Vms /\ Masters
  BY DEF HostInv, Shape
<1>1. CASE Unforward \/ SpawnForwards \/ ForwardsFail
  <2>1. UNCHANGED <<stray, refused>> \/ \E v \in Vms : Refuses(v)
    <3>1. pc \in {"forward", "unforward"} => target \in Vms
      BY DEF HostInv, At
    <3>. QED BY <1>1, <3>1 DEF Unforward, SpawnForwards, ForwardsFail, CloseMaster
  <2>. QED BY <2>1 DEF Refuses, Masters
<1>2. CASE MasterEnds
  <2>1. PICK v \in Vms : stray' = [stray EXCEPT ![v] = {}] /\ refused' = refused \ {v}
    BY <1>2 DEF MasterEnds
  <2>. QED BY <2>1 DEF Masters
<1>3. CASE UNCHANGED <<stray, refused>>
  BY <1>3 DEF Masters
<1>4. CASE Remove \/ UNCHANGED vars
  BY <1>3, <1>4 DEF Remove, RmDir, vars, fwdVars
<1>5. CASE UNCHANGED fwdVars
  BY <1>3, <1>5 DEF fwdVars
<1>6. CASE UpOrStart \/ StopOrPurge
  BY <1>5, <1>6 DEF UpOrStart, StopOrPurge, Up, Start, Stop, Purge
<1>. QED BY <1>1, <1>2, <1>4, <1>5, <1>6 DEF Next, UpOrStart, StopOrPurge, CheckPorts,
    EnsureBridge, AddToBridge, BridgeFails, CreateTap, AttachTap, Boot, BootFails, StartAgent,
    SpawnFails, AwaitReady, RecordProxy, WriteToken, OpenTunnel, RecordTunnel, TunnelUnrecorded,
    AgentFails, AgentDone, Unproxy, StopVm, StopFails, TearDownTap, TearDownBridge, Kill, VmDies,
    ProxyEnds, TunnelEnds
-----------------------------------------------------------------------------
LEMMA HostInit == ASSUME HostAssumption PROVE Init => HostInv
<1>. SUFFICES ASSUME Init PROVE HostInv OBVIOUS
<1>1. Shape /\ At /\ Todo
  BY DEF Init, Shape, At, AgentSteps, Todo
<1>2. Network
  BY DEF Init, Network, OnBridge
<1>3. Minted /\ CredentialsTracked /\ Leftovers
  BY DEF Init, Minted, CredentialsTracked, Leftovers, Forgotten, AgentSteps
<1>4. Masters
  BY DEF Init, Masters
<1>. QED BY <1>1, <1>2, <1>3, <1>4 DEF HostInv

LEMMA HostStep == ASSUME HostAssumption PROVE HostInv /\ [Next]_vars => HostInv'
  BY ShapeStep, AtStep, TodoStep, NetworkStep, MintedStep, TrackedStep,
      LeftoversStep, MastersStep DEF HostInv

\* Whoever runs is on the bridge, so no command works on it.
LEMMA WhoRunsIsConnected == HostInv => RunningIsConnected
<1>. SUFFICES ASSUME HostInv, NEW v \in Vms, vm[v] = "on"
     PROVE /\ tap[v] = "up"
           /\ torn \/ (bridge = {"link", "addr", "up"} /\ \A r \in Rules : rules[r] > 0)
  BY DEF RunningIsConnected
<1>1. tap[v] = "up" /\ OnBridge # {}
  BY DEF HostInv, Network, OnBridge
<1>2. pc \notin {"bridging", "unbridge", "shared"}
  BY <1>1 DEF HostInv, Network, Todo
<1>. QED BY <1>1, <1>2 DEF HostInv, Network, Whole

\* No PID file of a destroyed instance is left to name a process.
LEMMA WhatIsLeft == HostInv => DestroyedLeavesNothing
<1>. SUFFICES ASSUME HostInv, NEW v \in Vms, vm[v] = "absent", pc = "idle"
     PROVE /\ tap[v] = "none" /\ master[v] = {} /\ (stray[v] = {} \/ v \in refused)
           /\ \A s \in Slots : s[1] = v =>
                /\ token[s] = 0 /\ pid[s] = 0 /\ ~fwdpid[s]
                /\ proxy[s] = 0 \/ ending[s] \/ <<"proxy", s>> \in orphaned
                /\ tunnel[s] => <<"tunnel", s>> \in orphaned
  BY DEF DestroyedLeavesNothing
<1>1. master[v] = {} /\ tap[v] = "none" /\ Forgotten(v)
  BY DEF HostInv, Leftovers
<1>. QED BY <1>1 DEF HostInv, Forgotten, CredentialsTracked, Masters
-----------------------------------------------------------------------------
\* Whatever commands run, fail or are killed, and in whatever order: a running VM
\* keeps its network, a process with a credential stays on record, and `destroy`
\* leaves nothing that coop does not know of.
THEOREM HostIsKept ==
  ASSUME HostAssumption
  PROVE  Spec => [](RunningIsConnected /\ CredentialsTracked /\ DestroyedLeavesNothing)
<1>1. HostInv => RunningIsConnected /\ CredentialsTracked /\ DestroyedLeavesNothing
  BY WhoRunsIsConnected, WhatIsLeft DEF HostInv
<1>. QED BY <1>1, HostInit, HostStep, PTL DEF Spec
-----------------------------------------------------------------------------
(* Types *)

\* A rule for br0 is left behind by a teardown that failed only, so there is one more
\* than there were faults at most, and none more while the bridge is not there.
RulesCounted ==
  /\ faults \in Nat
  /\ \A r \in Rules : rules[r] <= faults + 1
  /\ "link" \notin bridge => \A r \in Rules : rules[r] <= faults
  /\ pc = "bridging" =>
       /\ step <= 4 => rules["nat"] <= faults
       /\ step <= 5 => rules["out"] <= faults
       /\ rules["back"] <= faults
  /\ pc \in {"unbridge", "shared"} =>
       /\ step > 1 => rules["nat"] <= faults
       /\ step > 2 => rules["out"] <= faults
       /\ step > 3 => rules["back"] <= faults

\* The providers whose agents are still to be started.
Remaining(k) == wanted \cap {Providers[j] : j \in k..Len(Providers)}

\* The steps of a start before its agents.
Early == {"ports", "bridge", "bridging", "tap", "attach", "boot", "forward"}

\* There is a token for each of them.
TokensLeft ==
  /\ pc \in Early => minted + Cardinality(wanted) <= MaxTokens
  /\ pc = "agent" => minted + Cardinality(Remaining(step)) <= MaxTokens
  /\ pc \in AgentSteps \ {"agent"} => minted + Cardinality(Remaining(step + 1)) <= MaxTokens

LEMMA TypedInit == ASSUME HostAssumption PROVE Init => TypeOK /\ RulesCounted /\ TokensLeft
<1>. SUFFICES ASSUME Init PROVE TypeOK /\ RulesCounted /\ TokensLeft OBVIOUS
<1>1. TypeOK
  <2>1. /\ rules \in [Rules -> 0..(MaxFaults + 1)] /\ step \in 0..6 /\ child \in Tokens \cup {0}
        /\ minted \in 0..MaxTokens /\ faults \in 0..MaxFaults
    BY DEF Init, HostAssumption
  <2>2. /\ tap \in [Vms -> {"none", "loose", "attached", "up"}]
        /\ vm \in [Vms -> {"absent", "off", "on"}]
        /\ {saved, master, stray} \subseteq [Vms -> SUBSET HostPorts]
    BY DEF Init
  <2>3. /\ {proxy, pid, token} \subseteq [Slots -> Tokens \cup {0}]
        /\ {ending, tunnel, fwdpid} \subseteq [Slots -> BOOLEAN]
    BY DEF Init
  <2>4. /\ bridge \subseteq {"link", "addr", "up"} /\ pc = "idle" /\ verb = "none"
        /\ target = "none" /\ todo = {} /\ asked = {} /\ wanted = {} /\ torn \in BOOLEAN
        /\ orphaned = {} /\ refused = {}
    BY DEF Init
  <2>. QED BY <2>1, <2>2, <2>3, <2>4 DEF TypeOK
<1>2. RulesCounted
  BY DEF Init, RulesCounted, Rules
<1>3. TokensLeft
  BY DEF Init, TokensLeft, AgentSteps, Early
<1>. QED BY <1>1, <1>2, <1>3

\* The counts of the rules.
LEMMA CountStep == ASSUME HostAssumption PROVE HostInv /\ RulesCounted /\ [Next]_vars => RulesCounted'
<1>. SUFFICES ASSUME HostInv, RulesCounted, [Next]_vars PROVE RulesCounted' OBVIOUS
<1>. USE DEF HostInv, netVars, fwdVars, proxyVars, cmdVars, Shape, At, AgentSteps, LinkSteps,
    Rules, Network, RulesCounted
<1>1. CASE UpOrStart
  BY <1>1 DEF UpOrStart, Up, Start, Begin
<1>2. CASE StopOrPurge
  BY <1>2 DEF StopOrPurge, Stop, Purge, Begin
<1>3. CASE CheckPorts
  BY <1>3 DEF CheckPorts, Fails, Ends
<1>4. CASE EnsureBridge
  <2>1. /\ pc = "bridge" /\ step' = 1 /\ UNCHANGED <<bridge, rules, faults>>
        /\ pc' = IF "link" \in bridge THEN "tap" ELSE "bridging"
    BY <1>4 DEF EnsureBridge
  <2>. QED BY <2>1
<1>5. CASE AddToBridge
  BY <1>5 DEF AddToBridge
<1>6. CASE BridgeFails
  BY <1>6 DEF BridgeFails, Fault, Fails, Ends
<1>7. CASE CreateTap \/ AttachTap \/ Boot \/ BootFails
  BY <1>7 DEF CreateTap, AttachTap, Boot, BootFails, Fails, Fault, Ends
<1>8. CASE SpawnForwards \/ ForwardsFail \/ StartAgent \/ SpawnFails
  BY <1>8 DEF SpawnForwards, ForwardsFail, Refuses, StartAgent, SpawnFails, Fails, Fault, Ends,
      StopProviders
<1>9. CASE AwaitReady \/ RecordProxy \/ WriteToken \/ OpenTunnel
  BY <1>9 DEF AwaitReady, RecordProxy, WriteToken, OpenTunnel, Fails, Ends, Fault
<1>10. CASE RecordTunnel \/ TunnelUnrecorded \/ AgentFails \/ AgentDone
  BY <1>10 DEF RecordTunnel, TunnelUnrecorded, AgentFails, AgentDone, Fails, Fault, Ends,
      StopProviders, GoOn
<1>11. CASE Unforward \/ Unproxy \/ StopVm \/ StopFails
  BY <1>11 DEF Unforward, Unproxy, StopVm, StopFails, CloseMaster, Refuses, Fault, Ends, GoOn,
      StopProviders
<1>12. CASE TearDownTap
  BY <1>12 DEF TearDownTap
<1>13. CASE TearDownBridge
  <2>1. CASE RemoveOfBridge(TRUE) /\ UNCHANGED <<torn, faults>>
    BY <1>13, <2>1 DEF TearDownBridge, RemoveOfBridge, Ends, GoOn
  <2>2. CASE RemoveOfBridge(FALSE) /\ torn' = TRUE /\ Fault
    BY <1>13, <2>2 DEF TearDownBridge, RemoveOfBridge, Fault, Ends, GoOn
  <2>. QED BY <1>13, <2>1, <2>2 DEF TearDownBridge
<1>14. CASE Remove
  BY <1>14 DEF Remove, RmDir, Ends, GoOn
<1>15. CASE Kill
  <2>1. pc' = "idle" /\ UNCHANGED <<bridge, rules>> /\ faults' = faults + 1
    BY <1>15 DEF Kill, Ends, Fault
  <2>. QED BY <2>1
<1>16. CASE VmDies \/ MasterEnds \/ ProxyEnds \/ TunnelEnds
  BY <1>16 DEF VmDies, MasterEnds, ProxyEnds, TunnelEnds, Fault, Forget
<1>17. CASE UNCHANGED vars
  BY <1>17 DEF vars
<1>. HIDE DEF HostInv, netVars, fwdVars, proxyVars, cmdVars, Shape, At, AgentSteps, LinkSteps,
    Rules, Network, RulesCounted
<1>. QED BY <1>1, <1>2, <1>3, <1>4, <1>5, <1>6, <1>7, <1>8, <1>9, <1>10, <1>11, <1>12,
    <1>13, <1>14, <1>15, <1>16, <1>17 DEF Next, UpOrStart, StopOrPurge

\* The sets of providers are finite.
LEMMA FiniteProviders ==
  ASSUME HostAssumption, NEW k \in Nat, NEW W
  PROVE  IsFiniteSet(W \cap {Providers[j] : j \in k..Len(Providers)})
<1>1. IsFiniteSet(k..Len(Providers))
  BY FS_Interval DEF HostAssumption
<1>. DEFINE f == [j \in k..Len(Providers) |-> Providers[j]]
            T == {Providers[j] : j \in k..Len(Providers)}
<1>2. f \in Surjection(k..Len(Providers), T)
  BY DEF Surjection
<1>. HIDE DEF f, T
<1>3. IsFiniteSet(T)
  BY <1>1, <1>2, FS_Surjection DEF ExistsSurjection
<1>4. IsFiniteSet(W \cap T)
  BY <1>3, FS_Intersection
<1>. QED BY <1>4 DEF T

\* A wanted provider is counted until its proxy has a token.
LEMMA RemainingFalls ==
  ASSUME HostAssumption, NEW k \in 1..Len(Providers)
  PROVE  /\ Cardinality(Remaining(k)) \in Nat /\ Cardinality(Remaining(k + 1)) \in Nat
         /\ Cardinality(Remaining(k + 1)) <= Cardinality(Remaining(k))
         /\ Providers[k] \in wanted =>
              Cardinality(Remaining(k)) = Cardinality(Remaining(k + 1)) + 1
<1>0. k \in Nat /\ k + 1 \in Nat
  OBVIOUS
<1>1. IsFiniteSet(Remaining(k)) /\ IsFiniteSet(Remaining(k + 1))
  <2>1. IsFiniteSet(Remaining(k))
    BY <1>0, FiniteProviders DEF Remaining
  <2>2. IsFiniteSet(Remaining(k + 1))
    BY <1>0, FiniteProviders DEF Remaining
  <2>. QED BY <2>1, <2>2
<1>2. Providers[k] \notin Remaining(k + 1)
  BY DEF Remaining, HostAssumption
<1>3. Remaining(k + 1) \subseteq Remaining(k)
  BY DEF Remaining
<1>4. Providers[k] \in wanted => Remaining(k) = Remaining(k + 1) \cup {Providers[k]}
  BY DEF Remaining, HostAssumption
<1>5. Cardinality(Remaining(k + 1) \cup {Providers[k]}) = Cardinality(Remaining(k + 1)) + 1
  BY <1>1, <1>2, FS_AddElement
<1>. QED BY <1>1, <1>3, <1>4, <1>5, FS_CardinalityType, FS_Subset

\* The command.
CmdTypes ==
  /\ verb \in {"none", "up", "start", "stop", "destroy", "purge"}
  /\ target \in Vms \cup {"none"}
  /\ asked \subseteq HostPorts
  /\ wanted \subseteq {Providers[k] : k \in 1..Len(Providers)}
  /\ step \in (0..6) \cup (1..Len(Providers))
  /\ faults \in 0..MaxFaults

\* The network and the instances.
Maps ==
  /\ bridge \subseteq {"link", "addr", "up"}
  /\ rules \in [Rules -> Nat]
  /\ tap \in [Vms -> {"none", "loose", "attached", "up"}]
  /\ vm \in [Vms -> {"absent", "off", "on"}]
  /\ saved \in [Vms -> SUBSET HostPorts] /\ master \in [Vms -> SUBSET HostPorts]
  /\ stray \in [Vms -> SUBSET HostPorts] /\ refused \subseteq Vms

LEMMA MapsStep == ASSUME HostAssumption PROVE HostInv /\ Maps /\ CmdTypes /\ [Next]_vars => Maps'
<1>. SUFFICES ASSUME HostInv, Maps, CmdTypes, [Next]_vars PROVE Maps' OBVIOUS
<1>. USE DEF HostInv, netVars, fwdVars, proxyVars, cmdVars, Shape, At, AgentSteps, Maps, CmdTypes
<1>1. CASE UpOrStart
  BY <1>1 DEF UpOrStart, Up, Start, Begin
<1>2. CASE StopOrPurge
  BY <1>2 DEF StopOrPurge, Stop, Purge, Begin
<1>3. CASE CheckPorts \/ EnsureBridge
  BY <1>3 DEF CheckPorts, EnsureBridge, Fails, Ends
<1>4. CASE AddToBridge \/ BridgeFails
  <2>1. CASE BridgeFails
    BY <2>1 DEF BridgeFails
  <2>2. CASE AddToBridge
    <3>1. /\ step \in 1..6 /\ UNCHANGED <<tap, vm, saved, master, stray, refused>>
          /\ \/ LinkSteps[step] \in Rules /\ bridge' = bridge
                /\ rules' = [rules EXCEPT ![LinkSteps[step]] = @ + 1]
             \/ LinkSteps[step] \notin Rules /\ rules' = rules
                /\ bridge' = bridge \cup {LinkSteps[step]}
      BY <2>2 DEF AddToBridge
    <3>2. LinkSteps[step] \in Rules \/ LinkSteps[step] \in {"link", "addr", "up"}
      BY <3>1 DEF LinkSteps, Rules
    <3>3. CASE LinkSteps[step] \in Rules
      <4>1. PICK r \in Rules : rules' = [rules EXCEPT ![r] = @ + 1]
        BY <3>1, <3>3
      <4>2. rules' \in [Rules -> Nat]
        BY <4>1
      <4>. QED BY <3>1, <3>3, <4>2
    <3>4. CASE LinkSteps[step] \notin Rules
      BY <3>1, <3>2, <3>4
    <3>. QED BY <3>1, <3>3, <3>4
  <2>. QED BY <1>4, <2>1, <2>2
<1>5. CASE CreateTap \/ AttachTap \/ Boot \/ BootFails
  BY <1>5 DEF CreateTap, AttachTap, Boot, BootFails, Fails, Fault, Ends
<1>6. CASE SpawnForwards \/ ForwardsFail
  <2>1. target \in Vms /\ UNCHANGED <<bridge, rules, tap, vm>>
    BY <1>6 DEF SpawnForwards, ForwardsFail, Fails, Fault, Ends
  <2>2. /\ saved' \in {saved, [saved EXCEPT ![target] = asked]}
        /\ \/ master' = master
           \/ master' = [master EXCEPT ![target] = {}]
           \/ \E ps \in SUBSET asked : master' = [master EXCEPT ![target] = ps]
        /\ stray' \in {stray, [stray EXCEPT ![target] = @ \cup master[target]]}
        /\ refused' \in {refused, refused \cup {target}}
    BY <1>6 DEF SpawnForwards, ForwardsFail, Refuses, Fails, Fault, Ends
  <2>3. /\ master[target] \in SUBSET HostPorts /\ stray[target] \in SUBSET HostPorts
        /\ asked \in SUBSET HostPorts
    BY <2>1
  <2>4. master' \in [Vms -> SUBSET HostPorts]
    BY <2>1, <2>2, <2>3
  <2>. QED BY <2>1, <2>2, <2>3, <2>4
<1>7. CASE StartAgent
  BY <1>7 DEF StartAgent, StopProviders
<1>8. CASE SpawnFails \/ AwaitReady
  BY <1>8 DEF SpawnFails, AwaitReady, Fails, Fault, Ends
<1>9. CASE RecordProxy \/ WriteToken
  BY <1>9 DEF RecordProxy, WriteToken, Fails, Ends, Fault
<1>10. CASE OpenTunnel \/ RecordTunnel
  BY <1>10 DEF OpenTunnel, RecordTunnel
<1>11. CASE TunnelUnrecorded \/ AgentDone
  BY <1>11 DEF TunnelUnrecorded, AgentDone, Fails, Fault, Ends, GoOn
<1>12. CASE AgentFails
  BY <1>12 DEF AgentFails, StopProviders, Fails, Fault, Ends
<1>13. CASE Unforward \/ Unproxy
  <2>1. CASE Unforward
    <3>1. target \in Vms /\ UNCHANGED <<bridge, rules, tap, vm, saved>>
      BY <2>1 DEF Unforward
    <3>2. /\ master' = [master EXCEPT ![target] = {}]
          /\ stray' = stray \/ stray' = [stray EXCEPT ![target] = @ \cup master[target]]
          /\ refused' \in {refused, refused \cup {target}}
      BY <2>1 DEF Unforward, CloseMaster, Refuses
    <3>3. master[target] \in SUBSET HostPorts /\ stray[target] \in SUBSET HostPorts
      BY <3>1
    <3>. QED BY <3>1, <3>2, <3>3
  <2>2. CASE Unproxy
    BY <2>2 DEF Unproxy
  <2>. QED BY <1>13, <2>1, <2>2
<1>14. CASE StopVm \/ StopFails \/ TearDownTap
  BY <1>14 DEF StopVm, StopFails, TearDownTap, Fault, Ends
<1>15. CASE TearDownBridge
  <2>1. UNCHANGED <<vm, saved, master, stray, refused>>
    BY <1>15 DEF TearDownBridge
  <2>2. PICK ok \in BOOLEAN : RemoveOfBridge(ok)
    BY <1>15 DEF TearDownBridge
  <2>3. bridge' = {} \/ bridge' = bridge
    BY <2>2 DEF RemoveOfBridge
  <2>4. rules' = rules \/ \E r \in Rules : rules[r] > 0 /\ rules' = [rules EXCEPT ![r] = @ - 1]
    BY <2>2 DEF RemoveOfBridge
  <2>5. tap' \in [Vms -> {"none", "loose", "attached", "up"}]
    <3>1. \/ tap' = tap
          \/ tap' = [v \in Vms |-> IF tap[v] \in {"attached", "up"} THEN "loose" ELSE tap[v]]
      BY <2>2 DEF RemoveOfBridge
    <3>. QED BY <3>1
  <2>6. rules' \in [Rules -> Nat]
    BY <2>4
  <2>. QED BY <2>1, <2>3, <2>5, <2>6
<1>16. CASE Remove
  BY <1>16 DEF Remove, RmDir, Ends, GoOn
<1>17. CASE Kill
  BY <1>17 DEF Kill, Fault, Ends
<1>18. CASE VmDies \/ MasterEnds
  <2>1. CASE VmDies
    BY <2>1 DEF VmDies
  <2>2. CASE MasterEnds
    <3>1. PICK v \in Vms : /\ master' = [master EXCEPT ![v] = {}]
                           /\ stray' = [stray EXCEPT ![v] = {}]
                           /\ refused' = refused \ {v}
      BY <2>2 DEF MasterEnds
    <3>2. UNCHANGED <<bridge, rules, tap, vm, saved>>
      BY <2>2 DEF MasterEnds
    <3>3. {} \in SUBSET HostPorts
      OBVIOUS
    <3>. QED BY <3>1, <3>2, <3>3
  <2>. QED BY <1>18, <2>1, <2>2
<1>19. CASE ProxyEnds \/ TunnelEnds
  BY <1>19 DEF ProxyEnds, TunnelEnds, Fault, Forget
<1>20. CASE UNCHANGED vars
  BY <1>20 DEF vars
<1>. HIDE DEF HostInv, netVars, fwdVars, proxyVars, cmdVars, Shape, At, AgentSteps, Maps, CmdTypes
<1>. QED BY <1>1, <1>2, <1>3, <1>4, <1>5, <1>6, <1>7, <1>8, <1>9, <1>10, <1>11, <1>12, <1>13, <1>14, <1>15, <1>16, <1>17, <1>18, <1>19, <1>20 DEF Next, UpOrStart, StopOrPurge

LEMMA CmdStep == ASSUME HostAssumption PROVE HostInv /\ Maps /\ CmdTypes /\ [Next]_vars => CmdTypes'
<1>. SUFFICES ASSUME HostInv, Maps, CmdTypes, [Next]_vars PROVE CmdTypes' OBVIOUS
<1>. USE DEF HostInv, netVars, fwdVars, proxyVars, cmdVars, Shape, At, AgentSteps, Todo, Maps, CmdTypes, HostAssumption
<1>1. CASE UpOrStart
  BY <1>1 DEF UpOrStart, Up, Start, Begin
<1>2. CASE StopOrPurge
  BY <1>2 DEF StopOrPurge, Stop, Purge, Begin
<1>3. CASE CheckPorts \/ EnsureBridge
  BY <1>3 DEF CheckPorts, EnsureBridge, Fails, Ends
<1>4. CASE AddToBridge \/ BridgeFails
  BY <1>4 DEF AddToBridge, BridgeFails, Fails, Ends, Fault, LinkSteps
<1>5. CASE CreateTap \/ AttachTap \/ Boot \/ BootFails
  BY <1>5 DEF CreateTap, AttachTap, Boot, BootFails, Fails, Fault, Ends
<1>6. CASE SpawnForwards \/ ForwardsFail
  BY <1>6 DEF SpawnForwards, ForwardsFail, Refuses, Fails, Fault, Ends
<1>7. CASE StartAgent
  BY <1>7 DEF StartAgent, StopProviders
<1>8. CASE SpawnFails \/ AwaitReady
  BY <1>8 DEF SpawnFails, AwaitReady, Fails, Fault, Ends
<1>9. CASE RecordProxy \/ WriteToken
  BY <1>9 DEF RecordProxy, WriteToken, Fails, Ends, Fault
<1>10. CASE OpenTunnel \/ RecordTunnel
  BY <1>10 DEF OpenTunnel, RecordTunnel
<1>11. CASE TunnelUnrecorded \/ AgentDone
  BY <1>11 DEF TunnelUnrecorded, AgentDone, Fails, Fault, Ends, GoOn
<1>12. CASE AgentFails
  BY <1>12 DEF AgentFails, StopProviders, Fails, Fault, Ends
<1>13. CASE Unforward \/ Unproxy
  BY <1>13 DEF Unforward, Unproxy, CloseMaster, Refuses, StopProviders, Fault, Ends, GoOn
<1>14. CASE StopVm \/ StopFails \/ TearDownTap
  BY <1>14 DEF StopVm, StopFails, TearDownTap, Fault, Ends
<1>15. CASE TearDownBridge
  BY <1>15 DEF TearDownBridge, RemoveOfBridge, Fault, Ends, GoOn
<1>16. CASE Remove
  BY <1>16 DEF Remove, RmDir, Ends, GoOn
<1>17. CASE Kill
  BY <1>17 DEF Kill, Fault, Ends
<1>18. CASE VmDies \/ MasterEnds
  BY <1>18 DEF VmDies, MasterEnds, Fault
<1>19. CASE ProxyEnds \/ TunnelEnds
  BY <1>19 DEF ProxyEnds, TunnelEnds, Fault, Forget
<1>20. CASE UNCHANGED vars
  BY <1>20 DEF vars
<1>. HIDE DEF HostInv, netVars, fwdVars, proxyVars, cmdVars, Shape, At, AgentSteps, Todo, Maps, CmdTypes, HostAssumption
<1>. QED BY <1>1, <1>2, <1>3, <1>4, <1>5, <1>6, <1>7, <1>8, <1>9, <1>10, <1>11, <1>12, <1>13, <1>14, <1>15, <1>16, <1>17, <1>18, <1>19, <1>20 DEF Next, UpOrStart, StopOrPurge

\* What is on or off.
Flags ==
  /\ ending \in [Slots -> BOOLEAN] /\ tunnel \in [Slots -> BOOLEAN]
  /\ fwdpid \in [Slots -> BOOLEAN] /\ torn \in BOOLEAN

LEMMA FlagsStep == ASSUME HostAssumption PROVE HostInv /\ Flags /\ [Next]_vars => Flags'
<1>. SUFFICES ASSUME HostInv, Flags, [Next]_vars PROVE Flags' OBVIOUS
<1>. USE DEF HostInv, netVars, fwdVars, proxyVars, cmdVars, Shape, At, AgentSteps, Flags, Slot
<1>1. CASE UpOrStart
  BY <1>1 DEF UpOrStart, Up, Start, Begin
<1>2. CASE StopOrPurge
  BY <1>2 DEF StopOrPurge, Stop, Purge, Begin
<1>3. CASE CheckPorts \/ EnsureBridge
  BY <1>3 DEF CheckPorts, EnsureBridge, Fails, Ends
<1>4. CASE AddToBridge \/ BridgeFails
  BY <1>4 DEF AddToBridge, BridgeFails, Fails, Ends, Fault
<1>5. CASE CreateTap \/ AttachTap \/ Boot \/ BootFails
  BY <1>5 DEF CreateTap, AttachTap, Boot, BootFails, Fails, Fault, Ends
<1>6. CASE SpawnForwards \/ ForwardsFail
  BY <1>6 DEF SpawnForwards, ForwardsFail, Refuses, Fails, Fault, Ends
<1>7. CASE StartAgent
  <2>1. CASE StopProviders({Slot}) /\ torn' = torn
    BY <2>1 DEF StopProviders
  <2>2. CASE /\ ending' = [ending EXCEPT ![Slot] = @ \/ (pid[Slot] # 0 /\ pid[Slot] = proxy[Slot])]
             /\ UNCHANGED <<tunnel, fwdpid, torn>>
    BY <2>2
  <2>. QED BY <1>7, <2>1, <2>2 DEF StartAgent
<1>8. CASE SpawnFails \/ AwaitReady
  BY <1>8 DEF SpawnFails, AwaitReady, Fails, Fault, Ends
<1>9. CASE RecordProxy \/ WriteToken
  BY <1>9 DEF RecordProxy, WriteToken, Fails, Ends, Fault
<1>10. CASE OpenTunnel \/ RecordTunnel
  BY <1>10 DEF OpenTunnel, RecordTunnel
<1>11. CASE TunnelUnrecorded \/ AgentDone
  BY <1>11 DEF TunnelUnrecorded, AgentDone, Fails, Fault, Ends, GoOn
<1>12. CASE AgentFails
  BY <1>12 DEF AgentFails, StopProviders, Fails, Fault, Ends
<1>13. CASE Unforward \/ Unproxy
  BY <1>13 DEF Unforward, Unproxy, CloseMaster, Refuses, StopProviders, Fault, Ends, GoOn
<1>14. CASE StopVm \/ StopFails \/ TearDownTap
  BY <1>14 DEF StopVm, StopFails, TearDownTap, Fault, Ends
<1>15. CASE TearDownBridge
  BY <1>15 DEF TearDownBridge, RemoveOfBridge, Fault, Ends, GoOn
<1>16. CASE Remove
  BY <1>16 DEF Remove, RmDir, Ends, GoOn
<1>17. CASE Kill
  BY <1>17 DEF Kill, Fault, Ends
<1>18. CASE VmDies \/ MasterEnds
  BY <1>18 DEF VmDies, MasterEnds, Fault
<1>19. CASE ProxyEnds \/ TunnelEnds
  BY <1>19 DEF ProxyEnds, TunnelEnds, Fault, Forget
<1>20. CASE UNCHANGED vars
  BY <1>20 DEF vars
<1>. HIDE DEF HostInv, netVars, fwdVars, proxyVars, cmdVars, Shape, At, AgentSteps, Flags, Slot
<1>. QED BY <1>1, <1>2, <1>3, <1>4, <1>5, <1>6, <1>7, <1>8, <1>9, <1>10, <1>11, <1>12, <1>13, <1>14, <1>15, <1>16, <1>17, <1>18, <1>19, <1>20 DEF Next, UpOrStart, StopOrPurge


\* The proxies, their tokens, and the processes nobody has on record.
Proxies ==
  /\ proxy \in [Slots -> Tokens \cup {0}] /\ pid \in [Slots -> Tokens \cup {0}]
  /\ token \in [Slots -> Tokens \cup {0}]
  /\ child \in Tokens \cup {0} /\ minted \in 0..MaxTokens
  /\ orphaned \subseteq {"proxy", "tunnel"} \X Slots

LEMMA ProxiesStep == ASSUME HostAssumption PROVE HostInv /\ TokensLeft /\ Proxies /\ [Next]_vars => Proxies'
<1>. SUFFICES ASSUME HostInv, TokensLeft, Proxies, [Next]_vars PROVE Proxies' OBVIOUS
<1>. USE DEF HostInv, netVars, fwdVars, proxyVars, cmdVars, Shape, At, AgentSteps, Proxies, Slot
<1>1. CASE UpOrStart
  BY <1>1 DEF UpOrStart, Up, Start, Begin
<1>2. CASE StopOrPurge
  BY <1>2 DEF StopOrPurge, Stop, Purge, Begin
<1>3. CASE CheckPorts \/ EnsureBridge
  BY <1>3 DEF CheckPorts, EnsureBridge, Fails, Ends
<1>4. CASE AddToBridge \/ BridgeFails
  BY <1>4 DEF AddToBridge, BridgeFails, Fails, Ends, Fault
<1>5. CASE CreateTap \/ AttachTap \/ Boot \/ BootFails
  BY <1>5 DEF CreateTap, AttachTap, Boot, BootFails, Fails, Fault, Ends
<1>6. CASE SpawnForwards \/ ForwardsFail
  BY <1>6 DEF SpawnForwards, ForwardsFail, Refuses, Fails, Fault, Ends
<1>7. CASE StartAgent
  <2>1. pc = "agent" /\ step \in 1..Len(Providers) /\ Slot \in Slots
    BY <1>7, SlotOfTarget DEF StartAgent
  <2>2. CASE StopProviders({Slot}) /\ child' = child
    BY <2>2 DEF StopProviders
  <2>3. CASE /\ Slot[2] \in wanted /\ minted' = minted + 1 /\ child' = minted + 1
             /\ pid' = [pid EXCEPT ![Slot] = 0] /\ UNCHANGED <<proxy, token, orphaned>>
    <3>1. Cardinality(Remaining(step)) = Cardinality(Remaining(step + 1)) + 1
          /\ Cardinality(Remaining(step + 1)) \in Nat
      BY <2>1, <2>3, RemainingFalls
    <3>2. minted + 1 \in 1..MaxTokens
      BY <2>1, <3>1 DEF TokensLeft, HostAssumption
    <3>3. minted' \in 0..MaxTokens /\ child' \in Tokens \cup {0}
      BY <2>3, <3>2 DEF Tokens
    <3>4. pid' \in [Slots -> Tokens \cup {0}]
      BY <2>3
    <3>. QED BY <2>3, <3>3, <3>4
  <2>. QED BY <1>7, <2>2, <2>3 DEF StartAgent
<1>8. CASE SpawnFails \/ AwaitReady
  BY <1>8 DEF SpawnFails, AwaitReady, Fails, Fault, Ends
<1>9. CASE RecordProxy \/ WriteToken
  BY <1>9 DEF RecordProxy, WriteToken, Fails, Ends, Fault
<1>10. CASE OpenTunnel \/ RecordTunnel
  BY <1>10 DEF OpenTunnel, RecordTunnel
<1>11. CASE TunnelUnrecorded \/ AgentDone
  BY <1>11 DEF TunnelUnrecorded, AgentDone, Fails, Fault, Ends, GoOn
<1>12. CASE AgentFails
  BY <1>12 DEF AgentFails, StopProviders, Fails, Fault, Ends
<1>13. CASE Unforward \/ Unproxy
  BY <1>13 DEF Unforward, Unproxy, CloseMaster, Refuses, StopProviders, Fault, Ends, GoOn
<1>14. CASE StopVm \/ StopFails \/ TearDownTap
  BY <1>14 DEF StopVm, StopFails, TearDownTap, Fault, Ends
<1>15. CASE TearDownBridge
  BY <1>15 DEF TearDownBridge, RemoveOfBridge, Fault, Ends, GoOn
<1>16. CASE Remove
  BY <1>16 DEF Remove, RmDir, Ends, GoOn
<1>17. CASE Kill
  <2>1. child' = 0 /\ UNCHANGED <<pid, token, minted>>
    BY <1>17 DEF Kill, Ends
  <2>2. proxy' = proxy \/ (pc = "ready" /\ proxy' = [proxy EXCEPT ![Slot] = child])
    BY <1>17 DEF Kill
  <2>3. \/ orphaned' = orphaned
        \/ pc \in AgentSteps /\ orphaned' = orphaned \cup {<<"proxy", Slot>>}
        \/ pc \in AgentSteps /\ orphaned' = orphaned \cup {<<"tunnel", Slot>>}
    BY <1>17 DEF Kill
  <2>4. pc \in AgentSteps => Slot \in Slots
    BY SlotOfTarget
  <2>5. orphaned' \subseteq {"proxy", "tunnel"} \X Slots
    BY <2>3, <2>4
  <2>6. proxy' \in [Slots -> Tokens \cup {0}]
    BY <2>2
  <2>. QED BY <2>1, <2>5, <2>6
<1>18. CASE VmDies \/ MasterEnds
  BY <1>18 DEF VmDies, MasterEnds, Fault
<1>19. CASE ProxyEnds \/ TunnelEnds
  BY <1>19 DEF ProxyEnds, TunnelEnds, Fault, Forget
<1>20. CASE UNCHANGED vars
  BY <1>20 DEF vars
<1>. HIDE DEF HostInv, netVars, fwdVars, proxyVars, cmdVars, Shape, At, AgentSteps, Proxies, Slot
<1>. QED BY <1>1, <1>2, <1>3, <1>4, <1>5, <1>6, <1>7, <1>8, <1>9, <1>10, <1>11, <1>12, <1>13, <1>14, <1>15, <1>16, <1>17, <1>18, <1>19, <1>20 DEF Next, UpOrStart, StopOrPurge

\* Nothing changes the count of what is to be started, or nothing is to be started.
LEMMA LeftFrame ==
  ASSUME TokensLeft,
         \/ pc' \notin Early \cup AgentSteps
         \/ /\ minted' = minted /\ wanted' = wanted
            /\ \/ pc \in Early /\ pc' \in Early
               \/ step' = step /\ pc' = pc
               \/ step' = step /\ {pc, pc'} \subseteq AgentSteps \ {"agent"}
  PROVE  TokensLeft'
<1>1. CASE pc' \notin Early \cup AgentSteps
  BY <1>1 DEF TokensLeft, AgentSteps
<1>2. CASE minted' = minted /\ wanted' = wanted /\ pc \in Early /\ pc' \in Early
  BY <1>2 DEF TokensLeft, Early, AgentSteps
<1>3. CASE minted' = minted /\ wanted' = wanted /\ step' = step
  <2>1. Remaining(step)' = Remaining(step) /\ Remaining(step + 1)' = Remaining(step + 1)
    BY <1>3 DEF Remaining
  <2>2. Cardinality(Remaining(step))' = Cardinality(Remaining(step))
        /\ Cardinality(Remaining(step + 1))' = Cardinality(Remaining(step + 1))
    BY <2>1
  <2>3. CASE pc' = pc
    BY <1>3, <2>2, <2>3 DEF TokensLeft
  <2>4. CASE {pc, pc'} \subseteq AgentSteps \ {"agent"}
    BY <1>3, <2>2, <2>4 DEF TokensLeft, Early, AgentSteps
  <2>5. CASE pc \in Early /\ pc' \in Early
    BY <1>2, <1>3, <2>5
  <2>6. CASE pc' \notin Early \cup AgentSteps
    BY <1>1, <2>6
  <2>. QED BY <2>3, <2>4, <2>5, <2>6
<1>. QED BY <1>1, <1>2, <1>3

\* There is a token for every proxy this command still starts.
LEMMA LeftStep ==
  ASSUME HostAssumption
  PROVE  HostInv /\ CmdTypes /\ TokensLeft /\ [Next]_vars => TokensLeft'
<1>. SUFFICES ASSUME HostInv, CmdTypes, TokensLeft, [Next]_vars PROVE TokensLeft' OBVIOUS
<1>. DEFINE Same == minted' = minted /\ wanted' = wanted
            Idle == pc' \notin Early \cup AgentSteps
            Stay == Same /\ step' = step /\ pc' = pc
            Move == Same /\ step' = step /\ {pc, pc'} \subseteq AgentSteps \ {"agent"}
<1>. USE DEF netVars, fwdVars, proxyVars, cmdVars, AgentSteps, Early
<1>1. CASE UpOrStart
  BY <1>1 DEF UpOrStart, Up, Start, Begin, TokensLeft
<1>2. CASE StopOrPurge
  <2>1. Idle
    BY <1>2 DEF StopOrPurge, Stop, Purge, Begin
  <2>. QED BY <2>1, LeftFrame
<1>3. CASE \/ CheckPorts \/ EnsureBridge \/ AddToBridge \/ BridgeFails \/ CreateTap
           \/ AttachTap \/ Boot \/ BootFails \/ ForwardsFail
  <2>1. Idle \/ (Same /\ pc \in Early /\ pc' \in Early)
    BY <1>3 DEF CheckPorts, EnsureBridge, AddToBridge, BridgeFails, CreateTap, AttachTap, Boot,
       BootFails, ForwardsFail, Fails, Ends
  <2>. QED BY <2>1, LeftFrame
<1>4. CASE SpawnForwards
  <2>1. pc = "forward" /\ pc' = "agent" /\ step' = 1 /\ Same
    BY <1>4 DEF SpawnForwards
  <2>2. Remaining(step)' = wanted
    BY <2>1 DEF Remaining, CmdTypes
  <2>3. Cardinality(Remaining(step))' = Cardinality(wanted)
    BY <2>2
  <2>. QED BY <2>1, <2>3 DEF TokensLeft
<1>5. CASE StartAgent
  <2>1. /\ pc = "agent" /\ step' = step /\ wanted' = wanted /\ step \in 1..Len(Providers)
        /\ pc' \in {"ready", "bootstrap"}
        /\ \/ minted' = minted
           \/ minted' = minted + 1 /\ Providers[step] \in wanted
    BY <1>5 DEF StartAgent, StopProviders, Slot, HostInv, At
  <2>2. Remaining(step + 1)' = Remaining(step + 1)
    BY <2>1 DEF Remaining
  <2>3. Cardinality(Remaining(step + 1))' = Cardinality(Remaining(step + 1))
    BY <2>2
  <2>4. /\ Cardinality(Remaining(step)) \in Nat /\ Cardinality(Remaining(step + 1)) \in Nat
        /\ Cardinality(Remaining(step + 1)) <= Cardinality(Remaining(step))
        /\ Providers[step] \in wanted =>
             Cardinality(Remaining(step)) = Cardinality(Remaining(step + 1)) + 1
    BY <2>1, RemainingFalls
  <2>5. minted \in Nat /\ MaxTokens \in Nat
    BY DEF HostInv, Minted, HostAssumption
  <2>. QED BY <2>1, <2>3, <2>4, <2>5 DEF TokensLeft
<1>6. CASE \/ SpawnFails \/ AwaitReady \/ RecordProxy \/ WriteToken \/ OpenTunnel
           \/ RecordTunnel \/ TunnelUnrecorded \/ AgentFails
  <2>1. Idle \/ Move
    BY <1>6 DEF SpawnFails, AwaitReady, RecordProxy, WriteToken, OpenTunnel, RecordTunnel,
       TunnelUnrecorded, AgentFails, Fails, Ends
  <2>. QED BY <2>1, LeftFrame
<1>7. CASE AgentDone
  <2>1. CASE step < Len(Providers)
    <3>1. pc = "bootstrap" /\ pc' = "agent" /\ step' = step + 1 /\ Same
      BY <1>7, <2>1 DEF AgentDone, GoOn
    <3>2. Remaining(step)' = Remaining(step + 1)
      BY <3>1 DEF Remaining
    <3>3. Cardinality(Remaining(step))' = Cardinality(Remaining(step + 1))
      BY <3>2
    <3>. QED BY <3>1, <3>3 DEF TokensLeft
  <2>2. CASE ~(step < Len(Providers))
    <3>1. Idle
      BY <1>7, <2>2 DEF AgentDone, Ends
    <3>. QED BY <3>1, LeftFrame
  <2>. QED BY <2>1, <2>2
<1>8. CASE \/ Unforward \/ Unproxy \/ StopVm \/ StopFails \/ TearDownTap \/ TearDownBridge
           \/ Remove \/ Kill
  <2>1. Idle
    BY <1>8 DEF Unforward, Unproxy, StopVm, StopFails, TearDownTap, TearDownBridge, Remove,
       Kill, Ends, GoOn
  <2>. QED BY <2>1, LeftFrame
<1>9. CASE VmDies \/ MasterEnds \/ ProxyEnds \/ TunnelEnds \/ UNCHANGED vars
  <2>1. Stay
    BY <1>9 DEF VmDies, MasterEnds, ProxyEnds, TunnelEnds, vars
  <2>. QED BY <2>1, LeftFrame
<1>. HIDE DEF netVars, fwdVars, proxyVars, cmdVars, AgentSteps, Early
<1>. QED BY <1>1, <1>2, <1>3, <1>4, <1>5, <1>6, <1>7, <1>8, <1>9 DEF Next, UpOrStart,
    StopOrPurge

HostTyped == Maps /\ CmdTypes /\ Flags /\ Proxies /\ RulesCounted /\ TokensLeft

LEMMA HostTypedStep == ASSUME HostAssumption PROVE HostInv /\ HostTyped /\ [Next]_vars => HostTyped'
  BY MapsStep, CmdStep, FlagsStep, ProxiesStep, CountStep, LeftStep DEF HostTyped

LEMMA HostTypedTypes == ASSUME HostAssumption PROVE HostInv /\ HostTyped => TypeOK
<1>. SUFFICES ASSUME HostInv, HostTyped PROVE TypeOK OBVIOUS
<1>1. rules \in [Rules -> 0..(MaxFaults + 1)]
  <2>1. \A r \in Rules : rules[r] \in 0..(MaxFaults + 1)
    BY DEF HostTyped, Maps, CmdTypes, RulesCounted, HostAssumption
  <2>. QED BY <2>1 DEF HostTyped, Maps
<1>. QED
  BY <1>1 DEF HostTyped, TypeOK, Maps, CmdTypes, Flags, Proxies, HostInv, At, AgentSteps, Todo

LEMMA HostTypedInit == ASSUME HostAssumption PROVE Init => HostTyped
BY TypedInit DEF HostTyped, TypeOK, Maps, CmdTypes, Flags, Proxies, RulesCounted, HostAssumption

\* Every variable keeps its type whatever commands run, fail or are killed: no more rules
\* for br0 are left in the packet filter than commands failed, and one.
THEOREM TypeCorrect == ASSUME HostAssumption PROVE Spec => []TypeOK
BY HostTypedInit, HostInit, HostStep, HostTypedStep, HostTypedTypes, PTL DEF Spec
=============================================================================
