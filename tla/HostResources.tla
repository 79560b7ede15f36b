---------------------------- MODULE HostResources ----------------------------
(***************************************************************************)
(* What running instances hold on the host, besides their directory: the   *)
(* bridge with its addresses and packet filter rules, shared by all, a tap *)
(* device each, the ssh master that forwards ports, and per provider a     *)
(* credential proxy with a reverse tunnel (src/src/network.rs,             *)
(* port_forward.rs, proxy.rs; FirecrackerBackend in backend.rs; up, start, *)
(* stop and destroy in commands/lifecycle.rs).                             *)
(*                                                                         *)
(* One `coop` command runs at a time.  It may fail or be killed after any  *)
(* step; VMs, proxies and tunnels end on their own.  A process is told by  *)
(* the capability token it was given, so a token is used once.             *)
(***************************************************************************)
EXTENDS Naturals, Sequences, FiniteSets

CONSTANTS
  Vms,        \* instances; the index of each gives it ports of its own
  Providers,  \* proxied upstreams, in the order their agents are set up
  Persisting, \* the providers whose token is kept in a file
  HostPorts,  \* host ports that may be forwarded
  MaxTokens,  \* bound on proxies spawned in one behaviour
  MaxFaults   \* bound on failures and kills

HostAssumption ==
  /\ Providers \in Seq(STRING) /\ Providers # <<>>
  /\ \A j, k \in 1..Len(Providers) : Providers[j] = Providers[k] => j = k
  /\ Persisting \subseteq {Providers[k] : k \in 1..Len(Providers)}
  /\ MaxTokens \in Nat /\ MaxFaults \in Nat

Slots == Vms \X {Providers[k] : k \in 1..Len(Providers)}
Tokens == 1..MaxTokens
LinkSteps == <<"link", "addr", "up", "nat", "out", "back">>
Rules == {"nat", "out", "back"}

VARIABLES
  \* the network
  bridge,   \* what br0 has: the link itself, its address, being up
  rules,    \* how often each rule for br0 is in the packet filter
  tap,      \* each tap device: none, loose, on the bridge, or up on it
  \* the instances
  vm,       \* absent, off or on
  saved,    \* the forwards in forwards.json
  master,   \* the ports bound by the ssh master with the control socket
  stray,    \* the ports bound by masters that have lost it
  proxy,    \* the token of the proxy that listens on a slot's port, or 0
  ending,   \* whether that proxy has been signalled
  pid,      \* the token of the process in the proxy's PID file, or 0
  tunnel,   \* whether a reverse tunnel is up
  fwdpid,   \* whether its PID file names it
  token,    \* the token in the slot's token file, or 0
  \* the command
  pc, verb, target,
  todo,     \* instances still to be destroyed
  asked,    \* forwards of this start
  wanted,   \* providers with an effective upstream
  step,     \* position in LinkSteps or Providers
  child,    \* the token of a spawned proxy that is not yet recorded, or 0
  \* history
  torn,     \* a run of ensure_bridge or teardown_bridge has not finished
  orphaned, \* processes a killed command left without a PID file
  refused,  \* instances with a master that did not exit when told and has not ended
  minted, faults

netVars   == <<bridge, rules, tap, torn>>
fwdVars   == <<saved, master, stray, refused>>
proxyVars == <<proxy, ending, pid, tunnel, fwdpid, token, orphaned, minted>>
cmdVars   == <<verb, target, todo, asked, wanted>>
vars == <<netVars, vm, fwdVars, proxyVars, cmdVars, pc, step, child, faults>>
-----------------------------------------------------------------------------
TypeOK ==
  /\ bridge \subseteq {"link", "addr", "up"}
  /\ rules \in [Rules -> 0..(MaxFaults + 1)]
  /\ tap \in [Vms -> {"none", "loose", "attached", "up"}]
  /\ vm \in [Vms -> {"absent", "off", "on"}]
  /\ {saved, master, stray} \subseteq [Vms -> SUBSET HostPorts]
  /\ {proxy, pid, token} \subseteq [Slots -> Tokens \cup {0}]
  /\ {ending, tunnel, fwdpid} \subseteq [Slots -> BOOLEAN]
  /\ pc \in {"idle", "ports", "bridge", "bridging", "tap", "attach", "boot", "forward",
             "agent", "ready", "record", "token", "tunnel", "tunnelpid", "bootstrap",
             "halt", "unforward", "unproxy", "stopvm", "untap", "unbridge", "remove", "shared"}
  /\ verb \in {"none", "up", "start", "stop", "destroy", "purge"}
  /\ target \in Vms \cup {"none"} /\ todo \subseteq Vms \ {target}
  /\ asked \subseteq HostPorts
  /\ wanted \subseteq {Providers[k] : k \in 1..Len(Providers)}
  /\ step \in (0..6) \cup (1..Len(Providers)) /\ child \in Tokens \cup {0}
  /\ torn \in BOOLEAN /\ refused \subseteq Vms /\ orphaned \subseteq {"proxy", "tunnel"} \X Slots
  /\ minted \in 0..MaxTokens /\ faults \in 0..MaxFaults

Init ==
  /\ bridge = {} /\ rules = [r \in Rules |-> 0] /\ tap = [v \in Vms |-> "none"]
  /\ vm = [v \in Vms |-> "absent"]
  /\ saved = [v \in Vms |-> {}] /\ master = [v \in Vms |-> {}]
  /\ stray = [v \in Vms |-> {}]
  /\ proxy = [s \in Slots |-> 0] /\ pid = [s \in Slots |-> 0]
  /\ token = [s \in Slots |-> 0]
  /\ ending = [s \in Slots |-> FALSE] /\ tunnel = [s \in Slots |-> FALSE]
  /\ fwdpid = [s \in Slots |-> FALSE]
  /\ pc = "idle" /\ verb = "none" /\ target = "none" /\ todo = {}
  /\ asked = {} /\ wanted = {} /\ step = 0 /\ child = 0
  /\ torn = FALSE /\ orphaned = {} /\ refused = {} /\ minted = 0 /\ faults = 0

Fault == faults < MaxFaults /\ faults' = faults + 1

Ends ==
  /\ pc' = "idle" /\ verb' = "none" /\ asked' = {} /\ wanted' = {} /\ todo' = {}
  /\ child' = 0 /\ step' = 0 /\ target' = "none"

\* `coop up` undoes what it created, in the way `coop destroy` does; the other
\* commands leave what they have done.
Fails ==
  IF verb = "up" THEN pc' = "unforward" /\ child' = 0 /\ step' = 0 /\ UNCHANGED cmdVars
                 ELSE Ends

GoOn(p, k) == pc' = p /\ step' = k /\ UNCHANGED <<child, cmdVars>>
-----------------------------------------------------------------------------
(* network.rs *)

OnBridge == {v \in Vms : tap[v] \in {"attached", "up"}}

\* ensure_bridge believes an existing bridge to be complete.
EnsureBridge ==
  /\ pc = "bridge"
  /\ pc' = IF "link" \in bridge THEN "tap" ELSE "bridging"
  /\ torn' = (torn /\ "link" \in bridge)
  /\ step' = 1
  /\ UNCHANGED <<bridge, rules, tap, vm, fwdVars, proxyVars, cmdVars, child, faults>>

\* The next command of ensure_bridge: the link, its address, link up, then NAT
\* and the two forward rules.
AddToBridge ==
  /\ pc = "bridging"
  /\ LET s == LinkSteps[step] IN
       IF s \in Rules
         THEN rules' = [rules EXCEPT ![s] = @ + 1] /\ UNCHANGED bridge
         ELSE bridge' = bridge \cup {s} /\ UNCHANGED rules
  /\ IF step < Len(LinkSteps)
       THEN step' = step + 1 /\ UNCHANGED pc
       ELSE step' = 0 /\ pc' = "tap"
  /\ UNCHANGED <<tap, torn, vm, fwdVars, proxyVars, cmdVars, child, faults>>

\* A command of ensure_bridge fails; what the earlier ones did stays.
BridgeFails ==
  /\ pc = "bridging" /\ Fault
  /\ torn' = (torn \/ step > 1)
  /\ Fails
  /\ UNCHANGED <<bridge, rules, tap, vm, fwdVars, proxyVars>>

\* setup_tap: a leftover device is replaced.
CreateTap ==
  /\ pc = "tap"
  /\ tap' = [tap EXCEPT ![target] = "loose"]
  /\ pc' = "attach"
  /\ UNCHANGED <<bridge, rules, torn, vm, fwdVars, proxyVars, cmdVars, step, child, faults>>

AttachTap ==
  /\ pc = "attach"
  /\ "link" \in bridge
  /\ tap' = [tap EXCEPT ![target] = IF @ = "loose" THEN "attached" ELSE "up"]
  /\ pc' = IF tap[target] = "loose" THEN "attach" ELSE "boot"
  /\ UNCHANGED <<bridge, rules, torn, vm, fwdVars, proxyVars, cmdVars, step, child, faults>>

\* Mutant of TearDownTap: the bridge goes with the tap, whoever is on it.
TearDownTapAndBridge ==
  /\ pc = "untap"
  /\ tap' = [tap EXCEPT ![target] = "none"]
  /\ pc' = IF "link" \in bridge THEN "unbridge" ELSE "remove"
  /\ step' = 1
  /\ UNCHANGED <<bridge, rules, torn, vm, fwdVars, proxyVars, cmdVars, child, faults>>

\* teardown_tap: the bridge goes with the last tap on it.
TearDownTap ==
  /\ pc = "untap"
  /\ tap' = [tap EXCEPT ![target] = "none"]
  /\ pc' = IF "link" \in bridge /\ OnBridge \ {target} = {} THEN "unbridge" ELSE "remove"
  /\ step' = 1
  /\ UNCHANGED <<bridge, rules, torn, vm, fwdVars, proxyVars, cmdVars, child, faults>>

\* teardown_bridge: NAT, the two forward rules, then the link; a command that
\* fails is logged and passed over.
RemoveOfBridge(ok) ==
  LET s == <<"nat", "out", "back", "link">>[step] IN
  /\ rules' = IF ok /\ s \in Rules /\ rules[s] > 0
              THEN [rules EXCEPT ![s] = @ - 1] ELSE rules
  /\ bridge' = IF ok /\ s = "link" THEN {} ELSE bridge
  /\ tap' = IF ok /\ s = "link"
            THEN [v \in Vms |-> IF tap[v] \in {"attached", "up"} THEN "loose" ELSE tap[v]]
            ELSE tap

TearDownBridge ==
  /\ pc \in {"unbridge", "shared"}
  /\ \/ RemoveOfBridge(TRUE) /\ UNCHANGED <<torn, faults>>
     \/ RemoveOfBridge(FALSE) /\ torn' = TRUE /\ Fault
  /\ IF step < 4 THEN GoOn(pc, step + 1)
     ELSE IF pc = "shared" THEN Ends ELSE GoOn("remove", 0)
  /\ UNCHANGED <<vm, fwdVars, proxyVars>>
-----------------------------------------------------------------------------
(* port_forward.rs *)

Bound == UNION {master[v] \cup stray[v] : v \in Vms}

\* check_host_port_collisions, before anything is created.
CheckPorts ==
  /\ pc = "ports"
  /\ \/ asked \cap Bound = {} /\ pc' = "bridge" /\ UNCHANGED <<step, child, cmdVars>>
     \/ asked \cap Bound # {} /\ Fails
  /\ UNCHANGED <<netVars, vm, fwdVars, proxyVars, faults>>

\* A master that does not exit when told keeps its ports without its socket.
Refuses(v) ==
  /\ master[v] # {} /\ refused' = refused \cup {v}
  /\ stray' = [stray EXCEPT ![v] = @ \cup master[v]]

\* Mutant of CloseMaster: the socket is removed first.
CloseSocket(v) ==
  /\ master' = [master EXCEPT ![v] = {}]
  /\ stray' = [stray EXCEPT ![v] = @ \cup master[v]] /\ UNCHANGED <<refused, faults>>

\* teardown_ssh_forwards: tell the master to exit, remove its socket either way.
CloseMaster(v) ==
  /\ master' = [master EXCEPT ![v] = {}]
  /\ \/ UNCHANGED <<stray, refused, faults>>
     \/ Fault /\ Refuses(v)

\* forwards.json is written, a leftover master is told to exit, and ssh -f
\* binds all ports or none.
SpawnForwards ==
  /\ pc = "forward"
  /\ saved' = [saved EXCEPT ![target] = asked]
  /\ \/ asked = {} /\ UNCHANGED <<master, stray, refused, faults>>
     \/ /\ asked # {} /\ asked \cap (Bound \ master[target]) = {}
        /\ master' = [master EXCEPT ![target] = asked]
        /\ \/ UNCHANGED <<stray, refused, faults>>
           \/ asked \cap master[target] = {} /\ Fault /\ Refuses(target)
  /\ pc' = "agent" /\ step' = 1
  /\ UNCHANGED <<netVars, vm, proxyVars, cmdVars, child>>

\* A port was taken since it was probed, ssh fails, or the leftover master stays.
ForwardsFail ==
  /\ pc = "forward" /\ asked # {} /\ Fault
  /\ saved' = [saved EXCEPT ![target] = asked]
  /\ master' = [master EXCEPT ![target] = {}]
  /\ UNCHANGED <<stray, refused>> \/ Refuses(target)
  /\ Fails
  /\ UNCHANGED <<netVars, vm, proxyVars>>

\* The masters of a VM that has gone notice after their keep-alives.
MasterEnds ==
  /\ \E v \in Vms :
       /\ vm[v] # "on" /\ master[v] \cup stray[v] # {}
       /\ master' = [master EXCEPT ![v] = {}]
       /\ stray' = [stray EXCEPT ![v] = {}] /\ refused' = refused \ {v}
  /\ UNCHANGED <<netVars, vm, saved, proxyVars, cmdVars, pc, step, child, faults>>
-----------------------------------------------------------------------------
(* proxy.rs *)

Slot == <<target, Providers[step]>>
Forget(kind, S) == orphaned \ ({kind} \X S)

\* Mutant of StopProviders: the PID file goes, the process stays.
ForgetProviders(S) ==
  /\ pid' = [s \in Slots |-> IF s \in S THEN 0 ELSE pid[s]]
  /\ fwdpid' = [s \in Slots |-> fwdpid[s] /\ s \notin S]
  /\ token' = [s \in Slots |-> IF s \in S THEN 0 ELSE token[s]]
  /\ UNCHANGED <<proxy, ending, tunnel, orphaned, minted>>

\* stop_provider: SIGTERM to the recorded processes, then the files go.  A
\* signalled proxy still holds its port until it has ended.
StopProviders(S) ==
  LET named == {s \in S : pid[s] # 0 /\ pid[s] = proxy[s]} IN
  /\ ending' = [s \in Slots |-> ending[s] \/ s \in named]
  /\ pid' = [s \in Slots |-> IF s \in S THEN 0 ELSE pid[s]]
  /\ tunnel' = [s \in Slots |-> tunnel[s] /\ ~(s \in S /\ fwdpid[s])]
  /\ fwdpid' = [s \in Slots |-> fwdpid[s] /\ s \notin S]
  /\ token' = [s \in Slots |-> IF s \in S THEN 0 ELSE token[s]]
  /\ UNCHANGED <<proxy, orphaned, minted>>

\* start_agent_proxy: without an upstream a proxy of an earlier boot is stopped;
\* with one its credential is resolved and spawn_proxy signals what is left.
StartAgent ==
  /\ pc = "agent"
  /\ IF Slot[2] \notin wanted
       THEN StopProviders({Slot}) /\ pc' = "bootstrap" /\ UNCHANGED child
       ELSE /\ minted' = minted + 1 /\ child' = minted + 1
            /\ ending' = [ending EXCEPT ![Slot] = @ \/ (pid[Slot] # 0 /\ pid[Slot] = proxy[Slot])]
            /\ pid' = [pid EXCEPT ![Slot] = 0]
            /\ pc' = "ready"
            /\ UNCHANGED <<proxy, tunnel, fwdpid, token, orphaned>>
  /\ UNCHANGED <<netVars, vm, fwdVars, cmdVars, step, faults>>

\* The credential cannot be resolved, or the proxy cannot be started; a token
\* file of an earlier boot stays.
SpawnFails ==
  /\ pc \in {"agent", "ready"} /\ Slot[2] \in wanted /\ Fault
  /\ Fails
  /\ UNCHANGED <<netVars, vm, fwdVars, proxyVars>>

\* await_proxy_ready connects to the port: the child listens, or another process
\* holds the port, the child ends and is either noticed or not.
AwaitReady ==
  /\ pc = "ready"
  /\ \/ /\ proxy[Slot] = 0
        /\ proxy' = [proxy EXCEPT ![Slot] = child]
        /\ pc' = "record" /\ UNCHANGED <<child, step, cmdVars>>
     \/ /\ proxy[Slot] # 0
        /\ UNCHANGED proxy
        /\ \/ pc' = "record" /\ UNCHANGED <<child, step, cmdVars>>
           \/ Fails
  /\ UNCHANGED <<netVars, vm, fwdVars, ending, pid, tunnel, fwdpid, token, orphaned, minted,
                 faults>>

\* Mutant of RecordProxy: a child that cannot be recorded is left running.
RecordProxyOrLeave ==
  /\ pc = "record"
  /\ \/ /\ pid' = [pid EXCEPT ![Slot] = child]
        /\ pc' = "token" /\ child' = 0
        /\ UNCHANGED <<step, cmdVars, faults>>
     \/ Fault /\ Fails /\ UNCHANGED pid
  /\ UNCHANGED <<netVars, vm, fwdVars, proxy, ending, tunnel, fwdpid, token, orphaned, minted>>

\* spawn_proxy writes the PID file, or kills the child when it cannot.
RecordProxy ==
  /\ pc = "record"
  /\ \/ /\ pid' = [pid EXCEPT ![Slot] = child]
        /\ pc' = "token" /\ child' = 0
        /\ UNCHANGED <<proxy, step, cmdVars, faults>>
     \/ /\ Fault /\ Fails
        /\ proxy' = [proxy EXCEPT ![Slot] = IF @ = child THEN 0 ELSE @]
        /\ UNCHANGED pid
  /\ UNCHANGED <<netVars, vm, fwdVars, ending, tunnel, fwdpid, token, orphaned, minted>>

\* write_token_file, for the providers whose sessions read it.
WriteToken ==
  /\ pc = "token"
  /\ token' = IF Slot[2] \in Persisting THEN [token EXCEPT ![Slot] = pid[Slot]] ELSE token
  /\ pc' = "tunnel"
  /\ UNCHANGED <<netVars, vm, fwdVars, proxy, ending, pid, tunnel, fwdpid, orphaned, minted,
                 cmdVars, step, child, faults>>

\* spawn_reverse_forward: a tunnel of an earlier boot goes, the new one stands
\* unless another still holds the port in the guest.
OpenTunnel ==
  /\ pc = "tunnel"
  /\ \/ fwdpid[Slot] \/ ~tunnel[Slot]
  /\ tunnel' = [tunnel EXCEPT ![Slot] = TRUE]
  /\ fwdpid' = [fwdpid EXCEPT ![Slot] = FALSE]
  /\ pc' = "tunnelpid"
  /\ UNCHANGED <<netVars, vm, fwdVars, proxy, ending, pid, token, orphaned, minted, cmdVars,
                 step, child, faults>>

RecordTunnel ==
  /\ pc = "tunnelpid"
  /\ fwdpid' = [fwdpid EXCEPT ![Slot] = TRUE]
  /\ pc' = "bootstrap"
  /\ UNCHANGED <<netVars, vm, fwdVars, proxy, ending, pid, tunnel, token, orphaned, minted,
                 cmdVars, step, child, faults>>

\* What start_provider and bootstrap_claude or bootstrap_codex do when a step
\* after spawn_proxy fails: the proxy goes again.
AgentFails ==
  /\ \/ pc = "token" /\ Slot[2] \in Persisting /\ Fault
     \/ pc = "tunnel" /\ Fault
     \/ pc = "tunnel" /\ tunnel[Slot] /\ ~fwdpid[Slot] /\ UNCHANGED faults
     \/ pc = "bootstrap" /\ Fault
  /\ IF pc = "bootstrap" /\ Slot[2] \notin wanted
       THEN UNCHANGED proxyVars
       ELSE StopProviders({Slot})
  /\ Fails
  /\ UNCHANGED <<netVars, vm, fwdVars>>

\* The PID file of the tunnel cannot be written: it is killed, the proxy stopped.
TunnelUnrecorded ==
  /\ pc = "tunnelpid" /\ Fault
  /\ ending' = [ending EXCEPT ![Slot] = @ \/ pid[Slot] = proxy[Slot]]
  /\ pid' = [pid EXCEPT ![Slot] = 0] /\ token' = [token EXCEPT ![Slot] = 0]
  /\ tunnel' = [tunnel EXCEPT ![Slot] = FALSE]
  /\ Fails
  /\ UNCHANGED <<netVars, vm, fwdVars, proxy, fwdpid, orphaned, minted>>

\* The rest of the bootstrap of an agent; then the next one, or the command ends.
AgentDone ==
  /\ pc = "bootstrap"
  /\ IF step < Len(Providers)
       THEN GoOn("agent", step + 1)
       ELSE Ends
  /\ UNCHANGED <<netVars, vm, fwdVars, proxyVars, faults>>
-----------------------------------------------------------------------------
(* The commands *)

Begin(v, n, p) ==
  /\ pc = "idle" /\ verb' = v /\ target' = n /\ pc' = p /\ step' = 0
  /\ UNCHANGED child

\* `coop up` of a new instance: its directory is there from now on.
Up(v, P, W) ==
  /\ vm[v] = "absent"
  /\ Begin("up", v, "ports")
  /\ vm' = [vm EXCEPT ![v] = "off"]
  /\ minted + Cardinality(W) <= MaxTokens
  /\ asked' = P /\ wanted' = W /\ UNCHANGED todo
  /\ UNCHANGED <<netVars, fwdVars, proxyVars, faults>>

\* restart_instance: the saved forwards and those of the command line.
Start(v, P, W) ==
  /\ vm[v] = "off"
  /\ Begin("start", v, "ports")
  /\ minted + Cardinality(W) <= MaxTokens
  /\ asked' = P \cup saved[v] /\ wanted' = W /\ UNCHANGED todo
  /\ UNCHANGED <<netVars, vm, fwdVars, proxyVars, faults>>

\* cmd_stop and cmd_destroy.
Stop(v) ==
  /\ vm[v] # "absent"
  /\ \/ Begin("stop", v, "unforward")
     \/ Begin("destroy", v, "unforward")
  /\ UNCHANGED <<netVars, vm, fwdVars, proxyVars, asked, wanted, todo, faults>>

\* purge_all_data goes through the instances, then removes what they share.
Purge(v) ==
  /\ vm[v] # "absent"
  /\ Begin("purge", v, "unforward")
  /\ todo' = {n \in Vms : vm[n] # "absent"} \ {v}
  /\ UNCHANGED <<netVars, vm, fwdVars, proxyVars, asked, wanted, faults>>

\* The VMM runs and the guest answers.
Boot ==
  /\ pc = "boot"
  /\ vm' = [vm EXCEPT ![target] = "on"]
  /\ pc' = "forward"
  /\ UNCHANGED <<netVars, fwdVars, proxyVars, cmdVars, step, child, faults>>

\* A command of setup_tap fails, or the boot, or a step before the forwards.
BootFails ==
  /\ pc \in {"tap", "attach", "boot", "forward"} /\ Fault
  /\ Fails
  /\ UNCHANGED <<netVars, vm, fwdVars, proxyVars>>

Unforward ==
  /\ pc = "unforward"
  /\ CloseMaster(target)
  /\ pc' = IF verb = "stop" /\ vm[target] = "on" THEN "stopvm" ELSE "unproxy"
  /\ UNCHANGED <<netVars, vm, saved, proxyVars, cmdVars, step, child>>

\* proxy::stop, for every provider.
Unproxy ==
  /\ pc = "unproxy"
  /\ StopProviders({s \in Slots : s[1] = target})
  /\ IF verb = "stop" THEN Ends ELSE GoOn("stopvm", 0)
  /\ UNCHANGED <<netVars, vm, fwdVars, faults>>

StopVm ==
  /\ pc = "stopvm"
  /\ vm' = [vm EXCEPT ![target] = "off"]
  /\ pc' = IF verb = "stop" THEN "unproxy" ELSE "untap"
  /\ UNCHANGED <<netVars, fwdVars, proxyVars, cmdVars, step, child, faults>>

\* vm.stop or the deletion of the tap fails: destroy ends there, and so does
\* stop, before it has come to the proxies.
StopFails ==
  /\ pc \in {"stopvm", "untap"} /\ Fault
  /\ Ends
  /\ UNCHANGED <<netVars, vm, fwdVars, proxyVars>>

RmDir(v) ==
  /\ vm' = [vm EXCEPT ![v] = "absent"]
  /\ saved' = [saved EXCEPT ![v] = {}]
  /\ pid' = [s \in Slots |-> IF s[1] = v THEN 0 ELSE pid[s]]
  /\ fwdpid' = [s \in Slots |-> fwdpid[s] /\ s[1] # v]
  /\ token' = [s \in Slots |-> IF s[1] = v THEN 0 ELSE token[s]]
  /\ UNCHANGED <<netVars, master, stray, refused, proxy, ending, tunnel, orphaned, minted, faults>>

\* Mutant of Remove: the list of instances keeps the one that is destroyed next.
RemoveFromAll ==
  /\ pc = "remove"
  /\ RmDir(target)
  /\ IF todo # {}
       THEN /\ target' \in todo
            /\ pc' = "unforward" /\ UNCHANGED <<todo, step, verb, asked, wanted, child>>
       ELSE IF verb = "purge" THEN GoOn("shared", 1) ELSE Ends

\* rm -rf of the directory, with the files in it.
Remove ==
  /\ pc = "remove"
  /\ RmDir(target)
  /\ IF todo # {}
       THEN /\ \E v \in todo : target' = v /\ todo' = todo \ {v}
            /\ pc' = "unforward" /\ UNCHANGED <<step, verb, asked, wanted, child>>
       ELSE IF verb = "purge" THEN GoOn("shared", 1) ELSE Ends

\* The command is killed.  A child that was not recorded lives on.
Kill ==
  /\ pc # "idle" /\ Fault
  /\ Ends
  /\ torn' = (torn \/ (pc \in {"bridging", "unbridge", "shared"} /\ step > 1))
  /\ proxy' = IF pc = "ready" /\ proxy[Slot] = 0 THEN [proxy EXCEPT ![Slot] = child] ELSE proxy
  /\ orphaned' = CASE pc = "ready" /\ proxy[Slot] = 0        -> orphaned \cup {<<"proxy", Slot>>}
                   [] pc = "record" /\ proxy[Slot] = child -> orphaned \cup {<<"proxy", Slot>>}
                   [] pc = "tunnelpid"                     -> orphaned \cup {<<"tunnel", Slot>>}
                   [] OTHER                                -> orphaned
  /\ UNCHANGED <<bridge, rules, tap, vm, fwdVars, ending, pid, tunnel, fwdpid, token, minted>>
-----------------------------------------------------------------------------
(* What ends on its own *)

VmDies ==
  /\ \E v \in Vms : vm[v] = "on" /\ vm' = [vm EXCEPT ![v] = "off"]
  /\ Fault
  /\ UNCHANGED <<netVars, fwdVars, proxyVars, cmdVars, pc, step, child>>

\* A signalled proxy ends, or one crashes.
ProxyEnds ==
  /\ \E s \in Slots :
       /\ proxy[s] # 0
       /\ \/ ending[s] /\ UNCHANGED faults
          \/ ~ending[s] /\ Fault
       /\ proxy' = [proxy EXCEPT ![s] = 0] /\ ending' = [ending EXCEPT ![s] = FALSE]
       /\ orphaned' = Forget("proxy", {s})
  /\ UNCHANGED <<netVars, vm, fwdVars, pid, tunnel, fwdpid, token, minted, cmdVars, pc, step,
                 child>>

\* The tunnel of a VM that has gone.
TunnelEnds ==
  /\ \E s \in Slots :
       /\ tunnel[s] /\ vm[s[1]] # "on"
       /\ tunnel' = [tunnel EXCEPT ![s] = FALSE]
       /\ orphaned' = Forget("tunnel", {s})
  /\ UNCHANGED <<netVars, vm, fwdVars, proxy, ending, pid, fwdpid, token, minted, cmdVars, pc,
                 step, child, faults>>

Next ==
  \/ \E v \in Vms, P \in SUBSET HostPorts, W \in SUBSET {Providers[k] : k \in 1..Len(Providers)} :
       Up(v, P, W) \/ Start(v, P, W)
  \/ \E v \in Vms : Stop(v) \/ Purge(v)
  \/ CheckPorts \/ EnsureBridge \/ AddToBridge \/ BridgeFails \/ CreateTap \/ AttachTap
  \/ Boot \/ BootFails \/ SpawnForwards \/ ForwardsFail
  \/ StartAgent \/ SpawnFails \/ AwaitReady \/ RecordProxy \/ WriteToken \/ OpenTunnel
  \/ RecordTunnel \/ TunnelUnrecorded \/ AgentFails \/ AgentDone
  \/ Unforward \/ Unproxy \/ StopVm \/ StopFails \/ TearDownTap \/ TearDownBridge \/ Remove
  \/ Kill \/ VmDies \/ MasterEnds \/ ProxyEnds \/ TunnelEnds

Spec == Init /\ [][Next]_vars
-----------------------------------------------------------------------------
\* A running VM is on a bridge with its address and all rules: no command for
\* another instance takes the network away from it.  (setup_tap is called before
\* the boot only; teardown_tap must see who else is on the bridge.)  Not while an
\* interrupted ensure_bridge or teardown_bridge has left a part of the bridge.
RunningIsConnected ==
  \A v \in Vms : vm[v] = "on" =>
    /\ tap[v] = "up"
    /\ torn \/ (bridge = {"link", "addr", "up"} /\ \A r \in Rules : rules[r] > 0)

\* A process that holds a credential, and a tunnel to one, can be found: a PID
\* file names it, or the command that has just started it still has it in hand,
\* or that command was killed then.
CredentialsTracked ==
  \A s \in Slots :
    /\ proxy[s] # 0 /\ ~ending[s] =>
         \/ pid[s] = proxy[s] \/ <<"proxy", s>> \in orphaned
         \/ pc = "record" /\ Slot = s /\ child = proxy[s]
    /\ tunnel[s] =>
         \/ fwdpid[s] \/ <<"tunnel", s>> \in orphaned
         \/ pc = "tunnelpid" /\ Slot = s

\* Of a destroyed instance nothing is left but a proxy that is ending, a process a
\* killed command lost sight of, and the ports of a master that did not exit when
\* told, until its keep-alives end it; its index and ports go to the next instance.
DestroyedLeavesNothing ==
  \A v \in Vms : vm[v] = "absent" /\ pc = "idle" =>
    /\ tap[v] = "none" /\ master[v] = {} /\ (stray[v] = {} \/ v \in refused)
    /\ \A s \in Slots : s[1] = v =>
         /\ token[s] = 0 /\ pid[s] = 0 /\ ~fwdpid[s]
         /\ proxy[s] = 0 \/ ending[s] \/ <<"proxy", s>> \in orphaned
         /\ tunnel[s] => <<"tunnel", s>> \in orphaned
=============================================================================
