---------------------------- MODULE NetworkGuard ----------------------------
(***************************************************************************)
(* The fail-closed egress guard of an agent guest (src/src/private_egress.rs). *)
(*                                                                         *)
(* Three programs share the guest's packet filter and policy routing:      *)
(*   - the early-boot guard, which runs once before the network is up;     *)
(*   - /usr/local/sbin/network-guard, a root shell script under `set -eu`  *)
(*     started at boot, by a timer every ten seconds and by                *)
(*     `systemctl restart`, and able to stop after any of its commands;    *)
(*   - one or more `coop` commands (`coop claude`, `coop codex`, ...) that *)
(*     install the scripts, restart the guard, verify the route and then   *)
(*     start an agent session, while other sessions are running.           *)
(* Each command of a script that changes what packets do is one step.      *)
(***************************************************************************)
EXTENDS Naturals, SequencesExt

CONSTANTS
  Coop,       \* the `coop` commands that may run at the same time
  Gateways,   \* the addresses the gateway VM may have
  None,       \* no gateway
  MaxFaults   \* bound on failed, killed and external events in one behaviour

ASSUME GuardAssumption ==
  /\ None \notin Gateways
  /\ MaxFaults \in Nat

VARIABLES
  vm,        \* "off", "early" (before network-pre.target) or "up"
  bootStep,  \* the command the early-boot guard runs next
  output,    \* filter table: the jumps of the OUTPUT chain, first rule first
  chain,     \* filter table: the rules of each user chain
  policy,    \* filter table: the policy of OUTPUT
  route,     \* default next hop of table 100, and the rule that selects it
  conf,      \* GATEWAY in /etc/network-guard.conf, None before the first lockdown
  enabled,   \* network-guard.service and .timer are enabled for the next boot
  timer,     \* network-guard.timer is active in this boot
  guard,     \* the running network-guard: next command and shell variables
  pc,        \* where each `coop` command is
  gw,        \* the gateway address each `coop` command works with
  gateway,   \* the address the gateway VM has
  flushed,   \* history: routes were lost and no run has restored them yet
  faults     \* events counted against MaxFaults

guestVars == <<vm, bootStep, output, chain, policy, route>>
coopVars  == <<pc, gw>>
confVars  == <<conf, enabled, timer>>
vars == <<vm, bootStep, output, chain, policy, route, conf, enabled, timer,
          guard, pc, gw, gateway, flushed, faults>>
-----------------------------------------------------------------------------
(* Packet filter *)

Egress == {"A", "B"}               \* COOP_EGRESS_A and COOP_EGRESS_B
Chains == Egress \cup {"BOOT"}     \* PRIVATE_EGRESS_BOOT

\* Mutant of EgressRules: the last two rules in the wrong order.
AcceptBeforeReject == <<"established", "dns", "accept", "reject">>

\* What the guard appends to a chain, in order: established connections, DNS
\* to the gateway, REJECT of the private ranges, ACCEPT of everything else.
EgressRules == <<"established", "dns", "reject", "accept">>
BootRules   == <<"established", "dhcp">>

Traffic == {"established", "dns", "private", "public"}

Matches(rule, t) ==
  \/ rule = "accept"
  \/ rule = t
  \/ rule = "reject" /\ t \in {"dns", "private"}

Decides(c, t) == \E k \in 1..Len(chain[c]) : Matches(chain[c][k], t)

Accepts(c, t) ==
  \E k \in 1..Len(chain[c]) :
    /\ Matches(chain[c][k], t)
    /\ chain[c][k] # "reject"
    /\ \A j \in 1..(k-1) : ~Matches(chain[c][j], t)

\* The packet filter lets locally generated traffic of class t out.
Passes(t) ==
  \/ \E i \in 1..Len(output) :
       /\ Accepts(output[i], t)
       /\ \A j \in 1..(i-1) : ~Decides(output[j], t)
  \/ policy = "ACCEPT" /\ \A i \in 1..Len(output) : ~Decides(output[i], t)

\* `ip -4 route get` of a public address answers with this next hop.
NextHop(r) == IF r.rule THEN r.default ELSE None
Routed(r) == NextHop(r) # None

\* `iptables -D OUTPUT -j c`: the first jump to c goes.
FirstJump(c) ==
  {i \in 1..Len(output) : output[i] = c /\ \A j \in 1..(i-1) : output[j] # c}
DeleteJump(c) == \E i \in FirstJump(c) : output' = RemoveAt(output, i)

NoChains == [c \in Chains |-> <<>>]
IdleGuard == [step |-> "idle", gw |-> None, active |-> "none", next |-> "A"]

Fault == faults < MaxFaults /\ faults' = faults + 1
-----------------------------------------------------------------------------
Rules == {"established", "dns", "dhcp", "reject", "accept"}

MachineTypeOK ==
  /\ vm \in {"off", "early", "up"}
  /\ bootStep \in {"idle", "fill", "insert", "policy"}
  /\ gateway \in Gateways
  /\ flushed \in BOOLEAN

FaultsTypeOK == faults \in 0..MaxFaults

FilterTypeOK ==
  /\ output \in Seq(Chains)
  /\ chain \in [Chains -> Seq(Rules)]
  /\ policy \in {"ACCEPT", "DROP"}
  /\ route \in [default : Gateways \cup {None}, rule : BOOLEAN]

GuardType ==
  [step : {"idle", "routes", "rule", "pick", "flush", "fill", "insert", "unjump",
           "empty", "delete", "unboot", "delboot", "policy"},
   gw : Gateways \cup {None},
   active : Egress \cup {"none"},
   next : Egress]

GuardTypeOK ==
  /\ conf \in Gateways \cup {None}
  /\ enabled \in BOOLEAN
  /\ timer \in BOOLEAN
  /\ guard \in GuardType

CoopTypeOK ==
  /\ pc \in [Coop -> {"idle", "lockdown", "enable", "restart", "wait",
                      "timer", "verify", "launch", "session"}]
  /\ gw \in [Coop -> Gateways \cup {None}]

TypeOK ==
  MachineTypeOK /\ FaultsTypeOK /\ FilterTypeOK /\ GuardTypeOK /\ CoopTypeOK

\* A new instance of the derivative image, which carries the boot guard.
Init ==
  /\ vm = "off"
  /\ bootStep = "idle"
  /\ output = <<>>
  /\ chain = NoChains
  /\ policy = "ACCEPT"
  /\ route = [default |-> None, rule |-> FALSE]
  /\ conf = None
  /\ enabled = FALSE
  /\ timer = FALSE
  /\ guard = IdleGuard
  /\ pc = [p \in Coop |-> "idle"]
  /\ gw = [p \in Coop |-> None]
  /\ gateway \in Gateways
  /\ flushed = FALSE
  /\ faults = 0
-----------------------------------------------------------------------------
(* Virtual machine and early-boot guard *)

PowerOn ==
  /\ vm = "off"
  /\ vm' = "early"
  /\ bootStep' = "fill"
  /\ UNCHANGED <<output, chain, policy, route, confVars, guard, coopVars, gateway,
                 flushed, faults>>

\* Rules, routes and processes are lost; files on the disk remain.
PowerOff ==
  /\ vm # "off"
  /\ Fault
  /\ vm' = "off"
  /\ bootStep' = "idle"
  /\ output' = <<>>
  /\ chain' = NoChains
  /\ policy' = "ACCEPT"
  /\ route' = [default |-> None, rule |-> FALSE]
  /\ guard' = IdleGuard
  /\ pc' = [p \in Coop |-> "idle"]
  /\ timer' = FALSE
  /\ flushed' = FALSE
  /\ UNCHANGED <<conf, enabled, gw, gateway>>

BootFill ==
  /\ bootStep = "fill"
  /\ chain' = [chain EXCEPT !["BOOT"] = BootRules]
  /\ bootStep' = "insert"
  /\ UNCHANGED <<vm, output, policy, route, confVars, guard, coopVars, gateway,
                 flushed, faults>>

BootInsert ==
  /\ bootStep = "insert"
  /\ output' = <<"BOOT">> \o output
  /\ bootStep' = "policy"
  /\ UNCHANGED <<vm, chain, policy, route, confVars, guard, coopVars, gateway,
                 flushed, faults>>

\* The boot goes on; an enabled timer starts.
BootDone ==
  /\ bootStep' = "idle"
  /\ vm' = "up"
  /\ timer' = enabled

BootPolicy ==
  /\ bootStep = "policy"
  /\ policy' = "DROP"
  /\ BootDone
  /\ UNCHANGED <<output, chain, route, conf, enabled, guard, coopVars, gateway,
                 flushed, faults>>

\* A command of the boot guard fails. The unit only orders itself before
\* network-pre.target, so the boot goes on with what was done.
BootFails ==
  /\ bootStep # "idle"
  /\ Fault
  /\ BootDone
  /\ UNCHANGED <<output, chain, policy, route, conf, enabled, guard, coopVars,
                 gateway, flushed>>
-----------------------------------------------------------------------------
(* The network-guard script *)

\* The enabled service at boot and the timer start a run; a run in progress
\* absorbs the request. The script sources the configuration first.
StartRun == [step |-> "routes", gw |-> conf, active |-> "none", next |-> "A"]

TimerFires ==
  /\ vm = "up"
  /\ timer
  /\ guard.step = "idle"
  /\ guard' = StartRun
  /\ UNCHANGED <<guestVars, confVars, coopVars, gateway, flushed, faults>>

SetRoutes ==
  /\ guard.step = "routes"
  /\ route' = [route EXCEPT !.default = guard.gw]
  /\ flushed' = (flushed /\ ~Routed(route'))
  /\ guard' = [guard EXCEPT !.step = "rule"]
  /\ UNCHANGED <<vm, bootStep, output, chain, policy, confVars, coopVars, gateway,
                 faults>>

\* Mutant of AddRule: `ip rule` is forgotten.
AddRuleForgotten ==
  /\ guard.step = "rule"
  /\ guard' = [guard EXCEPT !.step = "pick"]
  /\ UNCHANGED <<guestVars, confVars, coopVars, gateway, flushed, faults>>

AddRule ==
  /\ guard.step = "rule"
  /\ route' = [route EXCEPT !.rule = TRUE]
  /\ flushed' = (flushed /\ ~Routed(route'))
  /\ guard' = [guard EXCEPT !.step = "pick"]
  /\ UNCHANGED <<vm, bootStep, output, chain, policy, confVars, coopVars, gateway,
                 faults>>

\* ACTIVE is the first jump to an egress chain.
FirstEgress ==
  {output[i] : i \in {k \in 1..Len(output) :
                        /\ output[k] \in Egress
                        /\ \A j \in 1..(k-1) : output[j] \notin Egress}}

\* Mutant of PickNext: the chain in use is filled again.
PickActive ==
  /\ guard.step = "pick"
  /\ \E active \in (IF FirstEgress = {} THEN {"none"} ELSE FirstEgress) :
       guard' = [guard EXCEPT !.step = "flush", !.active = active,
                              !.next = IF active = "B" THEN "B" ELSE "A"]
  /\ UNCHANGED <<guestVars, confVars, coopVars, gateway, flushed, faults>>

PickNext ==
  /\ guard.step = "pick"
  /\ \E active \in (IF FirstEgress = {} THEN {"none"} ELSE FirstEgress) :
       guard' = [guard EXCEPT !.step = "flush", !.active = active,
                              !.next = IF active = "A" THEN "B" ELSE "A"]
  /\ UNCHANGED <<guestVars, confVars, coopVars, gateway, flushed, faults>>

FlushNext ==
  /\ guard.step = "flush"
  /\ chain' = [chain EXCEPT ![guard.next] = <<>>]
  /\ guard' = [guard EXCEPT !.step = "fill"]
  /\ UNCHANGED <<vm, bootStep, output, policy, route, confVars, coopVars, gateway,
                 flushed, faults>>

AppendRule ==
  /\ guard.step = "fill"
  /\ LET k == Len(chain[guard.next]) + 1 IN
       /\ k \in 1..Len(EgressRules)
       /\ chain' = [chain EXCEPT ![guard.next] = Append(@, EgressRules[k])]
       /\ guard' = [guard EXCEPT
                      !.step = IF k = Len(EgressRules) THEN "insert" ELSE "fill"]
  /\ UNCHANGED <<vm, bootStep, output, policy, route, confVars, coopVars, gateway,
                 flushed, faults>>

InsertJump ==
  /\ guard.step = "insert"
  /\ output' = <<guard.next>> \o output
  /\ guard' = [guard EXCEPT
                 !.step = IF guard.active = "none" THEN "unboot" ELSE "unjump"]
  /\ UNCHANGED <<vm, bootStep, chain, policy, route, confVars, coopVars, gateway,
                 flushed, faults>>

\* Mutant of UnjumpActive: one deletion in place of the loop.
UnjumpOnce ==
  /\ guard.step = "unjump"
  /\ guard' = [guard EXCEPT !.step = "empty"]
  /\ IF FirstJump(guard.active) # {}
       THEN DeleteJump(guard.active) ELSE UNCHANGED output
  /\ UNCHANGED <<vm, bootStep, chain, policy, route, confVars, coopVars, gateway,
                 flushed, faults>>

\* `while iptables -D OUTPUT -j $ACTIVE; do :; done`, one deletion at a time.
UnjumpActive ==
  /\ guard.step = "unjump"
  /\ IF FirstJump(guard.active) # {}
       THEN DeleteJump(guard.active) /\ UNCHANGED guard
       ELSE guard' = [guard EXCEPT !.step = "empty"] /\ UNCHANGED output
  /\ UNCHANGED <<vm, bootStep, chain, policy, route, confVars, coopVars, gateway,
                 flushed, faults>>

EmptyActive ==
  /\ guard.step = "empty"
  /\ chain' = [chain EXCEPT ![guard.active] = <<>>]
  /\ guard' = [guard EXCEPT !.step = "delete"]
  /\ UNCHANGED <<vm, bootStep, output, policy, route, confVars, coopVars, gateway,
                 flushed, faults>>

\* `iptables -X $ACTIVE` refuses a chain that is still the target of a jump.
DeleteActive ==
  /\ guard.step = "delete"
  /\ FirstJump(guard.active) = {}
  /\ guard' = [guard EXCEPT !.step = "unboot"]
  /\ UNCHANGED <<guestVars, confVars, coopVars, gateway, flushed, faults>>

UnjumpBoot ==
  /\ guard.step = "unboot"
  /\ IF FirstJump("BOOT") # {}
       THEN DeleteJump("BOOT") /\ UNCHANGED guard
       ELSE guard' = [guard EXCEPT !.step = "delboot"] /\ UNCHANGED output
  /\ UNCHANGED <<vm, bootStep, chain, policy, route, confVars, coopVars, gateway,
                 flushed, faults>>

\* -F and -X of the boot chain, whose failures the script ignores.
DeleteBoot ==
  /\ guard.step = "delboot"
  /\ chain' = [chain EXCEPT !["BOOT"] = <<>>]
  /\ guard' = [guard EXCEPT !.step = "policy"]
  /\ UNCHANGED <<vm, bootStep, output, policy, route, confVars, coopVars, gateway,
                 flushed, faults>>

\* The last command; the service manager answers every waiting restart.
SetPolicy ==
  /\ guard.step = "policy"
  /\ policy' = "DROP"
  /\ guard' = IdleGuard
  /\ pc' = [p \in Coop |-> IF pc[p] = "wait" THEN "timer" ELSE pc[p]]
  /\ UNCHANGED <<vm, bootStep, output, chain, route, confVars, gw, gateway, flushed,
                 faults>>

\* Mutant of RunStops: the result of the restart is ignored.
RunStopsUnnoticed ==
  /\ guard' = IdleGuard
  /\ pc' = [p \in Coop |-> IF pc[p] = "wait" THEN "timer" ELSE pc[p]]
  /\ UNCHANGED <<guestVars, confVars, gw, gateway, flushed>>

\* A command fails or the run is killed: `set -e` stops the script there.
RunStops ==
  /\ guard' = IdleGuard
  /\ pc' = [p \in Coop |-> IF pc[p] = "wait" THEN "idle" ELSE pc[p]]
  /\ UNCHANGED <<guestVars, confVars, gw, gateway, flushed>>

GuardDies ==
  /\ guard.step # "idle"
  /\ Fault
  /\ RunStops

\* -X failed because a jump is left: not a fault of its own.
DeleteActiveRefused ==
  /\ guard.step = "delete"
  /\ FirstJump(guard.active) # {}
  /\ RunStops
  /\ UNCHANGED faults

\* A deletion loop also ends when the deletion itself fails.
LoopGivesUp ==
  /\ guard.step \in {"unjump", "unboot"}
  /\ Fault
  /\ guard' = [guard EXCEPT
                 !.step = IF guard.step = "unjump" THEN "empty" ELSE "delboot"]
  /\ UNCHANGED <<guestVars, confVars, coopVars, gateway, flushed>>

GuardStep ==
  \/ SetRoutes \/ AddRule \/ PickNext \/ FlushNext \/ AppendRule \/ InsertJump
  \/ UnjumpActive \/ EmptyActive \/ DeleteActive \/ DeleteActiveRefused
  \/ UnjumpBoot \/ DeleteBoot \/ SetPolicy
-----------------------------------------------------------------------------
(* `coop` commands: configure_agent_guest, then the session *)

Configure(p) ==
  /\ pc[p] = "idle"
  /\ vm = "up"
  /\ gw' = [gw EXCEPT ![p] = gateway]
  /\ pc' = [pc EXCEPT ![p] = "lockdown"]
  /\ UNCHANGED <<guestVars, confVars, guard, gateway, flushed, faults>>

\* Mutant of WriteConf: the configuration is not written.
WriteNoConf(p) ==
  /\ pc[p] = "lockdown"
  /\ pc' = [pc EXCEPT ![p] = "enable"]
  /\ UNCHANGED <<guestVars, confVars, guard, gw, gateway, flushed, faults>>

WriteConf(p) ==
  /\ pc[p] = "lockdown"
  /\ conf' = gw[p]
  /\ pc' = [pc EXCEPT ![p] = "enable"]
  /\ UNCHANGED <<guestVars, enabled, timer, guard, gw, gateway, flushed, faults>>

\* The script and its units are written and enabled.
EnableUnits(p) ==
  /\ pc[p] = "enable"
  /\ enabled' = TRUE
  /\ pc' = [pc EXCEPT ![p] = "restart"]
  /\ UNCHANGED <<guestVars, conf, timer, guard, gw, gateway, flushed, faults>>

\* A restart kills the run in progress and starts the script again; the
\* commands already waiting for that run get the result of the new one.
RestartGuard(p) ==
  /\ pc[p] = "restart"
  /\ IF guard.step = "idle" THEN UNCHANGED faults ELSE Fault
  /\ guard' = StartRun
  /\ pc' = [pc EXCEPT ![p] = "wait"]
  /\ UNCHANGED <<guestVars, confVars, gw, gateway, flushed>>

StartTimer(p) ==
  /\ pc[p] = "timer"
  /\ timer' = TRUE
  /\ pc' = [pc EXCEPT ![p] = "verify"]
  /\ UNCHANGED <<guestVars, conf, enabled, guard, gw, gateway, flushed, faults>>

\* The route is the gateway's, and the exit check gets through it.
RouteVerified(p) ==
  /\ NextHop(route) = gw[p]
  /\ Passes("public")
  /\ gateway = gw[p]

VerifyRoute(p) ==
  /\ pc[p] = "verify"
  /\ pc' = [pc EXCEPT ![p] = IF RouteVerified(p) THEN "launch" ELSE "idle"]
  /\ UNCHANGED <<guestVars, confVars, guard, gw, gateway, flushed, faults>>

StartSession(p) ==
  /\ pc[p] = "launch"
  /\ pc' = [pc EXCEPT ![p] = "session"]
  /\ UNCHANGED <<guestVars, confVars, guard, gw, gateway, flushed, faults>>

\* The session ends, or the command is interrupted anywhere before it.
Leave(p) ==
  /\ pc[p] # "idle"
  /\ pc' = [pc EXCEPT ![p] = "idle"]
  /\ UNCHANGED <<guestVars, confVars, guard, gw, gateway, flushed, faults>>

CoopStep(p) ==
  \/ Configure(p) \/ WriteConf(p) \/ EnableUnits(p) \/ RestartGuard(p)
  \/ StartTimer(p) \/ VerifyRoute(p) \/ StartSession(p) \/ Leave(p)
-----------------------------------------------------------------------------
(* The guest's network manager and the gateway VM *)

\* Reconfiguring the interface drops foreign routes, rules or both, also
\* between two commands of the guard.
LoseRoutes ==
  /\ vm = "up"
  /\ Fault
  /\ \E d \in {route.default, None}, r \in {route.rule, FALSE} :
       route' = [default |-> d, rule |-> r]
  /\ route' # route
  /\ flushed' = TRUE
  /\ UNCHANGED <<vm, bootStep, output, chain, policy, confVars, guard, coopVars,
                 gateway>>

GatewayMoves ==
  /\ Fault
  /\ gateway' \in Gateways \ {gateway}
  /\ UNCHANGED <<guestVars, confVars, guard, coopVars, flushed>>

Next ==
  \/ PowerOn \/ PowerOff
  \/ BootFill \/ BootInsert \/ BootPolicy \/ BootFails
  \/ TimerFires \/ GuardStep \/ GuardDies \/ LoopGivesUp
  \/ \E p \in Coop : CoopStep(p)
  \/ LoseRoutes \/ GatewayMoves

Spec == Init /\ [][Next]_vars

\* The timer stays enabled and a script that is not stopped goes on.
Fairness ==
  /\ WF_vars(TimerFires)
  /\ WF_vars(GuardStep)

FairSpec == Spec /\ Fairness
-----------------------------------------------------------------------------
(* Properties *)

Locked == policy = "DROP"

\* From the boot guard's or the guard's last command on, whatever run of the
\* guard is killed and wherever, new traffic to a public address leaves only
\* through the gateway. The one exception is the time between the guest losing
\* its routes and the run that restores them.
NoDirectEgress == Locked /\ Passes("public") => Routed(route) \/ flushed

\* The same without the exception ("DHCP routes in the normal table cannot
\* become a fallback"): table 100 has no unreachable default behind its route.
NoFallback == Locked /\ Passes("public") => Routed(route)

\* Once locked, at no step of the swap of the two chains can new traffic reach
\* a private range (the host, its LAN, other instances).
PrivateStaysClosed == Locked => ~Passes("private")

\* A session runs only in a guest that was locked in this boot and whose timer
\* reasserts the lock: a restart that failed, or that another command killed,
\* never leads to a session. (IInv contains it, PolicyKept implies most of it.)
SessionsLocked ==
  \A p \in Coop : pc[p] = "session" => Locked /\ timer /\ conf # None

\* The swap takes nothing away, in no state, be a reassertion failed or killed half
\* way: packets of established connections pass, so neither SSH nor a session is
\* cut, and the first egress chain in OUTPUT, whenever there is one, is complete,
\* so DNS and public traffic go on.
SwapNeverCuts ==
  Passes("established") /\ \A c \in FirstEgress : chain[c] = EgressRules

\* What the packet filter makes of new public traffic.
Exit ==
  CASE ~Locked -> "open"
    [] Locked /\ Passes("public") -> "guarded"
    [] OTHER -> "closed"

\* The guard with everything that may interrupt it, and the commands beside it,
\* implement the egress policy: one command of a script at a time, they never
\* unlock a guest or take its way out away, open that way only behind routes that
\* were set, replace lost routes by a gateway's only, and begin a session only
\* where the way out is open and the timer watches it.
Policy == INSTANCE EgressPolicy WITH
  Commands <- Coop,
  exit <- Exit,
  hop <- NextHop(route),
  lost <- flushed,
  watched <- timer,
  sessions <- {p \in Coop : pc[p] = "session"}
PolicyKept == Policy!Spec

Converged ==
  /\ guard.step = "idle"
  /\ output \in {<<"A">>, <<"B">>}
  /\ chain[output[1]] = EgressRules
  /\ \A c \in Chains \ {output[1]} : chain[c] = <<>>
  /\ Locked
  /\ route = [default |-> conf, rule |-> TRUE]

\* However many runs were stopped and whatever jumps they left, the timer
\* brings the guest to one complete chain, no boot chain and the configured
\* route, unless it is switched off.
GuardConverges == [](timer => <>(Converged \/ vm = "off"))

\* Routes lost under a running timer are restored by a later run.
RoutesRestored == flushed /\ timer ~> ~flushed
-----------------------------------------------------------------------------
(* Inductive invariant (proved in NetworkGuardProofs) *)

\* An egress chain is always a beginning of the rules the script appends, and
\* the boot chain accepts nothing but what the boot guard put there.
ChainsInOrder ==
  /\ \A c \in Egress :
       /\ Len(chain[c]) <= Len(EgressRules)
       /\ \A k \in 1..Len(chain[c]) : chain[c][k] = EgressRules[k]
  /\ \A k \in 1..Len(chain["BOOT"]) : chain["BOOT"][k] \in {"established", "dhcp"}

\* An accepting chain exists only behind routes that were set, or lost later.
AcceptBehindRoutes ==
  \A c \in Egress : Len(chain[c]) = Len(EgressRules) => Routed(route) \/ flushed

\* Where the running script is tells what it has already set.
GuardProgress ==
  /\ guard.step # "idle" => guard.gw # None
  /\ guard.step = "rule" => route.default # None \/ flushed
  /\ guard.step \notin {"idle", "routes", "rule"} => Routed(route) \/ flushed

\* Where a command is tells what has been done for it.
CoopProgress ==
  \A p \in Coop :
    /\ pc[p] # "idle" => gw[p] # None /\ vm = "up"
    /\ pc[p] \in {"enable", "restart"} => conf # None
    /\ pc[p] \in {"timer", "verify", "launch", "session"} => Locked /\ conf # None
    /\ pc[p] \in {"verify", "launch", "session"} => timer

\* The boot guard runs before anything else does.
BootFirst == bootStep # "idle" => vm = "early"

\* What is enabled or active has a configuration to read.
TimerConfigured ==
  /\ enabled \/ timer => conf # None
  /\ guard.step # "idle" => conf # None

IInv ==
  /\ TypeOK
  /\ ChainsInOrder
  /\ AcceptBehindRoutes
  /\ GuardProgress
  /\ CoopProgress
  /\ TimerConfigured
  /\ BootFirst
\* The chain that decides first is whole, and the running script rebuilds only
\* the other one: it is filled before its jump goes in front, and that jump
\* stays there while those of the old chain are deleted.
SwapProgress ==
  /\ \A c \in FirstEgress : chain[c] = EgressRules
  /\ guard.step \in {"flush", "fill"} => guard.next \notin FirstEgress
  /\ guard.step \in {"flush", "fill", "insert", "unjump", "empty"} =>
       guard.next # guard.active
  /\ guard.step = "insert" => chain[guard.next] = EgressRules
  /\ guard.step \in {"unjump", "empty"} =>
       FirstEgress = {guard.next} /\ guard.active \in Egress
  /\ guard.step \in {"delete", "unboot", "delboot", "policy"} => FirstEgress # {}

\* The timer runs in a machine that is up, a command past its restart left a way
\* out, and what is lost is not routed.
PolicyInv ==
  /\ vm # "up" => ~timer
  /\ flushed => ~Routed(route)
  /\ \A p \in Coop :
       pc[p] \in {"timer", "verify", "launch", "session"} => FirstEgress # {}

BootJump == \E i \in 1..Len(output) : output[i] = "BOOT"

\* The boot chain is whole or empty, and where OUTPUT drops by policy, an
\* egress chain has taken over before it goes.
BootHandsOver ==
  /\ chain["BOOT"] \in {<<>>, BootRules}
  /\ bootStep = "insert" => chain["BOOT"] = BootRules
  /\ bootStep = "policy" => chain["BOOT"] = BootRules /\ BootJump
  /\ Locked => FirstEgress # {} \/ (chain["BOOT"] = BootRules /\ BootJump)
  /\ guard.step # "idle" => vm = "up"

SwapInv == SwapProgress /\ BootHandsOver
=============================================================================
