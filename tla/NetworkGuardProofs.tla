------------------------- MODULE NetworkGuardProofs -------------------------
(***************************************************************************)
(* NetworkGuard, proved for every number of commands, set of gateway       *)
(* addresses and number of faults: the inductive invariant IInv, the       *)
(* safety properties that follow from it, and that the guard implements    *)
(* the egress policy.                                                      *)
(***************************************************************************)
EXTENDS NetworkGuard, SequenceTheorems, WellFoundedInduction, TLAPS

\* Removing one element of a sequence leaves a sequence over the same set.
LEMMA RemoveAtType ==
  ASSUME NEW S, NEW s \in Seq(S), NEW i \in 1..Len(s)
  PROVE  RemoveAt(s, i) \in Seq(S)
  BY DEF RemoveAt

\* Deleting a jump leaves OUTPUT a sequence of jumps to the same chains.
LEMMA DeleteJumpType ==
  ASSUME NEW c, output \in Seq(Chains), DeleteJump(c)
  PROVE  output' \in Seq(Chains)
  BY RemoveAtType DEF DeleteJump, FirstJump

\* The script of an egress chain has four rules, all of them known.
LEMMA EgressRulesType ==
  /\ EgressRules \in Seq(Rules)
  /\ Len(EgressRules) = 4
  /\ EgressRules[3] = "reject"
  /\ EgressRules[4] = "accept"
  /\ \A k \in 1..4 : EgressRules[k] \in Rules
  BY DEF EgressRules, Rules

\* The boot guard's chain is made of rules of its own.
LEMMA BootRulesType ==
  /\ BootRules \in Seq(Rules)
  /\ \A k \in 1..Len(BootRules) : BootRules[k] \in {"established", "dhcp"}
  BY DEF BootRules, Rules
-----------------------------------------------------------------------------
\* Every step keeps the types: the machine's variables.
LEMMA MachineTypeStep == TypeOK /\ [Next]_vars => MachineTypeOK'
<1> SUFFICES ASSUME MachineTypeOK, [Next]_vars PROVE MachineTypeOK'
  BY DEF TypeOK
<1> USE DEF MachineTypeOK
<1>1. CASE PowerOn \/ PowerOff \/ BootFill \/ BootInsert \/ BootPolicy \/ BootFails
  BY <1>1 DEF PowerOn, PowerOff, BootFill, BootInsert, BootPolicy,
     BootFails, BootDone
<1>2. CASE GuardStep
  BY <1>2 DEF GuardStep, SetRoutes, AddRule,
     PickNext, FlushNext, AppendRule, InsertJump, UnjumpActive, EmptyActive,
     DeleteActive, DeleteActiveRefused, UnjumpBoot, DeleteBoot, SetPolicy,
     RunStops, guestVars, coopVars
<1>3. CASE TimerFires \/ GuardDies \/ LoopGivesUp
  BY <1>3 DEF TimerFires, GuardDies, LoopGivesUp, RunStops, guestVars, coopVars
<1>4. ASSUME NEW p \in Coop, CoopStep(p) PROVE MachineTypeOK'
  BY <1>4 DEF CoopStep, Configure, WriteConf, EnableUnits, RestartGuard,
     StartTimer, VerifyRoute, StartSession, Leave, guestVars
<1>5. CASE LoseRoutes \/ GatewayMoves
  BY <1>5 DEF LoseRoutes, GatewayMoves, guestVars
<1>6. CASE UNCHANGED vars
  BY <1>6 DEF vars
<1>. QED
  BY <1>1, <1>2, <1>3, <1>4, <1>5, <1>6 DEF Next

\* The fault counter stays within its bound.
LEMMA FaultsTypeStep == TypeOK /\ [Next]_vars => FaultsTypeOK'
<1> SUFFICES ASSUME FaultsTypeOK, [Next]_vars PROVE FaultsTypeOK'
  BY DEF TypeOK
<1>1. ASSUME Fault PROVE FaultsTypeOK'
  BY <1>1, GuardAssumption DEF Fault, FaultsTypeOK
<1>2. ASSUME UNCHANGED faults PROVE FaultsTypeOK'
  BY <1>2 DEF FaultsTypeOK
<1>3. CASE Next
  <2>1. CASE GuardStep
    BY <1>2, <2>1 DEF GuardStep, SetRoutes, AddRule, PickNext, FlushNext,
       AppendRule, InsertJump, UnjumpActive, EmptyActive, DeleteActive,
       DeleteActiveRefused, UnjumpBoot, DeleteBoot, SetPolicy
  <2>2. ASSUME NEW p \in Coop, CoopStep(p) PROVE FaultsTypeOK'
    BY <1>1, <1>2, <2>2 DEF CoopStep, Configure, WriteConf, EnableUnits,
       RestartGuard, StartTimer, VerifyRoute, StartSession, Leave
  <2>. QED
    BY <1>1, <1>2, <1>3, <2>1, <2>2 DEF Next, PowerOn, PowerOff, BootFill,
       BootInsert, BootPolicy, BootFails, TimerFires, GuardDies, LoopGivesUp,
       LoseRoutes, GatewayMoves
<1>. QED
  BY <1>2, <1>3 DEF vars

\* Every step keeps the types of the packet filter and the routes.
LEMMA FilterTypeStep == TypeOK /\ [Next]_vars => FilterTypeOK'
<1> SUFFICES ASSUME FilterTypeOK, GuardTypeOK, [Next]_vars PROVE FilterTypeOK'
  BY DEF TypeOK
<1>0. /\ "BOOT" \in Chains
      /\ Egress \subseteq Chains
      /\ \A c \in Egress : c # "none"
      /\ NoChains \in [Chains -> Seq(Rules)]
      /\ <<>> \in Seq(Chains) /\ <<>> \in Seq(Rules)
  BY DEF Chains, Egress, NoChains
<1> USE DEF FilterTypeOK
<1>1. CASE PowerOn \/ BootPolicy \/ BootFails
  BY <1>1 DEF PowerOn, BootPolicy, BootFails
<1>2. CASE PowerOff
  BY <1>0, <1>2 DEF PowerOff
<1>3. CASE BootFill
  BY <1>0, <1>3, BootRulesType DEF BootFill
<1>4. CASE BootInsert
  BY <1>0, <1>4 DEF BootInsert
<1>5. CASE TimerFires \/ GuardDies \/ LoopGivesUp
  BY <1>5 DEF TimerFires, GuardDies, RunStops, LoopGivesUp, guestVars
<1>6. CASE GuardStep
  <2>0. guard.gw \in Gateways \cup {None} /\ guard.next \in Egress
    BY DEF GuardTypeOK, GuardType
  <2>1. CASE SetRoutes
    BY <2>0, <2>1 DEF SetRoutes
  <2>2. CASE AddRule
    BY <2>2 DEF AddRule
  <2>3. CASE PickNext \/ DeleteActive \/ DeleteActiveRefused
    BY <2>3 DEF PickNext, DeleteActive, DeleteActiveRefused, RunStops, guestVars
  <2>4. CASE FlushNext
    BY <1>0, <2>0, <2>4 DEF FlushNext
  <2>5. CASE AppendRule
    <3>1. PICK k \in 1..4 :
            chain' = [chain EXCEPT ![guard.next] = Append(@, EgressRules[k])]
      BY <2>5, EgressRulesType DEF AppendRule
    <3>2. EgressRules[k] \in Rules
      BY <3>1, EgressRulesType
    <3>3. UNCHANGED <<output, policy, route>>
      BY <2>5 DEF AppendRule
    <3>. QED
      BY <1>0, <2>0, <3>1, <3>2, <3>3
  <2>6. CASE InsertJump
    BY <1>0, <2>0, <2>6 DEF InsertJump
  <2>7. CASE UnjumpActive
    BY <2>7, DeleteJumpType DEF UnjumpActive
  <2>8. CASE EmptyActive
    BY <1>0, <2>8 DEF EmptyActive
  <2>9. CASE UnjumpBoot
    BY <2>9, DeleteJumpType DEF UnjumpBoot
  <2>10. CASE DeleteBoot
    BY <1>0, <2>10 DEF DeleteBoot
  <2>11. CASE SetPolicy
    BY <2>11 DEF SetPolicy
  <2>. QED
    BY <1>6, <2>1, <2>2, <2>3, <2>4, <2>5, <2>6, <2>7, <2>8, <2>9, <2>10,
       <2>11 DEF GuardStep
<1>7. ASSUME NEW p \in Coop, CoopStep(p) PROVE FilterTypeOK'
  BY <1>7 DEF CoopStep, Configure, WriteConf, EnableUnits, RestartGuard,
     StartTimer, VerifyRoute, StartSession, Leave, guestVars
<1>8. CASE LoseRoutes
  <2>1. PICK d \in {route.default, None}, r \in {route.rule, FALSE} :
          route' = [default |-> d, rule |-> r]
    BY <1>8 DEF LoseRoutes
  <2>2. d \in Gateways \cup {None} /\ r \in BOOLEAN
    BY <2>1
  <2>3. route' \in [default : Gateways \cup {None}, rule : BOOLEAN]
    BY <2>1, <2>2
  <2>. QED
    BY <1>8, <2>3 DEF LoseRoutes
<1>9. CASE GatewayMoves
  BY <1>9 DEF GatewayMoves, guestVars
<1>10. CASE UNCHANGED vars
  BY <1>10 DEF vars
<1>. QED
  BY <1>1, <1>2, <1>3, <1>4, <1>5, <1>6, <1>7, <1>8, <1>9, <1>10 DEF Next

\* Every step keeps the types of the configuration and the running script.
LEMMA GuardTypeStep == TypeOK /\ [Next]_vars => GuardTypeOK'
<1> SUFFICES ASSUME GuardTypeOK, CoopTypeOK, FilterTypeOK, [Next]_vars
             PROVE  GuardTypeOK'
  BY DEF TypeOK
<1> USE DEF GuardTypeOK
<1>0. ASSUME guard' \in {IdleGuard, StartRun, guard}
      PROVE  guard' \in GuardType
  <2>1. IdleGuard.next \in Egress /\ StartRun.next \in Egress
    BY DEF IdleGuard, StartRun, Egress
  <2>. QED
    BY <1>0, <2>1 DEF IdleGuard, StartRun, GuardType
<1>1. ASSUME UNCHANGED conf, enabled' \in BOOLEAN, timer' \in BOOLEAN,
             guard' \in {IdleGuard, StartRun, guard}
      PROVE  GuardTypeOK'
  BY <1>0, <1>1
<1>2. CASE PowerOn \/ PowerOff \/ BootFill \/ BootInsert \/ BootPolicy \/ BootFails
  BY <1>1, <1>2 DEF PowerOn, PowerOff, BootFill, BootInsert, BootPolicy, BootFails,
     BootDone, confVars
<1>3. CASE TimerFires \/ GuardDies \/ DeleteActiveRefused \/ SetPolicy
  BY <1>1, <1>3 DEF TimerFires, GuardDies, DeleteActiveRefused, RunStops, SetPolicy,
     confVars
<1>4. CASE LoopGivesUp
  BY <1>4 DEF LoopGivesUp, GuardType, confVars
<1>5. CASE PickNext
  <2>1. FirstEgress \subseteq Egress
    BY DEF FirstEgress
  <2>. QED
    BY <1>5, <2>1 DEF PickNext, Egress, GuardType, confVars
<1>6. CASE SetRoutes \/ AddRule \/ FlushNext \/ AppendRule \/ InsertJump
           \/ UnjumpActive \/ EmptyActive \/ DeleteActive \/ UnjumpBoot \/ DeleteBoot
  BY <1>6 DEF SetRoutes, AddRule, FlushNext, AppendRule, InsertJump, UnjumpActive,
     EmptyActive, DeleteActive, UnjumpBoot, DeleteBoot, GuardType, confVars
<1>7. ASSUME NEW p \in Coop, CoopStep(p) PROVE GuardTypeOK'
  <2>1. CASE WriteConf(p)
    BY <2>1 DEF WriteConf, CoopTypeOK
  <2>2. CASE EnableUnits(p) \/ RestartGuard(p) \/ StartTimer(p)
    BY <1>1, <2>2 DEF EnableUnits, RestartGuard, StartTimer, confVars
  <2>. QED
    BY <1>7, <2>1, <2>2 DEF CoopStep, Configure, VerifyRoute, StartSession, Leave,
       confVars
<1>8. CASE LoseRoutes \/ GatewayMoves
  BY <1>8 DEF LoseRoutes, GatewayMoves, confVars
<1>9. CASE UNCHANGED vars
  BY <1>9 DEF vars
<1>. QED
  BY <1>2, <1>3, <1>4, <1>5, <1>6, <1>7, <1>8, <1>9 DEF Next, GuardStep

\* Every step keeps the types of the commands' variables.
LEMMA CoopTypeStep == TypeOK /\ [Next]_vars => CoopTypeOK'
<1> SUFFICES ASSUME CoopTypeOK, MachineTypeOK, [Next]_vars PROVE CoopTypeOK'
  BY DEF TypeOK
<1> USE DEF CoopTypeOK
<1>1. CASE PowerOn \/ PowerOff \/ BootFill \/ BootInsert \/ BootPolicy \/ BootFails
  BY <1>1 DEF PowerOn, PowerOff, BootFill, BootInsert, BootPolicy, BootFails, coopVars
<1>2. CASE TimerFires \/ GuardDies \/ LoopGivesUp
  BY <1>2 DEF TimerFires, GuardDies, RunStops, LoopGivesUp, coopVars
<1>3. CASE SetPolicy \/ DeleteActiveRefused
  BY <1>3 DEF SetPolicy, DeleteActiveRefused, RunStops
<1>4. CASE SetRoutes \/ AddRule \/ PickNext \/ FlushNext \/ AppendRule \/ InsertJump
           \/ UnjumpActive \/ EmptyActive \/ DeleteActive \/ UnjumpBoot \/ DeleteBoot
  BY <1>4 DEF SetRoutes, AddRule, PickNext, FlushNext, AppendRule, InsertJump,
     UnjumpActive, EmptyActive, DeleteActive, UnjumpBoot, DeleteBoot, coopVars
<1>5. ASSUME NEW p \in Coop, CoopStep(p) PROVE CoopTypeOK'
  BY <1>5 DEF CoopStep, Configure, WriteConf, EnableUnits, RestartGuard,
     StartTimer, VerifyRoute, StartSession, Leave, MachineTypeOK
<1>6. CASE LoseRoutes \/ GatewayMoves
  BY <1>6 DEF LoseRoutes, GatewayMoves, coopVars
<1>7. CASE UNCHANGED vars
  BY <1>7 DEF vars
<1>. QED
  BY <1>1, <1>2, <1>3, <1>4, <1>5, <1>6, <1>7 DEF Next, GuardStep

\* The type invariant is inductive.
LEMMA TypeStep == TypeOK /\ [Next]_vars => TypeOK'
  BY MachineTypeStep, FaultsTypeStep, FilterTypeStep, GuardTypeStep, CoopTypeStep
  DEF TypeOK
-----------------------------------------------------------------------------
\* Routes that were set stay set, or are marked as lost, until the machine is
\* switched off.
LEMMA RoutesStep ==
  ASSUME TypeOK, GuardProgress, [Next]_vars, ~PowerOff, Routed(route) \/ flushed
  PROVE  Routed(route') \/ flushed'
<1> USE DEF Routed, NextHop
<1>1. CASE SetRoutes
  <2>1. route'.default # None /\ route'.rule = route.rule
    BY <1>1 DEF SetRoutes, GuardProgress, TypeOK, FilterTypeOK
  <2>. QED
    BY <1>1, <2>1 DEF SetRoutes
<1>2. CASE AddRule
  <2>1. route'.default = route.default /\ route'.rule
    BY <1>2 DEF AddRule, TypeOK, FilterTypeOK
  <2>. QED
    BY <1>2, <2>1 DEF AddRule
<1>3. CASE LoseRoutes
  BY <1>3 DEF LoseRoutes
<1>4. CASE UNCHANGED <<route, flushed>>
  BY <1>4
<1>5. ASSUME NEW p \in Coop, CoopStep(p) PROVE UNCHANGED <<route, flushed>>
  BY <1>5 DEF CoopStep, Configure, WriteConf, EnableUnits, RestartGuard,
     StartTimer, VerifyRoute, StartSession, Leave, guestVars
<1>6. ASSUME GuardStep, ~SetRoutes, ~AddRule PROVE UNCHANGED <<route, flushed>>
  BY <1>6 DEF GuardStep, PickNext, FlushNext, AppendRule, InsertJump,
     UnjumpActive, EmptyActive, DeleteActive, DeleteActiveRefused, RunStops,
     UnjumpBoot, DeleteBoot, SetPolicy, guestVars
<1>7. ASSUME Next, ~GuardStep, ~LoseRoutes, ~(\E p \in Coop : CoopStep(p))
      PROVE  UNCHANGED <<route, flushed>>
  BY <1>7 DEF Next, PowerOn, BootFill, BootInsert, BootPolicy, BootFails,
     TimerFires, GuardDies, RunStops, LoopGivesUp, GatewayMoves, guestVars
<1>. QED
  BY <1>1, <1>2, <1>3, <1>4, <1>5, <1>6, <1>7 DEF vars

\* The running script has a gateway, and has set the routes before it goes on.
LEMMA GuardProgressStep == IInv /\ [Next]_vars => GuardProgress'
<1> SUFFICES ASSUME TypeOK, GuardProgress, CoopProgress, TimerConfigured,
                    [Next]_vars
             PROVE  GuardProgress'
  BY DEF IInv
<1>1. CASE guard' = IdleGuard
  BY <1>1 DEF GuardProgress, IdleGuard
<1>2. ASSUME guard' = StartRun, conf # None PROVE GuardProgress'
  BY <1>2 DEF GuardProgress, StartRun
<1>3. CASE SetRoutes
  BY <1>3 DEF SetRoutes, GuardProgress, TypeOK, FilterTypeOK, GuardTypeOK, GuardType
<1>4. CASE AddRule
  <2>1. route'.default = route.default /\ route'.rule
    BY <1>4 DEF AddRule, TypeOK, FilterTypeOK
  <2>2. route.default # None \/ flushed
    BY <1>4 DEF AddRule, GuardProgress
  <2>3. Routed(route') \/ flushed'
    BY <1>4, <2>1, <2>2 DEF AddRule, Routed, NextHop
  <2>4. guard'.step = "pick" /\ guard'.gw = guard.gw /\ guard.step = "rule"
    BY <1>4 DEF AddRule, TypeOK, GuardTypeOK, GuardType
  <2>. QED
    BY <2>3, <2>4 DEF GuardProgress
<1>5. CASE PickNext \/ FlushNext \/ AppendRule \/ InsertJump \/ UnjumpActive
           \/ EmptyActive \/ DeleteActive \/ UnjumpBoot \/ DeleteBoot \/ LoopGivesUp
  <2>1. guard.step \notin {"idle", "routes", "rule"} /\ UNCHANGED <<route, flushed>>
    BY <1>5 DEF PickNext, FlushNext, AppendRule, InsertJump, UnjumpActive,
       EmptyActive, DeleteActive, UnjumpBoot, DeleteBoot, LoopGivesUp, guestVars
  <2>2. guard'.gw = guard.gw /\ guard'.step \notin {"idle", "routes", "rule"}
    BY <1>5, <2>1 DEF PickNext, FlushNext, AppendRule, InsertJump, UnjumpActive,
       EmptyActive, DeleteActive, UnjumpBoot, DeleteBoot, LoopGivesUp, TypeOK,
       GuardTypeOK, GuardType
  <2>. QED
    BY <2>1, <2>2 DEF GuardProgress
<1>6. CASE SetPolicy \/ DeleteActiveRefused \/ GuardDies \/ PowerOff
  BY <1>1, <1>6 DEF SetPolicy, DeleteActiveRefused, GuardDies, RunStops, PowerOff
<1>7. CASE TimerFires
  BY <1>2, <1>7 DEF TimerFires, TimerConfigured
<1>8. ASSUME UNCHANGED <<guard, route, flushed>> PROVE GuardProgress'
  BY <1>8 DEF GuardProgress
<1>9. CASE LoseRoutes
  BY <1>9 DEF LoseRoutes, GuardProgress
<1>10. ASSUME NEW p \in Coop, CoopStep(p) PROVE GuardProgress'
  <2>1. CASE RestartGuard(p)
    BY <1>2, <2>1 DEF RestartGuard, CoopProgress
  <2>. QED
    BY <1>8, <1>10, <2>1 DEF CoopStep, Configure, WriteConf, EnableUnits,
       StartTimer, VerifyRoute, StartSession, Leave, guestVars
<1>11. CASE PowerOn \/ BootFill \/ BootInsert \/ BootPolicy \/ BootFails \/ GatewayMoves
  BY <1>8, <1>11 DEF PowerOn, BootFill, BootInsert, BootPolicy, BootFails,
     GatewayMoves, guestVars
<1>. QED
  BY <1>3, <1>4, <1>5, <1>6, <1>7, <1>8, <1>9, <1>10, <1>11
  DEF Next, GuardStep, vars

\* What is enabled, active or running has a configuration to read.
LEMMA TimerConfiguredStep == IInv /\ [Next]_vars => TimerConfigured'
<1> SUFFICES ASSUME TypeOK, TimerConfigured, CoopProgress, [Next]_vars
             PROVE  TimerConfigured'
  BY DEF IInv
<1> USE DEF TimerConfigured
<1>1. ASSUME conf' = conf, enabled' = enabled, timer' = timer,
             guard'.step # "idle" => guard.step # "idle"
      PROVE  TimerConfigured'
  BY <1>1
<1>2. ASSUME conf' = conf, enabled' = enabled, timer' = timer, conf # None
      PROVE  TimerConfigured'
  BY <1>2
<1>3. CASE BootPolicy \/ BootFails
  BY <1>3 DEF BootPolicy, BootFails, BootDone
<1>4. CASE PowerOff
  BY <1>4 DEF PowerOff, IdleGuard
<1>5. CASE TimerFires
  BY <1>2, <1>5 DEF TimerFires, confVars
<1>6. CASE GuardStep \/ GuardDies \/ LoopGivesUp
  <2>1. guard.step # "idle"
    BY <1>6 DEF GuardStep, GuardDies, LoopGivesUp, SetRoutes, AddRule, PickNext,
       FlushNext, AppendRule, InsertJump, UnjumpActive, EmptyActive, DeleteActive,
       DeleteActiveRefused, UnjumpBoot, DeleteBoot, SetPolicy
  <2>2. UNCHANGED confVars
    BY <1>6 DEF GuardStep, GuardDies, LoopGivesUp, SetRoutes, AddRule, PickNext,
       FlushNext, AppendRule, InsertJump, UnjumpActive, EmptyActive, DeleteActive,
       DeleteActiveRefused, RunStops, UnjumpBoot, DeleteBoot, SetPolicy
  <2>. QED
    BY <1>2, <2>1, <2>2 DEF confVars
<1>7. ASSUME NEW p \in Coop, CoopStep(p) PROVE TimerConfigured'
  <2>1. CASE WriteConf(p)
    BY <2>1, GuardAssumption DEF WriteConf, CoopProgress
  <2>2. CASE EnableUnits(p)
    BY <2>2 DEF EnableUnits, CoopProgress
  <2>3. CASE StartTimer(p)
    BY <2>3 DEF StartTimer, CoopProgress
  <2>4. CASE RestartGuard(p)
    BY <1>2, <2>4 DEF RestartGuard, CoopProgress, confVars
  <2>. QED
    BY <1>1, <1>7, <2>1, <2>2, <2>3, <2>4 DEF CoopStep, Configure, VerifyRoute,
       StartSession, Leave, confVars
<1>8. CASE PowerOn \/ BootFill \/ BootInsert \/ LoseRoutes \/ GatewayMoves
  BY <1>1, <1>8 DEF PowerOn, BootFill, BootInsert, LoseRoutes, GatewayMoves, confVars
<1>9. CASE UNCHANGED vars
  BY <1>1, <1>9 DEF vars
<1>. QED
  BY <1>3, <1>4, <1>5, <1>6, <1>7, <1>8, <1>9 DEF Next

\* The boot guard runs only before the network is up.
LEMMA BootFirstStep == BootFirst /\ [Next]_vars => BootFirst'
<1> SUFFICES ASSUME BootFirst, [Next]_vars PROVE BootFirst'
  OBVIOUS
<1> USE DEF BootFirst
<1>1. CASE PowerOn \/ PowerOff \/ BootFill \/ BootInsert \/ BootPolicy \/ BootFails
  BY <1>1 DEF PowerOn, PowerOff, BootFill, BootInsert, BootPolicy, BootFails, BootDone
<1>2. CASE GuardStep
  BY <1>2 DEF GuardStep, SetRoutes, AddRule, PickNext, FlushNext, AppendRule,
     InsertJump, UnjumpActive, EmptyActive, DeleteActive, DeleteActiveRefused,
     RunStops, UnjumpBoot, DeleteBoot, SetPolicy, guestVars
<1>3. ASSUME NEW p \in Coop, CoopStep(p) PROVE BootFirst'
  BY <1>3 DEF CoopStep, Configure, WriteConf, EnableUnits, RestartGuard,
     StartTimer, VerifyRoute, StartSession, Leave, guestVars
<1>4. CASE TimerFires \/ GuardDies \/ LoopGivesUp \/ LoseRoutes \/ GatewayMoves
  BY <1>4 DEF TimerFires, GuardDies, RunStops, LoopGivesUp, LoseRoutes,
     GatewayMoves, guestVars
<1>5. CASE UNCHANGED vars
  BY <1>5 DEF vars
<1>. QED
  BY <1>1, <1>2, <1>3, <1>4, <1>5 DEF Next

\* A command that got past its restart did so in a guest whose guard finished.
LEMMA CoopProgressStep == IInv /\ [Next]_vars => CoopProgress'
<1> SUFFICES ASSUME TypeOK, CoopProgress, TimerConfigured, BootFirst, [Next]_vars
             PROVE  CoopProgress'
  BY DEF IInv
<1> USE DEF CoopProgress, Locked
<1>1. ASSUME UNCHANGED <<pc, gw, conf>>, policy' = policy \/ policy' = "DROP",
             timer => timer', vm = "up" => vm' = "up"
      PROVE  CoopProgress'
  BY <1>1
<1>2. CASE PowerOff
  BY <1>2 DEF PowerOff
<1>3. CASE SetPolicy
  <2>1. \A p \in Coop : pc'[p] = IF pc[p] = "wait" THEN "timer" ELSE pc[p]
    BY <1>3 DEF SetPolicy
  <2>2. conf # None /\ policy' = "DROP" /\ UNCHANGED confVars
        /\ gw' = gw /\ vm' = vm
    BY <1>3 DEF SetPolicy, TimerConfigured
  <2>. QED
    BY <2>1, <2>2 DEF confVars
<1>4. CASE DeleteActiveRefused \/ GuardDies
  <2>1. \A p \in Coop : pc'[p] = IF pc[p] = "wait" THEN "idle" ELSE pc[p]
    BY <1>4 DEF DeleteActiveRefused, GuardDies, RunStops
  <2>. QED
    BY <1>4, <2>1 DEF DeleteActiveRefused, GuardDies, RunStops, guestVars, confVars
<1>5. ASSUME NEW p \in Coop, CoopStep(p) PROVE CoopProgress'
  <2>0. pc \in [Coop -> {"idle", "lockdown", "enable", "restart", "wait", "timer",
                         "verify", "launch", "session"}]
        /\ gw \in [Coop -> Gateways \cup {None}] /\ gateway \in Gateways
    BY DEF TypeOK, CoopTypeOK, MachineTypeOK
  <2>1. CASE Configure(p)
    BY <2>0, <2>1, GuardAssumption DEF Configure, guestVars, confVars
  <2>2. CASE WriteConf(p)
    BY <2>0, <2>2 DEF WriteConf, guestVars
  <2>3. CASE EnableUnits(p)
    BY <2>0, <2>3 DEF EnableUnits, guestVars
  <2>4. CASE RestartGuard(p)
    BY <2>0, <2>4 DEF RestartGuard, guestVars, confVars
  <2>5. CASE StartTimer(p)
    BY <2>0, <2>5 DEF StartTimer, guestVars
  <2>6. CASE VerifyRoute(p) \/ StartSession(p)
    BY <2>0, <2>6 DEF VerifyRoute, StartSession, guestVars, confVars
  <2>7. CASE Leave(p)
    BY <2>0, <2>7 DEF Leave, guestVars, confVars
  <2>. QED
    BY <1>5, <2>1, <2>2, <2>3, <2>4, <2>5, <2>6, <2>7 DEF CoopStep
<1>6. CASE UNCHANGED vars
  BY <1>1, <1>6 DEF vars
<1>7. ASSUME BootPolicy \/ BootFails PROVE CoopProgress'
  <2>1. \A p \in Coop : pc[p] = "idle"
    BY <1>7 DEF BootPolicy, BootFails, BootFirst
  <2>. QED
    BY <1>7, <2>1 DEF BootPolicy, BootFails, coopVars
<1>8. ASSUME GuardStep, ~SetPolicy, ~DeleteActiveRefused PROVE CoopProgress'
  <2>1. UNCHANGED <<pc, gw, conf, policy, timer, vm>>
    BY <1>8 DEF GuardStep, SetRoutes, AddRule, PickNext, FlushNext, AppendRule,
       InsertJump, UnjumpActive, EmptyActive, DeleteActive, UnjumpBoot, DeleteBoot,
       guestVars, coopVars, confVars
  <2>. QED
    BY <1>1, <2>1
<1>9. CASE PowerOn \/ BootFill \/ BootInsert \/ TimerFires \/ LoopGivesUp \/ LoseRoutes
           \/ GatewayMoves
  <2>1. UNCHANGED <<pc, gw, conf, policy, timer>> /\ (vm = "up" => vm' = "up")
    BY <1>9 DEF PowerOn, BootFill, BootInsert, TimerFires, LoopGivesUp, LoseRoutes,
       GatewayMoves, guestVars, coopVars, confVars
  <2>. QED
    BY <1>1, <2>1
<1>. QED
  BY <1>2, <1>3, <1>4, <1>5, <1>6, <1>7, <1>8, <1>9 DEF Next

\* Every step that writes a chain keeps the order of its rules, and completes
\* an egress chain only behind the routes.
LEMMA ChainsStep == IInv /\ [Next]_vars => ChainsInOrder' /\ AcceptBehindRoutes'
<1> SUFFICES ASSUME IInv, [Next]_vars
             PROVE  ChainsInOrder' /\ AcceptBehindRoutes'
  OBVIOUS
<1>0. /\ TypeOK /\ ChainsInOrder /\ AcceptBehindRoutes /\ GuardProgress
      /\ chain \in [Chains -> Seq(Rules)]
      /\ guard.next \in Egress
      /\ Egress \subseteq Chains /\ "BOOT" \in Chains /\ "BOOT" \notin Egress
  BY DEF IInv, TypeOK, FilterTypeOK, GuardTypeOK, GuardType, Chains, Egress
<1>1. ASSUME UNCHANGED chain, ~PowerOff
      PROVE  ChainsInOrder' /\ AcceptBehindRoutes'
  BY <1>0, <1>1, RoutesStep DEF ChainsInOrder, AcceptBehindRoutes
<1>2. CASE PowerOff
  <2>1. \A c \in Chains : chain'[c] = <<>>
    BY <1>2 DEF PowerOff, NoChains
  <2>2. \A c \in Chains : Len(chain'[c]) = 0
    BY <2>1
  <2>3. ASSUME NEW c \in Egress PROVE Len(chain'[c]) # Len(EgressRules)
    <3>1. Len(chain'[c]) = 0
      BY <2>2 DEF Chains
    <3>2. Len(EgressRules) = 4
      BY EgressRulesType
    <3>. QED
      BY <3>1, <3>2
  <2>4. ChainsInOrder'
    BY <1>0, <2>2, EgressRulesType DEF ChainsInOrder
  <2>5. AcceptBehindRoutes'
    BY <2>3 DEF AcceptBehindRoutes
  <2>. QED
    BY <2>4, <2>5
<1>3. CASE BootFill
  <2>1. chain'["BOOT"] = BootRules /\ \A c \in Egress : chain'[c] = chain[c]
    BY <1>0, <1>3 DEF BootFill
  <2>2. UNCHANGED <<route, flushed>>
    BY <1>3 DEF BootFill
  <2>. QED
    BY <1>0, <2>1, <2>2, BootRulesType DEF ChainsInOrder, AcceptBehindRoutes
<1>4. ASSUME NEW c \in Chains, chain' = [chain EXCEPT ![c] = <<>>],
             UNCHANGED <<route, flushed>>
      PROVE  ChainsInOrder' /\ AcceptBehindRoutes'
  <2>1. chain'[c] = <<>> /\ \A d \in Chains \ {c} : chain'[d] = chain[d]
    BY <1>0, <1>4
  <2>. QED
    BY <1>0, <1>4, <2>1, EgressRulesType DEF ChainsInOrder, AcceptBehindRoutes
<1>5. CASE FlushNext \/ DeleteBoot
  BY <1>0, <1>4, <1>5 DEF FlushNext, DeleteBoot
<1>6. CASE EmptyActive
  <2>1. CASE guard.active \in Chains
    BY <1>4, <1>6, <2>1 DEF EmptyActive
  <2>2. CASE guard.active \notin Chains
    <3>1. UNCHANGED chain
      BY <1>0, <1>6, <2>2 DEF EmptyActive
    <3>. QED
      BY <1>0, <1>6, <3>1 DEF EmptyActive, ChainsInOrder, AcceptBehindRoutes
  <2>. QED
    BY <2>1, <2>2
<1>7. CASE AppendRule
  <2> DEFINE n == guard.next
             k == Len(chain[n]) + 1
  <2>1. /\ k \in 1..4
        /\ chain' = [chain EXCEPT ![n] = Append(@, EgressRules[k])]
        /\ UNCHANGED <<route, flushed>>
    BY <1>7, EgressRulesType DEF AppendRule
  <2>2. chain[n] \in Seq(Rules)
    BY <1>0
  <2>3. chain'[n] = Append(chain[n], EgressRules[k])
    BY <1>0, <2>1
  <2>4. /\ Len(chain'[n]) = k
        /\ chain'[n][k] = EgressRules[k]
        /\ \A j \in 1..(k-1) : chain'[n][j] = chain[n][j]
    BY <2>1, <2>2, <2>3, EgressRulesType
  <2>5. \A d \in Chains \ {n} : chain'[d] = chain[d]
    BY <1>0, <2>1
  <2>6. \A j \in 1..Len(chain'[n]) : chain'[n][j] = EgressRules[j]
    <3>1. \A j \in 1..(k-1) : chain[n][j] = EgressRules[j]
      BY <1>0, <2>2 DEF ChainsInOrder
    <3>. QED
      BY <2>1, <2>4, <3>1
  <2>7. Routed(route') \/ flushed'
    BY <1>0, <1>7, <2>1 DEF AppendRule, GuardProgress
  <2>. QED
    BY <1>0, <2>1, <2>4, <2>5, <2>6, <2>7, EgressRulesType
    DEF ChainsInOrder, AcceptBehindRoutes
<1>8. ASSUME NEW p \in Coop, CoopStep(p) PROVE UNCHANGED chain
  BY <1>8 DEF CoopStep, Configure, WriteConf, EnableUnits, RestartGuard,
     StartTimer, VerifyRoute, StartSession, Leave, guestVars
<1>9. ASSUME GuardStep, ~FlushNext, ~DeleteBoot, ~EmptyActive, ~AppendRule
      PROVE  UNCHANGED chain
  BY <1>9 DEF GuardStep, SetRoutes, AddRule, PickNext, InsertJump, UnjumpActive,
     DeleteActive, DeleteActiveRefused, RunStops, UnjumpBoot, SetPolicy, guestVars
<1>10. ASSUME Next, ~PowerOff, ~BootFill, ~GuardStep, ~(\E p \in Coop : CoopStep(p))
       PROVE  UNCHANGED chain
  BY <1>10 DEF Next, PowerOn, BootInsert, BootPolicy, BootFails, TimerFires,
     GuardDies, RunStops, LoopGivesUp, LoseRoutes, GatewayMoves, guestVars
<1>11. CASE UNCHANGED vars
  <2>1. UNCHANGED chain /\ UNCHANGED route /\ UNCHANGED flushed
    BY <1>11 DEF vars
  <2>. QED
    BY <1>0, <2>1 DEF ChainsInOrder, AcceptBehindRoutes
<1>. QED
  BY <1>1, <1>2, <1>3, <1>5, <1>6, <1>7, <1>8, <1>9, <1>10, <1>11
-----------------------------------------------------------------------------
\* The inductive invariant holds in every reachable state: the types, the order
\* of the rules in every chain, and what the running script and each command
\* have already achieved.
THEOREM InductiveInvariant == Spec => []IInv
<1>1. Init => IInv
  <2> SUFFICES ASSUME Init PROVE IInv
    OBVIOUS
  <2>0. Egress \subseteq Chains /\ "BOOT" \in Chains /\ "A" \in Egress
    BY DEF Egress, Chains
  <2>1. MachineTypeOK
    BY DEF Init, MachineTypeOK
  <2>2. FaultsTypeOK
    BY GuardAssumption DEF Init, FaultsTypeOK
  <2>3. FilterTypeOK
    BY DEF Init, FilterTypeOK, NoChains
  <2>4. GuardTypeOK
    BY <2>0 DEF Init, GuardTypeOK, GuardType, IdleGuard
  <2>5. CoopTypeOK /\ CoopProgress
    BY DEF Init, CoopTypeOK, CoopProgress
  <2>6. ChainsInOrder /\ AcceptBehindRoutes
    BY <2>0, EgressRulesType DEF Init, ChainsInOrder, AcceptBehindRoutes, NoChains
  <2>7. GuardProgress /\ TimerConfigured /\ BootFirst
    BY DEF Init, GuardProgress, TimerConfigured, BootFirst, IdleGuard
  <2>. QED
    BY <2>1, <2>2, <2>3, <2>4, <2>5, <2>6, <2>7 DEF IInv, TypeOK
<1>2. IInv /\ [Next]_vars => IInv'
  BY TypeStep, ChainsStep, GuardProgressStep, CoopProgressStep, TimerConfiguredStep,
     BootFirstStep
  DEF IInv
<1>. QED
  BY <1>1, <1>2, PTL DEF Spec

\* In a guest that is locked, new traffic to a public address leaves through
\* the gateway only, whatever run of the guard was stopped and wherever.
THEOREM DirectEgressNever == Spec => []NoDirectEgress
<1>1. IInv => NoDirectEgress
  <2> SUFFICES ASSUME IInv, Locked, Passes("public")
               PROVE  Routed(route) \/ flushed
    BY DEF NoDirectEgress
  <2>1. PICK i \in 1..Len(output) : Accepts(output[i], "public")
    BY DEF Passes, Locked
  <2>2. output[i] \in Chains
    BY DEF IInv, TypeOK, FilterTypeOK
  <2>3. PICK k \in 1..Len(chain[output[i]]) :
          Matches(chain[output[i]][k], "public") /\ chain[output[i]][k] # "reject"
    BY <2>1 DEF Accepts
  <2>4. chain[output[i]][k] \in {"accept", "public"}
    BY <2>3 DEF Matches
  <2>5. output[i] \in Egress
    BY <2>2, <2>3, <2>4 DEF IInv, ChainsInOrder, Chains
  <2>6. k \in 1..4 /\ chain[output[i]][k] = EgressRules[k]
    BY <2>3, <2>5, EgressRulesType DEF IInv, ChainsInOrder
  <2>7. k = 4
    BY <2>4, <2>6 DEF EgressRules
  <2>8. chain[output[i]] \in Seq(Rules)
    BY <2>2 DEF IInv, TypeOK, FilterTypeOK
  <2>9. Len(chain[output[i]]) = Len(EgressRules)
    BY <2>3, <2>5, <2>7, <2>8, EgressRulesType DEF IInv, ChainsInOrder
  <2>. QED
    BY <2>5, <2>9 DEF IInv, AcceptBehindRoutes
<1>. QED
  BY <1>1, InductiveInvariant, PTL

\* In a guest that is locked, new traffic never reaches a private range: a
\* chain accepts it only after its own REJECT rule.
THEOREM PrivateClosed == Spec => []PrivateStaysClosed
<1>1. IInv => PrivateStaysClosed
  <2> SUFFICES ASSUME IInv, Locked, Passes("private") PROVE FALSE
    BY DEF PrivateStaysClosed
  <2>1. PICK i \in 1..Len(output) : Accepts(output[i], "private")
    BY DEF Passes, Locked
  <2>2. output[i] \in Chains
    BY DEF IInv, TypeOK, FilterTypeOK
  <2>3. PICK k \in 1..Len(chain[output[i]]) :
          /\ Matches(chain[output[i]][k], "private")
          /\ chain[output[i]][k] # "reject"
          /\ \A j \in 1..(k-1) : ~Matches(chain[output[i]][j], "private")
    BY <2>1 DEF Accepts
  <2>4. chain[output[i]][k] \in {"accept", "private"}
    BY <2>3 DEF Matches
  <2>5. output[i] \in Egress
    BY <2>2, <2>3, <2>4 DEF IInv, ChainsInOrder, Chains
  <2>6. k \in 1..4 /\ chain[output[i]][k] = EgressRules[k]
    BY <2>3, <2>5, EgressRulesType DEF IInv, ChainsInOrder
  <2>7. k = 4
    BY <2>4, <2>6 DEF EgressRules
  <2>8. 3 \in 1..Len(chain[output[i]])
    BY <2>2, <2>3, <2>7 DEF IInv, TypeOK, FilterTypeOK
  <2>9. chain[output[i]][3] = "reject"
    BY <2>5, <2>8, EgressRulesType DEF IInv, ChainsInOrder
  <2>. QED
    BY <2>3, <2>7, <2>9 DEF Matches
<1>. QED
  BY <1>1, InductiveInvariant, PTL

\* A session runs only in a guest whose guard completed in this boot.
THEOREM SessionsNeedLock == Spec => []SessionsLocked
<1>1. IInv => SessionsLocked
  BY DEF IInv, CoopProgress, SessionsLocked
<1>. QED
  BY <1>1, InductiveInvariant, PTL
-----------------------------------------------------------------------------
(* The swap of the two chains *)

\* A set of naturals that is not empty has a least element.
LEMMA LeastNat ==
  ASSUME NEW T, T \subseteq Nat, T # {}
  PROVE  \E m \in T : \A k \in T : m <= k
<1>1. PICK R : R = OpToRel(<, Nat)
  OBVIOUS
<1>2. IsWellFoundedOn(R, Nat)
  BY <1>1, NatLessThanWellFounded, Zenon
<1>3. R = {ss \in Nat \X Nat : ss[1] < ss[2]}
  BY <1>1, Zenon DEF OpToRel
<1>4. \A x, y \in Nat : x < y => <<x, y>> \in R
  BY <1>3, SMT
<1>5. PICK m \in T : \A k \in T : ~(<<k, m>> \in R)
  BY <1>2, WFMin, Zenon
<1>6. \A k \in T : ~(k < m)
  BY <1>4, <1>5
<1>. QED
  BY <1>6

\* RemoveAt drops one element and closes the gap.
LEMMA RemoveAtProperties ==
  ASSUME NEW S, NEW s \in Seq(S), NEW i \in 1..Len(s)
  PROVE  /\ RemoveAt(s, i) \in Seq(S)
         /\ Len(RemoveAt(s, i)) = Len(s) - 1
         /\ \A j \in 1..(i-1) : RemoveAt(s, i)[j] = s[j]
         /\ \A j \in i..(Len(s)-1) : RemoveAt(s, i)[j] = s[j+1]
<1> DEFINE l == SubSeq(s, 1, i-1)  r == SubSeq(s, i+1, Len(s))
<1>0. Len(s) \in Nat /\ \A j \in 1..Len(s) : s[j] \in S
  BY LenProperties, ElementOfSeq
<1>1. /\ l \in Seq(S) /\ Len(l) = i - 1
      /\ \A j \in 1..(i-1) : l[j] = s[j]
  <2>1. \A j \in 1..(i-1) : s[j] \in S
    BY <1>0
  <2>. QED
    BY <1>0, <2>1, SubSeqProperties
<1>2. /\ r \in Seq(S) /\ Len(r) = Len(s) - i
      /\ \A j \in 1..(Len(s) - i) : r[j] = s[i + j]
  <2>1. \A j \in i+1..Len(s) : s[j] \in S
    BY <1>0
  <2>. QED
    BY <1>0, <2>1, SubSeqProperties
<1>3. /\ l \o r \in Seq(S) /\ Len(l \o r) = Len(s) - 1
      /\ \A k \in 1..(Len(s) - 1) :
           (l \o r)[k] = IF k <= i - 1 THEN l[k] ELSE r[k - (i - 1)]
  <2> HIDE DEF l, r
  <2>1. /\ l \o r \in Seq(S) /\ Len(l \o r) = Len(l) + Len(r)
        /\ \A k \in 1..Len(l) + Len(r) :
             (l \o r)[k] = IF k <= Len(l) THEN l[k] ELSE r[k - Len(l)]
    BY <1>1, <1>2, ConcatProperties
  <2>. QED
    BY <1>0, <1>1, <1>2, <2>1
<1>. QED
  <2>1. RemoveAt(s, i) = l \o r
    BY DEF RemoveAt
  <2> HIDE DEF l, r
  <2>2. \A j \in 1..(i-1) : (l \o r)[j] = s[j]
    BY <1>0, <1>1, <1>3
  <2>3. ASSUME NEW j \in i..(Len(s)-1) PROVE (l \o r)[j] = s[j+1]
    <3>1. j \in 1..(Len(s)-1) /\ ~(j <= i - 1) /\ j - (i - 1) \in 1..(Len(s) - i)
          /\ i + (j - (i - 1)) = j + 1
      BY <1>0
    <3>. QED
      BY <3>1, <1>2, <1>3
  <2>. QED
    BY <2>1, <1>3, <2>2, <2>3

\* A chain in front of a sequence moves the others one place.
LEMMA PrependProperties ==
  ASSUME NEW S, NEW s \in Seq(S), NEW e \in S
  PROVE  /\ Len(<<e>> \o s) = Len(s) + 1
         /\ (<<e>> \o s)[1] = e
         /\ \A i \in 1..Len(s) : (<<e>> \o s)[i + 1] = s[i]
<1>1. <<e>> \in Seq(S) /\ Len(<<e>>) = 1 /\ <<e>>[1] = e
  OBVIOUS
<1>2. /\ Len(<<e>> \o s) = 1 + Len(s)
      /\ \A i \in 1..1 + Len(s) :
           (<<e>> \o s)[i] = IF i <= 1 THEN <<e>>[i] ELSE s[i - 1]
  BY <1>1, ConcatProperties
<1>. QED
  BY <1>1, <1>2, LenProperties

\* The fourth rule completes a chain that begins with the other three.
LEMMA LastRuleAppended ==
  ASSUME NEW s \in Seq(Rules), NEW e \in Rules, e = EgressRules[4]
  PROVE  Len(s) = 3 /\ (\A j \in 1..3 : s[j] = EgressRules[j]) =>
           Append(s, e) = EgressRules
<1>1. /\ Append(s, e) \in Seq(Rules)
      /\ Len(Append(s, e)) = Len(s) + 1
      /\ Append(s, e)[Len(s) + 1] = e
      /\ \A j \in 1..Len(s) : Append(s, e)[j] = s[j]
  BY AppendProperties
<1>2. SUFFICES ASSUME Len(s) = 3, \A j \in 1..3 : s[j] = EgressRules[j]
               PROVE  Append(s, e) = EgressRules
  OBVIOUS
<1>3. Len(s) + 1 = 4
  BY <1>2
<1>4. \A j \in 1..4 : Append(s, e)[j] = EgressRules[j]
  BY <1>1, <1>2, <1>3
<1>. QED
  BY <1>1, <1>3, <1>4, EgressRulesType, SeqEqual

\* What the script reads as ACTIVE.
LEMMA FirstEgressIs ==
  \A c : c \in FirstEgress <=>
    /\ c \in Egress
    /\ \E i \in 1..Len(output) :
         output[i] = c /\ \A j \in 1..(i-1) : output[j] \notin Egress
BY DEF FirstEgress

LEMMA FirstEgressUnique ==
  output \in Seq(Chains) => \A c, d \in FirstEgress : c = d
<1> SUFFICES ASSUME output \in Seq(Chains), NEW c \in FirstEgress, NEW d \in FirstEgress
             PROVE  c = d
  OBVIOUS
<1>1. PICK i \in 1..Len(output) :
        output[i] = c /\ \A j \in 1..(i-1) : output[j] \notin Egress
  BY FirstEgressIs
<1>2. PICK k \in 1..Len(output) :
        output[k] = d /\ \A j \in 1..(k-1) : output[j] \notin Egress
  BY FirstEgressIs
<1>3. c \in Egress /\ d \in Egress
  BY FirstEgressIs
<1>4. i = k
  BY <1>1, <1>2, <1>3
<1>. QED
  BY <1>1, <1>2, <1>4

\* The boot chain's jump in front does not change which egress chain is first.
LEMMA BootJumpInFront ==
  ASSUME output \in Seq(Chains), output' = <<"BOOT">> \o output
  PROVE  FirstEgress' = FirstEgress /\ BootJump'
<1>1. /\ Len(output') = Len(output) + 1
      /\ output'[1] = "BOOT"
      /\ \A i \in 1..Len(output) : output'[i + 1] = output[i]
  BY PrependProperties DEF Chains
<1>2. Len(output) \in Nat /\ "BOOT" \notin Egress
  BY DEF Egress
<1>3. ASSUME NEW c, c \in FirstEgress PROVE c \in FirstEgress'
  <2>1. PICK i \in 1..Len(output) :
          output[i] = c /\ \A j \in 1..(i-1) : output[j] \notin Egress
    BY <1>3, FirstEgressIs
  <2>2. i + 1 \in 1..Len(output') /\ output'[i + 1] = c
    BY <1>1, <1>2, <2>1
  <2>3. \A j \in 1..((i + 1) - 1) : output'[j] \notin Egress
    <3> SUFFICES ASSUME NEW j \in 1..i PROVE output'[j] \notin Egress
      BY <1>2
    <3>1. CASE j = 1
      BY <3>1, <1>1, <1>2
    <3>2. CASE j # 1
      <4>1. j - 1 \in 1..(i-1) /\ j - 1 \in 1..Len(output) /\ (j - 1) + 1 = j
        BY <3>2, <1>2
      <4>. QED
        BY <4>1, <1>1, <2>1
    <3>. QED
      BY <3>1, <3>2
  <2>4. c \in Egress
    BY <1>3, FirstEgressIs
  <2>. QED
    BY <2>2, <2>3, <2>4 DEF FirstEgress
<1>4. ASSUME NEW c, c \in FirstEgress' PROVE c \in FirstEgress
  <2>1. PICK i \in 1..Len(output') :
          /\ output'[i] = c /\ c \in Egress
          /\ \A j \in 1..(i-1) : output'[j] \notin Egress
    BY <1>4 DEF FirstEgress
  <2>2. i # 1 /\ i - 1 \in 1..Len(output) /\ (i - 1) + 1 = i
    BY <1>1, <1>2, <2>1
  <2>3. output[i - 1] = c
    BY <1>1, <2>1, <2>2
  <2>4. \A j \in 1..((i - 1) - 1) : output[j] \notin Egress
    <3> SUFFICES ASSUME NEW j \in 1..((i - 1) - 1) PROVE output[j] \notin Egress
      OBVIOUS
    <3>1. j + 1 \in 1..(i-1) /\ j \in 1..Len(output)
      BY <2>2, <1>2
    <3>. QED
      BY <3>1, <1>1, <2>1
  <2>. QED
    BY <2>1, <2>2, <2>3, <2>4, FirstEgressIs
<1>5. BootJump'
  BY <1>1, <1>2 DEF BootJump
<1>. QED
  BY <1>3, <1>4, <1>5

\* An egress chain's jump in front makes that chain the first.
LEMMA EgressJumpInFront ==
  ASSUME output \in Seq(Chains), NEW c \in Egress, output' = <<c>> \o output
  PROVE  FirstEgress' = {c}
<1>1. /\ Len(output') = Len(output) + 1
      /\ output'[1] = c
  BY PrependProperties DEF Chains
<1>2. Len(output) \in Nat
  OBVIOUS
<1>3. c \in FirstEgress'
  BY <1>1, <1>2 DEF FirstEgress
<1>4. ASSUME NEW d, d \in FirstEgress' PROVE d = c
  <2>1. PICK i \in 1..Len(output') :
          /\ output'[i] = d /\ d \in Egress
          /\ \A j \in 1..(i-1) : output'[j] \notin Egress
    BY <1>4 DEF FirstEgress
  <2>2. i = 1
    BY <2>1, <1>1, <1>2
  <2>. QED
    BY <2>1, <2>2, <1>1
<1>. QED
  BY <1>3, <1>4

\* Deleting a jump to another chain leaves the first egress chain the first.
LEMMA OtherJumpDeleted ==
  ASSUME output \in Seq(Chains), NEW c, DeleteJump(c), NEW d \in FirstEgress, c # d
  PROVE  d \in FirstEgress'
<1>1. PICK k \in FirstJump(c) : output' = RemoveAt(output, k)
  BY DEF DeleteJump
<1>2. k \in 1..Len(output) /\ output[k] = c
  BY <1>1 DEF FirstJump
<1>3. /\ Len(output') = Len(output) - 1
      /\ \A j \in 1..(k-1) : output'[j] = output[j]
      /\ \A j \in k..(Len(output)-1) : output'[j] = output[j+1]
  BY <1>1, <1>2, RemoveAtProperties
<1>4. PICK i \in 1..Len(output) :
        output[i] = d /\ \A j \in 1..(i-1) : output[j] \notin Egress
  BY FirstEgressIs
<1>5. d \in Egress /\ Len(output) \in Nat
  BY FirstEgressIs
<1>6. CASE i < k
  <2>1. i \in 1..Len(output') /\ output'[i] = d
    BY <1>2, <1>3, <1>4, <1>5, <1>6
  <2>2. \A j \in 1..(i-1) : output'[j] \notin Egress
    BY <1>2, <1>3, <1>4, <1>5, <1>6
  <2>. QED
    BY <1>5, <2>1, <2>2 DEF FirstEgress
<1>7. CASE k < i
  <2>1. i - 1 \in 1..Len(output') /\ i - 1 \in k..(Len(output)-1) /\ (i-1)+1 = i
    BY <1>2, <1>3, <1>4, <1>5, <1>7
  <2>2. output'[i - 1] = d
    BY <2>1, <1>3, <1>4
  <2>3. ASSUME NEW j \in 1..((i-1)-1) PROVE output'[j] \notin Egress
    <3>1. CASE j < k
      <4>1. j \in 1..(k-1) /\ j \in 1..(i-1)
        BY <3>1, <1>2, <1>5
      <4>. QED
        BY <4>1, <1>3, <1>4
    <3>2. CASE ~(j < k)
      <4>1. j \in k..(Len(output)-1) /\ j + 1 \in 1..(i-1)
        BY <3>2, <1>2, <1>4, <1>5
      <4>. QED
        BY <4>1, <1>3, <1>4
    <3>. QED
      BY <3>1, <3>2
  <2>. QED
    BY <1>5, <2>1, <2>2, <2>3 DEF FirstEgress
<1>8. i # k
  BY <1>2, <1>4
<1>. QED
  BY <1>2, <1>5, <1>6, <1>7, <1>8
-----------------------------------------------------------------------------
\* The commands that write a chain or a jump.
ChainCommand == BootFill \/ FlushNext \/ AppendRule \/ EmptyActive \/ DeleteBoot
JumpCommand == BootInsert \/ InsertJump \/ UnjumpActive \/ UnjumpBoot

\* Steps that leave the chains and the jumps as they are.
LEMMA SwapScriptGoesOn ==
  ASSUME IInv, SwapInv, [Next]_vars, UNCHANGED <<output, chain>>,
         ~PowerOff, ~ChainCommand, ~JumpCommand
  PROVE  SwapInv'
<1>0. /\ FirstEgress' = FirstEgress /\ (BootJump' <=> BootJump)
      /\ TypeOK /\ CoopProgress /\ BootFirst
  BY DEF FirstEgress, BootJump, IInv
<1> USE DEF SwapInv, SwapProgress, BootHandsOver
<1>1. CASE PickNext
  <2>1. PICK active \in (IF FirstEgress = {} THEN {"none"} ELSE FirstEgress) :
          guard' = [guard EXCEPT !.step = "flush", !.active = active,
                                 !.next = IF active = "A" THEN "B" ELSE "A"]
    BY <1>1 DEF PickNext
  <2>2. guard'.step = "flush" /\ guard'.active = active
        /\ guard'.next = IF active = "A" THEN "B" ELSE "A"
    BY <2>1, <1>0 DEF TypeOK, GuardTypeOK, GuardType
  <2>3. guard'.next # active
    BY <2>2
  <2>4. guard'.next \notin FirstEgress
    BY <2>1, <2>3, <1>0, FirstEgressUnique DEF TypeOK, FilterTypeOK
  <2>5. UNCHANGED <<vm, bootStep, policy>> /\ guard.step = "pick"
    BY <1>1 DEF PickNext, guestVars
  <2>. QED
    BY <1>0, <2>2, <2>3, <2>4, <2>5 DEF Locked
<1>2. CASE SetRoutes \/ AddRule \/ DeleteActive \/ LoopGivesUp
  BY <1>0, <1>2
  DEF SetRoutes, AddRule, DeleteActive, LoopGivesUp, guestVars, Locked,
      TypeOK, GuardTypeOK, GuardType
<1>3. CASE SetPolicy \/ GuardDies \/ DeleteActiveRefused
  BY <1>0, <1>3
  DEF SetPolicy, GuardDies, DeleteActiveRefused, RunStops, IdleGuard, guestVars, Locked
<1>4. CASE PowerOn \/ BootPolicy \/ BootFails
  BY <1>0, <1>4 DEF PowerOn, BootPolicy, BootFails, BootDone, BootFirst, Locked
<1>5. CASE TimerFires
  BY <1>0, <1>5 DEF TimerFires, StartRun, guestVars, Locked
<1>6. ASSUME NEW p \in Coop, CoopStep(p) PROVE SwapInv'
  <2>1. CASE RestartGuard(p)
    BY <1>0, <2>1 DEF RestartGuard, StartRun, guestVars, CoopProgress, Locked
  <2>2. CASE UNCHANGED <<guestVars, guard>>
    BY <1>0, <2>2 DEF guestVars, Locked
  <2>. QED
    BY <1>6, <2>1, <2>2 DEF CoopStep, Configure, WriteConf, EnableUnits, StartTimer,
       VerifyRoute, StartSession, Leave
<1>7. CASE LoseRoutes \/ GatewayMoves \/ UNCHANGED vars
  BY <1>0, <1>7 DEF LoseRoutes, GatewayMoves, guestVars, vars, Locked
<1>. QED
  BY <1>1, <1>2, <1>3, <1>4, <1>5, <1>6, <1>7
  DEF Next, GuardStep, ChainCommand, JumpCommand

\* Steps that write a chain: never the one that decides first.
LEMMA SwapChains ==
  ASSUME IInv, SwapInv, ChainCommand
  PROVE  SwapInv'
<1>0. /\ TypeOK /\ ChainsInOrder /\ BootFirst
      /\ chain \in [Chains -> Seq(Rules)] /\ output \in Seq(Chains)
      /\ guard.next \in Egress
      /\ Egress \subseteq Chains /\ "BOOT" \in Chains /\ "BOOT" \notin Egress
      /\ FirstEgress \subseteq Egress
  BY FirstEgressIs
  DEF IInv, TypeOK, FilterTypeOK, GuardTypeOK, GuardType, Chains, Egress
<1>1. output' = output
  BY DEF ChainCommand, BootFill, FlushNext, AppendRule, EmptyActive, DeleteBoot
<1>2. FirstEgress' = FirstEgress /\ (BootJump' <=> BootJump)
  BY <1>1 DEF FirstEgress, BootJump
<1> USE DEF SwapInv, SwapProgress, BootHandsOver, Locked
<1>3. CASE BootFill
  <2>1. chain'["BOOT"] = BootRules /\ \A c \in Egress : chain'[c] = chain[c]
    BY <1>0, <1>3 DEF BootFill
  <2>2. UNCHANGED <<vm, guard, policy>> /\ bootStep' = "insert" /\ guard.step = "idle"
    BY <1>0, <1>3 DEF BootFill, BootFirst
  <2>. QED
    BY <1>0, <1>2, <2>1, <2>2
<1>4. CASE FlushNext
  <2>1. /\ guard'.step = "fill" /\ guard'.next = guard.next
        /\ guard'.active = guard.active /\ guard.step = "flush"
        /\ UNCHANGED <<vm, bootStep, policy>>
    BY <1>0, <1>4 DEF FlushNext, TypeOK, GuardTypeOK, GuardType
  <2>2. \A c \in Chains \ {guard.next} : chain'[c] = chain[c]
    BY <1>0, <1>4 DEF FlushNext
  <2>. QED
    BY <1>0, <1>2, <2>1, <2>2
<1>5. CASE AppendRule
  <2> DEFINE n == guard.next
             k == Len(chain[n]) + 1
  <2>1. /\ k \in 1..4 /\ guard.step = "fill"
        /\ chain' = [chain EXCEPT ![n] = Append(@, EgressRules[k])]
        /\ guard' = [guard EXCEPT !.step = IF k = 4 THEN "insert" ELSE "fill"]
        /\ UNCHANGED <<vm, bootStep, policy>>
    BY <1>5, EgressRulesType DEF AppendRule
  <2>2. chain[n] \in Seq(Rules)
    BY <1>0
  <2>3. \A c \in Chains \ {n} : chain'[c] = chain[c]
    BY <1>0, <2>1
  <2>4. /\ guard'.step = (IF k = 4 THEN "insert" ELSE "fill")
        /\ guard'.next = n /\ guard'.active = guard.active
    BY <1>0, <2>1 DEF TypeOK, GuardTypeOK, GuardType
  <2>5. ASSUME k = 4 PROVE chain'[n] = EgressRules
    <3>1. Len(chain[n]) = 3
      <4>1. Len(chain[n]) \in Nat /\ Len(chain[n]) + 1 = 4
        BY <2>2, <2>5
      <4>2. \A m \in Nat : m + 1 = 4 => m = 3
        OBVIOUS
      <4>. QED
        BY <4>1, <4>2
    <3>2. \A j \in 1..3 : chain[n][j] = EgressRules[j]
      BY <1>0, <3>1 DEF ChainsInOrder
    <3>3. chain'[n] = Append(chain[n], EgressRules[4])
      BY <1>0, <2>1, <2>5
    <3>. QED
      BY <2>2, <3>1, <3>2, <3>3, EgressRulesType, LastRuleAppended
  <2> HIDE DEF n, k
  <2>6. n \notin FirstEgress /\ n # guard.active /\ n \in Egress
    BY <1>0, <2>1 DEF n
  <2>7. BootHandsOver'
    BY <1>0, <1>2, <2>1, <2>3, <2>4, <2>6
  <2>8. SwapProgress'
    BY <1>0, <1>2, <2>1, <2>3, <2>4, <2>5, <2>6
  <2>. QED
    BY <2>7, <2>8
<1>6. CASE EmptyActive
  <2>1. /\ guard'.step = "delete" /\ guard.step = "empty"
        /\ UNCHANGED <<vm, bootStep, policy>>
    BY <1>0, <1>6 DEF EmptyActive, TypeOK, GuardTypeOK, GuardType
  <2>2. \A c \in Chains \ {guard.active} : chain'[c] = chain[c]
    BY <1>0, <1>6 DEF EmptyActive
  <2>3. guard.active \notin FirstEgress /\ guard.active # "BOOT"
    BY <1>0, <2>1
  <2>. QED
    BY <1>0, <1>2, <2>1, <2>2, <2>3
<1>7. CASE DeleteBoot
  <2>1. /\ guard'.step = "policy" /\ guard.step = "delboot"
        /\ UNCHANGED <<vm, bootStep, policy>>
    BY <1>0, <1>7 DEF DeleteBoot, TypeOK, GuardTypeOK, GuardType
  <2>2. chain'["BOOT"] = <<>> /\ \A c \in Egress : chain'[c] = chain[c]
    BY <1>0, <1>7 DEF DeleteBoot
  <2>3. bootStep = "idle"
    BY <1>0, <2>1 DEF BootFirst, TypeOK, MachineTypeOK
  <2>. QED
    BY <1>0, <1>2, <2>1, <2>2, <2>3
<1>. QED
  BY <1>3, <1>4, <1>5, <1>6, <1>7 DEF ChainCommand

\* Steps that write a jump: a whole chain comes first, and stays first.
LEMMA SwapJumps ==
  ASSUME IInv, SwapInv, JumpCommand
  PROVE  SwapInv'
<1>0. /\ TypeOK /\ BootFirst /\ output \in Seq(Chains)
      /\ guard.next \in Egress
      /\ Egress \subseteq Chains /\ "BOOT" \in Chains /\ "BOOT" \notin Egress
      /\ FirstEgress \subseteq Egress
  BY FirstEgressIs
  DEF IInv, TypeOK, FilterTypeOK, GuardTypeOK, GuardType, Chains, Egress
<1>1. chain' = chain /\ UNCHANGED <<vm, policy>>
  BY DEF JumpCommand, BootInsert, InsertJump, UnjumpActive, UnjumpBoot
<1>2. (output \in Seq(Chains) => \A c, d \in FirstEgress : c = d)'
  BY FirstEgressUnique, PTL
<1> USE DEF SwapInv, SwapProgress, BootHandsOver, Locked
<1>3. CASE BootInsert
  <2>1. FirstEgress' = FirstEgress /\ BootJump'
    BY <1>0, <1>3, BootJumpInFront DEF BootInsert
  <2>2. guard' = guard /\ guard.step = "idle" /\ bootStep' = "policy"
        /\ bootStep = "insert"
    BY <1>0, <1>3 DEF BootInsert, BootFirst
  <2>. QED
    BY <1>1, <2>1, <2>2
<1>4. CASE InsertJump
  <2>1. FirstEgress' = {guard.next}
    BY <1>0, <1>4, EgressJumpInFront DEF InsertJump
  <2>2. /\ guard.step = "insert" /\ guard'.next = guard.next
        /\ guard'.active = guard.active
        /\ guard'.step = (IF guard.active = "none" THEN "unboot" ELSE "unjump")
        /\ guard.active \in Egress \cup {"none"}
        /\ bootStep' = bootStep
    BY <1>0, <1>4 DEF InsertJump, TypeOK, GuardTypeOK, GuardType
  <2>3. bootStep = "idle"
    BY <1>0, <2>2 DEF BootFirst, TypeOK, MachineTypeOK
  <2>. QED
    BY <1>1, <2>1, <2>2, <2>3
<1>5. ASSUME NEW c \in Chains, DeleteJump(c), NEW d \in FirstEgress, c # d
      PROVE  FirstEgress' = {d} /\ FirstEgress = {d}
  <2>1. d \in FirstEgress'
    BY <1>0, <1>5, OtherJumpDeleted
  <2>2. output' \in Seq(Chains)
    BY <1>0, <1>5, DeleteJumpType
  <2>. QED
    BY <1>0, <1>2, <1>5, <2>1, <2>2, FirstEgressUnique
<1>6. CASE (UnjumpActive \/ UnjumpBoot) /\ UNCHANGED output
  <2>1. FirstEgress' = FirstEgress /\ (BootJump' <=> BootJump)
    BY <1>6 DEF FirstEgress, BootJump
  <2>2. /\ guard.step \in {"unjump", "unboot"} /\ bootStep' = bootStep
        /\ guard'.step \in {guard.step, "empty", "delboot"}
        /\ (guard'.step = "empty" => guard.step = "unjump")
        /\ (guard'.step = "unjump" => guard.step = "unjump")
        /\ guard'.next = guard.next /\ guard'.active = guard.active
    BY <1>0, <1>6 DEF UnjumpActive, UnjumpBoot, TypeOK, GuardTypeOK, GuardType
  <2>. QED
    BY <1>1, <2>1, <2>2
<1>7. CASE UnjumpActive /\ ~UNCHANGED output
  <2>1. DeleteJump(guard.active) /\ guard' = guard /\ bootStep' = bootStep
        /\ guard.step = "unjump"
    BY <1>7 DEF UnjumpActive
  <2>2. guard.next \in FirstEgress /\ guard.active # guard.next /\ guard.active \in Chains
    BY <1>0, <2>1
  <2>3. FirstEgress' = {guard.next}
    BY <1>5, <2>1, <2>2
  <2>4. bootStep = "idle"
    BY <1>0, <2>1 DEF BootFirst, TypeOK, MachineTypeOK
  <2>. QED
    BY <1>1, <2>1, <2>2, <2>3, <2>4
<1>8. CASE UnjumpBoot /\ ~UNCHANGED output
  <2>1. DeleteJump("BOOT") /\ guard' = guard /\ bootStep' = bootStep
        /\ guard.step = "unboot"
    BY <1>8 DEF UnjumpBoot
  <2>2. PICK d \in FirstEgress : d # "BOOT"
    BY <1>0, <2>1
  <2>3. FirstEgress' = {d} /\ FirstEgress = {d}
    BY <1>0, <1>5, <2>1, <2>2
  <2>4. bootStep = "idle"
    BY <1>0, <2>1 DEF BootFirst, TypeOK, MachineTypeOK
  <2>. QED
    BY <1>1, <2>1, <2>2, <2>3, <2>4
<1>. QED
  BY <1>3, <1>4, <1>6, <1>7, <1>8 DEF JumpCommand

LEMMA SwapAlways == Spec => []SwapInv
<1>1. Init => SwapInv
  <2> SUFFICES ASSUME Init PROVE SwapInv
    OBVIOUS
  <2>1. FirstEgress = {}
    BY DEF Init, FirstEgress
  <2>2. chain["BOOT"] = <<>>
    BY DEF Init, NoChains, Chains
  <2>. QED
    BY <2>1, <2>2 DEF Init, IdleGuard, SwapInv, SwapProgress, BootHandsOver, Locked
<1>2. IInv /\ SwapInv /\ [Next]_vars => SwapInv'
  <2> SUFFICES ASSUME IInv, SwapInv, [Next]_vars PROVE SwapInv'
    OBVIOUS
  <2>1. CASE PowerOff
    <3>1. FirstEgress' = {} /\ chain'["BOOT"] = <<>>
      BY <2>1 DEF PowerOff, FirstEgress, NoChains, Chains
    <3>. QED
      BY <2>1, <3>1
      DEF PowerOff, IdleGuard, SwapInv, SwapProgress, BootHandsOver, Locked
  <2>2. ASSUME ~PowerOff, ~ChainCommand, ~JumpCommand PROVE UNCHANGED <<output, chain>>
    <3>1. ASSUME NEW p \in Coop, CoopStep(p) PROVE UNCHANGED <<output, chain>>
      BY <3>1 DEF CoopStep, Configure, WriteConf, EnableUnits, RestartGuard,
         StartTimer, VerifyRoute, StartSession, Leave, guestVars
    <3>2. ASSUME GuardStep PROVE UNCHANGED <<output, chain>>
      BY <2>2, <3>2 DEF GuardStep, ChainCommand, JumpCommand, SetRoutes, AddRule,
         PickNext, DeleteActive, DeleteActiveRefused, RunStops, SetPolicy, guestVars
    <3>. QED
      BY <2>2, <3>1, <3>2 DEF Next, ChainCommand, JumpCommand, PowerOn, BootPolicy,
         BootFails, TimerFires, GuardDies, RunStops, LoopGivesUp, LoseRoutes,
         GatewayMoves, guestVars, vars
  <2>. QED
    BY <2>1, <2>2, SwapScriptGoesOn, SwapChains, SwapJumps
<1>. QED
  BY <1>1, <1>2, InductiveInvariant, PTL DEF Spec

\* A chain that decides about established connections lets them pass: its first
\* rule says so.
LEMMA EstablishedFirst ==
  ASSUME IInv, SwapInv, NEW c \in Chains
  PROVE  Decides(c, "established") => Accepts(c, "established")
<1> SUFFICES ASSUME Decides(c, "established") PROVE Accepts(c, "established")
  OBVIOUS
<1>1. chain[c] \in Seq(Rules)
  BY DEF IInv, TypeOK, FilterTypeOK
<1>2. 1 \in 1..Len(chain[c])
  BY <1>1 DEF Decides
<1>3. chain[c][1] = "established"
  <2>1. CASE c \in Egress
    BY <1>2, <2>1 DEF IInv, ChainsInOrder, EgressRules
  <2>2. CASE c = "BOOT"
    BY <1>2, <2>2 DEF SwapInv, BootHandsOver, BootRules
  <2>. QED
    BY <2>1, <2>2 DEF Chains
<1>. QED
  BY <1>2, <1>3 DEF Accepts, Matches

\* Where some chain decides, the first of them does.
LEMMA SomeChainPasses ==
  ASSUME IInv, SwapInv, NEW i \in 1..Len(output), Decides(output[i], "established")
  PROVE  Passes("established")
<1> DEFINE T == {k \in 1..Len(output) : Decides(output[k], "established")}
<1>0. Len(output) \in Nat
  BY DEF IInv, TypeOK, FilterTypeOK
<1>1. T \subseteq Nat /\ T # {}
  BY <1>0
<1>2. PICK m \in T : \A k \in T : m <= k
  BY <1>1, LeastNat
<1>3. \A j \in 1..(m-1) : ~Decides(output[j], "established")
  <2> SUFFICES ASSUME NEW j \in 1..(m-1), Decides(output[j], "established") PROVE FALSE
    OBVIOUS
  <2>1. j \in 1..Len(output)
    BY <1>2 DEF IInv, TypeOK, FilterTypeOK
  <2>. QED
    BY <1>1, <1>2, <2>1
<1>4. m \in 1..Len(output) /\ output[m] \in Chains
  BY <1>2 DEF IInv, TypeOK, FilterTypeOK
<1>. QED
  BY <1>2, <1>3, <1>4, EstablishedFirst DEF Passes

\* Nothing the guard or its interruption does cuts an established connection,
\* and the chain that decides first is always complete.
THEOREM SwapCutsNothing == Spec => []SwapNeverCuts
<1>1. IInv /\ SwapInv => SwapNeverCuts
  <2> SUFFICES ASSUME IInv, SwapInv PROVE Passes("established")
    BY DEF SwapNeverCuts, SwapInv, SwapProgress
  <2>1. CASE \E i \in 1..Len(output) : Decides(output[i], "established")
    BY <2>1, SomeChainPasses
  <2>2. CASE ~Locked /\ \A i \in 1..Len(output) : ~Decides(output[i], "established")
    BY <2>2 DEF Passes, Locked, IInv, TypeOK, FilterTypeOK
  <2>3. CASE Locked
    <3>1. ASSUME NEW c, chain[c] \in {EgressRules, BootRules}
          PROVE  Decides(c, "established")
      BY <3>1 DEF Decides, Matches, EgressRules, BootRules
    <3>2. PICK i \in 1..Len(output) : chain[output[i]] \in {EgressRules, BootRules}
      BY <2>3, FirstEgressIs DEF SwapInv, SwapProgress, BootHandsOver, BootJump
    <3>. QED
      BY <3>1, <3>2, SomeChainPasses
  <2>. QED
    BY <2>1, <2>2, <2>3
<1>. QED
  BY <1>1, InductiveInvariant, SwapAlways, PTL
-----------------------------------------------------------------------------
(* The egress policy *)

\* Where OUTPUT has a jump to an egress chain, one of these jumps is first.
LEMMA SomeEgressIsFirst ==
  ASSUME output \in Seq(Chains), NEW i \in 1..Len(output), output[i] \in Egress
  PROVE  FirstEgress # {}
<1> DEFINE T == {k \in 1..Len(output) : output[k] \in Egress}
<1>1. T \subseteq Nat /\ T # {}
  OBVIOUS
<1>2. PICK m \in T : \A k \in T : m <= k
  BY <1>1, LeastNat
<1>3. ASSUME NEW j \in 1..(m-1) PROVE output[j] \notin Egress
  <2>1. j \in 1..Len(output) /\ ~(m <= j)
    BY <1>2
  <2>. QED
    BY <1>2, <2>1
<1>4. output[m] \in FirstEgress
  BY <1>2, <1>3, FirstEgressIs
<1>. QED
  BY <1>4

\* A chain that accepts public traffic is an egress chain.
LEMMA PublicNeedsEgress ==
  ASSUME IInv, NEW c \in Chains, Accepts(c, "public")
  PROVE  c \in Egress
<1>1. PICK k \in 1..Len(chain[c]) :
        Matches(chain[c][k], "public") /\ chain[c][k] # "reject"
  BY DEF Accepts
<1>2. chain[c][k] \in {"accept", "public"}
  BY <1>1 DEF Matches
<1>. QED
  BY <1>1, <1>2 DEF IInv, ChainsInOrder, Chains

\* A whole egress chain accepts public traffic, and the boot chain has no rule
\* about it.
LEMMA WholeChainAccepts ==
  ASSUME NEW c, chain[c] = EgressRules
  PROVE  Accepts(c, "public")
<1>1. /\ Len(chain[c]) = 4
      /\ chain[c][1] = "established" /\ chain[c][2] = "dns"
      /\ chain[c][3] = "reject" /\ chain[c][4] = "accept"
  BY DEF EgressRules
<1>2. \A j \in 1..3 : ~Matches(chain[c][j], "public")
  BY <1>1 DEF Matches
<1>. QED
  BY <1>1, <1>2 DEF Accepts, Matches

LEMMA BootSaysNothing ==
  ASSUME IInv, ChainsInOrder
  PROVE  ~Decides("BOOT", "public")
BY DEF ChainsInOrder, Decides, Matches

\* In a locked guest public traffic passes exactly where an egress chain is
\* reached: whichever is first is whole.
LEMMA WayOutIsFirstEgress ==
  ASSUME IInv, SwapInv, Locked
  PROVE  Passes("public") <=> FirstEgress # {}
<1>0. output \in Seq(Chains) /\ ChainsInOrder
  BY DEF IInv, TypeOK, FilterTypeOK
<1>1. ASSUME Passes("public") PROVE FirstEgress # {}
  <2>1. PICK i \in 1..Len(output) : Accepts(output[i], "public")
    BY <1>1 DEF Passes, Locked
  <2>2. output[i] \in Egress
    BY <1>0, <2>1, PublicNeedsEgress
  <2>. QED
    BY <1>0, <2>2, SomeEgressIsFirst
<1>2. ASSUME FirstEgress # {} PROVE Passes("public")
  <2>1. PICK c \in FirstEgress : chain[c] = EgressRules
    BY <1>2 DEF SwapInv, SwapProgress
  <2>2. PICK i \in 1..Len(output) :
          output[i] = c /\ \A j \in 1..(i-1) : output[j] \notin Egress
    BY <2>1, FirstEgressIs
  <2>3. ASSUME NEW j \in 1..(i-1) PROVE ~Decides(output[j], "public")
    <3>1. j \in 1..Len(output)
      BY <1>0, <2>2
    <3>2. output[j] = "BOOT"
      BY <1>0, <2>2, <3>1 DEF Chains
    <3>. QED
      BY <1>0, <3>2, BootSaysNothing
  <2>4. Accepts(output[i], "public")
    BY <2>1, <2>2, WholeChainAccepts
  <2>. QED
    BY <2>3, <2>4 DEF Passes
<1>. QED
  BY <1>1, <1>2

\* What the three exits mean for the jumps of OUTPUT.
ExitMeans ==
  /\ Exit = "open" <=> ~Locked
  /\ Exit = "guarded" <=> Locked /\ FirstEgress # {}
  /\ Exit = "closed" <=> Locked /\ FirstEgress = {}

LEMMA ExitIs == IInv /\ SwapInv => ExitMeans
<1> SUFFICES ASSUME IInv, SwapInv PROVE ExitMeans
  OBVIOUS
<1> USE DEF ExitMeans
<1>1. CASE ~Locked
  BY <1>1 DEF Exit
<1>2. CASE Locked /\ Passes("public")
  BY <1>2, WayOutIsFirstEgress DEF Exit
<1>3. CASE Locked /\ ~Passes("public")
  BY <1>3, WayOutIsFirstEgress DEF Exit
<1>. QED
  BY <1>1, <1>2, <1>3
-----------------------------------------------------------------------------
\* Only switching the machine off takes the first egress chain away.
LEMMA WayOutStays ==
  ASSUME IInv, SwapInv, [Next]_vars, ~PowerOff, FirstEgress # {}
  PROVE  FirstEgress' # {}
<1>0. output \in Seq(Chains) /\ guard.next \in Egress
  BY DEF IInv, TypeOK, FilterTypeOK, GuardTypeOK, GuardType
<1>1. CASE UNCHANGED output
  BY <1>1 DEF FirstEgress
<1>2. CASE BootInsert
  BY <1>0, <1>2, BootJumpInFront DEF BootInsert
<1>3. CASE InsertJump
  BY <1>0, <1>3, EgressJumpInFront DEF InsertJump
<1>4. CASE UnjumpActive /\ ~UNCHANGED output
  <2>1. DeleteJump(guard.active) /\ guard.step = "unjump"
    BY <1>4 DEF UnjumpActive
  <2>2. guard.next \in FirstEgress /\ guard.active # guard.next
    BY <2>1 DEF SwapInv, SwapProgress
  <2>. QED
    BY <1>0, <2>1, <2>2, OtherJumpDeleted
<1>5. CASE UnjumpBoot /\ ~UNCHANGED output
  <2>1. DeleteJump("BOOT")
    BY <1>5 DEF UnjumpBoot
  <2>2. PICK d \in FirstEgress : d # "BOOT"
    BY FirstEgressIs DEF Egress
  <2>. QED
    BY <1>0, <2>1, <2>2, OtherJumpDeleted
<1>6. ASSUME NEW p \in Coop, CoopStep(p) PROVE UNCHANGED output
  BY <1>6 DEF CoopStep, Configure, WriteConf, EnableUnits, RestartGuard,
     StartTimer, VerifyRoute, StartSession, Leave, guestVars
<1>7. ASSUME GuardStep, ~InsertJump, ~UnjumpActive, ~UnjumpBoot PROVE UNCHANGED output
  BY <1>7 DEF GuardStep, SetRoutes, AddRule, PickNext, FlushNext, AppendRule,
     EmptyActive, DeleteActive, DeleteActiveRefused, RunStops, DeleteBoot, SetPolicy,
     guestVars
<1>8. ASSUME ~GuardStep, ~BootInsert, ~(\E p \in Coop : CoopStep(p))
      PROVE  UNCHANGED output
  BY <1>8 DEF Next, PowerOn, BootFill, BootPolicy, BootFails, TimerFires, GuardDies,
     RunStops, LoopGivesUp, LoseRoutes, GatewayMoves, guestVars, vars
<1>. QED
  BY <1>1, <1>2, <1>3, <1>4, <1>5, <1>6, <1>7, <1>8

\* Only switching the machine off unlocks it; the last command of a guard locks.
LEMMA LockStays ==
  ASSUME [Next]_vars, ~PowerOff
  PROVE  policy' = policy \/ (policy' = "DROP" /\ (BootPolicy \/ SetPolicy))
<1>1. ASSUME NEW p \in Coop, CoopStep(p) PROVE UNCHANGED policy
  BY <1>1 DEF CoopStep, Configure, WriteConf, EnableUnits, RestartGuard,
     StartTimer, VerifyRoute, StartSession, Leave, guestVars
<1>2. ASSUME GuardStep, ~SetPolicy PROVE UNCHANGED policy
  BY <1>2 DEF GuardStep, SetRoutes, AddRule, PickNext, FlushNext, AppendRule,
     InsertJump, UnjumpActive, UnjumpBoot, EmptyActive, DeleteActive,
     DeleteActiveRefused, RunStops, DeleteBoot, guestVars
<1>. QED
  BY <1>1, <1>2 DEF Next, PowerOn, BootFill, BootInsert, BootPolicy, BootFails,
     TimerFires, GuardDies, RunStops, LoopGivesUp, LoseRoutes, GatewayMoves, SetPolicy,
     guestVars, vars

\* What a step does to the exit, the machine staying on.
LEMMA ExitStep ==
  ASSUME IInv, SwapInv, IInv', SwapInv', [Next]_vars, ~PowerOff
  PROVE  \/ Exit' = Exit
         \/ Exit = "closed" /\ Exit' = "guarded"
         \/ Exit = "open" /\ Exit' \in {"closed", "guarded"} /\ (BootPolicy \/ SetPolicy)
<1>1. ExitMeans
  BY ExitIs
<1>2. ExitMeans'
  BY ExitIs, PTL
<1>3. Locked => Locked'
  BY LockStays DEF Locked
<1>4. Locked' => Locked \/ BootPolicy \/ SetPolicy
  BY LockStays DEF Locked
<1>5. FirstEgress # {} => FirstEgress' # {}
  BY WayOutStays
<1>. QED
  BY <1>1, <1>2, <1>3, <1>4, <1>5 DEF ExitMeans

\* What a step does to the routes, the machine staying on: a gateway's is set,
\* they are lost, or nothing changes.
LEMMA HopStep ==
  ASSUME IInv, flushed => ~Routed(route), [Next]_vars, ~PowerOff
  PROVE  \/ UNCHANGED <<NextHop(route), flushed>>
         \/ NextHop(route)' \in Gateways /\ ~flushed' /\ (SetRoutes \/ AddRule)
         \/ NextHop(route)' = None /\ flushed' /\ LoseRoutes
<1>0. /\ route \in [default : Gateways \cup {None}, rule : BOOLEAN]
      /\ guard.gw \in Gateways \cup {None}
      /\ GuardProgress /\ flushed \in BOOLEAN
  BY DEF IInv, TypeOK, FilterTypeOK, GuardTypeOK, GuardType, MachineTypeOK
<1> USE DEF Routed, NextHop
<1>1. CASE SetRoutes
  <2>1. route'.default = guard.gw /\ route'.rule = route.rule
    BY <1>0, <1>1 DEF SetRoutes
  <2>2. guard.gw \in Gateways
    BY <1>0, <1>1 DEF SetRoutes, GuardProgress
  <2>3. flushed' = (flushed /\ ~Routed(route'))
    BY <1>1 DEF SetRoutes
  <2>4. CASE route.rule
    BY <1>1, <2>1, <2>2, <2>3, <2>4, GuardAssumption
  <2>5. CASE ~route.rule
    BY <1>0, <2>1, <2>3, <2>5
  <2>. QED
    BY <2>4, <2>5
<1>2. CASE AddRule
  <2>1. route'.default = route.default /\ route'.rule
    BY <1>0, <1>2 DEF AddRule
  <2>2. flushed' = (flushed /\ ~Routed(route'))
    BY <1>2 DEF AddRule
  <2>3. CASE route.default = None
    BY <1>0, <2>1, <2>2, <2>3
  <2>4. CASE route.default # None
    BY <1>0, <1>2, <2>1, <2>2, <2>4
  <2>. QED
    BY <2>3, <2>4
<1>3. CASE LoseRoutes
  <2>1. PICK d \in {route.default, None}, r \in {route.rule, FALSE} :
          route' = [default |-> d, rule |-> r]
    BY <1>3 DEF LoseRoutes
  <2>2. route = [default |-> route.default, rule |-> route.rule]
    BY <1>0
  <2>3. route' # route /\ flushed'
    BY <1>3 DEF LoseRoutes
  <2>4. d = None \/ r = FALSE
    BY <2>1, <2>2, <2>3
  <2>5. route'.default = d /\ route'.rule = r
    BY <2>1
  <2>. QED
    BY <1>3, <2>3, <2>4, <2>5
<1>4. CASE UNCHANGED <<route, flushed>>
  BY <1>4
<1>5. ASSUME NEW p \in Coop, CoopStep(p) PROVE UNCHANGED <<route, flushed>>
  BY <1>5 DEF CoopStep, Configure, WriteConf, EnableUnits, RestartGuard,
     StartTimer, VerifyRoute, StartSession, Leave, guestVars
<1>6. ASSUME GuardStep, ~SetRoutes, ~AddRule PROVE UNCHANGED <<route, flushed>>
  BY <1>6 DEF GuardStep, PickNext, FlushNext, AppendRule, InsertJump,
     UnjumpActive, EmptyActive, DeleteActive, DeleteActiveRefused, RunStops,
     UnjumpBoot, DeleteBoot, SetPolicy, guestVars
<1>7. ASSUME ~GuardStep, ~LoseRoutes, ~(\E p \in Coop : CoopStep(p))
      PROVE  UNCHANGED <<route, flushed>>
  BY <1>7 DEF Next, PowerOn, BootFill, BootInsert, BootPolicy, BootFails,
     TimerFires, GuardDies, RunStops, LoopGivesUp, GatewayMoves, guestVars, vars
<1>. QED
  BY <1>1, <1>2, <1>3, <1>4, <1>5, <1>6, <1>7

\* A command gets past its restart only when a run of the guard ends, with an
\* egress chain in place.
Past == {"timer", "verify", "launch", "session"}

LEMMA ReadyStep ==
  ASSUME IInv, SwapInv, [Next]_vars, NEW p \in Coop, pc'[p] \in Past
  PROVE  ~PowerOff /\ (pc[p] \in Past \/ FirstEgress # {})
<1>0. pc \in [Coop -> {"idle", "lockdown", "enable", "restart", "wait", "timer",
                       "verify", "launch", "session"}]
  BY DEF IInv, TypeOK, CoopTypeOK
<1> USE DEF Past
<1>1. ~PowerOff
  BY DEF PowerOff
<1>2. CASE SetPolicy
  <2>1. guard.step = "policy"
    BY <1>2 DEF SetPolicy
  <2>. QED
    BY <1>1, <2>1 DEF SwapInv, SwapProgress
<1>3. CASE GuardDies \/ DeleteActiveRefused
  <2>1. pc'[p] = IF pc[p] = "wait" THEN "idle" ELSE pc[p]
    BY <1>3 DEF GuardDies, DeleteActiveRefused, RunStops
  <2>. QED
    BY <1>1, <2>1
<1>4. ASSUME NEW q \in Coop, CoopStep(q) PROVE pc[p] \in Past
  BY <1>0, <1>4 DEF CoopStep, Configure, WriteConf, EnableUnits, RestartGuard,
     StartTimer, VerifyRoute, StartSession, Leave
<1>5. ASSUME GuardStep, ~SetPolicy, ~DeleteActiveRefused PROVE UNCHANGED pc
  BY <1>5 DEF GuardStep, SetRoutes, AddRule, PickNext, FlushNext, AppendRule,
     InsertJump, UnjumpActive, UnjumpBoot, EmptyActive, DeleteActive, DeleteBoot,
     coopVars
<1>6. ASSUME ~GuardStep, ~GuardDies, ~(\E q \in Coop : CoopStep(q))
      PROVE  UNCHANGED pc
  BY <1>1, <1>6 DEF Next, PowerOn, BootFill, BootInsert, BootPolicy, BootFails,
     TimerFires, LoopGivesUp, LoseRoutes, GatewayMoves, coopVars, vars
<1>. QED
  BY <1>1, <1>2, <1>3, <1>4, <1>5, <1>6

\* The strengthening that the mapping of routes, timer and sessions needs.
LEMMA PolicyInvStep ==
  ASSUME IInv, SwapInv, PolicyInv, [Next]_vars
  PROVE  PolicyInv'
<1>1. vm' # "up" => ~timer'
  <2>1. ASSUME NEW p \in Coop, CoopStep(p) PROVE vm' # "up" => ~timer'
    BY <2>1 DEF CoopStep, Configure, WriteConf, EnableUnits, RestartGuard, StartTimer,
       VerifyRoute, StartSession, Leave, guestVars, confVars, PolicyInv, IInv,
       CoopProgress
  <2>2. ASSUME GuardStep PROVE UNCHANGED <<vm, timer>>
    BY <2>2 DEF GuardStep, SetRoutes, AddRule, PickNext, FlushNext, AppendRule,
       InsertJump, UnjumpActive, UnjumpBoot, EmptyActive, DeleteActive,
       DeleteActiveRefused, RunStops, DeleteBoot, SetPolicy, guestVars, confVars
  <2>. QED
    BY <2>1, <2>2 DEF Next, PowerOn, PowerOff, BootFill, BootInsert, BootPolicy,
       BootFails, BootDone, TimerFires, GuardDies, RunStops, LoopGivesUp, LoseRoutes,
       GatewayMoves, guestVars, confVars, vars, PolicyInv
<1>2. flushed' => ~Routed(route')
  <2>1. CASE PowerOff
    BY <2>1 DEF PowerOff
  <2>2. CASE ~PowerOff
    <3>1. flushed => ~Routed(route)
      BY DEF PolicyInv
    <3>2. \/ UNCHANGED <<NextHop(route), flushed>>
          \/ ~flushed'
          \/ NextHop(route)' = None
      BY <2>2, <3>1, HopStep
    <3>. QED
      BY <3>1, <3>2 DEF Routed, NextHop
  <2>. QED
    BY <2>1, <2>2
<1>3. ASSUME NEW p \in Coop, pc'[p] \in {"timer", "verify", "launch", "session"}
      PROVE  FirstEgress' # {}
  <2>1. ~PowerOff /\ (pc[p] \in Past \/ FirstEgress # {})
    BY <1>3, ReadyStep DEF Past
  <2>2. FirstEgress # {}
    BY <2>1 DEF PolicyInv, Past
  <2>. QED
    BY <2>1, <2>2, WayOutStays
<1>. QED
  BY <1>1, <1>2, <1>3 DEF PolicyInv
LEMMA PolicyInvariant == Spec => []PolicyInv
<1>1. Init => PolicyInv
  BY DEF Init, PolicyInv
<1>2. IInv /\ SwapInv /\ PolicyInv /\ [Next]_vars => PolicyInv'
  BY PolicyInvStep
<1>. QED
  BY <1>1, <1>2, InductiveInvariant, SwapAlways, PTL DEF Spec
-----------------------------------------------------------------------------
\* Behind an egress chain in OUTPUT are routes, or routes that were lost.
LEMMA WayOutIsRouted ==
  IInv /\ SwapInv /\ FirstEgress # {} => Routed(route) \/ flushed
<1> SUFFICES ASSUME IInv, SwapInv, FirstEgress # {} PROVE Routed(route) \/ flushed
  OBVIOUS
<1>1. PICK c \in FirstEgress : chain[c] = EgressRules
  BY DEF SwapInv, SwapProgress
<1>2. c \in Egress
  BY FirstEgressIs
<1>. QED
  BY <1>1, <1>2 DEF IInv, AcceptBehindRoutes

\* The sessions a step begins or ends.
Running == {p \in Coop : pc[p] = "session"}

LEMMA SessionStep ==
  ASSUME IInv, [Next]_vars, ~PowerOff, ~(\E p \in Coop : CoopStep(p))
  PROVE  Running' = Running
<1> SUFFICES \A p \in Coop : pc'[p] = "session" <=> pc[p] = "session"
  BY DEF Running
<1>1. CASE SetPolicy
  BY <1>1 DEF SetPolicy
<1>2. CASE GuardDies \/ DeleteActiveRefused
  BY <1>2 DEF GuardDies, DeleteActiveRefused, RunStops
<1>3. ASSUME GuardStep, ~SetPolicy, ~DeleteActiveRefused PROVE UNCHANGED pc
  BY <1>3 DEF GuardStep, SetRoutes, AddRule, PickNext, FlushNext, AppendRule,
     InsertJump, UnjumpActive, UnjumpBoot, EmptyActive, DeleteActive, DeleteBoot,
     coopVars
<1>4. ASSUME ~GuardStep, ~GuardDies PROVE UNCHANGED pc
  BY <1>4 DEF Next, PowerOn, BootFill, BootInsert, BootPolicy, BootFails,
     TimerFires, LoopGivesUp, LoseRoutes, GatewayMoves, coopVars, vars
<1>. QED
  BY <1>1, <1>2, <1>3, <1>4

\* The exit is the same where neither the jumps nor the policy change.
LEMMA ExitKept ==
  ASSUME ExitMeans, ExitMeans', UNCHANGED <<output, policy>>
  PROVE  Exit' = Exit
<1>1. FirstEgress' = FirstEgress /\ (Locked' <=> Locked)
  BY DEF FirstEgress, Locked
<1>. QED
  BY <1>1 DEF ExitMeans

\* A command's step is a step of the policy or none.
LEMMA CoopFollowsPolicy ==
  ASSUME IInv, SwapInv, PolicyInv, ExitMeans, ExitMeans', NEW p \in Coop, CoopStep(p)
  PROVE  Policy!Next \/ UNCHANGED Policy!vars
<1>0. /\ UNCHANGED <<output, policy, route, flushed>>
      /\ pc \in [Coop -> {"idle", "lockdown", "enable", "restart", "wait", "timer",
                          "verify", "launch", "session"}]
  BY DEF CoopStep, Configure, WriteConf, EnableUnits, RestartGuard, StartTimer,
     VerifyRoute, StartSession, Leave, guestVars, IInv, TypeOK, CoopTypeOK
<1>1. Exit' = Exit /\ NextHop(route)' = NextHop(route) /\ flushed' = flushed
  BY <1>0, ExitKept
<1>2. CASE StartTimer(p)
  <2>1. Running' = Running /\ timer' = TRUE
    BY <1>0, <1>2 DEF StartTimer, Running
  <2>2. Policy!Watch
    BY <1>1, <2>1 DEF Policy!Watch, Running
  <2>. QED
    BY <2>2 DEF Policy!Next
<1>3. CASE StartSession(p)
  <2>1. Running' = Running \cup {p} /\ timer' = timer /\ pc[p] = "launch"
    BY <1>0, <1>3 DEF StartSession, Running, confVars
  <2>2. Exit = "guarded" /\ timer
    BY <2>1 DEF PolicyInv, ExitMeans, IInv, CoopProgress
  <2>3. Policy!Begin(p)
    BY <1>1, <2>1, <2>2 DEF Policy!Begin, Running
  <2>. QED
    BY <2>3 DEF Policy!Next
<1>4. CASE Leave(p)
  <2>1. Running' = Running \ {p} /\ timer' = timer
    BY <1>0, <1>4 DEF Leave, Running, confVars
  <2>2. Policy!End(p)
    BY <1>1, <2>1 DEF Policy!End, Running
  <2>. QED
    BY <2>2 DEF Policy!Next
<1>5. CASE Configure(p) \/ WriteConf(p) \/ EnableUnits(p) \/ RestartGuard(p)
           \/ VerifyRoute(p)
  <2>1. Running' = Running /\ timer' = timer
    BY <1>0, <1>5 DEF Configure, WriteConf, EnableUnits, RestartGuard, VerifyRoute,
       Running, confVars
  <2>. QED
    BY <1>1, <2>1 DEF Policy!vars, Running
<1>. QED
  BY <1>2, <1>3, <1>4, <1>5 DEF CoopStep

\* So is a step that sets or loses routes.
LEMMA RoutesFollowPolicy ==
  ASSUME IInv, SwapInv, PolicyInv, ExitMeans, ExitMeans',
         SetRoutes \/ AddRule \/ LoseRoutes
  PROVE  Policy!Next \/ UNCHANGED Policy!vars
<1>1. UNCHANGED <<output, policy, timer>> /\ Running' = Running
  BY DEF SetRoutes, AddRule, LoseRoutes, coopVars, confVars, Running
<1>2. Exit' = Exit
  BY <1>1, ExitKept
<1>3. Next /\ ~PowerOff
  BY DEF Next, GuardStep, SetRoutes, AddRule, LoseRoutes, PowerOff, IdleGuard, IInv,
     TypeOK, GuardTypeOK, GuardType, MachineTypeOK
<1>4. flushed => ~Routed(route)
  BY DEF PolicyInv
<1>5. \/ NextHop(route)' = NextHop(route) /\ flushed' = flushed
      \/ NextHop(route)' \in Gateways /\ flushed' = FALSE
      \/ NextHop(route)' = None /\ flushed' = TRUE
  BY <1>3, <1>4, HopStep DEF IInv, TypeOK, MachineTypeOK, SetRoutes, AddRule, LoseRoutes
<1>6. CASE NextHop(route)' = NextHop(route) /\ flushed' = flushed
  BY <1>1, <1>2, <1>6 DEF Policy!vars, Running
<1>7. CASE NextHop(route)' \in Gateways /\ flushed' = FALSE
  <2>1. \E g \in Gateways : Policy!SetRoute(g)
    BY <1>1, <1>2, <1>7 DEF Policy!SetRoute, Running
  <2>. QED
    BY <2>1 DEF Policy!Next
<1>8. CASE NextHop(route)' = None /\ flushed' = TRUE
  <2>1. Policy!LoseRoute
    BY <1>1, <1>2, <1>8 DEF Policy!LoseRoute, Running
  <2>. QED
    BY <2>1 DEF Policy!Next
<1>. QED
  BY <1>5, <1>6, <1>7, <1>8

\* The last command of the boot guard locks, and an enabled timer starts.
LEMMA BootFollowsPolicy ==
  ASSUME IInv, SwapInv, PolicyInv, IInv', SwapInv', ExitMeans, ExitMeans',
         BootPolicy \/ BootFails
  PROVE  Policy!Next \/ UNCHANGED Policy!vars
<1>1. /\ UNCHANGED <<output, route, flushed>> /\ Running' = Running
      /\ NextHop(route)' = NextHop(route)
      /\ policy' = policy \/ policy' = "DROP"
  BY DEF BootPolicy, BootFails, coopVars, Running
<1>2. timer' \in {timer, TRUE}
  <2>1. vm = "early" /\ timer' = enabled
    BY DEF BootPolicy, BootFails, BootDone, BootFirst, IInv
  <2>2. timer = FALSE
    BY <2>1 DEF PolicyInv, IInv, TypeOK, GuardTypeOK
  <2>3. enabled \in BOOLEAN
    BY DEF IInv, TypeOK, GuardTypeOK
  <2>. QED
    BY <2>1, <2>2, <2>3
<1>3. CASE policy' = policy
  <2>1. Exit' = Exit
    BY <1>1, <1>3, ExitKept
  <2>2. CASE timer' = timer
    BY <1>1, <2>1, <2>2 DEF Policy!vars, Running
  <2>3. CASE timer' = TRUE
    <3>1. Policy!Watch
      BY <1>1, <2>1, <2>3 DEF Policy!Watch, Running
    <3>. QED
      BY <3>1 DEF Policy!Next
  <2>. QED
    BY <1>2, <2>2, <2>3
<1>4. CASE policy' # policy
  <2>1. Exit = "open" /\ Exit' \in {"closed", "guarded"}
    BY <1>1, <1>4 DEF ExitMeans, Locked
  <2>2. Exit' = "guarded" => Routed(route') \/ flushed'
    <3>1. (FirstEgress # {} => Routed(route) \/ flushed)'
      BY WayOutIsRouted, PTL
    <3>. QED
      BY <3>1 DEF ExitMeans, Routed, NextHop
  <2>3. Exit' = "guarded" => Policy!WayOut
    BY <1>1, <2>2 DEF Policy!WayOut, Routed
  <2>4. Policy!Lock
    BY <1>1, <1>2, <2>1, <2>3 DEF Policy!Lock, Running
  <2>. QED
    BY <2>4 DEF Policy!Next
<1>. QED
  BY <1>3, <1>4

\* Every other step leaves routes, timer and sessions alone: it locks, opens the
\* way out, or changes nothing that the policy speaks of.
LEMMA FilterFollowsPolicy ==
  ASSUME IInv, SwapInv, IInv', SwapInv', ExitMeans, ExitMeans', [Next]_vars,
         ~PowerOff, ~BootPolicy, UNCHANGED <<route, flushed, timer>>, Running' = Running
  PROVE  Policy!Next \/ UNCHANGED Policy!vars
<1>1. NextHop(route)' = NextHop(route)
  OBVIOUS
<1>2. ASSUME Exit' = "guarded" PROVE Policy!WayOut
  <2>1. FirstEgress' # {}
    BY <1>2 DEF ExitMeans
  <2>2. (FirstEgress # {} => Routed(route) \/ flushed)'
    BY WayOutIsRouted, PTL
  <2>. QED
    BY <2>1, <2>2 DEF Policy!WayOut, Routed, NextHop
<1>3. CASE Exit' = Exit
  BY <1>1, <1>3 DEF Policy!vars, Running
<1>4. CASE Exit = "closed" /\ Exit' = "guarded"
  <2>1. Policy!Grant
    BY <1>1, <1>2, <1>4 DEF Policy!Grant, Running
  <2>. QED
    BY <2>1 DEF Policy!Next
<1>5. CASE Exit = "open" /\ Exit' \in {"closed", "guarded"}
  <2>1. Policy!Lock
    BY <1>1, <1>2, <1>5 DEF Policy!Lock, Running
  <2>. QED
    BY <2>1 DEF Policy!Next
<1>. QED
  BY <1>3, <1>4, <1>5, ExitStep

\* The guard and the commands beside it, with every failure and kill, implement
\* the egress policy.
THEOREM GuardImplementsPolicy == Spec => PolicyKept
<1>1. Init => Policy!Init
  <2> SUFFICES ASSUME Init PROVE Policy!Init
    OBVIOUS
  <2>1. Exit = "open"
    BY DEF Init, Exit, Locked
  <2>2. NextHop(route) = None /\ {p \in Coop : pc[p] = "session"} = {}
    BY DEF Init, NextHop
  <2>. QED
    BY <2>1, <2>2 DEF Init, Policy!Init
<1>2. /\ IInv /\ SwapInv /\ PolicyInv
      /\ IInv' /\ SwapInv' /\ ExitMeans /\ ExitMeans'
      /\ [Next]_vars
      => [Policy!Next]_(Policy!vars)
  <2> SUFFICES ASSUME IInv, SwapInv, PolicyInv, IInv', SwapInv', ExitMeans, ExitMeans',
                      [Next]_vars
               PROVE  Policy!Next \/ UNCHANGED Policy!vars
    OBVIOUS
  <2>1. CASE PowerOff
    <3>1. Exit' = "open"
      BY <2>1 DEF PowerOff, ExitMeans, Locked
    <3>2. /\ NextHop(route)' = None /\ flushed' = FALSE /\ timer' = FALSE
          /\ {p \in Coop : pc[p] = "session"}' = {}
      BY <2>1 DEF PowerOff, NextHop
    <3>3. Policy!SwitchOff
      BY <3>1, <3>2 DEF Policy!SwitchOff
    <3>. QED
      BY <3>3 DEF Policy!Next
  <2>2. ASSUME NEW p \in Coop, CoopStep(p) PROVE Policy!Next \/ UNCHANGED Policy!vars
    BY <2>2, CoopFollowsPolicy
  <2>3. CASE SetRoutes \/ AddRule \/ LoseRoutes
    BY <2>3, RoutesFollowPolicy
  <2>4. CASE BootPolicy \/ BootFails
    BY <2>4, BootFollowsPolicy
  <2>5. ASSUME ~PowerOff, ~SetRoutes, ~AddRule, ~LoseRoutes, ~BootPolicy, ~BootFails,
               ~(\E p \in Coop : CoopStep(p))
        PROVE  Policy!Next \/ UNCHANGED Policy!vars
    <3>1. Running' = Running
      BY <2>5, SessionStep
    <3>2. ASSUME GuardStep PROVE UNCHANGED <<route, flushed, timer>>
      BY <2>5, <3>2 DEF GuardStep, PickNext, FlushNext, AppendRule, InsertJump,
         UnjumpActive, UnjumpBoot, EmptyActive, DeleteActive, DeleteActiveRefused,
         RunStops, DeleteBoot, SetPolicy, guestVars, confVars
    <3>3. UNCHANGED <<route, flushed, timer>>
      BY <2>5, <3>2 DEF Next, PowerOn, BootFill, BootInsert, TimerFires, GuardDies,
         RunStops, LoopGivesUp, GatewayMoves, guestVars, confVars, vars
    <3>. QED
      BY <2>5, <3>1, <3>3, FilterFollowsPolicy
  <2>. QED
    BY <2>1, <2>2, <2>3, <2>4, <2>5
<1>. QED
  BY <1>1, <1>2, ExitIs, InductiveInvariant, SwapAlways, PolicyInvariant, PTL
  DEF Spec, PolicyKept, Policy!Spec
=============================================================================
