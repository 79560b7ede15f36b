---------------------------- MODULE MCAccessProofs ----------------------------
(***************************************************************************)
(* What is proved of the parts in MCAccess, for the composition: a step of *)
(* the whole is a step of one part, and stutters on the others.            *)
(***************************************************************************)
EXTENDS MCAccess, Sequences, FiniteSetTheorems, WellFoundedInduction, TLAPS

\* The commands of the instance satisfy what the theorems on its VMM ask.
LEMMA VmHypotheses ==
  Vm!VmAssumption /\ Vm!OneManager /\ Vm!EndsAreObeyed /\ "foreign" \notin Strangers
  BY AccessAssumption

VmPart == part = "vm" => Vm!TypeInv /\ Vm!VmInv /\ Vm!NoForeign

LEMMA VmPartInit == Init => VmPart
<1>1. Vm!Init => Vm!TypeInv
  BY VmHypotheses, Vm!TypeInit
<1>2. Vm!Init => Vm!VmInv
  BY Vm!VmInit
<1>3. Vm!Init => Vm!NoForeign
  BY DEF Vm!Init, Vm!NoForeign
<1>. QED
  BY <1>1, <1>2, <1>3 DEF Init, VmPart

\* A step of another part changes nothing here, and none changes the part.
LEMMA VmAlone ==
  ASSUME [Next]_vars, part' = "vm"
  PROVE  part = "vm" /\ [Vm!Next]_(Vm!vars)
BY DEF Next, vars, StepVm, StepHost, StepUp, StepDev, StepSession, StepGitHub, StepSsh,
   StepEgress, vmVars, Vm!vars, Vm!hostVars

LEMMA VmPartStep == VmPart /\ [Next]_vars => VmPart'
<1> SUFFICES ASSUME VmPart, [Next]_vars, part' = "vm"
             PROVE  Vm!TypeInv' /\ Vm!VmInv' /\ Vm!NoForeign'
  BY DEF VmPart
<1>1. [Vm!Next]_(Vm!vars) /\ Vm!TypeInv /\ Vm!VmInv /\ Vm!NoForeign
  BY VmAlone DEF VmPart
<1>. QED
  BY <1>1, VmHypotheses, Vm!TypeStep, Vm!VmStep, Vm!NoForeignStep

\* No second VMM ever opens the disk of the instance, and start finds the one there is
\* (src/src/vm.rs), whatever is killed, dies or is refused, for any commands that list.
THEOREM VmmFound == Spec => []OneFindableVmm
<1>1. VmPart => OneFindableVmm
  BY DEF VmPart, OneFindableVmm, Vm!VmInv, Vm!ProcessNamed, Vm!OneProcess, Vm!Own,
     Vm!SingleVmm, Vm!FindableVmm, Vm!Live
<1>. QED
  BY <1>1, VmPartInit, VmPartStep, PTL DEF Spec

\* A stop is for the instance's own VM, whoever got the PID since.
THEOREM StopIsForItsOwn == Spec => RunningIsOwn
<1>1. VmPart /\ [Next]_vars => [part = "vm" => Vm!StopsItsOwn]_<<pc, proc>>
  <2> SUFFICES ASSUME VmPart, [Next]_vars, part = "vm" PROVE Vm!StopsItsOwn
    OBVIOUS
  <2>1. part' = part
    BY DEF Next, vars, StepVm, StepHost, StepUp, StepDev, StepSession, StepGitHub,
       StepSsh, StepEgress
  <2>2. [Vm!Next]_(Vm!vars) /\ Vm!TypeInv /\ Vm!NoForeign
    BY <2>1, VmAlone DEF VmPart
  <2>. QED
    BY <2>2, Vm!StopIsOwn
<1>. QED
  BY <1>1, VmPartInit, VmPartStep, PTL DEF Spec, RunningIsOwn
-----------------------------------------------------------------------------
(* HostResources, with one proxied upstream and with two *)

LEMMA HostHypotheses == Host!HostAssumption /\ Host2!HostAssumption
  BY AccessAssumption

HostPart == (part = "host" => Host!HostInv) /\ (part = "host2" => Host2!HostInv)

LEMMA HostPartInit == Init => HostPart
<1>1. (Host!Init => Host!HostInv) /\ (Host2!Init => Host2!HostInv)
  BY HostHypotheses, Host!HostInit, Host2!HostInit
<1>. QED
  BY <1>1 DEF Init, HostPart

LEMMA HostAlone ==
  ASSUME [Next]_vars
  PROVE  /\ part' = "host" => part = "host" /\ [Host!Next]_(Host!vars)
         /\ part' = "host2" => part = "host2" /\ [Host2!Next]_(Host2!vars)
BY DEF Next, vars, StepVm, StepHost, StepUp, StepDev, StepSession, StepGitHub, StepSsh,
   StepEgress, hostVars, Host!vars, Host!netVars, Host!fwdVars, Host!proxyVars,
   Host!cmdVars, Host2!vars, Host2!netVars, Host2!fwdVars, Host2!proxyVars, Host2!cmdVars

LEMMA HostPartStep == HostPart /\ [Next]_vars => HostPart'
<1> SUFFICES ASSUME HostPart, [Next]_vars PROVE HostPart'
  OBVIOUS
<1>1. ASSUME part' = "host" PROVE Host!HostInv'
  BY <1>1, HostAlone, HostHypotheses, Host!HostStep DEF HostPart
<1>2. ASSUME part' = "host2" PROVE Host2!HostInv'
  BY <1>2, HostAlone, HostHypotheses, Host2!HostStep DEF HostPart
<1>. QED
  BY <1>1, <1>2 DEF HostPart

\* A running VM is on a bridge with its address and all rules, whatever the commands
\* for other instances do, unless one was interrupted in ensure_bridge or
\* teardown_bridge (src/src/network.rs).
THEOREM VmsStayConnected == Spec => []RunningIsConnected
<1>1. HostPart => RunningIsConnected
  BY Host!WhoRunsIsConnected, Host2!WhoRunsIsConnected DEF HostPart, RunningIsConnected
<1>. QED
  BY <1>1, HostPartInit, HostPartStep, PTL DEF Spec

\* A proxy with a credential, and a tunnel to one, is named by a PID file or still in
\* the hands of the command that started it, unless that was killed then
\* (src/src/proxy.rs).
THEOREM CredentialsStayOnRecord == Spec => []CredentialsTracked
<1>1. HostPart => CredentialsTracked
  BY DEF HostPart, CredentialsTracked, Host!HostInv, Host2!HostInv
<1>. QED
  BY <1>1, HostPartInit, HostPartStep, PTL DEF Spec

\* Whatever failed before, `destroy` leaves no forwarded port, tap, token or PID file
\* of the instance, and no process, but those a killed command lost sight of and the
\* ports of a master that refused to exit (commands/lifecycle.rs, port_forward.rs).
THEOREM DestroyLeavesNothing == Spec => []DestroyedLeavesNothing
<1>1. HostPart => DestroyedLeavesNothing
  BY Host!WhatIsLeft, Host2!WhatIsLeft DEF HostPart, DestroyedLeavesNothing
<1>. QED
  BY <1>1, HostPartInit, HostPartStep, PTL DEF Spec
-----------------------------------------------------------------------------
(* GuestSession *)

\* What holds of the environment a session was given, whatever it was put together of.
EnvFits(s) ==
  /\ \A p \in s.proxied : Session!KeyOf(p) \notin DOMAIN s.env
  /\ Session!CODEX_LOCAL_ENV_KEY \in DOMAIN s.env =>
       s.env[Session!CODEX_LOCAL_ENV_KEY] = IF s.proxied = {} THEN "endpoint" ELSE "capability"
  /\ Session!MARK \in DOMAIN s.env => Session!PROXY_ENV_NAMES \cap DOMAIN s.env = {}

\* The configuration a command works with may be an older one; its session was put
\* together from it, and seen only when launched.
SessionInv ==
  /\ cfg \in Configs /\ host \subseteq Session!Named
  /\ DOMAIN inst = Insts
  /\ \A i \in Insts : /\ DOMAIN inst[i] = DOMAIN Session!NewInst
                       /\ inst[i].snapshot \subseteq Session!Named
  /\ pc \in {"idle", "resolve", "prepare", "launch"}
  /\ DOMAIN job = {"cfg", "name", "kind", "repo"}
  /\ pc # "idle" => job.cfg \in Configs
  /\ pc = "prepare" => job.name \in Insts
  /\ pc \in {"resolve", "prepare"} => session = Session!NoSession
  /\ session # Session!NoSession \/ pc = "launch" =>
       DOMAIN session = {"i", "kind", "env", "proxied", "seen"} /\ EnvFits(session)
  /\ pc = "launch" =>
       /\ session.kind = job.kind
       /\ job.cfg.account => "OPENAI_API_KEY" \notin DOMAIN session.env
  /\ Session!RestrictedView

LEMMA SessionInit ==
  ASSUME Session!SessionAssumption PROVE Session!Init => SessionInv
  BY DEF Session!Init, SessionInv, Session!SessionAssumption, Session!RestrictedView,
         Session!Launched,
     Session!NoJob, Session!Absent, Session!NewInst, Session!Named

\* What a configuration names, a user may name.
LEMMA ConfigNames ==
  ASSUME Session!SessionAssumption, NEW c \in Configs
  PROVE  c.forward \subseteq Session!Named /\ c.guest_env \subseteq Session!Named
  BY DEF Session!SessionAssumption

\* Nothing that is suppressed is in an environment, whatever list it was named in: all
\* of them leave it out, and the names set by coop itself are none a user may name.
LEMMA SessionEnvFits ==
  ASSUME Session!SessionAssumption, NEW c \in Configs, NEW i \in Insts, NEW repo,
         inst[i].snapshot \subseteq Session!Named, host \subseteq Session!Named
  PROVE  LET e == Session!SessionEnv(c, i, repo)
             out == Session!Suppressed(c, Session!Proxied(c, i)) IN
         /\ out \cap DOMAIN e = {}
         /\ Session!MARK \in DOMAIN e <=> c.egress
         /\ Session!CODEX_LOCAL_ENV_KEY \in DOMAIN e =>
              /\ e[Session!CODEX_LOCAL_ENV_KEY] = Session!CodexBearer(c, i)
              /\ Session!CodexBearer(c, i) # Session!None
<1>. DEFINE e == Session!SessionEnv(c, i, repo)
            out == Session!Suppressed(c, Session!Proxied(c, i))
            Rest == Session!Over(Session!All(inst[i].snapshot \ out, "runtime"),
                                 Session!prepare_env_forwarding(c, i, repo, out))
            B == Session!One(Session!CODEX_LOCAL_ENV_KEY, Session!CodexBearer(c, i))
            Bearer == Session!Over(B, Rest)
            active == IF "openai" \in Session!Proxied(c, i) THEN "1" ELSE Session!None
            A == Session!One(Session!OPENAI_PROXY_ACTIVE_ENV, active)
            Active == Session!Over(A, Bearer)
<1>1. out \subseteq {"ANTHROPIC_API_KEY", "OPENAI_API_KEY"} \cup Session!PROXY_ENV_NAMES
  BY DEF Session!Suppressed, Session!KeyOf
<1>. USE DEF Session!MARK, Session!OPENAI_PROXY_ACTIVE_ENV, Session!CODEX_LOCAL_ENV_KEY,
             Session!Named, Session!PROXY_ENV_NAMES, Session!None
<1>. HIDE DEF out
<1>2. DOMAIN Session!prepare_env_forwarding(c, i, repo, out) \subseteq Session!Named \ out
  <2>1. c.forward \subseteq Session!Named /\ c.guest_env \subseteq Session!Named
    BY ConfigNames
  <2>. DEFINE P == {q \in Session!Providers : q \in c.keys \/ Session!KeyOf(q) \in host}
              K == {Session!KeyOf(p) : p \in P} \ out
              keys == [n \in K |-> IF \E p \in c.keys : n = Session!KeyOf(p)
                                   THEN "config" ELSE "host"]
              pat == Session!One("GITHUB_TOKEN", Session!resolve_github_token(c, i, repo))
              hosts == Session!All((c.forward \cap host) \ out, "host")
              literals == Session!All(c.guest_env \ out, "literal")
              zone == Session!One("TZ", IF c.timezone THEN "managed" ELSE Session!None)
  <2>2. DOMAIN keys \subseteq Session!Named \ out
    BY DEF Session!KeyOf, Session!Providers
  <2>3. DOMAIN pat \subseteq Session!Named \ out /\ DOMAIN zone \subseteq Session!Named \ out
    BY <1>1 DEF Session!One, Session!All
  <2>4. DOMAIN hosts \subseteq Session!Named \ out /\ DOMAIN literals \subseteq Session!Named \ out
    BY <2>1 DEF Session!All
  <2>5. Session!prepare_env_forwarding(c, i, repo, out)
          = Session!Over(zone, Session!Over(literals, Session!Over(keys, Session!Over(pat, hosts))))
    BY DEF Session!prepare_env_forwarding
  <2>. HIDE DEF P, K, keys, pat, hosts, literals, zone
  <2>. QED BY <2>2, <2>3, <2>4, <2>5 DEF Session!Over
<1>3. DOMAIN Rest \subseteq Session!Named \ out
  BY <1>2 DEF Session!Over, Session!All, Rest
<1>4. e = Session!Over(Session!One(Session!MARK, IF c.egress THEN "1" ELSE Session!None), Active)
  BY DEF Session!SessionEnv, out
<1>. HIDE DEF Rest, e
<1>. DEFINE M == Session!One(Session!MARK, IF c.egress THEN "1" ELSE Session!None)
<1>5. /\ DOMAIN e = DOMAIN M \cup (DOMAIN A \cup (DOMAIN B \cup DOMAIN Rest))
      /\ \A n \in DOMAIN B : n \notin DOMAIN M \cup DOMAIN A => e[n] = B[n]
  <2>. HIDE DEF M, A, B
  <2>1. e = Session!Over(M, Session!Over(A, Session!Over(B, Rest)))
    BY <1>4 DEF M, A, B
  <2>. QED BY <2>1 DEF Session!Over
<1>6. /\ DOMAIN M = IF c.egress THEN {Session!MARK} ELSE {}
      /\ DOMAIN A \subseteq {Session!OPENAI_PROXY_ACTIVE_ENV}
      /\ DOMAIN B = IF Session!CodexBearer(c, i) = Session!None THEN {} ELSE {Session!CODEX_LOCAL_ENV_KEY}
      /\ Session!CodexBearer(c, i) # Session!None => B[Session!CODEX_LOCAL_ENV_KEY] = Session!CodexBearer(c, i)
  BY DEF Session!One, Session!All
<1>. HIDE DEF M, A, B
<1>7. out \cap DOMAIN e = {}
  BY <1>1, <1>3, <1>5, <1>6
<1>8. Session!MARK \in DOMAIN e <=> c.egress
  BY <1>3, <1>5, <1>6
<1>9. Session!CODEX_LOCAL_ENV_KEY \in DOMAIN e =>
        /\ e[Session!CODEX_LOCAL_ENV_KEY] = Session!CodexBearer(c, i)
        /\ Session!CodexBearer(c, i) # Session!None
  BY <1>3, <1>5, <1>6
<1>. QED BY <1>7, <1>8, <1>9 DEF e, out

LEMMA SessionStep ==
  ASSUME Session!SessionAssumption
  PROVE  SessionInv /\ [Session!Next]_(Session!vars) => SessionInv'
<1>. SUFFICES ASSUME SessionInv, [Session!Next]_(Session!vars) PROVE SessionInv' OBVIOUS
<1>. USE DEF SessionInv, Session!Launched, Session!RestrictedView
<1>1. CASE Session!EditConfig
  BY <1>1 DEF Session!EditConfig, Session!Edit
<1>2. ASSUME NEW i \in Insts,
             \/ Session!Create(i) \/ Session!Stop(i) \/ Session!Start(i)
             \/ Session!SwitchModel(i) \/ Session!SetOverride(i)
      PROVE  SessionInv'
  <2>. DEFINE Fits(r) == DOMAIN r = DOMAIN Session!NewInst /\ r.snapshot \subseteq Session!Named
  <2>1. ASSUME NEW r, Fits(r), NEW x \in Session!Booted(r) PROVE Fits(x)
    <3>1. PICK names \in {{}, Session!Named} :
            x = [r EXCEPT !.state = "running", !.snapshot = @ \cup names,
                          !.tokens = IF r.mode = "remote" THEN cfg.proxied \cup r.override ELSE {}]
      BY <2>1 DEF Session!Booted
    <3>. QED BY <2>1, <3>1 DEF Session!NewInst
  <2>2. PICK r : Session!Set(i, r) /\ Fits(r)
    <3>1. CASE Session!Create(i)
      BY <3>1, <2>1 DEF Session!Create, Session!NewInst
    <3>2. CASE Session!Stop(i)
      <4>1. Fits([inst[i] EXCEPT !.state = "stopped", !.tokens = {}])
        BY DEF Session!NewInst
      <4>. QED BY <3>2, <4>1 DEF Session!Stop
    <3>3. CASE Session!SetOverride(i)
      <4>1. PICK P \in SUBSET Session!Providers : Session!Set(i, [inst[i] EXCEPT !.override = P])
        BY <3>3 DEF Session!SetOverride
      <4>2. Fits([inst[i] EXCEPT !.override = P])
        BY DEF Session!NewInst
      <4>. QED BY <4>1, <4>2
    <3>4. CASE Session!SwitchModel(i)
      <4>1. PICK e \in BOOLEAN :
              Session!Set(i, [inst[i] EXCEPT !.mode = IF @ = "local" THEN "remote" ELSE "local",
                                             !.endpoint = @ \/ e])
        BY <3>4 DEF Session!SwitchModel
      <4>. DEFINE r == [inst[i] EXCEPT !.mode = IF @ = "local" THEN "remote" ELSE "local",
                                       !.endpoint = @ \/ e]
      <4>2. Fits(r)
        BY DEF Session!NewInst
      <4>. QED BY <4>1, <4>2
    <3>5. CASE Session!Start(i)
      BY <3>5, <2>1 DEF Session!Start
    <3>. QED BY <1>2, <3>1, <3>2, <3>3, <3>4, <3>5
  <2>. HIDE DEF Session!RestrictedView, Session!Launched
  <2>3. inst' = [inst EXCEPT ![i] = r] /\ UNCHANGED <<cfg, host, pc, job, session>>
    BY <2>2 DEF Session!Set, Session!Edit
  <2>4. Session!RestrictedView'
    BY <2>3 DEF Session!RestrictedView, Session!Launched
  <2>. QED BY <2>2, <2>3, <2>4 DEF EnvFits
<1>3. ASSUME NEW name, NEW k, Session!Command(name, k) PROVE SessionInv'
  BY <1>3 DEF Session!Command
<1>4. CASE Session!Resolve
  BY <1>4 DEF Session!Resolve, Session!Refuse, Session!NoJob, Session!Running
<1>5. CASE Session!Prepare
  <2>1. CASE Session!Refuse /\ UNCHANGED session
    BY <1>5, <2>1 DEF Session!Prepare, Session!Refuse, Session!NoJob
  <2>2. CASE pc' = "launch"
    <3>. DEFINE c == job.cfg
                n == job.name
                e == Session!SessionEnv(c, n, job.repo)
                out == Session!Suppressed(c, Session!Proxied(c, n))
    <3>1. /\ session' = [i |-> n, kind |-> job.kind, env |-> e,
                          proxied |-> Session!Proxied(c, n), seen |-> <<>>]
          /\ UNCHANGED <<cfg, host, inst, job>> /\ pc = "prepare"
      BY <1>5, <2>2 DEF Session!Prepare, Session!Refuse
    <3>2. c \in Configs /\ n \in Insts
      BY <3>1
    <3>3. /\ out \cap DOMAIN e = {} /\ (Session!MARK \in DOMAIN e <=> c.egress)
          /\ Session!CODEX_LOCAL_ENV_KEY \in DOMAIN e =>
               /\ e[Session!CODEX_LOCAL_ENV_KEY] = Session!CodexBearer(c, n)
               /\ Session!CodexBearer(c, n) # Session!None
      BY <3>2, SessionEnvFits
    <3>4. /\ \A p \in Session!Proxied(c, n) : Session!KeyOf(p) \in out
          /\ c.account => Session!KeyOf("openai") \in out
          /\ c.egress => Session!PROXY_ENV_NAMES \subseteq out
      BY DEF Session!Suppressed
    <3>5. Session!CodexBearer(c, n) # Session!None =>
            Session!CodexBearer(c, n) = IF Session!Proxied(c, n) = {} THEN "endpoint" ELSE "capability"
      BY DEF Session!CodexBearer, Session!Proxied
    <3>. HIDE DEF e, out, c, n
    <3>6. EnvFits(session')
      BY <3>1, <3>3, <3>4, <3>5 DEF EnvFits
    <3>7. /\ session'.kind = job'.kind
          /\ job'.cfg.account => "OPENAI_API_KEY" \notin DOMAIN session'.env
      BY <3>1, <3>3, <3>4 DEF Session!KeyOf, c
    <3>. QED BY <3>1, <3>2, <3>6, <3>7, <2>2 DEF EnvFits, c, n
  <2>. QED BY <1>5, <2>1, <2>2 DEF Session!Prepare
<1>6. CASE Session!Launch
  <2>. DEFINE e == session.env
              fields == {"i", "kind", "env", "proxied", "seen"}
  <2>1. /\ pc = "launch" /\ pc' = "idle" /\ job' = Session!NoJob /\ UNCHANGED <<cfg, host, inst>>
        /\ session' = [session EXCEPT !.seen = session'.seen]
        /\ DOMAIN session = fields /\ EnvFits(session) /\ session.kind = job.kind
    BY <1>6 DEF Session!Launch, Session!Refuse
  <2>2. EnvFits(session')
    BY <2>1 DEF EnvFits
  <2>3. Session!MARK \in DOMAIN e =>
          /\ Session!PROXY_ENV_NAMES \cap DOMAIN session'.seen = {}
          /\ session.kind \in {"claude", "hook"} =>
               Session!CODEX_LOCAL_ENV_KEY \notin DOMAIN session'.seen
          /\ session.kind = "hook" => DOMAIN session'.seen = {"TZ"}
    <3>. SUFFICES ASSUME Session!MARK \in DOMAIN e PROVE
          /\ Session!PROXY_ENV_NAMES \cap DOMAIN session'.seen = {}
          /\ session.kind \in {"claude", "hook"} =>
               Session!CODEX_LOCAL_ENV_KEY \notin DOMAIN session'.seen
          /\ session.kind = "hook" => DOMAIN session'.seen = {"TZ"}
      OBVIOUS
    <3>1. Session!PROXY_ENV_NAMES \cap DOMAIN e = {} /\ job.kind = session.kind
      BY <2>1 DEF EnvFits
    <3>2. CASE job.kind = "shell"
      <4>1. session'.seen = e
        BY <1>6, <2>1, <3>2 DEF Session!Launch
      <4>. QED BY <4>1, <3>1, <3>2
    <3>3. CASE job.kind = "hook"
      <4>1. session'.seen = Session!Over(Session!One("TZ", "managed"), Session!All({}, ""))
        BY <1>6, <2>1, <3>3 DEF Session!Launch
      <4>2. DOMAIN session'.seen = {"TZ"}
        BY <4>1 DEF Session!Over, Session!One, Session!All, Session!None
      <4>. QED BY <4>2 DEF Session!PROXY_ENV_NAMES, Session!CODEX_LOCAL_ENV_KEY
    <3>4. CASE job.kind \notin {"shell", "hook"}
      <4>1. session'.seen = Session!Over(Session!One("TZ", "managed"),
                                            Session!restricted_agent_env_capsule(e, job.kind))
        BY <1>6, <2>1, <3>4 DEF Session!Launch
      <4>2. /\ DOMAIN session'.seen \subseteq {"TZ"} \cup DOMAIN e
            /\ job.kind # "codex" => Session!CODEX_LOCAL_ENV_KEY \notin DOMAIN session'.seen
        BY <4>1 DEF Session!Over, Session!One, Session!All, Session!None,
                    Session!restricted_agent_env_capsule, Session!Without, Session!CODEX_LOCAL_ENV_KEY
      <4>. QED BY <3>1, <3>4, <4>2 DEF Session!PROXY_ENV_NAMES
    <3>. QED BY <3>2, <3>3, <3>4
  <2>. QED BY <2>1, <2>2, <2>3 DEF Session!NoJob
<1>7. CASE Session!Ends
  BY <1>7 DEF Session!Ends
<1>8. CASE UNCHANGED Session!vars
  BY <1>8 DEF Session!vars
<1>. QED BY <1>1, <1>2, <1>3, <1>4, <1>5, <1>6, <1>7, <1>8 DEF Session!Next

\* Suppressed keys stay out of what a program sees, and the restricted view is kept.
LEMMA SessionInvSuppresses == SessionInv => Session!KeysStayOut /\ Session!RestrictedView
  BY DEF SessionInv, EnvFits, Session!KeysStayOut

SessionPart == part = "session" => SessionInv

LEMMA SessionAlone ==
  ASSUME [Next]_vars, part' = "session"
  PROVE  part = "session" /\ [Session!Next]_(Session!vars)
BY DEF Next, vars, StepVm, StepHost, StepUp, StepDev, StepSession, StepGitHub, StepSsh,
   StepEgress, sessionVars, Session!vars

\* The keys of proxied providers and the proxy variables of the host reach no program in
\* a guest, and only Codex gets its bearer in private egress (src/src/backend.rs,
\* src/src/private_egress.rs), whatever the user changes while a session is prepared.
THEOREM KeysAreSuppressed == Spec => []SuppressedStaysOut
<1>1. Session!SessionAssumption
  BY AccessAssumption
<1>2. Init => SessionPart
  <2>1. Session!Init => SessionInv
    BY <1>1, SessionInit
  <2>. QED
    BY <2>1 DEF Init, SessionPart
<1>3. SessionPart /\ [Next]_vars => SessionPart'
  BY <1>1, SessionAlone, SessionStep DEF SessionPart
<1>4. SessionPart => SuppressedStaysOut
  BY SessionInvSuppresses DEF SessionPart, SuppressedStaysOut
<1>. QED
  BY <1>2, <1>3, <1>4, PTL DEF Spec
-----------------------------------------------------------------------------
(* SshAccess, with more commands and with more failures *)

SshPart ==
  /\ part = "ssh" => Ssh!SshInv /\ Ssh!MastersClosed
  /\ part = "ssh2" => Ssh2!SshInv /\ Ssh2!MastersClosed

LEMMA SshAlone ==
  ASSUME [Next]_vars
  PROVE  /\ part' = "ssh" => part = "ssh" /\ [Ssh!Next]_(Ssh!vars)
         /\ part' = "ssh2" => part = "ssh2" /\ [Ssh2!Next]_(Ssh2!vars)
BY DEF Next, vars, StepVm, StepHost, StepUp, StepDev, StepSession, StepGitHub, StepSsh,
   StepEgress, sshVars, Ssh!vars, Ssh2!vars

LEMMA SshPartStep == SshPart /\ [Next]_vars => SshPart'
<1>. SUFFICES ASSUME SshPart, [Next]_vars PROVE SshPart'
  OBVIOUS
<1>1. Ssh!SshAssumption /\ Ssh2!SshAssumption
  BY AccessAssumption
<1>2. ASSUME part' = "ssh" PROVE Ssh!SshInv' /\ Ssh!MastersClosed'
  <2>1. [Ssh!Next]_(Ssh!vars) /\ Ssh!SshInv /\ Ssh!MastersClosed
    BY <1>2, SshAlone DEF SshPart
  <2>2. Ssh!SshInv'
    BY <1>1, <2>1, Ssh!SshStep
  <2>3. Ssh!SshShape
    BY <2>1 DEF Ssh!SshInv
  <2>4. Ssh!MastersClosed'
    BY <2>1, <2>3, Ssh!MastersStep
  <2>. QED
    BY <2>2, <2>4
<1>3. ASSUME part' = "ssh2" PROVE Ssh2!SshInv' /\ Ssh2!MastersClosed'
  <2>1. [Ssh2!Next]_(Ssh2!vars) /\ Ssh2!SshInv /\ Ssh2!MastersClosed
    BY <1>3, SshAlone DEF SshPart
  <2>2. Ssh2!SshInv'
    BY <1>1, <2>1, Ssh2!SshStep
  <2>3. Ssh2!SshShape
    BY <2>1 DEF Ssh2!SshInv
  <2>4. Ssh2!MastersClosed'
    BY <2>1, <2>3, Ssh2!MastersStep
  <2>. QED
    BY <2>2, <2>4
<1>. QED
  BY <1>2, <1>3 DEF SshPart

\* Where an alias leads an instance exists, and while it runs the alias has its port;
\* the shared connection of a wait is closed, and coop is gone with its data only when
\* no instance and no alias is left: for any number of commands at once, unless two
\* wrote the file together or one was cut short (src/src/backend.rs,
\* src/src/workspace.rs, commands/admin.rs).
THEOREM AccessIsKept == Spec => []SshHolds
<1>1. Init => SshPart
  <2>1. /\ Ssh!Init => Ssh!SshInv /\ Ssh!MastersClosed
        /\ Ssh2!Init => Ssh2!SshInv /\ Ssh2!MastersClosed
    BY AccessAssumption, Ssh!SshInit, Ssh2!SshInit
  <2>. QED
    BY <2>1 DEF Init, SshPart
<1>2. SshPart => SshHolds
  BY DEF SshPart, SshHolds, Ssh!SshInv, Ssh!SshHolds, Ssh2!SshInv, Ssh2!SshHolds
<1>. QED
  BY <1>1, <1>2, SshPartStep, PTL DEF Spec
-----------------------------------------------------------------------------
(* EgressConfig *)

\* A set of natural numbers that is not empty has a least one.
LEMMA LeastNat ==
  ASSUME NEW T, T \subseteq Nat, T # {}
  PROVE  \E m \in T : \A k \in T : m <= k
<1>1. PICK R : R = OpToRel(<, Nat)
  OBVIOUS
<1>2. IsWellFoundedOn(R, Nat)
  BY <1>1, NatLessThanWellFounded, Zenon
<1>3. R = {ss \in Nat \X Nat : ss[1] < ss[2]}
  BY <1>1, Zenon DEF OpToRel
<1>4. \A x, y \in Nat : x < y => <<x, y>> \in R
  BY <1>3, SMT
<1>5. PICK m \in T : \A k \in T : ~(<<k, m>> \in R)
  BY <1>2, WFMin, Zenon
<1>6. \A k \in T : ~(k < m)
  BY <1>4, <1>5
<1>. QED
  BY <1>6

\* A configuration harden_config has made of some subscription: its pins, whom it asks for
\* names and what listens.
Hardened(f) ==
  /\ f.of \in Tables
  /\ \E entry, exit :
       /\ f.pins = <<<<f.of.entry_group, entry>>, <<f.of.exit_group, exit>>,
                     <<"GLOBAL", <<f.of.exit_group>>>>>>
       /\ Egress!entry_matches(f.of, entry) /\ Egress!exit_matches(f.of, exit)
  /\ Egress!Asked(f.dns) = {f.of.exit_group}
  /\ f.keys \cap Egress!Listeners = {}

\* mihomo runs what is installed, and only what it runs may forward.
EgressInv ==
  /\ want \in Tables
  /\ pc = "install" => Hardened(got)
  /\ file # Egress!NoFile => Hardened(file)
  /\ running # Egress!NoFile =>
       running = file /\ DOMAIN chosen = DOMAIN running.groups \cup {"GLOBAL"}
  /\ switch = "open" => running # Egress!NoFile
  /\ Egress!ExitIsRequested

LEMMA EgressInit == Egress!Init => EgressInv
BY DEF Egress!Init, EgressInv, Egress!ExitIsRequested

\* What prioritize_choice moves to the front is a match.
LEMMA EntryFound ==
  ASSUME NEW groups, NEW w, Egress!EntryAt(groups, w) # 0
  PROVE  Egress!entry_matches(w, groups[w.entry_group].proxies[Egress!EntryAt(groups, w)])
<1>. DEFINE s == groups[w.entry_group].proxies
            I == {i \in 1..Len(s) : Egress!entry_matches(w, s[i])}
<1>1. w.entry_group \in DOMAIN groups /\ I # {} /\ Egress!EntryAt(groups, w) = Egress!Min(I)
  BY DEF Egress!EntryAt, Egress!SelectInSeq
<1>2. I \subseteq Nat
  BY <1>1
<1>3. Egress!Min(I) \in I
  <2>. HIDE DEF I
  <2>. QED BY <1>1, <1>2, LeastNat DEF Egress!Min
<1>. QED
  BY <1>1, <1>3

LEMMA ExitFound ==
  ASSUME NEW groups, NEW w, Egress!ExitAt(groups, w) # 0
  PROVE  Egress!exit_matches(w, groups[w.exit_group].proxies[Egress!ExitAt(groups, w)])
<1>. DEFINE s == groups[w.exit_group].proxies
            I == {i \in 1..Len(s) : Egress!exit_matches(w, s[i])}
<1>1. w.exit_group \in DOMAIN groups /\ I # {} /\ Egress!ExitAt(groups, w) = Egress!Min(I)
  BY DEF Egress!ExitAt, Egress!SelectInSeq
<1>2. I \subseteq Nat
  OBVIOUS
<1>3. Egress!Min(I) \in I
  <2>. HIDE DEF I
  <2>. QED BY <1>1, <1>2, LeastNat DEF Egress!Min
<1>. QED
  BY <1>1, <1>3

\* Whatever the provider serves, what harden_config makes of it is hardened.
LEMMA HardenedIsHardened ==
  ASSUME NEW s, NEW w \in Tables, Egress!EgressAssumption, Egress!Hardenable(s, w)
  PROVE  Hardened(Egress!harden_config(s, w)) /\ Egress!harden_config(s, w) # Egress!NoFile
<1>. DEFINE f == Egress!harden_config(s, w)
            in == Egress!EntryAt(s.groups, w)
            entered == Egress!Entered(s, w)
            out == Egress!ExitAt(entered, w)
            dns == [k \in DOMAIN s.dns \ Egress!Dropped |-> s.dns[k]]
<1>1. /\ f.of = w /\ f.dns = Egress!Over(Egress!Forced(w.exit_group), dns)
      /\ f.keys = (s.keys \ Egress!Listeners) \cup {"tun", "external-controller"}
      /\ f.pins = <<<<w.entry_group, s.groups[w.entry_group].proxies[in]>>,
                    <<w.exit_group, entered[w.exit_group].proxies[out]>>,
                    <<"GLOBAL", <<w.exit_group>>>>>>
  BY DEF Egress!harden_config, Egress!harden_dns
<1>2. Egress!Asked(f.dns) = {w.exit_group}
  <2>1. DOMAIN Egress!Forced(w.exit_group)
          = {"default-nameserver", "nameserver", "proxy-server-nameserver"}
        /\ Egress!Forced(w.exit_group)["nameserver"] = w.exit_group
    BY DEF Egress!Forced
  <2>2. DOMAIN dns \cap {"nameserver-policy", "fallback", "direct-nameserver"} = {}
    BY DEF Egress!Dropped
  <2>. HIDE DEF f, dns
  <2>3. DOMAIN f.dns = DOMAIN Egress!Forced(w.exit_group) \cup DOMAIN dns
        /\ f.dns["nameserver"] = w.exit_group
    BY <1>1, <2>1 DEF Egress!Over
  <2>4. DOMAIN f.dns
          \cap {"nameserver", "nameserver-policy", "fallback", "direct-nameserver"}
          = {"nameserver"}
    BY <2>1, <2>2, <2>3
  <2>. QED
    BY <2>3, <2>4 DEF Egress!Asked
<1>3. f.keys \cap Egress!Listeners = {}
  <2>. HIDE DEF f
  <2>. QED BY <1>1 DEF Egress!Listeners
<1>4. /\ Egress!entry_matches(w, s.groups[w.entry_group].proxies[in])
      /\ Egress!exit_matches(w, entered[w.exit_group].proxies[out])
  BY EntryFound, ExitFound DEF Egress!Hardenable
<1>5. f # Egress!NoFile
  <2>. HIDE DEF f
  <2>1. f.pins # <<>>
    BY <1>1
  <2>. QED BY <2>1 DEF Egress!NoFile
<1>. HIDE DEF f
<1>6. Hardened(f)
  BY <1>1, <1>2, <1>3, <1>4 DEF Hardened
<1>. QED
  BY <1>5, <1>6 DEF f

\* Of three pins, the last for each group is taken.
LEMMA LastPinTaken ==
  ASSUME DOMAIN Egress!Pins = 1..3, Len(Egress!Pins) = 3, NEW g
  PROVE  Egress!LastPin(g) = IF Egress!Pins[3][1] = g THEN 3
                      ELSE IF Egress!Pins[2][1] = g THEN 2
                      ELSE IF Egress!Pins[1][1] = g THEN 1 ELSE 0
<1>. DEFINE I == {i \in 1..3 : Egress!Pins[i][1] = g}
<1>1. Egress!LastPin(g) = IF I # {} THEN Egress!Max(I) ELSE 0
  BY DEF Egress!LastPin, Egress!SelectLastInSeq
<1>2. Egress!Pins[3][1] = g => Egress!Max(I) = 3 /\ I # {}
  BY DEF Egress!Max
<1>3. Egress!Pins[3][1] # g /\ Egress!Pins[2][1] = g => Egress!Max(I) = 2 /\ I # {}
  BY DEF Egress!Max
<1>4. Egress!Pins[3][1] # g /\ Egress!Pins[2][1] # g /\ Egress!Pins[1][1] = g =>
        Egress!Max(I) = 1 /\ I # {}
  BY DEF Egress!Max
<1>5. Egress!Pins[3][1] # g /\ Egress!Pins[2][1] # g /\ Egress!Pins[1][1] # g => I = {}
  OBVIOUS
<1>. HIDE DEF I
<1>. QED
  BY <1>1, <1>2, <1>3, <1>4, <1>5

LEMMA EgressStep ==
  ASSUME Egress!EgressAssumption
  PROVE  EgressInv /\ [Egress!Next]_(Egress!vars) => EgressInv'
<1>. SUFFICES ASSUME EgressInv, [Egress!Next]_(Egress!vars) PROVE EgressInv' OBVIOUS
<1>. USE DEF EgressInv, Egress!ExitIsRequested, Egress!gatewayVars
<1>1. ASSUME NEW s, Egress!ProviderChanges(s) PROVE EgressInv'
  BY <1>1 DEF Egress!ProviderChanges
<1>2. ASSUME NEW t \in Tables, Egress!Reconfigure(t) PROVE EgressInv'
  BY <1>2 DEF Egress!Reconfigure
<1>3. CASE Egress!Begin \/ Egress!ensure_mihomo_binary \/ Egress!BinaryCut \/ Egress!Resolve
  BY <1>3 DEF Egress!Begin, Egress!ensure_mihomo_binary, Egress!BinaryCut, Egress!Resolve
<1>4. CASE Egress!fetch_subscription \/ Egress!Refused \/ Egress!Fails
        \/ Egress!verify_gateway_connectivity
  BY <1>4 DEF Egress!fetch_subscription, Egress!Refused, Egress!Fails,
              Egress!verify_gateway_connectivity
<1>5. CASE Egress!Harden
  <2>1. Hardened(got')
    BY <1>5, HardenedIsHardened DEF Egress!Harden
  <2>. QED
    BY <1>5, <2>1 DEF Egress!Harden
<1>6. CASE Egress!Install
  <2>1. /\ pc' = "start" /\ file' = got /\ running' = Egress!NoFile /\ switch' = "closed"
        /\ Hardened(got) /\ UNCHANGED want
    BY <1>6 DEF Egress!Install
  <2>2. Hardened(file')
    BY <2>1
  <2>. QED
    BY <2>1, <2>2
<1>7. CASE Egress!StartMihomo
  BY <1>7 DEF Egress!StartMihomo
<1>8. CASE Egress!OpenSwitch
  <2>. DEFINE f == file  w == f.of
  <2>1. /\ chosen' = [g \in DOMAIN chosen |->
                        IF Egress!LastPin(g) = 0 THEN chosen[g]
                        ELSE Egress!Pins[Egress!LastPin(g)][2]]
        /\ running' = running /\ file' = file /\ running = file /\ running # Egress!NoFile
        /\ UNCHANGED <<want, pc, got>> /\ Egress!Pins = f.pins /\ Hardened(file)
        /\ DOMAIN chosen = DOMAIN running.groups \cup {"GLOBAL"} /\ Egress!Restorable
    BY <1>8 DEF Egress!OpenSwitch, Egress!Pins
  <2>2. PICK entry, exit :
          /\ Egress!Pins = <<<<w.entry_group, entry>>, <<w.exit_group, exit>>,
                             <<"GLOBAL", <<w.exit_group>>>>>>
          /\ Egress!entry_matches(w, entry) /\ Egress!exit_matches(w, exit)
    BY <2>1 DEF Hardened
  <2>3. DOMAIN Egress!Pins = 1..3 /\ Len(Egress!Pins) = 3
    BY <2>2
  <2>4. "GLOBAL" \notin {w.entry_group, w.exit_group}
    BY <2>1 DEF Egress!EgressAssumption, Hardened
  <2>5. /\ Egress!LastPin("GLOBAL") = 3 /\ Egress!LastPin(w.exit_group) = 2
        /\ w.entry_group # w.exit_group => Egress!LastPin(w.entry_group) = 1
    BY <2>2, <2>3, <2>4, LastPinTaken
  <2>6. {"GLOBAL", w.exit_group, w.entry_group} \subseteq DOMAIN chosen
    BY <2>1, <2>2, <2>3 DEF Egress!Restorable, Egress!Selectable
  <2>7. /\ chosen'["GLOBAL"] = <<w.exit_group>> /\ chosen'[w.exit_group] = exit
        /\ w.entry_group # w.exit_group => chosen'[w.entry_group] = entry
    BY <2>1, <2>2, <2>5, <2>6
  <2>. HIDE DEF w, f
  <2>. QED
    BY <2>1, <2>2, <2>7 DEF Egress!entry_matches, w, f
<1>9. CASE Egress!RestoreRefused \/ Egress!ServiceStops
  BY <1>9 DEF Egress!RestoreRefused, Egress!ServiceStops
<1>10. CASE UNCHANGED Egress!vars
  BY <1>10 DEF Egress!vars
<1>. QED BY <1>1, <1>2, <1>3, <1>4, <1>5, <1>6, <1>7, <1>8, <1>9, <1>10 DEF Egress!Next

LEMMA EgressInvHolds == EgressInv => Egress!EgressHolds
BY DEF EgressInv, Egress!EgressHolds, Egress!NoOtherWay, Hardened

EgressPart == part = "egress" => EgressInv

LEMMA EgressAlone ==
  ASSUME [Next]_vars, part' = "egress"
  PROVE  part = "egress" /\ [Egress!Next]_(Egress!vars)
BY DEF Next, vars, StepVm, StepHost, StepUp, StepDev, StepSession, StepGitHub, StepSsh,
   StepEgress, egressVars, Egress!vars

\* While the gateway forwards, traffic leaves by the exit that the installed table asks
\* for, mihomo looks names up through it, and nothing of the provider's listens
\* (src/src/private_egress.rs), for whatever subscriptions it serves.
THEOREM ExitIsKept == Spec => []EgressHolds
<1>1. Egress!EgressAssumption
  BY AccessAssumption
<1>2. Init => EgressPart
  BY EgressInit DEF Init, EgressPart
<1>3. EgressPart /\ [Next]_vars => EgressPart'
  BY <1>1, EgressAlone, EgressStep DEF EgressPart
<1>4. EgressPart => EgressHolds
  BY EgressInvHolds DEF EgressPart, EgressHolds
<1>. QED
  BY <1>2, <1>3, <1>4, PTL DEF Spec
-----------------------------------------------------------------------------
(* GitHubAccess *)

\* The shape of the state, and where the command is.
GitHubShape ==
  /\ DOMAIN config = {"mode", "entry"} /\ DOMAIN config.entry = Slugs /\ DOMAIN known = Slugs
  /\ DOMAIN job = {"repo", "url", "token", "pre"} /\ DOMAIN job.pre = {"known", "same", "cross"}
  /\ faults \in Nat
  /\ pc \in {"prefetch", "paste", "probe", "discover", "cover", "widen", "store"} =>
       job.repo \in Slugs /\ job.pre.same \subseteq Slugs
  /\ pc \in {"probe", "discover", "cover", "widen", "store"} => job.token # GitHub!None

\* The token the wizard has in hand reads its repository, and all submodules of its
\* owner once it is about to be stored.
TokenInHand ==
  /\ pc \in {"discover", "cover", "store"} => GitHub!Reads(job.token, job.repo)
  /\ pc = "store" => \A s \in job.pre.same : GitHub!Reads(job.token, s)

\* The token a clone goes with.
CloneToken ==
  IF ~GitHub!is_github_https_url(job.url) THEN GitHub!None
  ELSE LET r == GitHub!clone_pat_slug(job.url) IN
       IF r = GitHub!Nowhere THEN GitHub!host_github_token ELSE config.entry[r]

CloneInHand ==
  /\ pc = "resolve" => job.token = GitHub!None
  /\ pc \in {"clone", "cloned", "rejected"} => job.token = CloneToken
  /\ IF pc \in {"cloned", "rejected"} THEN guest = job.token ELSE guest = GitHub!None
  /\ pc = "rejected" /\ faults = 0 /\ GitHub!is_github_https_url(job.url) =>
       GitHub!clone_pat_slug(job.url) = GitHub!Nowhere

GitHubInv == GitHubShape /\ GitHub!EntriesReach /\ TokenInHand /\ CloneInHand

LEMMA GitHubInit == GitHub!AccessAssumption /\ GitHub!Init => GitHubInv
BY DEF GitHub!Init, GitHubInv, GitHubShape, GitHub!EntriesReach, TokenInHand, CloneInHand,
   GitHub!NoJob, GitHub!Unknown, GitHub!AccessAssumption

LEMMA GitHubStep == GitHub!AccessAssumption /\ GitHubInv /\ [GitHub!Next]_(GitHub!vars) => GitHubInv'
<1>. SUFFICES ASSUME GitHub!AccessAssumption, GitHubInv, [GitHub!Next]_(GitHub!vars)
              PROVE  GitHubInv'
  OBVIOUS
<1>. USE DEF GitHubInv, GitHubShape, TokenInHand, CloneInHand
<1>1. GitHub!Nowhere \notin Slugs /\ \A u : GitHub!parse_repo_slug_from_url(u) \in Slugs \cup {GitHub!Nowhere}
  BY DEF GitHub!AccessAssumption, GitHub!Nowhere, GitHub!parse_repo_slug_from_url,
     GitHub!RepoSlug_new
<1>2. world' = world
  BY DEF GitHub!Next, GitHub!vars, GitHub!Setup, GitHub!Paste, GitHub!Widen, GitHub!Up,
     GitHub!prefetch_submodules, GitHub!Probe, GitHub!discover_from_pasted_token,
     GitHub!handle_submodules, GitHub!Store, GitHub!Resolve, GitHub!Clone, GitHub!Cloned
<1>3. ASSUME NEW t, NEW r PROVE GitHub!Reads(t, r)' <=> GitHub!Reads(t, r)
  BY <1>2 DEF GitHub!Reads
<1>4. ASSUME NEW d, NEW r, NEW S, d = GitHub!discover_submodule_repos(S, r)
      PROVE DOMAIN d = {"known", "same", "cross"} /\ d.same \subseteq Slugs
  BY <1>1, <1>4 DEF GitHub!discover_submodule_repos, GitHub!classify_urls, GitHub!Targets
<1>5. ASSUME NEW r, NEW S, NEW pub
      PROVE LET d == GitHub!drop_public(GitHub!discover_submodule_repos(S, r), pub) IN
            DOMAIN d = {"known", "same", "cross"} /\ d.same \subseteq Slugs
  BY <1>4 DEF GitHub!drop_public
<1>6. ASSUME UNCHANGED <<config, known>> PROVE GitHub!EntriesReach'
  BY <1>3, <1>6 DEF GitHub!EntriesReach, GitHub!build_form_instructions, GitHub!Unknown
<1>7. ASSUME NEW arg \in RepoArgs \cup {GitHub!Nowhere}, GitHub!Setup(arg) PROVE GitHubInv'
  <2>1. GitHub!resolve_target_repo(arg) \in Slugs
    BY <1>1, <1>7 DEF GitHub!Setup, GitHub!resolve_target_repo,
       GitHub!detect_workspace_repo, GitHub!AccessAssumption
  <2>. QED BY <2>1, <1>6, <1>7 DEF GitHub!Setup, GitHub!NoJob, GitHub!Unknown
<1>8. CASE GitHub!prefetch_submodules
  <2>1. job' = job \/ \E t \in GitHub!Attempts, pub \in SUBSET world.public :
               job' = [job EXCEPT !.pre = GitHub!drop_public(GitHub!discover_submodule_repos(t, job.repo), pub)]
    BY <1>8 DEF GitHub!prefetch_submodules
  <2>2. faults' \in Nat
    BY <1>8 DEF GitHub!prefetch_submodules, GitHub!Fault, GitHub!is_public_repo_anonymous
  <2>3. /\ DOMAIN job' = DOMAIN job /\ DOMAIN job'.pre = {"known", "same", "cross"}
        /\ job'.repo \in Slugs /\ job'.pre.same \subseteq Slugs
    BY <2>1, <1>5, <1>8 DEF GitHub!prefetch_submodules
  <2>. QED BY <2>2, <2>3, <1>6, <1>8 DEF GitHub!prefetch_submodules
<1>9. ASSUME NEW t \in GitHub!Maybe, GitHub!Paste(t) PROVE GitHubInv'
  BY <1>6, <1>9 DEF GitHub!Paste, GitHub!End, GitHub!NoJob, GitHub!Unknown
<1>10. CASE GitHub!Probe
  BY <1>3, <1>6, <1>10 DEF GitHub!Probe, GitHub!Validated, GitHub!probe_repo, GitHub!End,
     GitHub!NoJob, GitHub!Unknown, GitHub!Fault
<1>11. CASE GitHub!discover_from_pasted_token
  <2>1. CASE GitHub!End
    BY <2>1, <1>6, <1>11 DEF GitHub!discover_from_pasted_token, GitHub!End, GitHub!NoJob,
       GitHub!Unknown, GitHub!Fault
  <2>2. CASE pc' = "cover"
    <3>1. \/ \E pub \in SUBSET world.public :
               job' = [job EXCEPT !.pre = GitHub!drop_public(GitHub!discover_submodule_repos(job.token, job.repo), pub)]
          \/ job' = [job EXCEPT !.pre = [GitHub!Unknown EXCEPT !.known = TRUE]]
      BY <2>2, <1>11 DEF GitHub!discover_from_pasted_token, GitHub!End
    <3>2. faults' \in Nat
      BY <1>11 DEF GitHub!discover_from_pasted_token, GitHub!Fault,
         GitHub!is_public_repo_anonymous
    <3>3. /\ DOMAIN job' = DOMAIN job /\ DOMAIN job'.pre = {"known", "same", "cross"}
          /\ job'.repo = job.repo /\ job'.token = job.token /\ job'.pre.same \subseteq Slugs
      BY <3>1, <1>5 DEF GitHub!Unknown
    <3>. QED BY <3>2, <3>3, <2>2, <1>3, <1>6, <1>11 DEF GitHub!discover_from_pasted_token
  <2>. QED BY <1>11, <2>1, <2>2 DEF GitHub!discover_from_pasted_token
<1>12. CASE GitHub!handle_submodules
  BY <1>3, <1>6, <1>12 DEF GitHub!handle_submodules, GitHub!probe_same_owner_coverage,
     GitHub!End, GitHub!NoJob, GitHub!Unknown, GitHub!Fault
<1>13. ASSUME NEW t \in GitHub!Maybe, GitHub!Widen(t) PROVE GitHubInv'
  BY <1>3, <1>6, <1>13 DEF GitHub!Widen, GitHub!Validated, GitHub!probe_repo, GitHub!End,
     GitHub!NoJob, GitHub!Unknown, GitHub!Fault
<1>14. CASE GitHub!Store
  <2>1. CASE UNCHANGED <<config, known>>
    BY <2>1, <1>6, <1>14 DEF GitHub!Store, GitHub!End, GitHub!NoJob, GitHub!Unknown
  <2>2. CASE ~UNCHANGED <<config, known>>
    <3>1. /\ config' = [mode |-> "pat", entry |-> [config.entry EXCEPT ![job.repo] = job.token]]
          /\ known' = [known EXCEPT ![job.repo] = job.pre.same] /\ pc = "store"
      BY <2>2, <1>14 DEF GitHub!Store
    <3>2. GitHub!EntriesReach'
      BY <3>1, <1>3 DEF GitHub!EntriesReach, GitHub!build_form_instructions, GitHub!Unknown
    <3>. QED BY <3>1, <3>2, <1>14 DEF GitHub!Store, GitHub!End, GitHub!NoJob, GitHub!Unknown
  <2>. QED BY <2>1, <2>2
<1>15. ASSUME NEW u \in CloneUrls, GitHub!Up(u) PROVE GitHubInv'
  BY <1>6, <1>15 DEF GitHub!Up, GitHub!NoJob, GitHub!Unknown
<1>16. CASE GitHub!Resolve
  <2>1. UNCHANGED <<config, known, guest>> /\ GitHub!host_github_token' = GitHub!host_github_token
    BY <1>2, <1>16 DEF GitHub!Resolve, GitHub!host_github_token
  <2>2. \A u : GitHub!clone_pat_slug(u)' = GitHub!clone_pat_slug(u)
    BY <2>1 DEF GitHub!clone_pat_slug
  <2>3. CASE pc' = "clone"
    <3>1. job'.url = job.url /\ DOMAIN job' = DOMAIN job /\ job'.pre = job.pre
      BY <2>3, <1>16 DEF GitHub!Resolve, GitHub!resolve_clone_token, GitHub!With, GitHub!End
    <3>2. job'.token = CloneToken
      BY <2>3, <1>16 DEF GitHub!Resolve, GitHub!resolve_clone_token, GitHub!With,
         GitHub!End, CloneToken
    <3>3. CloneToken' = CloneToken
      BY <2>1, <2>2, <3>1 DEF CloneToken
    <3>4. faults' \in Nat
      BY <1>16 DEF GitHub!Resolve, GitHub!resolve_clone_token, GitHub!Fault
    <3>. QED BY <2>1, <2>3, <3>1, <3>2, <3>3, <3>4, <1>6, <1>16 DEF GitHub!Resolve
  <2>4. CASE GitHub!End
    BY <2>4, <1>6, <1>16 DEF GitHub!Resolve, GitHub!End, GitHub!resolve_clone_token,
       GitHub!Fault, GitHub!NoJob, GitHub!Unknown
  <2>. QED BY <1>16, <2>3, <2>4 DEF GitHub!Resolve, GitHub!resolve_clone_token, GitHub!With
<1>17. CASE GitHub!Clone
  <2>1. /\ UNCHANGED <<config, known, job>> /\ CloneToken' = CloneToken
        /\ GitHub!clone_pat_slug(job.url)' = GitHub!clone_pat_slug(job.url)
    BY <1>2, <1>17 DEF GitHub!Clone, GitHub!host_github_token, GitHub!clone_pat_slug,
       CloneToken
  <2>2. faults' \in Nat /\ pc' \in {"cloned", "rejected"} /\ pc = "clone" /\ guest' = job.token
    BY <1>17 DEF GitHub!Clone, GitHub!Fault
  <2>3. ASSUME pc' = "rejected", faults' = 0, GitHub!is_github_https_url(job.url)
        PROVE  GitHub!clone_pat_slug(job.url) = GitHub!Nowhere
    <3>. SUFFICES ASSUME GitHub!clone_pat_slug(job.url) # GitHub!Nowhere PROVE FALSE OBVIOUS
    <3>. DEFINE r == GitHub!clone_pat_slug(job.url)
    <3>1. r = GitHub!parse_repo_slug_from_url(job.url) /\ r \in Slugs /\ config.entry[r] # GitHub!None
      BY <1>1 DEF GitHub!clone_pat_slug
    <3>2. GitHub!Reads(config.entry[r], r)
      BY <3>1 DEF GitHub!EntriesReach, GitHub!build_form_instructions
    <3>3. job.token = config.entry[r]
      BY <2>2, <2>3 DEF CloneToken
    <3>4. UNCHANGED faults \/ GitHub!Fault
      BY <1>17 DEF GitHub!Clone
    <3>5. ~GitHub!Fault
      BY <2>3 DEF GitHub!Fault
    <3>. QED BY <2>3, <3>1, <3>2, <3>3, <3>5, <1>17 DEF GitHub!Clone
  <2>. QED BY <2>1, <2>2, <2>3, <1>6
<1>18. CASE GitHub!Cloned
  BY <1>6, <1>18 DEF GitHub!Cloned, GitHub!End, GitHub!NoJob, GitHub!Unknown
<1>19. CASE UNCHANGED GitHub!vars
  BY <1>6, <1>19 DEF GitHub!vars, GitHub!Reads, CloneToken, GitHub!clone_pat_slug,
     GitHub!host_github_token
<1>. QED
  BY <1>7, <1>8, <1>9, <1>10, <1>11, <1>12, <1>13, <1>14, <1>15, <1>16, <1>17, <1>18, <1>19
     DEF GitHub!Next

LEMMA GitHubFits == GitHubInv => GitHub!TokensFit
BY DEF GitHubInv, GitHub!TokensFit, GitHub!CloneIsScoped, CloneInHand, GitHubShape,
   CloneToken

GitHubPart == part = "github" => GitHubInv

LEMMA GitHubAlone ==
  ASSUME [Next]_vars, part' = "github"
  PROVE  part = "github" /\ [GitHub!Next]_(GitHub!vars)
BY DEF Next, vars, StepVm, StepHost, StepUp, StepDev, StepSession, StepGitHub, StepSsh,
   StepEgress, githubVars, GitHub!vars

\* A stored token reads its repository and the submodules its user was told to grant; a
\* clone goes with the token of its repository's entry and is not rejected unless a
\* request failed (src/src/github_pat.rs, src/src/backend.rs), for any repositories,
\* tokens and submodules.
THEOREM TokensReach == Spec => []TokensFit
<1>1. GitHub!AccessAssumption
  BY AccessAssumption
<1>2. Init => GitHubPart
  <2>1. GitHub!Init => GitHubInv
    BY <1>1, GitHubInit
  <2>. QED
    BY <2>1 DEF Init, GitHubPart
<1>3. GitHubPart /\ [Next]_vars => GitHubPart'
  BY <1>1, GitHubAlone, GitHubStep DEF GitHubPart
<1>4. GitHubPart => TokensFit
  BY GitHubFits DEF GitHubPart, TokensFit
<1>. QED
  BY <1>2, <1>3, <1>4, PTL DEF Spec
-----------------------------------------------------------------------------
(* ProjectUp *)

CommandLines == [image : {Up!None, "dev"}, cpus : Up!Opt({"two", "four"}), mount : BOOLEAN,
                 exclude_git : BOOLEAN, no_agents : BOOLEAN, devcontainer : {"off", "explicit", "discover"},
                 env : Up!Opt(Up!Values), fwd : Up!Opt(Up!Values), hook : Up!Opt(Up!Values)]

UpShape ==
  /\ DOMAIN inst = DOMAIN Up!NoInst /\ inst.mount \in BOOLEAN
  /\ DOMAIN vm = DOMAIN Up!Off /\ DOMAIN given = DOMAIN Up!Nothing /\ DOMAIN job = DOMAIN Up!NoJob
  /\ pc # "idle" => job.opts \in CommandLines /\ held = {}

\* What the instance was given is in its files.
UpGiven == given.env \in {Up!None, inst.env} /\ given.fwd \in {Up!None, inst.fwd}

\* What a start has found out, and what it has done.
UpAsked ==
  LET a == Up!Asks(job.opts) IN
  /\ a.env \in {Up!None, job.env} /\ a.fwd \in {Up!None, job.fwd} /\ a.hook \in {Up!None, job.hook}
  /\ Up!First => a.cpus \in {Up!None, job.cpus}
  /\ ~Up!First => /\ a.cpus = Up!None /\ a.image \in {Up!None, inst.image}
                  /\ kind = "directory" => job.opts.mount = inst.mount /\ ~job.opts.exclude_git
  /\ ~Up!First /\ a.fwd = Up!None /\ pc \in {"boot", "forwards"} => job.fwd = inst.fwd
  /\ ~Up!First /\ a.env = Up!None /\ pc \in {"boot", "forwards", "spawn", "env"} => job.env = inst.env

UpDone ==
  /\ pc # "boot" =>
       vm.on /\ (Up!First => Up!Asks(job.opts).image \in {Up!None, inst.image} /\ inst.cpus = job.cpus)
  /\ Up!First /\ pc = "forwards" => inst.fwd = Up!None
  /\ Up!First /\ pc \in {"forwards", "spawn", "env"} => inst.env = Up!None
  /\ pc \in {"spawn", "env", "bootstrap", "transfer", "hook"} => inst.fwd = job.fwd
  /\ pc \in {"env", "bootstrap", "transfer", "hook"} => vm.fwd = job.fwd
  /\ pc \in {"bootstrap", "transfer", "hook"} => inst.env = job.env
  /\ pc \in {"transfer", "hook"} => vm.agents = ~job.opts.no_agents
  /\ pc = "hook" /\ Up!First /\ kind = "directory" =>
       inst.mount = job.opts.mount /\ inst.bare = job.opts.exclude_git

\* What is in force of a command line once its command has succeeded.
UpHeld ==
  \A o \in held :
    LET a == Up!Asks(o) IN
    /\ vm.on /\ vm.fwd = inst.fwd /\ a.image \in {Up!None, inst.image} /\ a.cpus \in {Up!None, inst.cpus}
    /\ a.env \in {Up!None, inst.env} /\ a.fwd \in {Up!None, inst.fwd} /\ a.hook \in {Up!None, vm.hook}
    /\ o.no_agents => ~vm.agents
    /\ kind = "directory" => o.mount = inst.mount /\ (o.exclude_git => inst.bare)

UpInv == UpShape /\ UpGiven /\ (pc # "idle" => UpAsked /\ UpDone) /\ UpHeld

LEMMA UpInit == Up!Init => UpInv
BY DEF Up!Init, UpInv, UpShape, UpGiven, UpHeld, Up!NoInst, Up!Nothing, Up!Off, Up!NoJob

LEMMA UpBlank ==
  /\ DOMAIN Up!NoInst = {"image", "cpus", "mount", "bare", "env", "fwd", "known"}
  /\ Up!NoInst.mount = FALSE /\ Up!NoInst.env = Up!None /\ Up!NoInst.fwd = Up!None
  /\ DOMAIN Up!Nothing = {"env", "fwd"} /\ Up!Nothing.env = Up!None /\ Up!Nothing.fwd = Up!None
BY DEF Up!NoInst, Up!Nothing

LEMMA AsksPlain ==
  ASSUME NEW o, o.devcontainer # "explicit"
  PROVE  Up!Asks(o) = [image |-> o.image, cpus |-> o.cpus, fwd |-> o.fwd, env |-> o.env, hook |-> o.hook]
BY DEF Up!Asks, Up!Else

LEMMA UpRestart ==
  ASSUME UpInv, NEW o \in CommandLines, o.devcontainer # "explicit", o.cpus = Up!None,
         o.image \in {Up!None, inst.image}, kind = "directory" => o.mount = inst.mount /\ ~o.exclude_git,
         job' = Up!restart_instance(o), pc' = "boot", held' = {}, UNCHANGED <<kind, inst, vm, given>>
  PROVE  UpInv'
<1>1. Up!Asks(o) = [image |-> o.image, cpus |-> o.cpus, fwd |-> o.fwd, env |-> o.env, hook |-> o.hook]
  BY AsksPlain
<1>2. job'.opts = o /\ job'.boot = "restart" /\ DOMAIN job' = DOMAIN Up!NoJob
      /\ job'.env = Up!Else(o.env, inst.env) /\ job'.fwd = Up!Else(o.fwd, inst.fwd)
      /\ job'.hook = Up!Else(o.hook, config.hook)
  BY DEF Up!restart_instance, Up!NoJob
<1>. QED BY <1>1, <1>2 DEF UpInv, UpShape, UpGiven, UpAsked, UpDone, UpHeld, Up!Else,
   Up!First

LEMMA UpStep == Up!UpAssumption /\ UpInv /\ [Up!Next]_(Up!vars) => UpInv'
<1>. SUFFICES ASSUME Up!UpAssumption, UpInv, [Up!Next]_(Up!vars) PROVE UpInv'
  OBVIOUS
<1>. USE DEF UpInv, UpShape, UpGiven
<1>0. Options \subseteq CommandLines
  BY DEF Up!UpAssumption, CommandLines
<1>1. CASE Up!Up
  <2>. PICK o \in Options :
       \/ /\ ~Up!Exists
          /\ \E used, optOut \in BOOLEAN :
               /\ Up!resolve_devcontainer(o, used, optOut)
               /\ job' = Up!create_up_instance(o, used) /\ ignored' = (ignored \/ optOut)
          /\ pc' = "boot" /\ held' = {}
       \/ /\ Up!Exists /\ Up!Compatible(o) /\ ~vm.on /\ job' = Up!restart_instance(o)
          /\ pc' = "boot" /\ held' = {} /\ UNCHANGED ignored
       \/ /\ Up!Exists /\ Up!Compatible(o) /\ vm.on /\ ~Up!up_has_restart_only_inputs(o)
          /\ held' = IF held = {} THEN {} ELSE {o}
          /\ UNCHANGED <<ignored, pc, job>>
    BY <1>1 DEF Up!Up
  <2>0. o \in CommandLines /\ UNCHANGED <<kind, config, inst, vm, given, faults>> /\ pc = "idle"
    BY <1>0, <1>1 DEF Up!Up
  <2>1. ASSUME NEW used \in BOOLEAN, job' = Up!create_up_instance(o, used), ~Up!Exists, pc' = "boot", held' = {}
        PROVE UpInv'
    <3>. DEFINE q == [o EXCEPT !.devcontainer = IF used THEN "explicit" ELSE "off"]
                t == Up!translate(o, used)
    <3>1. q \in CommandLines /\ q.devcontainer = (IF used THEN "explicit" ELSE "off")
          /\ q.env = o.env /\ q.fwd = o.fwd /\ q.hook = o.hook /\ q.cpus = o.cpus
      BY <2>0 DEF CommandLines
    <3>2. /\ Up!Asks(q).env = Up!Else(o.env, IF File.user = "ubuntu" /\ used THEN File.env ELSE Up!None)
          /\ Up!Asks(q).fwd = Up!Else(o.fwd, IF used THEN File.fwd ELSE Up!None)
          /\ Up!Asks(q).hook = Up!Else(o.hook, IF used THEN File.hook ELSE Up!None)
          /\ Up!Asks(q).cpus = Up!Else(o.cpus, IF used THEN File.cpus ELSE Up!None)
      BY <3>1 DEF Up!Asks
    <3>3. /\ o.env = Up!None => t.env = IF File.user = "ubuntu" /\ used THEN File.env ELSE Up!None
          /\ o.fwd = Up!None => t.fwd = IF used THEN File.fwd ELSE Up!None
          /\ o.hook = Up!None => t.hook = IF used THEN File.hook ELSE Up!None
          /\ o.cpus = Up!None => t.cpus = IF used THEN File.cpus ELSE Up!None
      BY DEF Up!translate, Up!translate_container_env, Up!translate_forward_ports,
         Up!translate_host_requirements, Up!remote_user_mismatch
    <3>4. /\ job'.opts = q /\ job'.boot = "first" /\ DOMAIN job' = DOMAIN Up!NoJob
          /\ job'.cpus = Up!Else(o.cpus, Up!Else(t.cpus, "one")) /\ job'.env = Up!Else(o.env, t.env)
          /\ job'.fwd = Up!Else(o.fwd, Up!Else(t.fwd, config.fwd))
          /\ job'.hook = Up!Else(o.hook, Up!Else(t.hook, config.hook))
      BY <2>1 DEF Up!create_up_instance, Up!NoJob
    <3>. HIDE DEF q, t
    <3>5. /\ Up!Asks(q).env \in {Up!None, job'.env} /\ Up!Asks(q).fwd \in {Up!None, job'.fwd}
          /\ Up!Asks(q).hook \in {Up!None, job'.hook} /\ Up!Asks(q).cpus \in {Up!None, job'.cpus}
      BY <3>2, <3>3, <3>4 DEF Up!Else
    <3>. QED BY <2>0, <2>1, <3>1, <3>4, <3>5 DEF UpAsked, UpDone, UpHeld, Up!First
  <2>2. CASE Up!Compatible(o) /\ job' = Up!restart_instance(o) /\ pc' = "boot" /\ held' = {}
    <3>1. /\ o.devcontainer # "explicit" /\ o.cpus = Up!None /\ o.image \in {Up!None, inst.image}
          /\ kind = "directory" => o.mount = inst.mount /\ ~o.exclude_git
      BY <2>2 DEF Up!Compatible, Up!Else
    <3>. QED BY <2>0, <2>2, <3>1, UpRestart
  <2>3. CASE Up!Compatible(o) /\ vm.on /\ ~Up!up_has_restart_only_inputs(o)
             /\ held' = (IF held = {} THEN {} ELSE {o}) /\ UNCHANGED <<pc, job>>
    <3>1. Up!Asks(o) = [image |-> o.image, cpus |-> Up!None, fwd |-> Up!None, env |-> Up!None, hook |-> Up!None]
      BY <2>0, <2>3, AsksPlain DEF Up!Compatible, Up!up_has_restart_only_inputs
    <3>2. /\ o.image \in {Up!None, inst.image} /\ ~o.no_agents
          /\ kind = "directory" => o.mount = inst.mount /\ ~o.exclude_git
      BY <2>0, <2>3 DEF Up!Compatible, Up!Else, Up!up_has_restart_only_inputs, CommandLines
    <3>. QED BY <2>0, <2>3, <3>1, <3>2 DEF UpHeld
  <2>. QED BY <2>1, <2>2, <2>3
<1>2. CASE Up!Start
  <2>1. PICK o \in Options :
       /\ o.image = Up!None /\ o.cpus = Up!None /\ ~o.exclude_git /\ o.devcontainer # "explicit"
       /\ job' = Up!restart_instance([o EXCEPT !.mount = inst.mount])
    BY <1>2 DEF Up!Start
  <2>. DEFINE q == [o EXCEPT !.mount = inst.mount]
  <2>2. q \in CommandLines /\ q.image = Up!None /\ q.cpus = Up!None /\ ~q.exclude_git /\ q.devcontainer # "explicit"
        /\ q.mount = inst.mount
    BY <1>0, <2>1 DEF CommandLines
  <2>. HIDE DEF q
  <2>. QED BY <1>2, <2>1, <2>2, UpRestart DEF Up!Start, q
<1>3. CASE Up!Boot
  <2>1. CASE Up!First
    <3>1. /\ DOMAIN inst' = DOMAIN Up!NoInst /\ inst'.mount = FALSE /\ inst'.env = Up!None /\ inst'.fwd = Up!None
          /\ inst'.image = Up!Else(job.opts.image, "default") /\ inst'.cpus = job.cpus
      BY <1>3, <2>1 DEF Up!Boot, Up!NoInst
    <3>2. DOMAIN vm' = DOMAIN Up!Off /\ vm'.on = TRUE /\ given' = Up!Nothing
      BY <1>3, <2>1 DEF Up!Boot, Up!Off
    <3>3. Up!Asks(job.opts).image \in {Up!None, inst'.image}
      BY <3>1 DEF Up!Asks, Up!Else
    <3>4. pc = "boot" /\ pc' = "forwards" /\ UNCHANGED <<kind, config, held, job>>
      BY <1>3 DEF Up!Boot, Up!StepOf, Up!Doing, Up!Go
    <3>5. UpShape' /\ UpGiven' /\ UpHeld'
      BY <3>1, <3>2, <3>4, UpBlank DEF UpHeld
    <3>6. Up!First' /\ UpAsked'
      BY <2>1, <3>4 DEF Up!First, UpAsked
    <3>7. UpDone'
      BY <3>1, <3>2, <3>3, <3>4 DEF UpDone
    <3>. QED BY <3>5, <3>6, <3>7
  <2>2. CASE ~Up!First
    BY <1>3, <2>2 DEF Up!Boot, Up!StepOf, Up!Doing, Up!Go, UpAsked, UpDone, UpHeld,
       Up!First, Up!Off
  <2>. QED BY <2>1, <2>2
<1>4. CASE Up!SaveForwards
  BY <1>4 DEF Up!SaveForwards, Up!StepOf, Up!Doing, Up!Go, UpAsked, UpDone, UpHeld,
     Up!First, Up!NoInst, Up!Off, Up!Nothing, Up!Else
<1>5. CASE Up!SpawnForwards
  BY <1>5 DEF Up!SpawnForwards, Up!StepOf, Up!Doing, Up!Go, UpAsked, UpDone, UpHeld,
     Up!First, Up!NoInst, Up!Off, Up!Nothing
<1>6. CASE Up!SaveEnv
  BY <1>6 DEF Up!SaveEnv, Up!StepOf, Up!Doing, Up!Go, UpAsked, UpDone, UpHeld, Up!First,
     Up!NoInst, Up!Off, Up!Nothing, Up!Else
<1>7. CASE Up!Bootstrap
  BY <1>7 DEF Up!Bootstrap, Up!StepOf, Up!Doing, Up!Go, UpAsked, UpDone, UpHeld, Up!First,
     Up!NoInst, Up!Off, Up!Nothing
<1>8. CASE Up!Transfer
  BY <1>8 DEF Up!Transfer, Up!StepOf, Up!Doing, Up!Go, UpAsked, UpDone, UpHeld, Up!First,
     Up!NoInst, Up!Off, Up!Nothing, CommandLines
<1>9. CASE Up!run_configured_post_start
  BY <1>9 DEF Up!run_configured_post_start, Up!Doing, Up!Idle, UpAsked, UpDone, UpHeld,
     Up!First, Up!NoInst, Up!Off, Up!Nothing, Up!NoJob
<1>10. CASE Up!Interrupted
  <2>1. pc' = "idle" /\ job' = Up!NoJob /\ held' = {}
    BY <1>10 DEF Up!Interrupted, Up!Idle
  <2>2. \/ inst' = Up!NoInst /\ vm' = Up!Off /\ given' = Up!Nothing
        \/ UNCHANGED <<inst, vm, given>>
    BY <1>10 DEF Up!Interrupted
  <2>. QED BY <2>1, <2>2, UpBlank DEF UpHeld
<1>11. CASE Up!EditConfig
  BY <1>11 DEF Up!EditConfig, Up!Quiet, UpHeld
<1>13. CASE Up!Stop
  BY <1>13 DEF Up!Stop, Up!Quiet, UpHeld, Up!Off
<1>14. CASE Up!Resize
  <2>1. held = {}
    BY <1>14 DEF Up!Resize, UpHeld
  <2>2. DOMAIN inst' = DOMAIN inst /\ inst'.mount = inst.mount /\ inst'.env = inst.env /\ inst'.fwd = inst.fwd
    BY <1>14 DEF Up!Resize, Up!NoInst
  <2>. QED BY <1>14, <2>1, <2>2 DEF Up!Resize, Up!Quiet, UpHeld
<1>15. CASE Up!Destroy
  <2>1. inst' = Up!NoInst /\ vm' = Up!Off /\ given' = Up!Nothing /\ held' = {} /\ pc' = "idle" /\ job' = job
    BY <1>15 DEF Up!Destroy, Up!Quiet
  <2>. QED BY <2>1, UpBlank DEF UpHeld
<1>12. CASE UNCHANGED Up!vars
  BY <1>12 DEF Up!vars, UpAsked, UpDone, UpHeld, Up!First
<1>. QED
  BY <1>1, <1>2, <1>3, <1>4, <1>5, <1>6, <1>7, <1>8, <1>9, <1>10, <1>11, <1>12, <1>13,
     <1>14, <1>15 DEF Up!Next

LEMMA UpOptionsHold == UpInv => Up!OptionsHold
BY DEF UpInv, UpGiven, UpHeld, Up!OptionsHold, Up!session_env, Up!Else
-----------------------------------------------------------------------------
(* Devcontainer *)

\* What the command at hand has found out: no file, or what its file translates to here and
\* now, with what the registry has answered.
Translation(f, project) ==
  Dev!translate(f, job.line, Dev!Stage(job.cmd), Dev!persisted_guest_user(job.cmd), project)

Translated(f, project) ==
  LET t == Translation(f, project) IN
  /\ job.read = {f} /\ job.t.carries = t.carries
  /\ IF ~Dev!Requests(f, Dev!Stage(job.cmd)) \/ pc = "fetch" THEN job.t.rows = t.rows /\ job.t.features = {}
     ELSE \/ /\ job.t.rows = t.rows \cup {[key |-> "features", item |-> "oci", status |-> "invalid"]}
             /\ job.t.features = {}
          \/ \E d \in Digests :
               /\ job.t.rows = t.rows \cup {[key |-> "features", item |-> d, status |-> "applied"]}
               /\ job.t.features = {d}

DevShape ==
  /\ file \subseteq Contents /\ tag \in Digests
  /\ image.user # "root" /\ image.profiles \subseteq {"rust"} /\ image.features \subseteq Digests
  /\ DOMAIN inst = DOMAIN Dev!NoInst
  /\ DOMAIN job = DOMAIN Dev!NoJob /\ DOMAIN job.t = DOMAIN Dev!NoTranslation

DevJob ==
  pc # "idle" =>
    /\ told = Dev!NoReport /\ job.cmd \in Dev!Commands /\ job.line \in Lines
    /\ pc \in {"find", "prompt", "load"} => job.t = Dev!NoTranslation /\ job.read \subseteq Contents
    /\ pc \in {"find", "prompt"} /\ job.source # "remote" => job.read = {}
    /\ pc = "find" => job.source = Dev!None
    /\ pc = "fetch" => \E f \in Contents : \E project \in BOOLEAN :
                          Dev!Requests(f, Dev!Stage(job.cmd)) /\ Translated(f, project)
    /\ pc \in {"apply", "record"} =>
         \/ job.read = {} /\ job.t = Dev!NoTranslation
         \/ \E f \in Contents : \E project \in BOOLEAN : Translated(f, project)
    /\ pc = "record" =>
         /\ Dev!Creates(job.cmd) /\ inst.user = image.user
         /\ LET w == Dev!Wins(job.line.given, {p \in job.t.carries : p[1] # "remoteUser"}) IN
            inst.file = w.file /\ inst.line = w.line

DevInv == DevShape /\ DevJob /\ Dev!HonestReport /\ Dev!WarnedOfChanges

LEMMA DevInit == ASSUME Dev!DevcontainerAssumption PROVE Dev!Init => DevInv
BY DEF Dev!Init, DevInv, DevShape, DevJob, Dev!NoInst, Dev!NoJob, Dev!NoTranslation,
   Dev!NoReport, Dev!HonestReport, Dev!WarnedOfChanges, Dev!Settled, Dev!Creates,
   Dev!DevcontainerAssumption

\* What a row and what a pair handed on says of the file.
LEMMA RowsOf ==
  ASSUME NEW f, NEW o, NEW stage, NEW user, NEW project,
         f \in SUBSET (Dev!Keys \X Dev!Items)
  PROVE  LET t == Dev!translate(f, o, stage, user, project)
             S(p) == Dev!Status(f, p[1], p[2], o, stage, user, project) IN
         /\ \A r \in t.rows : <<r.key, r.item>> \in f /\ r.status = S(<<r.key, r.item>>)
                              /\ ~(Dev!Requests(f, stage) /\ r.key = "features" /\ r.item = "oci")
         /\ \A p \in f : (Dev!Requests(f, stage) /\ p = <<"features", "oci">>)
                          \/ [key |-> p[1], item |-> p[2], status |-> S(p)] \in t.rows
         /\ \A q \in t.carries : q \in f /\ S(q) = "applied" /\ q = <<q[1], q[2]>>
         /\ \A r \in t.rows : r.status = "applied" => <<r.key, r.item>> \in t.carries
<1>. DEFINE t == Dev!translate(f, o, stage, user, project)
            S(p) == Dev!Status(f, p[1], p[2], o, stage, user, project)
            g == f \ (IF Dev!Requests(f, stage) THEN {<<"features", "oci">>} ELSE {})
            rows == {[key |-> p[1], item |-> p[2], status |-> S(p)] : p \in g}
<1>1. \A p \in f : p = <<p[1], p[2]>>
  OBVIOUS
<1>2. t.rows = rows /\ t.carries = {<<r.key, r.item>> : r \in {x \in rows : x.status = "applied"}}
  BY DEF Dev!translate
<1>. HIDE DEF t, S
<1>3. \A r \in rows : \E p \in g : r = [key |-> p[1], item |-> p[2], status |-> S(p)]
  OBVIOUS
<1>4. \A r \in rows : <<r.key, r.item>> \in f /\ r.status = S(<<r.key, r.item>>)
                      /\ ~(Dev!Requests(f, stage) /\ r.key = "features" /\ r.item = "oci")
  BY <1>1, <1>3
<1>5. \A p \in g : [key |-> p[1], item |-> p[2], status |-> S(p)] \in rows
  OBVIOUS
<1>6. \A q \in t.carries : \E r \in rows : r.status = "applied" /\ q = <<r.key, r.item>>
  BY <1>2
<1>. HIDE DEF rows
<1>7. \A q \in t.carries : q \in f /\ S(q) = "applied" /\ q = <<q[1], q[2]>>
  BY <1>4, <1>6
<1>8. \A p \in f : (Dev!Requests(f, stage) /\ p = <<"features", "oci">>)
                      \/ [key |-> p[1], item |-> p[2], status |-> S(p)] \in rows
  BY <1>5
<1>9. \A r \in t.rows : r.status = "applied" => <<r.key, r.item>> \in t.carries
  BY <1>2
<1>. QED BY <1>2, <1>4, <1>7, <1>8, <1>9 DEF t, S

LEMMA SetupStatus ==
  ASSUME NEW f, NEW k, NEW i, NEW o, NEW user, NEW project
  PROVE  LET s == Dev!Status(f, k, i, o, "setup", user, project) IN
         /\ k = "features" => s = IF i = "rust" THEN Dev!Else(<<"features", i>> \in o.given)
                                  ELSE IF i = "bad" THEN "invalid" ELSE "unsupported"
         /\ k = "remoteUser" => s = IF i = "root" THEN "invalid" ELSE Dev!Else(o.user # Dev!None)
<1>1. ASSUME k = "features"
      PROVE  Dev!Status(f, k, i, o, "setup", user, project) = Dev!translate_features(i, o, "setup")
  BY <1>1 DEF Dev!Status
<1>2. ASSUME k = "remoteUser"
      PROVE  Dev!Status(f, k, i, o, "setup", user, project) = Dev!translate_remote_user(i, o, "setup", user)
  BY <1>2 DEF Dev!Status
<1>. QED
  BY <1>1, <1>2 DEF Dev!translate_features, Dev!translate_remote_user,
     Dev!map_feature_to_profile, Dev!parse_supported_reference, Dev!parse_options,
     Dev!GuestUser_new

LEMMA StartStatus ==
  ASSUME NEW f, NEW k, NEW i, NEW o, NEW user, NEW project
  PROVE  LET s == Dev!Status(f, k, i, o, "start", user, project) IN
         /\ k \in Dev!Scalars \/ k = "mounts" => (s = "overridden" => Dev!Given(o, k))
         /\ k \in Dev!Scalars => (s = "applied" => ~Dev!Given(o, k))
         /\ k \in {"containerEnv", "forwardPorts"} =>
              /\ s = "overridden" => <<k, i>> \in o.given
              /\ s = "applied" => <<k, i>> \notin o.given
              /\ k = "containerEnv" /\ s = "applied" => ~Dev!remote_user_mismatch(f, user)
         /\ k \in {"features", "image"} => s = "unsupported"
         /\ k = "remoteUser" => s = IF i = "root" THEN "invalid" ELSE IF i = user THEN "applied" ELSE "unsupported"
<1>. DEFINE s == Dev!Status(f, k, i, o, "start", user, project)
<1>1. CASE k \in {"cpus", "memory", "storage"}
  <2>1. s = Dev!translate_host_requirements(k, i, o, "start")
    BY <1>1 DEF Dev!Status
  <2>. QED BY <1>1, <2>1 DEF Dev!translate_host_requirements, Dev!Else
<1>2. CASE k = "postStartCommand"
  <2>1. s = Dev!translate_post_start(i, o, "start")
    BY <1>2 DEF Dev!Status
  <2>. QED BY <1>2, <2>1 DEF Dev!translate_post_start, Dev!Else, Dev!Scalars
<1>3. CASE k = "containerEnv"
  <2>1. s = Dev!translate_container_env(f, i, o, "start", user)
    BY <1>3 DEF Dev!Status
  <2>. QED BY <1>3, <2>1 DEF Dev!translate_container_env, Dev!Else, Dev!Scalars
<1>4. CASE k = "forwardPorts"
  <2>1. s = Dev!translate_forward_ports(i, o, "start")
    BY <1>4 DEF Dev!Status
  <2>. QED BY <1>4, <2>1 DEF Dev!translate_forward_ports, Dev!Else, Dev!Scalars
<1>5. CASE k = "mounts"
  <2>1. s = Dev!translate_mounts(i, o, "start", project)
    BY <1>5 DEF Dev!Status
  <2>. QED BY <1>5, <2>1 DEF Dev!translate_mounts, Dev!Scalars
<1>6. CASE k \in {"features", "image"}
  <2>1. s = IF k = "features" THEN Dev!translate_features(i, o, "start") ELSE "unsupported"
    BY <1>6 DEF Dev!Status
  <2>. QED BY <1>6, <2>1 DEF Dev!translate_features, Dev!Scalars
<1>7. CASE k = "remoteUser"
  <2>1. s = Dev!translate_remote_user(i, o, "start", user)
    BY <1>7 DEF Dev!Status
  <2>. QED BY <1>7, <2>1 DEF Dev!translate_remote_user, Dev!GuestUser_new, Dev!Scalars
<1>. QED BY <1>1, <1>2, <1>3, <1>4, <1>5, <1>6, <1>7 DEF Dev!Scalars

LEMMA ScalarApplied ==
  ASSUME NEW f, NEW k, NEW i, NEW o, NEW user, NEW project,
         k \in Dev!Scalars, Dev!Status(f, k, i, o, "start", user, project) = "applied"
  PROVE  ~Dev!Given(o, k)
<1>1. k \in Dev!Scalars => (Dev!Status(f, k, i, o, "start", user, project) = "applied" => ~Dev!Given(o, k))
  BY StartStatus
<1>. QED BY <1>1

LEMMA EnvApplied ==
  ASSUME NEW f, NEW i, NEW o, NEW user, NEW project,
         Dev!Status(f, "containerEnv", i, o, "start", user, project) = "applied"
  PROVE  ~Dev!remote_user_mismatch(f, user)
<1>1. Dev!Status(f, "containerEnv", i, o, "start", user, project) = Dev!translate_container_env(f, i, o, "start", user)
  BY DEF Dev!Status
<1>. QED BY <1>1 DEF Dev!translate_container_env, Dev!Else

\* Every pair that was read has its row.
LEMMA AllReported ==
  ASSUME Dev!DevcontainerAssumption, NEW f \in Contents, NEW project \in BOOLEAN, Translated(f, project), pc # "fetch"
  PROVE  \A p \in f : \E r \in job.t.rows :
           r.key = p[1] /\ (r.item = p[2] \/ (p[2] = "oci" /\ r.item \in Digests))
<1>. SUFFICES ASSUME NEW p \in f
              PROVE  \E r \in job.t.rows : r.key = p[1] /\ (r.item = p[2] \/ (p[2] = "oci" /\ r.item \in Digests))
  OBVIOUS
<1>. DEFINE t == Translation(f, project)
            row == [key |-> p[1], item |-> p[2],
                    status |-> Dev!Status(f, p[1], p[2], job.line, Dev!Stage(job.cmd), Dev!persisted_guest_user(job.cmd),
                                      project)]
<1>1. f \in SUBSET (Dev!Keys \X Dev!Items)
  BY DEF Dev!DevcontainerAssumption
<1>2. (Dev!Requests(f, Dev!Stage(job.cmd)) /\ p = <<"features", "oci">>) \/ row \in t.rows
  BY <1>1, RowsOf DEF Translation
<1>3. t.rows \subseteq job.t.rows
  BY DEF Translated
<1>4. CASE row \in t.rows
  BY <1>3, <1>4
<1>5. CASE Dev!Requests(f, Dev!Stage(job.cmd)) /\ p = <<"features", "oci">>
  <2>1. PICK r \in job.t.rows : r.key = "features" /\ (r.item = "oci" \/ r.item \in Digests)
    <3>1. CASE job.t.rows = t.rows \cup {[key |-> "features", item |-> "oci", status |-> "invalid"]}
      <4>. DEFINE r == [key |-> "features", item |-> "oci", status |-> "invalid"]
      <4>1. r \in job.t.rows /\ r.key = "features" /\ r.item = "oci"
        BY <3>1
      <4>. QED BY <4>1
    <3>2. CASE \E d \in Digests : job.t.rows = t.rows \cup {[key |-> "features", item |-> d, status |-> "applied"]}
      <4>1. PICK d \in Digests : job.t.rows = t.rows \cup {[key |-> "features", item |-> d, status |-> "applied"]}
        BY <3>2
      <4>. DEFINE r == [key |-> "features", item |-> d, status |-> "applied"]
      <4>2. r \in job.t.rows /\ r.key = "features" /\ r.item = d
        BY <4>1
      <4>. QED BY <4>2
    <3>. QED BY <1>5, <3>1, <3>2 DEF Translated
  <2>. QED BY <1>5, <2>1
<1>. QED BY <1>2, <1>4, <1>5

\* After a setup.
LEMMA SetupHonest ==
  ASSUME Dev!DevcontainerAssumption, DevInv, Dev!Setup, pc' = "idle", ~Dev!Fails
  PROVE  /\ Dev!HonestReport'
         /\ image'.user # "root" /\ image'.profiles \subseteq {"rust"} /\ image'.features \subseteq Digests
<1>. DEFINE o == job.line
            asks == {p[2] : p \in {q \in job.t.carries : q[1] = "remoteUser"}}
<1>1. /\ told' = [cmd |-> "setup", rows |-> job.t.rows, read |-> job.read, warned |-> FALSE]
      /\ image'.user = IF o.user # Dev!None THEN o.user ELSE IF asks # {} THEN CHOOSE u \in asks : TRUE ELSE "ubuntu"
      /\ image'.profiles \in {Dev!resolve_template_config, Dev!Asked}
      /\ image'.features = job.t.features
      /\ job.cmd = "setup" /\ pc = "apply" /\ o \in Lines
  <2>. DEFINE user == IF o.user # Dev!None THEN o.user ELSE IF asks # {} THEN CHOOSE u \in asks : TRUE ELSE "ubuntu"
  <2>1. /\ \E profiles \in {Dev!resolve_template_config, Dev!Asked} :
             image' = [user |-> user, profiles |-> profiles, features |-> job.t.features]
        /\ Dev!Tell(FALSE) /\ job.cmd = "setup" /\ pc = "apply"
    BY DEF Dev!Setup
  <2>2. o \in Lines
    BY <2>1 DEF DevInv, DevJob
  <2>. HIDE DEF user
  <2>3. /\ image'.user = user /\ image'.profiles \in {Dev!resolve_template_config, Dev!Asked}
        /\ image'.features = job.t.features
    BY <2>1
  <2>. QED BY <2>1, <2>2, <2>3 DEF Dev!Tell, user
<1>2. Dev!Stage(job.cmd) = "setup" /\ ~Dev!Creates(job.cmd) /\ o.user # "root"
  BY <1>1 DEF Dev!Stage, Dev!Creates, Dev!DevcontainerAssumption, Dev!Users, Dev!None
<1>3. Dev!Asked \subseteq {"rust"} /\ image'.profiles \subseteq {"rust"}
  BY <1>1 DEF Dev!Asked, Dev!Profiles, Dev!resolve_template_config, DevInv, DevShape
<1>4. CASE job.read = {} /\ job.t = Dev!NoTranslation
  <2>1. asks = {}
    BY <1>4 DEF Dev!NoTranslation
  <2>2. image'.user # "root" /\ image'.features \subseteq Digests
    BY <1>1, <1>2, <1>4, <2>1 DEF Dev!NoTranslation
  <2>. QED BY <1>1, <1>2, <1>3, <1>4, <2>2 DEF Dev!HonestReport, Dev!Settled, Dev!Creates,
     Dev!NoTranslation
<1>5. ASSUME NEW f \in Contents, NEW project \in BOOLEAN, Translated(f, project)
      PROVE  Dev!HonestReport' /\ image'.user # "root" /\ image'.features \subseteq Digests
  <2>. DEFINE t == Translation(f, project)
              S(k, i) == Dev!Status(f, k, i, o, "setup", Dev!persisted_guest_user(job.cmd), project)
  <2>1. f \in SUBSET (Dev!Keys \X Dev!Items)
    BY DEF Dev!DevcontainerAssumption
  <2>2. /\ \A r \in t.rows : <<r.key, r.item>> \in f /\ r.status = S(r.key, r.item)
                              /\ ~(Dev!Requests(f, "setup") /\ r.key = "features" /\ r.item = "oci")
        /\ \A q \in t.carries : q \in f /\ S(q[1], q[2]) = "applied" /\ q = <<q[1], q[2]>>
        /\ \A r \in t.rows : r.status = "applied" => <<r.key, r.item>> \in t.carries
    BY <2>1, <1>2, RowsOf DEF Translation
  <2>3. /\ \A i : S("features", i) = IF i = "rust" THEN Dev!Else(<<"features", i>> \in o.given)
                                     ELSE IF i = "bad" THEN "invalid" ELSE "unsupported"
        /\ \A i : S("remoteUser", i) = IF i = "root" THEN "invalid" ELSE Dev!Else(o.user # Dev!None)
    BY SetupStatus
  <2>4. \A r \in job.t.rows : \/ r \in t.rows
                              \/ r.key = "features" /\ r.item = "oci" /\ r.status = "invalid"
                              \/ r.key = "features" /\ r.item \in job.t.features /\ r.status = "applied"
    <3>1. ASSUME NEW r \in job.t.rows PROVE
              \/ r \in t.rows
              \/ r = [key |-> "features", item |-> "oci", status |-> "invalid"]
              \/ \E d \in job.t.features : r = [key |-> "features", item |-> d, status |-> "applied"]
      BY <1>5 DEF Translated
    <3>. QED BY <3>1
  <2>5. job.t.carries = t.carries /\ job.t.features \subseteq Digests /\ job.read = {f}
    BY <1>5 DEF Translated
  <2>. HIDE DEF t, S
  <2>6. asks \subseteq {p[2] : p \in f} /\ \A u \in asks : <<"remoteUser", u>> \in t.carries
    BY <2>2, <2>5
  <2>7. \A u \in asks : u # "root" /\ o.user = Dev!None /\ <<"remoteUser", u>> \in f
    BY <2>2, <2>3, <2>6 DEF Dev!Else
  <2>8. \A u, w \in asks : u = w
    <3>. SUFFICES ASSUME NEW u \in asks, NEW w \in asks PROVE u = w
      OBVIOUS
    <3>1. <<"remoteUser", u>> \in f /\ <<"remoteUser", w>> \in f
      BY <2>7
    <3>2. <<"remoteUser", u>> = <<"remoteUser", w>>
      BY <3>1 DEF Dev!DevcontainerAssumption
    <3>. QED BY <3>2
  <2>. HIDE DEF asks
  <2>9. image'.user # "root" /\ (\A u \in asks : image'.user = u) /\ (o.user # Dev!None => image'.user = o.user)
    BY <1>1, <1>2, <2>7, <2>8
  <2>10. ASSUME NEW r \in job.t.rows, r.key = "features"
         PROVE  /\ r.status = "applied" => r.item \in image'.profiles \cup image'.features
                /\ r.status = "overridden" => r.item \in image'.profiles
                /\ r.status \in {"unsupported", "invalid"} => r.item \notin image'.profiles \cup image'.features
    <3>1. CASE r \in t.rows
      <4>1. r.item \in Dev!Items /\ r.status = IF r.item = "rust" THEN Dev!Else(<<"features", r.item>> \in o.given)
                                     ELSE IF r.item = "bad" THEN "invalid" ELSE "unsupported"
        BY <2>1, <2>2, <2>3, <2>10, <3>1
      <4>2. r.item \notin Digests
        BY <4>1 DEF Dev!DevcontainerAssumption
      <4>3. ASSUME r.item = "rust" PROVE r.item \in image'.profiles
        <5>1. <<"features", "rust">> \in o.given \/ <<"features", "rust">> \in job.t.carries
          BY <4>1, <4>3, <2>2, <2>5, <2>10, <3>1 DEF Dev!Else
        <5>2. "rust" \in Dev!Asked
          BY <5>1 DEF Dev!Asked, Dev!Profiles
        <5>. QED BY <4>3, <5>2, <1>1 DEF Dev!resolve_template_config
      <4>. QED BY <4>1, <4>2, <4>3, <1>1, <1>3, <2>5 DEF Dev!Else
    <3>2. CASE r.item = "oci" /\ r.status = "invalid"
      BY <3>2, <1>1, <1>3, <2>5 DEF Dev!DevcontainerAssumption, Dev!Items
    <3>3. CASE r.item \in job.t.features /\ r.status = "applied"
      BY <3>3, <1>1
    <3>. QED BY <2>4, <3>1, <3>2, <3>3
  <2>11. ASSUME NEW r \in job.t.rows, r.key = "remoteUser"
         PROVE  /\ r.status = "applied" => r.item = image'.user
                /\ r.status \in {"unsupported", "invalid"} => r.item # image'.user
    <3>1. r \in t.rows
      BY <2>4, <2>11
    <3>2. r.status = IF r.item = "root" THEN "invalid" ELSE Dev!Else(o.user # Dev!None)
      BY <2>2, <2>3, <2>11, <3>1
    <3>3. r.status = "applied" => r.item \in asks
      BY <2>2, <2>5, <2>11, <3>1 DEF asks
    <3>. QED BY <2>9, <3>2, <3>3 DEF Dev!Else
  <2>12. \A p \in f : \E r \in job.t.rows : r.key = p[1] /\ (r.item = p[2] \/ (p[2] = "oci" /\ r.item \in Digests))
    BY <1>1, <1>5, AllReported
  <2>13. told'.cmd = "setup" /\ told'.rows = job.t.rows /\ told'.read = {f}
    BY <1>1, <2>5
  <2>. QED
    <3>1. /\ \A r \in Dev!Settled' : r \in job.t.rows /\ r.key \in {"features", "remoteUser"}
          /\ ~Dev!Creates(told'.cmd)
      BY <2>13 DEF Dev!Settled, Dev!Creates
    <3>2. (\A r \in Dev!Settled : /\ r.status = "applied" => Dev!InForce(r)
                                  /\ r.status = "overridden" => Dev!Overrides(r)
                                  /\ r.status \in {"unsupported", "invalid"} => ~Dev!InForce(r))'
      BY <2>10, <2>11, <2>13, <3>1 DEF Dev!InForce, Dev!Overrides
    <3>3. \A g \in told'.read : \A p \in g :
            \E r \in told'.rows : r.key = p[1] /\ (r.item = p[2] \/ (p[2] = "oci" /\ r.item \in Digests))
      BY <2>12, <2>13
    <3>4. Dev!HonestReport'
      BY <3>1, <3>2, <3>3 DEF Dev!HonestReport, Dev!Creates
    <3>. QED BY <1>1, <2>5, <2>9, <3>4
<1>. QED BY <1>1, <1>3, <1>4, <1>5 DEF DevInv, DevJob

\* After an up, clone or quickstart.
LEMMA RecordHonest == ASSUME Dev!DevcontainerAssumption, DevInv, Dev!Record PROVE Dev!HonestReport'
<1>. DEFINE o == job.line
            carries == {p \in job.t.carries : p[1] # "remoteUser"}
<1>1. /\ told' = [cmd |-> job.cmd, rows |-> job.t.rows, read |-> job.read, warned |-> FALSE]
      /\ inst' = [inst EXCEPT !.of = job.read, !.source = job.source] /\ image' = image
      /\ Dev!Creates(job.cmd) /\ pc = "record"
      /\ inst.user = image.user
      /\ inst.file = Dev!Wins(o.given, carries).file /\ inst.line = Dev!Wins(o.given, carries).line
  BY DEF Dev!Record, Dev!Tell, DevInv, DevJob
<1>2. /\ told'.cmd = job.cmd /\ told'.rows = job.t.rows /\ told'.read = job.read
      /\ inst'.user = image.user /\ inst'.file = inst.file /\ inst'.line = inst.line
  BY <1>1 DEF DevInv, DevShape, Dev!NoInst
<1>3. Dev!Stage(job.cmd) = "start" /\ job.cmd \notin {"setup", "restart"}
  BY <1>1 DEF Dev!Stage, Dev!Creates
<1>4. SUFFICES ASSUME job.cmd = "quickstart" => image.user = "ubuntu"
               PROVE  /\ \A f \in job.read : \A p \in f : \E r \in job.t.rows :
                           r.key = p[1] /\ (r.item = p[2] \/ (p[2] = "oci" /\ r.item \in Digests))
                      /\ (\A r \in Dev!Settled : /\ r.status = "applied" => Dev!InForce(r)
                                                 /\ r.status = "overridden" => Dev!Overrides(r)
                                                 /\ r.status \in {"unsupported", "invalid"} => ~Dev!InForce(r))'
                      /\ (\E p \in inst.file : p[1] = "containerEnv") =>
                           \A f \in job.read : Dev!Named(f) \subseteq {image.user, "root"}
  BY <1>1, <1>2 DEF Dev!HonestReport
<1>5. Dev!persisted_guest_user(job.cmd) = image.user
  BY <1>4 DEF Dev!persisted_guest_user
<1>6. Dev!Settled' = job.t.rows
  BY <1>1, <1>2, <1>3 DEF Dev!Settled, Dev!Creates
<1>7. CASE job.read = {} /\ job.t = Dev!NoTranslation
  <2>1. inst.file = {}
    BY <1>1, <1>7 DEF Dev!Wins, Dev!NoTranslation
  <2>. QED BY <1>6, <1>7, <2>1 DEF Dev!NoTranslation
<1>8. ASSUME NEW f \in Contents, NEW project \in BOOLEAN, Translated(f, project)
      PROVE  /\ \A p \in f : \E r \in job.t.rows :
                  r.key = p[1] /\ (r.item = p[2] \/ (p[2] = "oci" /\ r.item \in Digests))
             /\ (\A r \in Dev!Settled : /\ r.status = "applied" => Dev!InForce(r)
                                        /\ r.status = "overridden" => Dev!Overrides(r)
                                        /\ r.status \in {"unsupported", "invalid"} => ~Dev!InForce(r))'
             /\ (\E p \in inst.file : p[1] = "containerEnv") => Dev!Named(f) \subseteq {image.user, "root"}
  <2>. DEFINE t == Translation(f, project)
              S(k, i) == Dev!Status(f, k, i, o, "start", image.user, project)
  <2>1. f \in SUBSET (Dev!Keys \X Dev!Items)
    BY DEF Dev!DevcontainerAssumption
  <2>2. /\ \A r \in t.rows : <<r.key, r.item>> \in f /\ r.status = S(r.key, r.item)
        /\ \A q \in t.carries : q \in f /\ S(q[1], q[2]) = "applied" /\ q = <<q[1], q[2]>>
        /\ \A r \in t.rows : r.status = "applied" => <<r.key, r.item>> \in t.carries
    BY <2>1, <1>3, <1>5, RowsOf DEF Translation
  <2>3. job.t.rows = t.rows /\ job.t.carries = t.carries
    BY <1>3, <1>8 DEF Translated, Dev!Requests
  <2>. HIDE DEF t
  <2>4. inst.file = {q \in carries : q[1] \in {"cpus", "memory", "mounts"}
                       \/ (q \notin o.given /\ ~(q[1] \in Dev!Scalars /\ \E p \in o.given : p[1] = q[1]))}
        /\ inst.line = {p \in o.given : ~ \E q \in carries : p[1] = q[1] /\ p[1] \in {"cpus", "memory"}}
    BY <1>1 DEF Dev!Wins
  <2>5. \A q \in carries : q \in t.carries /\ q[1] # "remoteUser"
    BY <2>3
  <2>6. \A q \in t.carries : q[1] # "remoteUser" => q \in carries
    BY <2>3
  <2>. HIDE DEF carries
  <2>7. ASSUME NEW r \in t.rows
        PROVE  /\ r.status = "applied" => Dev!InForce(r)'
               /\ r.status = "overridden" => Dev!Overrides(r)'
               /\ r.status \in {"unsupported", "invalid"} => ~Dev!InForce(r)'
    <3>. DEFINE k == r.key
                i == r.item
    <3>1. k \in Dev!Keys /\ <<k, i>> \in f /\ r.status = S(k, i)
      BY <2>1, <2>2
    <3>2. /\ k \in Dev!Scalars \/ k = "mounts" => (r.status = "overridden" => Dev!Given(o, k))
          /\ k \in Dev!Scalars => (r.status = "applied" => ~Dev!Given(o, k))
          /\ k \in {"containerEnv", "forwardPorts"} =>
               /\ r.status = "overridden" => <<k, i>> \in o.given
               /\ r.status = "applied" => <<k, i>> \notin o.given
          /\ k \in {"features", "image"} => r.status = "unsupported"
          /\ k = "remoteUser" => r.status = IF i = "root" THEN "invalid"
                                            ELSE IF i = image.user THEN "applied" ELSE "unsupported"
      BY <3>1, StartStatus
    <3>3. /\ Dev!InForce(r)' <=> IF k = "remoteUser" THEN i = image.user
                             ELSE k # "features" /\ <<k, i>> \in inst.file
          /\ Dev!Overrides(r)' <=> IF k = "remoteUser" THEN TRUE
                               ELSE IF k = "features" THEN i \in image.profiles
                               ELSE \E p \in inst.line : p[1] = k
      BY <1>1, <1>2, <1>3 DEF Dev!InForce, Dev!Overrides
    <3>4. r.status = "applied" => <<k, i>> \in t.carries
      BY <2>2
    <3>5. r.status # "applied" => <<k, i>> \notin inst.file
      BY <2>2, <2>4, <2>5, <3>1
    <3>. HIDE DEF k, i
    <3>6. ASSUME r.status = "applied", k \notin {"remoteUser", "features"} PROVE <<k, i>> \in inst.file
      <4>1. <<k, i>> \in carries
        BY <2>6, <3>4, <3>6
      <4>2. CASE k \in {"cpus", "memory", "mounts"}
        BY <2>4, <4>1, <4>2
      <4>3. CASE k \in Dev!Scalars
        BY <2>4, <3>2, <3>6, <4>1, <4>3 DEF Dev!Given
      <4>4. CASE k \in {"containerEnv", "forwardPorts"}
        BY <2>4, <3>2, <3>6, <4>1, <4>4 DEF Dev!Scalars
      <4>. QED BY <3>1, <3>2, <3>6, <4>2, <4>3, <4>4 DEF Dev!Keys
    <3>7. ASSUME r.status = "overridden" PROVE k = "remoteUser" \/ (k # "features" /\ \E p \in inst.line : p[1] = k)
      <4>1. CASE k \in {"cpus", "memory"}
        <5>1. PICK p \in o.given : p[1] = k
          BY <3>2, <3>7, <4>1 DEF Dev!Given, Dev!Scalars
        <5>2. \A q \in carries : q[1] # k
          <6> SUFFICES ASSUME NEW q \in carries, q[1] = k PROVE FALSE
            OBVIOUS
          <6>1. S(k, q[2]) = "applied"
            BY <2>2, <2>5
          <6>2. ~Dev!Given(o, k)
            <7>1. k \in Dev!Scalars
              BY <4>1 DEF Dev!Scalars
            <7>. QED BY <6>1, <7>1, ScalarApplied
          <6>. QED BY <5>1, <6>2 DEF Dev!Given
        <5>. QED BY <2>4, <4>1, <5>1, <5>2
      <4>2. CASE k \in {"storage", "postStartCommand", "mounts"}
        <5>1. PICK p \in o.given : p[1] = k
          BY <3>2, <3>7, <4>2 DEF Dev!Given, Dev!Scalars
        <5>. QED BY <2>4, <4>2, <5>1
      <4>3. CASE k \in {"containerEnv", "forwardPorts"}
        BY <2>4, <3>2, <3>7, <4>3
      <4>. QED BY <3>1, <3>2, <3>7, <4>1, <4>2, <4>3 DEF Dev!Keys, Dev!Scalars
    <3>8. k = "features" => r.status = "unsupported"
      BY <3>2
    <3>9. k = "remoteUser" /\ i = image.user => r.status \notin {"unsupported", "invalid"}
      BY <3>2 DEF DevInv, DevShape
    <3>10. k = "remoteUser" /\ r.status = "applied" => i = image.user
      BY <3>2
    <3>. QED BY <3>3, <3>5, <3>6, <3>7, <3>8, <3>9, <3>10
  <2>8. ASSUME NEW p \in inst.file, p[1] = "containerEnv" PROVE Dev!Named(f) \subseteq {image.user, "root"}
    <3>1. p \in f /\ S("containerEnv", p[2]) = "applied"
      BY <2>2, <2>4, <2>5, <2>8
    <3>2. ~Dev!remote_user_mismatch(f, image.user)
      BY <3>1, EnvApplied
    <3>. QED BY <3>2 DEF Dev!remote_user_mismatch, Dev!GuestUser_new
  <2>9. \A p \in f : \E r \in job.t.rows : r.key = p[1] /\ (r.item = p[2] \/ (p[2] = "oci" /\ r.item \in Digests))
    BY <1>1, <1>8, AllReported
  <2>. QED BY <1>6, <2>3, <2>7, <2>8, <2>9
<1>9. \A f \in Contents : \A project \in BOOLEAN : Translated(f, project) => job.read = {f}
  BY DEF Translated
<1>. QED BY <1>1, <1>7, <1>8, <1>9 DEF DevInv, DevJob

\* Without a report there is nothing to be honest about; and a report stays true while
\* image and instance stay as they are.
LEMMA NothingTold == ASSUME told' = Dev!NoReport PROVE Dev!HonestReport' /\ Dev!WarnedOfChanges'
<1>1. told'.cmd = Dev!None /\ told'.rows = {} /\ told'.read = {}
  BY DEF Dev!NoReport
<1>2. ~Dev!Creates(told.cmd)' /\ told'.cmd # "restart"
  BY <1>1 DEF Dev!Creates, Dev!None
<1>3. Dev!Settled' = {}
  BY <1>1 DEF Dev!Settled
<1>. QED BY <1>1, <1>2, <1>3 DEF Dev!HonestReport, Dev!WarnedOfChanges

LEMMA StillTold ==
  ASSUME Dev!HonestReport, Dev!WarnedOfChanges, UNCHANGED <<told, image, inst>>
  PROVE  Dev!HonestReport' /\ Dev!WarnedOfChanges'
BY DEF Dev!HonestReport, Dev!WarnedOfChanges, Dev!Settled, Dev!InForce, Dev!Overrides,
   Dev!Creates

\* A report that is only looked at.
LEMMA DryHonest ==
  ASSUME Dev!DevcontainerAssumption, DevInv, Dev!DryRun PROVE Dev!HonestReport' /\ Dev!WarnedOfChanges'
<1>1. /\ told'.cmd = job.cmd /\ told'.rows = job.t.rows /\ told'.read = job.read
      /\ job.cmd \in {"preview", "check"} /\ pc = "apply"
  BY DEF Dev!DryRun, Dev!Tell, Dev!Dry
<1>2. ASSUME NEW f \in job.read, NEW p \in f
      PROVE  \E r \in job.t.rows : r.key = p[1] /\ (r.item = p[2] \/ (p[2] = "oci" /\ r.item \in Digests))
  <2>1. PICK g \in Contents, project \in BOOLEAN : Translated(g, project)
    BY <1>1, <1>2 DEF DevInv, DevJob
  <2>2. f = g
    BY <1>2, <2>1 DEF Translated
  <2>. QED BY <1>1, <1>2, <2>1, <2>2, AllReported
<1>3. Dev!Settled' = {} /\ ~Dev!Creates(told.cmd)'
  BY <1>1 DEF Dev!Settled, Dev!Creates
<1>. QED BY <1>1, <1>2, <1>3 DEF Dev!HonestReport, Dev!WarnedOfChanges

LEMMA DevStep == Dev!DevcontainerAssumption /\ DevInv /\ [Dev!Next]_(Dev!vars) => DevInv'
<1>. SUFFICES ASSUME Dev!DevcontainerAssumption, DevInv, [Dev!Next]_(Dev!vars) PROVE DevInv' OBVIOUS
<1>. USE DEF DevInv, DevShape
<1>1. CASE Dev!EditFile \/ Dev!MoveTag \/ Dev!cmd_devcontainer
  <2>1. file' \subseteq Contents /\ tag' \in Digests /\ UNCHANGED <<image, inst, pc, job, told>>
    BY <1>1 DEF Dev!EditFile, Dev!MoveTag, Dev!cmd_devcontainer, Dev!Meanwhile
  <2>2. DevJob'
    BY <2>1 DEF DevJob, Translated, Translation, Dev!translate, Dev!persisted_guest_user
  <2>. QED BY <2>1, <2>2, StillTold
<1>2. ASSUME pc' = "idle", job' = Dev!NoJob, UNCHANGED <<file, tag, image, inst, told>> PROVE DevInv'
  BY <1>2, StillTold DEF DevJob, Dev!NoJob, Dev!NoTranslation
<1>3. CASE Dev!Kill
  BY <1>2, <1>3 DEF Dev!Kill
<1>4. CASE Dev!Fails
  BY <1>2, <1>4 DEF Dev!Fails, Dev!Go
<1>5. ASSUME NEW cmd \in Dev!Commands, NEW o \in Lines, Dev!Command(cmd, o) PROVE DevInv'
  <2>1. /\ pc' = "find" /\ told' = Dev!NoReport /\ UNCHANGED <<file, tag, image, inst>>
        /\ job' = [Dev!NoJob EXCEPT !.cmd = cmd, !.line = o]
    BY <1>5 DEF Dev!Command
  <2>2. /\ job'.cmd = cmd /\ job'.line = o /\ job'.t = Dev!NoTranslation /\ job'.read = {} /\ job'.source = Dev!None
        /\ DOMAIN job' = DOMAIN Dev!NoJob
    BY <2>1 DEF Dev!NoJob
  <2>. QED BY <2>1, <2>2, NothingTold DEF DevJob, Dev!NoTranslation
<1>6. ASSUME NEW p, Dev!Go(p), pc # "idle", p # "idle",
             DOMAIN job' = DOMAIN Dev!NoJob, DOMAIN job'.t = DOMAIN Dev!NoTranslation,
             job'.cmd = job.cmd, job'.line = job.line,
             p \in {"prompt", "load"} => job'.t = Dev!NoTranslation /\ job'.read \subseteq Contents,
             p = "prompt" /\ job'.source # "remote" => job'.read = {},
             p = "fetch" => \E f \in Contents : \E project \in BOOLEAN :
                              (Dev!Requests(f, Dev!Stage(job.cmd)) /\ Translated(f, project))',
             p = "apply" => \/ job'.read = {} /\ job'.t = Dev!NoTranslation
                            \/ \E f \in Contents : \E project \in BOOLEAN : Translated(f, project)',
             p \in {"prompt", "load", "fetch", "apply"}
      PROVE  DevInv'
  <2>1. told' = Dev!NoReport /\ UNCHANGED <<file, tag, image, inst>> /\ pc' = p
    BY <1>6 DEF Dev!Go, DevJob
  <2>2. DevJob'
    BY <1>6, <2>1 DEF DevJob
  <2>. QED BY <1>6, <2>1, <2>2, NothingTold
<1>7. CASE Dev!resolve_devcontainer_collect
  <2>1. pc = "find" /\ job.t = Dev!NoTranslation /\ job.read = {}
    BY <1>7 DEF Dev!resolve_devcontainer_collect, DevJob, Dev!None
  <2>2. \/ Dev!Fails
        \/ Dev!Without
        \/ \E s \in {"project", "mount"} :
             (Dev!Go("load") \/ Dev!Go("prompt")) /\ job' = [job EXCEPT !.source = s]
        \/ (Dev!Go("load") \/ Dev!Go("prompt")) /\ job' = [job EXCEPT !.source = "remote", !.read = file]
    BY <1>7 DEF Dev!resolve_devcontainer_collect, Dev!pick_winner
  <2>3. CASE Dev!Without
    <3>1. /\ job'.read = {} /\ job'.t = Dev!NoTranslation /\ job'.cmd = job.cmd /\ job'.line = job.line
          /\ DOMAIN job' = DOMAIN Dev!NoJob /\ Dev!Go("apply")
      BY <2>1, <2>3 DEF Dev!Without, Dev!NoJob
    <3>. QED BY <1>6, <2>1, <3>1
  <2>4. ASSUME Dev!Go("load") \/ Dev!Go("prompt"),
               (\E s \in {"project", "mount"} : job' = [job EXCEPT !.source = s])
               \/ job' = [job EXCEPT !.source = "remote", !.read = file]
        PROVE  DevInv'
    <3>1. /\ job'.t = Dev!NoTranslation /\ job'.cmd = job.cmd /\ job'.line = job.line
          /\ DOMAIN job' = DOMAIN Dev!NoJob
          /\ job'.read \subseteq Contents /\ (job'.source # "remote" => job'.read = {})
      BY <2>1, <2>4 DEF Dev!NoJob
    <3>. QED BY <1>6, <2>1, <2>4, <3>1
  <2>. QED BY <1>4, <2>2, <2>3, <2>4
<1>8. CASE Dev!Prompt
  <2>1. pc = "prompt" /\ job.t = Dev!NoTranslation /\ job.read \subseteq Contents
        /\ job.cmd \in Dev!Commands /\ job.line \in Lines /\ told = Dev!NoReport
    BY <1>8 DEF Dev!Prompt, DevJob
  <2>2. CASE Dev!Go("load") /\ UNCHANGED job
    BY <1>6, <2>1, <2>2
  <2>3. CASE Dev!Without
    <3>1. /\ job'.read = {} /\ job'.t = Dev!NoTranslation /\ job'.cmd = job.cmd /\ job'.line = job.line
          /\ DOMAIN job' = DOMAIN Dev!NoJob /\ Dev!Go("apply")
      BY <2>1, <2>3 DEF Dev!Without, Dev!NoJob
    <3>. QED BY <1>6, <2>1, <3>1
  <2>4. CASE job.source # "remote" /\ Dev!maybe_record_devcontainer_opt_out /\ pc' = "apply"
             /\ job' = [job EXCEPT !.source = Dev!None] /\ UNCHANGED <<file, tag, image, inst, told, edits, faults>>
    <3>1. job.read = {}
      BY <2>1, <2>4 DEF DevJob
    <3>2. /\ job'.read = {} /\ job'.t = Dev!NoTranslation /\ job'.cmd = job.cmd /\ job'.line = job.line
          /\ DOMAIN job' = DOMAIN Dev!NoJob
      BY <2>1, <2>4, <3>1 DEF Dev!NoJob
    <3>. QED BY <2>1, <2>4, <3>2, NothingTold DEF DevJob
  <2>. QED BY <1>4, <1>8, <2>2, <2>3, <2>4 DEF Dev!Prompt
<1>9. CASE Dev!Load
  <2>1. CASE Dev!Fails
    BY <1>4, <2>1
  <2>2. CASE ~Dev!Fails
    <3>1. PICK f \in Dev!Text, project \in BOOLEAN :
            /\ Dev!Go(IF Dev!Requests(f, Dev!Stage(job.cmd)) THEN "fetch" ELSE "apply")
            /\ job' = [job EXCEPT !.read = {f}, !.t = Translation(f, project)]
      <4>1. PICK f \in Dev!Text :
              /\ Dev!Go(IF Dev!Requests(f, Dev!Stage(job.cmd)) THEN "fetch" ELSE "apply")
              /\ \E project \in {TRUE, job.cmd # "preview" \/ job.line.devcontainer # "explicit"} :
                   LET t == Dev!translate(f, job.line, Dev!Stage(job.cmd), Dev!persisted_guest_user(job.cmd), project) IN
                   job' = [job EXCEPT !.read = {f}, !.t = t]
        BY <1>9, <2>2 DEF Dev!Load
      <4>2. {TRUE, job.cmd # "preview" \/ job.line.devcontainer # "explicit"} \subseteq BOOLEAN
        OBVIOUS
      <4>. QED BY <4>1, <4>2 DEF Translation
    <3>2. pc = "load" /\ f \in Contents
      BY <1>9, <3>1 DEF Dev!Load, Dev!Text, DevJob, Dev!DevcontainerAssumption
    <3>3. DOMAIN Translation(f, project) = DOMAIN Dev!NoTranslation /\ Translation(f, project).features = {}
      BY DEF Translation, Dev!translate, Dev!NoTranslation
    <3>4. /\ job'.read = {f} /\ job'.t = Translation(f, project) /\ job'.cmd = job.cmd /\ job'.line = job.line
          /\ DOMAIN job' = DOMAIN Dev!NoJob
      BY <3>1 DEF Dev!NoJob
    <3>5. image' = image /\ pc' = IF Dev!Requests(f, Dev!Stage(job.cmd)) THEN "fetch" ELSE "apply"
      BY <3>1 DEF Dev!Go
    <3>6. /\ Translation(f, project)' = Translation(f, project)
          /\ Dev!Requests(f, Dev!Stage(job.cmd))' = Dev!Requests(f, Dev!Stage(job.cmd))
      BY <3>4, <3>5 DEF Translation, Dev!translate, Dev!persisted_guest_user, Dev!Requests,
         Dev!Stage
    <3>7. Translated(f, project)'
      BY <3>3, <3>4, <3>5, <3>6 DEF Translated
    <3>. QED BY <1>6, <3>1, <3>2, <3>3, <3>4, <3>5, <3>6, <3>7
  <2>. QED BY <2>1, <2>2
<1>10. CASE Dev!resolve_oci_feature_requests
  <2>1. PICK f \in Contents, project \in BOOLEAN :
          Dev!Requests(f, Dev!Stage(job.cmd)) /\ Translated(f, project) /\ pc = "fetch" /\ Dev!Go("apply")
    BY <1>10 DEF Dev!resolve_oci_feature_requests, DevJob
  <2>2. /\ DOMAIN job' = DOMAIN Dev!NoJob /\ DOMAIN job'.t = DOMAIN Dev!NoTranslation
        /\ job'.cmd = job.cmd /\ job'.line = job.line /\ job'.read = job.read /\ job'.t.carries = job.t.carries
        /\ \/ /\ job'.t.features = {tag}
              /\ job'.t.rows = job.t.rows \cup {[key |-> "features", item |-> tag, status |-> "applied"]}
           \/ /\ job'.t.features = job.t.features
              /\ job'.t.rows = job.t.rows \cup {[key |-> "features", item |-> "oci", status |-> "invalid"]}
    <3>1. DOMAIN job = DOMAIN Dev!NoJob /\ DOMAIN job.t = DOMAIN Dev!NoTranslation
      OBVIOUS
    <3>2. CASE job' = [job EXCEPT !.t.features = {tag},
                           !.t.rows = @ \cup {[key |-> "features", item |-> tag, status |-> "applied"]}]
      BY <3>1, <3>2 DEF Dev!NoJob, Dev!NoTranslation
    <3>3. CASE job' = [job EXCEPT !.t.rows = @ \cup {[key |-> "features", item |-> "oci", status |-> "invalid"]}]
      BY <3>1, <3>3 DEF Dev!NoJob, Dev!NoTranslation
    <3>. QED BY <1>10, <3>2, <3>3 DEF Dev!resolve_oci_feature_requests
  <2>3. image' = image /\ pc' = "apply"
    BY <2>1 DEF Dev!Go
  <2>4. /\ Translation(f, project)' = Translation(f, project)
        /\ Dev!Requests(f, Dev!Stage(job.cmd))' = Dev!Requests(f, Dev!Stage(job.cmd))
    BY <2>2, <2>3 DEF Translation, Dev!translate, Dev!persisted_guest_user, Dev!Requests,
       Dev!Stage
  <2>5. Translated(f, project)'
    BY <2>1, <2>2, <2>3, <2>4 DEF Translated
  <2>. QED BY <1>6, <2>1, <2>2, <2>5
<1>11. CASE Dev!DryRun
  BY <1>11, DryHonest DEF Dev!DryRun, DevJob, Dev!NoJob, Dev!NoTranslation
<1>12. CASE Dev!Setup /\ ~Dev!Fails
  <2>1. pc' = "idle" /\ job' = Dev!NoJob /\ UNCHANGED <<file, tag, inst>> /\ told'.cmd = "setup"
    BY <1>12 DEF Dev!Setup, Dev!Tell
  <2>. QED BY <1>12, <2>1, SetupHonest DEF DevJob, Dev!NoJob, Dev!NoTranslation,
     Dev!WarnedOfChanges
<1>13. CASE Dev!create_up_instance /\ ~Dev!Fails
  <2>. DEFINE w == Dev!Wins(job.line.given, {p \in job.t.carries : p[1] # "remoteUser"})
  <2>1. /\ pc = "apply" /\ pc' = "record" /\ Dev!Creates(job.cmd) /\ UNCHANGED <<file, tag, image, job, told>>
        /\ inst' = [Dev!NoInst EXCEPT !.user = image.user, !.file = w.file, !.line = w.line]
    BY <1>13 DEF Dev!create_up_instance
  <2>2. DOMAIN inst' = DOMAIN Dev!NoInst /\ inst'.user = image.user /\ inst'.file = w.file /\ inst'.line = w.line
    BY <2>1 DEF Dev!NoInst
  <2>3. told = Dev!NoReport /\ job.cmd \in Dev!Commands /\ job.line \in Lines
    BY <2>1 DEF DevJob
  <2>4. \/ job'.read = {} /\ job'.t = Dev!NoTranslation
        \/ \E f \in Contents : \E project \in BOOLEAN : Translated(f, project)'
    BY <2>1 DEF DevJob, Translated, Translation, Dev!translate, Dev!persisted_guest_user
  <2>5. DevJob'
    BY <2>1, <2>2, <2>3, <2>4 DEF DevJob
  <2>. QED BY <2>1, <2>2, <2>3, <2>5, NothingTold
<1>14. CASE Dev!Record
  <2>1. pc' = "idle" /\ job' = Dev!NoJob /\ UNCHANGED <<file, tag, image>> /\ told'.cmd = job.cmd /\ Dev!Creates(job.cmd)
    BY <1>14 DEF Dev!Record, Dev!Tell, DevJob
  <2>2. DOMAIN inst' = DOMAIN Dev!NoInst
    BY <1>14 DEF Dev!Record, Dev!NoInst
  <2>. QED BY <1>14, <2>1, <2>2, RecordHonest DEF DevJob, Dev!NoJob, Dev!NoTranslation,
     Dev!WarnedOfChanges, Dev!Creates
<1>15. CASE Dev!Restart
  <2>1. /\ told'.cmd = "restart" /\ told'.read = file /\ told'.rows = {} /\ told'.warned = Dev!changed_warning
        /\ UNCHANGED <<file, tag, image, inst, pc, job>> /\ pc = "idle"
    BY <1>15 DEF Dev!Restart
  <2>2. Dev!HonestReport'
    BY <2>1 DEF Dev!HonestReport, Dev!Settled, Dev!Creates
  <2>3. Dev!WarnedOfChanges'
    BY <2>1 DEF Dev!WarnedOfChanges, Dev!changed_warning
  <2>. QED BY <2>1, <2>2, <2>3 DEF DevJob
<1>16. CASE Dev!Destroy
  BY <1>16, NothingTold DEF Dev!Destroy, DevJob, Dev!NoInst
<1>17. CASE UNCHANGED Dev!vars
  <2>1. UNCHANGED <<file, tag, image, inst, pc, job, told>>
    BY <1>17 DEF Dev!vars
  <2>2. DevJob'
    BY <2>1 DEF DevJob, Translated, Translation, Dev!translate, Dev!persisted_guest_user
  <2>. QED BY <2>1, <2>2, StillTold
<1>. QED
  BY <1>1, <1>3, <1>4, <1>5, <1>7, <1>8, <1>9, <1>10, <1>11, <1>12, <1>13, <1>14, <1>15,
     <1>16, <1>17 DEF Dev!Next, Dev!Setup, Dev!create_up_instance

LEMMA DevHolds == DevInv => Dev!HonestReport /\ Dev!WarnedOfChanges
  BY DEF DevInv

OptionsPart ==
  /\ part = "up" => UpInv
  /\ part = "devcontainer" => DevInv

LEMMA OptionsAlone ==
  ASSUME [Next]_vars
  PROVE  /\ part' = "up" => part = "up" /\ [Up!Next]_(Up!vars)
         /\ part' = "devcontainer" => part = "devcontainer" /\ [Dev!Next]_(Dev!vars)
BY DEF Next, vars, StepVm, StepHost, StepUp, StepDev, StepSession, StepGitHub, StepSsh,
   StepEgress, upVars, devcontainerVars, Up!vars, Dev!vars

\* What an up, start or clone asked for is in force while the guest runs
\* (src/src/commands/lifecycle.rs), and what a command reports of a devcontainer.json is
\* what it did with it (src/src/devcontainer.rs), for any command lines and any files.
THEOREM OptionsStayInForce == Spec => []OptionsHold
<1>1. Up!UpAssumption /\ Dev!DevcontainerAssumption
  BY AccessAssumption
<1>2. Init => OptionsPart
  <2>1. Up!Init => UpInv
    BY UpInit
  <2>2. Dev!Init => DevInv
    BY <1>1, DevInit
  <2>. QED
    BY <2>1, <2>2 DEF Init, OptionsPart
<1>3. OptionsPart /\ [Next]_vars => OptionsPart'
  BY <1>1, OptionsAlone, UpStep, DevStep DEF OptionsPart
<1>4. OptionsPart => OptionsHold
  BY UpOptionsHold, DevHolds DEF OptionsPart, OptionsHold
<1>. QED
  BY <1>2, <1>3, <1>4, PTL DEF Spec
-----------------------------------------------------------------------------
(* The types of ProjectUp *)

\* What an instance, its guest and a command's job are made of.
UpInstances == [image : {Up!None, "default", "dev"}, cpus : {"one", "two", "four"}, mount : BOOLEAN,
                bare : BOOLEAN, env : Up!Opt(Up!Values), fwd : Up!Opt(Up!Values), known : BOOLEAN]
UpGuests == [on : BOOLEAN, fwd : Up!Opt(Up!Values), agents : BOOLEAN, hook : Up!Opt(Up!Values)]
UpGivens == [env : Up!Opt(Up!Values), fwd : Up!Opt(Up!Values)]
UpJobs == [boot : {"none", "first", "restart"}, opts : CommandLines \cup {Up!None},
           cpus : {"one", "two", "four"}, env : Up!Opt(Up!Values), fwd : Up!Opt(Up!Values), hook : Up!Opt(Up!Values)]

\* A command at work has a command line; at most one is held.
UpTyped ==
  /\ kind \in {"directory", "repository"} /\ config \in Settings /\ ignored \in BOOLEAN
  /\ inst \in UpInstances /\ vm \in UpGuests /\ given \in UpGivens /\ faults \in 0..MaxFaults
  /\ pc \in {"idle", "boot", "forwards", "spawn", "env", "bootstrap", "transfer", "hook"}
  /\ job \in UpJobs /\ (pc # "idle" => job.opts \in CommandLines)
  /\ held = {} \/ \E o : held = {o}

\* What the steps make of an instance, a guest and what was given is one again.
LEMMA UpForms ==
  /\ Up!NoInst \in UpInstances /\ Up!Off \in UpGuests /\ Up!Nothing \in UpGivens /\ Up!NoJob \in UpJobs
  /\ \A v, w \in Up!Opt(Up!Values) : Up!Else(v, w) \in Up!Opt(Up!Values)
  /\ \A c \in {"one", "two", "four"} : \A i \in {"default", "dev"} :
       [Up!NoInst EXCEPT !.image = i, !.cpus = c] \in UpInstances
  /\ \A i \in UpInstances : \A v \in Up!Opt(Up!Values) :
       /\ [i EXCEPT !.fwd = v] \in UpInstances /\ [i EXCEPT !.env = v] \in UpInstances
       /\ [i EXCEPT !.cpus = "four"] \in UpInstances
  /\ \A i \in UpInstances : \A a, b \in BOOLEAN :
       [i EXCEPT !.mount = a, !.bare = b, !.known = TRUE] \in UpInstances
  /\ \A g \in UpGuests : \A v \in Up!Opt(Up!Values) :
       [g EXCEPT !.fwd = v] \in UpGuests /\ [g EXCEPT !.hook = v] \in UpGuests
  /\ [Up!Off EXCEPT !.on = TRUE] \in UpGuests
  /\ \A g \in UpGivens : \A v \in Up!Opt(Up!Values) :
       /\ [g EXCEPT !.fwd = v] \in UpGivens /\ [g EXCEPT !.env = v] \in UpGivens
BY DEF UpInstances, UpGuests, UpGivens, UpJobs, Up!NoInst, Up!Off, Up!Nothing, Up!NoJob, Up!Else, Up!Opt

LEMMA UpFields ==
  /\ \A i \in UpInstances : i.fwd \in Up!Opt(Up!Values) /\ i.env \in Up!Opt(Up!Values)
       /\ i.cpus \in {"one", "two", "four"} /\ i.mount \in BOOLEAN
  /\ \A g \in UpGivens : g.fwd \in Up!Opt(Up!Values) /\ g.env \in Up!Opt(Up!Values)
BY DEF UpInstances, UpGivens

LEMMA UpJobForms ==
  /\ \A j \in UpJobs : j.cpus \in {"one", "two", "four"} /\ j.env \in Up!Opt(Up!Values)
       /\ j.fwd \in Up!Opt(Up!Values) /\ j.hook \in Up!Opt(Up!Values)
  /\ \A b \in {"first", "restart"} : \A o \in CommandLines : \A c \in {"one", "two", "four"} :
     \A e, f, h \in Up!Opt(Up!Values) :
       /\ [boot |-> b, opts |-> o, cpus |-> c, env |-> e, fwd |-> f, hook |-> h] \in UpJobs
       /\ [boot |-> b, opts |-> o, cpus |-> c, env |-> e, fwd |-> f, hook |-> h].opts \in CommandLines
BY DEF UpJobs

LEMMA UpLines ==
  ASSUME Up!UpAssumption
  PROVE  /\ Options \subseteq CommandLines
         /\ File.cpus \in {"two", "four"} /\ File.env \in Up!Values
         /\ File.fwd \in Up!Values /\ File.hook \in Up!Values
         /\ \A c \in Settings : /\ c.env \in Up!Opt(Up!Values) /\ c.fwd \in Up!Opt(Up!Values)
                                /\ c.hook \in Up!Opt(Up!Values)
<1>1. Settings \subseteq [env : Up!Opt(Up!Values), fwd : Up!Opt(Up!Values), hook : Up!Opt(Up!Values)]
  BY DEF Up!UpAssumption, Up!Given, Up!Opt
<1>2. File \in [cpus : {"two", "four"}, env : Up!Values, fwd : Up!Values, hook : Up!Values,
                user : {"ubuntu", "other"}]
  BY DEF Up!UpAssumption
<1>3. Options \subseteq CommandLines
  BY DEF Up!UpAssumption, CommandLines
<1>. QED BY <1>1, <1>2, <1>3

LEMMA UpLineForms ==
  ASSUME NEW o \in CommandLines
  PROVE  /\ o.env \in Up!Opt(Up!Values) /\ o.fwd \in Up!Opt(Up!Values) /\ o.hook \in Up!Opt(Up!Values)
         /\ o.cpus \in {Up!None, "two", "four"} /\ o.image \in {Up!None, "dev"} /\ o.no_agents \in BOOLEAN
         /\ o.mount \in BOOLEAN /\ o.exclude_git \in BOOLEAN
         /\ \A d \in {"off", "explicit", "discover"} : [o EXCEPT !.devcontainer = d] \in CommandLines
         /\ \A b \in BOOLEAN : [o EXCEPT !.mount = b] \in CommandLines
BY DEF CommandLines, Up!Opt

\* Whichever of the sources an option is taken from, it is one of its values.
LEMMA UpBeginTypes ==
  ASSUME Up!UpAssumption, UpTyped, NEW o \in CommandLines
  PROVE  /\ \A used \in BOOLEAN : Up!create_up_instance(o, used) \in UpJobs
                                  /\ Up!create_up_instance(o, used).opts \in CommandLines
         /\ Up!restart_instance(o) \in UpJobs /\ Up!restart_instance(o).opts \in CommandLines
<1>1. /\ o.env \in Up!Opt(Up!Values) /\ o.fwd \in Up!Opt(Up!Values) /\ o.hook \in Up!Opt(Up!Values)
      /\ o.cpus \in {Up!None, "two", "four"}
      /\ \A d \in {"off", "explicit", "discover"} : [o EXCEPT !.devcontainer = d] \in CommandLines
  BY UpLineForms
<1>2. /\ File.cpus \in {"two", "four"} /\ File.env \in Up!Values /\ File.fwd \in Up!Values /\ File.hook \in Up!Values
      /\ config.env \in Up!Opt(Up!Values) /\ config.fwd \in Up!Opt(Up!Values) /\ config.hook \in Up!Opt(Up!Values)
  BY UpLines DEF UpTyped
<1>3. inst.fwd \in Up!Opt(Up!Values) /\ inst.env \in Up!Opt(Up!Values) /\ inst.cpus \in {"one", "two", "four"}
  BY UpFields DEF UpTyped
<1>4. \A v, w \in Up!Opt(Up!Values) : Up!Else(v, w) \in Up!Opt(Up!Values)
  BY UpForms
<1>5. ASSUME NEW used \in BOOLEAN
      PROVE Up!create_up_instance(o, used) \in UpJobs /\ Up!create_up_instance(o, used).opts \in CommandLines
  <2>. DEFINE t == Up!translate(o, used)
  <2>1. /\ t.cpus \in {Up!None, "two", "four"} /\ t.env \in Up!Opt(Up!Values) /\ t.fwd \in Up!Opt(Up!Values)
        /\ t.hook \in Up!Opt(Up!Values)
    BY <1>2 DEF Up!translate, Up!translate_host_requirements, Up!translate_container_env,
       Up!translate_forward_ports, Up!Opt
  <2>. HIDE DEF t
  <2>2. Up!Else(o.cpus, Up!Else(t.cpus, "one")) \in {"one", "two", "four"}
    BY <1>1, <2>1 DEF Up!Else
  <2>3. [o EXCEPT !.devcontainer = IF used THEN "explicit" ELSE "off"] \in CommandLines
    BY <1>1
  <2>4. /\ Up!Else(o.env, t.env) \in Up!Opt(Up!Values)
        /\ Up!Else(o.fwd, Up!Else(t.fwd, config.fwd)) \in Up!Opt(Up!Values)
        /\ Up!Else(o.hook, Up!Else(t.hook, config.hook)) \in Up!Opt(Up!Values)
    BY <1>1, <1>2, <1>4, <2>1
  <2>. QED BY <2>2, <2>3, <2>4, UpJobForms DEF Up!create_up_instance, t
<1>6. /\ Up!Else(o.env, inst.env) \in Up!Opt(Up!Values) /\ Up!Else(o.fwd, inst.fwd) \in Up!Opt(Up!Values)
      /\ Up!Else(o.hook, config.hook) \in Up!Opt(Up!Values)
  BY <1>1, <1>2, <1>3, <1>4
<1>7. Up!restart_instance(o) \in UpJobs /\ Up!restart_instance(o).opts \in CommandLines
  BY <1>3, <1>6, UpJobForms DEF Up!restart_instance
<1>. QED BY <1>5, <1>7

LEMMA UpAskedTypes ==
  ASSUME Up!UpAssumption, NEW o \in CommandLines
  PROVE  Up!Asks(o).fwd \in Up!Opt(Up!Values) /\ Up!Asks(o).env \in Up!Opt(Up!Values)
<1>1. o.env \in Up!Opt(Up!Values) /\ o.fwd \in Up!Opt(Up!Values)
  BY UpLineForms
<1>2. File.env \in Up!Opt(Up!Values) /\ File.fwd \in Up!Opt(Up!Values)
  BY UpLines DEF Up!Opt
<1>. QED BY <1>1, <1>2 DEF Up!Asks, Up!Else, Up!Opt

LEMMA UpTypedInit == Up!UpAssumption /\ Up!Init => UpTyped
<1>. SUFFICES ASSUME Up!UpAssumption, Up!Init PROVE UpTyped OBVIOUS
<1>1. faults \in 0..MaxFaults
  BY DEF Up!UpAssumption, Up!Init
<1>. QED BY <1>1, UpForms DEF Up!Init, UpTyped

LEMMA UpTypedBegin == ASSUME Up!UpAssumption, UpTyped, Up!Up \/ Up!Start PROVE UpTyped'
<1>1. Options \subseteq CommandLines
  BY UpLines
<1>2. UNCHANGED <<kind, config, inst, vm, given, faults>>
  BY DEF Up!Up, Up!Start
<1>3. held' = {} \/ \E o : held' = {o}
  BY DEF Up!Up, Up!Start
<1>4. ignored' \in BOOLEAN
  BY DEF Up!Up, Up!Start, UpTyped
<1>5. \/ pc' = "boot" /\ job' \in UpJobs /\ job'.opts \in CommandLines
      \/ UNCHANGED <<pc, job>>
  <2>1. CASE Up!Up
    <3>1. PICK o \in Options :
          \/ (\E used \in BOOLEAN : job' = Up!create_up_instance(o, used)) /\ pc' = "boot"
          \/ job' = Up!restart_instance(o) /\ pc' = "boot"
          \/ UNCHANGED <<pc, job>>
      BY <2>1 DEF Up!Up
    <3>. QED BY <1>1, <3>1, UpBeginTypes
  <2>2. CASE Up!Start
    <3>1. PICK o \in Options : job' = Up!restart_instance([o EXCEPT !.mount = inst.mount]) /\ pc' = "boot"
      BY <2>2 DEF Up!Start
    <3>2. inst.mount \in BOOLEAN
      BY UpFields DEF UpTyped
    <3>3. [o EXCEPT !.mount = inst.mount] \in CommandLines
      BY <1>1, <3>2, UpLineForms
    <3>. QED BY <3>1, <3>3, UpBeginTypes
  <2>. QED BY <2>1, <2>2
<1>. QED BY <1>2, <1>3, <1>4, <1>5 DEF UpTyped

LEMMA UpTypedStart ==
  ASSUME Up!UpAssumption, UpTyped,
         Up!Boot \/ Up!SaveForwards \/ Up!SpawnForwards \/ Up!SaveEnv \/ Up!Bootstrap \/ Up!Transfer
  PROVE  UpTyped'
<1>1. /\ pc # "idle" /\ UNCHANGED <<job, kind, config, ignored, held, faults>>
      /\ pc' \in {"forwards", "spawn", "env", "bootstrap", "transfer", "hook"}
  BY DEF Up!Boot, Up!SaveForwards, Up!SpawnForwards, Up!SaveEnv, Up!Bootstrap, Up!Transfer, Up!StepOf, Up!Doing, Up!Go
<1>2. job \in UpJobs /\ job.opts \in CommandLines
  BY <1>1 DEF UpTyped
<1>3. /\ job.cpus \in {"one", "two", "four"} /\ job.env \in Up!Opt(Up!Values) /\ job.fwd \in Up!Opt(Up!Values)
      /\ Up!Asks(job.opts).fwd \in Up!Opt(Up!Values) /\ Up!Asks(job.opts).env \in Up!Opt(Up!Values)
      /\ job.opts.no_agents \in BOOLEAN /\ job.opts.mount \in BOOLEAN /\ job.opts.exclude_git \in BOOLEAN
      /\ job.opts.image \in {Up!None, "dev"}
  BY <1>2, UpJobForms, UpAskedTypes, UpLineForms
<1>4. inst \in UpInstances /\ vm \in UpGuests /\ given \in UpGivens
  BY DEF UpTyped
<1>5. inst' \in UpInstances
  <2>1. CASE Up!Boot
    <3>1. Up!Else(job.opts.image, "default") \in {"default", "dev"}
      BY <1>3 DEF Up!Else
    <3>. QED BY <2>1, <3>1, <1>3, <1>4, UpForms DEF Up!Boot
  <2>2. CASE Up!SaveForwards
    BY <2>2, <1>3, <1>4, UpForms DEF Up!SaveForwards
  <2>3. CASE Up!SaveEnv
    BY <2>3, <1>3, <1>4, UpForms DEF Up!SaveEnv
  <2>4. CASE Up!Transfer
    <3>. DEFINE a == kind = "directory" /\ job.opts.mount
                b == kind = "directory" /\ job.opts.exclude_git
    <3>1. a \in BOOLEAN /\ b \in BOOLEAN
      BY <1>3
    <3>2. inst' = [inst EXCEPT !.mount = a, !.bare = b, !.known = TRUE]
      BY <2>4 DEF Up!Transfer
    <3>. HIDE DEF a, b
    <3>. QED BY <3>1, <3>2, <1>4, UpForms
  <2>5. CASE Up!SpawnForwards \/ Up!Bootstrap
    BY <2>5, <1>4 DEF Up!SpawnForwards, Up!Bootstrap
  <2>. QED BY <2>1, <2>2, <2>3, <2>4, <2>5
<1>6. vm' \in UpGuests
  <2>1. CASE Up!Boot
    BY <2>1, UpForms DEF Up!Boot
  <2>2. CASE Up!SpawnForwards
    BY <2>2, <1>3, <1>4, UpForms DEF Up!SpawnForwards
  <2>3. CASE Up!Bootstrap
    <3>. DEFINE a == ~job.opts.no_agents
    <3>1. a \in BOOLEAN
      BY <1>3
    <3>2. vm' = [vm EXCEPT !.agents = a]
      BY <2>3 DEF Up!Bootstrap
    <3>. HIDE DEF a
    <3>3. \A g \in UpGuests : \A b \in BOOLEAN : [g EXCEPT !.agents = b] \in UpGuests
      BY DEF UpGuests
    <3>. QED BY <3>1, <3>2, <3>3, <1>4
  <2>4. CASE Up!SaveForwards \/ Up!SaveEnv \/ Up!Transfer
    BY <2>4, <1>4 DEF Up!SaveForwards, Up!SaveEnv, Up!Transfer
  <2>. QED BY <2>1, <2>2, <2>3, <2>4
<1>7. given' \in UpGivens
  <2>1. CASE Up!Boot
    BY <2>1, <1>4, UpForms DEF Up!Boot
  <2>2. CASE Up!SaveForwards
    <3>. DEFINE v == Up!Else(Up!Asks(job.opts).fwd, given.fwd)
    <3>1. v \in Up!Opt(Up!Values)
      BY <1>3, <1>4, UpForms, UpFields
    <3>2. given' = [given EXCEPT !.fwd = v]
      BY <2>2 DEF Up!SaveForwards
    <3>. HIDE DEF v
    <3>. QED BY <3>1, <3>2, <1>4, UpForms
  <2>3. CASE Up!SaveEnv
    <3>. DEFINE v == Up!Else(Up!Asks(job.opts).env, given.env)
    <3>1. v \in Up!Opt(Up!Values)
      BY <1>3, <1>4, UpForms, UpFields
    <3>2. given' = [given EXCEPT !.env = v]
      BY <2>3 DEF Up!SaveEnv
    <3>. HIDE DEF v
    <3>. QED BY <3>1, <3>2, <1>4, UpForms
  <2>4. CASE Up!SpawnForwards \/ Up!Bootstrap \/ Up!Transfer
    BY <2>4, <1>4 DEF Up!SpawnForwards, Up!Bootstrap, Up!Transfer
  <2>. QED BY <2>1, <2>2, <2>3, <2>4
<1>. QED BY <1>1, <1>2, <1>5, <1>6, <1>7 DEF UpTyped

LEMMA UpTypedEnd ==
  ASSUME Up!UpAssumption, UpTyped,
         Up!run_configured_post_start \/ Up!Interrupted \/ Up!EditConfig \/ Up!Stop \/ Up!Resize \/ Up!Destroy
  PROVE  UpTyped'
<1>1. inst \in UpInstances /\ vm \in UpGuests /\ given \in UpGivens /\ job \in UpJobs
  BY DEF UpTyped
<1>2. inst' \in UpInstances
  <2>1. inst' = inst \/ inst' = Up!NoInst \/ inst' = [inst EXCEPT !.cpus = "four"]
    BY DEF Up!run_configured_post_start, Up!Interrupted, Up!EditConfig, Up!Stop, Up!Resize, Up!Destroy
  <2>2. Up!NoInst \in UpInstances /\ [inst EXCEPT !.cpus = "four"] \in UpInstances
    <3>1. Up!None \in Up!Opt(Up!Values)
      BY DEF Up!Opt
    <3>. QED BY <1>1, <3>1, UpForms
  <2>. QED BY <1>1, <2>1, <2>2
<1>3. vm' \in UpGuests
  <2>1. vm' = vm \/ vm' = Up!Off \/ vm' = [vm EXCEPT !.hook = job.hook]
    BY DEF Up!run_configured_post_start, Up!Interrupted, Up!EditConfig, Up!Stop, Up!Resize, Up!Destroy
  <2>2. job.hook \in Up!Opt(Up!Values)
    BY <1>1, UpJobForms
  <2>. QED BY <1>1, <2>1, <2>2, UpForms
<1>4. given' \in UpGivens
  <2>1. given' = given \/ given' = Up!Nothing
    BY DEF Up!run_configured_post_start, Up!Interrupted, Up!EditConfig, Up!Stop, Up!Resize, Up!Destroy
  <2>. QED BY <1>1, <2>1, UpForms
<1>5. job' \in UpJobs /\ (pc' # "idle" => job'.opts \in CommandLines)
      /\ pc' \in {"idle", "boot", "forwards", "spawn", "env", "bootstrap", "transfer", "hook"}
  <2>1. (pc' = "idle" /\ job' = Up!NoJob) \/ UNCHANGED <<pc, job>>
    BY DEF Up!run_configured_post_start, Up!Interrupted, Up!EditConfig, Up!Stop, Up!Resize,
       Up!Destroy, Up!Idle, Up!Quiet
  <2>. QED BY <2>1, UpForms DEF UpTyped
<1>6. held' = {} \/ \E o : held' = {o}
  BY DEF Up!run_configured_post_start, Up!Interrupted, Up!EditConfig, Up!Stop, Up!Resize, Up!Destroy, UpTyped
<1>7. /\ kind' \in {"directory", "repository"} /\ config' \in Settings /\ ignored' \in BOOLEAN
  BY DEF Up!run_configured_post_start, Up!Interrupted, Up!EditConfig, Up!Stop, Up!Resize,
     Up!Destroy, Up!Quiet, UpTyped
<1>8. faults' \in 0..MaxFaults
  <2>1. faults' = faults \/ (faults < MaxFaults /\ faults' = faults + 1)
    BY DEF Up!run_configured_post_start, Up!Interrupted, Up!EditConfig, Up!Stop, Up!Resize, Up!Destroy, Up!Quiet
  <2>. QED BY <2>1 DEF UpTyped, Up!UpAssumption
<1>. QED BY <1>2, <1>3, <1>4, <1>5, <1>6, <1>7, <1>8 DEF UpTyped

LEMMA UpTypedStep == Up!UpAssumption /\ UpTyped /\ [Up!Next]_(Up!vars) => UpTyped'
<1>. SUFFICES ASSUME Up!UpAssumption, UpTyped, [Up!Next]_(Up!vars) PROVE UpTyped' OBVIOUS
<1>1. CASE UNCHANGED Up!vars
  BY <1>1 DEF Up!vars, UpTyped
<1>. QED
  BY <1>1, UpTypedBegin, UpTypedStart, UpTypedEnd DEF Up!Next

LEMMA UpTypes == UpTyped => Up!TypeOK
<1>. SUFFICES ASSUME UpTyped PROVE Up!TypeOK OBVIOUS
<1>1. Cardinality(held) <= 1
  <2>1. CASE held = {}
    BY <2>1, FS_EmptySet
  <2>2. ASSUME NEW o, held = {o} PROVE Cardinality(held) <= 1
    BY <2>2, FS_Singleton
  <2>. QED BY <2>1, <2>2 DEF UpTyped
<1>2. job.boot \in {"none", "first", "restart"}
  BY DEF UpTyped, UpJobs
<1>3. /\ inst.image \in {Up!None, "default", "dev"} /\ inst.cpus \in {"one", "two", "four"}
      /\ inst.env \in Up!Opt(Up!Values)
      /\ inst.fwd \in Up!Opt(Up!Values) /\ {inst.mount, inst.bare, inst.known} \subseteq BOOLEAN
  BY DEF UpTyped, UpInstances
<1>. QED BY <1>1, <1>2, <1>3 DEF UpTyped, Up!TypeOK, UpGuests, UpGivens,
   Up!Cardinality, Cardinality
-----------------------------------------------------------------------------
(* The types of Devcontainer *)

Pairs == Dev!Keys \X Dev!Items

\* A translation reports rows, and carries what was applied: of remoteUser, a user.
DevTranslations ==
  {t \in [rows : SUBSET Dev!RowType, carries : SUBSET Pairs, features : SUBSET Digests] :
     \A p \in t.carries : p[1] = "remoteUser" => p[2] \in Dev!Users}
DevImages == [user : Dev!Users, profiles : SUBSET {"rust"}, features : SUBSET Digests]
DevInsts == [user : Dev!Users \cup {Dev!None}, file : SUBSET Pairs, line : SUBSET Pairs,
             of : SUBSET Contents, source : Dev!Sources]
DevJobs == [cmd : Dev!Commands \cup {Dev!None}, line : Lines \cup {Dev!NoJob.line}, source : Dev!Sources,
            t : DevTranslations, read : SUBSET Contents]

\* The records of Devcontainer, each of its kind; the rest of its TypeOK.
DevTyped ==
  /\ (file = {} \/ \E f \in Contents : file = {f}) /\ ignored \in BOOLEAN /\ tag \in Digests
  /\ image \in DevImages /\ inst \in DevInsts /\ job \in DevJobs
  /\ pc \in {"idle", "find", "prompt", "load", "fetch", "apply", "record"}
  /\ told.rows \subseteq Dev!RowType /\ told.warned \in BOOLEAN /\ edits \in 0..MaxEdits /\ faults \in 0..MaxFaults

LEMMA DevForms ==
  /\ Dev!NoTranslation \in DevTranslations /\ Dev!NoInst \in DevInsts /\ Dev!NoJob \in DevJobs
  /\ Dev!NoReport.rows \subseteq Dev!RowType /\ Dev!NoReport.warned \in BOOLEAN
<1>1. Dev!NoTranslation \in DevTranslations
  BY DEF Dev!NoTranslation, DevTranslations
<1>2. Dev!NoInst \in DevInsts
  BY DEF Dev!NoInst, DevInsts, Dev!Sources
<1>3. Dev!NoJob \in DevJobs
  BY <1>1 DEF Dev!NoJob, DevJobs, Dev!Sources
<1>. QED BY <1>1, <1>2, <1>3 DEF Dev!NoReport

LEMMA DevJobForms ==
  ASSUME NEW j \in DevJobs
  PROVE  /\ \A s \in Dev!Sources : [j EXCEPT !.source = s] \in DevJobs
         /\ \A s \in Dev!Sources : \A r \in SUBSET Contents : [j EXCEPT !.source = s, !.read = r] \in DevJobs
         /\ \A r \in SUBSET Contents : \A t \in DevTranslations : [j EXCEPT !.read = r, !.t = t] \in DevJobs
         /\ j.t \in DevTranslations /\ j.read \subseteq Contents /\ j.source \in Dev!Sources
         /\ j.line \in Lines \cup {Dev!NoJob.line} /\ j.cmd \in Dev!Commands \cup {Dev!None}
BY DEF DevJobs

\* What is asked of a command names keys and items, and users.
LEMMA DevLineTypes ==
  ASSUME Dev!DevcontainerAssumption, NEW l \in Lines \cup {Dev!NoJob.line}
  PROVE  l.given \subseteq Pairs /\ l.user \in Dev!Users \cup {Dev!None}
<1>1. CASE l \in Lines
  BY <1>1 DEF Dev!DevcontainerAssumption, Pairs
<1>2. CASE l = Dev!NoJob.line
  BY <1>2 DEF Dev!NoJob
<1>. QED BY <1>1, <1>2

\* A key's status is one of five, and an applied remoteUser is none that is refused.
LEMMA StatusTypes ==
  ASSUME NEW f, NEW k, NEW i, NEW o, NEW stage \in {"setup", "start"}, NEW user, NEW project
  PROVE  /\ Dev!Status(f, k, i, o, stage, user, project) \in Dev!Statuses
         /\ k = "remoteUser" /\ Dev!Status(f, k, i, o, stage, user, project) = "applied" => i # "root"
<1>0. \A b : Dev!Else(b) \in Dev!Statuses
  BY DEF Dev!Else, Dev!Statuses
<1>1. Dev!translate_host_requirements(k, i, o, stage) \in Dev!Statuses
  BY <1>0 DEF Dev!translate_host_requirements, Dev!Statuses
<1>2. Dev!translate_post_start(i, o, stage) \in Dev!Statuses
  BY <1>0 DEF Dev!translate_post_start, Dev!Statuses
<1>3. Dev!translate_container_env(f, i, o, stage, user) \in Dev!Statuses
  BY <1>0 DEF Dev!translate_container_env, Dev!Statuses
<1>4. Dev!translate_forward_ports(i, o, stage) \in Dev!Statuses
  BY <1>0 DEF Dev!translate_forward_ports, Dev!Statuses
<1>5. Dev!translate_features(i, o, stage) \in Dev!Statuses
  BY <1>0 DEF Dev!translate_features, Dev!Statuses
<1>6. Dev!translate_mounts(i, o, stage, project) \in Dev!Statuses
  BY DEF Dev!translate_mounts, Dev!Statuses
<1>7. Dev!translate_remote_user(i, o, stage, user) \in Dev!Statuses
  BY <1>0 DEF Dev!translate_remote_user, Dev!Statuses
<1>8. Dev!Status(f, k, i, o, stage, user, project) \in Dev!Statuses
  <2>1. "unsupported" \in Dev!Statuses
    BY DEF Dev!Statuses
  <2>. QED BY <1>1, <1>2, <1>3, <1>4, <1>5, <1>6, <1>7, <2>1 DEF Dev!Status
<1>9. ASSUME k = "remoteUser", Dev!Status(f, k, i, o, stage, user, project) = "applied" PROVE i # "root"
  <2>1. Dev!Status(f, k, i, o, stage, user, project) = Dev!translate_remote_user(i, o, stage, user)
    BY <1>9 DEF Dev!Status
  <2>2. Dev!translate_remote_user(i, o, stage, user) = "applied" => i # "root"
    BY DEF Dev!translate_remote_user, Dev!GuestUser_new
  <2>. QED BY <1>9, <2>1, <2>2
<1>. QED BY <1>8, <1>9

\* What a file translates to, for every stage, command line and user.
LEMMA TranslateTypes ==
  ASSUME Dev!DevcontainerAssumption, NEW f \in Contents, NEW o, NEW stage \in {"setup", "start"},
         NEW user, NEW project
  PROVE  Dev!translate(f, o, stage, user, project) \in DevTranslations
<1>. DEFINE S(p) == Dev!Status(f, p[1], p[2], o, stage, user, project)
            rows == {[key |-> p[1], item |-> p[2], status |-> S(p)] :
                       p \in f \ (IF Dev!Requests(f, stage) THEN {<<"features", "oci">>} ELSE {})}
            carries == {<<r.key, r.item>> : r \in {x \in rows : x.status = "applied"}}
<1>1. f \subseteq Pairs /\ \A p \in f : p[1] = "remoteUser" => p[2] \in Dev!Users \cup {"root"}
  BY DEF Dev!DevcontainerAssumption, Pairs
<1>2. \A p \in f : /\ S(p) \in Dev!Statuses /\ p[1] \in Dev!Keys /\ p[2] \in Dev!Items
                   /\ p[1] = "remoteUser" /\ S(p) = "applied" => p[2] \in Dev!Users
  BY <1>1, StatusTypes DEF Pairs
<1>. HIDE DEF S
<1>3. \A r \in rows : /\ r \in Dev!RowType /\ r.item \in Dev!Items
                      /\ r.key = "remoteUser" /\ r.status = "applied" => r.item \in Dev!Users
  BY <1>2 DEF Dev!RowType
<1>. HIDE DEF rows
<1>4. carries \subseteq Pairs /\ \A p \in carries : p[1] = "remoteUser" => p[2] \in Dev!Users
  <2>1. ASSUME NEW p \in carries PROVE p \in Pairs /\ (p[1] = "remoteUser" => p[2] \in Dev!Users)
    <3>1. PICK r \in rows : r.status = "applied" /\ p = <<r.key, r.item>>
      OBVIOUS
    <3>2. r.key \in Dev!Keys /\ (r.key = "remoteUser" => r.item \in Dev!Users)
      BY <1>3, <3>1 DEF Dev!RowType
    <3>3. r.item \in Dev!Items
      BY <1>3, <3>1
    <3>. QED BY <3>1, <3>2, <3>3 DEF Pairs
  <2>. QED BY <2>1
<1>5. Dev!translate(f, o, stage, user, project) = [rows |-> rows, features |-> {}, carries |-> carries]
  BY DEF Dev!translate, rows, S
<1>. HIDE DEF carries
<1>. QED BY <1>3, <1>4, <1>5 DEF DevTranslations

LEMMA DevLoads ==
  ASSUME Dev!DevcontainerAssumption, DevTyped
  PROVE  /\ file \subseteq Contents /\ Mounted \subseteq Contents /\ Dev!Text \subseteq Contents
         /\ \A cmd : Dev!Stage(cmd) \in {"setup", "start"}
<1>1. file \subseteq Contents /\ Mounted \subseteq Contents /\ job.read \subseteq Contents
  BY DevJobForms DEF DevTyped, Dev!DevcontainerAssumption
<1>. QED BY <1>1 DEF Dev!Text, Dev!Stage

LEMMA DevTypedInit == Dev!DevcontainerAssumption /\ Dev!Init => DevTyped
<1>. SUFFICES ASSUME Dev!DevcontainerAssumption, Dev!Init PROVE DevTyped OBVIOUS
<1>1. tag \in Digests /\ edits \in 0..MaxEdits /\ faults \in 0..MaxFaults
  BY DEF Dev!Init, Dev!DevcontainerAssumption
<1>2. image \in DevImages
  BY DEF Dev!Init, DevImages, Dev!Users
<1>3. \E f \in Contents : file = {f}
  BY DEF Dev!Init
<1>. QED BY <1>1, <1>2, <1>3, DevForms DEF Dev!Init, DevTyped

\* A step of the command on its way: where it is, and what it works with.
LEMMA DevGoes ==
  ASSUME DevTyped, NEW p \in {"idle", "find", "prompt", "load", "fetch", "apply", "record"}, Dev!Go(p),
         job' \in DevJobs
  PROVE  DevTyped'
BY DEF DevTyped, Dev!Go

LEMMA DevFails == ASSUME DevTyped, Dev!Fails PROVE DevTyped'
BY DevGoes, DevForms DEF Dev!Fails

LEMMA DevWithout == ASSUME DevTyped, Dev!Without PROVE DevTyped'
<1>1. Dev!None \in Dev!Sources /\ job \in DevJobs
  BY DEF Dev!Sources, DevTyped
<1>2. [job EXCEPT !.source = Dev!None, !.read = {}] \in DevJobs
  BY <1>1, DevJobForms
<1>. QED BY <1>2, DevGoes DEF Dev!Without

LEMMA DevTypedBegin ==
  ASSUME Dev!DevcontainerAssumption, DevTyped,
         \/ Dev!EditFile \/ Dev!MoveTag \/ Dev!cmd_devcontainer \/ Dev!Kill
         \/ \E cmd \in Dev!Commands : \E o \in Lines : Dev!Command(cmd, o)
  PROVE  DevTyped'
<1>1. CASE Dev!EditFile \/ Dev!MoveTag \/ Dev!cmd_devcontainer
  <2>1. edits' \in 0..MaxEdits
    BY <1>1 DEF Dev!EditFile, Dev!MoveTag, Dev!cmd_devcontainer, Dev!Meanwhile, DevTyped, Dev!DevcontainerAssumption
  <2>2. (file' = {} \/ \E f \in Contents : file' = {f}) /\ ignored' \in BOOLEAN /\ tag' \in Digests
    BY <1>1 DEF Dev!EditFile, Dev!MoveTag, Dev!cmd_devcontainer, Dev!set_ignored, Dev!clear, DevTyped
  <2>. QED BY <1>1, <2>1, <2>2 DEF Dev!EditFile, Dev!MoveTag, Dev!cmd_devcontainer, Dev!Meanwhile, DevTyped
<1>2. CASE Dev!Kill
  <2>1. faults' \in 0..MaxFaults
    BY <1>2 DEF Dev!Kill, DevTyped, Dev!DevcontainerAssumption
  <2>. QED BY <1>2, <2>1, DevForms DEF Dev!Kill, DevTyped
<1>3. ASSUME NEW cmd \in Dev!Commands, NEW o \in Lines, Dev!Command(cmd, o) PROVE DevTyped'
  <2>1. [Dev!NoJob EXCEPT !.cmd = cmd, !.line = o] \in DevJobs
    BY DevForms DEF DevJobs
  <2>. QED BY <1>3, <2>1, DevForms DEF Dev!Command, DevTyped
<1>. QED BY <1>1, <1>2, <1>3

LEMMA DevTypedRead ==
  ASSUME Dev!DevcontainerAssumption, DevTyped,
         Dev!resolve_devcontainer_collect \/ Dev!Prompt \/ Dev!Load \/ Dev!resolve_oci_feature_requests
  PROVE  DevTyped'
<1>0. job \in DevJobs /\ {Dev!None, "project", "mount", "remote"} = Dev!Sources
  BY DEF DevTyped, Dev!Sources
<1>1. CASE Dev!resolve_devcontainer_collect
  <2>1. \/ Dev!Fails \/ Dev!Without
        \/ \E s \in {"project", "mount"} : (Dev!Go("load") \/ Dev!Go("prompt")) /\ job' = [job EXCEPT !.source = s]
        \/ (Dev!Go("load") \/ Dev!Go("prompt")) /\ job' = [job EXCEPT !.source = "remote", !.read = file]
    BY <1>1 DEF Dev!resolve_devcontainer_collect, Dev!pick_winner
  <2>2. ASSUME NEW s \in {"project", "mount"}, Dev!Go("load") \/ Dev!Go("prompt"), job' = [job EXCEPT !.source = s]
        PROVE  DevTyped'
    <3>1. job' \in DevJobs
      BY <1>0, <2>2, DevJobForms
    <3>. QED BY <2>2, <3>1, DevGoes
  <2>3. ASSUME Dev!Go("load") \/ Dev!Go("prompt"), job' = [job EXCEPT !.source = "remote", !.read = file]
        PROVE  DevTyped'
    <3>1. job' \in DevJobs
      BY <1>0, <2>3, DevJobForms, DevLoads
    <3>. QED BY <2>3, <3>1, DevGoes
  <2>. QED BY <2>1, <2>2, <2>3, DevFails, DevWithout
<1>2. CASE Dev!Prompt
  <2>1. CASE Dev!Go("load") /\ UNCHANGED job
    BY <1>0, <2>1, DevGoes
  <2>2. CASE /\ Dev!maybe_record_devcontainer_opt_out /\ pc' = "apply" /\ job' = [job EXCEPT !.source = Dev!None]
             /\ UNCHANGED <<file, tag, image, inst, told, edits, faults>>
    <3>1. job' \in DevJobs
      BY <1>0, <2>2, DevJobForms
    <3>2. ignored' \in BOOLEAN
      BY <2>2 DEF Dev!maybe_record_devcontainer_opt_out, Dev!set_ignored
    <3>. QED BY <2>2, <3>1, <3>2 DEF DevTyped
  <2>. QED BY <1>2, <2>1, <2>2, DevFails, DevWithout DEF Dev!Prompt
<1>3. CASE Dev!Load /\ ~Dev!Fails
  <2>1. PICK f \in Dev!Text :
          /\ Dev!Go(IF Dev!Requests(f, Dev!Stage(job.cmd)) THEN "fetch" ELSE "apply")
          /\ \E project :
               job' = [job EXCEPT !.read = {f}, !.t = Translation(f, project)]
    BY <1>3 DEF Dev!Load, Translation
  <2>2. PICK project :
          job' = [job EXCEPT !.read = {f}, !.t = Translation(f, project)]
    BY <2>1
  <2>3. f \in Contents /\ Dev!Stage(job.cmd) \in {"setup", "start"}
    BY DevLoads
  <2>4. Translation(f, project) \in DevTranslations
    BY <2>3, TranslateTypes DEF Translation
  <2>5. {f} \in SUBSET Contents
    BY <2>3
  <2>6. job' \in DevJobs
    BY <1>0, <2>2, <2>4, <2>5, DevJobForms
  <2>7. CASE Dev!Go("fetch")
    BY <2>6, <2>7, DevGoes
  <2>8. CASE Dev!Go("apply")
    BY <2>6, <2>8, DevGoes
  <2>. QED BY <2>1, <2>7, <2>8
<1>4. CASE Dev!resolve_oci_feature_requests
  <2>. DEFINE t == job.t
              a == [key |-> "features", item |-> tag, status |-> "applied"]
              b == [key |-> "features", item |-> "oci", status |-> "invalid"]
  <2>1. t \in DevTranslations
    BY <1>0, DevJobForms
  <2>2. a \in Dev!RowType /\ b \in Dev!RowType
    BY DEF DevTyped, Dev!RowType, Dev!Keys, Dev!Items, Dev!Statuses
  <2>3. \/ job' = [job EXCEPT !.t = [t EXCEPT !.features = {tag}, !.rows = @ \cup {a}]]
        \/ job' = [job EXCEPT !.t = [t EXCEPT !.rows = @ \cup {b}]]
    <3>1. DOMAIN job = {"cmd", "line", "source", "t", "read"}
      BY <1>0 DEF DevJobs
    <3>2. DOMAIN t = {"rows", "carries", "features"}
      BY <2>1 DEF DevTranslations
    <3>3. CASE job' = [job EXCEPT !.t.features = {tag}, !.t.rows = @ \cup {a}]
      BY <3>1, <3>2, <3>3
    <3>4. CASE job' = [job EXCEPT !.t.rows = @ \cup {b}]
      BY <3>1, <3>2, <3>4
    <3>. QED BY <1>4, <3>3, <3>4 DEF Dev!resolve_oci_feature_requests
  <2>. HIDE DEF t, a, b
  <2>4. /\ [t EXCEPT !.features = {tag}, !.rows = @ \cup {a}] \in DevTranslations
        /\ [t EXCEPT !.rows = @ \cup {b}] \in DevTranslations
    <3>1. tag \in Digests
      BY DEF DevTyped
    <3>. QED BY <2>1, <2>2, <3>1 DEF DevTranslations
  <2>5. \A u \in DevTranslations : [job EXCEPT !.t = u] \in DevJobs
    BY <1>0 DEF DevJobs
  <2>6. job' \in DevJobs
    BY <2>3, <2>4, <2>5
  <2>. QED BY <1>4, <2>6, DevGoes DEF Dev!resolve_oci_feature_requests
<1>. QED BY <1>1, <1>2, <1>3, <1>4, DevFails

LEMMA DevTypedApply ==
  ASSUME Dev!DevcontainerAssumption, DevTyped,
         Dev!DryRun \/ Dev!Setup \/ Dev!create_up_instance \/ Dev!Record \/ Dev!Restart \/ Dev!Destroy
  PROVE  DevTyped'
<1>0. /\ job \in DevJobs /\ image \in DevImages /\ inst \in DevInsts
      /\ job.t \in DevTranslations /\ job.read \subseteq Contents /\ job.source \in Dev!Sources
      /\ job.line.given \subseteq Pairs /\ job.line.user \in Dev!Users \cup {Dev!None}
  BY DevJobForms, DevLineTypes DEF DevTyped
<1>1. /\ job.t.rows \subseteq Dev!RowType /\ job.t.carries \subseteq Pairs /\ job.t.features \subseteq Digests
      /\ \A p \in job.t.carries : p[1] = "remoteUser" => p[2] \in Dev!Users
  BY <1>0 DEF DevTranslations
<1>2. Dev!Tell(FALSE) => told'.rows \subseteq Dev!RowType /\ told'.warned \in BOOLEAN
  BY <1>1 DEF Dev!Tell
<1>3. CASE Dev!DryRun
  BY <1>2, <1>3, DevForms DEF Dev!DryRun, DevTyped
<1>4. CASE Dev!Setup /\ ~Dev!Fails
  <2>. DEFINE asks == {p[2] : p \in {q \in job.t.carries : q[1] = "remoteUser"}}
              user == IF job.line.user # Dev!None THEN job.line.user
                      ELSE IF asks # {} THEN CHOOSE u \in asks : TRUE ELSE "ubuntu"
  <2>1. PICK profiles \in {Dev!resolve_template_config, Dev!Asked} :
          image' = [user |-> user, profiles |-> profiles, features |-> job.t.features]
    BY <1>4 DEF Dev!Setup
  <2>2. profiles \subseteq {"rust"}
    <3>1. image.profiles \subseteq {"rust"}
      BY <1>0 DEF DevImages
    <3>. QED BY <2>1, <3>1 DEF Dev!resolve_template_config, Dev!Asked, Dev!Profiles
  <2>3. user \in Dev!Users
    <3>1. asks \subseteq Dev!Users
      BY <1>1
    <3>. HIDE DEF asks
    <3>2. asks # {} => (CHOOSE u \in asks : TRUE) \in Dev!Users
      BY <3>1
    <3>3. "ubuntu" \in Dev!Users
      BY DEF Dev!Users
    <3>. QED BY <1>0, <3>2, <3>3
  <2>. HIDE DEF user
  <2>4. image' \in DevImages
    BY <1>1, <2>1, <2>2, <2>3 DEF DevImages
  <2>. QED BY <1>2, <1>4, <2>4, DevForms DEF Dev!Setup, DevTyped
<1>5. CASE Dev!create_up_instance /\ ~Dev!Fails
  <2>. DEFINE carries == {p \in job.t.carries : p[1] # "remoteUser"}
              w == Dev!Wins(job.line.given, carries)
  <2>1. w.line \subseteq Pairs /\ w.file \subseteq Pairs
    BY <1>0, <1>1 DEF Dev!Wins
  <2>2. /\ inst' = [Dev!NoInst EXCEPT !.user = image.user, !.file = w.file, !.line = w.line]
        /\ pc' = "record" /\ UNCHANGED <<file, ignored, tag, image, job, told, edits, faults>>
    BY <1>5 DEF Dev!create_up_instance
  <2>3. image.user \in Dev!Users
    BY <1>0 DEF DevImages
  <2>. HIDE DEF w
  <2>4. inst' \in DevInsts
    BY <2>1, <2>2, <2>3, DevForms DEF DevInsts
  <2>. QED BY <2>2, <2>4 DEF DevTyped
<1>6. CASE Dev!Record
  <2>1. [inst EXCEPT !.of = job.read, !.source = job.source] \in DevInsts
    BY <1>0 DEF DevInsts
  <2>. QED BY <1>2, <1>6, <2>1, DevForms DEF Dev!Record, DevTyped
<1>7. CASE Dev!Restart
  BY <1>7 DEF Dev!Restart, Dev!changed_warning, DevTyped
<1>8. CASE Dev!Destroy
  BY <1>8, DevForms DEF Dev!Destroy, DevTyped
<1>. QED BY <1>3, <1>4, <1>5, <1>6, <1>7, <1>8, DevFails DEF Dev!Setup, Dev!create_up_instance

LEMMA DevTypedStep == Dev!DevcontainerAssumption /\ DevTyped /\ [Dev!Next]_(Dev!vars) => DevTyped'
<1>. SUFFICES ASSUME Dev!DevcontainerAssumption, DevTyped, [Dev!Next]_(Dev!vars) PROVE DevTyped' OBVIOUS
<1>1. CASE UNCHANGED Dev!vars
  BY <1>1 DEF Dev!vars, DevTyped
<1>. QED
  BY <1>1, DevTypedBegin, DevTypedRead, DevTypedApply DEF Dev!Next

LEMMA DevTypes == ASSUME DevTyped PROVE Dev!TypeOK
<1>1. file \subseteq Contents /\ Cardinality(file) <= 1
  <2>1. CASE file = {}
    BY <2>1, FS_EmptySet
  <2>2. ASSUME NEW f \in Contents, file = {f} PROVE file \subseteq Contents /\ Cardinality(file) <= 1
    <3>1. Cardinality({f}) = 1
      BY FS_Singleton
    <3>. QED BY <2>2, <3>1
  <2>. QED BY <2>1, <2>2 DEF DevTyped
<1>2. image.user \in Dev!Users /\ image.profiles \subseteq {"rust"} /\ image.features \subseteq Digests
  BY DEF DevTyped, DevImages
<1>3. /\ inst.user \in Dev!Users \cup {Dev!None} /\ inst.of \subseteq Contents /\ inst.source \in Dev!Sources
      /\ inst.file \cup inst.line \subseteq Dev!Keys \X Dev!Items
  BY DEF DevTyped, DevInsts, Pairs
<1>4. job.cmd \in {Dev!None} \cup Dev!Commands /\ job.source \in Dev!Sources /\ job.t \in DevTranslations
  BY DEF DevTyped, DevJobs
<1>5. job.t.rows \subseteq Dev!RowType
  BY <1>4 DEF DevTranslations
<1>. QED BY <1>1, <1>2, <1>3, <1>4, <1>5 DEF DevTyped, Dev!TypeOK,
   Dev!Cardinality, Cardinality
-----------------------------------------------------------------------------
(* The types of GuestSession *)

SessionJobs == [cfg : Configs, name : Insts \cup {Session!None}, kind : Session!Kinds, repo : BOOLEAN]

\* A session that is prepared is of an instance; one that was opened has its fields.
SessionTyped ==
  /\ cfg \in Configs /\ host \in Hosts /\ inst \in [Insts -> Session!InstStates] /\ edits \in 0..SessionEdits
  /\ pc \in {"idle", "resolve", "prepare", "launch"} /\ job \in SessionJobs
  /\ (pc = "prepare" => job.name \in Insts)
  /\ DOMAIN session = {"i", "kind", "env", "proxied", "seen"}
  /\ session.i \in Insts \cup {Session!None} /\ session.kind \in Session!Kinds
  /\ session.proxied \subseteq Session!Providers

\* What the user makes of an instance is an instance again.
LEMMA SessionForms ==
  ASSUME Session!SessionAssumption, cfg \in Configs
  PROVE  /\ Session!NewInst \in Session!InstStates /\ Session!Absent \in Session!InstStates
         /\ Session!NoJob \in SessionJobs
         /\ \A r \in Session!InstStates : /\ [r EXCEPT !.state = "stopped", !.tokens = {}] \in Session!InstStates
                                          /\ r.repo \in BOOLEAN /\ r.override \subseteq Session!Providers
         /\ \A b, c \in BOOLEAN : [Session!NewInst EXCEPT !.marker = b, !.repo = c] \in Session!InstStates
         /\ \A c \in Configs : c.egress \in BOOLEAN /\ c.proxied \subseteq Session!Providers
<1>1. Session!NewInst \in Session!InstStates /\ Session!Absent \in Session!InstStates
  BY DEF Session!NewInst, Session!Absent, Session!InstStates
<1>2. Session!NoJob \in SessionJobs
  BY DEF Session!NoJob, SessionJobs, Session!Kinds
<1>3. \A r \in Session!InstStates : /\ [r EXCEPT !.state = "stopped", !.tokens = {}] \in Session!InstStates
                                    /\ r.repo \in BOOLEAN /\ r.override \subseteq Session!Providers
  BY DEF Session!InstStates
<1>4. \A b, c \in BOOLEAN : [Session!NewInst EXCEPT !.marker = b, !.repo = c] \in Session!InstStates
  BY DEF Session!NewInst, Session!InstStates
<1>5. \A c \in Configs : c.egress \in BOOLEAN /\ c.proxied \subseteq Session!Providers
  BY DEF Session!SessionAssumption
<1>. QED BY <1>1, <1>2, <1>3, <1>4, <1>5

\* What a start writes: tokens of providers, and a snapshot of names.
LEMMA BootedTypes ==
  ASSUME Session!SessionAssumption, cfg \in Configs, NEW r \in Session!InstStates, NEW s \in Session!Booted(r)
  PROVE  s \in Session!InstStates
<1>1. PICK names \in {{}, Session!Named} :
        s = [r EXCEPT !.state = "running", !.snapshot = @ \cup names,
                      !.tokens = IF r.mode = "remote" THEN cfg.proxied \cup r.override ELSE {}]
  BY DEF Session!Booted
<1>. DEFINE tokens == IF r.mode = "remote" THEN cfg.proxied \cup r.override ELSE {}
            snapshot == r.snapshot \cup names
<1>2. cfg.proxied \subseteq Session!Providers /\ r.override \subseteq Session!Providers
  BY SessionForms
<1>3. tokens \in SUBSET Session!Providers
  BY <1>2
<1>4. snapshot \in SUBSET Session!Named
  BY DEF Session!InstStates
<1>5. s = [r EXCEPT !.state = "running", !.snapshot = snapshot, !.tokens = tokens]
  BY <1>1
<1>. HIDE DEF tokens, snapshot
<1>. QED BY <1>3, <1>4, <1>5 DEF Session!InstStates

LEMMA SessionTypedInit == Session!SessionAssumption /\ Session!Init => SessionTyped
<1>. SUFFICES ASSUME Session!SessionAssumption, Session!Init PROVE SessionTyped OBVIOUS
<1>1. Session!Absent \in Session!InstStates /\ Session!NoJob \in SessionJobs
  BY SessionForms DEF Session!Init
<1>2. inst \in [Insts -> Session!InstStates] /\ edits \in 0..SessionEdits
  BY <1>1 DEF Session!Init, Session!SessionAssumption
<1>. QED BY <1>1, <1>2 DEF Session!Init, SessionTyped, Session!NoSession, Session!Kinds

LEMMA SessionTypedUser ==
  ASSUME Session!SessionAssumption, SessionTyped, NEW i \in Insts,
         Session!Create(i) \/ Session!Stop(i) \/ Session!Start(i) \/ Session!SwitchModel(i) \/ Session!SetOverride(i)
  PROVE  SessionTyped'
<1>1. cfg \in Configs /\ inst[i] \in Session!InstStates
  BY DEF SessionTyped
<1>2. PICK r \in Session!InstStates : Session!Set(i, r)
  <2>1. CASE Session!Create(i)
    <3>1. PICK repo \in BOOLEAN :
            \E r \in Session!Booted([Session!NewInst EXCEPT !.marker = cfg.egress, !.repo = repo]) :
              Session!Set(i, r)
      BY <2>1 DEF Session!Create
    <3>2. [Session!NewInst EXCEPT !.marker = cfg.egress, !.repo = repo] \in Session!InstStates
      BY <1>1, SessionForms
    <3>. QED BY <1>1, <3>1, <3>2, BootedTypes
  <2>2. CASE Session!Stop(i)
    BY <1>1, <2>2, SessionForms DEF Session!Stop
  <2>3. CASE Session!Start(i)
    BY <1>1, <2>3, BootedTypes DEF Session!Start
  <2>4. CASE Session!SwitchModel(i)
    <3>1. PICK e \in BOOLEAN :
            Session!Set(i, [inst[i] EXCEPT !.mode = IF @ = "local" THEN "remote" ELSE "local", !.endpoint = @ \/ e])
      BY <2>4 DEF Session!SwitchModel
    <3>. DEFINE m == IF inst[i].mode = "local" THEN "remote" ELSE "local"
                b == inst[i].endpoint \/ e
    <3>2. m \in {"remote", "local"} /\ b \in BOOLEAN
      BY <1>1
    <3>3. Session!Set(i, [inst[i] EXCEPT !.mode = m, !.endpoint = b])
      BY <3>1
    <3>. HIDE DEF m, b
    <3>4. [inst[i] EXCEPT !.mode = m, !.endpoint = b] \in Session!InstStates
      BY <1>1, <3>2 DEF Session!InstStates
    <3>. QED BY <3>3, <3>4
  <2>5. CASE Session!SetOverride(i)
    <3>1. PICK P \in SUBSET Session!Providers : Session!Set(i, [inst[i] EXCEPT !.override = P])
      BY <2>5 DEF Session!SetOverride
    <3>2. [inst[i] EXCEPT !.override = P] \in Session!InstStates
      BY <1>1 DEF Session!InstStates
    <3>. QED BY <3>1, <3>2
  <2>. QED BY <2>1, <2>2, <2>3, <2>4, <2>5
<1>3. inst' \in [Insts -> Session!InstStates] /\ UNCHANGED <<cfg, host, pc, job, session>>
  BY <1>2 DEF Session!Set, Session!Edit, SessionTyped
<1>4. edits' \in 0..SessionEdits
  BY <1>2 DEF Session!Set, Session!Edit, SessionTyped, Session!SessionAssumption
<1>. QED BY <1>3, <1>4 DEF SessionTyped

LEMMA SessionTypedStep == Session!SessionAssumption /\ SessionTyped /\ [Session!Next]_(Session!vars) => SessionTyped'
<1>. SUFFICES ASSUME Session!SessionAssumption, SessionTyped, [Session!Next]_(Session!vars)
              PROVE  SessionTyped'
  OBVIOUS
<1>0. cfg \in Configs /\ Session!NoJob \in SessionJobs
  BY SessionForms DEF SessionTyped
<1>1. CASE Session!EditConfig
  <2>1. edits' \in 0..SessionEdits
    BY <1>1 DEF Session!EditConfig, Session!Edit, SessionTyped, Session!SessionAssumption
  <2>. QED BY <1>1, <2>1 DEF Session!EditConfig, Session!Edit, SessionTyped
<1>2. ASSUME NEW i \in Insts,
             \/ Session!Create(i) \/ Session!Stop(i) \/ Session!Start(i)
             \/ Session!SwitchModel(i) \/ Session!SetOverride(i)
      PROVE  SessionTyped'
  BY <1>2, SessionTypedUser
<1>3. ASSUME NEW name \in Insts \cup {Session!None}, NEW k \in Session!Kinds, Session!Command(name, k)
      PROVE  SessionTyped'
  <2>1. job' \in SessionJobs
    BY <1>0, <1>3 DEF Session!Command, SessionJobs
  <2>. QED BY <1>3, <2>1 DEF Session!Command, SessionTyped
<1>4. CASE Session!Resolve
  <2>1. CASE Session!Refuse
    BY <1>0, <1>4, <2>1 DEF Session!Resolve, Session!Refuse, SessionTyped
  <2>2. CASE ~Session!Refuse
    <3>1. PICK i \in Session!Running : pc' = "prepare" /\ job' = [job EXCEPT !.name = i, !.repo = inst[i].repo]
      BY <1>4, <2>2 DEF Session!Resolve
    <3>2. i \in Insts /\ inst[i].repo \in BOOLEAN
      BY <3>1, <1>0, SessionForms DEF Session!Running, SessionTyped
    <3>3. job' \in SessionJobs /\ job'.name = i
      BY <3>1, <3>2 DEF SessionTyped, SessionJobs
    <3>. QED BY <1>4, <3>1, <3>2, <3>3 DEF Session!Resolve, SessionTyped
  <2>. QED BY <2>1, <2>2
<1>5. CASE Session!Prepare
  <2>1. CASE Session!Refuse /\ UNCHANGED session
    BY <1>0, <1>5, <2>1 DEF Session!Prepare, Session!Refuse, SessionTyped
  <2>2. CASE pc' = "launch" /\ UNCHANGED job /\ UNCHANGED <<cfg, host, inst, edits>>
             /\ session' = [i |-> job.name, kind |-> job.kind,
                            env |-> Session!SessionEnv(job.cfg, job.name, job.repo),
                            proxied |-> Session!Proxied(job.cfg, job.name), seen |-> <<>>]
    <3>1. job.name \in Insts /\ job.kind \in Session!Kinds /\ job.cfg \in Configs
      BY <1>5 DEF Session!Prepare, SessionTyped, SessionJobs
    <3>2. Session!Proxied(job.cfg, job.name) \subseteq Session!Providers
      <4>1. inst[job.name] \in Session!InstStates
        BY <3>1 DEF SessionTyped
      <4>2. job.cfg.proxied \subseteq Session!Providers /\ inst[job.name].override \subseteq Session!Providers
        BY <1>0, <3>1, <4>1, SessionForms
      <4>. QED BY <4>2 DEF Session!Proxied, Session!effective_upstream
    <3>3. /\ DOMAIN session' = {"i", "kind", "env", "proxied", "seen"} /\ session'.i = job.name
          /\ session'.kind = job.kind /\ session'.proxied = Session!Proxied(job.cfg, job.name)
      BY <2>2
    <3>. QED BY <2>2, <3>1, <3>2, <3>3 DEF SessionTyped
  <2>. QED BY <1>5, <2>1, <2>2 DEF Session!Prepare
<1>6. CASE Session!Launch
  <2>1. PICK s : session' = [session EXCEPT !.seen = s]
    BY <1>6 DEF Session!Launch
  <2>2. /\ DOMAIN session' = {"i", "kind", "env", "proxied", "seen"} /\ session'.i = session.i
        /\ session'.kind = session.kind /\ session'.proxied = session.proxied
    BY <2>1 DEF SessionTyped
  <2>. QED BY <1>0, <1>6, <2>2 DEF Session!Launch, Session!Refuse, SessionTyped
<1>7. CASE Session!Ends
  BY <1>7 DEF Session!Ends, SessionTyped, Session!NoSession, Session!Kinds
<1>8. CASE UNCHANGED Session!vars
  BY <1>8 DEF Session!vars, SessionTyped
<1>. QED BY <1>1, <1>2, <1>3, <1>4, <1>5, <1>6, <1>7, <1>8 DEF Session!Next

LEMMA SessionTypes == SessionTyped => Session!TypeOK
BY DEF SessionTyped, Session!TypeOK, SessionJobs
-----------------------------------------------------------------------------
(* The types of GitHubAccess *)

\* The worlds there are, the configurations, and the jobs of a command.
GitHubWorlds == [gh : GitHub!Maybe, env : GitHub!Maybe, public : SUBSET Slugs, origin : Origins]
GitHubConfigs == [mode : {"off", "auto", "pat"}, entry : [Slugs -> GitHub!Maybe]]

\* A URL is whatever was given; the other fields are of a kind.
GitHubJobTyped(j) ==
  /\ DOMAIN j = {"repo", "url", "token", "pre"} /\ j.repo \in Slugs \cup {GitHub!Nowhere}
  /\ j.token \in GitHub!Maybe /\ j.pre \in GitHub!Discoveries

GitHubTyped ==
  /\ world \in GitHubWorlds /\ config \in GitHubConfigs
  /\ known \in [Slugs -> SUBSET Slugs] /\ guest \in GitHub!Maybe /\ faults \in 0..MoreFaults
  /\ pc \in {"idle", "prefetch", "paste", "probe", "discover", "cover", "widen", "store",
             "resolve", "clone", "cloned", "rejected"}
  /\ GitHubJobTyped(job)

LEMMA SlugOf == \A u : GitHub!parse_repo_slug_from_url(u) \in Slugs \cup {GitHub!Nowhere}
BY DEF GitHub!parse_repo_slug_from_url, GitHub!RepoSlug_new

\* Every discovery is of slugs, wherever the URLs of .gitmodules lead.
LEMMA FoundTypes ==
  ASSUME NEW t, NEW r, NEW pub
  PROVE  /\ GitHub!drop_public(GitHub!discover_submodule_repos(t, r), pub) \in GitHub!Discoveries
         /\ GitHub!Unknown \in GitHub!Discoveries /\ [GitHub!Unknown EXCEPT !.known = TRUE] \in GitHub!Discoveries
<1>1. GitHub!Targets(r, GitHub!Listed(t, r)) \subseteq Slugs
  BY SlugOf DEF GitHub!Targets
<1>. DEFINE d == GitHub!discover_submodule_repos(t, r)
<1>2. d \in GitHub!Discoveries
  BY <1>1 DEF GitHub!discover_submodule_repos, GitHub!classify_urls, GitHub!Discoveries
<1>. HIDE DEF d
<1>3. GitHub!drop_public(d, pub) \in GitHub!Discoveries
  BY <1>2 DEF GitHub!drop_public, GitHub!Discoveries
<1>4. GitHub!Unknown \in GitHub!Discoveries /\ [GitHub!Unknown EXCEPT !.known = TRUE] \in GitHub!Discoveries
  BY DEF GitHub!Unknown, GitHub!Discoveries
<1>. QED BY <1>3, <1>4 DEF d

LEMMA GitHubJobForms ==
  /\ GitHubJobTyped(GitHub!NoJob) /\ \A u : GitHubJobTyped([GitHub!NoJob EXCEPT !.url = u])
  /\ \A r \in Slugs \cup {GitHub!Nowhere} : GitHubJobTyped([GitHub!NoJob EXCEPT !.repo = r])
  /\ \A j, t : GitHubJobTyped(j) /\ t \in GitHub!Maybe => GitHubJobTyped([j EXCEPT !.token = t])
  /\ \A j, d : GitHubJobTyped(j) /\ d \in GitHub!Discoveries => GitHubJobTyped([j EXCEPT !.pre = d])
<1>1. GitHub!Unknown \in GitHub!Discoveries
  BY FoundTypes
<1>. QED BY <1>1 DEF GitHubJobTyped, GitHub!NoJob, GitHub!Maybe

LEMMA GitHubTypedInit == GitHub!AccessAssumption /\ GitHub!Init => GitHubTyped
<1>. SUFFICES ASSUME GitHub!AccessAssumption, GitHub!Init PROVE GitHubTyped OBVIOUS
<1>1. PICK w \in Worlds, o \in Origins : world = [gh |-> w.gh, env |-> w.env, public |-> w.public, origin |-> o]
  BY DEF GitHub!Init
<1>2. world \in GitHubWorlds
  BY <1>1 DEF GitHub!AccessAssumption, GitHubWorlds, GitHub!Maybe
<1>3. PICK m \in {"off", "auto"} : config = [mode |-> m, entry |-> [r \in Slugs |-> GitHub!None]]
  BY DEF GitHub!Init
<1>4. config \in GitHubConfigs
  BY <1>3 DEF GitHubConfigs, GitHub!Maybe
<1>5. guest \in GitHub!Maybe /\ faults \in 0..MoreFaults
  BY DEF GitHub!Init, GitHub!Maybe, GitHub!AccessAssumption
<1>. QED BY <1>2, <1>4, <1>5, GitHubJobForms DEF GitHub!Init, GitHubTyped

LEMMA GitHubFaults ==
  ASSUME GitHub!AccessAssumption, GitHubTyped, UNCHANGED faults \/ GitHub!Fault
  PROVE  faults' \in 0..MoreFaults
BY DEF GitHub!AccessAssumption, GitHubTyped, GitHub!Fault

LEMMA GitHubTypedStep == GitHub!AccessAssumption /\ GitHubTyped /\ [GitHub!Next]_(GitHub!vars) => GitHubTyped'
<1>. SUFFICES ASSUME GitHub!AccessAssumption, GitHubTyped, [GitHub!Next]_(GitHub!vars) PROVE GitHubTyped' OBVIOUS
<1>. DEFINE Steps == {"idle", "prefetch", "paste", "probe", "discover", "cover", "widen", "store",
                      "resolve", "clone", "cloned", "rejected"}
<1>0. ASSUME pc' \in Steps, GitHubJobTyped(job)', UNCHANGED faults \/ GitHub!Fault,
             UNCHANGED <<world, config, known, guest>>
      PROVE  GitHubTyped'
  BY <1>0, GitHubFaults DEF GitHubTyped
<1>00. GitHubJobTyped(job)
  BY DEF GitHubTyped
<1>1. ASSUME NEW r \in RepoArgs \cup {GitHub!Nowhere}, GitHub!Setup(r) PROVE GitHubTyped'
  <2>1. GitHub!resolve_target_repo(r) \in Slugs \cup {GitHub!Nowhere}
    BY SlugOf DEF GitHub!resolve_target_repo, GitHub!detect_workspace_repo, GitHub!AccessAssumption
  <2>. QED BY <1>0, <1>1, <2>1, GitHubJobForms DEF GitHub!Setup
<1>2. ASSUME NEW t \in GitHub!Maybe, GitHub!Paste(t) PROVE GitHubTyped'
  <2>1. GitHubJobTyped(job)'
    BY <1>00, <1>2, GitHubJobForms DEF GitHub!Paste, GitHub!End
  <2>2. pc' \in Steps /\ UNCHANGED <<world, config, known, guest, faults>>
    BY <1>2 DEF GitHub!Paste, GitHub!End
  <2>. QED BY <1>0, <2>1, <2>2
<1>3. ASSUME NEW t \in GitHub!Maybe, GitHub!Widen(t) PROVE GitHubTyped'
  <2>1. GitHubJobTyped(job)'
    BY <1>00, <1>3, GitHubJobForms DEF GitHub!Widen, GitHub!End
  <2>2. pc' \in Steps /\ UNCHANGED <<world, config, known, guest>> /\ (UNCHANGED faults \/ GitHub!Fault)
    BY <1>3 DEF GitHub!Widen, GitHub!End
  <2>. QED BY <1>0, <2>1, <2>2
<1>4. ASSUME NEW u \in CloneUrls, GitHub!Up(u) PROVE GitHubTyped'
  BY <1>0, <1>4, GitHubJobForms DEF GitHub!Up
<1>5. CASE GitHub!prefetch_submodules
  <2>1. GitHubJobTyped(job)'
    <3>1. \/ UNCHANGED job
          \/ \E t, pub :
               job' = [job EXCEPT !.pre = GitHub!drop_public(GitHub!discover_submodule_repos(t, job.repo), pub)]
      BY <1>5 DEF GitHub!prefetch_submodules
    <3>. QED BY <1>00, <3>1, GitHubJobForms, FoundTypes
  <2>2. UNCHANGED faults \/ GitHub!Fault
    BY <1>5 DEF GitHub!prefetch_submodules, GitHub!is_public_repo_anonymous
  <2>. QED BY <1>0, <1>5, <2>1, <2>2 DEF GitHub!prefetch_submodules
<1>6. CASE GitHub!Probe
  <2>1. GitHubJobTyped(job)'
    BY <1>00, <1>6, GitHubJobForms DEF GitHub!Probe, GitHub!End
  <2>2. pc' \in Steps /\ UNCHANGED <<world, config, known, guest>> /\ (UNCHANGED faults \/ GitHub!Fault)
    BY <1>6 DEF GitHub!Probe, GitHub!End
  <2>. QED BY <1>0, <2>1, <2>2
<1>7. CASE GitHub!discover_from_pasted_token
  <2>1. GitHubJobTyped(job)'
    <3>1. \/ \E t, pub :
               job' = [job EXCEPT !.pre = GitHub!drop_public(GitHub!discover_submodule_repos(t, job.repo), pub)]
          \/ job' = [job EXCEPT !.pre = [GitHub!Unknown EXCEPT !.known = TRUE]]
          \/ GitHub!End
      BY <1>7 DEF GitHub!discover_from_pasted_token
    <3>2. CASE GitHub!End
      BY <3>2, GitHubJobForms DEF GitHub!End
    <3>3. ASSUME NEW t, NEW pub,
                 job' = [job EXCEPT !.pre = GitHub!drop_public(GitHub!discover_submodule_repos(t, job.repo), pub)]
          PROVE  GitHubJobTyped(job)'
      BY <1>00, <3>3, GitHubJobForms, FoundTypes
    <3>4. CASE job' = [job EXCEPT !.pre = [GitHub!Unknown EXCEPT !.known = TRUE]]
      BY <1>00, <3>4, GitHubJobForms, FoundTypes
    <3>. QED BY <3>1, <3>2, <3>3, <3>4
  <2>2. pc' \in Steps /\ UNCHANGED <<world, config, known, guest>>
    BY <1>7 DEF GitHub!discover_from_pasted_token, GitHub!End
  <2>3. UNCHANGED faults \/ GitHub!Fault
    BY <1>7 DEF GitHub!discover_from_pasted_token, GitHub!is_public_repo_anonymous
  <2>. QED BY <1>0, <2>1, <2>2, <2>3
<1>8. CASE GitHub!handle_submodules
  <2>1. GitHubJobTyped(job)'
    BY <1>00, <1>8, GitHubJobForms DEF GitHub!handle_submodules, GitHub!End
  <2>2. pc' \in Steps /\ UNCHANGED <<world, config, known, guest>> /\ (UNCHANGED faults \/ GitHub!Fault)
    BY <1>8 DEF GitHub!handle_submodules, GitHub!End
  <2>. QED BY <1>0, <2>1, <2>2
<1>9. CASE GitHub!Store
  <2>1. job.token \in GitHub!Maybe /\ job.pre.same \in SUBSET Slugs /\ job.repo \in Slugs \cup {GitHub!Nowhere}
    BY <1>00 DEF GitHubJobTyped, GitHub!Discoveries
  <2>2. config' \in GitHubConfigs /\ known' \in [Slugs -> SUBSET Slugs]
    <3>1. CASE UNCHANGED <<config, known>>
      BY <3>1 DEF GitHubTyped
    <3>2. CASE /\ config' = [mode |-> "pat", entry |-> [config.entry EXCEPT ![job.repo] = job.token]]
               /\ known' = [known EXCEPT ![job.repo] = job.pre.same]
      <4>1. config.entry \in [Slugs -> GitHub!Maybe] /\ known \in [Slugs -> SUBSET Slugs]
        BY DEF GitHubTyped, GitHubConfigs
      <4>2. [config.entry EXCEPT ![job.repo] = job.token] \in [Slugs -> GitHub!Maybe]
        BY <2>1, <4>1
      <4>3. config' \in GitHubConfigs
        BY <3>2, <4>2 DEF GitHubConfigs
      <4>4. known' \in [Slugs -> SUBSET Slugs]
        BY <2>1, <3>2, <4>1
      <4>. QED BY <4>3, <4>4
    <3>. QED BY <1>9, <3>1, <3>2 DEF GitHub!Store
  <2>3. GitHubJobTyped(job)' /\ pc' \in Steps
    BY <1>9, GitHubJobForms DEF GitHub!Store, GitHub!End
  <2>. QED BY <1>9, <2>2, <2>3 DEF GitHub!Store, GitHubTyped
<1>10. CASE GitHub!Resolve
  <2>1. \A r \in Slugs : config.entry[r] \in GitHub!Maybe
    BY DEF GitHubTyped, GitHubConfigs
  <2>2. world.gh \in GitHub!Maybe /\ world.env \in GitHub!Maybe
    BY DEF GitHubTyped, GitHubWorlds
  <2>. DEFINE r == GitHub!clone_pat_slug(job.url)
              t == IF r = GitHub!Nowhere THEN GitHub!host_github_token ELSE config.entry[r]
  <2>3. t \in GitHub!Maybe
    <3>1. r \in Slugs \cup {GitHub!Nowhere}
      BY SlugOf DEF GitHub!clone_pat_slug
    <3>. HIDE DEF r
    <3>. QED BY <2>1, <2>2, <3>1 DEF GitHub!host_github_token
  <2>4. \/ GitHub!With(t) /\ UNCHANGED faults
        \/ GitHub!Fault /\ GitHub!End
        \/ pc' = "clone" /\ UNCHANGED <<job, faults>>
    BY <1>10 DEF GitHub!Resolve, GitHub!resolve_clone_token
  <2>. HIDE DEF t
  <2>5. GitHubJobTyped(job)' /\ pc' \in Steps /\ (UNCHANGED faults \/ GitHub!Fault)
    <3>1. CASE GitHub!With(t) /\ UNCHANGED faults
      BY <1>00, <2>3, <3>1, GitHubJobForms DEF GitHub!With
    <3>2. CASE GitHub!Fault /\ GitHub!End
      BY <3>2, GitHubJobForms DEF GitHub!End
    <3>3. CASE pc' = "clone" /\ UNCHANGED <<job, faults>>
      BY <1>00, <3>3
    <3>. QED BY <2>4, <3>1, <3>2, <3>3
  <2>. QED BY <1>0, <1>10, <2>5 DEF GitHub!Resolve
<1>11. CASE GitHub!Clone
  <2>1. guest' \in GitHub!Maybe
    BY <1>00, <1>11 DEF GitHub!Clone, GitHubJobTyped
  <2>2. pc' \in Steps /\ UNCHANGED <<world, config, known, job>> /\ (UNCHANGED faults \/ GitHub!Fault)
    BY <1>11 DEF GitHub!Clone
  <2>. QED BY <1>00, <2>1, <2>2, GitHubFaults DEF GitHubTyped
<1>12. CASE GitHub!Cloned
  BY <1>12, GitHubJobForms DEF GitHub!Cloned, GitHub!End, GitHubTyped, GitHub!Maybe
<1>13. CASE UNCHANGED GitHub!vars
  BY <1>13 DEF GitHub!vars, GitHubTyped
<1>. QED
  BY <1>1, <1>2, <1>3, <1>4, <1>5, <1>6, <1>7, <1>8, <1>9, <1>10, <1>11, <1>12, <1>13 DEF GitHub!Next

LEMMA GitHubTypes == GitHubTyped => GitHub!TypeOK
BY DEF GitHubTyped, GitHub!TypeOK, GitHubJobTyped, GitHubWorlds, GitHubConfigs
-----------------------------------------------------------------------------
(* The types of EgressConfig *)

\* TypeOK is inductive here: a table is replaced only by one that is valid.
LEMMA EgressTypesInit == Egress!EgressAssumption /\ Egress!Init => Egress!TypeOK
BY DEF Egress!Init, Egress!TypeOK, Egress!EgressAssumption

LEMMA EgressTypesStep == Egress!EgressAssumption /\ Egress!TypeOK /\ [Egress!Next]_(Egress!vars) => Egress!TypeOK'
<1>. SUFFICES ASSUME Egress!EgressAssumption, Egress!TypeOK, [Egress!Next]_(Egress!vars) PROVE Egress!TypeOK' OBVIOUS
<1>0. ASSUME UNCHANGED faults \/ Egress!Fault PROVE faults' \in 0..MoreFaults
  BY <1>0 DEF Egress!Fault, Egress!TypeOK, Egress!EgressAssumption
<1>1. ASSUME NEW s \in Subs, Egress!ProviderChanges(s) PROVE Egress!TypeOK'
  BY <1>0, <1>1 DEF Egress!ProviderChanges, Egress!gatewayVars, Egress!TypeOK
<1>2. ASSUME NEW t \in Tables, Egress!Reconfigure(t) PROVE Egress!TypeOK'
  <2>1. Egress!try_from(want)'
    BY <1>2 DEF Egress!Reconfigure, Egress!try_from
  <2>. QED BY <1>2, <2>1 DEF Egress!Reconfigure, Egress!gatewayVars, Egress!TypeOK
<1>3. UNCHANGED want => Egress!try_from(want)'
  BY DEF Egress!TypeOK, Egress!try_from
<1>4. CASE Egress!Begin \/ Egress!ensure_mihomo_binary \/ Egress!Resolve \/ Egress!fetch_subscription
           \/ Egress!Harden \/ Egress!Refused \/ Egress!verify_gateway_connectivity
  BY <1>3, <1>4 DEF Egress!Begin, Egress!ensure_mihomo_binary, Egress!Resolve, Egress!fetch_subscription,
     Egress!Harden, Egress!Refused,
     Egress!verify_gateway_connectivity, Egress!gatewayVars, Egress!TypeOK
<1>5. CASE Egress!BinaryCut
  BY <1>0, <1>3, <1>5 DEF Egress!BinaryCut, Egress!TypeOK
<1>6. CASE Egress!Fails
  BY <1>0, <1>3, <1>6 DEF Egress!Fails, Egress!gatewayVars, Egress!TypeOK
<1>7. CASE Egress!Install \/ Egress!RestoreRefused
  BY <1>3, <1>7 DEF Egress!Install, Egress!RestoreRefused, Egress!TypeOK
<1>8. CASE Egress!ServiceStops
  BY <1>0, <1>3, <1>8 DEF Egress!ServiceStops, Egress!TypeOK
<1>9. CASE Egress!StartMihomo
  BY <1>3, <1>9 DEF Egress!StartMihomo, Egress!TypeOK
<1>10. CASE Egress!OpenSwitch
  <2>1. DOMAIN chosen' = DOMAIN chosen
    BY <1>10 DEF Egress!OpenSwitch
  <2>. QED BY <1>3, <1>10, <2>1 DEF Egress!OpenSwitch, Egress!TypeOK
<1>11. CASE UNCHANGED Egress!vars
  BY <1>3, <1>11 DEF Egress!vars, Egress!TypeOK
<1>. QED
  BY <1>1, <1>2, <1>4, <1>5, <1>6, <1>7, <1>8, <1>9, <1>10, <1>11 DEF Egress!Next
-----------------------------------------------------------------------------
(* All of them *)

\* What the typings say of the part that runs.  The VMM's is in VmPart; those of
\* HostResources and SshAccess rest on what their parts keep besides.
TypedPart ==
  /\ (part = "host" => Host!HostTyped) /\ (part = "host2" => Host2!HostTyped)
  /\ (part = "ssh" => Ssh!SshTyped) /\ (part = "ssh2" => Ssh2!SshTyped)
  /\ (part = "up" => UpTyped) /\ (part = "devcontainer" => DevTyped)
  /\ (part = "session" => SessionTyped) /\ (part = "github" => GitHubTyped)
  /\ (part = "egress" => Egress!TypeOK)

LEMMA TypedPartInit == Init => TypedPart
<1>1. (Host!Init => Host!HostTyped) /\ (Host2!Init => Host2!HostTyped)
  BY AccessAssumption, Host!HostTypedInit, Host2!HostTypedInit
<1>2. (Ssh!Init => Ssh!SshTyped) /\ (Ssh2!Init => Ssh2!SshTyped)
  BY AccessAssumption, Ssh!SshTypedInit, Ssh2!SshTypedInit
<1>3. (Up!Init => UpTyped) /\ (Dev!Init => DevTyped)
  BY AccessAssumption, UpTypedInit, DevTypedInit
<1>4. (Session!Init => SessionTyped) /\ (GitHub!Init => GitHubTyped) /\ (Egress!Init => Egress!TypeOK)
  BY AccessAssumption, SessionTypedInit, GitHubTypedInit, EgressTypesInit
<1>. QED BY <1>1, <1>2, <1>3, <1>4 DEF Init, TypedPart

LEMMA TypedPartStep == HostPart /\ SshPart /\ TypedPart /\ [Next]_vars => TypedPart'
<1> SUFFICES ASSUME HostPart, SshPart, TypedPart, [Next]_vars PROVE TypedPart'
  OBVIOUS
<1>1. ASSUME part' = "host" PROVE Host!HostTyped'
  BY <1>1, AccessAssumption, HostAlone, Host!HostTypedStep DEF HostPart, TypedPart
<1>2. ASSUME part' = "host2" PROVE Host2!HostTyped'
  BY <1>2, AccessAssumption, HostAlone, Host2!HostTypedStep DEF HostPart, TypedPart
<1>3. ASSUME part' = "ssh" PROVE Ssh!SshTyped'
  BY <1>3, AccessAssumption, SshAlone, Ssh!SshTypedStep DEF SshPart, TypedPart
<1>4. ASSUME part' = "ssh2" PROVE Ssh2!SshTyped'
  BY <1>4, AccessAssumption, SshAlone, Ssh2!SshTypedStep DEF SshPart, TypedPart
<1>5. ASSUME part' = "up" PROVE UpTyped'
  BY <1>5, AccessAssumption, OptionsAlone, UpTypedStep DEF TypedPart
<1>6. ASSUME part' = "devcontainer" PROVE DevTyped'
  BY <1>6, AccessAssumption, OptionsAlone, DevTypedStep DEF TypedPart
<1>7. ASSUME part' = "session" PROVE SessionTyped'
  BY <1>7, AccessAssumption, SessionAlone, SessionTypedStep DEF TypedPart
<1>8. ASSUME part' = "github" PROVE GitHubTyped'
  BY <1>8, AccessAssumption, GitHubAlone, GitHubTypedStep DEF TypedPart
<1>9. ASSUME part' = "egress" PROVE Egress!TypeOK'
  BY <1>9, AccessAssumption, EgressAlone, EgressTypesStep DEF TypedPart
<1>. QED BY <1>1, <1>2, <1>3, <1>4, <1>5, <1>6, <1>7, <1>8, <1>9 DEF TypedPart

LEMMA TypedPartTypes == VmPart /\ HostPart /\ TypedPart => TypeOK
<1> SUFFICES ASSUME VmPart, HostPart, TypedPart PROVE TypeOK
  OBVIOUS
<1>1. part = "vm" => Vm!TypeOK
  BY DEF VmPart, Vm!TypeInv
<1>2. (part = "host" => Host!TypeOK) /\ (part = "host2" => Host2!TypeOK)
  BY AccessAssumption, Host!HostTypedTypes, Host2!HostTypedTypes DEF HostPart, TypedPart
<1>3. (part = "ssh" => Ssh!TypeOK) /\ (part = "ssh2" => Ssh2!TypeOK)
  BY Ssh!SshTypedTypes, Ssh2!SshTypedTypes DEF TypedPart
<1>4. (part = "up" => Up!TypeOK) /\ (part = "devcontainer" => Dev!TypeOK)
  BY UpTypes, DevTypes DEF TypedPart
<1>5. (part = "session" => Session!TypeOK) /\ (part = "github" => GitHub!TypeOK) /\ (part = "egress" => Egress!TypeOK)
  BY SessionTypes, GitHubTypes DEF TypedPart
<1>. QED BY <1>1, <1>2, <1>3, <1>4, <1>5 DEF TypeOK

\* Every variable of the parts keeps its type, whatever fails or is killed: among others
\* no more rules for br0 are left behind than teardowns failed, no more tokens are made
\* than there are, and every job and file has the fields its steps read
\* (src/src/network.rs, src/src/proxy.rs, src/src/workspace.rs,
\* src/src/commands/lifecycle.rs, src/src/devcontainer.rs, src/src/github_pat.rs).
THEOREM TypesHold == Spec => []TypeOK
<1>1. Init => SshPart
  <2>1. /\ Ssh!Init => Ssh!SshInv /\ Ssh!MastersClosed
        /\ Ssh2!Init => Ssh2!SshInv /\ Ssh2!MastersClosed
    BY AccessAssumption, Ssh!SshInit, Ssh2!SshInit
  <2>. QED
    BY <2>1 DEF Init, SshPart
<1>. QED
  BY <1>1, SshPartStep, VmPartInit, VmPartStep, HostPartInit, HostPartStep, TypedPartInit,
     TypedPartStep, TypedPartTypes, PTL DEF Spec
=============================================================================
