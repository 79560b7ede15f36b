------------------------------- MODULE MCAccess -------------------------------
(***************************************************************************)
(* Eight parts of coop that share no state with each other, for TLC: one    *)
(* behaviour is a behaviour of one of them, the variables of the others    *)
(* stay None.  What two of the modules call alike (pc, job, inst, ...) is  *)
(* one variable here, each module's own when its part is the one that runs.*)
(***************************************************************************)
EXTENDS Naturals, FiniteSets, TLC

CONSTANTS
  Workers, Verbs, Pids, Strangers, SudoFails, VmFaults, \* FirecrackerVm, SshAccess
  Stale, NoValue,                                       \* its marker and its None
  Vms, Upstreams, MoreUpstreams, Persisting,            \* HostResources
  HostPorts, MaxTokens,                                 \* the same
  Options, File, Settings,                              \* ProjectUp
  Contents, Mounted, Lines, Digests, MaxEdits,          \* Devcontainer
  Insts, Configs, Hosts, SessionEdits,                  \* GuestSession
  Slugs, Modules, RepoArgs, CloneUrls, Origins, Worlds, \* GitHubAccess
  Pasted, Scope, Dead,                                  \* the same
  Ports, Codes, MaxCommands,                            \* SshAccess
  Urls, Subs, Tables,                                   \* EgressConfig
  MaxFaults, MoreFaults

None == "none"

VARIABLES
  part,   \* the part that runs
  proc, pidFile, socket, seen,
  bridge, rules, tap, saved, stray, refused, proxy, ending, pid, tunnel, fwdpid, token, target,
  todo, asked, wanted, step, child, torn, orphaned, minted,
  kind, held, given,
  tag, image, told,
  cfg, host, session,
  world, known, guest,
  exists, port, alias, coop, last, odd, left, begun,
  sub, url, want, got, binary, running, chosen, cache, switch,
  pc, verb, faults, vm, master, config, ignored, inst, job, file, edits
-----------------------------------------------------------------------------
(* The values of the constants *)
\* One command at a time changes the instance; `coop list` may run beside it.  sudo may
\* be refused everywhere but at the kill of an orphan and the signals of a stop, which
\* a VMM can be lost by when they have no effect.
ManagerAndStatus == [p \in Workers |-> IF p = "c1" THEN {"start", "stop", "disk"} ELSE {"status"}]
OneProvider == <<"openai">>
TwoProviders == <<"anthropic", "openai">>
Anywhere == {"judge", "rmsocket", "rmpid", "spawn", "alive", "boot", "unbind"}

\* The options of up: none, up to two of them, and --no-devcontainer.
NoOptions == [image |-> None, cpus |-> None, mount |-> FALSE, exclude_git |-> FALSE, no_agents |-> FALSE,
              devcontainer |-> "discover", env |-> None, fwd |-> None, hook |-> None]
AllOptions == [image |-> "dev", cpus |-> "two", mount |-> TRUE, exclude_git |-> TRUE, no_agents |-> TRUE,
               devcontainer |-> "explicit", env |-> "x", fwd |-> "x", hook |-> "x"]
UpOptions ==
  {[f \in DOMAIN NoOptions |-> IF f \in S THEN AllOptions[f] ELSE NoOptions[f]] :
     S \in {T \in SUBSET DOMAIN NoOptions : Cardinality(T) <= 2}}
  \cup {[NoOptions EXCEPT !.devcontainer = "off"]}
UpFile == [cpus |-> "four", env |-> "y", fwd |-> "y", hook |-> "y", user |-> "ubuntu"]
UpSettings == {[env |-> v, fwd |-> v, hook |-> v] : v \in {None, "z"}}

\* A file of everything that is understood, with two of what may come twice; files of
\* what is refused, of a user and of one bad value.
DevMounted == {{<<"cpus", "one">>, <<"mounts", "bad">>}}
DevFiles ==
  {({"cpus", "memory", "storage", "postStartCommand", "mounts", "image"} \X {"one"})
   \cup ({"containerEnv", "forwardPorts"} \X {"one", "two"})
   \cup ({"features"} \X {"rust", "oci"}) \cup {<<"remoteUser", "vscode">>},
   ({"cpus", "postStartCommand", "containerEnv", "forwardPorts", "features"} \X {"bad"})
   \cup {<<"containerEnv", "one">>, <<"features", "foreign">>, <<"remoteUser", "root">>},
   {<<"memory", "low">>}, {<<"storage", "bad">>}, {<<"remoteUser", "ubuntu">>, <<"containerEnv", "one">>}}
  \cup DevMounted
DevLines ==
  {[devcontainer |-> d, given |-> {}, user |-> None] : d \in {"off", "explicit", "discover"}}
  \cup {[devcontainer |-> "explicit", user |-> u,
          given |-> ({"cpus", "memory", "storage", "postStartCommand", "mounts"} \X {"two"})
                    \cup ({"containerEnv", "forwardPorts"} \X {"one"}) \cup {<<"features", "rust">>}] :
           u \in {None, "vscode"}}

\* Nothing set; keys; proxies and a token per repository; an account; private egress.
SessionHost == {"ANTHROPIC_API_KEY", "OPENAI_API_KEY", "GITHUB_TOKEN", "TZ", "HTTP_PROXY"}
OneHost == {SessionHost}
Plain == [keys |-> {}, forward |-> {}, guest_env |-> {}, timezone |-> FALSE, account |-> FALSE,
          proxied |-> {}, egress |-> FALSE, github |-> "off", pats |-> {}]
SessionConfigs ==
  {Plain,
   [Plain EXCEPT !.keys = {"anthropic", "openai"}, !.forward = SessionHost, !.github = "auto"],
   [Plain EXCEPT !.proxied = {"anthropic", "openai"}, !.forward = SessionHost, !.guest_env = SessionHost,
                 !.timezone = TRUE, !.github = "pat", !.pats = {"i1"}],
   [Plain EXCEPT !.account = TRUE, !.keys = {"openai"}, !.guest_env = SessionHost, !.github = "env"],
   [Plain EXCEPT !.egress = TRUE, !.proxied = {"openai"}, !.forward = SessionHost, !.guest_env = SessionHost,
                 !.timezone = TRUE]}

\* o/p with submodules under the same owner (one of them public), another owner's, a
\* path out of the owner, and URLs coop does not use.
SlugValues == {<<"o", "p">>, <<"o", "s">>, <<"o", "q">>, <<"x", "y">>}
At(f, n, p) == [form |-> f, up |-> n, path |-> p]
ModuleValues ==
  [r \in SlugValues |->
    IF r # <<"o", "p">> THEN {}
    ELSE {At("https", 0, <<"o", "s">>), At("relative", 1, <<"q">>), At("relative", 2, <<"x", "y">>),
          At("relative", 0, <<"z">>), At("relative", 3, <<"o", "s">>), At("userinfo", 0, <<"x", "y">>),
          At("scp", 0, <<"o", "p">>)}]
RepoArgValues == {<<"o", "p">>, <<"x", "y">>}
CloneValues ==
  {At(f, 0, <<"o", "p">>) : f \in {"https", "ssh", "elsewhere"}} \cup {At("https", 0, <<"x", "y">>)}
OriginValues == {At("scp", 0, <<"o", "p">>), At("elsewhere", 0, <<"o", "p">>)}
ScopeValues ==
  [narrow |-> {<<"o", "p">>}, subs |-> {<<"o", "s">>, <<"o", "q">>}, wide |-> {<<"o", "p">>, <<"o", "s">>, <<"o", "q">>},
   host |-> SlugValues, dead |-> {}]
TokenValues == DOMAIN ScopeValues
WorldValues ==
  {[gh |-> None, env |-> "host", public |-> {}], [gh |-> "dead", env |-> None, public |-> {<<"o", "q">>}],
   [gh |-> "host", env |-> None, public |-> {<<"o", "q">>, <<"x", "y">>}]}

\* Subscriptions with the groups asked for; without the exit in its group and without
\* a dns section; with a group mihomo chooses in; with a GLOBAL group of its own.
La1 == <<"la", "1">>
La2 == <<"la", "2">>
Us1 == <<"us", "1">>
Group(members) == [kind |-> "select", proxies |-> members]
Subscription(groups) ==
  [keys |-> {"mixed-port", "proxies"}, groups |-> groups,
   dns |-> [k \in {"nameserver", "nameserver-policy", "hosts"} |-> "provider"]]
SubValues ==
  {Subscription("in" :> Group(<<Us1>>) @@ "out" :> Group(<<La1, La2, Us1>>)),
   [Subscription("in" :> Group(<<La1, Us1>>) @@ "out" :> Group(<<La2>>)) EXCEPT !.dns = <<>>],
   Subscription("in" :> Group(<<Us1>>) @@ "out" :> [kind |-> "url-test", proxies |-> <<La1, La2>>]),
   Subscription("in" :> Group(<<Us1>>) @@ "out" :> Group(<<La1>>) @@ "GLOBAL" :> Group(<<Us1>>))}

\* Tables with one exit, another, a pattern, no valid rule, and a choice nobody has.
Table == [entry_group |-> "in", entry_choice |-> Us1, exit_group |-> "out", exit_choice |-> La1,
          exit_choice_prefix |-> None, exit_choice_suffix |-> ""]
TableValues ==
  {Table, [Table EXCEPT !.exit_choice = La2], [Table EXCEPT !.exit_group = "in"],
   [Table EXCEPT !.exit_choice = <<>>, !.exit_choice_prefix = "la", !.exit_choice_suffix = "2"],
   [Table EXCEPT !.exit_choice = <<>>, !.exit_choice_prefix = "la"],
   [Table EXCEPT !.exit_choice_prefix = "la"], [Table EXCEPT !.exit_choice = <<"de", "1">>]}
-----------------------------------------------------------------------------
Vm == INSTANCE FirecrackerVmProofs WITH None <- NoValue, Coop <- Workers, MaxFaults <- VmFaults
Host == INSTANCE HostResourcesProofs WITH Providers <- Upstreams, HostPorts <- {}, MaxFaults <- MoreFaults
Up == INSTANCE ProjectUp
Dev == INSTANCE Devcontainer WITH Files <- Contents
Session == INSTANCE GuestSession WITH MaxEdits <- SessionEdits
GitHub == INSTANCE GitHubAccess WITH Tokens <- Pasted, MaxFaults <- MoreFaults
Ssh == INSTANCE SshAccessProofs WITH Commands <- Workers
Egress == INSTANCE EgressConfig WITH MaxFaults <- MoreFaults
Host2 == INSTANCE HostResourcesProofs WITH Providers <- MoreUpstreams
Ssh2 == INSTANCE SshAccessProofs WITH Commands <- Workers, MaxCommands <- MaxCommands - 1, MaxFaults <- MoreFaults

\* The theorems on the VMM are for one command at a time beside those that list, whose
\* kills and signals sudo never refuses, and PIDs no other Firecracker gets.
ASSUME AccessAssumption ==
  /\ Vm!OneManager /\ Vm!EndsAreObeyed /\ "foreign" \notin Strangers
  /\ Vm!VmAssumption /\ Host!HostAssumption /\ Host2!HostAssumption
  /\ Up!UpAssumption /\ Dev!DevcontainerAssumption /\ Session!SessionAssumption
  /\ GitHub!AccessAssumption /\ Ssh!SshAssumption /\ Ssh2!SshAssumption /\ Egress!EgressAssumption

(* The variables only one part has *)
vmVars == <<proc, pidFile, socket, seen>>
hostVars == <<bridge, rules, tap, saved, stray, refused, proxy, ending, pid, tunnel, fwdpid,
  token, target, todo, asked, wanted, step, child, torn, orphaned, minted>>
upVars == <<kind, held, given>>
devcontainerVars == <<tag, image, told>>
sessionVars == <<cfg, host, session>>
githubVars == <<world, known, guest>>
sshVars == <<exists, port, alias, coop, last, odd, left, begun>>
egressVars == <<sub, url, want, got, binary, running, chosen, cache, switch>>

NoVm == proc = None /\ pidFile = None /\ socket = None /\ seen = None
NoHost == bridge = None /\ rules = None /\ tap = None /\ saved = None /\ stray = None /\ refused = None
  /\ proxy = None /\ ending = None /\ pid = None /\ tunnel = None /\ fwdpid = None
  /\ token = None /\ target = None /\ todo = None /\ asked = None /\ wanted = None
  /\ step = None /\ child = None /\ torn = None /\ orphaned = None /\ minted = None
NoUp == kind = None /\ held = None /\ given = None
NoDev == tag = None /\ image = None /\ told = None
NoSession == cfg = None /\ host = None /\ session = None
NoGitHub == world = None /\ known = None /\ guest = None
NoSsh == exists = None /\ port = None /\ alias = None /\ coop = None /\ last = None
  /\ odd = None /\ left = None /\ begun = None
NoEgress == sub = None /\ url = None /\ want = None /\ got = None /\ binary = None
  /\ running = None /\ chosen = None /\ cache = None /\ switch = None

Init ==
  \/ /\ part = "vm" /\ Vm!Init
     /\ NoHost /\ NoUp /\ NoDev /\ NoSession /\ NoGitHub /\ NoSsh /\ NoEgress
     /\ vm = None /\ master = None /\ config = None /\ ignored = None /\ inst = None
        /\ job = None /\ file = None /\ edits = None
  \/ /\ ((part = "host" /\ Host!Init) \/ (part = "host2" /\ Host2!Init))
     /\ NoVm /\ NoUp /\ NoDev /\ NoSession /\ NoGitHub /\ NoSsh /\ NoEgress
     /\ config = None /\ ignored = None /\ inst = None /\ job = None /\ file = None
        /\ edits = None
  \/ /\ part = "up" /\ Up!Init
     /\ NoVm /\ NoHost /\ NoDev /\ NoSession /\ NoGitHub /\ NoSsh /\ NoEgress
     /\ verb = None /\ master = None /\ file = None /\ edits = None
  \/ /\ part = "devcontainer" /\ Dev!Init
     /\ NoVm /\ NoHost /\ NoUp /\ NoSession /\ NoGitHub /\ NoSsh /\ NoEgress
     /\ verb = None /\ vm = None /\ master = None /\ config = None
  \/ /\ part = "session" /\ Session!Init
     /\ NoVm /\ NoHost /\ NoUp /\ NoDev /\ NoGitHub /\ NoSsh /\ NoEgress
     /\ verb = None /\ faults = None /\ vm = None /\ master = None /\ config = None
        /\ ignored = None /\ file = None
  \/ /\ part = "github" /\ GitHub!Init
     /\ NoVm /\ NoHost /\ NoUp /\ NoDev /\ NoSession /\ NoSsh /\ NoEgress
     /\ verb = None /\ vm = None /\ master = None /\ ignored = None /\ inst = None
        /\ file = None /\ edits = None
  \/ /\ ((part = "ssh" /\ Ssh!Init) \/ (part = "ssh2" /\ Ssh2!Init))
     /\ NoVm /\ NoHost /\ NoUp /\ NoDev /\ NoSession /\ NoGitHub /\ NoEgress
     /\ verb = None /\ vm = None /\ config = None /\ ignored = None /\ inst = None
        /\ file = None /\ edits = None
  \/ /\ part = "egress" /\ Egress!Init
     /\ NoVm /\ NoHost /\ NoUp /\ NoDev /\ NoSession /\ NoGitHub /\ NoSsh
     /\ verb = None /\ vm = None /\ master = None /\ config = None /\ ignored = None
        /\ inst = None /\ job = None /\ edits = None

StepVm ==
  /\ part = "vm" /\ Vm!Next
  /\ UNCHANGED <<part, hostVars, upVars, devcontainerVars, sessionVars, githubVars,
                 sshVars, egressVars, vm, master, config, ignored, inst, job, file,
                 edits>>
StepHost ==
  /\ ((part = "host" /\ Host!Next) \/ (part = "host2" /\ Host2!Next))
  /\ UNCHANGED <<part, vmVars, upVars, devcontainerVars, sessionVars, githubVars,
                 sshVars, egressVars, config, ignored, inst, job, file, edits>>
StepUp ==
  /\ part = "up" /\ Up!Next
  /\ UNCHANGED <<part, vmVars, hostVars, devcontainerVars, sessionVars, githubVars,
                 sshVars, egressVars, verb, master, file, edits>>
StepDev ==
  /\ part = "devcontainer" /\ Dev!Next
  /\ UNCHANGED <<part, vmVars, hostVars, upVars, sessionVars, githubVars, sshVars,
                 egressVars, verb, vm, master, config>>
StepSession ==
  /\ part = "session" /\ Session!Next
  /\ UNCHANGED <<part, vmVars, hostVars, upVars, devcontainerVars, githubVars,
                 sshVars, egressVars, verb, faults, vm, master, config, ignored,
                 file>>
StepGitHub ==
  /\ part = "github" /\ GitHub!Next
  /\ UNCHANGED <<part, vmVars, hostVars, upVars, devcontainerVars, sessionVars,
                 sshVars, egressVars, verb, vm, master, ignored, inst, file, edits>>
StepSsh ==
  /\ ((part = "ssh" /\ Ssh!Next) \/ (part = "ssh2" /\ Ssh2!Next))
  /\ UNCHANGED <<part, vmVars, hostVars, upVars, devcontainerVars, sessionVars,
                 githubVars, egressVars, verb, vm, config, ignored, inst, file,
                 edits>>
StepEgress ==
  /\ part = "egress" /\ Egress!Next
  /\ UNCHANGED <<part, vmVars, hostVars, upVars, devcontainerVars, sessionVars,
                 githubVars, sshVars, verb, vm, master, config, ignored, inst, job,
                 edits>>

Next == StepVm \/ StepHost \/ StepUp \/ StepDev \/ StepSession \/ StepGitHub \/ StepSsh
  \/ StepEgress

vars == <<part, vmVars, hostVars, upVars, devcontainerVars, sessionVars, githubVars,
          sshVars, egressVars, pc, verb, faults, vm, master, config, ignored, inst, job,
          file, edits>>
Spec == Init /\ [][Next]_vars

Symmetry == Permutations(Vms)
-----------------------------------------------------------------------------
(* The properties, each of the part it is about *)

\* Every part's variables have their types.
TypeOK ==
  /\ part = "vm" => Vm!TypeOK
  /\ part = "host" => Host!TypeOK
  /\ part = "host2" => Host2!TypeOK
  /\ part = "up" => Up!TypeOK
  /\ part = "devcontainer" => Dev!TypeOK
  /\ part = "session" => Session!TypeOK
  /\ part = "github" => GitHub!TypeOK
  /\ part = "ssh" => Ssh!TypeOK
  /\ part = "ssh2" => Ssh2!TypeOK
  /\ part = "egress" => Egress!TypeOK

\* At most one VMM runs on an instance's disk, and `start` can find it: by the PID file,
\* or by the socket without one (src/src/vm.rs).
OneFindableVmm ==
  part = "vm" => Vm!SingleVmm /\ Vm!FindableVmm

\* A command stops only its own instance's VMM, whoever got the PID since
\* (src/src/vm.rs).
RunningIsOwn ==
  [][part = "vm" => Vm!StopsItsOwn]_<<pc, proc>>

\* No command for another instance takes a running VM's network away, unless the bridge
\* was left in part (src/src/network.rs).
RunningIsConnected ==
  /\ part = "host" => Host!RunningIsConnected
  /\ part = "host2" => Host2!RunningIsConnected

\* A process that holds a credential can be found (src/src/proxy.rs).
CredentialsTracked ==
  /\ part = "host" => Host!CredentialsTracked
  /\ part = "host2" => Host2!CredentialsTracked

\* A destroyed instance leaves no tap, token, PID file, proxy, tunnel or forwarded port
\* (src/src/proxy.rs, src/src/port_forward.rs, src/src/network.rs): but for a process a
\* killed command lost sight of, and the ports of a master that refused to exit.
DestroyedLeavesNothing ==
  /\ part = "host" => Host!DestroyedLeavesNothing
  /\ part = "host2" => Host2!DestroyedLeavesNothing

\* The options of an up or start are in force while the guest runs
\* (src/src/commands/lifecycle.rs), and what a command reports of devcontainer.json and
\* of its changes is so (src/src/devcontainer.rs, src/src/commands/devcontainer.rs).
OptionsHold ==
  /\ part = "up" => Up!OptionsHold
  /\ part = "devcontainer" => Dev!HonestReport /\ Dev!WarnedOfChanges

\* What a session's environment must not hold stays out of it (src/src/backend.rs,
\* src/src/private_egress.rs).
SuppressedStaysOut ==
  part = "session" => Session!KeysStayOut /\ Session!RestrictedView

\* Tokens reach what their entry is for, and go where they belong
\* (src/src/github_pat.rs, src/src/backend.rs).
TokensFit ==
  part = "github" => GitHub!TokensFit

\* Aliases lead to their own instance, shared connections are closed, and `uninstall`
\* leaves nothing (src/src/backend.rs, src/src/workspace.rs, src/src/commands/admin.rs).
SshHolds ==
  /\ part = "ssh" => Ssh!SshHolds
  /\ part = "ssh2" => Ssh2!SshHolds

\* While the gateway forwards, traffic and the names it needs go by the exit that the
\* installed configuration was made for (src/src/private_egress.rs).
EgressHolds ==
  part = "egress" => Egress!EgressHolds
=============================================================================
