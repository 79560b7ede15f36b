------------------------------- MODULE ProjectUp -------------------------------
(***************************************************************************)
(* What becomes of the options of `coop up` and `coop start`               *)
(* (src/src/commands/lifecycle.rs) for one project: the first up creates   *)
(* its instance, later ones find it and restart it, or leave it running;   *)
(* what was given once is kept in files of the instance, next to a         *)
(* config.toml the user goes on editing.                                   *)
(*                                                                         *)
(* Of the environment, the ports and the hooks one each is enough: merging *)
(* is by key.  Which instance is found, and two commands at once, are the  *)
(* matter of InstanceRegistry.                                             *)
(***************************************************************************)
EXTENDS Naturals, FiniteSets

CONSTANTS
  Options,      \* the command lines considered
  File,         \* what the project's devcontainer.json asks for
  Settings,     \* the contents config.toml may have
  MaxFaults     \* bound on failures and kills

None == "none"
Values == {"x", "y", "z"}
Given == [env : Values \cup {None}, fwd : Values \cup {None}, hook : Values \cup {None}]
Opt(S) == S \cup {None}

UpAssumption ==
  /\ Options \subseteq [image : {None, "dev"}, cpus : Opt({"two", "four"}), mount : BOOLEAN, exclude_git : BOOLEAN,
                        no_agents : BOOLEAN, devcontainer : {"off", "explicit", "discover"},
                        env : Opt(Values), fwd : Opt(Values), hook : Opt(Values)]
  /\ File \in [cpus : {"two", "four"}, env : Values, fwd : Values, hook : Values, user : {"ubuntu", "other"}]
  /\ Settings \subseteq Given /\ MaxFaults \in Nat

VARIABLES
  kind,      \* whether the project is a directory, or a repository to clone
  config,    \* config.toml
  ignored,   \* whether the user opted out of the project's devcontainer.json for good
  inst,      \* the instance and its files, or NoInst
  vm,        \* the running guest: its forwards and the hook it ran; Off
  pc, job,   \* the command: the step it is at, and what it works with
  held,      \* the options of the last command that succeeded, until another one is begun
  given,     \* the environment and forwards the instance was last asked for
  faults
vars == <<kind, config, ignored, inst, vm, pc, job, held, given, faults>>

NoInst == [image |-> None, cpus |-> "one", mount |-> FALSE, bare |-> FALSE, env |-> None, fwd |-> None, known |-> FALSE]
Off == [on |-> FALSE, fwd |-> None, agents |-> FALSE, hook |-> None]
NoJob == [boot |-> "none", opts |-> None, cpus |-> "one", env |-> None, fwd |-> None, hook |-> None]
Nothing == [env |-> None, fwd |-> None]
Exists == inst # NoInst

TypeOK ==
  /\ kind \in {"directory", "repository"} /\ config \in Settings /\ ignored \in BOOLEAN
  /\ inst.image \in {None, "default", "dev"} /\ inst.cpus \in {"one", "two", "four"} /\ inst.env \in Opt(Values)
  /\ inst.fwd \in Opt(Values) /\ {inst.mount, inst.bare, inst.known} \subseteq BOOLEAN
  /\ vm \in [on : BOOLEAN, fwd : Opt(Values), agents : BOOLEAN, hook : Opt(Values)]
  /\ pc \in {"idle", "boot", "forwards", "spawn", "env", "bootstrap", "transfer", "hook"}
  /\ job.boot \in {"none", "first", "restart"}
  /\ Cardinality(held) <= 1 /\ given \in [env : Opt(Values), fwd : Opt(Values)] /\ faults \in 0..MaxFaults

Init ==
  /\ kind \in {"directory", "repository"} /\ config \in Settings /\ ignored = FALSE
  /\ inst = NoInst /\ vm = Off /\ pc = "idle" /\ job = NoJob /\ held = {} /\ given = Nothing /\ faults = 0

Else(a, b) == IF a # None THEN a ELSE b
Idle == pc' = "idle" /\ job' = NoJob
Go(p) == pc' = p /\ UNCHANGED job

\* What a command asks for: its options, and those of the devcontainer.json it applies.
Asks(o) ==
  LET Dc(value) == IF o.devcontainer = "explicit" THEN value ELSE None IN
  [image |-> o.image, cpus |-> Else(o.cpus, Dc(File.cpus)), fwd |-> Else(o.fwd, Dc(File.fwd)),
   env |-> Else(o.env, IF File.user = "ubuntu" THEN Dc(File.env) ELSE None),
   hook |-> Else(o.hook, Dc(File.hook))]
-----------------------------------------------------------------------------
(* The first up: command line over devcontainer.json over config.toml *)

\* A file that was found is used when the user says so; when not, the project may
\* be opted out for good, and a repository has no project to opt out.
resolve_devcontainer(o, used, optOut) ==
  /\ used => o.devcontainer = "explicit" \/ (o.devcontainer = "discover" /\ ~ignored)
  /\ o.devcontainer = "explicit" => used
  /\ optOut => o.devcontainer = "discover" /\ ~used /\ ~ignored /\ kind = "directory"

\* What the command line has wins.
translate_host_requirements(o) == IF o.cpus = None THEN File.cpus ELSE None
\* The image's guest is ubuntu's: for another remoteUser containerEnv is skipped.
remote_user_mismatch == File.user # "ubuntu"
translate_container_env(o) == IF o.env = None /\ ~remote_user_mismatch THEN File.env ELSE None
translate_forward_ports(o) == IF o.fwd = None THEN File.fwd ELSE None
translate(o, used) ==
  IF ~used THEN [cpus |-> None, env |-> None, fwd |-> None, hook |-> None]
  ELSE [cpus |-> translate_host_requirements(o), env |-> translate_container_env(o),
        fwd |-> translate_forward_ports(o), hook |-> IF o.hook = None THEN File.hook ELSE None]

create_up_instance(o, used) ==
  LET t == translate(o, used) IN
  [boot |-> "first", opts |-> [o EXCEPT !.devcontainer = IF used THEN "explicit" ELSE "off"], cpus |-> Else(o.cpus, Else(t.cpus, "one")),
   env |-> Else(o.env, t.env), fwd |-> Else(o.fwd, Else(t.fwd, config.fwd)),
   hook |-> Else(o.hook, Else(t.hook, config.hook))]

\* Mutant of restart_instance: only the command line and config.toml count.
restart_unsaved(o) ==
  [boot |-> "restart", opts |-> o, cpus |-> inst.cpus, env |-> o.env,
   fwd |-> Else(o.fwd, config.fwd), hook |-> Else(o.hook, config.hook)]

\* A restart has the saved forwards and environment under those of its command line.
restart_instance(o) ==
  [boot |-> "restart", opts |-> o, cpus |-> inst.cpus, env |-> Else(o.env, inst.env),
   fwd |-> Else(o.fwd, inst.fwd), hook |-> Else(o.hook, config.hook)]

\* Mutant of Compatible: the number of CPUs is let through.
CompatibleButCpus(o) ==
  /\ Else(o.image, inst.image) = inst.image /\ o.devcontainer # "explicit"
  /\ kind = "directory" => ~o.exclude_git /\ o.mount = inst.mount

\* An existing instance refuses the options that only a creation applies.
Compatible(o) ==
  /\ Else(o.image, inst.image) = inst.image /\ o.cpus = None /\ o.devcontainer # "explicit"
  /\ kind = "directory" => ~o.exclude_git /\ o.mount = inst.mount

up_has_restart_only_inputs(o) == o.no_agents \/ o.fwd # None \/ o.hook # None \/ o.env # None

Up ==
  /\ pc = "idle"
  /\ \E o \in Options :
       \/ /\ ~Exists
          /\ \E used, optOut \in BOOLEAN :
               /\ resolve_devcontainer(o, used, optOut)
               /\ job' = create_up_instance(o, used) /\ ignored' = (ignored \/ optOut)
          /\ pc' = "boot" /\ held' = {}
       \/ /\ Exists /\ Compatible(o) /\ ~vm.on /\ job' = restart_instance(o)
          /\ pc' = "boot" /\ held' = {} /\ UNCHANGED ignored
       \/ \* it runs already, and nothing is asked that takes a start
          /\ Exists /\ Compatible(o) /\ vm.on /\ ~up_has_restart_only_inputs(o)
          /\ held' = IF held = {} THEN {} ELSE {o}
          /\ UNCHANGED <<ignored, pc, job>>
  /\ UNCHANGED <<kind, config, inst, vm, given, faults>>

\* start has no creation options.
Start ==
  /\ pc = "idle" /\ Exists /\ ~vm.on
  /\ \E o \in Options :
       /\ o.image = None /\ o.cpus = None /\ ~o.exclude_git /\ o.devcontainer # "explicit"
       /\ job' = restart_instance([o EXCEPT !.mount = inst.mount])
  /\ pc' = "boot" /\ held' = {} /\ UNCHANGED <<kind, config, ignored, inst, vm, given, faults>>
-----------------------------------------------------------------------------
(* The steps of a start *)
Doing(p) == pc = p
First == job.boot = "first"
StepOf(p, q) == Doing(p) /\ Go(q) /\ UNCHANGED <<kind, config, ignored, held, faults>>

\* create_and_start writes the machine's configuration, start_existing keeps it.
Boot ==
  /\ StepOf("boot", "forwards")
  /\ inst' = IF First
             THEN [NoInst EXCEPT !.image = Else(job.opts.image, "default"), !.cpus = job.cpus]
             ELSE inst
  /\ vm' = [Off EXCEPT !.on = TRUE] /\ given' = IF First THEN Nothing ELSE given

SaveForwards ==
  /\ StepOf("forwards", "spawn") /\ inst' = [inst EXCEPT !.fwd = job.fwd]
  /\ given' = [given EXCEPT !.fwd = Else(Asks(job.opts).fwd, @)] /\ UNCHANGED vm

SpawnForwards == StepOf("spawn", "env") /\ vm' = [vm EXCEPT !.fwd = job.fwd] /\ UNCHANGED <<inst, given>>

SaveEnv ==
  /\ StepOf("env", "bootstrap") /\ inst' = [inst EXCEPT !.env = job.env]
  /\ given' = [given EXCEPT !.env = Else(Asks(job.opts).env, @)] /\ UNCHANGED vm

Bootstrap ==
  /\ StepOf("bootstrap", IF First THEN "transfer" ELSE "hook")
  /\ vm' = [vm EXCEPT !.agents = ~job.opts.no_agents] /\ UNCHANGED <<inst, given>>

\* Only a directory's .git is left out; a clone keeps its own.
Transfer ==
  /\ StepOf("transfer", "hook")
  /\ inst' = [inst EXCEPT !.mount = kind = "directory" /\ job.opts.mount,
                          !.bare = kind = "directory" /\ job.opts.exclude_git, !.known = TRUE]
  /\ UNCHANGED <<vm, given>>

\* The hook's own failure is a warning.
run_configured_post_start ==
  /\ Doing("hook") /\ Idle /\ vm' = [vm EXCEPT !.hook = job.hook] /\ held' = {job.opts}
  /\ UNCHANGED <<kind, config, ignored, inst, given, faults>>

\* A first start that fails removes its instance; killed, it leaves one that later
\* ups do not find unless workspace.json is there (InstanceRegistry has the rest).
\* A restart that fails leaves the machine running.
Interrupted ==
  /\ pc # "idle" /\ faults < MaxFaults /\ faults' = faults + 1 /\ Idle
  /\ \/ First /\ inst' = NoInst /\ vm' = Off /\ given' = Nothing
     \/ (First => inst.known) /\ UNCHANGED <<inst, vm, given>>
  /\ UNCHANGED <<kind, config, ignored, held>>
-----------------------------------------------------------------------------
(* Between the commands *)
Quiet == pc = "idle" /\ UNCHANGED <<kind, pc, job, faults>>

\* The user edits config.toml, or clears the opt-out.
EditConfig == Quiet /\ config' \in Settings /\ ignored' \in {ignored, FALSE} /\ UNCHANGED <<inst, vm, held, given>>
Stop == Quiet /\ vm.on /\ vm' = Off /\ held' = {} /\ UNCHANGED <<config, ignored, inst, given>>
Resize ==
  /\ Quiet /\ Exists /\ ~vm.on /\ inst' = [inst EXCEPT !.cpus = "four"]
  /\ UNCHANGED <<config, ignored, vm, held, given>>
Destroy ==
  /\ Quiet /\ Exists /\ inst' = NoInst /\ vm' = Off /\ held' = {} /\ given' = Nothing
  /\ UNCHANGED <<config, ignored>>

Next ==
  \/ Up \/ Start \/ Boot \/ SaveForwards \/ SpawnForwards \/ SaveEnv \/ Bootstrap \/ Transfer
  \/ run_configured_post_start \/ Interrupted \/ EditConfig \/ Stop \/ Resize \/ Destroy

Spec == Init /\ [][Next]_vars
-----------------------------------------------------------------------------
(* Properties *)

\* A session's environment: what the instance was given over what config.toml has.
session_env == Else(inst.env, config.env)

\* No option of an up or start that succeeded is silently dropped while the guest
\* runs: it is in force, whether the instance was made, restarted or found
\* running, and whatever config.toml has become since.  And what an earlier
\* command gave the instance is still in force when a later one did not replace
\* it.  (A clone keeps its .git: there --exclude-git is for the mounts only.)
OptionsHold ==
  \A o \in held :
    LET asked == Asks(o) IN
    /\ vm.on /\ asked.image \in {None, inst.image} /\ asked.cpus \in {None, inst.cpus}
    /\ asked.env \in {None, session_env} /\ asked.fwd \in {None, vm.fwd} /\ asked.hook \in {None, vm.hook}
    /\ o.no_agents => ~vm.agents
    /\ kind = "directory" => o.mount = inst.mount /\ (o.exclude_git => inst.bare)
    /\ given.env \in {None, session_env} /\ given.fwd \in {None, vm.fwd}
================================================================================
