# coop: verification project

`coop` is a Rust command line tool that runs coding agents in virtual machines
(Firecracker on Linux, Lima on macOS), with credentials injected by a host
proxy and, in private-egress mode, with a network that fails closed behind a
gateway VM. There is no daemon: every `coop` command is a process of its own,
and what they share are files under the data directory, virtual machines,
packet filters and PID files. The hard behaviour of the system comes from that:
several commands at once, commands killed between two steps, shell scripts that
stop under `set -e`, VMs and services that die and restart on their own, and
state that one command remembers for another long after the configuration,
the disk or the project has changed.

This directory holds TLA+ models of the parts where this matters, the TLC runs
that check them and TLAPS proofs about them. Source lines below are those of the
repository (`src/src/...`); `PROJECT.json` maps every definition to its lines.

    tlc -workers 2 -config NetworkGuard.cfg MCNetworkGuard     # a run
    tlapm NetworkGuardProofs.tla                               # the proofs

## The system: inventory

| component | state | operations | what is hard | correct when |
|---|---|---|---|---|
| network guard (`private_egress.rs`) | filter chains, policy, route table 100, unit files in the guest | boot guard, guard run, lockdown, verification, session | a run may be killed after any command; several commands restart it; routes vanish | never open, never cuts running connections, converges |
| egress gateway (`private_egress.rs`, `platform`) | lock and stamp on the host; configuration, selectors, kill switch, service in the VM | `ensure_gateway`, `harden_config`, `mihomo.service` | torn installations, service restarts by itself, remembered selections | the tunnel opens only with the right selectors and the exit asked for |
| instance registry (`config.rs`, `commands/lifecycle.rs`, `backend.rs`) | instance directories, allocation lock | `up`, `start`, `stop`, `restore`, `destroy` | only the allocation is locked; cleanup after failure; kill anywhere | no shared index; one environment per project |
| options of a project (`commands/lifecycle.rs`, `guest_env_state.rs`) | files of the instance, opt-outs, `config.toml` | `up`, `start` in all their forms | what was given once against what is configured now | no option is silently dropped |
| Firecracker process (`vm.rs`, `Instance::is_running`) | PID file, API socket, processes | probe, start, stop, disk operations | PID reuse, stale files, sudo failing, probe with side effects | one VMM per disk, always findable |
| host resources (`network.rs`, `port_forward.rs`, `proxy.rs`) | bridge, taps, NAT rules; ssh master, `forwards.json`; PID and token files, proxy and tunnel processes | set-up and tear-down of each, by up, start, stop, destroy and the cleanup of a failed up | shared bridge, partial set-up, orphans, readiness | a running instance is connected; a destroyed one leaves nothing |
| `coop-proxy` (workspace crate) | requests in flight, permits | one process per upstream | hang-ups, streaming, token check | the cap holds, only the credential leaves |
| images and disks (`setup.rs`, `lima.rs`) | templates, staging files, guarded images, stamps, `lima.yaml` | build, up, resize, commit, restore, reconfigure | swap of files, mounts, two network modes | an image is whole or absent; a private instance is guarded |
| workspaces (`workspace.rs`) | `workspace.json`, two directories | push, pull, first copy | work goes on during a transfer | only unguarded work is lost |
| ssh access (`backend.rs`, `ssh.rs`, `workspace.rs`, `commands/admin.rs`) | `~/.ssh/config`, control sockets | wait for sshd, aliases, sessions, `destroy --all`, `uninstall` | a new port at each boot, no lock | an alias leads to its own instance |
| secrets and GitHub (`secret_store.rs`, `github_pat.rs`, `pat_prompt.rs`, `github_*.rs`) | keychain entries, `config.toml` under a lock | wizards, prompt, rotate, forget, clone | concurrent edits, partial placement, several pasted tokens | an entry reads its own token, which reaches what was asked |
| dev containers (`devcontainer*.rs`) | `devcontainer.json`, image configuration, instance state | setup, up, quickstart, check | moving tags, opt-outs, precedence | the report is true |
| agents in the guest (`backend.rs`, `model_state.rs`, `codex.sh`, `codex-account.sh`) | routes, provider tables, keyring, releases, `model.json` | bootstrap, `coop model`, sessions, `agent update` | switched modes, failures between write and record | the guest follows the configuration |
| self-update (`update.rs`, `install.sh`) | two binaries | download, verify, replace | failure between the two | verified, of one release |
| configuration, command line, helpers | none of their own | parsing, merging, dispatch | | |

Interaction: `coop up` allocates an instance (registry), boots it (Firecracker
process, host resources) from a template (images), starts the proxy and the
forwards, bootstraps the guest over SSH, transfers the project. `coop claude`
and its siblings, in private-egress mode, first make sure of the gateway, then
lock the guest down, verify the route and start the session. The guard in the
guest and the service in the gateway then go on without any command.

## Modules

| module | models | run |
|---|---|---|
| `NetworkGuard`, `NetworkGuardProofs` | the guest's packet filter, routes, boot guard, guard script, timer, lockdown and sessions | `guard`, `guard_fallback` |
| `EgressPolicy` | what the guard promises of a guest, abstractly | refined in `guard` (`PolicyKept`) |
| `EgressGateway`, `EgressGatewayProofs` | the gateway VM, `mihomo.service`, `ensure_gateway` with lock and stamp | `gateway`, `gateway_reuse` |
| `EgressConfig` | the table, the subscription, the hardened configuration and remembered selections | `access` |
| `InstanceRegistry`, `InstanceRegistryProofs` | instance directories and lifecycle commands | `registry`, `registry_alone`, `registry_race` |
| `SlotTable` | what allocation promises: a table of slots, abstractly | refined in `registry` (`SlotsKept`) |
| `FirecrackerVm`, `FirecrackerVmProofs` | one instance's VMM process, PID file and socket | `access`, `vm_probe` |
| `HostResources`, `HostResourcesProofs` | bridge, taps, forwards, credential proxies and tunnels of all instances | `access` |
| `ProjectUp` | what becomes of the options of `up` and `start` | `access` |
| `Devcontainer` | `devcontainer.json`, its report, the image it makes | `access` |
| `GuestSession` | the environment of a session and its restricted view | `access` |
| `GitHubAccess` | the reach of tokens, submodules, clones | `access` |
| `SshAccess`, `SshAccessProofs` | wait for sshd, aliases, exit codes, the way out | `access` |
| `ImageStore` | images and disks on Firecracker | `parts`, `restore` |
| `LimaStore` | images and instances on Lima, with private egress | `parts`, `lima_toggle` |
| `SelfUpdate` | `coop update` and the background check | `parts` |
| `SecretStore` | tokens in their stores and the configuration file | `parts` |
| `AgentBootstrap` | Claude and Codex as each boot and `coop model` set them up | `parts` |
| `CoopProxy` | one credential proxy process and its requests | `parts` |
| `WorkspaceSync` | `push` and `pull` | `parts` |
| `CodexRelease`, `CodexAccount` | Codex's installer; its account wrapper and keyring | `parts` |
| `MCParts`, `MCPartsProofs` | the composition of the nine modules checked in `parts`, and the theorems on them | `parts` |
| `MCAccess`, `MCAccessProofs` | the same for the eight checked in `access` | `access` |

`MC*` modules give the constants small values. `MCParts` and `MCAccess` are more
than that: each holds several modules that share no state, so that one run
checks them all. A behaviour of such a run is a behaviour of one of the modules,
chosen in the initial state (`part`); the variables of the others stay `None`,
and each property is stated of its part. TLC's action coverage of such a
run names only the steps of the composition; `tlc -coverage 1` lists the
subexpressions, by which each part's actions all happen. Nothing is shown by this
composition about two parts together. What two parts do together is modelled inside a
module where the code couples them: forwards, taps and proxies in
`HostResources`, image configuration and up in `Devcontainer`, and so on.
The parameters of the parts are CONSTANTS of the composition wherever its own
theorems hold for all their values (command lines, files, tables, repositories,
configurations, ...); the configuration file gives them the values defined at the
top of the module.

A definition commented "Mutant of X" is a plausible bug in place of `X`: it
belongs to no specification, and each checked property is violated by one.

### NetworkGuard

`output` is the sequence of jumps in `OUTPUT`, `chain` the rules of
`COOP_EGRESS_A`, `COOP_EGRESS_B` and `PRIVATE_EGRESS_BOOT`; a rule is the class
of traffic it decides (established connections, DNS to the gateway, private
ranges, everything). `Passes(t)` evaluates the filter for a class. Each command
of the scripts that changes what packets do is a step (`SetRoutes`, `AddRule`,
`PickNext`, `FlushNext`, `AppendRule` once per rule, `InsertJump`,
`UnjumpActive` once per jump, ...), so a run can be killed between any two
(`GuardDies`), restarted by another command (`RestartGuard`), stop because a
command failed, or give up a deletion loop (`LoopGivesUp`). `flushed` is
history: the guest's network manager has dropped routes and no run has restored
them. The order of the swap is the code's: fill the new chain, insert its jump
first, remove the old jumps, empty and delete the old chain.

`NoDirectEgress` has an exception for the time between a loss of routes and
the repair. `NoFallback` is the claim without it, made in
docs/configuration.md:225; the code violates it (see below).

`EgressPolicy` says the same from outside, without chains, scripts or commands: how new
public traffic fares (`exit`: open, closed, guarded), the gateway it is sent to
(`hop`), whether that was `lost`, whether the timer watches, and which sessions
run. A guest goes from open to closed or guarded and from closed to guarded, never
back while it runs; a way out needs routes; a session begins in a guarded and
watched guest. `PolicyKept` states that the guard implements it, reading `exit` off
the filter (`Exit`) and `hop` off table 100 (`NextHop`). Almost every command of the
scripts is a stutter; the insertion of a jump grants the way out, the last
command of either script locks.

### EgressGateway and EgressConfig

In `EgressGateway` a configuration is a number, `contents` the deployment behind
it; controller secret and selectors carry the same number, so a selector state
can be used only with the mihomo it was written for. `unit` walks through the
commands of `mihomo.service`, which the manager also runs at boot, on
`Restart=always`, and on `systemctl restart`. `GiveUp` ends a command anywhere,
by failure or kill.

`EgressConfig` opens that number: it takes every table the parser accepts
(`try_from`), every subscription with its groups, listeners and dns section,
rewrites it as `harden_config` does, and runs mihomo on the result with the
selections it remembers (`chosen`, `cache`). `EgressHolds`: while the switch is
open, the exit is the one the installed table asks for, names are looked up
through it, and nothing of the provider's listens.

### InstanceRegistry and ProjectUp

Per name, four files: `instance.json` (`meta`, with index and an identity that
only the model has), `workspace.json` (`space`), the disk and the PID file.
`rm -rf` reads the directory first and unlinks in any order, so a kill leaves
any subset. Allocation is under the lock, step by step; everything else is not,
as in the code. `ProjectUp` leaves the directory alone and follows one project's
options: `create_up_instance`, `restart_instance`, `Compatible` and the files
they read and write. `OptionsHold` compares what the running guest has with what
the last commands asked for.

### FirecrackerVm and HostResources

A process is a PID with a kind: the trampoline shell, the exec'ed VMM before
and after it binds its socket, another instance's VMM, or anything else.
`is_running` reads, judges and possibly removes the PID file in separate steps.
A refused `sudo` does what the code does with it: the probe calls the process
dead, a removal or a signal is logged and passed over.

`HostResources` has a step for every command of `ensure_bridge`, `setup_tap` and
`teardown_bridge`, for every phase of a proxy's start (resolve, spawn, answer, PID
file, token file, tunnel) and for what `stop`, `destroy` and the cleanup of a
failed `up` undo, in the code's order, which differs between them.
`orphaned` is history: what a killed command had started and not yet recorded;
so is `refused`: whose master did not exit when told, and goes on without its socket
with the ports in `stray`, until it notices that the VM has gone.

### ImageStore and LimaStore

A disk or template has the recipe its content was made from, or is broken.
Staging, mounts, `mv`, `cp`, `e2fsck` and the saving of configuration are separate
steps; `cut` is history: what stopped commands have left undone, and of which file. A
failure of a step that has not begun its change puts nothing there, so that a failed
up, rm or save is no excuse for a disk that is not whole. `found` is the disk a
restore began with. `LimaStore` adds the two network modes: the shared template points
at the plain or the guarded image depending on the mode *when it was generated*, and
each instance has a marker in its directory. `limactl delete` and the removal of the
directory are two steps, and what is left of the second (any of `instance.json`, the
marker, the template with the mounts) is what the next instance of that name finds;
`stale` is history, a marker that is older than its VM.

### SelfUpdate, SecretStore, GitHubAccess

`SelfUpdate` runs one update, with a release that may lack a bundle, have an
empty one or be unattested, beside the background check of another command.
`SecretStore` runs wizards side by side; each store clears and writes in the steps
its tool has, under the account name `from_repo` makes of the slug, and the
configuration file is read, changed and renamed under the lock. `mixed` is history:
whose token another credential of the same account has replaced or removed. `GitHubAccess` is about what a token reads: URLs of submodules in all
forms, the owner's boundary, several pasted tokens, and the clone's choice of a
token.

### AgentBootstrap, GuestSession, CodexRelease, CodexAccount

`AgentBootstrap` switches configurations between boots and compares the guest's
files with what `model.json` remembers. `GuestSession` takes a configuration, an
instance and the host's environment and computes what a program sees, with the
precedence of the code. `CodexRelease` interleaves installers with sessions;
`CodexAccount` starts sessions at once, in and outside the guest, on one keyring.

### CoopProxy, WorkspaceSync, Devcontainer, SshAccess

`CoopProxy` has one step per stretch between two awaits; a hang-up, an upstream
failure or SIGTERM can come at each. `WorkspaceSync` records what was seen by the
check and what is there at the transfer; a transfer may be cut short. A tree has
the commits of the branch that is checked out and those of the others, modified
tracked files, untracked and ignored ones; which of the destination's files and
refs have no namesake in the source, and so stay, is any set (`kept`).
`Devcontainer` keeps what a command reported next to what it did: `HonestReport`
compares each row with the image or instance. `SshAccess` has the read and the
write of the ssh configuration as separate steps of commands that do not lock it.

## Runs

| run | instance | checks |
|---|---|---|
| `guard` | 2 commands, 2 gateway addresses, 2 faults | filter safety, the inductive invariant, the swap, refinement of `EgressPolicy`, convergence |
| `guard_fallback` | 1 command, 1 fault | violated: `NoFallback` |
| `gateway` | 2 commands, 2 deployments, 2 installations, 2 faults | kill switch, no mixing, lock and service liveness |
| `gateway_reuse` | 2 deployments, no fault of the VM | violated: `ReusedIsRequested` |
| `registry` | 2 commands, `up` and `destroy`, 2 indices, 2 births, 1 fault | slots, the inductive invariant, refinement of `SlotTable`, termination |
| `registry_alone` | 1 command at a time, all verbs, 2 projects, 4 births, 3 faults | one instance per directory, the others unaffected |
| `registry_race` | 2 `coop up` of one directory | violated: `OneEnvironmentPerProject` |
| `parts` | nine modules, 1 fault each | see below |
| `access` | eight modules | see below |
| `vm_probe` | 1 command, 1 refused `sudo` | violated: `ProofOfStop` |
| `lima_toggle` | 2 images, 1 instance, no fault | violated: `ImagesUnguarded` |
| `restore` | 1 image, 1 instance, 1 fault | violated: `FailedRestoreLeavesDisk` |

In `parts`: 2 images, 1 instance and 3 sizes (`ImageStore`), 1 image, 1 instance
and 2 faults (`LimaStore`), 3 releases (`SelfUpdate`), 2 commands, which are
symmetric, on 2 stores with 1 provider and 2 repositories, `a/b-c` and `a-b/c`,
of one account name (`SecretStore`), 7 configurations (`AgentBootstrap`), 3 requests under
a cap of 2 (`CoopProxy`), 1 piece of work, in whichever of its places
(`WorkspaceSync`), 2 installers, 3 releases and 2 sessions (`CodexRelease`,
`CodexAccount`).

In `access`: a manager and a `coop list` over 3 PIDs with 4 faults
(`FirecrackerVm`); 2 instances with up to 2 spawned proxies, as one provider and
2 faults, and as two providers, a host port both want and 1 fault
(`HostResources`); all single options and pairs (`ProjectUp`); files
with every key in understood, repeated and bad form, 2 digests (`Devcontainer`);
5 configurations and 3 changes (`GuestSession`); 4 repositories, 7 submodule URLs,
5 tokens, 2 faults (`GitHubAccess`); 2 commands at a time, 2 instances,
2 ports, 4 commands with 1 fault or 3 with 2 (`SshAccess`); 4
subscriptions, 2 faults (`EgressConfig`).

| property | what it says |
|---|---|
| `ImagesWhole` | templates are whole whatever setup stops at; a disk is whole, its own, and its filesystem fills it, but for the one step of a restore, patch, resize or commit that failed or was killed |
| `PrivateIsGuarded` | an instance marked private has the guarded disk and only the gateway's network, but for a marker left by a destroy that stopped; the guarded image is of the base in its stamp; a failed reconfiguration restores the old `lima.yaml` |
| `DestroyedLeavesNothing` | no tap, token, PID file, process or forwarded port of a destroyed instance, but for processes a killed command lost sight of and the ports of a master that refused to exit |
| `InstalledIsVerified` | binaries in place were verified, and of one release |
| `EntriesResolve` | each entry reads its own token from the store it names; only another repository of the same account name takes it from there |
| `NoLostWrites` | no write of another's configuration entry is lost; `current` never goes back |
| `GuestFollowsConfig` | after a bootstrap the guest is as configured, and has no host login behind a proxy |
| `ProxyHolds` | permits add up to the cap, for whole bodies; only a shown token gets the credential, and nothing else leaves |
| `OnlyUnguardedWorkIsLost` | a transfer loses only what its check does not look at: files git ignores, other branches, what was done since, and so on, all named |
| `CodexRuns` | `current` names a whole release, sessions keep theirs, the keyring opens |
| `OneFindableVmm`, `RunningIsOwn` | one VMM per disk, found by PID file or socket; only the own one is stopped |
| `OneEnvironmentPerProject`, `OthersUnaffected` | one instance per directory; commands leave the others alone |
| `OptionsHold` | options are in force, rows of a report are true, changes are warned about |
| `SuppressedStaysOut` | a withheld key is in no program's environment; the restricted view has no proxy variable |
| `TokensFit` | a stored token reaches all that was asked for; the guest sees no other token than the entry's |
| `SshHolds` | aliases lead to their own instance, shared connections are closed, `uninstall` leaves nothing |
| `EgressHolds` | traffic and names leave by the exit asked for |

Why the bounds are enough. `MaxFaults` counts failures, kills and outside
events. Two of them are enough for a second run of the guard to be stopped on
what a first stopped run left, which gives every combination of half-filled
chains and double jumps; the proofs cover any number. Two installations are
what a mixture needs, and a third waits for a lock only. The index
maximum is 1 so that the table fills, wraps and fails. Three PIDs let an old PID
be reused while a VMM and an orphan exist. Two faults let `HostResources` clean up
after a command that met what an earlier one left (without forwards, which get
one fault); two instances are one that
goes while another is on the bridge. In `parts` one fault per behaviour is
followed by any number of complete commands, so each repair is met; on Lima two, as
a marker outlives its instance by one and meets the next by another. A piece
of work can be anywhere in a tree, and what becomes of one does not depend on
the others; the theorem is for any number. Three
requests on a cap of two let one wait for a permit that another returns. Three
releases let an installer be overtaken twice.

Deadlock checking is off in the runs whose bounds on commands, births and faults
can be used up: `registry`, `registry_alone`,
`registry_race`, `parts` and `access`.

### Fairness

`FairSpec` asks for as little as the code gives:

- guard: weak fairness of the timer (`OnUnitActiveSec=10`, active after every
  run, failed or not) and of the running script. Nothing is asked of commands.
- gateway: weak fairness of the service manager and of each command's next step
  or failure (every remote call has a time limit or ends with the connection),
  and strong fairness of the lock: `flock` queues its waiters in the kernel.
- registry: weak fairness of each started command, strong fairness of the lock.

The other runs check safety only.

## Assumptions worth knowing

- `Settled` (FirecrackerVm): a spawned Firecracker binds its socket or ends
  within the waits of the code (one second before the first probe, five for the
  PID file). Without it `start` may return before its VMM has bound.
- FirecrackerVm in `access` leaves out a refused `sudo` at three steps: the kill
  of an orphan and the two signals of `stop`. There the code removes the PID file
  and the socket of a process that goes on (vm.rs:414-448, 550-553). An unrelated
  program may reuse a PID, the Firecracker of another instance not, which
  `is_firecracker_process` accepts (config.rs:2816-2826).
- `registry` has two commands with `up` and `destroy`; `OthersUnaffected` is
  checked for one command at a time, because `destroy` removes by name without a
  lock (backend.rs:942-956) and a second one can hit a newer instance. `restore`
  beside `destroy` writes a destroyed instance back (config.rs:2727-2748).
- `registry_alone` gives the two projects different names. With one
  basename, a directory that lost only its `instance.json` is skipped by the
  listing (config.rs:2377-2405) and hands its `workspace.json` to the next one.
- Both commands of the gateway runs use one data directory. With two, the VM is
  shared and the lock is not (private_egress.rs:112-116).
- `ForwardingIsGuarded` starts with mihomo: between the sysctl settings (or a
  boot) and the unit's first command there is no kill switch yet.
- `HostResources`, `ImageStore`, `LimaStore`, `AgentBootstrap`, `ProjectUp`,
  `Devcontainer` and `EgressConfig` run one command at a time. The code has no lock
  that would make it so; two commands that build one image, or one that tears the
  bridge down while another attaches to it, are not covered.
- `RunningIsConnected` excepts a bridge an interrupted command has left in part:
  `ensure_bridge` believes whatever bridge there is (network.rs:115-119).
- `InstancesBootable`, `TemplateWhole` except what a command that failed or was
  killed in the copy, patch or growth of a file left undone (`cut`); a commit removes the old
  template first (setup.rs:246-251), a restore the old disk (264-267; run `restore`).
- `PrivateIsGuarded` excepts a marker that a destroy which stopped after `limactl
  delete` left to the next instance of that name, until its `up` writes or clears
  it (`stale`; backend.rs:1165-1175, lima.rs:206-211), and a `lima.yaml` that could not
  be put back (lima.rs:415-420).
- `DestroyedLeavesNothing` excepts the ports of a master whose `ssh -O exit` failed:
  the error is ignored and the socket removed (port_forward.rs:246-265).
- `OnlyUnguardedWorkIsLost` has the losses the checks do not see: of the host, files git
  ignores, which a pull overwrites (workspace.rs:829-842, 1014-1018); of the guest, the commits of
  branches that are not checked out and the stash, which `rsync --delete` takes with
  `.git` (754-777, 977-983).
- Two entries of `forwardPorts` in `Devcontainer` and `ProjectUp` have different guest
  ports. Of two with the same one the later is forwarded (config.rs:614-628), and the
  report has both as applied (devcontainer.rs:1043-1064).
- The transfer of `config.yaml` and of the selectors into the gateway is one step
  each; `cat` that sees the end of its input, as its client was killed, leaves a
  truncated file to the mv (private_egress.rs:664, 677).
- `AliasesHold` excepts aliases that two commands rewrote at the same time or
  that a failed start left (`odd`): nothing locks `~/.ssh/config`.
- `EntriesResolve` excepts an entry whose token was replaced or removed for another
  repository of the same account name; `from_repo` maps `a-b/c` and `a/b-c` to one
  (secret_store.rs:139-141).
- `GuestFollowsConfig` excepts a disk from another VM and a keyring setting that
  was written and not recorded (`astray`).

## Disagreements between code and documentation

Each is shown by a run whose single property states what the document says.

1. `guard_fallback`: table 100 has no unreachable default, so a lost policy
   route falls back to DHCP's until the next timer run
   (docs/configuration.md:225, private_egress.rs:1784).
2. `gateway_reuse`: the stamp of a deployment survives a half-finished
   installation of another and makes a command reuse the wrong gateway
   (docs/configuration.md:204-206, private_egress.rs:138).
3. `registry_race`: `coop up` does not lock its lookup
   (commands/lifecycle.rs:96 and 141).
4. `vm_probe`: a probe that failed counts as a stopped VM
   (backend.rs:149, 836; config.rs:2781).
5. `lima_toggle`: the shared template is generated again only in private mode, so
   after private egress is turned off new ordinary instances have the guarded disk
   and can be committed (docs/images-and-profiles.md:183, lima.rs:124).
6. `restore`: a restore that fails has removed the disk, and may have put another
   one there, where the comment calls it untouched (commands/lifecycle.rs:2017-2019,
   setup.rs:264-271).

Met while modelling, without a run of their own:

- `coop shell -- command` exits with 1 for every failing command (ssh.rs:130 and
  158; `exit_code` in `SshAccess`), where docs/commands.md:286 and the comment at
  ssh.rs:156 promise the command's own code.
- "Refuse to use an instance under a different network mode from the one it was
  created with" (private_egress.rs:1107): a marker of an earlier instance, left by a
  destroy that stopped, lets a private command start an ordinary VM of that name whose up
  was killed before it cleared the marker.
- The comment on `AccountName` (secret_store.rs:128-133) is about the characters of the
  name; that two repositories may share one is not mentioned there or where the entries are made.
- docs/configuration.md:290 calls the guest user fixed for the life of the image,
  but a later `coop setup` with another user rebuilds the image, and instances made
  of the old one read the new name (`GuestUserIsInstances` in `Devcontainer`
  states the promise).
- The prefix form of the exit is documented as prefix and suffix together; the
  prefix alone is accepted (config.rs:1686-1698).
- docs/configuration.md:50 calls submodule discovery advisory; `handle_submodules`
  ends the wizard on some of its errors (github_pat.rs:768, 812, 825).
- docs/workspaces.md:30-34 describes a verification by SHA-256 that push and pull
  do not do; line 98 of it does not hold for worktree modifications that were
  copied to the guest, which make a later push refuse.
- docs/vscode.md:67 says a stale ssh entry has no effect; on Lima another VM may
  get its port.

## Proofs

Every safety invariant and every action property that a passing run checks is
also proved, for all values of the constants that meet the assumptions and
hypotheses named below. Each theorem follows the same argument: an inductive
invariant that says what a command has established at the step where it is, a
lemma that the initial states satisfy it, a lemma per group of actions (one case
per action) that a step keeps it, and temporal logic for the last line. The
inductive invariants of the guard and of the registry (`IInv`, `SlotInv`) are
invariants of the runs as well.

Four conventions recur. The invariants of the safety proofs constrain the *shape* of records
(`DOMAIN inst = ...`) and only the fields an argument needs. Rigid
facts about sequences (the first jump that decides, the last rule that was added)
are proved by the least-number principle, `LeastNat`, from the library's
theorem on natural numbers. Where several commands run, one lemma
speaks of the command that moves and another of those that do not. And the proofs
of types are apart from those of safety: the set of a command's records stays
unexpanded, with a lemma that says which changes of a record stay in it, so that each
step of the proof is about one variable.

### What each module proves

**NetworkGuard** (`GuardAssumption`: `None` is no gateway, `MaxFaults` a natural
number), for any set of commands and gateways and any number of faults:

- `InductiveInvariant`: `Spec => []IInv`, with the type invariant;
- `DirectEgressNever`, `PrivateClosed`, `SessionsNeedLock`: no direct traffic, no
  private destinations, no session without a locked guest;
- `SwapCutsNothing`: a guard run never cuts an established connection;
- `GuardImplementsPolicy`: the refinement of `EgressPolicy`.

That the filter is closed to direct traffic depends on how it was reached: an egress
chain is always a prefix of the rules in the script's order (`ChainsInOrder`), so
it accepts public traffic only when it is complete and never before it rejects
private ranges; a complete chain exists only behind routes that were set, or lost
later (`AcceptBehindRoutes`), which needs to know what a run in progress has done
(`GuardProgress`); and a command past its restart has a locked guest
(`CoopProgress`), which needs `TimerConfigured` and `BootFirst`. For the swap,
`SwapInv` adds which chain decides: the first egress jump in `OUTPUT` leads to
a whole chain at every step, the script in progress fills and empties only the other
one, and the boot chain is not removed before an egress jump is in place. The jumps
may be any sequence, with duplicates that killed runs left, so
the argument is about the least index that decides. For the refinement, the two
invariants give the exit a simpler form (`ExitMeans`: in a locked guest public
traffic passes exactly where `OUTPUT` has an egress jump), `WayOutStays` and
`LockStays` say that only a power-off takes jump or lock away, and `PolicyInv`
adds what the mapped routes, timer and sessions need: lost routes are not routed,
no timer runs before the boot is done, and a command past its restart left an egress
jump. Then each group of steps is a step of the policy or a stutter.

**EgressGateway**, for any number of commands, deployments, installations and
faults:

- `TypeCorrect`;
- `SwitchOpensSelected` and `NeverForwardsUnguarded`, from `UnitInv`: at each step of
  the unit, what runs, what was selected and how the switch stands. They need
  no assumption on the commands;
- `InstallationsExclusive` and `InstalledRuns`, under `OneDirectory` (all
  commands take the lock of one data directory): `LockInv` says that who is past the
  lock holds it, `InstallInv` what the disk and mihomo have of a command's
  installation at each of its steps. The hypothesis is there because the lock is a
  file in the data directory and the VM is not (private_egress.rs:112-116): with two
  directories both properties fail.

**InstanceRegistry**, for any commands, projects, names and verbs:

- `TypeCorrect`;
- `SlotInvariant`, `IndexNeverShared` and the refinement `AllocationImplementsSlots`
  of `SlotTable`, for `"restore" \notin Verbs`: `set_image` writes back what `coop
  restore` read without a lock (config.rs:2727-2748), so an instance destroyed in
  between returns with an index that may be taken. `NoSharedIndex` by itself says
  nothing of a command that has chosen an index and not yet written it;
  `LockHeld` and `ChosenIsFree` make it inductive: only a holder writes a new
  `instance.json`, and what needs no lock only removes files. The refinement maps a
  slot to the identity of the instance listed with that index; `SaveInstance` is a
  `Claim`, the unlink of `instance.json` a `Free`, every other step a stutter;
- `LeavesOthersAlone`, for commands that follow each other (`OneAtATime`), killed
  anywhere: what a command holds is what the directory says (`HeldIsCurrent`);
- `EnvironmentUnique`, for the same commands, when no directory can be given a name
  of another (`OwnNamesOnly`: no name is passed with `--name`, and the names
  derived from two paths differ). Then a `workspace.json` that outlived its
  `instance.json` lies under a name of its own directory (`SpaceOfName`), which is
  the one `up` takes again. Both hypotheses are those of the run
  `registry_alone`; `registry_race` and the section on assumptions show what
  happens without them.

**FirecrackerVm**, for any PIDs, faults and number of listing commands:

- `TypeCorrect`;
- `OneVmm` (`SingleVmm` and `FindableVmm`), if one command at a time does more than
  list (`OneManager`) and `sudo` does not refuse the kill of an orphan and the
  signals of a stop (`EndsAreObeyed`). Both are assumptions of the model's run, for the
  reasons given above (vm.rs:414-448, 550-553). `VmInv`: a process is named by the
  PID file or the socket according to its age (`ProcessNamed`), one that still starts
  has a command that waits for it (`StartAwaited`), and where the manager is
  tells what it has found and ended (`ManagerKnows`);
- `OwnStopped`, for any number of commands at once, as long as the Firecracker of
  another instance does not get the PID.

**HostResources**: `HostIsKept` proves `RunningIsConnected`, `CredentialsTracked` and
`DestroyedLeavesNothing` together, for any VMs, providers, ports and faults. `HostInv` has a
part for each kind of state: what the bridge has at each step of making and
removing it (`Network`), that a port outside its master's hands is that of a master
that refused to exit (`Masters`), what a purge has still to do (`Todo`), that a child a
command has spawned is its last and not yet recorded elsewhere (`Minted`), and what
a destruction has removed so far (`Leftovers`).

`TypeCorrect` needs more than the shapes (`HostTyped`): that at most one stale rule
per fault, and one more, is ever in the filter (`RulesCounted`), and that there is a
token for each provider still to be started (`TokensLeft`). It corrected the model
twice: `HostAssumption` now says that a command line names a provider once, and the
range of `step` follows the number of providers.

**SshAccess**: `AliasesAreKept`, for any number of commands at once. The
commands share a file without a lock, so the invariant is about overlap: two busy
commands about one instance have made it odd, and so have two that hold the file;
for the others `SshInv` says that what was read is still what the file says and
what was established about the instance still holds.
That the shared connections of an earlier boot are closed (`MastersClosed`) is
inductive by itself. `TypeCorrect` rests on `SshTyped`, which adds to the types
that who talks to a master knows its port (`Asks`).

**MCParts** proves for its parts: `InstallsVerified` (SelfUpdate), `EntriesReadTheirOwn`
and `WritesAreKept` (SecretStore; the latter also CodexRelease), `ProxyKeepsCap`
(CoopProxy, for any number of requests and any cap: the permits that are held and
those that are free add up to it), `DisksStayWhole` (ImageStore),
`PrivateStaysGuarded` (LimaStore), `BootstrapFollowsConfig` (AgentBootstrap),
`GuardedWorkIsKept` (WorkspaceSync), `CodexKeepsRunning` (CodexRelease with any
number of installers and sessions; CodexAccount). They hold for any values of the
constants of `MCParts`; what the module itself fixes, its configurations of an agent
and of a proxy, the requests a guest may send and Lima's single recipe, is fixed in
the theorems as well. The slugs of the repositories are not: `EntriesReadTheirOwn` is
for any, of which any number may share an account name. `TypesHold` is for all parts
together: each has a typing of its own that is inductive beside its invariant, and
`TypedParts` joins them. For versions and sizes that takes the least and greatest
elements of finite sets (`LeastNat`, `FirstVersion`, `LastVersion`).

**MCAccess** proves for its parts: `VmmFound`, `StopIsForItsOwn`, `VmsStayConnected`,
`CredentialsStayOnRecord`, `DestroyLeavesNothing` and `AccessIsKept` from the
invariants above, and

- `KeysAreSuppressed` (GuestSession): whatever a session's environment was put
  together of, a key of a proxied provider is not in it, and the
  restricted view of private egress has no proxy variable, though the
  configuration may change between any two steps (`SessionInv`);
- `ExitIsKept` (EgressConfig): every configuration on the disk came out of
  `harden_config` (`Hardened`: its pins, whom it asks for names, what listens), and
  mihomo runs that one. For any tables that name no group `GLOBAL`, mihomo's own
  (`EgressAssumption`), and any subscriptions;
- `TokensReach` (GitHubAccess): the token in hand reads its repository once it
  was probed and all submodules once it is about to be stored (`TokenInHand`), and a
  clone has the token its URL stands for (`CloneInHand`), for any repositories,
  submodules and tokens;
- `OptionsStayInForce` (ProjectUp and Devcontainer): what a start has found out and
  done at each step (`UpAsked`, `UpDone`) adds up to what is in force of each command
  line that succeeded (`UpHeld`), and the rows of a report are those of the
  translation of one file (`Translated`), whose statuses the lemmas `SetupStatus` and
  `StartStatus` compute key by key. `DevcontainerAssumption` has what JSON gives: one
  `remoteUser` per file, and digests that are no names of other items;
- `TypesHold`: all variables of all parts keep their types, from `TypeCorrect` of
  those with a module of their own and an inductive typing of each other
  (`TypedPart`). That of Devcontainer found that a `remoteUser` has to be either
  a user or one that is refused; `DevcontainerAssumption` says so now.

The composition needs two facts per part: a step that ends in the part is a step of
the part or changes nothing of it (the lemmas named `...Alone`, `SamePart` and
`OnlyItsSteps`), and the part's own invariant is kept by its own steps
(`...PartStep`, `...PartHolds`).

### Only model-checked

- Liveness: `GuardConverges`, `RoutesRestored`, `LockWaitersServed`,
  `ServiceRecovers`, `CommandsEnd`. Liveness under fairness and `ENABLED`
  are out of the prover's reach.
- The six properties that runs show to be violated.

## Not modelled, and the plan

Left out, with the reason:

- argument definitions, help, completion and output (`lib.rs`, `completions.rs`,
  `commands/json.rs`, `prompt.rs`): no state;
- the merging and validation of the other keys of `config.toml`, the syntax of
  jsonc, toml, sizes and names: functions of one input, covered by their unit
  tests, whose TLA+ form would repeat them line by line;
- the text of install scripts, init scripts, unit files and console logs; packages,
  plugins and MCP servers of a bootstrap: linear and repeated as a whole;
- TLS, HTTP framing, Landlock and the kernel's packet filter beyond the rules coop
  writes: external, modelled by what coop relies on;
- two commands at once on one image, one bridge or one `model.json`: nothing in the
  code excludes them, and nothing promises what then happens.

Next, in this order:

1. Proofs: what remains of `SlotsKept` when `restore` is among the verbs (an index
   that two instances have had only since one of them was restored).
2. `HostResources` with two commands at once, as far as a promise of the documents
   can be found for it.
3. A repair of the gateway after a truncated transfer of mihomo or of its
   configuration (private_egress.rs:375, 664) as a liveness property of `EgressConfig`.
