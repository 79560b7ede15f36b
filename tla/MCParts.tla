------------------------------- MODULE MCParts -------------------------------
(***************************************************************************)
(* Nine parts of coop that share no state with each other, for TLC: one     *)
(* behaviour is a behaviour of one of them, the variables of the others    *)
(* stay None.  What two of the modules call alike (pc, job, inst, ...) is  *)
(* one variable here, each module's own when its part is the one that runs.*)
(***************************************************************************)
EXTENDS Naturals, Sequences, FiniteSets, TLC

CONSTANTS
  Images, Insts, Recipes, Default, Sizes,          \* ImageStore, LimaStore
  LimaImages, LimaFaults,                          \* LimaStore
  Versions, Bundled,                               \* SelfUpdate
  Commands, Repos, Slug, Providers, Backends, Replacing, \* SecretStore
  Requests, MAX_CONCURRENT_REQUESTS,               \* CoopProxy
  Pieces,                                          \* WorkspaceSync
  Updaters, LastRelease,                           \* CodexRelease
  Sessions, Passwords,                             \* CodexRelease, CodexAccount
  MaxFaults

None == "none"

VARIABLES
  part,   \* the part that runs
  template, tsize, mounted, leaked, tools,
  base, guarded, stamp, tmpl,
  published, coop, proxy, known, due, bg, rel, client, bundle,
  secret, mixed,
  model, vm, guest, image, proxies, todo, first, last, astray,
  phase, scoped, permits, req,
  tree, done, state, seen,
  latest, disk, current, public, running,
  account, conflict, support, setting, keyring, sure, sess,
  conf, staging, inst, pc, job, cut, faults, config, torn, lock, cfg
-----------------------------------------------------------------------------
(* The values of the constants *)
\* Two slugs that differ in where the slash is.
SlugValues == [dashed |-> <<"a", "/", "b", "-", "c">>, nested |-> <<"a", "-", "b", "/", "c">>]

\* Nothing set up; the host's Codex login; both agents by the proxy; both local; an
\* account; one local and one by the proxy, of an account; a config.toml of the host.
Bare == [proxied |-> {}, local |-> {}, account |-> FALSE, auth |-> FALSE, conf |-> FALSE]
AgentConfigs ==
  {Bare, [Bare EXCEPT !.auth = TRUE], [Bare EXCEPT !.proxied = {"claude", "codex"}, !.auth = TRUE],
   [Bare EXCEPT !.local = {"claude", "codex"}], [Bare EXCEPT !.account = TRUE],
   [Bare EXCEPT !.proxied = {"codex"}, !.local = {"claude"}, !.account = TRUE],
   [Bare EXCEPT !.conf = TRUE]}

ProxyConfigs == [listen : {"link", "unspecified"}, token : {"", "cap"}, upstream : {"api"},
                 header : {"authorization", "x-api-key"}, credential : {"real"}]
Shown ==
  {[scheme |-> s, secret |-> "cap"] : s \in {"", "Bearer", "Basic"}}
  \cup {[scheme |-> "Bearer", secret |-> ""]}
Slots == {"authorization", "x-api-key"}
ProxyRequests ==
  UNION {{[n \in S \cup {"host", "te", "accept"} |->
             IF n \in S THEN h[n] ELSE [scheme |-> "", secret |-> "guest"]] :
            h \in [S -> Shown]} : S \in SUBSET Slots}
-----------------------------------------------------------------------------
Image == INSTANCE ImageStore
Lima == INSTANCE LimaStore WITH Images <- LimaImages, Recipes <- {Default}, MaxFaults <- LimaFaults
Update == INSTANCE SelfUpdate
Secret == INSTANCE SecretStore
Agent == INSTANCE AgentBootstrap WITH Configs <- AgentConfigs
Proxy == INSTANCE CoopProxy WITH Configs <- ProxyConfigs, Incoming <- ProxyRequests
Sync == INSTANCE WorkspaceSync WITH Work <- Pieces
Codex == INSTANCE CodexRelease
Account == INSTANCE CodexAccount

ASSUME PartsAssumption ==
  /\ Image!ImageAssumption /\ Lima!LimaAssumption /\ Update!UpdateAssumption
  /\ Secret!SecretAssumption /\ Agent!BootstrapAssumption /\ Proxy!ProxyAssumption
  /\ Sync!WorkspaceAssumption /\ Codex!CodexAssumption

(* The variables only one part has *)
imagesVars == <<template, tsize, mounted, leaked, tools>>
limaVars == <<base, guarded, stamp, tmpl>>
updateVars == <<published, coop, proxy, known, due, bg, rel, client, bundle>>
secretsVars == <<secret, mixed>>
agentsVars == <<model, vm, guest, image, proxies, todo, first, last, astray>>
proxyVars == <<phase, scoped, permits, req>>
syncVars == <<tree, done, state, seen>>
codexVars == <<latest, disk, current, public, running>>
accountVars == <<account, conflict, support, setting, keyring, sure, sess>>

NoImage == template = None /\ tsize = None /\ mounted = None /\ leaked = None
  /\ tools = None
NoLima == base = None /\ guarded = None /\ stamp = None /\ tmpl = None
NoUpdate == published = None /\ coop = None /\ proxy = None /\ known = None
  /\ due = None /\ bg = None /\ rel = None /\ client = None /\ bundle = None
NoSecret == secret = None /\ mixed = None
NoAgent == model = None /\ vm = None /\ guest = None /\ image = None /\ proxies = None
  /\ todo = None /\ first = None /\ last = None /\ astray = None
NoProxy == phase = None /\ scoped = None /\ permits = None /\ req = None
NoSync == tree = None /\ done = None /\ state = None /\ seen = None
NoCodex == latest = None /\ disk = None /\ current = None /\ public = None
  /\ running = None
NoAccount == account = None /\ conflict = None /\ support = None /\ setting = None
  /\ keyring = None /\ sure = None /\ sess = None

Init ==
  \/ /\ part = "images" /\ Image!Init
     /\ NoLima /\ NoUpdate /\ NoSecret /\ NoAgent /\ NoProxy /\ NoSync /\ NoCodex
        /\ NoAccount
     /\ config = None /\ torn = None /\ lock = None /\ cfg = None
  \/ /\ part = "lima" /\ Lima!Init
     /\ NoImage /\ NoUpdate /\ NoSecret /\ NoAgent /\ NoProxy /\ NoSync /\ NoCodex
        /\ NoAccount
     /\ staging = None /\ torn = None /\ lock = None /\ cfg = None
  \/ /\ part = "update" /\ Update!Init
     /\ NoImage /\ NoLima /\ NoSecret /\ NoAgent /\ NoProxy /\ NoSync /\ NoCodex
        /\ NoAccount
     /\ conf = None /\ staging = None /\ inst = None /\ job = None /\ cut = None
        /\ config = None /\ lock = None /\ cfg = None
  \/ /\ part = "secrets" /\ Secret!Init
     /\ NoImage /\ NoLima /\ NoUpdate /\ NoAgent /\ NoProxy /\ NoSync /\ NoCodex
        /\ NoAccount
     /\ conf = None /\ staging = None /\ inst = None /\ cut = None /\ cfg = None
  \/ /\ part = "agents" /\ Agent!Init
     /\ NoImage /\ NoLima /\ NoUpdate /\ NoSecret /\ NoProxy /\ NoSync /\ NoCodex
        /\ NoAccount
     /\ conf = None /\ staging = None /\ inst = None /\ job = None /\ cut = None
        /\ config = None /\ torn = None /\ lock = None
  \/ /\ part = "proxy" /\ Proxy!Init
     /\ NoImage /\ NoLima /\ NoUpdate /\ NoSecret /\ NoAgent /\ NoSync /\ NoCodex
        /\ NoAccount
     /\ conf = None /\ staging = None /\ inst = None /\ pc = None /\ job = None
        /\ cut = None /\ faults = None /\ config = None /\ torn = None /\ lock = None
  \/ /\ part = "sync" /\ Sync!Init
     /\ NoImage /\ NoLima /\ NoUpdate /\ NoSecret /\ NoAgent /\ NoProxy /\ NoCodex
        /\ NoAccount
     /\ conf = None /\ staging = None /\ inst = None /\ cut = None /\ config = None
        /\ torn = None /\ lock = None /\ cfg = None
  \/ /\ part = "codex" /\ Codex!Init
     /\ NoImage /\ NoLima /\ NoUpdate /\ NoSecret /\ NoAgent /\ NoProxy /\ NoSync
        /\ NoAccount
     /\ conf = None /\ inst = None /\ cut = None /\ config = None /\ torn = None
        /\ cfg = None
  \/ /\ part = "account" /\ Account!Init
     /\ NoImage /\ NoLima /\ NoUpdate /\ NoSecret /\ NoAgent /\ NoProxy /\ NoSync
        /\ NoCodex
     /\ conf = None /\ staging = None /\ inst = None /\ job = None /\ cut = None
        /\ faults = None /\ config = None /\ torn = None /\ lock = None /\ cfg = None

StepImage ==
  /\ part = "images" /\ Image!Next
  /\ UNCHANGED <<part, limaVars, updateVars, secretsVars, agentsVars, proxyVars,
                 syncVars, codexVars, accountVars, config, torn, lock, cfg>>
StepLima ==
  /\ part = "lima" /\ Lima!Next
  /\ UNCHANGED <<part, imagesVars, updateVars, secretsVars, agentsVars, proxyVars,
                 syncVars, codexVars, accountVars, staging, torn, lock, cfg>>
StepUpdate ==
  /\ part = "update" /\ Update!Next
  /\ UNCHANGED <<part, imagesVars, limaVars, secretsVars, agentsVars, proxyVars,
                 syncVars, codexVars, accountVars, conf, staging, inst, job, cut,
                 config, lock, cfg>>
StepSecret ==
  /\ part = "secrets" /\ Secret!Next
  /\ UNCHANGED <<part, imagesVars, limaVars, updateVars, agentsVars, proxyVars,
                 syncVars, codexVars, accountVars, conf, staging, inst, cut, cfg>>
StepAgent ==
  /\ part = "agents" /\ Agent!Next
  /\ UNCHANGED <<part, imagesVars, limaVars, updateVars, secretsVars, proxyVars,
                 syncVars, codexVars, accountVars, conf, staging, inst, job, cut,
                 config, torn, lock>>
StepProxy ==
  /\ part = "proxy" /\ Proxy!Next
  /\ UNCHANGED <<part, imagesVars, limaVars, updateVars, secretsVars, agentsVars,
                 syncVars, codexVars, accountVars, conf, staging, inst, pc, job,
                 cut, faults, config, torn, lock>>
StepSync ==
  /\ part = "sync" /\ Sync!Next
  /\ UNCHANGED <<part, imagesVars, limaVars, updateVars, secretsVars, agentsVars,
                 proxyVars, codexVars, accountVars, conf, staging, inst, cut,
                 config, torn, lock, cfg>>
StepCodex ==
  /\ part = "codex" /\ Codex!Next
  /\ UNCHANGED <<part, imagesVars, limaVars, updateVars, secretsVars, agentsVars,
                 proxyVars, syncVars, accountVars, conf, inst, cut, config, torn,
                 cfg>>
StepAccount ==
  /\ part = "account" /\ Account!Next
  /\ UNCHANGED <<part, imagesVars, limaVars, updateVars, secretsVars, agentsVars,
                 proxyVars, syncVars, codexVars, conf, staging, inst, job, cut,
                 faults, config, torn, lock, cfg>>

Next == StepImage \/ StepLima \/ StepUpdate \/ StepSecret \/ StepAgent \/ StepProxy \/
  StepSync \/ StepCodex \/ StepAccount

vars == <<part, imagesVars, limaVars, updateVars, secretsVars, agentsVars, proxyVars,
          syncVars, codexVars, accountVars, conf, staging, inst, pc, job, cut, faults,
          config, torn, lock, cfg>>
Spec == Init /\ [][Next]_vars

Symmetry == Permutations(Images) \cup Permutations(Commands)
-----------------------------------------------------------------------------
(* The properties, each of the part it is about *)

\* Every part's variables have their types.
TypeOK ==
  /\ part = "images" => Image!TypeOK
  /\ part = "lima" => Lima!TypeOK
  /\ part = "update" => Update!TypeOK
  /\ part = "secrets" => Secret!TypeOK
  /\ part = "agents" => Agent!TypeOK
  /\ part = "proxy" => Proxy!TypeOK
  /\ part = "sync" => Sync!TypeOK
  /\ part = "codex" => Codex!TypeOK
  /\ part = "account" => Account!TypeOK

\* A setup (src/src/setup.rs) that fails or is killed takes no template away; an image
\* lacks a whole template, and an instance a whole disk of its own, only after a commit,
\* restore, resize or up that stopped in the very step that makes it, or a copy of what
\* such a one left.
ImagesWhole ==
  part = "images" => Image!TemplateWhole /\ Image!InstancesBootable

\* A VM whose marker says private egress has the guarded disk, the network of the
\* gateway and no host mounts (src/src/lima.rs), unless the marker is that of an earlier
\* instance whose destroy stopped half-way (src/src/backend.rs); the image that was
\* guarded last is of the base it is stamped with; and a failed reconfiguration leaves
\* what booted before, unless it was killed or could not put the file back.
PrivateIsGuarded ==
  part = "lima" => Lima!PrivateIsGuarded /\ Lima!StampIsOfGuard /\ Lima!SpecBooted

\* coop and coop-proxy are what was published (src/src/update.rs), and of one release
\* (replace_sibling_proxy).
InstalledIsVerified ==
  part = "update" => Update!InstalledIsVerified /\ Update!InLockstep

\* Every credential entry reads its own token, unless a command for a repository of the
\* same account name took its place in that store (src/src/secret_store.rs,
\* src/src/github_pat.rs).
EntriesResolve ==
  part = "secrets" => Secret!EntriesResolve

\* Commands that write the configuration at once lose no entry (lock_sibling), and
\* updates of Codex that run at once do not take it back to an older release
\* (src/scripts/guest/codex.sh).
NoLostWrites ==
  [][/\ part = "secrets" => Secret!WritesOwnEntry
     /\ part = "codex" => Codex!Forward]_<<config, current>>

\* After a bootstrap the agents of the guest go where the configuration says, and
\* Codex has no login of the host behind a proxy (src/src/backend.rs).
GuestFollowsConfig ==
  part = "agents" => Agent!GuestFollowsConfig /\ Agent!NoHostLogin

\* The cap on requests holds for whole responses, and only the credential leaves
\* (src/coop-proxy/src/proxy.rs).
ProxyHolds ==
  part = "proxy" => Proxy!CapHolds /\ Proxy!OnlyTheCredentialLeaves

\* A push or pull without --force loses only work its check does not look at or has
\* not seen, such as ignored files and branches that are not checked out, and with
\* --exclude-git no commit (src/src/workspace.rs).
OnlyUnguardedWorkIsLost ==
  [][part = "sync" => Sync!LosesUnguarded]_tree

\* The guest's Codex can be run and its keyring opened, whatever updates and first
\* sessions go on at once (src/scripts/guest/codex.sh, codex-account.sh).
CodexRuns ==
  /\ part = "codex" => Codex!CodexRuns
  /\ part = "account" => Account!KeyringUsable
=============================================================================
