----------------------------- MODULE AgentBootstrap -----------------------------
(***************************************************************************)
(* How Claude and Codex are set up in a guest: the routes, credentials and *)
(* keyring setting each boot and each `coop model` writes, and what coop   *)
(* remembers of them (bootstrap_agents in src/src/backend.rs, model.rs,    *)
(* model_state.rs, proxy_state.rs, lifecycle.rs).                          *)
(*                                                                         *)
(* One instance and an image its disk may be committed to and taken from.  *)
(* One command runs at a time; any step may fail and coop may be killed.   *)
(***************************************************************************)
EXTENDS Naturals

CONSTANTS
  Configs,     \* the configurations the user switches between
  MaxFaults    \* bound on failures and kills

Agents == {"claude", "codex"}

\* proxied: agents with an upstream, of the configuration or the VM's override;
\* local: agents with a local endpoint, configured or saved; account:
\* codex.auth = "chatgpt"; auth, conf: whether the host's .codex has auth.json
\* and config.toml (or MCP servers are configured).
BootstrapAssumption ==
  /\ Configs # {} /\ MaxFaults \in Nat
  /\ Configs \subseteq [proxied : SUBSET Agents, local : SUBSET Agents, account : BOOLEAN,
                        auth : BOOLEAN, conf : BOOLEAN]

VARIABLES
  cfg,      \* the configuration now
  model,    \* model.json: the mode, and what of Codex coop has written
  vm,       \* whether there is an instance and whether it runs
  guest,    \* of its disk: Claude's route, and Codex's route, keyring setting and auth.json
  image,    \* the same of the image
  proxies,  \* agents whose credential proxy and tunnel are up
  pc, todo, \* the step of the bootstrap, and the Codex files yet to be copied
  first,    \* whether it is that of a first boot
  last,     \* how the last bootstrap ended: ok, failed, or not of cfg
  astray,   \* what coop lost sight of: a disk of another VM, an unrecorded keyring
  faults
vars == <<cfg, model, vm, guest, image, proxies, pc, todo, first, last, astray, faults>>

Routes == {"cloud", "local", "proxy"}
NoModel == [mode |-> "remote", codex |-> FALSE, keyring |-> FALSE]
Fresh == [claude |-> "cloud", codex |-> "cloud", keyring |-> FALSE, auth |-> FALSE]
Disks == [claude : Routes, codex : Routes, keyring : BOOLEAN, auth : BOOLEAN]

TypeOK ==
  /\ cfg \in Configs /\ model \in [mode : {"remote", "local"}, codex : BOOLEAN, keyring : BOOLEAN]
  /\ vm \in {"none", "stopped", "running"} /\ guest \in Disks /\ image \in Disks
  /\ proxies \subseteq Agents /\ first \in BOOLEAN
  /\ pc \in {"idle", "claude", "settings", "plugins", "codex", "remember", "check", "remove",
            "stage", "copy", "keyring", "install"}
  /\ todo \subseteq {"auth", "conf"} /\ last \in {"ok", "failed", "stale"}
  /\ astray \subseteq {"disk", "keyring"} /\ faults \in 0..MaxFaults

Init ==
  /\ cfg \in Configs /\ model = NoModel /\ vm = "none" /\ guest = Fresh /\ image = Fresh
  /\ proxies = {} /\ pc = "idle" /\ todo = {} /\ first = FALSE /\ last = "stale"
  /\ astray = {} /\ faults = 0

Fault == faults < MaxFaults /\ faults' = faults + 1
Go(p) == pc' = p /\ UNCHANGED <<todo, last>>
End(how) == pc' = "idle" /\ todo' = {} /\ last' = how
Idle == pc = "idle"

Proxied(a) == model.mode = "remote" /\ a \in cfg.proxied
Local(a) == model.mode = "local" /\ a \in cfg.local

\* claude_local_env and codex_provider_table.
Route(a) ==
  CASE Local(a) -> "local" [] Proxied(a) /\ a \in proxies -> "proxy" [] OTHER -> "cloud"

\* An error under an agent's guard takes its proxy down.
FailTo(a) == Fault /\ End("failed") /\ proxies' = proxies \ {a}
-----------------------------------------------------------------------------
(* Commands *)

EditConfig ==
  /\ Idle /\ cfg' \in Configs \ {cfg} /\ last' = "stale"
  /\ UNCHANGED <<model, vm, guest, image, proxies, pc, todo, first, astray, faults>>

\* The bootstrap, or none with --no-agents.
Begin(isFirst) ==
  /\ first' = isFirst
  /\ Go("claude") \/ (pc' = "idle" /\ last' = "stale" /\ UNCHANGED todo)

\* start_instance: the disk comes of the image, the state of the instance is new.
Up ==
  /\ Idle /\ vm = "none" /\ vm' = "running" /\ guest' = image /\ model' = NoModel
  /\ astray' = (IF image.codex # "cloud" \/ image.keyring THEN {"disk"} ELSE {})
  /\ Begin(TRUE)
  /\ UNCHANGED <<cfg, image, proxies, faults>>

\* restart_instance.
Start ==
  /\ Idle /\ vm = "stopped" /\ vm' = "running"
  /\ Begin(FALSE)
  /\ UNCHANGED <<cfg, model, guest, image, proxies, astray, faults>>

\* cmd_stop.
Stop ==
  /\ Idle /\ vm = "running" /\ vm' = "stopped" /\ proxies' = {} /\ last' = "stale"
  /\ UNCHANGED <<cfg, model, guest, image, pc, todo, first, astray, faults>>

Destroy ==
  /\ Idle /\ vm # "none" /\ vm' = "none" /\ proxies' = {} /\ last' = "stale"
  /\ model' = NoModel /\ guest' = Fresh /\ astray' = {} /\ first' = FALSE
  /\ UNCHANGED <<cfg, image, pc, todo, faults>>

Commit ==
  /\ Idle /\ vm = "stopped" /\ image' = guest
  /\ UNCHANGED <<cfg, model, vm, guest, proxies, pc, todo, first, last, astray, faults>>

\* cmd_restore: model.json stays as it is.
Restore ==
  /\ Idle /\ vm = "stopped" /\ guest' = image /\ astray' = astray \cup {"disk"}
  /\ UNCHANGED <<cfg, model, vm, image, proxies, pc, todo, first, last, faults>>

\* set_local needs an endpoint; apply_to_running writes to a running VM what
\* the next start writes to a stopped one.
SwitchModel(m) ==
  /\ Idle /\ vm # "none"
  /\ m = "local" => cfg.local # {}
  /\ \/ /\ model' = [model EXCEPT !.mode = m, !.codex = @ \/ (m = "local" /\ "codex" \in cfg.local)]
        /\ first' = FALSE /\ UNCHANGED faults
        /\ IF vm = "running" THEN Go("claude") ELSE UNCHANGED <<pc, todo, last>>
     \/ Fault /\ UNCHANGED <<model, first, pc, todo, last>>
  /\ UNCHANGED <<cfg, vm, guest, image, proxies, astray>>
-----------------------------------------------------------------------------
(* bootstrap_claude *)

\* GitHub's login, the check for the CLI and CLAUDE.md; then start_agent_proxy,
\* which takes down a proxy that is no longer wanted.
ProxyClaude ==
  /\ pc = "claude"
  /\ \/ /\ proxies' = IF Proxied("claude") THEN proxies \cup {"claude"} ELSE proxies \ {"claude"}
        /\ Go("settings") /\ UNCHANGED faults
     \/ Fault /\ End("failed") /\ proxies' \in {proxies, proxies \ {"claude"}}
  /\ UNCHANGED <<cfg, model, vm, guest, image, first, astray>>

\* write_managed_claude_settings and seed_claude_onboarding.
WriteSettings ==
  /\ pc = "settings"
  /\ \/ /\ guest' = [guest EXCEPT !.claude = Route("claude")]
        /\ Go(IF first THEN "plugins" ELSE "codex") /\ UNCHANGED <<proxies, faults>>
     \/ FailTo("claude") /\ UNCHANGED guest
  /\ UNCHANGED <<cfg, model, vm, image, first, astray>>

InstallPlugins ==
  /\ pc = "plugins"
  /\ \/ Go("codex") /\ UNCHANGED <<proxies, faults>>
     \/ FailTo("claude")
  /\ UNCHANGED <<cfg, model, vm, guest, image, first, astray>>
-----------------------------------------------------------------------------
(* bootstrap_codex *)

\* ensure_codex_remote_auth_consistent: a per-VM proxy and an account exclude
\* each other; the error leaves Claude's proxy as it is.
Conflict == cfg.account /\ Proxied("codex")

ProxyCodex ==
  /\ pc = "codex"
  /\ \/ /\ ~Conflict /\ Go("remember") /\ UNCHANGED faults
        /\ proxies' = IF Proxied("codex") THEN proxies \cup {"codex"} ELSE proxies \ {"codex"}
     \/ Conflict /\ End("failed") /\ UNCHANGED <<proxies, faults>>
     \/ Fault /\ End("failed") /\ proxies' \in {proxies, proxies \ {"codex"}}
  /\ UNCHANGED <<cfg, model, vm, guest, image, first, astray>>

\* Mutant of Remember: only the local mode is remembered, as by set_local.
RememberLocal ==
  /\ pc = "remember" /\ Go("check")
  /\ UNCHANGED <<cfg, model, vm, guest, image, proxies, first, astray, faults>>

\* codex_materialized is saved before the block is written.
Remember ==
  /\ pc = "remember"
  /\ \/ /\ model' = [model EXCEPT !.codex = @ \/ Route("codex") # "cloud"]
        /\ Go("check") /\ UNCHANGED <<proxies, faults>>
     \/ Route("codex") # "cloud" /\ ~model.codex /\ FailTo("codex") /\ UNCHANGED model
  /\ UNCHANGED <<cfg, vm, guest, image, first, astray>>

ManagesLocal == Route("codex") # "cloud" \/ "codex" \in cfg.local \/ model.codex
NeedsRewrite == cfg.conf \/ ManagesLocal \/ cfg.account \/ model.keyring
NeedsCodex == NeedsRewrite \/ cfg.auth

\* needs_codex, then the checks for the CLI and Secret Service.
CheckCodex ==
  /\ pc = "check"
  /\ \/ ~NeedsCodex /\ End("ok") /\ UNCHANGED <<proxies, faults>>
     \/ NeedsCodex /\ Go("remove") /\ UNCHANGED <<proxies, faults>>
     \/ NeedsCodex /\ FailTo("codex")
  /\ UNCHANGED <<cfg, model, vm, guest, image, first, astray>>

\* Mutant of RemoveAuth: what is not copied need not be removed.
RemoveNothing ==
  /\ pc = "remove" /\ Go("stage")
  /\ UNCHANGED <<cfg, model, vm, guest, image, proxies, first, astray, faults>>

\* copy_codex_config first removes auth.json if there is a proxy.
RemoveAuth ==
  /\ pc = "remove"
  /\ \/ /\ guest' = [guest EXCEPT !.auth = @ /\ "codex" \notin proxies]
        /\ Go("stage") /\ UNCHANGED <<proxies, faults>>
     \/ "codex" \in proxies /\ FailTo("codex") /\ UNCHANGED guest
  /\ UNCHANGED <<cfg, model, vm, image, first, astray>>

\* stage_codex_files by codex_allowed_files.
StageFiles ==
  /\ pc = "stage" /\ pc' = "copy" /\ UNCHANGED last
  /\ todo' = (IF cfg.auth /\ "codex" \notin proxies /\ ~cfg.account THEN {"auth"} ELSE {})
             \cup (IF NeedsRewrite THEN {"conf"} ELSE {})
  /\ UNCHANGED <<cfg, model, vm, guest, image, proxies, first, astray, faults>>

\* copy_staged_to_guest, in the order of the directory; it deletes nothing.
CopyFile ==
  /\ pc = "copy" /\ todo # {}
  /\ \/ \E f \in todo :
          /\ todo' = todo \ {f} /\ UNCHANGED <<pc, last, proxies, faults>>
          /\ guest' = IF f = "auth" THEN [guest EXCEPT !.auth = TRUE]
                      ELSE [guest EXCEPT !.codex = Route("codex"), !.keyring = cfg.account]
          /\ astray' = IF f = "conf" THEN {} ELSE astray
     \/ /\ FailTo("codex") /\ UNCHANGED guest
        /\ astray' = astray \cup (IF guest.keyring # model.keyring THEN {"keyring"} ELSE {})
  /\ UNCHANGED <<cfg, model, vm, image, first>>

\* codex_keyring_materialized is saved after the copy; then, for an account,
\* auth.json is removed if that can be.
RecordKeyring ==
  /\ pc = "copy" /\ todo = {}
  /\ \/ /\ model' = [model EXCEPT !.keyring = cfg.account]
        /\ Go("keyring") /\ UNCHANGED <<proxies, astray, faults>>
     \/ /\ model.keyring # cfg.account /\ FailTo("codex") /\ UNCHANGED model
        /\ astray' = astray \cup {"keyring"}
  /\ UNCHANGED <<cfg, vm, guest, image, first>>

RemoveAccountAuth ==
  /\ pc = "keyring"
  /\ IF first THEN Go("install") ELSE End("ok")
  /\ \/ guest' = [guest EXCEPT !.auth = @ /\ ~cfg.account] /\ UNCHANGED faults
     \/ cfg.account /\ Fault /\ UNCHANGED guest
  /\ UNCHANGED <<cfg, model, vm, image, proxies, first, astray>>

InstallCodexPlugins ==
  /\ pc = "install"
  /\ \/ End("ok") /\ UNCHANGED <<proxies, faults>>
     \/ FailTo("codex")
  /\ UNCHANGED <<cfg, model, vm, guest, image, first, astray>>

\* Proxies outlive a command that is killed.
Kill ==
  /\ ~Idle /\ Fault /\ End("failed")
  /\ astray' = astray \cup
       (IF pc = "copy" /\ guest.keyring # model.keyring THEN {"keyring"} ELSE {})
  /\ UNCHANGED <<cfg, model, vm, guest, image, proxies, first>>

Next ==
  \/ EditConfig \/ Up \/ Start \/ Stop \/ Destroy \/ Commit \/ Restore
  \/ \E m \in {"remote", "local"} : SwitchModel(m)
  \/ ProxyClaude \/ WriteSettings \/ InstallPlugins
  \/ ProxyCodex \/ Remember \/ CheckCodex \/ RemoveAuth \/ StageFiles \/ CopyFile
  \/ RecordKeyring \/ RemoveAccountAuth \/ InstallCodexPlugins \/ Kill

Spec == Init /\ [][Next]_vars
-----------------------------------------------------------------------------
Settled == Idle /\ vm = "running" /\ last = "ok"

\* However the mode, the proxies and the account were switched before and
\* whatever failed: after a bootstrap that succeeded both agents go where the
\* configuration now says, by a proxy that is up, with the keyring if and only if
\* Codex uses an account.  Only a disk of another VM, or a keyring setting that was
\* written and not recorded, can leave something behind that coop does not know of.
GuestFollowsConfig ==
  Settled =>
    /\ \A a \in Agents : Proxied(a) => a \in proxies
    /\ guest.claude = Route("claude")
    /\ "disk" \notin astray => guest.codex = Route("codex")
    /\ astray = {} => guest.keyring = cfg.account

\* In a VM set up for the credential proxy Codex has no auth.json, even if an
\* earlier boot, or the image, put the host's there.
NoHostLogin ==
  Settled /\ Proxied("codex") => ~guest.auth
=============================================================================
