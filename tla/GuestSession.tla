----------------------------- MODULE GuestSession -----------------------------
(***************************************************************************)
(* The environment of a session in a guest: the credentials, forwarded     *)
(* variables and literals that `coop shell`, `claude`, `codex` and the     *)
(* post-start hook send along, and what of them the restricted view of     *)
(* private egress lets through (prepare_session_from_target in             *)
(* src/src/commands/lifecycle.rs, prepare_env_forwarding in                *)
(* src/src/backend.rs, src/src/private_egress.rs).                         *)
(*                                                                         *)
(* A value is known by where it comes from.  The configuration is read     *)
(* when a command starts, the files of the instance when the session is    *)
(* prepared; the user changes both at any time.                            *)
(***************************************************************************)
EXTENDS Naturals, FiniteSets

CONSTANTS
  Insts,      \* names of instances
  Configs,    \* the configurations the user switches between
  Hosts,      \* what the environment of coop itself may hold
  MaxEdits    \* bound on changes of the configuration and the instances

Providers == {"anthropic", "openai"}
KeyOf(p) == IF p = "anthropic" THEN "ANTHROPIC_API_KEY" ELSE "OPENAI_API_KEY"
PROXY_ENV_NAMES == {"HTTP_PROXY"}
CODEX_LOCAL_ENV_KEY == "COOP_LOCAL_API_KEY"
OPENAI_PROXY_ACTIVE_ENV == "COOP_OPENAI_PROXY_ACTIVE"
MARK == "COOP_PRIVATE_EGRESS_ACTIVE"

\* The names a user may have in any of the lists.
Named == {"ANTHROPIC_API_KEY", "OPENAI_API_KEY", "GITHUB_TOKEN", "TZ"} \cup PROXY_ENV_NAMES
None == "none"

\* keys: claude.api_key and codex.api_key; forward: both env_forward; timezone:
\* guest_timezone; account: codex.auth = "chatgpt"; pats: repositories with an entry.
SessionAssumption ==
  /\ IsFiniteSet(Insts) /\ MaxEdits \in Nat /\ Hosts \subseteq SUBSET Named
  /\ Configs \subseteq [keys : SUBSET Providers, forward : SUBSET Named, guest_env : SUBSET Named,
                        timezone : BOOLEAN, account : BOOLEAN, proxied : SUBSET Providers,
                        egress : BOOLEAN, github : {"off", "env", "auto", "pat"}, pats : SUBSET Insts]

VARIABLES
  cfg,       \* config.toml
  host,      \* the environment coop runs in
  inst,      \* each instance: whether it runs, and what its files say
  pc,        \* the command that opens a session: idle, resolve, prepare, launch
  job,       \* its configuration, its instance and what it runs
  session,   \* the session it opened, or None
  edits
vars == <<cfg, host, inst, pc, job, session, edits>>

Kinds == {"shell", "claude", "codex", "hook"}
InstStates == [state : {"absent", "stopped", "running"}, marker : BOOLEAN, mode : {"remote", "local"},
               endpoint : BOOLEAN, override : SUBSET Providers, tokens : SUBSET Providers,
               snapshot : SUBSET Named, repo : BOOLEAN]
NewInst == [state |-> "running", marker |-> FALSE, mode |-> "remote", endpoint |-> FALSE, override |-> {},
            tokens |-> {}, snapshot |-> {}, repo |-> FALSE]
Absent == [NewInst EXCEPT !.state = "absent"]
NoJob == [cfg |-> CHOOSE c \in Configs : TRUE, name |-> None, kind |-> "shell", repo |-> FALSE]
NoSession == [i |-> None, kind |-> "shell", env |-> <<>>, proxied |-> {}, seen |-> <<>>]

TypeOK ==
  /\ cfg \in Configs /\ host \in Hosts /\ inst \in [Insts -> InstStates] /\ edits \in 0..MaxEdits
  /\ pc \in {"idle", "resolve", "prepare", "launch"}
  /\ job.cfg \in Configs /\ job.kind \in Kinds /\ job.name \in Insts \cup {None} /\ job.repo \in BOOLEAN
  /\ session.i \in Insts \cup {None} /\ session.kind \in Kinds /\ session.proxied \subseteq Providers

Init ==
  /\ cfg \in Configs /\ host \in Hosts /\ inst = [i \in Insts |-> Absent]
  /\ pc = "idle" /\ job = NoJob /\ session = NoSession /\ edits = 0
-----------------------------------------------------------------------------
(* The user *)
Edit == edits < MaxEdits /\ edits' = edits + 1 /\ UNCHANGED <<host, pc, job, session>>

EditConfig == Edit /\ cfg' \in Configs \ {cfg} /\ UNCHANGED inst

Set(i, r) == Edit /\ inst' = [inst EXCEPT ![i] = r] /\ UNCHANGED cfg

\* The proxies that are wanted write their tokens; --env adds to the snapshot.
Booted(r) ==
  {[r EXCEPT !.state = "running", !.snapshot = @ \cup names,
             !.tokens = IF r.mode = "remote" THEN cfg.proxied \cup r.override ELSE {}] : names \in {{}, Named}}

\* up; the marker is of the configuration, the repository may have no origin.
Create(i) ==
  /\ inst[i].state = "absent"
  /\ \E repo \in BOOLEAN :
       \E r \in Booted([NewInst EXCEPT !.marker = cfg.egress, !.repo = repo]) : Set(i, r)
Stop(i) == inst[i].state = "running" /\ Set(i, [inst[i] EXCEPT !.state = "stopped", !.tokens = {}])
Start(i) == inst[i].state = "stopped" /\ \E r \in Booted(inst[i]) : Set(i, r)

\* coop model and coop proxy.
SwitchModel(i) ==
  /\ inst[i].state # "absent"
  /\ \E e \in BOOLEAN :
       Set(i, [inst[i] EXCEPT !.mode = IF @ = "local" THEN "remote" ELSE "local", !.endpoint = @ \/ e])
SetOverride(i) ==
  /\ inst[i].state # "absent"
  /\ \E P \in SUBSET Providers : P # inst[i].override /\ Set(i, [inst[i] EXCEPT !.override = P])
-----------------------------------------------------------------------------
(* Which instance *)

\* load: a command has read its configuration.
Command(name, kind) ==
  /\ pc = "idle" /\ session = NoSession /\ pc' = "resolve"
  /\ job' = [cfg |-> cfg, name |-> name, kind |-> kind, repo |-> FALSE]
  /\ UNCHANGED <<cfg, host, inst, session, edits>>

Running == {i \in Insts : inst[i].state = "running"}
Refuse == pc' = "idle" /\ job' = NoJob

\* resolve_running, and detect_instance_repo of what it found.
Resolve ==
  /\ pc = "resolve" /\ UNCHANGED <<cfg, host, inst, session, edits>>
  /\ LET Found == IF job.name = None THEN Running ELSE Running \cap {job.name} IN
     IF Cardinality(Found) # 1 THEN Refuse
     ELSE \E i \in Found : pc' = "prepare" /\ job' = [job EXCEPT !.name = i, !.repo = inst[i].repo]
-----------------------------------------------------------------------------
(* Its environment *)

\* The value of a token, or None; pat-mode needs a repository with an entry.
resolve_github_token(c, i, repo) ==
  CASE c.github = "env" /\ "GITHUB_TOKEN" \in host -> "host"
    [] c.github = "auto" -> IF "GITHUB_TOKEN" \in host THEN "host" ELSE "gh"
    [] c.github = "pat" /\ repo /\ i \in c.pats -> i
    [] OTHER -> None

Suppressed(c, proxied) ==
  {KeyOf(p) : p \in proxied \cup IF c.account THEN {"openai"} ELSE {}}
    \cup IF c.egress THEN PROXY_ENV_NAMES ELSE {}

\* Of two environments the first wins; one name has a value, or is not set.
All(N, v) == [n \in N |-> v]
One(n, v) == All(IF v = None THEN {} ELSE {n}, v)
Over(e, f) == [n \in DOMAIN e \cup DOMAIN f |-> IF n \in DOMAIN e THEN e[n] ELSE f[n]]

\* Mutant of prepare_env_forwarding: only the keys themselves are kept back.
forward_unchecked(c, i, repo, out) ==
  LET keys == [n \in {KeyOf(p) : p \in Providers} \ out |-> "host"] IN
  Over(All(c.guest_env, "literal"), Over(keys, All(c.forward \cap host, "host")))

\* A timezone beats literals, literals beat keys and tokens, those what is
\* forwarded of the host.
prepare_env_forwarding(c, i, repo, out) ==
  LET keys == [n \in {KeyOf(p) : p \in {q \in Providers : q \in c.keys \/ KeyOf(q) \in host}} \ out |->
                 IF \E p \in c.keys : n = KeyOf(p) THEN "config" ELSE "host"]
      token == One("GITHUB_TOKEN", resolve_github_token(c, i, repo))
  IN Over(One("TZ", IF c.timezone THEN "managed" ELSE None),
          Over(All(c.guest_env \ out, "literal"),
               Over(keys, Over(token, All((c.forward \cap host) \ out, "host")))))

\* The VM's own upstream, or the configuration's.
effective_upstream(c, i) == c.proxied \cup inst[i].override
Proxied(c, i) == IF inst[i].mode = "remote" THEN effective_upstream(c, i) ELSE {}

\* The bearer of Codex's provider: the endpoint's, or the proxy's token.
CodexBearer(c, i) ==
  CASE inst[i].mode = "local" /\ inst[i].endpoint -> "endpoint"
    [] "openai" \in Proxied(c, i) \cap inst[i].tokens -> "capability"
    [] OTHER -> None

SessionEnv(c, i, repo) ==
  LET proxied == Proxied(c, i)
      out == Suppressed(c, proxied)
  IN Over(One(MARK, IF c.egress THEN "1" ELSE None),
       Over(One(OPENAI_PROXY_ACTIVE_ENV, IF "openai" \in proxied THEN "1" ELSE None),
         Over(One(CODEX_LOCAL_ENV_KEY, CodexBearer(c, i)),
           Over(All(inst[i].snapshot \ out, "runtime"), prepare_env_forwarding(c, i, repo, out)))))

\* ensure_instance_mode, then the environment; a command of the configuration that
\* yields a key may fail.
Prepare ==
  /\ pc = "prepare" /\ UNCHANGED <<cfg, host, inst, edits>>
  /\ \/ /\ inst[job.name].marker = job.cfg.egress
        /\ session' = [i |-> job.name, kind |-> job.kind, env |-> SessionEnv(job.cfg, job.name, job.repo),
                       proxied |-> Proxied(job.cfg, job.name), seen |-> <<>>]
        /\ pc' = "launch" /\ UNCHANGED job
     \/ Refuse /\ UNCHANGED session
-----------------------------------------------------------------------------
(* What the program sees *)

NormalizedNames == {"TZ", MARK}
Without(e, N) == [n \in DOMAIN e \ N |-> e[n]]

\* Mutant of restricted_agent_env_capsule: every agent gets Codex's bearer.
capsule_of_all(e, kind) == Without(e, NormalizedNames \cup {OPENAI_PROXY_ACTIVE_ENV})

restricted_agent_env_capsule(e, kind) ==
  Without(e, NormalizedNames \cup {OPENAI_PROXY_ACTIVE_ENV}
             \cup IF kind = "codex" THEN {} ELSE {CODEX_LOCAL_ENV_KEY})

\* dev-session decodes the capsule into an empty environment; a hook has none, and
\* coop shell is the management user's.
Launch ==
  /\ pc = "launch" /\ Refuse /\ UNCHANGED <<cfg, host, inst, edits>>
  /\ LET e == session.env IN
     session' = [session EXCEPT !.seen =
       IF MARK \notin DOMAIN e \/ job.kind = "shell" THEN e
       ELSE Over(One("TZ", "managed"),
                 IF job.kind = "hook" THEN All({}, "") ELSE restricted_agent_env_capsule(e, job.kind))]

Ends ==
  /\ pc = "idle" /\ session # NoSession /\ session' = NoSession /\ UNCHANGED <<cfg, host, inst, pc, job, edits>>

Next ==
  \/ EditConfig
  \/ \E i \in Insts : Create(i) \/ Stop(i) \/ Start(i) \/ SwitchModel(i) \/ SetOverride(i)
  \/ \E name \in Insts \cup {None}, kind \in Kinds : Command(name, kind)
  \/ Resolve \/ Prepare \/ Launch \/ Ends

Spec == Init /\ [][Next]_vars
-----------------------------------------------------------------------------
(* Properties *)

Launched == session # NoSession /\ pc = "idle"

\* The key of a provider behind the proxy, and OpenAI's with a ChatGPT account, is
\* in no environment a program sees, by whatever list it was named in; what Codex
\* then presents is a capability token or an endpoint's.
KeysStayOut ==
  session # NoSession =>
    /\ \A p \in session.proxied : KeyOf(p) \notin DOMAIN session.env
    /\ pc = "launch" /\ job.cfg.account => "OPENAI_API_KEY" \notin DOMAIN session.env
    /\ CODEX_LOCAL_ENV_KEY \in DOMAIN session.env =>
         session.env[CODEX_LOCAL_ENV_KEY] = IF session.proxied = {} THEN "endpoint" ELSE "capability"

\* In private egress no program finds a proxy variable, and only Codex its bearer.
RestrictedView ==
  Launched /\ MARK \in DOMAIN session.env =>
    /\ PROXY_ENV_NAMES \cap DOMAIN session.seen = {}
    /\ session.kind \in {"claude", "hook"} => CODEX_LOCAL_ENV_KEY \notin DOMAIN session.seen
    /\ session.kind = "hook" => DOMAIN session.seen = {"TZ"}
================================================================================
