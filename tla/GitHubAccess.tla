----------------------------- MODULE GitHubAccess -----------------------------
(***************************************************************************)
(* What GitHub credential a guest gets to see: the wizard that has the     *)
(* user make a fine-grained token wide enough for a repository and its     *)
(* submodules, and the clone of `coop up --git-repo` that uses it          *)
(* (src/src/{github_pat,github_submodules,github_repo}.rs, backend.rs).    *)
(*                                                                         *)
(* Where a token is kept and how the configuration file is written is the  *)
(* subject of SecretStore; here storing one is a single step.  A request   *)
(* may fail, a public repository may not be confirmed as public, the user  *)
(* may paste any token at any prompt.                                      *)
(***************************************************************************)
EXTENDS Naturals, Sequences

CONSTANTS
  Slugs,      \* the owner/repo pairs there are
  Modules,    \* what .gitmodules of each lists: a set of urls
  RepoArgs,   \* what `--repo` is given
  CloneUrls,  \* what `--git-repo` is given
  Origins,    \* origin of the directory the user is in
  Tokens,     \* GitHub tokens
  Scope,      \* the repositories each was made for
  Dead,       \* tokens that were revoked or have expired
  Worlds,     \* [gh, env: the host's tokens, public: the repositories anyone reads]
  MaxFaults   \* bound on requests that fail

None == "none"
Nowhere == <<>>   \* no slug
Forms == {"https", "http", "ssh", "scp", "userinfo", "elsewhere", "relative"}

\* A URL is its form, the "../" it starts with and the path after the host; a ".git"
\* and a slash at the end are gone.
AccessAssumption ==
  /\ \A r \in Slugs : Len(r) = 2
  /\ RepoArgs \subseteq Slugs
  /\ Modules \in [Slugs -> SUBSET [form : Forms, up : 0..3, path : Seq(STRING)]]
  /\ Scope \in [Tokens -> SUBSET Slugs] /\ Dead \subseteq Tokens /\ MaxFaults \in Nat
  /\ \A w \in Worlds : {w.gh, w.env} \subseteq Tokens \cup {None} /\ w.public \subseteq Slugs

VARIABLES
  world,    \* the host's credentials, the public repositories, the origin of its directory
  config,   \* github.mode and the entries of [github.pat]
  known,    \* the private submodules under the same owner the wizard of each entry found
  pc, job,  \* the step of the command at work, and what it has read
  guest,    \* the token the guest is given for a clone
  faults
vars == <<world, config, known, pc, job, guest, faults>>

Discoveries == [known : BOOLEAN, same : SUBSET Slugs, cross : SUBSET Slugs]
Unknown == [known |-> FALSE, same |-> {}, cross |-> {}]
Maybe == Tokens \cup {None}
NoJob == [repo |-> Nowhere, url |-> [form |-> None, up |-> 0, path |-> Nowhere],
          token |-> None, pre |-> Unknown]

TypeOK ==
  /\ world \in [gh : Maybe, env : Maybe, public : SUBSET Slugs, origin : Origins]
  /\ config \in [mode : {"off", "auto", "pat"}, entry : [Slugs -> Maybe]]
  /\ known \in [Slugs -> SUBSET Slugs] /\ guest \in Maybe /\ faults \in 0..MaxFaults
  /\ pc \in {"idle", "prefetch", "paste", "probe", "discover", "cover", "widen", "store",
             "resolve", "clone", "cloned", "rejected"}
  /\ job.repo \in Slugs \cup {Nowhere} /\ job.token \in Maybe /\ job.pre \in Discoveries

Init ==
  /\ world \in {[gh |-> w.gh, env |-> w.env, public |-> w.public, origin |-> o] : w \in Worlds, o \in Origins}
  /\ config \in {[mode |-> m, entry |-> [r \in Slugs |-> None]] : m \in {"off", "auto"}}
  /\ known = [r \in Slugs |-> {}] /\ pc = "idle" /\ job = NoJob /\ guest = None /\ faults = 0

Fault == faults < MaxFaults /\ faults' = faults + 1
End == pc' = "idle" /\ job' = NoJob
-----------------------------------------------------------------------------
(* Repositories and URLs *)

\* RepoSlug::new: an owner and a repository, of the characters GitHub allows.
RepoSlug_new(path) == IF path \in Slugs THEN path ELSE Nowhere

GITHUB_URL_PREFIXES == {"https", "http", "ssh", "scp"}

parse_repo_slug_from_url(u) ==
  IF u.form \in GITHUB_URL_PREFIXES THEN RepoSlug_new(u.path) ELSE Nowhere

\* The URL of `origin`, when the directory is a repository and has one.
detect_workspace_repo(o) == parse_repo_slug_from_url(o)

\* --repo, or else the directory's.
resolve_target_repo(arg) == IF arg # Nowhere THEN arg ELSE detect_workspace_repo(world.origin)

is_github_https_url(u) == u.form = "https"

is_relative(u) == u.form = "relative"

\* A relative URL walks up the parent's path; "./" is a walk of no step.
resolve_url(parent, u) ==
  [form |-> IF ~is_relative(u) THEN u.form ELSE IF u.up > 2 THEN "elsewhere" ELSE "https", up |-> 0,
   path |-> IF is_relative(u) /\ u.up <= 2 THEN SubSeq(parent, 1, 2 - u.up) \o u.path ELSE u.path]

\* The slugs the submodules lead to; the parent itself needs no second look.
Targets(parent, urls) ==
  {parse_repo_slug_from_url(resolve_url(parent, u)) : u \in urls} \ {Nowhere, parent}

\* By owner: one token reaches the repositories of one resource owner only.
classify_urls(parent, urls) ==
  [known |-> TRUE,
   same |-> {r \in Targets(parent, urls) : r[1] = parent[1]},
   cross |-> {r \in Targets(parent, urls) : r[1] # parent[1]}]

drop_public(d, seen) == [d EXCEPT !.same = @ \ seen, !.cross = @ \ seen]
-----------------------------------------------------------------------------
(* Requests *)

\* GET with a token: what it was made for, and what is public anyway.
Reads(t, r) == t \notin Dead /\ (r \in world.public \/ (t # None /\ r \in Scope[t]))

\* GET without one, for each slug; any answer but 200 is "not public".
is_public_repo_anonymous(seen) ==
  /\ seen \subseteq world.public
  /\ IF seen = world.public THEN UNCHANGED faults ELSE Fault

probe_user_login(t) == t \notin Dead

\* GET /repos/{repo}: anything but 200 is a ProbeError.
probe_repo(t, r) == Reads(t, r)

\* .gitmodules through the API: 404 is both "no such file" and "no such repository".
Listed(t, r) == IF Reads(t, r) THEN Modules[r] ELSE {}

discover_submodule_repos(t, r) == classify_urls(r, Listed(t, r))

probe_same_owner_coverage(t, expected) == {r \in expected : ~Reads(t, r)}
-----------------------------------------------------------------------------
(* The wizard: run_setup_pat *)

Setup(arg) ==
  /\ pc = "idle" /\ resolve_target_repo(arg) # Nowhere
  /\ pc' = "prefetch" /\ job' = [NoJob EXCEPT !.repo = resolve_target_repo(arg)]
  /\ UNCHANGED <<world, config, known, guest, faults>>

\* The token `gh auth token` has, then no token.
Attempts == {t \in {world.gh} : t \notin Dead \cup {None}} \cup {None}

\* prefetch_submodules: the first answer counts; without one the pasted token asks again.
prefetch_submodules ==
  /\ pc = "prefetch" /\ pc' = "paste"
  /\ \/ \E t \in Attempts, seen \in SUBSET world.public :
          /\ t = None /\ Attempts # {None} => seen = world.public
          /\ job' = [job EXCEPT !.pre = drop_public(discover_submodule_repos(t, job.repo), seen)]
          /\ IF t = None /\ Attempts # {None} THEN Fault ELSE is_public_repo_anonymous(seen)
     \/ Fault /\ UNCHANGED job
  /\ UNCHANGED <<world, config, known, guest>>

\* What the form tells the user to select.
build_form_instructions(r, d) == {r} \cup d.same

\* read_token_no_echo: a token, or nothing, which ends the wizard.
Paste(t) ==
  /\ pc = "paste"
  /\ IF t = None THEN End ELSE pc' = "probe" /\ job' = [job EXCEPT !.token = t]
  /\ UNCHANGED <<world, config, known, guest, faults>>

\* probe_user, probe_repo.
Validated(t, r) == probe_user_login(t) /\ probe_repo(t, r)

Probe ==
  /\ pc = "probe"
  /\ \/ /\ Validated(job.token, job.repo) /\ UNCHANGED <<job, faults>>
        /\ pc' = IF job.pre.known THEN "cover" ELSE "discover"
     \/ ~Validated(job.token, job.repo) /\ End /\ UNCHANGED faults
     \/ Fault /\ End
  /\ UNCHANGED <<world, config, known, guest>>

\* discover_from_pasted_token: an unexpected status is "no submodules", a request that
\* was not answered ends the wizard.
discover_from_pasted_token ==
  /\ pc = "discover"
  /\ \/ /\ pc' = "cover"
        /\ \/ \E seen \in SUBSET world.public :
                /\ is_public_repo_anonymous(seen)
                /\ job' = [job EXCEPT !.pre =
                             drop_public(discover_submodule_repos(job.token, job.repo), seen)]
           \/ Fault /\ job' = [job EXCEPT !.pre = [Unknown EXCEPT !.known = TRUE]]
     \/ Fault /\ End
  /\ UNCHANGED <<world, config, known, guest>>

\* handle_submodules, one round: the token is kept once it reaches them all.
handle_submodules ==
  /\ pc = "cover"
  /\ \/ /\ pc' = IF probe_same_owner_coverage(job.token, job.pre.same) = {} THEN "store" ELSE "widen"
        /\ UNCHANGED <<job, faults>>
     \/ job.pre.same # {} /\ Fault /\ End
  /\ UNCHANGED <<world, config, known, guest>>

\* Mutant of Widen: the widened token is only asked for what the first one missed.
WidenUnchecked(t) ==
  /\ pc = "widen"
  /\ IF t # None /\ probe_user_login(t) THEN pc' = "cover" /\ job' = [job EXCEPT !.token = t] ELSE End
  /\ UNCHANGED <<world, config, known, guest, faults>>

\* The next paste, which has to reach the parent still.
Widen(t) ==
  /\ pc = "widen"
  /\ \/ /\ t # None /\ Validated(t, job.repo) /\ UNCHANGED faults
        /\ pc' = "cover" /\ job' = [job EXCEPT !.token = t]
     \/ (t = None \/ ~Validated(t, job.repo)) /\ End /\ UNCHANGED faults
     \/ Fault /\ End
  /\ UNCHANGED <<world, config, known, guest>>

\* pick_backend, store_secret and upsert_pat_entry; a choice out of range ends the wizard.
Store ==
  /\ pc = "store" /\ End
  /\ \/ /\ config' = [mode |-> "pat", entry |-> [config.entry EXCEPT ![job.repo] = job.token]]
        /\ known' = [known EXCEPT ![job.repo] = job.pre.same]
     \/ UNCHANGED <<config, known>>
  /\ UNCHANGED <<world, guest, faults>>
-----------------------------------------------------------------------------
(* The clone: clone_git_repo *)

\* `coop up --git-repo`, once its VM answers.
Up(u) ==
  /\ pc = "idle" /\ pc' = "resolve" /\ job' = [NoJob EXCEPT !.url = u]
  /\ UNCHANGED <<world, config, known, guest, faults>>

\* The repository whose entry the clone is to use; Nowhere for the host's token.
clone_pat_slug(u) ==
  LET r == parse_repo_slug_from_url(u)
  IN  IF config.mode = "pat" /\ r # Nowhere /\ config.entry[r] # None THEN r ELSE Nowhere

\* host_github_token, select_host_token: gh's, then $GITHUB_TOKEN.
host_github_token == IF world.gh # None THEN world.gh ELSE world.env

\* The clone goes on with this token.
With(t) == pc' = "clone" /\ job' = [job EXCEPT !.token = t]

\* Mutant of resolve_clone_token: when the entry's command fails, the host's token will do.
resolve_clone_token_or_host(r) ==
  \/ With(IF r = Nowhere THEN host_github_token ELSE config.entry[r]) /\ UNCHANGED faults
  \/ r # Nowhere /\ Fault /\ With(host_github_token)

\* An entry whose command fails fails the clone.
resolve_clone_token(r) ==
  \/ With(IF r = Nowhere THEN host_github_token ELSE config.entry[r]) /\ UNCHANGED faults
  \/ r # Nowhere /\ Fault /\ End

Resolve ==
  /\ pc = "resolve"
  /\ IF is_github_https_url(job.url) THEN resolve_clone_token(clone_pat_slug(job.url))
     ELSE pc' = "clone" /\ UNCHANGED <<job, faults>>
  /\ UNCHANGED <<world, config, known, guest>>

\* clone_with_token hands the token to a helper on stdin, clone_without_auth has none;
\* git asks the helper only when GitHub refuses it without.
Clone ==
  /\ pc = "clone" /\ guest' = job.token
  /\ LET r == parse_repo_slug_from_url(job.url) IN
     \/ /\ pc' = IF r # Nowhere /\ ~(r \in world.public \/ Reads(job.token, r)) THEN "rejected" ELSE "cloned"
        /\ UNCHANGED faults
     \/ Fault /\ pc' = "rejected"
  /\ UNCHANGED <<world, config, known, job>>

\* The helper, its environment and the command are gone.
Cloned ==
  /\ pc \in {"cloned", "rejected"} /\ End /\ guest' = None
  /\ UNCHANGED <<world, config, known, faults>>

Next ==
  \/ \E r \in RepoArgs \cup {Nowhere} : Setup(r)
  \/ \E t \in Maybe : Paste(t) \/ Widen(t)
  \/ \E u \in CloneUrls : Up(u)
  \/ prefetch_submodules \/ Probe \/ discover_from_pasted_token \/ handle_submodules \/ Store
  \/ Resolve \/ Clone \/ Cloned

Spec == Init /\ [][Next]_vars
-----------------------------------------------------------------------------
\* A token the wizard kept reads its repository and every submodule the form asked
\* for, though the user pasted several and only the last one counts.
EntriesReach ==
  \A r \in Slugs :
    config.entry[r] # None
      => \A s \in build_form_instructions(r, [Unknown EXCEPT !.same = known[r]]) : Reads(config.entry[r], s)

\* The guest never sees a token other than the one made for the repository, once there is
\* one, and no token for a host that is not github.com over https; a clone a live entry
\* is there for is not rejected unless a request failed.
CloneIsScoped ==
  /\ guest # None => is_github_https_url(job.url)
  /\ pc \in {"cloned", "rejected"} /\ is_github_https_url(job.url) /\ clone_pat_slug(job.url) # Nowhere
       => /\ guest = config.entry[clone_pat_slug(job.url)]
          /\ faults = 0 => pc = "cloned"

\* Both: what the wizard promises of a token, and what the clone makes of it.
TokensFit == EntriesReach /\ CloneIsScoped
=============================================================================
