------------------------------ MODULE SecretStore ------------------------------
(***************************************************************************)
(* GitHub tokens and proxy credentials: the wizards `coop github ...-pat`  *)
(* and `coop proxy setup`, the offer `coop up` makes, and what of them     *)
(* lands in the secret stores and in the configuration file                *)
(* (src/src/{github_pat,pat_prompt,secret_store}.rs, commands/proxy.rs).   *)
(*                                                                         *)
(* Commands run side by side, each for another credential.  A step of one  *)
(* may fail, and a command may be killed between two.                      *)
(***************************************************************************)
EXTENDS Naturals, Sequences

CONSTANTS
  Commands,    \* commands at work at once
  Repos,       \* GitHub repositories
  Slug,        \* the owner/repo slug of each, a sequence
  Providers,   \* providers with a proxy credential of their own
  Backends,    \* the secret stores of this host
  Replacing,   \* those that replace a token in one step: the keychain, Secret Service
  MaxFaults    \* bound on failures and kills

Keys == Repos \cup Providers
None == "none"

SecretAssumption ==
  /\ Repos \cap Providers = {} /\ Replacing \subseteq Backends /\ MaxFaults \in Nat
  /\ None \notin Commands \cup Keys \cup Backends

\* AccountName::from_repo: owner/a-b and owner-a/b have one name.
from_repo(slug) == [i \in DOMAIN slug |-> IF slug[i] = "/" THEN "-" ELSE slug[i]]

\* What a credential is stored under: SERVICE and the name, or the service of a
\* provider and its name.
Account(k) == IF k \in Repos THEN <<"coop-github-pat", from_repo(Slug[k])>> ELSE <<"provider", <<k>> >>
Accounts == {Account(k) : k \in Keys}

VARIABLES
  config,   \* the configuration file: github.mode, where each credential is, and github.skip
  secret,   \* whose token each backend has under each account
  mixed,    \* backends and credentials whose token one of another credential
            \* replaced or removed there
  lock,     \* the command that holds the flock next to the configuration
  pc, job,  \* the step of each command, and what it does
  torn,     \* credentials a command was stopped in the middle of
  faults
vars == <<config, secret, mixed, lock, pc, job, torn, faults>>

Docs == [mode : {"off", "env", "pat"}, entry : [Keys -> Backends \cup {None}], skip : SUBSET Repos]
NoDoc == [mode |-> "off", entry |-> [k \in Keys |-> None], skip |-> {}]
NoJob == [verb |-> None, key |-> None, backend |-> None, doc |-> NoDoc]

TypeOK ==
  /\ config \in Docs /\ secret \in [Backends -> [Accounts -> Keys \cup {None}]]
  /\ mixed \subseteq Backends \X Keys /\ lock \in Commands \cup {None}
  /\ pc \in [Commands -> {"idle", "ask", "clear", "put", "delete", "lock", "read", "write"}]
  /\ job \in [Commands -> [verb : {None, "prompt", "setup", "forget", "never"},
                           key : Keys \cup {None}, backend : Backends \cup {None}, doc : Docs]]
  /\ torn \subseteq Keys /\ faults \in 0..MaxFaults

Init ==
  /\ config \in {[NoDoc EXCEPT !.mode = m] : m \in {"off", "env"}}
  /\ secret = [b \in Backends |-> [a \in Accounts |-> None]] /\ mixed = {}
  /\ lock = None /\ pc = [c \in Commands |-> "idle"] /\ job = [c \in Commands |-> NoJob]
  /\ torn = {} /\ faults = 0

Go(c, p) == pc' = [pc EXCEPT ![c] = p]
End(c) == Go(c, "idle") /\ job' = [job EXCEPT ![c] = NoJob]
Fault == faults < MaxFaults /\ faults' = faults + 1
At(k) == {c \in Commands : job[c].key = k}
Begin(c, p, j) == pc[c] = "idle" /\ At(j.key) = {} /\ Go(c, p) /\ job' = [job EXCEPT ![c] = j]
\* A write for k to a backend: whatever is there under the account name goes.
Put(b, k, v) ==
  /\ secret' = [secret EXCEPT ![b][Account(k)] = v]
  /\ mixed' = (mixed \cup {<<b, secret[b][Account(k)]>>}) \ {<<b, k>>, <<b, None>>}
-----------------------------------------------------------------------------
(* Commands *)

\* run_setup_pat, run_rotate_pat, whose probes of the token passed; the backend is
\* picked of those that are available.
SetUp(c, k, b) ==
  /\ k \in Repos /\ Begin(c, "clear", [NoJob EXCEPT !.verb = "setup", !.key = k, !.backend = b])
  /\ UNCHANGED <<config, secret, mixed, lock, torn, faults>>

\* run_setup of the credential proxy, for a provider; a VM's own credential is in
\* another store name and its proxy.json.
SetUpProvider(c, p, b) ==
  /\ p \in Providers /\ Begin(c, "clear", [NoJob EXCEPT !.verb = "setup", !.key = p, !.backend = b])
  /\ UNCHANGED <<config, secret, mixed, lock, torn, faults>>

\* run_forget_pat: an entry is needed, its command tells the backend.
Forget(c, k) ==
  /\ config.entry[k] # None
  /\ Begin(c, "delete", [NoJob EXCEPT !.verb = "forget", !.key = k, !.backend = config.entry[k]])
  /\ UNCHANGED <<config, secret, mixed, lock, torn, faults>>

\* Decision::resolve at a terminal: what the user chose or declined is not asked again.
Offered(k) ==
  /\ config.mode \in {"off", "pat"}
  /\ config.mode = "pat" => k \notin config.skip /\ config.entry[k] = None

\* maybe_prompt, by the configuration the command read when it started.
Prompt(c, k) ==
  /\ Offered(k)
  /\ Begin(c, "ask", [NoJob EXCEPT !.verb = "prompt", !.key = k])
  /\ UNCHANGED <<config, secret, mixed, lock, torn, faults>>

\* "y" runs the wizard, "never" leaves a marker, anything else nothing.
Answer(c) ==
  /\ pc[c] = "ask"
  /\ \/ /\ Go(c, "clear")
        /\ \E b \in Backends : job' = [job EXCEPT ![c].verb = "setup", ![c].backend = b]
     \/ Go(c, "lock") /\ job' = [job EXCEPT ![c].verb = "never"]
     \/ End(c)
  /\ UNCHANGED <<config, secret, mixed, lock, torn, faults>>
-----------------------------------------------------------------------------
(* The secret store *)

\* store_file truncates, store_onepassword archives the item of the same title;
\* the system's own stores replace in one step.
ClearSecret(c) ==
  /\ pc[c] = "clear"
  /\ \/ /\ Go(c, "put") /\ UNCHANGED <<job, faults>>
        /\ IF job[c].backend \in Replacing THEN UNCHANGED <<secret, mixed>>
           ELSE Put(job[c].backend, job[c].key, None)
     \/ Fault /\ End(c) /\ UNCHANGED <<secret, mixed>>
  /\ UNCHANGED <<config, lock, torn>>

\* Mutant of PutSecret: an `op item create` that failed is not noticed.
PutSecretUnchecked(c) ==
  /\ pc[c] = "put" /\ Go(c, "lock") /\ UNCHANGED <<config, lock, job, torn>>
  /\ \/ Put(job[c].backend, job[c].key, job[c].key) /\ UNCHANGED faults
     \/ Fault /\ UNCHANGED <<secret, mixed>>

\* The token goes in; when it does not, what was cleared stays so.
PutSecret(c) ==
  /\ pc[c] = "put"
  /\ \/ /\ Put(job[c].backend, job[c].key, job[c].key)
        /\ Go(c, "lock") /\ UNCHANGED <<job, torn, faults>>
     \/ /\ Fault /\ End(c) /\ UNCHANGED <<secret, mixed>>
        /\ torn' = IF job[c].backend \in Replacing THEN torn ELSE torn \cup {job[c].key}
  /\ UNCHANGED <<config, lock>>

\* delete_secret: one that fails is a warning.
DeleteSecret(c) ==
  /\ pc[c] = "delete" /\ Go(c, "lock")
  /\ \/ Put(job[c].backend, job[c].key, None) /\ UNCHANGED faults
     \/ Fault /\ UNCHANGED <<secret, mixed>>
  /\ UNCHANGED <<config, lock, job, torn>>
-----------------------------------------------------------------------------
(* The configuration file: upsert_pat_entry, remove_pat_entry, add_skip_marker *)
(* and upsert_proxy_entry *)

\* Mutant of Acquire: the flock is tried, and its failure passed over.
AcquireOrNot(c) ==
  /\ pc[c] = "lock" /\ lock' = (IF lock = None THEN c ELSE lock) /\ Go(c, "read")
  /\ UNCHANGED <<config, secret, mixed, job, torn, faults>>

\* lock_sibling waits for the lock.
Acquire(c) ==
  /\ pc[c] = "lock" /\ lock = None /\ lock' = c /\ Go(c, "read")
  /\ UNCHANGED <<config, secret, mixed, job, torn, faults>>

ReadDoc(c) ==
  /\ pc[c] = "read" /\ Go(c, "write")
  /\ job' = [job EXCEPT ![c].doc = config]
  /\ UNCHANGED <<config, secret, mixed, lock, torn, faults>>

\* A proxy credential leaves [github] alone.
upsert_proxy_entry(doc, j) == [doc EXCEPT !.entry[j.key] = j.backend]

\* What a command makes of the document.
Edited(doc, j) ==
  CASE j.verb = "forget" -> [doc EXCEPT !.entry[j.key] = None]
    [] j.verb = "never" -> [doc EXCEPT !.mode = "pat", !.skip = @ \cup {j.key}]
    [] j.verb \notin {"forget", "never"} /\ j.key \in Providers -> upsert_proxy_entry(doc, j)
    [] OTHER -> [doc EXCEPT !.mode = "pat", !.entry[j.key] = j.backend, !.skip = @ \ {j.key}]

\* atomic_write_with_mode; the lock goes with the command's file descriptor.
WriteDoc(c) ==
  /\ pc[c] = "write" /\ End(c)
  /\ lock' = (IF lock = c THEN None ELSE lock)
  /\ \/ /\ config' = Edited(job[c].doc, job[c])
        /\ torn' = torn \ {job[c].key} /\ UNCHANGED faults
     \/ /\ Fault /\ UNCHANGED config
        /\ torn' = IF job[c].verb = "forget" THEN torn \cup {job[c].key} ELSE torn
  /\ UNCHANGED <<secret, mixed>>

Kill(c) ==
  /\ pc[c] # "idle" /\ Fault /\ End(c)
  /\ lock' = (IF lock = c THEN None ELSE lock)
  /\ torn' = IF \/ pc[c] = "put" /\ job[c].backend \notin Replacing
                \/ job[c].verb = "forget" /\ pc[c] # "delete"
             THEN torn \cup {job[c].key} ELSE torn
  /\ UNCHANGED <<config, secret, mixed>>

Next ==
  \E c \in Commands :
    \/ \E k \in Keys, b \in Backends : SetUp(c, k, b) \/ SetUpProvider(c, k, b)
    \/ \E k \in Repos : Forget(c, k) \/ Prompt(c, k)
    \/ Answer(c) \/ ClearSecret(c) \/ PutSecret(c) \/ DeleteSecret(c)
    \/ Acquire(c) \/ ReadDoc(c) \/ WriteDoc(c) \/ Kill(c)

Spec == Init /\ [][Next]_vars
-----------------------------------------------------------------------------
\* Every entry of the configuration that no command is busy with reads its own
\* token from the store it names, whatever failed or was rotated to another store.
\* Only a command stopped after it cleared the token leaves an entry without one, and
\* only a command for another repository of the same account name takes the token
\* from an entry.
EntriesResolve ==
  /\ \A k \in Keys :
       LET b == config.entry[k] IN
       b # None /\ k \notin torn /\ At(k) = {} /\ <<b, k>> \notin mixed
         => secret[b][Account(k)] = k
  /\ \A b \in Backends, k \in Keys :
       <<b, k>> \in mixed => \E l \in Keys \ {k} : Account(l) = Account(k)

\* An entry changes in the write of a command that is about it.
WritesOwnEntry ==
  \A k \in Keys :
    \/ config.entry[k] # config'.entry[k]
    \/ (k \in config.skip) # (k \in config'.skip)
    => \E c \in At(k) : pc[c] = "write" /\ pc'[c] = "idle"

\* Commands that write the configuration at the same time lose no write of
\* another: an entry or a skip marker changes only when a command for it writes.
NoLostWrites ==
  [][WritesOwnEntry]_config
=============================================================================
