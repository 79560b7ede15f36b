----------------------------- MODULE MCPartsProofs -----------------------------
(***************************************************************************)
(* What is proved of the parts in MCParts, for the composition: a step of  *)
(* the whole is a step of one part, and stutters on the others.            *)
(***************************************************************************)
EXTENDS MCParts, Sequences, FiniteSetTheorems, WellFoundedInduction, TLAPS

\* A step of another part changes nothing of this one, and none changes the part.
LEMMA SamePart == [Next]_vars => part' = part
BY DEF Next, vars, StepImage, StepLima, StepUpdate, StepSecret, StepAgent, StepProxy,
   StepSync, StepCodex, StepAccount

LEMMA OnlyItsSteps ==
  ASSUME [Next]_vars
  PROVE  \/ UNCHANGED vars
         \/ part = "images" /\ StepImage
         \/ part = "lima" /\ StepLima
         \/ part = "update" /\ StepUpdate
         \/ part = "secrets" /\ StepSecret
         \/ part = "agents" /\ StepAgent
         \/ part = "proxy" /\ StepProxy
         \/ part = "sync" /\ StepSync
         \/ part = "codex" /\ StepCodex
         \/ part = "account" /\ StepAccount
BY DEF Next, StepImage, StepLima, StepUpdate, StepSecret, StepAgent, StepProxy,
   StepSync, StepCodex, StepAccount
-----------------------------------------------------------------------------
(* Self-update *)

WithGh == client \in {"old gh", "new gh"}

\* What each step of an update has established for the next ones.
UpdateInv ==
  /\ Update!InstalledIsVerified
  /\ pc \in {"provenance", "attest", "proxy", "coop"} => rel.sound
  /\ pc = "attest" => (bundle = "skip" => ~WithGh) /\ bundle # "empty"
  /\ pc \in {"proxy", "coop"} /\ WithGh => rel.attested
  /\ pc = "coop" /\ rel.ver \in Bundled => proxy.ver = rel.ver
  /\ pc # "coop" /\ ~torn /\ coop.ver \in Bundled => proxy.ver = coop.ver

LEMMA UpdateInit == Update!Init => UpdateInv
<1>1. Update!Binary(Update!NoRel, "no gh").genuine
  <2>1. Update!NoRel.sound
    BY DEF Update!NoRel
  <2>. QED
    BY <2>1, Zenon DEF Update!Binary
<1>2. Update!Init => /\ coop = Update!Binary(Update!NoRel, "no gh")
                     /\ proxy = Update!Binary(Update!NoRel, "no gh")
                     /\ pc = "idle"
  BY DEF Update!Init
<1>. QED
  BY <1>1, <1>2 DEF UpdateInv, Update!InstalledIsVerified

\* What an update writes is verified when its release is.
LEMMA NewBinaryIsVerified ==
  ASSUME rel.sound, WithGh => rel.attested
  PROVE  Update!Binary(rel, client).genuine /\ Update!Binary(rel, client).ver = rel.ver
BY Zenon DEF Update!Binary, WithGh

LEMMA UpdateStep == UpdateInv /\ [Update!Next]_(Update!vars) => UpdateInv'
<1> SUFFICES ASSUME UpdateInv, [Update!Next]_(Update!vars) PROVE UpdateInv'
  OBVIOUS
<1> USE DEF UpdateInv, Update!InstalledIsVerified, WithGh
<1>1. CASE Update!Publish \/ Update!IntervalElapses \/ Update!StartCheck \/ Update!EndCheck
  BY <1>1 DEF Update!Publish, Update!IntervalElapses, Update!StartCheck, Update!EndCheck
<1>2. ASSUME NEW r, NEW c, NEW f, NEW p, Update!Run(r, c, f, p)
      PROVE  UpdateInv'
  BY <1>2 DEF Update!Run
<1>3. CASE Update!Download \/ Update!VerifySum
  BY <1>3 DEF Update!Download, Update!VerifySum, Update!Go, Update!Abort
<1>4. CASE Update!ResolveProvenance
  BY <1>4 DEF Update!ResolveProvenance, Update!Provenance
<1>5. CASE Update!VerifyAttestation
  BY <1>5 DEF Update!VerifyAttestation, Update!Attested, Update!Go, Update!Abort
<1>6. CASE Update!ReplaceProxy
  BY <1>6, NewBinaryIsVerified DEF Update!ReplaceProxy, Update!Go, Update!Abort
<1>7. CASE Update!ReplaceSelf
  BY <1>7, NewBinaryIsVerified DEF Update!ReplaceSelf, Update!Go, Update!Abort
<1>8. CASE Update!Persist \/ Update!Kill
  BY <1>8 DEF Update!Persist, Update!Kill, Update!Abort
<1>9. CASE UNCHANGED Update!vars
  BY <1>9 DEF Update!vars
<1>. QED
  BY <1>1, <1>2, <1>3, <1>4, <1>5, <1>6, <1>7, <1>8, <1>9 DEF Update!Next

UpdatePart == part = "update" => UpdateInv

LEMMA UpdateAlone ==
  ASSUME [Next]_vars, part = "update"
  PROVE  [Update!Next]_(Update!vars)
BY OnlyItsSteps DEF StepUpdate, vars, updateVars, Update!vars

LEMMA UpdatePartHolds == Spec => []UpdatePart
<1>1. Init => UpdatePart
  BY UpdateInit DEF Init, UpdatePart
<1>2. UpdatePart /\ [Next]_vars => UpdatePart'
  BY SamePart, UpdateAlone, UpdateStep DEF UpdatePart
<1>. QED
  BY <1>1, <1>2, PTL DEF Spec

\* coop and coop-proxy are what was published and verified, and of one release unless an
\* update was cut between them (src/src/update.rs).
THEOREM InstallsVerified == Spec => []InstalledIsVerified
<1>1. UpdatePart => InstalledIsVerified
  BY DEF UpdatePart, InstalledIsVerified, UpdateInv, Update!InLockstep
<1>. QED
  BY <1>1, UpdatePartHolds, PTL
-----------------------------------------------------------------------------
(* Codex with an account *)

\* The keyring is made with a password that was typed twice.
AccountInv ==
  /\ DOMAIN pc = Sessions /\ DOMAIN sess = Sessions
  /\ \A s \in Sessions : DOMAIN sess[s] = {"tty", "dbus", "unlocked", "typed", "open"}
  /\ Account!KeyringUsable
  /\ \A s \in Sessions : pc[s] = "unlock" => keyring # None \/ sess[s].typed \in sure

LEMMA AccountInit == Account!Init => AccountInv
BY DEF Account!Init, AccountInv, Account!KeyringUsable, Account!NoSession, Account!None, None

LEMMA AccountStep ==
  ASSUME AccountInv, [Account!Next]_(Account!vars)
  PROVE  AccountInv'
<1> USE DEF AccountInv, Account!KeyringUsable, Account!Go, Account!Step,
    Account!Learn, Account!Die, Account!NoSession, Account!Config, Account!None, None
<1>1. CASE UNCHANGED Account!vars
  BY <1>1 DEF Account!vars
<1>2. CASE Account!ChangeSetting \/ Account!Switch
  BY <1>2 DEF Account!ChangeSetting, Account!Switch
<1>3. ASSUME NEW s \in Sessions,
             \/ Account!CoopCodex(s) \/ Account!GuestCodex(s) \/ Account!Nested(s)
      PROVE  AccountInv'
  BY <1>3 DEF Account!CoopCodex, Account!GuestCodex, Account!Nested
<1>4. ASSUME NEW s \in Sessions,
             Account!keyring_mode(s) \/ Account!SessionBus(s) \/ Account!CheckTools(s)
      PROVE  AccountInv'
  BY <1>4 DEF Account!keyring_mode, Account!SessionBus, Account!CheckTools
<1>5. ASSUME NEW s \in Sessions, Account!Prompt(s) \/ Account!Confirm(s)
      PROVE  AccountInv'
  BY <1>5 DEF Account!Prompt, Account!Confirm
<1>6. ASSUME NEW s \in Sessions, Account!Unlock(s)
      PROVE  AccountInv'
  BY <1>6 DEF Account!Unlock
<1>7. ASSUME NEW s \in Sessions, Account!Probe(s) \/ Account!Exit(s)
      PROVE  AccountInv'
  BY <1>7 DEF Account!Probe, Account!Exit
<1>. QED
  BY <1>1, <1>2, <1>3, <1>4, <1>5, <1>6, <1>7 DEF Account!Next
-----------------------------------------------------------------------------
(* The Codex package *)

CodexShape ==
  /\ DOMAIN disk = Codex!Releases /\ DOMAIN running = Sessions
  /\ DOMAIN pc = Updaters /\ DOMAIN job = Updaters
  /\ \A u \in Updaters :
       /\ DOMAIN job[u] = {"sum", "got", "previous", "keep", "todo", "rel"}
       /\ job[u].sum \in 0..LastRelease /\ job[u].todo \subseteq Codex!Releases
       /\ job[u].rel \in 0..LastRelease
  /\ \A s \in Sessions : running[s] \in 0..LastRelease
  /\ latest \in Codex!Releases /\ current \in 0..LastRelease

\* An installer that has taken the lock.
Holds(u) ==
  \/ pc[u] \in {"sums", "archive", "clean", "stage", "unpack", "old", "move", "activate",
                "verify", "gc", "remove"}
  \/ pc[u] \in {"helper", "codex"} /\ ~job[u].keep

CodexLocked ==
  \A u \in Updaters :
    /\ Holds(u) => lock = u
    /\ Holds(u) \/ pc[u] = "lock" => ~job[u].keep

\* What an installer knows of the release it installs, and of the one it removes.
CodexKnown ==
  \A u \in Updaters :
    /\ pc[u] \in {"archive", "clean", "stage", "unpack", "old", "move", "activate"} =>
         1 <= job[u].sum /\ current <= job[u].sum /\ job[u].sum <= latest
    /\ pc[u] \in {"stage", "unpack", "old", "move"} => ~Codex!Safe(job[u].sum)
    /\ pc[u] = "activate" => Codex!Safe(job[u].sum)
    /\ Holds(u) /\ pc[u] \in {"helper", "codex", "verify", "gc", "remove"} => current = job[u].sum
    /\ pc[u] \in {"helper", "codex", "verify", "gc", "remove"} => current # 0
    /\ pc[u] = "codex" => "helper" \in public
    /\ pc[u] \in {"gc", "remove"} => job[u].sum \notin job[u].todo
    /\ pc[u] = "remove" => job[u].rel # 0 /\ disk[job[u].rel] = "part"

CodexInv ==
  CodexShape /\ CodexLocked /\ CodexKnown /\ Codex!CodexRuns /\ current <= latest

LEMMA CodexInit == Codex!Init => CodexInv
BY PartsAssumption
DEF Codex!CodexAssumption, Codex!Init, Codex!NoJob, Codex!Releases, Codex!CodexRuns,
    CodexInv, CodexShape, CodexLocked, CodexKnown, Holds

LEMMA CodexStep ==
  ASSUME CodexInv, [Codex!Next]_(Codex!vars)
  PROVE  CodexInv' /\ Codex!Forward
<1> DEFINE Done == CodexInv' /\ Codex!Forward
<1> USE PartsAssumption DEF Codex!CodexAssumption, CodexInv, CodexShape, CodexLocked,
    CodexKnown, Holds, Codex!Releases, Codex!CodexRuns, Codex!Safe, Codex!Forward,
    Codex!Go, Codex!Step, Codex!Work, Codex!NoJob, Codex!Package
<1>1. CASE UNCHANGED Codex!vars
  BY <1>1 DEF Codex!vars
<1>2. CASE Codex!Publish
  BY <1>2 DEF Codex!Publish
<1>3. ASSUME NEW s \in Sessions, Codex!Launch(s) \/ Codex!Exit(s)
      PROVE  Done
  BY <1>3 DEF Codex!Launch, Codex!Exit
<1>4. ASSUME NEW u \in Updaters, NEW keep \in BOOLEAN, Codex!Begin(u, keep)
      PROVE  Done
  BY <1>4 DEF Codex!Begin
<1>5. ASSUME NEW u \in Updaters, Codex!CheckInstalled(u)
      PROVE  Done
  <2>1. CASE Codex!Safe(current)
    <3>1. /\ pc' = [pc EXCEPT ![u] = "helper"]
          /\ job' = [job EXCEPT ![u] = [job[u] EXCEPT !.keep = TRUE]]
      BY <1>5, <2>1, Zenon DEF Codex!CheckInstalled
    <3>. QED
      BY <1>5, <2>1, <3>1 DEF Codex!CheckInstalled
  <2>2. CASE ~Codex!Safe(current)
    <3>1. /\ pc' = [pc EXCEPT ![u] = "lock"]
          /\ job' = [job EXCEPT ![u] = [job[u] EXCEPT !.keep = FALSE]]
      BY <1>5, <2>2, Zenon DEF Codex!CheckInstalled
    <3>. QED
      BY <1>5, <2>2, <3>1 DEF Codex!CheckInstalled
  <2>. QED
    BY <2>1, <2>2
<1>6. ASSUME NEW u \in Updaters, Codex!Acquire(u)
      PROVE  Done
  BY <1>6 DEF Codex!Acquire
<1>7. ASSUME NEW u \in Updaters, Codex!FetchSums(u) \/ Codex!FetchArchive(u)
      PROVE  Done
  <2>1. CASE Codex!FetchSums(u)
    BY <2>1 DEF Codex!FetchSums
  <2>2. CASE Codex!FetchArchive(u)
    BY <2>2 DEF Codex!FetchArchive
  <2>. QED
    BY <1>7, <2>1, <2>2
<1>8. ASSUME NEW u \in Updaters,
             Codex!CleanStaging(u) \/ Codex!MakeStaging(u) \/ Codex!Unpack(u)
      PROVE  Done
  <2>1. CASE Codex!CleanStaging(u)
    BY <2>1 DEF Codex!CleanStaging
  <2>2. CASE Codex!MakeStaging(u) \/ Codex!Unpack(u)
    BY <2>2 DEF Codex!MakeStaging, Codex!Unpack
  <2>. QED
    BY <1>8, <2>1, <2>2
<1>9. ASSUME NEW u \in Updaters, Codex!RemoveOld(u)
      PROVE  Done
  BY <1>9 DEF Codex!RemoveOld
<1>10. ASSUME NEW u \in Updaters, Codex!MoveIn(u)
      PROVE  Done
  BY <1>10 DEF Codex!MoveIn
<1>11. ASSUME NEW u \in Updaters, Codex!Activate(u)
      PROVE  Done
  BY <1>11 DEF Codex!Activate
<1>12. ASSUME NEW u \in Updaters, Codex!LinkHelper(u) \/ Codex!LinkCodex(u)
      PROVE  Done
  BY <1>12 DEF Codex!LinkHelper, Codex!LinkCodex
<1>13. ASSUME NEW u \in Updaters, Codex!Verify(u)
      PROVE  Done
  BY <1>13 DEF Codex!Verify
<1>14. ASSUME NEW u \in Updaters, Codex!Collect(u)
      PROVE  Done
  BY <1>14 DEF Codex!Collect, Codex!codex_release_has_live_executable
<1>15. ASSUME NEW u \in Updaters, Codex!Remove(u)
      PROVE  Done
  BY <1>15 DEF Codex!Remove
<1>16. ASSUME NEW u \in Updaters, Codex!Release(u) \/ Codex!Stops(u)
      PROVE  Done
  <2>1. CASE Codex!Release(u)
    BY <2>1 DEF Codex!Release
  <2>2. CASE Codex!Stops(u)
    BY <2>2 DEF Codex!Stops
  <2>. QED
    BY <1>16, <2>1, <2>2
<1>. QED
  BY <1>1, <1>2, <1>3, <1>4, <1>5, <1>6, <1>7, <1>8, <1>9, <1>10, <1>11, <1>12, <1>13,
     <1>14, <1>15, <1>16
  DEF Codex!Next

CodexPart == part = "codex" => CodexInv
AccountPart == part = "account" => AccountInv

LEMMA CodexAlone ==
  ASSUME [Next]_vars
  PROVE  /\ part = "codex" => [Codex!Next]_(Codex!vars)
         /\ part = "account" => [Account!Next]_(Account!vars)
BY OnlyItsSteps DEF StepCodex, StepAccount, vars, codexVars, accountVars, Codex!vars,
   Account!vars

LEMMA CodexPartHolds == Spec => [](CodexPart /\ AccountPart)
<1>1. Init => CodexPart /\ AccountPart
  BY CodexInit, AccountInit DEF Init, CodexPart, AccountPart
<1>2. CodexPart /\ AccountPart /\ [Next]_vars => CodexPart' /\ AccountPart'
  BY SamePart, CodexAlone, CodexStep, AccountStep DEF CodexPart, AccountPart
<1>. QED
  BY <1>1, <1>2, PTL DEF Spec

\* Once installed, the guest's Codex can be run and what runs stays on the disk, and its
\* keyring opens with a password that was typed twice, for any number of installers and
\* sessions at once (src/scripts/guest/codex.sh, codex-account.sh).
THEOREM CodexKeepsRunning == Spec => []CodexRuns
<1>1. CodexPart /\ AccountPart => CodexRuns
  BY DEF CodexPart, AccountPart, CodexRuns, CodexInv, AccountInv
<1>. QED
  BY <1>1, CodexPartHolds, PTL
-----------------------------------------------------------------------------
(* Tokens and the secret stores *)

SecretShape ==
  /\ DOMAIN config = {"mode", "entry", "skip"}
  /\ config.entry \in [Secret!Keys -> Backends \cup {None}] /\ config.skip \subseteq Repos
  /\ DOMAIN secret = Backends
  /\ \A b \in Backends : DOMAIN secret[b] = Secret!Accounts
  /\ DOMAIN pc = Commands /\ DOMAIN job = Commands
  /\ \A c \in Commands :
       /\ DOMAIN job[c] = {"verb", "key", "backend", "doc"}
       /\ pc[c] \in {"idle", "ask", "clear", "put", "delete", "lock", "read", "write"}

\* What is in a store under an account name is of a credential with that name, and a
\* token was replaced only by one of the same name.
SecretNamed ==
  /\ \A b \in Backends, a \in Secret!Accounts :
       secret[b][a] # None => secret[b][a] \in Secret!Keys /\ Secret!Account(secret[b][a]) = a
  /\ \A b \in Backends, k \in Secret!Keys :
       <<b, k>> \in mixed => \E l \in Secret!Keys \ {k} : Secret!Account(l) = Secret!Account(k)

\* The token is there, but for one of the same account name.
HeldIn(store, lost, b, k) == store[b][Secret!Account(k)] = k \/ <<b, k>> \in lost
Held(b, k) == HeldIn(secret, mixed, b, k)

\* A credential is one command's at a time, and the lock is its holder's.
SecretOwned ==
  /\ \A c, d \in Commands : job[c].key = job[d].key /\ job[c].key # None => c = d
  /\ \A c \in Commands :
       /\ pc[c] = "idle" => job[c].key = None
       /\ pc[c] # "idle" => job[c].key \in Secret!Keys
       /\ pc[c] \in {"read", "write"} => lock = c
       /\ pc[c] = "write" => job[c].doc = config

\* Before the first token, no repository has an entry.
NoEntryYet == config.mode # "pat" => \A k \in Repos : config.entry[k] = None

\* What a command's credential is at each step.
SecretSteps ==
  \A c \in Commands :
    /\ pc[c] = "ask" => job[c].verb = "prompt"
    /\ pc[c] \in {"clear", "put"} => job[c].verb = "setup" /\ job[c].backend \in Backends
    /\ pc[c] = "delete" => job[c].verb = "forget" /\ job[c].backend \in Backends
    /\ pc[c] \in {"lock", "read", "write"} =>
         /\ job[c].verb \in {"setup", "forget", "never"}
         /\ job[c].verb = "setup" =>
              job[c].backend \in Backends /\ Held(job[c].backend, job[c].key)
    /\ job[c].verb = "forget" => job[c].key \in Repos
    /\ pc[c] = "ask" \/ job[c].verb = "never" =>
         job[c].key \in Repos /\ config.entry[job[c].key] = None

\* Whether a command has left the token its entry names in place so far.
Intact(c) ==
  \/ pc[c] \in {"ask", "clear", "delete"}
  \/ pc[c] = "put" /\ (job[c].backend \in Replacing \/ config.entry[job[c].key] # job[c].backend)
  \/ pc[c] \in {"lock", "read", "write"} /\ job[c].verb # "forget"

Resolves(k) ==
  config.entry[k] # None /\ k \notin torn => Held(config.entry[k], k)

SecretResolves ==
  \A k \in Secret!Keys :
    (\A c \in Commands : job[c].key = k => Intact(c)) => Resolves(k)

SecretInv ==
  SecretShape /\ SecretNamed /\ SecretOwned /\ NoEntryYet /\ SecretSteps /\ SecretResolves

LEMMA SecretInit == Secret!Init => SecretInv
<1> SUFFICES ASSUME Secret!Init PROVE SecretInv
  OBVIOUS
<1> USE DEF Secret!None, None
<1>1. /\ \A c \in Commands : pc[c] = "idle" /\ job[c] = Secret!NoJob
      /\ DOMAIN pc = Commands /\ DOMAIN job = Commands
  BY DEF Secret!Init
<1>2. /\ DOMAIN config = {"mode", "entry", "skip"} /\ config.skip = {}
      /\ config.entry = [k \in Secret!Keys |-> None]
  BY DEF Secret!Init, Secret!NoDoc
<1>3. SecretShape
  BY <1>1, <1>2 DEF SecretShape, Secret!Init, Secret!NoJob
<1>4. SecretOwned /\ SecretSteps
  BY <1>1 DEF SecretOwned, SecretSteps, Secret!NoJob
<1>6. SecretNamed
  BY DEF SecretNamed, Secret!Init
<1>5. NoEntryYet /\ SecretResolves
  BY <1>2 DEF NoEntryYet, SecretResolves, Resolves, Secret!Keys
<1>. QED
  BY <1>3, <1>4, <1>5, <1>6 DEF SecretInv

\* A step to the secret store of one credential leaves the others' tokens, but for one of
\* the same account name.
LEMMA PutOne ==
  ASSUME SecretShape, SecretNamed, NEW b \in Backends, NEW k \in Secret!Keys, NEW v \in {k, None},
         Secret!Put(b, k, v)
  PROVE  /\ DOMAIN secret' = Backends
         /\ \A x \in Backends : DOMAIN secret'[x] = Secret!Accounts
         /\ SecretNamed'
         /\ v = k => Held(b, k)'
         /\ \A x \in Backends, l \in Secret!Keys : (x # b \/ l # k) /\ Held(x, l) => Held(x, l)'
<1> DEFINE a == Secret!Account(k)
           old == secret[b][a]
<1> USE DEF Secret!None, None
<1>1. a \in Secret!Accounts /\ \A l \in Secret!Keys : Secret!Account(l) \in Secret!Accounts
  BY DEF Secret!Accounts
<1>2. secret' = [secret EXCEPT ![b][a] = v]
      /\ mixed' = (mixed \cup {<<b, old>>}) \ {<<b, k>>, <<b, None>>}
  BY DEF Secret!Put
<1>3. /\ DOMAIN secret' = Backends /\ \A x \in Backends : DOMAIN secret'[x] = Secret!Accounts
      /\ secret'[b][a] = v
      /\ \A x \in Backends, c \in Secret!Accounts : x # b \/ c # a => secret'[x][c] = secret[x][c]
  BY <1>1, <1>2 DEF SecretShape
<1>4. None \notin Secret!Keys
  BY PartsAssumption DEF Secret!SecretAssumption
<1> HIDE DEF a
<1>5. SecretNamed'
  <2>1. ASSUME NEW x \in Backends, NEW c \in Secret!Accounts, secret'[x][c] # None
        PROVE  secret'[x][c] \in Secret!Keys /\ Secret!Account(secret'[x][c]) = c
    <3>1. CASE x = b /\ c = a
      BY <1>3, <2>1, <3>1 DEF a
    <3>2. CASE x # b \/ c # a
      BY <1>3, <2>1, <3>2 DEF SecretNamed
    <3>. QED
      BY <3>1, <3>2
  <2>2. ASSUME NEW x \in Backends, NEW l \in Secret!Keys, <<x, l>> \in mixed'
        PROVE  \E m \in Secret!Keys \ {l} : Secret!Account(m) = Secret!Account(l)
    <3>1. CASE <<x, l>> \in mixed
      BY <3>1 DEF SecretNamed
    <3>2. CASE <<x, l>> \notin mixed
      <4>1. x = b /\ l = old /\ l # k /\ old # None
        BY <1>2, <1>4, <2>2, <3>2
      <4>2. Secret!Account(l) = a
        BY <1>1, <4>1 DEF SecretNamed
      <4>. QED
        BY <4>1, <4>2 DEF a
    <3>. QED
      BY <3>1, <3>2
  <2>. QED
    BY <2>1, <2>2 DEF SecretNamed
<1>6. v = k => Held(b, k)'
  BY <1>3 DEF Held, HeldIn, a
<1>7. ASSUME NEW x \in Backends, NEW l \in Secret!Keys, x # b \/ l # k, Held(x, l)
      PROVE  Held(x, l)'
  <2>1. <<x, l>> # <<b, k>> /\ <<x, l>> # <<b, None>>
    BY <1>4, <1>7
  <2>2. CASE <<x, l>> \in mixed
    BY <1>2, <2>1, <2>2 DEF Held, HeldIn
  <2>3. CASE <<x, l>> \notin mixed /\ x = b /\ Secret!Account(l) = a
    <3>1. old = l
      BY <1>7, <2>3 DEF Held, HeldIn
    <3>. QED
      BY <1>2, <2>1, <2>3, <3>1 DEF Held, HeldIn
  <2>4. CASE <<x, l>> \notin mixed /\ (x # b \/ Secret!Account(l) # a)
    BY <1>1, <1>3, <1>7, <2>4 DEF Held, HeldIn
  <2>. QED
    BY <2>2, <2>3, <2>4
<1>. QED
  BY <1>3, <1>5, <1>6, <1>7

\* What a write changes of the document: the entry and the marker of its credential.
LEMMA EditedOne ==
  ASSUME NEW doc, DOMAIN doc = {"mode", "entry", "skip"},
         doc.entry \in [Secret!Keys -> Backends \cup {None}], doc.skip \subseteq Repos,
         NEW j, j.key \in Secret!Keys, j.verb \in {"setup", "forget", "never"},
         j.verb = "setup" => j.backend \in Backends,
         j.verb \in {"forget", "never"} => j.key \in Repos
  PROVE  LET new == Secret!Edited(doc, j) IN
         /\ DOMAIN new = {"mode", "entry", "skip"}
         /\ new.entry \in [Secret!Keys -> Backends \cup {None}] /\ new.skip \subseteq Repos
         /\ \A l \in Secret!Keys : l # j.key =>
              new.entry[l] = doc.entry[l] /\ (l \in new.skip <=> l \in doc.skip)
         /\ new.entry[j.key] = IF j.verb = "forget" THEN None
                               ELSE IF j.verb = "never" THEN doc.entry[j.key] ELSE j.backend
         /\ new.mode = "pat" \/ (new.mode = doc.mode /\ (j.verb = "forget" \/ j.key \in Providers))
<1> USE DEF Secret!Edited, Secret!upsert_proxy_entry, Secret!None, None
<1>. Repos \cap Providers = {}
  BY PartsAssumption DEF Secret!SecretAssumption
<1>1. CASE j.verb = "forget"
  <2>1. Secret!Edited(doc, j) = [doc EXCEPT !.entry[j.key] = None]
    BY <1>1
  <2>. QED
    BY <1>1, <2>1
<1>2. CASE j.verb = "never"
  <2>1. Secret!Edited(doc, j) = [doc EXCEPT !.mode = "pat", !.skip = @ \cup {j.key}]
    BY <1>2
  <2>. QED
    BY <1>2, <2>1
<1>3. CASE j.verb = "setup" /\ j.key \in Providers
  BY <1>3
<1>4. CASE j.verb = "setup" /\ j.key \notin Providers
  <2>1. j.key \in Repos
    BY <1>4 DEF Secret!Keys
  <2>. QED
    BY <1>4, <2>1
<1>. QED
  BY <1>1, <1>2, <1>3, <1>4

LEMMA SecretStep ==
  ASSUME SecretInv, [Secret!Next]_(Secret!vars)
  PROVE  SecretInv' /\ Secret!WritesOwnEntry
<1> DEFINE Done == SecretInv' /\ Secret!WritesOwnEntry
<1> USE DEF SecretInv, SecretShape, SecretOwned, NoEntryYet, SecretSteps, SecretResolves,
    SecretNamed, Held, HeldIn, Intact, Resolves, Secret!Go, Secret!End, Secret!At, Secret!NoJob,
    Secret!None, None
<1>0. /\ Replacing \subseteq Backends
      /\ None \notin Commands \cup Secret!Keys \cup Backends
      /\ Repos \subseteq Secret!Keys /\ Providers \subseteq Secret!Keys
  BY PartsAssumption DEF Secret!SecretAssumption, Secret!Keys
<1>1. CASE UNCHANGED Secret!vars
  BY <1>1 DEF Secret!vars, Secret!WritesOwnEntry
<1>2. ASSUME NEW c \in Commands, NEW k \in Secret!Keys, NEW b \in Backends,
             Secret!SetUp(c, k, b) \/ Secret!SetUpProvider(c, k, b)
      PROVE  Done
  <2>1. /\ pc[c] = "idle" /\ \A d \in Commands : job[d].key # k
        /\ pc' = [pc EXCEPT ![c] = "clear"]
        /\ job' = [job EXCEPT ![c] = [Secret!NoJob EXCEPT !.verb = "setup", !.key = k, !.backend = b]]
        /\ UNCHANGED <<config, secret, mixed, lock, torn>>
    BY <1>2 DEF Secret!SetUp, Secret!SetUpProvider, Secret!Begin
  <2>2. /\ job'[c].verb = "setup" /\ job'[c].key = k /\ job'[c].backend = b
        /\ DOMAIN job'[c] = {"verb", "key", "backend", "doc"}
        /\ \A d \in Commands : d # c => job'[d] = job[d]
    BY <2>1
  <2>3. SecretShape' /\ SecretNamed' /\ SecretOwned' /\ NoEntryYet' /\ SecretSteps' /\ Secret!WritesOwnEntry
    BY <1>0, <2>1, <2>2 DEF Secret!WritesOwnEntry
  <2>4. SecretResolves'
    BY <1>0, <2>1, <2>2
  <2>. QED
    BY <2>3, <2>4
<1>3. ASSUME NEW c \in Commands, NEW k \in Repos, Secret!Forget(c, k)
      PROVE  Done
  BY <1>0, <1>3 DEF Secret!Forget, Secret!Begin, Secret!WritesOwnEntry
<1>4. ASSUME NEW c \in Commands, NEW k \in Repos, Secret!Prompt(c, k)
      PROVE  Done
  BY <1>0, <1>4 DEF Secret!Prompt, Secret!Offered, Secret!Begin, Secret!WritesOwnEntry
<1>5. ASSUME NEW c \in Commands, Secret!Answer(c)
      PROVE  Done
  BY <1>0, <1>5 DEF Secret!Answer, Secret!WritesOwnEntry
<1>6. ASSUME NEW c \in Commands, Secret!ClearSecret(c)
      PROVE  Done
  <2> DEFINE k == job[c].key
             b == job[c].backend
  <2>1. /\ pc[c] = "clear" /\ k \in Secret!Keys /\ b \in Backends /\ job[c].verb = "setup"
        /\ UNCHANGED <<config, lock, torn>>
    BY <1>6 DEF Secret!ClearSecret
  <2>2. CASE UNCHANGED <<secret, mixed>>
    BY <1>0, <1>6, <2>1, <2>2 DEF Secret!ClearSecret, Secret!WritesOwnEntry
  <2>3. CASE b \notin Replacing /\ pc' = [pc EXCEPT ![c] = "put"] /\ job' = job /\ Secret!Put(b, k, None)
    <3> HIDE DEF SecretNamed, HeldIn
    <3>1. /\ DOMAIN secret' = Backends
          /\ \A x \in Backends : DOMAIN secret'[x] = Secret!Accounts
          /\ SecretNamed'
          /\ \A x \in Backends, l \in Secret!Keys : (x # b \/ l # k) /\ HeldIn(secret, mixed, x, l) => HeldIn(secret', mixed', x, l)
      BY ONLY <2>1, <2>3, SecretInv, PutOne DEF SecretInv, Held
    <3>2. SecretSteps'
      <4>1. ASSUME NEW d \in Commands, pc'[d] \in {"lock", "read", "write"}, job'[d].verb = "setup"
            PROVE  HeldIn(secret', mixed', job'[d].backend, job'[d].key)
        <5>1. d # c /\ pc[d] \in {"lock", "read", "write"} /\ job[d].verb = "setup"
          BY <2>1, <2>3, <4>1
        <5>2. job[d].backend \in Backends /\ job[d].key \in Secret!Keys /\ job[d].key # k
              /\ HeldIn(secret, mixed, job[d].backend, job[d].key)
          BY <1>0, <2>1, <5>1
        <5>. QED
          BY <2>3, <3>1, <5>2
      <4>. QED
        BY <1>0, <2>1, <2>3, <4>1
    <3>3. SecretResolves'
      <4>1. ASSUME NEW l \in Secret!Keys, config.entry[l] # None, l \notin torn,
                   \A d \in Commands : job[d].key = l => Intact(d)'
            PROVE  HeldIn(secret', mixed', config.entry[l], l)
        <5>1. \A d \in Commands : job[d].key = l => Intact(d)
          BY <2>1, <2>3, <4>1
        <5>2. HeldIn(secret, mixed, config.entry[l], l) /\ config.entry[l] \in Backends
          BY <1>0, <4>1, <5>1
        <5>3. l = k => config.entry[l] # b
          BY <2>1, <2>3, <4>1
        <5>. QED
          BY <3>1, <5>2, <5>3
      <4>. QED
        BY <2>1, <2>3, <4>1
    <3>. QED
      BY <1>0, <2>1, <2>3, <3>1, <3>2, <3>3 DEF Secret!WritesOwnEntry
  <2>. QED
    BY <1>6, <2>1, <2>2, <2>3 DEF Secret!ClearSecret
<1>7. ASSUME NEW c \in Commands, Secret!PutSecret(c)
      PROVE  Done
  <2> DEFINE k == job[c].key
             b == job[c].backend
  <2>1. /\ pc[c] = "put" /\ k \in Secret!Keys /\ b \in Backends /\ job[c].verb = "setup"
        /\ UNCHANGED <<config, lock>>
    BY <1>7 DEF Secret!PutSecret
  <2>2. CASE UNCHANGED <<secret, mixed>> /\ Secret!End(c)
             /\ torn' = IF b \in Replacing THEN torn ELSE torn \cup {k}
    BY <1>0, <2>1, <2>2 DEF Secret!WritesOwnEntry
  <2>3. CASE pc' = [pc EXCEPT ![c] = "lock"] /\ UNCHANGED <<job, torn>> /\ Secret!Put(b, k, k)
    <3> HIDE DEF SecretNamed, HeldIn
    <3>1. /\ DOMAIN secret' = Backends
          /\ \A x \in Backends : DOMAIN secret'[x] = Secret!Accounts
          /\ SecretNamed' /\ HeldIn(secret', mixed', b, k)
          /\ \A x \in Backends, l \in Secret!Keys : HeldIn(secret, mixed, x, l) => HeldIn(secret', mixed', x, l)
      BY ONLY <2>1, <2>3, SecretInv, PutOne DEF SecretInv, Held
    <3>2. SecretSteps'
      <4>1. ASSUME NEW d \in Commands, pc'[d] \in {"lock", "read", "write"}, job'[d].verb = "setup"
            PROVE  job[d].backend \in Backends /\ HeldIn(secret', mixed', job'[d].backend, job'[d].key)
        <5>1. CASE d = c
          BY <2>1, <2>3, <3>1, <5>1
        <5>2. CASE d # c
          <6>1. job[d].backend \in Backends /\ job[d].key \in Secret!Keys
                /\ HeldIn(secret, mixed, job[d].backend, job[d].key)
            BY <1>0, <2>1, <2>3, <4>1, <5>2
          <6>. QED
            BY <2>3, <3>1, <6>1
        <5>. QED
          BY <5>1, <5>2
      <4>. QED
        BY <1>0, <2>1, <2>3, <4>1
    <3>3. SecretResolves'
      <4>1. ASSUME NEW l \in Secret!Keys, config.entry[l] # None, l \notin torn,
                   \A d \in Commands : job[d].key = l => Intact(d)'
            PROVE  HeldIn(secret', mixed', config.entry[l], l)
        <5>1. CASE l = k /\ config.entry[l] = b
          BY <3>1, <5>1
        <5>2. CASE ~(l = k /\ config.entry[l] = b)
          <6>1. \A d \in Commands : job[d].key = l => Intact(d)
            BY <2>1, <2>3, <4>1, <5>2
          <6>2. HeldIn(secret, mixed, config.entry[l], l) /\ config.entry[l] \in Backends
            BY <1>0, <4>1, <6>1
          <6>. QED
            BY <3>1, <6>2
        <5>. QED
          BY <5>1, <5>2
      <4>. QED
        BY <2>1, <2>3, <4>1
    <3>. QED
      BY <1>0, <2>1, <2>3, <3>1, <3>2, <3>3 DEF Secret!WritesOwnEntry
  <2>. QED
    BY <1>7, <2>1, <2>2, <2>3 DEF Secret!PutSecret
<1>8. ASSUME NEW c \in Commands, Secret!DeleteSecret(c)
      PROVE  Done
  <2> DEFINE k == job[c].key
             b == job[c].backend
  <2>1. /\ pc[c] = "delete" /\ k \in Secret!Keys /\ b \in Backends /\ job[c].verb = "forget"
        /\ pc' = [pc EXCEPT ![c] = "lock"] /\ UNCHANGED <<config, lock, job, torn>>
    BY <1>8 DEF Secret!DeleteSecret
  <2>2. CASE UNCHANGED <<secret, mixed>>
    BY <1>0, <2>1, <2>2 DEF Secret!WritesOwnEntry
  <2>3. CASE Secret!Put(b, k, None)
    <3> HIDE DEF SecretNamed, HeldIn
    <3>1. /\ DOMAIN secret' = Backends
          /\ \A x \in Backends : DOMAIN secret'[x] = Secret!Accounts
          /\ SecretNamed'
          /\ \A x \in Backends, l \in Secret!Keys : (x # b \/ l # k) /\ HeldIn(secret, mixed, x, l) => HeldIn(secret', mixed', x, l)
      BY ONLY <2>1, <2>3, SecretInv, PutOne DEF SecretInv, Held
    <3>2. SecretSteps'
      <4>1. ASSUME NEW d \in Commands, pc'[d] \in {"lock", "read", "write"}, job[d].verb = "setup"
            PROVE  job[d].backend \in Backends /\ HeldIn(secret', mixed', job'[d].backend, job'[d].key)
        <5>1. d # c /\ pc[d] \in {"lock", "read", "write"}
          BY <2>1, <4>1
        <5>2. job[d].backend \in Backends /\ job[d].key \in Secret!Keys /\ job[d].key # k
              /\ HeldIn(secret, mixed, job[d].backend, job[d].key)
          BY <1>0, <2>1, <4>1, <5>1
        <5>. QED
          BY <2>1, <3>1, <5>2
      <4>. QED
        BY <1>0, <2>1, <4>1
    <3>3. SecretResolves'
      <4>1. ASSUME NEW l \in Secret!Keys, config.entry[l] # None, l \notin torn,
                   \A d \in Commands : job[d].key = l => Intact(d)'
            PROVE  HeldIn(secret', mixed', config.entry[l], l)
        <5>1. l # k /\ \A d \in Commands : job[d].key = l => Intact(d)
          BY <2>1, <4>1
        <5>2. HeldIn(secret, mixed, config.entry[l], l) /\ config.entry[l] \in Backends
          BY <1>0, <4>1, <5>1
        <5>. QED
          BY <3>1, <5>1, <5>2
      <4>. QED
        BY <2>1, <4>1
    <3>. QED
      BY <1>0, <2>1, <3>1, <3>2, <3>3 DEF Secret!WritesOwnEntry
  <2>. QED
    BY <1>8, <2>1, <2>2, <2>3 DEF Secret!DeleteSecret
<1>9. ASSUME NEW c \in Commands, Secret!Acquire(c) \/ Secret!ReadDoc(c)
      PROVE  Done
  BY <1>0, <1>9 DEF Secret!Acquire, Secret!ReadDoc, Secret!WritesOwnEntry
<1>10. ASSUME NEW c \in Commands, Secret!WriteDoc(c)
       PROVE  Done
  <2> DEFINE k == job[c].key
  <2>1. /\ pc[c] = "write" /\ job[c].doc = config /\ lock = c /\ k \in Secret!Keys
        /\ pc' = [pc EXCEPT ![c] = "idle"] /\ job' = [job EXCEPT ![c] = Secret!NoJob]
        /\ lock' = None /\ secret' = secret /\ mixed' = mixed
    BY <1>0, <1>10 DEF Secret!WriteDoc
  <2>2. /\ job'[c].key = None /\ \A d \in Commands : d # c => job'[d] = job[d]
        /\ \A d \in Commands : d # c => job[d].key # k /\ pc[d] \notin {"read", "write"}
    BY <1>0, <2>1
  <2>3. CASE config' = Secret!Edited(config, job[c]) /\ torn' = torn \ {k}
    <3>1. /\ DOMAIN config' = {"mode", "entry", "skip"}
          /\ config'.entry \in [Secret!Keys -> Backends \cup {None}] /\ config'.skip \subseteq Repos
          /\ \A l \in Secret!Keys : l # k =>
               config'.entry[l] = config.entry[l] /\ (l \in config'.skip <=> l \in config.skip)
          /\ config'.entry[k] = IF job[c].verb = "forget" THEN None
                                ELSE IF job[c].verb = "never" THEN config.entry[k] ELSE job[c].backend
          /\ \/ config'.mode = "pat"
             \/ config'.mode = config.mode /\ (job[c].verb = "forget" \/ k \in Providers)
      <4>1. /\ DOMAIN config = {"mode", "entry", "skip"} /\ k \in Secret!Keys
            /\ config.entry \in [Secret!Keys -> Backends \cup {None}] /\ config.skip \subseteq Repos
            /\ job[c].verb \in {"setup", "forget", "never"}
            /\ job[c].verb = "setup" => job[c].backend \in Backends
            /\ job[c].verb \in {"forget", "never"} => k \in Repos
        BY <2>1
      <4>. QED
        BY ONLY <2>3, <4>1, EditedOne DEF None
    <3>2. NoEntryYet'
      <4>1. config'.mode # "pat" => \A l \in Repos : config'.entry[l] \in {config.entry[l], None}
        BY <1>0, <3>1, PartsAssumption DEF Secret!SecretAssumption
      <4>. QED
        BY <3>1, <4>1
    <3>3. SecretShape' /\ SecretNamed' /\ SecretOwned' /\ SecretSteps'
      BY <1>0, <2>1, <2>2, <3>1
    <3>4. SecretResolves'
      <4>1. ASSUME NEW l \in Secret!Keys, config'.entry[l] # None, l \notin torn',
                   \A d \in Commands : (job[d].key = l => Intact(d))'
            PROVE  Held(config'.entry[l], l)
        <5>1. CASE l # k
          <6>1. \A d \in Commands : job[d].key = l => Intact(d)
            BY <2>1, <2>2, <3>1, <4>1, <5>1
          <6>. QED
            BY <2>3, <3>1, <4>1, <5>1, <6>1
        <5>2. CASE l = k
          <6>1. job[c].verb = "setup" /\ config'.entry[k] = job[c].backend
            <7>1. /\ job[c].verb \in {"setup", "forget", "never"}
                  /\ job[c].verb = "never" => config.entry[k] = None
              BY <2>1
            <7>. QED
              BY ONLY <3>1, <4>1, <5>2, <7>1 DEF None
          <6>. QED
            BY <2>1, <5>2, <6>1
        <5>. QED
          BY <5>1, <5>2
      <4>. QED
        BY <2>1, <4>1
    <3>5. Secret!WritesOwnEntry
      BY <2>1, <3>1 DEF Secret!WritesOwnEntry
    <3>. QED
      BY <3>2, <3>3, <3>4, <3>5
  <2>4. CASE /\ UNCHANGED config
             /\ torn' = IF job[c].verb = "forget" THEN torn \cup {k} ELSE torn
    <3>1. SecretShape' /\ SecretNamed' /\ SecretOwned' /\ SecretSteps' /\ NoEntryYet' /\ Secret!WritesOwnEntry
      BY <1>0, <2>1, <2>2, <2>4 DEF Secret!WritesOwnEntry
    <3>2. SecretResolves'
      BY <1>0, <2>1, <2>2, <2>4
    <3>. QED
      BY <3>1, <3>2
  <2>. QED
    BY <1>10, <2>1, <2>3, <2>4 DEF Secret!WriteDoc
<1>11. ASSUME NEW c \in Commands, Secret!Kill(c)
       PROVE  Done
  <2>1. /\ pc[c] # "idle"
        /\ pc' = [pc EXCEPT ![c] = "idle"] /\ job' = [job EXCEPT ![c] = Secret!NoJob]
        /\ UNCHANGED <<config, secret, mixed>>
        /\ lock' = IF lock = c THEN None ELSE lock
    BY <1>11 DEF Secret!Kill
  <2>2. torn' = IF \/ pc[c] = "put" /\ job[c].backend \notin Replacing
                   \/ job[c].verb = "forget" /\ pc[c] # "delete"
                THEN torn \cup {job[c].key} ELSE torn
    BY <1>11 DEF Secret!Kill
  <2>3. SecretShape' /\ SecretNamed' /\ SecretOwned' /\ SecretSteps' /\ NoEntryYet' /\ Secret!WritesOwnEntry
    BY <1>0, <2>1 DEF Secret!WritesOwnEntry
  <2>4. SecretResolves'
    <3>1. job[c].key \notin torn' => Intact(c)
      BY <2>1, <2>2
    <3>2. \A d \in Commands : d # c => job'[d] = job[d] /\ pc'[d] = pc[d] /\ job[d].key # job[c].key
      BY <1>0, <2>1
    <3>. QED
      BY <1>0, <2>1, <2>2, <3>1, <3>2
  <2>. QED
    BY <2>3, <2>4
<1>. QED
  BY <1>1, <1>2, <1>3, <1>4, <1>5, <1>6, <1>7, <1>8, <1>9, <1>10, <1>11
  DEF Secret!Next

SecretPart == part = "secrets" => SecretInv

LEMMA SecretAlone ==
  ASSUME [Next]_vars, part = "secrets"
  PROVE  [Secret!Next]_(Secret!vars)
BY OnlyItsSteps DEF StepSecret, vars, secretsVars, Secret!vars

LEMMA SecretPartHolds == Spec => []SecretPart
<1>1. Init => SecretPart
  BY SecretInit DEF Init, SecretPart
<1>2. SecretPart /\ [Next]_vars => SecretPart'
  BY SamePart, SecretAlone, SecretStep DEF SecretPart
<1>. QED
  BY <1>1, <1>2, PTL DEF Spec

\* Every entry no command is busy with reads its own token, whatever failed or was moved
\* to another store, for any commands and stores (src/src/secret_store.rs,
\* src/src/github_pat.rs).
THEOREM EntriesReadTheirOwn == Spec => []EntriesResolve
<1>1. SecretPart => EntriesResolve
  BY DEF SecretPart, EntriesResolve, Secret!EntriesResolve, Secret!At, Secret!None, None,
     SecretInv, SecretNamed, SecretResolves, Resolves, Held, HeldIn
<1>. QED
  BY <1>1, SecretPartHolds, PTL

\* Writers of the configuration lose no entry of each other (lock_sibling), and updates
\* of Codex at once never go back to an older release (src/scripts/guest/codex.sh).
THEOREM WritesAreKept == Spec => NoLostWrites
<1> DEFINE A == /\ part = "secrets" => Secret!WritesOwnEntry
                /\ part = "codex" => Codex!Forward
<1>1. SecretPart /\ CodexPart /\ [Next]_vars => [A]_<<config, current>>
  BY SecretAlone, CodexAlone, SecretStep, CodexStep DEF SecretPart, CodexPart
<1>2. Spec => [](CodexPart /\ AccountPart)
  BY CodexPartHolds
<1>3. Spec => []SecretPart
  BY SecretPartHolds
<1>. QED
  BY <1>1, <1>2, <1>3, PTL DEF Spec, NoLostWrites
-----------------------------------------------------------------------------
(* coop-proxy *)

\* The requests under way hold the permits that are not free.
Busy == {r \in Requests : req[r].at # "free"}

PermitsHeld ==
  /\ DOMAIN req = Requests
  /\ \A r \in Requests :
       /\ DOMAIN req[r] = {"at", "permit", "got", "sent"}
       /\ req[r].permit = (req[r].at # "free")
  /\ permits \in Nat /\ permits + Cardinality(Busy) = MAX_CONCURRENT_REQUESTS
  /\ phase = "serving" \/ Busy = {}

\* What may go upstream for a request, by a configuration.
MayLeave(c, sent, got) ==
  /\ DOMAIN sent \cap {"authorization", "x-api-key"} = {c.header}
  /\ sent[c.header].secret = c.credential
  /\ sent["host"].secret = c.upstream
  /\ ~\E n \in DOMAIN sent : sent[n].secret = c.token
  /\ Proxy!presented_token(got) # ""

OnlyCredentialSent ==
  /\ cfg \in ProxyConfigs /\ (phase = "serving" => cfg.token # "")
  /\ \A r \in Busy : MayLeave(cfg, req[r].sent, req[r].got)

ProxyInv == PermitsHeld /\ OnlyCredentialSent

LEMMA BusyFinite ==
  IsFiniteSet(Busy) /\ Cardinality(Busy) \in Nat /\ MAX_CONCURRENT_REQUESTS \in Nat
<1>1. Proxy!ProxyAssumption
  BY PartsAssumption
<1>2. IsFiniteSet(Requests) /\ MAX_CONCURRENT_REQUESTS \in Nat
  BY <1>1, Zenon DEF Proxy!ProxyAssumption, Proxy!IsFiniteSet, IsFiniteSet
<1>3. Busy \in SUBSET Requests
  BY DEF Busy
<1>. QED
  BY <1>2, <1>3, FS_Subset, FS_CardinalityType

LEMMA ProxyInit == Proxy!Init => ProxyInv
<1> SUFFICES ASSUME Proxy!Init PROVE ProxyInv
  OBVIOUS
<1>1. Busy = {}
  BY DEF Busy, Proxy!Init, Proxy!Free
<1>2. permits + Cardinality(Busy) = MAX_CONCURRENT_REQUESTS /\ permits \in Nat
  BY <1>1, FS_EmptySet, BusyFinite DEF Proxy!Init
<1>. QED
  BY <1>1, <1>2 DEF ProxyInv, PermitsHeld, OnlyCredentialSent, Proxy!Init, Proxy!Free

\* A request that is over gives its permit back.
LEMMA ProxyEnds ==
  ASSUME ProxyInv, NEW r \in Requests, Proxy!Ends(r), req[r].at # "free"
  PROVE  ProxyInv'
<1> USE DEF ProxyInv
<1>1. Busy' = Busy \ {r} /\ r \in Busy
  BY DEF Busy, Proxy!Ends, Proxy!Free, PermitsHeld
<1>2. permits' = permits + 1
  BY DEF Proxy!Ends, Proxy!Held, PermitsHeld
<1>3. Cardinality(Busy') = Cardinality(Busy) - 1
  BY <1>1, BusyFinite, FS_RemoveElement
<1>4. PermitsHeld'
  <2>1. permits' \in Nat /\ permits' + Cardinality(Busy') = MAX_CONCURRENT_REQUESTS
    BY <1>2, <1>3, BusyFinite DEF PermitsHeld
  <2>. QED
    BY <1>1, <2>1 DEF Proxy!Ends, Proxy!Free, PermitsHeld
<1>5. OnlyCredentialSent'
  BY <1>1 DEF Busy, Proxy!Ends, OnlyCredentialSent, PermitsHeld
<1>. QED
  BY <1>4, <1>5

\* One that goes on keeps it.
LEMMA ProxyGoesOn ==
  ASSUME ProxyInv, NEW r \in Requests, req[r].at # "free", NEW at, at # "free", Proxy!Goes(r, at)
  PROVE  ProxyInv'
<1> USE DEF ProxyInv, PermitsHeld
<1>1. Busy' = Busy
  BY DEF Busy, Proxy!Goes
<1>2. PermitsHeld'
  BY <1>1 DEF Proxy!Goes
<1>3. OnlyCredentialSent'
  BY <1>1 DEF Busy, Proxy!Goes, OnlyCredentialSent
<1>. QED
  BY <1>2, <1>3

\* What is made of a request that showed the token.
LEMMA BuiltMayLeave ==
  ASSUME cfg \in ProxyConfigs, cfg.token # "", NEW h \in ProxyRequests, Proxy!authorized(h)
  PROVE  MayLeave(cfg, Proxy!build_upstream_headers(h), h)
<1> DEFINE sent == Proxy!build_upstream_headers(h)
<1>1. /\ cfg.token = "cap" /\ cfg.upstream = "api" /\ cfg.credential = "real"
      /\ cfg.header \in {"authorization", "x-api-key"}
  BY DEF ProxyConfigs
<1>2. \A n \in DOMAIN h \ Slots : h[n].secret = "guest"
  <2> DEFINE Of(S) == {[n \in S \cup {"host", "te", "accept"} |->
                        IF n \in S THEN g[n] ELSE [scheme |-> "", secret |-> "guest"]] :
                       g \in [S -> Shown]}
  <2>1. ProxyRequests = UNION {Of(S) : S \in SUBSET Slots}
    BY DEF ProxyRequests
  <2>2. PICK S \in SUBSET Slots : h \in Of(S)
    BY <2>1
  <2>3. PICK g \in [S -> Shown] :
          h = [n \in S \cup {"host", "te", "accept"} |->
                 IF n \in S THEN g[n] ELSE [scheme |-> "", secret |-> "guest"]]
    BY <2>2
  <2>. QED
    BY <2>3
<1>3. /\ DOMAIN sent \cap {"authorization", "x-api-key"} = {cfg.header}
      /\ cfg.header \in DOMAIN sent /\ "host" \in DOMAIN sent
  BY <1>1 DEF Proxy!build_upstream_headers, Proxy!is_credential_header
<1>4. sent[cfg.header].secret = "real" /\ sent["host"].secret = "api"
  BY <1>1 DEF Proxy!build_upstream_headers
<1>5. \A n \in DOMAIN sent : n \in {cfg.header, "host"} \/ sent[n].secret = "guest"
  BY <1>2 DEF Proxy!build_upstream_headers, Proxy!is_credential_header, Slots
<1>6. Proxy!presented_token(h) # ""
  BY DEF Proxy!authorized
<1>. QED
  BY <1>1, <1>3, <1>4, <1>5, <1>6 DEF MayLeave

LEMMA ProxyStep == ProxyInv /\ [Proxy!Next]_(Proxy!vars) => ProxyInv'
<1> SUFFICES ASSUME ProxyInv, [Proxy!Next]_(Proxy!vars) PROVE ProxyInv'
  OBVIOUS
<1> USE DEF ProxyInv
<1>1. CASE UNCHANGED Proxy!vars
  BY <1>1 DEF Proxy!vars, Busy, PermitsHeld, OnlyCredentialSent
<1>2. CASE Proxy!Start
  <2>1. Busy = {} /\ Busy' = {}
    BY <1>2 DEF Busy, Proxy!Start, PermitsHeld
  <2>2. permits' \in Nat /\ permits' + Cardinality(Busy') = MAX_CONCURRENT_REQUESTS
    <3>1. Cardinality(Busy') = 0
      BY <2>1, FS_EmptySet
    <3>2. permits' = MAX_CONCURRENT_REQUESTS
      BY <1>2 DEF Proxy!Start
    <3>. QED
      BY <3>1, <3>2, BusyFinite
  <2>3. cfg' \in ProxyConfigs /\ cfg'.token # "" /\ phase' = "serving" /\ req' = req
    BY <1>2 DEF Proxy!Start, Proxy!Accepts
  <2>. QED
    BY <2>1, <2>2, <2>3 DEF PermitsHeld, OnlyCredentialSent
<1>3. CASE Proxy!Shutdown
  <2>1. Busy' = {}
    BY <1>3 DEF Busy, Proxy!Shutdown, Proxy!Free
  <2>2. permits' \in Nat /\ permits' + Cardinality(Busy') = MAX_CONCURRENT_REQUESTS
    <3>1. Cardinality(Busy') = 0
      BY <2>1, FS_EmptySet
    <3>2. permits' = MAX_CONCURRENT_REQUESTS
      BY <1>3 DEF Proxy!Shutdown
    <3>. QED
      BY <3>1, <3>2, BusyFinite
  <2>. QED
    BY <1>3, <2>1, <2>2 DEF Proxy!Shutdown, Proxy!Free, PermitsHeld, OnlyCredentialSent
<1>4. ASSUME NEW r \in Requests, Proxy!Arrive(r)
      PROVE  ProxyInv'
  <2>1. PICK h \in ProxyRequests :
          /\ Proxy!authorized(h)
          /\ req' = [req EXCEPT ![r] = [at |-> "dialing", permit |-> TRUE, got |-> h,
                                        sent |-> Proxy!build_upstream_headers(h)]]
    BY <1>4 DEF Proxy!Arrive
  <2>2. Busy' = Busy \cup {r} /\ r \notin Busy
    BY <1>4, <2>1 DEF Busy, Proxy!Arrive, PermitsHeld
  <2>3. Cardinality(Busy') = Cardinality(Busy) + 1
    BY <2>2, BusyFinite, FS_AddElement
  <2>4. PermitsHeld'
    <3>1. permits > 0 /\ permits' = permits - 1
      BY <1>4 DEF Proxy!Arrive
    <3>2. permits' \in Nat /\ permits' + Cardinality(Busy') = MAX_CONCURRENT_REQUESTS
      BY <2>3, <3>1, BusyFinite DEF PermitsHeld
    <3>. QED
      BY <1>4, <2>1, <3>2 DEF Proxy!Arrive, PermitsHeld
  <2>5. MayLeave(cfg, req'[r].sent, req'[r].got)
    BY <1>4, <2>1, BuiltMayLeave DEF Proxy!Arrive, PermitsHeld, OnlyCredentialSent
  <2>6. OnlyCredentialSent'
    BY <1>4, <2>1, <2>2, <2>5 DEF Busy, Proxy!Arrive, PermitsHeld, OnlyCredentialSent
  <2>. QED
    BY <2>4, <2>6
<1>5. ASSUME NEW r \in Requests,
             Proxy!Connected(r) \/ Proxy!Send(r) \/ Proxy!Respond(r)
      PROVE  ProxyInv'
  BY <1>5, ProxyGoesOn DEF Proxy!Connected, Proxy!Send, Proxy!Respond
<1>6. ASSUME NEW r \in Requests,
             \/ Proxy!DialFails(r) \/ Proxy!UpstreamFails(r)
             \/ Proxy!Drained(r) \/ Proxy!GuestGone(r)
      PROVE  ProxyInv'
  BY <1>6, ProxyEnds DEF Proxy!DialFails, Proxy!UpstreamFails, Proxy!Drained, Proxy!GuestGone
<1>. QED
  BY <1>1, <1>2, <1>3, <1>4, <1>5, <1>6 DEF Proxy!Next

ProxyPart == part = "proxy" => ProxyInv

LEMMA ProxyPartHolds == Spec => []ProxyPart
<1>1. [Next]_vars /\ part = "proxy" => [Proxy!Next]_(Proxy!vars)
  BY OnlyItsSteps DEF StepProxy, vars, proxyVars, Proxy!vars
<1>2. Init => ProxyPart
  BY ProxyInit DEF Init, ProxyPart
<1>3. ProxyPart /\ [Next]_vars => ProxyPart'
  BY <1>1, SamePart, ProxyStep DEF ProxyPart
<1>. QED
  BY <1>2, <1>3, PTL DEF Spec

\* The cap holds for whole responses and no permit is lost, for any number of requests
\* and any cap; and of what a request brings nothing that would let another guest in
\* goes upstream, only the credential (src/coop-proxy/src/proxy.rs).
THEOREM ProxyKeepsCap == Spec => []ProxyHolds
<1>1. ProxyInv => Proxy!CapHolds
  <2> SUFFICES ASSUME ProxyInv PROVE Proxy!CapHolds
    OBVIOUS
  <2>1. Busy = {r \in Requests : req[r].permit}
    BY DEF ProxyInv, PermitsHeld, Busy
  <2>2. Cardinality(Busy) <= MAX_CONCURRENT_REQUESTS
    BY BusyFinite DEF ProxyInv, PermitsHeld
  <2>3. /\ Cardinality({r \in Requests : req[r].at # "free"}) <= MAX_CONCURRENT_REQUESTS
        /\ permits + Cardinality({r \in Requests : req[r].permit}) = MAX_CONCURRENT_REQUESTS
    BY <2>1, <2>2 DEF ProxyInv, PermitsHeld, Busy
  <2>. QED
    BY <2>3 DEF Proxy!CapHolds, Proxy!Quantify, Proxy!Cardinality, Cardinality
<1>2. ProxyInv => Proxy!OnlyTheCredentialLeaves
  BY DEF ProxyInv, OnlyCredentialSent, Busy, MayLeave, Proxy!OnlyTheCredentialLeaves
<1>. QED
  BY <1>1, <1>2, ProxyPartHolds, PTL DEF ProxyPart, ProxyHolds
-----------------------------------------------------------------------------
(* Images and disks *)

ImageShape ==
  /\ DOMAIN template = Images /\ DOMAIN tsize = Images /\ DOMAIN conf = Images
  /\ \A i \in Images : DOMAIN tsize[i] = {"size", "fs"} /\ conf[i] \in Recipes \cup {None}
  /\ DOMAIN tools = Image!Tools /\ DOMAIN inst = Insts
  /\ DOMAIN cut = Images \cup Insts \cup Image!Tools
  /\ \A n \in Insts :
       /\ DOMAIN inst[n] = {"image", "disk", "own", "size", "fs"}
       /\ inst[n].image \in Images \cup {None}
  /\ DOMAIN job = {"image", "recipe", "rebuild", "inst", "size", "step", "found"}
  /\ job.recipe \in Recipes

\* What is built gets its packages before it is swapped in.
ImageBuilds ==
  /\ pc \notin {"idle", "fsck"} => job.image \in Images
  /\ pc \in Image!DiskSteps \cup {"take"} => job.inst \in Insts /\ inst[job.inst].image # None
  /\ pc = "grow" => job.rebuild
  /\ pc = "build" => job.step \in 1..5 /\ (job.step = 5 => staging \in Recipes)
  /\ pc = "swap" => staging \in Recipes

\* Firecracker and the kernel are there before anything is built, but for what was cut.
Ready == \A t \in Image!Tools : tools[t] # "absent"
ImageTools ==
  /\ \A t \in Image!Tools :
       /\ tools[t] \in {"absent", "there"} \/ "file" \in cut[t] \/ (t = "firecracker" /\ pc = "chmod")
       /\ "file" \in cut[t] => tools[t] # "absent"
  /\ pc \in {"chmod", "kernel"} => tools["firecracker"] # "absent"
  /\ pc \notin {"idle", "kvm", "firecracker", "chmod", "kernel"} => Ready
  /\ \A i \in Images : template[i] # None => Ready /\ pc # "chmod"
  /\ \A n \in Insts : inst[n].image # None => Ready /\ pc # "chmod"

Missing(d) == d \in {None, "broken"}

\* Images: without a whole template only after a copy that stopped; pc = "take" is the
\* copy of a commit, which has removed the old one.
ImageTemplates ==
  /\ \A i \in Images :
       /\ template[i] = "broken" => "disk" \in cut[i]
       /\ template[i] = None /\ conf[i] # None =>
            "disk" \in cut[i] \/ (pc = "take" /\ job.image = i)
       /\ tsize[i].fs # tsize[i].size => "size" \in cut[i]
  /\ pc \in {"config", "clear", "copy"} => template[job.image] # None
  /\ pc = "take" => inst[job.inst].disk # None

\* Disks: which of them a stopped command may have left without what.
AtWork(n) == pc \in {"copy", "grow", "patch", "lineage"} /\ job.inst = n
ImageDisks ==
  \A n \in Insts :
    LET d == inst[n] IN
    /\ d.fs # d.size => "size" \in cut[n] \/ (pc = "fsck" /\ job.inst = n)
    /\ d.image # None /\ Missing(d.disk) => "disk" \in cut[n] \/ (pc = "copy" /\ job.inst = n)
    /\ d.image # None /\ ~d.own => "address" \in cut[n] \/ (AtWork(n) /\ pc # "lineage")

ImageInv ==
  ImageShape /\ ImageBuilds /\ ImageTools /\ ImageTemplates /\ ImageDisks

LEMMA ImageInit == Image!Init => ImageInv
BY PartsAssumption
DEF Image!ImageAssumption, Image!Init, Image!NoJob, Image!NoInst, Image!Tools, Image!DiskSteps, Image!Built,
    ImageInv, ImageShape, ImageBuilds, ImageTools, ImageTemplates, ImageDisks, AtWork, Missing, Image!None, None

LEMMA ImageStep ==
  ASSUME ImageInv, [Image!Next]_(Image!vars)
  PROVE  ImageInv'
<1>. Image!ImageAssumption
  BY PartsAssumption
<1> USE DEF Image!ImageAssumption, ImageInv, ImageShape, ImageBuilds, ImageTools, ImageTemplates,
    ImageDisks, AtWork, Missing, Ready, Image!Go, Image!Finish, Image!DiskFails, Image!Undone,
    Image!DiskSteps, Image!Creating, Image!NoJob, Image!NoInst, Image!Exists, Image!Tools, Image!files,
    Image!None, None, Image!Broken
<1>1. CASE UNCHANGED Image!vars
  BY <1>1 DEF Image!vars
<1>2. ASSUME NEW i \in Images, NEW r \in Recipes, NEW b \in BOOLEAN, Image!Setup(i, r, b)
      PROVE  ImageInv'
  BY <1>2 DEF Image!Setup, Image!Asked
<1>3. CASE Image!CheckHost
  BY <1>3 DEF Image!CheckHost
<1>4. CASE Image!InstallFirecracker
  BY <1>4 DEF Image!InstallFirecracker
<1>5. CASE Image!MakeExecutable
  BY <1>5 DEF Image!MakeExecutable
<1>6. CASE Image!FetchKernel
  BY <1>6 DEF Image!FetchKernel
<1>7. CASE Image!CheckTemplate
  BY <1>7 DEF Image!CheckTemplate
<1>8. CASE Image!CalledUpToDate
  BY <1>8 DEF Image!CalledUpToDate
<1>9. CASE Image!BuildStep
  <2>1. /\ pc = "build" /\ staging' = Image!Staged(Image!Doing)
        /\ UNCHANGED <<template, tsize, conf, tools, inst, cut>>
    BY <1>9 DEF Image!BuildStep
  <2>2. Image!Doing = CASE job.step = 1 -> "unpack" [] job.step = 2 -> "mkfs" [] job.step = 3 -> "mount"
                        [] job.step = 4 -> "install" [] job.step = 5 -> "unmount"
    BY <2>1 DEF Image!Doing, Image!BuildSteps
  <2>3. (job.step = 4 => staging' = job.recipe) /\ (job.step = 5 => staging' = staging)
    BY <2>1, <2>2 DEF Image!Staged
  <2>4. \/ job.step < 5 /\ job' = [job EXCEPT !.step = @ + 1] /\ pc' = pc
        \/ job.step = 5 /\ pc' = "swap" /\ job' = job
    BY <1>9, <2>1 DEF Image!BuildStep, Image!BuildSteps
  <2>. QED
    BY <2>1, <2>3, <2>4
<1>10. CASE Image!BuildFails
  BY <1>10 DEF Image!BuildFails, Image!Unwound
<1>11. CASE Image!SwapTemplate
  BY <1>11 DEF Image!SwapTemplate, Image!Built
<1>12. CASE Image!SaveConfig
  BY <1>12 DEF Image!SaveConfig
<1>13. ASSUME NEW n \in Insts, NEW i \in Images, NEW z \in Sizes, Image!Up(n, i, z)
      PROVE  ImageInv'
  <2>1. CASE template[i] = None
    BY <1>13, <2>1 DEF Image!Up
  <2>2. CASE template[i] # None
    <3>1. /\ inst' = [inst EXCEPT ![n].image = i] /\ pc = "idle" /\ pc' = "copy"
          /\ job' = [Image!NoJob EXCEPT !.image = i, !.inst = n, !.size = z, !.rebuild = TRUE]
          /\ UNCHANGED <<template, tsize, conf, staging, tools, cut>>
      BY <1>13, <2>2 DEF Image!Up
    <3>. QED
      BY <2>2, <3>1
  <2>. QED
    BY <2>1, <2>2
<1>14. ASSUME NEW n \in Insts, NEW i \in Images, Image!Restore(n, i)
      PROVE  ImageInv'
  BY <1>14 DEF Image!Restore
<1>15. ASSUME NEW n \in Insts, NEW i \in Images, NEW f \in BOOLEAN, Image!Commit(n, i, f)
      PROVE  ImageInv'
  BY <1>15 DEF Image!Commit
<1>16. ASSUME NEW n \in Insts, NEW z \in Sizes, Image!Resize(n, z)
      PROVE  ImageInv'
  BY <1>16 DEF Image!Resize
<1>17. ASSUME NEW n \in Insts, Image!Destroy(n)
      PROVE  ImageInv'
  BY <1>17 DEF Image!Destroy
<1>18. CASE Image!ClearDisk
  <2> DEFINE n == job.inst
  <2>1. pc = "clear" /\ n \in Insts /\ UNCHANGED <<template, tsize, conf, staging, tools>>
    BY <1>18 DEF Image!ClearDisk
  <2>2. CASE /\ inst' = [inst EXCEPT ![n] = Image!Cleared(inst[n])]
             /\ cut' = cut /\ pc' = "copy" /\ job' = job
    BY <2>1, <2>2 DEF Image!Cleared
  <2>3. CASE Image!DiskFails(inst[n], {})
    BY <2>1, <2>3
  <2>. QED
    BY <1>18, <2>2, <2>3 DEF Image!ClearDisk
<1>19. CASE Image!CopyTemplate
  <2> DEFINE n == job.inst
  <2>1. pc = "copy" /\ n \in Insts /\ UNCHANGED <<template, tsize, conf, staging, tools>>
    BY <1>19 DEF Image!CopyTemplate
  <2>2. CASE /\ inst' = [inst EXCEPT ![n].disk = template[job.image], ![n].size = tsize[job.image].size,
                                    ![n].fs = tsize[job.image].fs, ![n].own = FALSE]
             /\ cut' = [cut EXCEPT ![n] = cut[job.image]]
             /\ pc' = (IF job.rebuild THEN "grow" ELSE "patch") /\ job' = job
    BY <2>1, <2>2
  <2>3. ASSUME NEW left \in {Image!Cleared(inst[n]), Image!HalfCopied(inst[n])},
               Image!DiskFails(left, {"disk", "address"})
        PROVE  ImageInv'
    <3>0. /\ DOMAIN left = DOMAIN inst[n] /\ left.image = inst[n].image
          /\ left.fs = inst[n].fs /\ left.size = inst[n].size
      BY <2>1 DEF Image!Cleared, Image!HalfCopied
    <3>1. CASE job.rebuild
      BY <2>1, <2>3, <3>1
    <3>2. CASE ~job.rebuild
      <4>1. /\ inst' = [inst EXCEPT ![n] = left]
            /\ cut' = [cut EXCEPT ![n] = @ \cup {"disk", "address"}] /\ pc' = "idle" /\ job' = Image!NoJob
        BY <2>3, <3>2
      <4>. QED
        BY <2>1, <3>0, <4>1
    <3>. QED
      BY <3>1, <3>2
  <2>. QED
    BY <1>19, <2>2, <2>3 DEF Image!CopyTemplate
<1>20. CASE Image!GrowNew
  <2> DEFINE n == job.inst
  <2>1. pc = "grow" /\ n \in Insts /\ UNCHANGED <<template, tsize, conf, staging, tools>>
    BY <1>20 DEF Image!GrowNew
  <2>2. CASE inst' = inst /\ cut' = cut /\ pc' = "patch" /\ job' = job
    BY <2>1, <2>2
  <2>3. CASE /\ inst' = [inst EXCEPT ![n].size = job.size, ![n].fs = job.size]
             /\ cut' = cut /\ pc' = "patch" /\ job' = job
    BY <2>1, <2>3
  <2>4. CASE Image!DiskFails(inst[n], {})
    <3>1. job.rebuild
      BY <2>1
    <3>. QED
      BY <2>1, <2>4, <3>1
  <2>. QED
    BY <1>20, <2>2, <2>3, <2>4 DEF Image!GrowNew
<1>21. CASE Image!PatchNetwork
  BY <1>21 DEF Image!PatchNetwork
<1>22. CASE Image!SaveLineage
  <2> DEFINE n == job.inst
  <2>1. /\ pc = "lineage" /\ n \in Insts /\ job.image \in Images
        /\ UNCHANGED <<template, tsize, conf, staging, tools>>
    BY <1>22 DEF Image!SaveLineage
  <2>2. CASE inst' = [inst EXCEPT ![n].image = job.image] /\ cut' = cut /\ Image!Finish
    <3>1. /\ DOMAIN inst' = Insts /\ \A m \in Insts : m # n => inst'[m] = inst[m]
          /\ DOMAIN inst'[n] = DOMAIN inst[n] /\ inst'[n].image = job.image
          /\ inst'[n].disk = inst[n].disk /\ inst'[n].own = inst[n].own
          /\ inst'[n].size = inst[n].size /\ inst'[n].fs = inst[n].fs
      BY <2>1, <2>2
    <3>2. /\ Missing(inst[n].disk) => "disk" \in cut[n]
          /\ ~inst[n].own => "address" \in cut[n]
      BY <2>1
    <3>. QED
      BY <2>1, <2>2, <3>1, <3>2
  <2>3. CASE Image!DiskFails(inst[n], {}) /\ job.rebuild
    BY <2>1, <2>3
  <2>4. CASE Image!DiskFails(inst[n], {}) /\ ~job.rebuild
    <3>1. inst' = [inst EXCEPT ![n] = inst[n]] /\ cut' = [cut EXCEPT ![n] = @ \cup {}]
          /\ pc' = "idle" /\ job' = Image!NoJob
      BY <2>4
    <3>. QED
      BY <2>1, <3>1
  <2>. QED
    BY <1>22, <2>2, <2>3, <2>4 DEF Image!SaveLineage
<1>23. CASE Image!GrowFilesystem
  BY <1>23 DEF Image!GrowFilesystem
<1>24. CASE Image!TakeDisk
  <2>1. pc = "take" /\ UNCHANGED <<conf, staging, tools, inst>> /\ job.inst \in Insts /\ job.image \in Images
    BY <1>24 DEF Image!TakeDisk
  <2>2. CASE /\ template' = [template EXCEPT ![job.image] = inst[job.inst].disk]
             /\ tsize' = [tsize EXCEPT ![job.image] = [size |-> inst[job.inst].size, fs |-> inst[job.inst].fs]]
             /\ cut' = [cut EXCEPT ![job.image] = cut[job.inst] \ {"address"}]
             /\ pc' = "config" /\ job' = job
    BY <2>1, <2>2
  <2>3. ASSUME NEW left \in {None, "broken"},
               /\ template' = [template EXCEPT ![job.image] = left]
               /\ cut' = [cut EXCEPT ![job.image] = @ \cup {"disk"}]
               /\ tsize' = tsize /\ Image!Finish
        PROVE  ImageInv'
    BY <2>1, <2>3
  <2>. QED
    BY <1>24, <2>2, <2>3 DEF Image!TakeDisk
<1>25. CASE Image!Kill
  <2>1. /\ pc # "idle" /\ Image!Finish /\ UNCHANGED <<tsize, conf, staging>>
    BY <1>25 DEF Image!Kill
  <2>2. CASE Image!KillDisk
    <3> DEFINE n == job.inst
               undone == Image!LeftUndone(inst[n])
    <3>1. PICK left \in Image!LeftDisks(inst[n]) : inst' = [inst EXCEPT ![n] = left]
      BY <2>2 DEF Image!KillDisk
    <3>2. /\ pc \in Image!DiskSteps /\ n \in Insts /\ cut' = [cut EXCEPT ![n] = @ \cup undone]
          /\ UNCHANGED <<template, tools>>
      BY <2>2 DEF Image!KillDisk
    <3>3. /\ DOMAIN left = DOMAIN inst[n] /\ left.image = inst[n].image
          /\ left.fs # left.size => "size" \in cut'[n]
          /\ left.image # None /\ Missing(left.disk) => "disk" \in cut'[n]
          /\ left.image # None /\ ~left.own => "address" \in cut'[n]
      <4> DEFINE d == inst[n]
      <4>0. /\ DOMAIN d = {"image", "disk", "own", "size", "fs"} /\ n \in DOMAIN cut
            /\ undone \subseteq cut'[n] /\ cut[n] \subseteq cut'[n]
        BY <3>2
      <4>1. CASE pc = "clear"
        <5>1. left \in {d, Image!Cleared(d)} /\ {"disk", "address"} \subseteq undone
          BY <3>1, <4>1, Zenon DEF Image!LeftDisks, Image!LeftUndone
        <5>2. d.fs # d.size => "size" \in cut[n]
          BY <3>2, <4>1
        <5> HIDE DEF undone
        <5>. QED
          BY ONLY <4>0, <5>1, <5>2 DEF Image!Cleared
      <4>2. CASE pc = "copy"
        <5>1. left \in {d, Image!HalfCopied(d)} /\ {"disk", "address"} \subseteq undone
          BY <3>1, <4>2, Zenon DEF Image!LeftDisks, Image!LeftUndone
        <5>2. d.fs # d.size => "size" \in cut[n]
          BY <3>2, <4>2
        <5> HIDE DEF undone
        <5>. QED
          BY ONLY <4>0, <5>1, <5>2 DEF Image!HalfCopied
      <4>3. CASE pc = "grow"
        <5>1. /\ {"size", "address"} \subseteq undone
              /\ ~(job.size >= d.size) => "disk" \in undone
          BY ONLY <4>3 DEF Image!LeftUndone
        <5>2. CASE left = d
          <6>1. d.image # None /\ Missing(d.disk) => "disk" \in cut[n]
            BY <3>2, <4>3
          <6> HIDE DEF undone
          <6>. QED
            BY ONLY <4>0, <5>1, <5>2, <6>1
        <5>3. CASE left = [d EXCEPT !.size = job.size]
          <6>1. d.image # None /\ Missing(d.disk) => "disk" \in cut[n]
            BY <3>2, <4>3
          <6> HIDE DEF undone
          <6>. QED
            BY ONLY <4>0, <5>1, <5>3, <6>1
        <5>4. CASE left = [Image!HalfCopied(d) EXCEPT !.size = job.size, !.fs = job.size]
                   /\ ~(job.size >= d.size)
          <6> HIDE DEF undone
          <6>. QED
            BY ONLY <4>0, <5>1, <5>4 DEF Image!HalfCopied
        <5>. QED
          BY ONLY <3>1, <4>3, <5>2, <5>3, <5>4 DEF Image!LeftDisks
      <4>4. CASE pc \in {"patch", "lineage", "fsck"}
        BY <3>1, <3>2, <4>4 DEF Image!LeftDisks, Image!LeftUndone
      <4>. QED
        BY <3>2, <4>1, <4>2, <4>3, <4>4
    <3>4. /\ DOMAIN inst' = Insts /\ inst'[n] = left
          /\ \A m \in Insts : m # n => inst'[m] = inst[m] /\ cut'[m] = cut[m]
      BY <3>1, <3>2
    <3>5. /\ DOMAIN cut' = DOMAIN cut
          /\ \A x \in DOMAIN cut : cut[x] \subseteq cut'[x]
          /\ \A t \in Image!Tools : cut'[t] = cut[t]
      BY <3>2
    <3>. QED
      BY <2>1, <3>2, <3>3, <3>4, <3>5
  <2>3. CASE Image!KillCommit
    BY <2>1, <2>3 DEF Image!KillCommit
  <2>4. CASE Image!KillSetup
    <3>1. CASE pc = "kernel" /\ tools' = [tools EXCEPT !["kernel"] = "partial"]
                 /\ cut' = [cut EXCEPT !["kernel"] = @ \cup {"file"}]
      BY <2>1, <2>4, <3>1 DEF Image!KillSetup
    <3>2. CASE pc = "chmod" /\ tools' = tools /\ cut' = [cut EXCEPT !["firecracker"] = @ \cup {"file"}]
      BY <2>1, <2>4, <3>2 DEF Image!KillSetup
    <3>3. CASE pc # "chmod" /\ UNCHANGED <<tools, cut>>
      BY <2>1, <2>4, <3>3 DEF Image!KillSetup
    <3>. QED
      BY <2>4, <3>1, <3>2, <3>3 DEF Image!KillSetup
  <2>. QED
    BY <1>25, <2>2, <2>3, <2>4 DEF Image!Kill
<1> HIDE DEF ImageInv
<1>. QED
  BY <1>1, <1>2, <1>3, <1>4, <1>5, <1>6, <1>7, <1>8, <1>9, <1>10, <1>11, <1>12, <1>13, <1>14, <1>15, <1>16,
     <1>17, <1>18, <1>19, <1>20, <1>21, <1>22, <1>23, <1>24, <1>25
  DEF Image!Next

ImagePart == part = "images" => ImageInv

LEMMA ImagePartHolds == Spec => []ImagePart
<1>1. [Next]_vars /\ part = "images" => [Image!Next]_(Image!vars)
  BY OnlyItsSteps DEF StepImage, vars, imagesVars, Image!vars
<1>2. Init => ImagePart
  BY ImageInit DEF Init, ImagePart
<1>3. ImagePart /\ [Next]_vars => ImagePart'
  BY <1>1, SamePart, ImageStep DEF ImagePart
<1>. QED
  BY <1>2, <1>3, PTL DEF Spec

\* Templates and the disks of instances are whole and what they boot with is there, but
\* for what a command stopped half way with, whatever fails or is killed in between, for
\* any images, instances and sizes (src/src/setup.rs, commands/lifecycle.rs).
THEOREM DisksStayWhole == Spec => []ImagesWhole
<1>1. ImageInv => Image!InstancesBootable
  BY DEF ImageInv, ImageShape, ImageBuilds, ImageTools, ImageDisks, AtWork, Missing, Ready,
     Image!InstancesBootable, Image!Exists, Image!DiskSteps, Image!Tools, Image!Broken, Image!None, None
<1>2. ImageInv => Image!TemplateWhole
  BY DEF ImageInv, ImageTemplates, Image!TemplateWhole, Image!Broken, Image!None, None
<1>. QED
  BY <1>1, <1>2, ImagePartHolds, PTL DEF ImagePart, ImagesWhole
-----------------------------------------------------------------------------
(* Images and instances of Lima *)

LimaShape ==
  /\ DOMAIN base = LimaImages /\ DOMAIN guarded = LimaImages /\ DOMAIN stamp = LimaImages
  /\ DOMAIN tmpl = LimaImages /\ DOMAIN inst = Insts
  /\ \A n \in Insts :
       /\ DOMAIN inst[n] = {"image", "vm", "disk", "net", "mounts", "marked", "yaml", "spec", "stale"}
       /\ inst[n].spec \in {"good", "bad"}
  /\ DOMAIN job = {"verb", "mode", "image", "inst", "recipe", "mounts", "start", "old"}

\* What a command is about at each step.
LimaJob ==
  /\ pc \in {"check", "build", "swap"} => job.verb = "setup"
  /\ pc = "config" => job.verb \in {"setup", "commit"}
  /\ pc \in {"template", "write"} => job.verb \in {"setup", "up", "commit"}
  /\ pc \in {"guard", "guarding", "stamp"} => job.verb \in {"setup", "up", "commit", "restore"}
  /\ pc \in {"create", "ssh", "mark"} => job.verb = "up"
  /\ pc = "copy" => job.verb = "commit"
  /\ pc \in {"take", "lineage"} => job.verb = "restore"
  /\ pc = "boot" => job.verb \in {"start", "resources"}
  /\ pc \in {"delete", "rmdir"} => job.verb \in {"up", "destroy"}
  /\ pc \notin {"idle", "boot", "delete", "rmdir"} => job.image \in LimaImages
  /\ pc # "idle" /\ job.verb # "setup" => job.inst \in Insts

\* A private command has the guarded template when it comes to create the VM, an instance
\* that is being created is as private as its command, and restore keeps to the marker.
LimaPrivate ==
  /\ pc # "idle" /\ job.verb = "up" /\ job.mode = "private" => ~job.mounts
  /\ pc = "create" /\ job.mode = "private" => tmpl[job.image] = "private"
  /\ pc \in {"ssh", "mark"} /\ job.mode = "private" =>
       /\ inst[job.inst].disk = "guarded" /\ inst[job.inst].net = "private"
       /\ ~inst[job.inst].mounts
  /\ pc # "idle" /\ job.verb = "restore" => (inst[job.inst].marked <=> job.mode = "private")

\* Only a reconfiguration under way has a lima.yaml that has not booted, and what is
\* left of a destroyed instance has none; what boots is a VM.
LimaSpecs ==
  /\ pc = "rmdir" => inst[job.inst].spec = "good"
  /\ pc = "boot" => inst[job.inst].vm # None
  /\ pc = "boot" /\ job.verb = "start" => inst[job.inst].spec = job.old
  /\ \A n \in Insts \ cut : inst[n].spec = "good" \/ (pc = "boot" /\ job.inst = n)
  /\ pc = "boot" => job.old = "good" \/ (job.old = "bad" /\ job.inst \in cut)

LimaInv ==
  /\ LimaShape /\ LimaJob /\ LimaPrivate /\ LimaSpecs
  /\ pc = "stamp" => guarded[job.image] = "current"
  /\ Lima!PrivateIsGuarded /\ Lima!StampIsOfGuard

LEMMA LimaInit == Lima!Init => LimaInv
BY PartsAssumption
DEF Lima!LimaAssumption, Lima!Init, Lima!NoJob, Lima!NoInst, LimaInv, LimaShape, LimaJob, LimaPrivate, LimaSpecs,
    Lima!PrivateIsGuarded, Lima!StampIsOfGuard

LEMMA HalfRemovedOf ==
  ASSUME NEW w, NEW v \in Lima!HalfRemoved(w)
  PROVE  \E i \in {w.image, None}, m \in {w.marked, FALSE}, y \in {w.yaml, FALSE} :
           v = [w EXCEPT !.image = i, !.marked = m, !.yaml = y]
BY DEF Lima!HalfRemoved, Lima!None, None

\* A kill may break the disk, change what the VM does, or remove files.
LEMMA KilledOf ==
  ASSUME LimaShape, NEW n \in Insts, NEW v \in Lima!Killed(inst[n])
  PROVE  /\ DOMAIN v = DOMAIN inst[n] /\ v.spec = inst[n].spec
         /\ v.disk \in {inst[n].disk, "broken"} /\ v.net = inst[n].net
         /\ v.mounts = inst[n].mounts /\ v.stale = inst[n].stale
         /\ (v.marked => inst[n].marked)
         /\ inst[n].vm = None => pc = "boot" \/ v.vm = None
<1> DEFINE w == inst[n]
<1>1. /\ DOMAIN w = {"image", "vm", "disk", "net", "mounts", "marked", "yaml", "spec", "stale"}
  BY DEF LimaShape
<1>2. CASE pc = "take"
  <2>1. v = [w EXCEPT !.disk = "broken"]
    BY <1>2 DEF Lima!Killed
  <2>. QED
    BY <1>1, <2>1
<1>3. CASE pc = "boot"
  <2>1. \E x \in {"Stopped", "Running"} : v = [w EXCEPT !.vm = x]
    BY <1>3 DEF Lima!Killed
  <2>. QED
    BY <1>1, <1>3, <2>1
<1>4. CASE pc = "delete"
  <2>1. v = w \/ (w.vm # None /\ \E x \in {"Stopped", "Broken"} : v = [w EXCEPT !.vm = x])
    BY <1>4 DEF Lima!Killed, Lima!HalfDeleted, Lima!None, None
  <2>. QED
    BY <1>1, <2>1
<1>5. CASE pc = "rmdir"
  <2>1. v \in Lima!HalfRemoved(w)
    BY <1>5 DEF Lima!Killed
  <2>2. PICK i \in {w.image, None}, m \in {w.marked, FALSE}, y \in {w.yaml, FALSE} :
          v = [w EXCEPT !.image = i, !.marked = m, !.yaml = y]
    BY <2>1, HalfRemovedOf
  <2>3. v.marked = m
    BY ONLY <1>1, <2>2
  <2>4. v.marked => w.marked
    BY ONLY <2>2, <2>3
  <2>. QED
    BY <1>1, <2>2, <2>4
<1>6. CASE pc \notin {"take", "boot", "delete", "rmdir"}
  BY <1>6 DEF Lima!Killed
<1>. QED
  BY <1>2, <1>3, <1>4, <1>5, <1>6

LEMMA LimaStep ==
  ASSUME LimaInv, [Lima!Next]_(Lima!vars)
  PROVE  LimaInv'
<1>. Lima!LimaAssumption
  BY PartsAssumption
<1> USE DEF Lima!LimaAssumption, LimaInv, LimaShape, LimaJob, LimaPrivate, LimaSpecs,
    Lima!PrivateIsGuarded, Lima!StampIsOfGuard, Lima!Go, Lima!Finish, Lima!NoJob, Lima!NoInst,
    Lima!Command, Lima!SetBase, Lima!Fault, Lima!GiveUp, Lima!Aged, Lima!Private, Lima!Exists, Lima!ModeMatches, Lima!None, None
<1>1. CASE UNCHANGED Lima!vars
  BY <1>1 DEF Lima!vars
<1>2. CASE Lima!EditConfig
  BY <1>2 DEF Lima!EditConfig
<1>3. ASSUME NEW i \in LimaImages, NEW b \in BOOLEAN, Lima!Setup(i, Default, b)
      PROVE  LimaInv'
  BY <1>3 DEF Lima!Setup
<1>4. CASE Lima!CheckImage \/ Lima!BuildGolden
  BY <1>4 DEF Lima!CheckImage, Lima!BuildGolden, Lima!RunBuilder
<1>5. CASE Lima!SwapBase
  BY <1>5 DEF Lima!SwapBase
<1>6. CASE Lima!SaveConfig
  BY <1>6 DEF Lima!SaveConfig
<1>7. CASE Lima!GenerateTemplate
  BY <1>7 DEF Lima!GenerateTemplate
<1>8. CASE Lima!WriteTemplate
  BY <1>8 DEF Lima!WriteTemplate
<1>9. CASE Lima!CheckGuard
  BY <1>9 DEF Lima!CheckGuard, Lima!Guarded
<1>10. CASE Lima!BuildGuard
  BY <1>10 DEF Lima!BuildGuard, Lima!Guarded
<1>11. CASE Lima!WriteStamp
  BY <1>11 DEF Lima!WriteStamp, Lima!Guarded
<1>12. ASSUME NEW n \in Insts, NEW i \in LimaImages, NEW m \in BOOLEAN, Lima!Up(n, i, m)
      PROVE  LimaInv'
  BY <1>12 DEF Lima!Up
<1>13. CASE Lima!CreateVm
  BY <1>13 DEF Lima!CreateVm, Lima!DiskOf
<1>14. CASE Lima!AwaitSsh
  BY <1>14 DEF Lima!AwaitSsh
<1>15. CASE Lima!RecordMode
  <2> DEFINE n == job.inst
  <2>1. pc = "mark" /\ job.verb = "up" /\ n \in Insts /\ UNCHANGED <<base, guarded, stamp, tmpl, cut>>
    BY <1>15 DEF Lima!RecordMode
  <2>2. CASE inst' = inst /\ pc' = "delete" /\ job' = job
    BY <2>1, <2>2
  <2>3. CASE /\ inst' = [inst EXCEPT ![n].marked = Lima!Private, ![n].stale = FALSE]
             /\ pc' = "idle" /\ job' = Lima!NoJob
    <3>1. \A m \in Insts : m # n => inst'[m] = inst[m]
      BY <2>1, <2>3
    <3>2. /\ DOMAIN inst' = DOMAIN inst /\ DOMAIN inst'[n] = DOMAIN inst[n]
          /\ inst'[n].marked = Lima!Private /\ inst'[n].stale = FALSE
          /\ inst'[n].disk = inst[n].disk /\ inst'[n].net = inst[n].net
          /\ inst'[n].mounts = inst[n].mounts /\ inst'[n].spec = inst[n].spec
          /\ inst'[n].vm = inst[n].vm
      <4> HIDE DEF LimaInv, Lima!Private
      <4>. QED
        BY <2>1, <2>3 DEF LimaInv, LimaShape
    <3>3. Lima!Private => inst[n].disk = "guarded" /\ inst[n].net = "private" /\ ~inst[n].mounts
      BY <2>1
    <3> HIDE DEF Lima!Private
    <3>. QED
      BY <2>1, <2>3, <3>1, <3>2, <3>3
  <2>. QED
    BY <1>15, <2>1, <2>2, <2>3 DEF Lima!RecordMode
<1>16. CASE Lima!Boot
  <2> DEFINE n == job.inst
             left(v, s) == inst' = [inst EXCEPT ![n].vm = v, ![n].spec = s]
  <2>1. /\ pc = "boot" /\ pc' = "idle" /\ job' = Lima!NoJob /\ n \in Insts
        /\ UNCHANGED <<base, guarded, stamp, tmpl>>
    BY <1>16 DEF Lima!Boot
  <2> HIDE DEF LimaInv
  <2>2. \/ \E v \in {"Stopped", "Running"} : left(v, job.old) /\ cut' = cut
        \/ \E v \in {"Stopped", "Running"} : left(v, inst[n].spec) /\ cut' = cut \cup {n}
        \/ \E v \in {"Stopped", "Running"} :
             left(v, inst[n].spec) /\ inst[n].spec = "good" /\ cut' = cut \ {n}
    BY <1>16 DEF Lima!Boot, Lima!Boots
  <2> USE DEF LimaInv
  <2>3. PICK v \in {"Stopped", "Running"}, s \in {"good", "bad"} :
          /\ left(v, s)
          /\ \/ s = "good" /\ cut' = cut \ {n}
             \/ s = job.old /\ cut' = cut
             \/ s = inst[n].spec /\ cut' = cut \cup {n}
    <3>1. n \in Insts /\ inst[n].spec \in {"good", "bad"} /\ job.old \in {"good", "bad"}
      BY <2>1
    <3> HIDE DEF LimaInv
    <3>. QED
      BY ONLY <2>2, <3>1
  <2>. QED
    BY <2>1, <2>3
<1>17. ASSUME NEW n \in Insts, Lima!Start(n)
      PROVE  LimaInv'
  BY <1>17 DEF Lima!Start
<1>18. ASSUME NEW n \in Insts, Lima!Stop(n) \/ Lima!Destroy(n)
      PROVE  LimaInv'
  <2>1. CASE Lima!Destroy(n)
    BY <2>1 DEF Lima!Destroy
  <2>2. CASE /\ pc = "idle" /\ inst[n].vm = "Running" /\ inst' = [inst EXCEPT ![n].vm = "Stopped"]
             /\ UNCHANGED <<base, guarded, stamp, tmpl, pc, job, cut>>
    BY <2>2
  <2>. QED
    BY <1>18, <2>1, <2>2 DEF Lima!Stop
<1>19. ASSUME NEW n \in Insts, NEW s \in {"good", "bad"}, NEW b \in BOOLEAN, Lima!SetResources(n, s, b)
      PROVE  LimaInv'
  <2>1. CASE Lima!ModeMatches(n) /\ ~(config = "private" /\ inst[n].yaml)
    <3>1. /\ inst' = [inst EXCEPT ![n].spec = s] /\ inst[n].vm = "Stopped"
          /\ pc = "idle" /\ pc' = "boot"
          /\ job' = [Lima!NoJob EXCEPT !.verb = "resources", !.inst = n, !.start = b,
                                       !.old = inst[n].spec, !.mode = config]
          /\ UNCHANGED <<base, guarded, stamp, tmpl, cut>>
      BY <1>19, <2>1 DEF Lima!SetResources
    <3>2. job'.verb = "resources" /\ job'.inst = n /\ job'.old = inst[n].spec /\ DOMAIN job' = DOMAIN job
      BY <3>1
    <3>. QED
      BY <3>1, <3>2
  <2>2. CASE inst' = inst /\ pc' = pc /\ job' = job
    BY <1>19, <2>2 DEF Lima!SetResources
  <2>. QED
    BY <1>19, <2>1, <2>2, Zenon DEF Lima!SetResources
<1>20. ASSUME NEW n \in Insts, NEW i \in LimaImages, NEW f \in BOOLEAN, Lima!Commit(n, i, f)
      PROVE  LimaInv'
  BY <1>20 DEF Lima!Commit
<1>21. ASSUME NEW n \in Insts, NEW i \in LimaImages, Lima!Restore(n, i)
      PROVE  LimaInv'
  BY <1>21 DEF Lima!Restore
<1>22. CASE Lima!CopyToImage
  BY <1>22 DEF Lima!CopyToImage
<1>23. CASE Lima!CopyToDisk
  <2> DEFINE n == job.inst
  <2>1. /\ pc = "take" /\ job.verb = "restore" /\ n \in Insts /\ job.image \in LimaImages
        /\ UNCHANGED <<base, guarded, stamp, tmpl, cut>>
    BY <1>23 DEF Lima!CopyToDisk
  <2>2. CASE /\ inst' = [inst EXCEPT ![n].disk = IF job.mode = "private" THEN "guarded" ELSE base[job.image]]
             /\ pc' = "lineage" /\ job' = job
    <3>1. LimaShape' /\ LimaJob' /\ LimaPrivate'
      BY <2>1, <2>2
    <3>2. \A m \in Insts : inst'[m].marked = inst[m].marked /\ inst'[m].net = inst[m].net
                           /\ inst'[m].mounts = inst[m].mounts /\ inst'[m].spec = inst[m].spec
                           /\ inst'[m].vm = inst[m].vm /\ inst'[m].stale = inst[m].stale
      BY <2>1, <2>2
    <3>3. \A m \in Insts : m # n => inst'[m].disk = inst[m].disk
      BY <2>1, <2>2
    <3>4. inst[n].marked => inst'[n].disk = "guarded"
      BY <2>1, <2>2
    <3>5. (Lima!PrivateIsGuarded)'
      BY <3>2, <3>3, <3>4
    <3>6. LimaSpecs'
      BY <2>1, <2>2, <3>2
    <3>. QED
      BY <2>1, <2>2, <3>1, <3>5, <3>6
  <2>3. CASE /\ pc' = "idle" /\ job' = Lima!NoJob
             /\ inst' = [inst EXCEPT ![n].disk = "broken"]
    BY <2>1, <2>3
  <2>. QED
    BY <1>23, <2>2, <2>3 DEF Lima!CopyToDisk
<1>24. CASE Lima!SaveLineage
  BY <1>24 DEF Lima!SaveLineage
<1>25. ASSUME NEW i \in LimaImages, Lima!RemoveImage(i)
      PROVE  LimaInv'
  BY <1>25 DEF Lima!RemoveImage
<1>26. CASE Lima!Kill
  <2> DEFINE n == job.inst
  <2>1. /\ pc # "idle" /\ pc' = "idle" /\ job' = Lima!NoJob /\ UNCHANGED tmpl
        /\ pc = "copy" => Lima!SetBase(job.image, "broken")
        /\ pc # "copy" => UNCHANGED <<base, guarded, stamp>>
        /\ cut' = IF pc = "boot" /\ job.verb = "resources" THEN cut \cup {n} ELSE cut
    BY <1>26 DEF Lima!Kill
  <2>2. CASE inst' = inst
    BY <2>1, <2>2
  <2>3. CASE n \in Insts /\ \E v \in Lima!Killed(inst[n]) : inst' = [inst EXCEPT ![n] = v]
    <3>1. PICK v \in Lima!Killed(inst[n]) : inst' = [inst EXCEPT ![n] = v]
      BY <2>3
    <3>2. \A m \in Insts : inst'[m] = IF m = n THEN v ELSE inst[m]
      BY <2>3, <3>1
    <3>3. /\ DOMAIN v = DOMAIN inst[n] /\ v.spec = inst[n].spec
          /\ v.disk \in {inst[n].disk, "broken"} /\ v.net = inst[n].net
          /\ v.mounts = inst[n].mounts /\ v.stale = inst[n].stale
          /\ (v.marked => inst[n].marked)
          /\ inst[n].vm = None => v.vm = None
      <4>1. LimaShape /\ (inst[n].vm = None => pc # "boot")
        BY <2>1
      <4> HIDE DEF LimaInv, LimaShape
      <4>. QED
        BY ONLY <2>3, <3>1, <4>1, KilledOf
    <3>4. LimaShape' /\ LimaJob' /\ LimaPrivate' /\ LimaSpecs'
      <4>1. LimaShape'
        BY <2>1, <2>3, <3>1, <3>2, <3>3
      <4>2. LimaSpecs'
        BY <2>1, <2>3, <3>2, <3>3
      <4>. QED
        BY <2>1, <4>1, <4>2
    <3>5. (Lima!PrivateIsGuarded)'
      BY <2>1, <2>3, <3>2, <3>3
    <3>. QED
      BY <2>1, <3>4, <3>5
  <2>. QED
    BY <1>26, <2>1, <2>2, <2>3 DEF Lima!Kill
<1>27. CASE Lima!DeleteVm
  <2> DEFINE n == job.inst
  <2>1. /\ pc = "delete" /\ n \in Insts /\ UNCHANGED <<base, guarded, stamp, tmpl, cut>>
    BY <1>27 DEF Lima!DeleteVm
  <2>2. CASE /\ inst' = [inst EXCEPT ![n] = Lima!WithoutVm(@)]
             /\ pc' = "rmdir" /\ job' = job
    BY <2>1, <2>2 DEF Lima!WithoutVm
  <2>3. CASE /\ pc' = "idle" /\ job' = Lima!NoJob /\ inst[n].vm # None
             /\ \E v \in Lima!HalfDeleted(inst[n]) : inst' = [inst EXCEPT ![n] = v]
    BY <2>1, <2>3 DEF Lima!HalfDeleted
  <2>. QED
    BY <1>27, <2>1, <2>2, <2>3 DEF Lima!DeleteVm
<1>28. CASE Lima!RemoveDir
  <2> DEFINE n == job.inst
  <2>1. /\ pc = "rmdir" /\ n \in Insts /\ pc' = "idle" /\ job' = Lima!NoJob
        /\ cut' = cut \ {n} /\ UNCHANGED <<base, guarded, stamp, tmpl>>
    BY <1>28 DEF Lima!RemoveDir
  <2>2. CASE inst' = [inst EXCEPT ![n] = Lima!NoInst]
    BY <2>1, <2>2
  <2>3. CASE \E v \in Lima!HalfRemoved(inst[n]) : inst' = [inst EXCEPT ![n] = v]
    <3>1. PICK v \in Lima!HalfRemoved(inst[n]) : inst' = [inst EXCEPT ![n] = v]
      BY <2>3
    <3>2. /\ DOMAIN v = DOMAIN inst[n] /\ v.spec = inst[n].spec
          /\ v.disk \in {inst[n].disk, "broken"} /\ v.net = inst[n].net
          /\ v.mounts = inst[n].mounts /\ v.stale = inst[n].stale
          /\ (v.marked => inst[n].marked) /\ (inst[n].vm = None => v.vm = None)
      <4>1. LimaShape /\ pc = "rmdir" /\ v \in Lima!Killed(inst[n])
        BY <2>1 DEF Lima!Killed
      <4> HIDE DEF LimaInv, LimaShape
      <4>. QED
        BY ONLY <2>1, <4>1, KilledOf
    <3>. QED
      BY <2>1, <3>1, <3>2
  <2>. QED
    BY <1>28, <2>1, <2>2, <2>3 DEF Lima!RemoveDir
<1> HIDE DEF LimaInv
<1>. QED
  BY <1>1, <1>2, <1>3, <1>4, <1>5, <1>6, <1>7, <1>8, <1>9, <1>10, <1>11, <1>12, <1>13, <1>14,
     <1>15, <1>16, <1>17, <1>18, <1>19, <1>20, <1>21, <1>22, <1>23, <1>24, <1>25, <1>26,
     <1>27, <1>28
  DEF Lima!Next

LimaPart == part = "lima" => LimaInv

LEMMA LimaPartHolds == Spec => []LimaPart
<1>1. [Next]_vars /\ part = "lima" => [Lima!Next]_(Lima!vars)
  BY OnlyItsSteps DEF StepLima, vars, limaVars, Lima!vars
<1>2. Init => LimaPart
  BY LimaInit DEF Init, LimaPart
<1>3. LimaPart /\ [Next]_vars => LimaPart'
  BY <1>1, SamePart, LimaStep DEF LimaPart
<1>. QED
  BY <1>2, <1>3, PTL DEF Spec

\* An instance that says private egress has the guarded disk and network and no mounts, a
\* guarded image is of the base it is stamped with, and a failed reconfiguration leaves
\* what booted before, for any images and instances (src/src/lima.rs).
THEOREM PrivateStaysGuarded == Spec => []PrivateIsGuarded
<1>1. LimaPart => PrivateIsGuarded
  BY DEF LimaPart, LimaInv, LimaSpecs, PrivateIsGuarded, Lima!SpecBooted
<1>. QED
  BY <1>1, LimaPartHolds, PTL
-----------------------------------------------------------------------------
(* Claude and Codex in a guest *)

AgentShape ==
  /\ DOMAIN guest = {"claude", "codex", "keyring", "auth"}
  /\ guest.keyring \in BOOLEAN /\ guest.auth \in BOOLEAN
  /\ DOMAIN image = {"claude", "codex", "keyring", "auth"}
  /\ image.keyring \in BOOLEAN /\ image.auth \in BOOLEAN
  /\ DOMAIN model = {"mode", "codex", "keyring"}
  /\ model.codex \in BOOLEAN /\ model.keyring \in BOOLEAN
  /\ cfg \in AgentConfigs /\ proxies \subseteq Agent!Agents
  /\ todo \subseteq {"auth", "conf"} /\ astray \subseteq {"disk", "keyring"}
  /\ pc # "idle" \/ last = "ok" => vm = "running"

\* The steps of a bootstrap that come after each of what it settles.
ByCopy == {"copy", "keyring", "install"}
AfterRemember == {"check", "remove", "stage"} \cup ByCopy
AfterProxy == {"remember"} \cup AfterRemember
AfterSettings == {"plugins", "codex"} \cup AfterProxy
Ended == pc = "idle" /\ last = "ok"

\* The agents whose proxy and files are as the configuration says.
AgentRoutes ==
  /\ pc \in {"settings"} \cup AfterSettings \/ Ended =>
       (Agent!Proxied("claude") <=> "claude" \in proxies)
  /\ pc \in AfterSettings \/ Ended => guest.claude = Agent!Route("claude")
  /\ pc \in AfterProxy \/ Ended => (Agent!Proxied("codex") <=> "codex" \in proxies)
  /\ pc \in AfterRemember /\ Agent!Route("codex") # "cloud" => model.codex
  /\ pc \in {"keyring", "install"} \/ Ended =>
       /\ "disk" \notin astray => guest.codex = Agent!Route("codex")
       /\ astray = {} => guest.keyring = cfg.account
  /\ pc \in {"stage"} \cup ByCopy \/ Ended => (Agent!Proxied("codex") => ~guest.auth)

\* What coop knows of the Codex files of the guest: that a block was written, and the
\* keyring setting, but for the moment between writing and recording it.
AgentKnows ==
  /\ "disk" \notin astray /\ guest.codex # "cloud" => model.codex
  /\ astray = {} /\ guest.keyring # model.keyring =>
       pc = "copy" /\ Agent!NeedsRewrite /\ "conf" \notin todo

\* What is copied, and what of it has arrived.
AgentCopies ==
  pc = "copy" =>
    /\ "conf" \in todo => Agent!NeedsRewrite
    /\ Agent!NeedsRewrite /\ "conf" \notin todo =>
         guest.codex = Agent!Route("codex") /\ guest.keyring = cfg.account
    /\ Agent!Proxied("codex") => "auth" \notin todo

AgentInv == AgentShape /\ AgentRoutes /\ AgentKnows /\ AgentCopies

LEMMA AgentInit == Agent!Init => AgentInv
BY DEF Agent!Init, Agent!Fresh, Agent!NoModel, AgentInv, AgentShape, AgentRoutes, AgentKnows,
   AgentCopies, AfterSettings, AfterProxy, AfterRemember, ByCopy, Ended

LEMMA AgentStep ==
  ASSUME AgentInv, [Agent!Next]_(Agent!vars)
  PROVE  AgentInv'
<1>. /\ cfg.account \in BOOLEAN /\ cfg.conf \in BOOLEAN /\ cfg.auth \in BOOLEAN
  BY PartsAssumption DEF Agent!BootstrapAssumption, AgentInv, AgentShape
<1> USE DEF AgentInv, AgentShape, AgentRoutes, AgentKnows, AgentCopies, AfterSettings, AfterProxy,
    AfterRemember, ByCopy, Ended, Agent!Go, Agent!End, Agent!Idle, Agent!FailTo, Agent!Agents,
    Agent!Proxied, Agent!Local, Agent!Route, Agent!NeedsRewrite, Agent!ManagesLocal,
    Agent!Fresh, Agent!NoModel
<1>1. CASE UNCHANGED Agent!vars
  BY <1>1 DEF Agent!vars
<1>2. CASE Agent!EditConfig
  BY <1>2 DEF Agent!EditConfig
<1>3. CASE Agent!Up
  BY <1>3 DEF Agent!Up, Agent!Begin
<1>4. CASE Agent!Start
  BY <1>4 DEF Agent!Start, Agent!Begin
<1>5. CASE Agent!Stop
  BY <1>5 DEF Agent!Stop
<1>6. CASE Agent!Destroy
  BY <1>6 DEF Agent!Destroy
<1>7. CASE Agent!Commit
  BY <1>7 DEF Agent!Commit
<1>8. CASE Agent!Restore
  BY <1>8 DEF Agent!Restore
<1>9. ASSUME NEW m \in {"remote", "local"}, Agent!SwitchModel(m)
      PROVE  AgentInv'
  <2>1. pc = "idle" /\ UNCHANGED <<cfg, vm, guest, image, proxies, astray>>
    BY <1>9 DEF Agent!SwitchModel
  <2>2. CASE UNCHANGED <<model, pc, todo, last>>
    BY <2>1, <2>2
  <2>3. CASE /\ DOMAIN model' = DOMAIN model /\ model'.keyring = model.keyring
             /\ model'.codex \in BOOLEAN /\ (model.codex => model'.codex)
             /\ IF vm = "running" THEN pc' = "claude" ELSE pc' = pc
             /\ UNCHANGED <<todo, last>>
    BY <2>1, <2>3
  <2>4. ASSUME NEW c \in BOOLEAN, model.codex => c, model' = [model EXCEPT !.mode = m, !.codex = c]
        PROVE  /\ DOMAIN model' = DOMAIN model /\ model'.keyring = model.keyring
               /\ model'.codex \in BOOLEAN /\ (model.codex => model'.codex)
    BY <2>4
  <2>5. (model.codex \/ (m = "local" /\ "codex" \in cfg.local)) \in BOOLEAN
    OBVIOUS
  <2>. QED
    BY <1>9, <2>2, <2>3, <2>4, <2>5 DEF Agent!SwitchModel
<1>10. CASE Agent!ProxyClaude
  BY <1>10 DEF Agent!ProxyClaude
<1>11. CASE Agent!WriteSettings
  BY <1>11 DEF Agent!WriteSettings
<1>12. CASE Agent!InstallPlugins
  BY <1>12 DEF Agent!InstallPlugins
<1>13. CASE Agent!ProxyCodex
  BY <1>13 DEF Agent!ProxyCodex
<1>14. CASE Agent!Remember
  <2>1. pc = "remember" /\ UNCHANGED <<cfg, vm, guest, image, first, astray>>
    BY <1>14 DEF Agent!Remember
  <2>2. CASE /\ model' = [model EXCEPT !.codex = @ \/ Agent!Route("codex") # "cloud"]
             /\ pc' = "check" /\ UNCHANGED <<todo, last, proxies>>
    <3>1. CASE model.codex \/ Agent!Route("codex") # "cloud"
      <4>1. model' = [model EXCEPT !.codex = TRUE]
        BY <2>2, <3>1, Zenon
      <4>. QED
        BY <2>1, <2>2, <4>1
    <3>2. CASE ~model.codex /\ Agent!Route("codex") = "cloud"
      <4>1. model' = [model EXCEPT !.codex = FALSE]
        BY <2>2, <3>2, Zenon
      <4>. QED
        BY <2>1, <2>2, <3>2, <4>1
    <3>. QED
      BY <3>1, <3>2
  <2>3. CASE Agent!FailTo("codex") /\ model' = model
    BY <2>1, <2>3
  <2>. QED
    BY <1>14, <2>2, <2>3 DEF Agent!Remember
<1>15. CASE Agent!CheckCodex
  BY <1>15 DEF Agent!CheckCodex, Agent!NeedsCodex
<1>16. CASE Agent!RemoveAuth
  BY <1>16 DEF Agent!RemoveAuth
<1>17. CASE Agent!StageFiles
  BY <1>17 DEF Agent!StageFiles
<1>18. CASE Agent!CopyFile
  <2>1. /\ pc = "copy" /\ UNCHANGED <<cfg, model, vm, image, first>>
    BY <1>18 DEF Agent!CopyFile
  <2>2. ASSUME "auth" \in todo, todo' = todo \ {"auth"}, guest' = [guest EXCEPT !.auth = TRUE],
               UNCHANGED <<pc, last, proxies, astray>>
        PROVE  AgentInv'
    BY <2>1, <2>2
  <2>3. ASSUME "conf" \in todo, todo' = todo \ {"conf"}, astray' = {},
               guest' = [guest EXCEPT !.codex = Agent!Route("codex"), !.keyring = cfg.account],
               UNCHANGED <<pc, last, proxies>>
        PROVE  AgentInv'
    BY <2>1, <2>3
  <2>4. ASSUME pc' = "idle", todo' = {}, last' = "failed", proxies' = proxies \ {"codex"},
               guest' = guest,
               astray' = astray \cup (IF guest.keyring # model.keyring THEN {"keyring"} ELSE {})
        PROVE  AgentInv'
    BY <2>1, <2>4
  <2>5. ASSUME NEW f \in todo, todo' = todo \ {f}, UNCHANGED <<pc, last, proxies, faults>>,
               guest' = IF f = "auth" THEN [guest EXCEPT !.auth = TRUE]
                        ELSE [guest EXCEPT !.codex = Agent!Route("codex"), !.keyring = cfg.account],
               astray' = IF f = "conf" THEN {} ELSE astray
        PROVE  AgentInv'
    BY <2>2, <2>3, <2>5
  <2>. QED
    BY <1>18, <2>4, <2>5 DEF Agent!CopyFile
<1>19. CASE Agent!RecordKeyring
  BY <1>19 DEF Agent!RecordKeyring
<1>20. CASE Agent!RemoveAccountAuth
  <2>1. pc = "keyring" /\ UNCHANGED <<cfg, model, vm, image, proxies, first, astray>>
    BY <1>20 DEF Agent!RemoveAccountAuth
  <2>2. /\ DOMAIN guest' = DOMAIN guest /\ guest'.claude = guest.claude
        /\ guest'.codex = guest.codex /\ guest'.keyring = guest.keyring
        /\ guest'.auth \in BOOLEAN /\ (guest'.auth => guest.auth)
    <3>1. CASE cfg.account /\ guest' = [guest EXCEPT !.auth = @ /\ ~cfg.account]
      <4>1. guest' = [guest EXCEPT !.auth = FALSE]
        BY <3>1, Zenon
      <4>. QED
        BY <4>1
    <3>2. CASE guest' = guest
      BY <3>2
    <3>3. CASE ~cfg.account /\ guest' = [guest EXCEPT !.auth = @ /\ ~cfg.account]
      BY <3>3
    <3>. QED
      BY <1>20, <3>1, <3>2, <3>3 DEF Agent!RemoveAccountAuth
  <2>3. \/ pc' = "install" /\ UNCHANGED <<todo, last>>
        \/ pc' = "idle" /\ todo' = {} /\ last' = "ok"
    <3>1. CASE first
      BY <1>20, <3>1, Zenon DEF Agent!RemoveAccountAuth
    <3>2. CASE ~first
      BY <1>20, <3>2, Zenon DEF Agent!RemoveAccountAuth
    <3>. QED
      BY <3>1, <3>2
  <2>4. UNCHANGED proxies
    BY <1>20 DEF Agent!RemoveAccountAuth
  <2>. QED
    BY <2>1, <2>2, <2>3, <2>4
<1>21. CASE Agent!InstallCodexPlugins
  BY <1>21 DEF Agent!InstallCodexPlugins
<1>22. CASE Agent!Kill
  BY <1>22 DEF Agent!Kill
<1> HIDE DEF AgentInv
<1>. QED
  BY <1>1, <1>2, <1>3, <1>4, <1>5, <1>6, <1>7, <1>8, <1>9, <1>10, <1>11, <1>12, <1>13, <1>14, <1>15, <1>16, <1>17, <1>18, <1>19, <1>20, <1>21, <1>22
  DEF Agent!Next

AgentPart == part = "agents" => AgentInv

LEMMA AgentPartHolds == Spec => []AgentPart
<1>1. [Next]_vars /\ part = "agents" => [Agent!Next]_(Agent!vars)
  BY OnlyItsSteps DEF StepAgent, vars, agentsVars, Agent!vars
<1>2. Init => AgentPart
  BY AgentInit DEF Init, AgentPart
<1>3. AgentPart /\ [Next]_vars => AgentPart'
  BY <1>1, SamePart, AgentStep DEF AgentPart
<1>. QED
  BY <1>2, <1>3, PTL DEF Spec

\* However mode, proxies and account were switched and whatever failed before: after a
\* bootstrap that succeeded both agents go where the configuration says, and Codex has no
\* login of the host behind a proxy (src/src/backend.rs).
THEOREM BootstrapFollowsConfig == Spec => []GuestFollowsConfig
<1>1. AgentInv => Agent!GuestFollowsConfig /\ Agent!NoHostLogin
  BY DEF AgentInv, AgentRoutes, Ended, Agent!GuestFollowsConfig, Agent!NoHostLogin,
     Agent!Settled, Agent!Idle, Agent!Agents
<1>. QED
  BY <1>1, AgentPartHolds, PTL DEF AgentPart, GuestFollowsConfig
-----------------------------------------------------------------------------
(* push and pull *)

SyncBound == MaxFaults \in Nat
LEMMA SyncBounded == SyncBound
BY PartsAssumption DEF Sync!WorkspaceAssumption, SyncBound

\* What becomes of a tree is a tree.
LEMMA TreesOf ==
  /\ Sync!Plain \in Sync!Trees
  /\ \A g, u \in BOOLEAN : [Sync!Plain EXCEPT !.git = g, !.upstream = u] \in Sync!Trees
  /\ \A t \in Sync!Trees :
       /\ \A w \in Pieces : /\ [t EXCEPT !.work = @ \cup {w}] \in Sync!Trees
                            /\ [t EXCEPT !.files = @ \cup {w}] \in Sync!Trees
                            /\ [t EXCEPT !.ignored = @ \cup {w}] \in Sync!Trees
       /\ [t EXCEPT !.up = @ \cup t.head] \in Sync!Trees
       /\ [Sync!Plain EXCEPT !.git = TRUE, !.files = t.work \cup t.files, !.ignored = t.ignored]
            \in Sync!Trees
BY DEF Sync!Trees, Sync!Plain

LEMMA CommittedOf ==
  ASSUME NEW t \in Sync!Trees, NEW new \in SUBSET t.files
  PROVE  [t EXCEPT !.head = t.work \cup new, !.work = @ \cup new, !.files = @ \ new] \in Sync!Trees
BY DEF Sync!Trees

LEMMA SwitchedOf ==
  ASSUME NEW t \in Sync!Trees, NEW b \in SUBSET Sync!Commits(t), NEW u \in BOOLEAN
  PROVE  [t EXCEPT !.head = b, !.work = b, !.others = Sync!Commits(t) \ b, !.upstream = u]
           \in Sync!Trees
BY DEF Sync!Trees, Sync!Commits

LEMMA CloneOf ==
  ASSUME NEW t \in Sync!Trees
  PROVE  Sync!Cloned(t) \in Sync!Trees
BY DEF Sync!Trees, Sync!Cloned, Sync!Plain

LEMMA ArrivedOf ==
  ASSUME NEW from \in Sync!Trees, NEW to \in Sync!Trees, NEW parts, NEW deletes \in BOOLEAN,
         NEW kept \in SUBSET Pieces
  PROVE  /\ Sync!Arrives(from, to, parts, deletes, kept) \in Sync!Trees
         /\ "git" \notin parts =>
              Sync!Commits(Sync!Arrives(from, to, parts, deletes, kept)) = Sync!Commits(to)
<1> DEFINE repo == IF "git" \notin parts \/ ~(from.git \/ deletes) THEN to
                   ELSE [from EXCEPT !.others =
                           @ \cup IF deletes THEN {} ELSE (kept \cap Sync!Commits(to)) \ from.head]
           work == IF "work" \in parts THEN from.work ELSE to.work
           files == IF "files" \notin parts THEN to.files
                    ELSE from.files \cup IF deletes THEN {} ELSE kept \cap to.files
           ignored == IF "files" \notin parts THEN to.ignored
                      ELSE kept \cap (from.ignored \cup to.ignored)
<1>1. repo \in Sync!Trees /\ ("git" \notin parts => repo = to)
  BY DEF Sync!Trees, Sync!Commits
<1>2. work \in SUBSET Pieces /\ files \in SUBSET Pieces /\ ignored \in SUBSET Pieces
  BY DEF Sync!Trees
<1>3. Sync!Arrives(from, to, parts, deletes, kept) =
        [repo EXCEPT !.work = work, !.files = files \ work, !.ignored = ignored \ (work \cup files)]
  BY DEF Sync!Arrives
<1> HIDE DEF repo, work, files, ignored
<1>. QED
  BY <1>1, <1>2, <1>3 DEF Sync!Trees, Sync!Commits

SyncTyped ==
  /\ tree \in [Sync!Sides -> Sync!Trees] /\ seen \in Sync!Trees
  /\ done \subseteq Pieces /\ state \in {None, "/workspace", "elsewhere"}
  /\ pc \in {"idle", "check", "transfer"} /\ job \in Sync!Jobs /\ faults \in 0..MaxFaults

LEMMA SyncTypes == SyncTyped => Sync!TypeOK
BY SMTT(20) DEF SyncTyped, Sync!TypeOK, Sync!None, None

LEMMA SyncTypeInit == Sync!Init => SyncTyped
<1> SUFFICES ASSUME Sync!Init PROVE SyncTyped
  OBVIOUS
<1>1. tree \in [Sync!Sides -> Sync!Trees]
  <2>1. PICK g, u \in BOOLEAN :
          tree = [s \in Sync!Sides |->
                    IF s = "host" THEN [Sync!Plain EXCEPT !.git = g, !.upstream = g /\ u]
                    ELSE Sync!Plain]
    BY DEF Sync!Init
  <2>2. [Sync!Plain EXCEPT !.git = g, !.upstream = g /\ u] \in Sync!Trees
    BY DEF Sync!Trees, Sync!Plain
  <2>. QED
    BY <2>1, <2>2, TreesOf
<1>2. seen \in Sync!Trees /\ job = Sync!NoJob /\ pc = "idle" /\ done = {} /\ faults = 0
      /\ state = None
  BY TreesOf DEF Sync!Init, Sync!None, None
<1>3. job \in Sync!Jobs
  BY <1>2 DEF Sync!Jobs, Sync!NoJob
<1>. QED
  BY <1>1, <1>2, <1>3, SyncBounded DEF SyncTyped, SyncBound

\* What the user and the agent make of a directory between two steps of a command.
SyncUser(s) == Sync!Edit(s) \/ Sync!CommitWork(s) \/ Sync!SwitchBranch(s) \/ Sync!Publish(s)

LEMMA SyncUserTypes ==
  ASSUME SyncTyped, NEW s \in Sync!Sides, SyncUser(s)
  PROVE  /\ \E t \in Sync!Trees : tree' = [tree EXCEPT ![s] = t]
         /\ done' \subseteq Pieces /\ UNCHANGED <<state, pc, job, seen, faults>>
<1> DEFINE Goal == /\ \E t \in Sync!Trees : tree' = [tree EXCEPT ![s] = t]
                   /\ done' \subseteq Pieces /\ UNCHANGED <<state, pc, job, seen, faults>>
<1>. tree[s] \in Sync!Trees /\ done \subseteq Pieces
  BY DEF SyncTyped
<1>1. CASE Sync!Edit(s)
  BY <1>1, TreesOf DEF Sync!Edit, Sync!Changes
<1>2. CASE Sync!CommitWork(s)
  BY <1>2, CommittedOf DEF Sync!CommitWork, Sync!Changes
<1>3. CASE Sync!SwitchBranch(s)
  BY <1>3, SwitchedOf DEF Sync!SwitchBranch, Sync!Changes
<1>4. CASE Sync!Publish(s)
  BY <1>4, TreesOf DEF Sync!Publish, Sync!Changes
<1>. QED
  BY <1>1, <1>2, <1>3, <1>4 DEF SyncUser

\* What a transfer does to its destination; without .git it leaves the commits.
LEMMA TransferTypes ==
  ASSUME SyncTyped, Sync!Transfer
  PROVE  /\ tree' = tree \/ \E t \in Sync!Trees :
              /\ tree' = [tree EXCEPT ![Sync!Dest] = t]
              /\ job.exclude_git => Sync!Commits(t) = Sync!Commits(tree[Sync!Dest])
         /\ faults' \in 0..MaxFaults /\ seen' = Sync!Plain /\ job' = Sync!NoJob /\ pc' = "idle"
         /\ UNCHANGED <<done, state>>
<1>1. Sync!Dest \in Sync!Sides /\ tree[Sync!Source] \in Sync!Trees /\ tree[Sync!Dest] \in Sync!Trees
  BY DEF SyncTyped, Sync!Sides, Sync!Source, Sync!Dest
<1>2. PICK rsync \in BOOLEAN, parts \in SUBSET Sync!Parts(job.exclude_git), kept \in SUBSET Pieces :
        tree' = tree \/ tree' = [tree EXCEPT ![Sync!Dest] =
          Sync!Arrives(tree[Sync!Source], tree[Sync!Dest], parts, rsync /\ job.verb = "push", kept)]
  BY DEF Sync!Transfer
<1>3. job.exclude_git => "git" \notin parts
  BY DEF Sync!Parts
<1>4. faults' \in 0..MaxFaults /\ seen' = Sync!Plain /\ job' = Sync!NoJob /\ pc' = "idle"
      /\ UNCHANGED <<done, state>>
  BY SyncBounded DEF Sync!Transfer, Sync!Fault, Sync!Idle, SyncTyped, SyncBound
<1> DEFINE deletes == rsync /\ job.verb = "push"
           t == Sync!Arrives(tree[Sync!Source], tree[Sync!Dest], parts, deletes, kept)
<1>5. tree' = tree \/ tree' = [tree EXCEPT ![Sync!Dest] = t]
  BY <1>2
<1>6. deletes \in BOOLEAN
  OBVIOUS
<1> HIDE DEF deletes
<1>7. t \in Sync!Trees /\ (job.exclude_git => Sync!Commits(t) = Sync!Commits(tree[Sync!Dest]))
  BY <1>1, <1>3, <1>6, ArrivedOf
<1> HIDE DEF t
<1>. QED
  BY ONLY <1>4, <1>5, <1>7

LEMMA SyncTypeStep == SyncTyped /\ [Sync!Next]_(Sync!vars) => SyncTyped'
<1> SUFFICES ASSUME SyncTyped, [Sync!Next]_(Sync!vars) PROVE SyncTyped'
  OBVIOUS
<1>. MaxFaults \in Nat
  BY SyncBounded DEF SyncBound
<1> USE DEF SyncTyped
<1>0. tree["host"] \in Sync!Trees /\ tree["guest"] \in Sync!Trees
      /\ Sync!Dest \in Sync!Sides /\ Sync!NoJob \in Sync!Jobs
  BY DEF Sync!Sides, Sync!Dest, Sync!NoJob, Sync!Jobs
<1>1. CASE UNCHANGED Sync!vars
  BY <1>1 DEF Sync!vars
<1>2. ASSUME NEW s \in Sync!Sides, SyncUser(s) PROVE SyncTyped'
  BY <1>2, SyncUserTypes
<1>3. CASE Sync!InitRepository
  BY <1>0, <1>3, TreesOf DEF Sync!InitRepository, Sync!Changes
<1>4. CASE Sync!Up
  <2>1. /\ \E t \in Sync!Trees : tree' = [tree EXCEPT !["guest"] = t]
        /\ state' \in {None, "/workspace", "elsewhere"}
    BY <1>0, <1>4, CloneOf, ArrivedOf DEF Sync!Up
  <2>. QED
    BY <1>4, <2>1 DEF Sync!Up
<1>5. CASE Sync!Command
  BY <1>5 DEF Sync!Command
<1>6. CASE Sync!Check
  <2>1. seen' \in Sync!Trees /\ job' \in Sync!Jobs /\ pc' \in {"idle", "transfer"}
    BY <1>0, <1>6, TreesOf DEF Sync!Check, Sync!Idle
  <2>. QED
    BY <1>6, <2>1 DEF Sync!Check
<1>7. CASE Sync!CheckFails
  BY <1>7 DEF Sync!CheckFails, Sync!Fault
<1>8. CASE Sync!Transfer
  BY <1>0, <1>8, TransferTypes, TreesOf
<1>. QED
  BY <1>1, <1>2, <1>3, <1>4, <1>5, <1>6, <1>7, <1>8 DEF Sync!Next, SyncUser

\* What a command without --force has seen passed its check, if it saw anything; and of
\* what it saw the commits are there still.
SyncInv ==
  /\ pc # "transfer" => seen = Sync!Plain
  /\ seen # Sync!Plain =>
       IF job.verb = "push" THEN ~Sync!check_guest_dirty(seen) ELSE ~Sync!check_local_dirty(seen)
  /\ seen.git =>
       /\ tree[Sync!Dest].git /\ tree[Sync!Dest].head \subseteq tree[Sync!Dest].work
       /\ Sync!Commits(seen) \subseteq Sync!Commits(tree[Sync!Dest])

LEMMA SyncInit == Sync!Init => SyncInv
BY DEF Sync!Init, Sync!Plain, SyncInv

\* The user and the agent take no work away, and no commit, but what a transfer of the
\* tracked files alone had undone.
LEMMA UserKeeps ==
  ASSUME SyncTyped, NEW s \in Sync!Sides, SyncUser(s), NEW d \in Sync!Sides,
         tree[d].git, tree[d].head \subseteq tree[d].work
  PROVE  /\ tree'[d].git /\ tree'[d].head \subseteq tree'[d].work
         /\ Sync!Commits(tree[d]) \subseteq Sync!Commits(tree'[d])
         /\ Sync!Holds(tree[d]) \subseteq Sync!Holds(tree'[d])
<1>. tree[s] \in Sync!Trees /\ tree[d] \in Sync!Trees /\ DOMAIN tree = Sync!Sides
  BY DEF SyncTyped
<1>1. CASE s # d
  BY <1>1, SyncUserTypes DEF SyncTyped
<1>2. CASE s = d
  <2> DEFINE t == tree[d]
  <2>1. CASE Sync!Edit(s)
    <3>1. \E w \in Pieces : tree'[d] \in {[t EXCEPT !.work = @ \cup {w}], [t EXCEPT !.files = @ \cup {w}],
                                         [t EXCEPT !.ignored = @ \cup {w}]}
      BY <1>2, <2>1 DEF Sync!Edit, Sync!Changes
    <3>. QED
      BY <3>1 DEF Sync!Commits, Sync!Holds, Sync!Trees
  <2>2. CASE Sync!CommitWork(s)
    <3>1. PICK new \in SUBSET t.files :
            tree'[d] = [t EXCEPT !.head = t.work \cup new, !.work = @ \cup new, !.files = @ \ new]
      BY <1>2, <2>2 DEF Sync!CommitWork, Sync!Changes
    <3>. QED
      BY <3>1 DEF Sync!Commits, Sync!Holds, Sync!Trees
  <2>3. CASE Sync!SwitchBranch(s)
    <3>1. PICK b \in SUBSET Sync!Commits(t), u \in BOOLEAN :
            tree'[d] = [t EXCEPT !.head = b, !.work = b, !.others = Sync!Commits(t) \ b, !.upstream = u]
      BY <1>2, <2>3 DEF Sync!SwitchBranch, Sync!Changes
    <3>2. t.work = t.head
      BY <1>2, <2>3 DEF Sync!SwitchBranch
    <3>. QED
      BY <3>1, <3>2 DEF Sync!Commits, Sync!Holds, Sync!Trees
  <2>4. CASE Sync!Publish(s)
    <3>1. tree'[d] = [t EXCEPT !.up = @ \cup t.head]
      BY <1>2, <2>4 DEF Sync!Publish, Sync!Changes
    <3>. QED
      BY <3>1 DEF Sync!Commits, Sync!Holds, Sync!Trees
  <2>. QED
    BY <2>1, <2>2, <2>3, <2>4 DEF SyncUser
<1>. QED
  BY <1>1, <1>2

LEMMA SyncStep ==
  ASSUME SyncTyped, SyncInv, [Sync!Next]_(Sync!vars)
  PROVE  SyncInv' /\ [Sync!LosesUnguarded]_tree
<1> DEFINE Done == SyncInv' /\ [Sync!LosesUnguarded]_tree
<1>0. /\ Sync!Dest \in Sync!Sides /\ job.verb \in {"push", "pull"}
      /\ ~Sync!Plain.git /\ Sync!NoJob.verb \in {"push", "pull"}
  BY DEF SyncTyped, Sync!Dest, Sync!Sides, Sync!Jobs, Sync!Plain, Sync!NoJob
<1>1. CASE UNCHANGED Sync!vars
  <2>1. SyncInv'
    BY <1>1 DEF Sync!vars, SyncInv, Sync!Dest
  <2>. QED
    BY <1>1, <2>1 DEF Sync!vars
<1>2. ASSUME NEW s \in Sync!Sides, SyncUser(s) PROVE Done
  <2>1. UNCHANGED <<pc, job, seen>> /\ Sync!Dest' = Sync!Dest
    BY <1>2, SyncUserTypes DEF Sync!Dest
  <2>2. CASE seen.git
    <3>1. /\ tree'[Sync!Dest].git /\ tree'[Sync!Dest].head \subseteq tree'[Sync!Dest].work
          /\ Sync!Commits(tree[Sync!Dest]) \subseteq Sync!Commits(tree'[Sync!Dest])
          /\ Sync!Holds(tree[Sync!Dest]) \subseteq Sync!Holds(tree'[Sync!Dest])
      BY <1>0, <1>2, <2>2, UserKeeps DEF SyncInv
    <3>. QED
      BY <2>1, <2>2, <3>1 DEF SyncInv, Sync!LosesUnguarded
  <2>3. CASE ~seen.git
    BY <2>1, <2>3 DEF SyncInv, Sync!LosesUnguarded
  <2>. QED
    BY <2>2, <2>3
<1>3. CASE Sync!InitRepository
  <2>1. UNCHANGED <<pc, job, seen>> /\ Sync!Dest' = Sync!Dest
        /\ ~tree["guest"].git /\ tree' = [tree EXCEPT !["guest"] = tree'["guest"]]
    BY <1>3 DEF Sync!InitRepository, Sync!Changes, Sync!Dest, SyncTyped, Sync!Sides
  <2>2. CASE seen.git
    <3>1. Sync!Dest # "guest"
      BY <2>1, <2>2 DEF SyncInv
    <3>2. tree'[Sync!Dest] = tree[Sync!Dest]
      BY <1>0, <2>1, <3>1 DEF SyncTyped
    <3>. QED
      BY <2>1, <3>2 DEF SyncInv, Sync!LosesUnguarded
  <2>3. CASE ~seen.git
    BY <2>1, <2>3 DEF SyncInv, Sync!LosesUnguarded
  <2>. QED
    BY <2>2, <2>3
<1>4. CASE Sync!Up
  <2>1. UNCHANGED <<pc, job, seen>> /\ pc = "idle"
    BY <1>4 DEF Sync!Up
  <2>. QED
    BY <1>0, <2>1 DEF SyncInv, Sync!LosesUnguarded
<1>5. CASE Sync!Command
  <2>1. pc = "idle" /\ seen' = seen /\ tree' = tree
    BY <1>5 DEF Sync!Command
  <2>. QED
    BY <1>0, <2>1 DEF SyncInv
<1>6. CASE Sync!Check
  <2>1. CASE Sync!Dirty
    BY <1>0, <1>6, <2>1 DEF Sync!Check, Sync!Idle, SyncInv
  <2>2. CASE ~Sync!Dirty
    <3>1. pc' = "transfer" /\ seen' = tree[Sync!Dest] /\ job' = job /\ tree' = tree
          /\ Sync!Dest' = Sync!Dest
      BY <1>6, <2>2 DEF Sync!Check, Sync!Dest
    <3>2. IF job.verb = "push" THEN ~Sync!check_guest_dirty(tree[Sync!Dest])
          ELSE ~Sync!check_local_dirty(tree[Sync!Dest])
      BY <2>2 DEF Sync!Dirty, Sync!Dest
    <3>3. tree[Sync!Dest].git => tree[Sync!Dest].work = tree[Sync!Dest].head
      BY <3>2 DEF Sync!check_guest_dirty, Sync!check_local_dirty
    <3>. QED
      BY <3>1, <3>2, <3>3 DEF SyncInv
  <2>. QED
    BY <2>1, <2>2
<1>7. CASE Sync!CheckFails
  <2>1. pc = "check" /\ UNCHANGED <<tree, job, seen>>
    BY <1>7 DEF Sync!CheckFails
  <2>. QED
    BY <1>0, <2>1 DEF SyncInv
<1>8. CASE Sync!Transfer
  <2>1. SyncInv'
    BY <1>0, <1>8, TransferTypes DEF SyncInv
  <2>2. [Sync!LosesUnguarded]_tree
    <3> SUFFICES ASSUME pc = "transfer", ~job.force, tree' # tree,
                        NEW w \in Sync!Holds(tree[Sync!Dest]),
                        w \notin Sync!Holds(tree'[Sync!Dest]), w \in Sync!Holds(seen), seen.git
                 PROVE  \/ w \in seen.ignored
                        \/ w \in seen.files /\ job.verb = "push"
                        \/ w \in seen.others /\ ~job.exclude_git
                        \/ /\ w \in seen.head /\ ~job.exclude_git
                           /\ job.verb = "push" => ~seen.upstream \/ w \in seen.up
      BY DEF Sync!LosesUnguarded
    <3>1. PICK t \in Sync!Trees :
            /\ tree' = [tree EXCEPT ![Sync!Dest] = t]
            /\ job.exclude_git => Sync!Commits(t) = Sync!Commits(tree[Sync!Dest])
      BY <1>8, TransferTypes
    <3>2. tree'[Sync!Dest] = t
      BY <1>0, <3>1 DEF SyncTyped
    <3>3. job.exclude_git => w \notin Sync!Commits(seen)
      BY <3>1, <3>2 DEF SyncInv, Sync!Holds
    <3>4. IF job.verb = "push" THEN ~Sync!check_guest_dirty(seen) ELSE ~Sync!check_local_dirty(seen)
      BY <1>0 DEF SyncInv
    <3>. QED
      BY <3>3, <3>4 DEF Sync!Holds, Sync!Commits, Sync!check_guest_dirty, Sync!check_local_dirty
  <2>. QED
    BY <2>1, <2>2
<1>. QED
  BY <1>1, <1>2, <1>3, <1>4, <1>5, <1>6, <1>7, <1>8 DEF Sync!Next, SyncUser

SyncPart == part = "sync" => SyncTyped /\ SyncInv

LEMMA SyncAlone ==
  ASSUME [Next]_vars, part = "sync"
  PROVE  [Sync!Next]_(Sync!vars)
BY OnlyItsSteps DEF StepSync, vars, syncVars, Sync!vars

LEMMA SyncPartHolds == Spec => []SyncPart
<1>1. Init => SyncPart
  BY SyncInit, SyncTypeInit DEF Init, SyncPart
<1>2. SyncPart /\ [Next]_vars => SyncPart'
  BY SamePart, SyncAlone, SyncStep, SyncTypeStep DEF SyncPart
<1>. QED
  BY <1>1, <1>2, PTL DEF Spec

\* What a push or pull without --force takes from its destination is only what its check
\* does not look at, or what was done after it, whatever goes on at the same time in
\* either directory; ignored files and commits of branches that are not checked out are
\* among that, the commits only unless .git is left out (src/src/workspace.rs).
THEOREM GuardedWorkIsKept == Spec => OnlyUnguardedWorkIsLost
<1>1. SyncPart /\ [Next]_vars => [part = "sync" => Sync!LosesUnguarded]_tree
  BY SyncAlone, SyncStep DEF SyncPart
<1>. QED
  BY <1>1, SyncPartHolds, PTL DEF Spec, OnlyUnguardedWorkIsLost
-----------------------------------------------------------------------------
(* The types of the parts' variables.  A record set stays closed in the proof *)
(* of a step, which needs only what its fields give and that a command's own  *)
(* entry changes.                                                             *)

LEMMA SetOne ==
  ASSUME NEW D, NEW S, NEW f \in [D -> S], NEW d, NEW v \in S
  PROVE  [f EXCEPT ![d] = v] \in [D -> S]
OBVIOUS

(* Codex with an account *)
AccountFlags == {account, conflict, support, setting} \subseteq BOOLEAN
AccountKeys == keyring \in Passwords \cup {None} /\ sure \subseteq Passwords
AccountSteps == {"idle", "wrapper", "bus", "tools", "prompt", "confirm", "unlock", "probe", "plain",
                 "codex"}
AccountSession == [tty : BOOLEAN, dbus : BOOLEAN, unlocked : BOOLEAN, typed : Passwords \cup {None},
                   open : BOOLEAN]

\* A password was typed before it is confirmed.
AccountTyped ==
  /\ AccountFlags /\ AccountKeys
  /\ pc \in [Sessions -> AccountSteps] /\ sess \in [Sessions -> AccountSession]
  /\ \A s \in Sessions : pc[s] = "confirm" => sess[s].typed \in Passwords

LEMMA AccountTypes == AccountTyped => Account!TypeOK
BY Zenon DEF AccountTyped, Account!TypeOK, AccountFlags, AccountKeys, AccountSteps, AccountSession,
   Account!None, None

LEMMA AccountSessions ==
  /\ Account!NoSession \in AccountSession
  /\ \A t \in BOOLEAN : [Account!NoSession EXCEPT !.tty = t] \in AccountSession
  /\ \A r \in AccountSession :
       /\ r.typed \in Passwords \cup {None} /\ [r EXCEPT !.dbus = TRUE] \in AccountSession
       /\ \A p \in Passwords :
            [r EXCEPT !.typed = p] \in AccountSession /\ [r EXCEPT !.typed = p].typed = p
       /\ \A o \in BOOLEAN :
            [r EXCEPT !.open = o, !.unlocked = TRUE, !.typed = None] \in AccountSession
BY DEF AccountSession, Account!NoSession, Account!None, None

LEMMA AccountTypeInit == Account!Init => AccountTyped
<1>1. Account!Init => AccountFlags
  BY DEF Account!Init, AccountFlags
<1>2. Account!Init => AccountKeys
  BY DEF Account!Init, AccountKeys, Account!None, None
<1>3. Account!Init => pc \in [Sessions -> AccountSteps] /\ \A s \in Sessions : pc[s] = "idle"
  BY DEF Account!Init, AccountSteps
<1>4. Account!Init => sess \in [Sessions -> AccountSession]
  BY AccountSessions DEF Account!Init
<1>. QED
  BY <1>1, <1>2, <1>3, <1>4 DEF AccountTyped

\* What the wrapper of a session does.
AccountAct(s) ==
  \/ Account!CoopCodex(s) \/ Account!GuestCodex(s) \/ Account!Nested(s)
  \/ Account!keyring_mode(s) \/ Account!SessionBus(s) \/ Account!CheckTools(s)
  \/ Account!Prompt(s) \/ Account!Confirm(s) \/ Account!Unlock(s)
  \/ Account!Probe(s) \/ Account!Exit(s)

LEMMA AccountActTypes ==
  ASSUME AccountTyped, NEW s \in Sessions, AccountAct(s)
  PROVE  AccountTyped'
<1> USE DEF AccountTyped
<1>0. sess[s] \in AccountSession /\ sess = [sess EXCEPT ![s] = sess[s]]
  OBVIOUS
<1>1. AccountFlags'
  <2>1. UNCHANGED Account!Config
    BY DEF AccountAct, Account!CoopCodex, Account!GuestCodex, Account!Nested, Account!keyring_mode,
       Account!SessionBus, Account!CheckTools, Account!Prompt, Account!Confirm, Account!Unlock,
       Account!Probe, Account!Exit
  <2>. QED
    BY <2>1 DEF AccountFlags, Account!Config
<1>2. AccountKeys'
  <2>1. sess[s].typed \in Passwords \cup {None}
    BY AccountSessions
  <2>. QED
    BY <2>1 DEF AccountKeys, AccountAct, Account!CoopCodex, Account!GuestCodex, Account!Nested,
       Account!keyring_mode, Account!SessionBus, Account!CheckTools, Account!Prompt,
       Account!Confirm, Account!Unlock, Account!Probe, Account!Exit
<1>3. pc' \in [Sessions -> AccountSteps] /\ \E p \in AccountSteps : pc' = [pc EXCEPT ![s] = p]
  BY DEF AccountSteps, AccountAct, Account!CoopCodex, Account!GuestCodex, Account!Nested,
     Account!keyring_mode, Account!SessionBus, Account!CheckTools, Account!Prompt, Account!Confirm,
     Account!Unlock, Account!Probe, Account!Exit, Account!Die, Account!Go, Account!Step
<1>4. \E r \in AccountSession :
        /\ sess' = [sess EXCEPT ![s] = r]
        /\ pc'[s] = "confirm" => r.typed \in Passwords
  <2> USE <1>0, AccountSessions DEF Account!Learn, Account!Die, Account!Go, Account!Step
  <2>1. CASE Account!CoopCodex(s) \/ Account!GuestCodex(s)
    <3>1. pc'[s] # "confirm"
      BY <2>1 DEF Account!CoopCodex, Account!GuestCodex
    <3>2. \E r \in AccountSession : sess' = [sess EXCEPT ![s] = r]
      BY <2>1 DEF Account!CoopCodex, Account!GuestCodex
    <3>. QED
      BY <3>1, <3>2
  <2>2. CASE Account!Nested(s) \/ Account!keyring_mode(s) \/ Account!CheckTools(s)
    <3>1. pc'[s] # "confirm"
      BY <2>2 DEF Account!Nested, Account!keyring_mode, Account!CheckTools
    <3>2. \E r \in AccountSession : sess' = [sess EXCEPT ![s] = r]
      BY <2>2 DEF Account!Nested, Account!keyring_mode, Account!CheckTools
    <3>. QED
      BY <3>1, <3>2
  <2>3. CASE Account!SessionBus(s)
    <3>1. pc'[s] # "confirm"
      BY <2>3 DEF Account!SessionBus
    <3>2. \E r \in AccountSession : sess' = [sess EXCEPT ![s] = r]
      BY <2>3 DEF Account!SessionBus
    <3>. QED
      BY <3>1, <3>2
  <2>4. CASE Account!Prompt(s)
    <3>1. CASE Account!Die(s)
      BY <3>1
    <3>2. ASSUME NEW p \in Passwords, sess' = [sess EXCEPT ![s] = [sess[s] EXCEPT !.typed = p]]
          PROVE  \E r \in AccountSession : sess' = [sess EXCEPT ![s] = r] /\ r.typed \in Passwords
      <4> DEFINE v == [sess[s] EXCEPT !.typed = p]
      <4>1. v \in AccountSession /\ v.typed = p /\ sess' = [sess EXCEPT ![s] = v]
        BY <3>2, AccountSessions
      <4> HIDE DEF v
      <4>. QED
        BY <3>2, <4>1
    <3>. QED
      BY <2>4, <3>1, <3>2 DEF Account!Prompt
  <2>5. CASE Account!Unlock(s)
    <3>1. pc'[s] # "confirm"
      BY <2>5 DEF Account!Unlock
    <3>2. \E r \in AccountSession : sess' = [sess EXCEPT ![s] = r]
      BY <2>5 DEF Account!Unlock, Account!None, None
    <3>. QED
      BY <3>1, <3>2
  <2>6. CASE Account!Confirm(s) \/ Account!Probe(s) \/ Account!Exit(s)
    <3>1. pc'[s] # "confirm"
      BY <2>6 DEF Account!Confirm, Account!Probe, Account!Exit
    <3>2. \E r \in AccountSession : sess' = [sess EXCEPT ![s] = r]
      BY <2>6 DEF Account!Confirm, Account!Probe, Account!Exit
    <3>. QED
      BY <3>1, <3>2
  <2>. QED
    BY <2>1, <2>2, <2>3, <2>4, <2>5, <2>6 DEF AccountAct
<1>. QED
  BY <1>1, <1>2, <1>3, <1>4

LEMMA AccountTypeStep == AccountTyped /\ [Account!Next]_(Account!vars) => AccountTyped'
<1>1. ASSUME AccountTyped, Account!ChangeSetting \/ Account!Switch
      PROVE  AccountTyped'
  <2>1. AccountFlags' /\ UNCHANGED <<keyring, sure, pc, sess>>
    BY <1>1 DEF AccountTyped, AccountFlags, Account!ChangeSetting, Account!Switch
  <2>. QED
    BY <1>1, <2>1 DEF AccountTyped, AccountKeys
<1>2. ASSUME AccountTyped, UNCHANGED Account!vars
      PROVE  AccountTyped'
  BY <1>2 DEF AccountTyped, AccountFlags, AccountKeys, Account!vars
<1>. QED
  BY <1>1, <1>2, AccountActTypes DEF Account!Next, AccountAct
-----------------------------------------------------------------------------
(* Updates of Codex in the guest *)

CodexSteps == {"idle", "installed", "lock", "sums", "archive", "clean", "stage", "unpack", "old",
               "move", "activate", "helper", "codex", "verify", "gc", "remove", "unlock"}
CodexFiles ==
  /\ disk \in [Codex!Releases -> {"absent", "part", "whole"}]
  /\ staging \in {None, "part", "whole"} /\ public \subseteq {"helper", "codex"}
  /\ lock \in Updaters \cup {None} /\ faults \in 0..MaxFaults
  /\ running \in [Sessions -> 0..LastRelease]
\* What an installer works with, but for what CodexShape says of it.
CodexJob(j) ==
  /\ DOMAIN j = {"sum", "got", "previous", "keep", "todo", "rel"}
  /\ j.got \in 0..LastRelease /\ j.previous \in 0..LastRelease /\ j.keep \in BOOLEAN
CodexJobs == \A u \in Updaters : CodexJob(job[u])

\* What CodexInv does not say yet of the variables' types.
CodexTyped == CodexFiles /\ CodexJobs /\ pc \in [Updaters -> CodexSteps]

LEMMA Bounds == MaxFaults \in Nat /\ LastRelease \in Nat \ {0}
BY PartsAssumption DEF Codex!CodexAssumption

LEMMA CodexTypes == CodexInv /\ CodexTyped => Codex!TypeOK
<1> SUFFICES ASSUME CodexInv, CodexTyped PROVE Codex!TypeOK
  OBVIOUS
<1>1. Codex!None0 = 0..LastRelease
  BY PartsAssumption DEF Codex!CodexAssumption, Codex!None0, Codex!Releases
<1>2. /\ latest \in Codex!Releases /\ current \in Codex!None0
      /\ disk \in [Codex!Releases -> {"absent", "part", "whole"}]
      /\ staging \in {Codex!None, "part", "whole"} /\ public \subseteq {"helper", "codex"}
      /\ lock \in Updaters \cup {Codex!None} /\ faults \in 0..MaxFaults
      /\ running \in [Sessions -> Codex!None0]
  BY <1>1 DEF CodexTyped, CodexFiles, CodexInv, CodexShape, Codex!None, None
<1>3. pc \in [Updaters -> CodexSteps]
  BY DEF CodexTyped
<1>4. ASSUME NEW u \in Updaters
      PROVE  /\ {job[u].sum, job[u].got, job[u].previous, job[u].rel} \subseteq Codex!None0
             /\ job[u].todo \subseteq Codex!Releases
  BY <1>1 DEF CodexTyped, CodexJobs, CodexJob, CodexInv, CodexShape
<1>5. ASSUME NEW u \in Updaters
      PROVE  job[u].keep \in BOOLEAN
  BY DEF CodexTyped, CodexJobs, CodexJob
<1>. QED
  BY <1>2, <1>3, <1>4, <1>5, Zenon DEF Codex!TypeOK, CodexSteps

LEMMA CodexJobsOf ==
  /\ CodexJob(Codex!NoJob) /\ \A k \in BOOLEAN : CodexJob([Codex!NoJob EXCEPT !.keep = k])
  /\ \A j : CodexJob(j) =>
       /\ \A x : /\ CodexJob([j EXCEPT !.sum = x]) /\ CodexJob([j EXCEPT !.todo = x])
                 /\ CodexJob([j EXCEPT !.rel = x])
       /\ \A x, y : CodexJob([j EXCEPT !.todo = x, !.rel = y])
       /\ \A x \in 0..LastRelease :
            CodexJob([j EXCEPT !.previous = x]) /\ CodexJob([j EXCEPT !.got = x])
       /\ \A x \in BOOLEAN : CodexJob([j EXCEPT !.keep = x])
BY Bounds DEF CodexJob, Codex!NoJob

LEMMA CodexTypeInit == Codex!Init => CodexTyped
<1>1. Codex!Init => CodexFiles
  BY Bounds DEF Codex!Init, CodexFiles, Codex!None, None
<1>2. Codex!Init => CodexJobs
  BY CodexJobsOf DEF Codex!Init, CodexJobs
<1>3. Codex!Init => pc \in [Updaters -> CodexSteps]
  BY DEF Codex!Init, CodexSteps
<1>. QED
  BY <1>1, <1>2, <1>3 DEF CodexTyped

CodexAct(u) ==
  \/ \E keep \in BOOLEAN : Codex!Begin(u, keep)
  \/ Codex!CheckInstalled(u) \/ Codex!Acquire(u) \/ Codex!FetchSums(u) \/ Codex!FetchArchive(u)
  \/ Codex!CleanStaging(u) \/ Codex!MakeStaging(u) \/ Codex!Unpack(u) \/ Codex!RemoveOld(u)
  \/ Codex!MoveIn(u) \/ Codex!Activate(u) \/ Codex!LinkHelper(u) \/ Codex!LinkCodex(u)
  \/ Codex!Verify(u) \/ Codex!Collect(u) \/ Codex!Remove(u) \/ Codex!Release(u) \/ Codex!Stops(u)

LEMMA CodexActTypes ==
  ASSUME CodexInv, CodexTyped, NEW u \in Updaters, CodexAct(u)
  PROVE  CodexTyped'
<1> USE DEF Codex!Begin, Codex!CheckInstalled, Codex!Acquire, Codex!FetchSums,
    Codex!FetchArchive, Codex!CleanStaging, Codex!MakeStaging, Codex!Unpack, Codex!RemoveOld,
    Codex!MoveIn, Codex!Activate, Codex!LinkHelper, Codex!LinkCodex, Codex!Verify, Codex!Collect,
    Codex!Remove, Codex!Release, Codex!Stops, Codex!Package
<1>1. pc' \in [Updaters -> CodexSteps]
  <2>1. \E p \in CodexSteps : pc' = [pc EXCEPT ![u] = p]
    BY DEF CodexAct, CodexSteps, Codex!Step, Codex!Go
  <2>. QED
    BY <2>1 DEF CodexTyped
<1>2. CodexFiles'
  <2>1. UNCHANGED faults \/ Codex!Fault
    BY Zenon DEF CodexAct
  <2>2. faults' \in 0..MaxFaults
    BY <2>1, Bounds DEF CodexTyped, CodexFiles, Codex!Fault
  <2>3. lock' \in Updaters \cup {None} /\ public' \subseteq {"helper", "codex"} /\ running' = running
    BY DEF CodexAct, CodexTyped, CodexFiles, Codex!None, None
  <2>4. staging' \in {None, "part", "whole"}
    BY DEF CodexAct, CodexTyped, CodexFiles, Codex!None, None
  <2>5. disk' \in [Codex!Releases -> {"absent", "part", "whole"}]
    BY DEF CodexAct, CodexTyped, CodexFiles
  <2>. QED
    BY <2>2, <2>3, <2>4, <2>5 DEF CodexTyped, CodexFiles
<1>3. job' = job \/ \E j : job' = [job EXCEPT ![u] = j] /\ CodexJob(j)
  <2>1. CodexJob(job[u])
    BY DEF CodexTyped, CodexJobs
  <2>2. latest \in 0..LastRelease /\ current \in 0..LastRelease
    BY Bounds DEF CodexInv, CodexShape, Codex!Releases
  <2> USE <2>1, <2>2, CodexJobsOf DEF Codex!Work
  <2>3. CASE (\E keep \in BOOLEAN : Codex!Begin(u, keep)) \/ Codex!CheckInstalled(u)
    BY <2>3 DEF Codex!Safe
  <2>4. CASE Codex!FetchSums(u) \/ Codex!FetchArchive(u) \/ Codex!CleanStaging(u)
    BY <2>4
  <2>5. CASE Codex!Verify(u) \/ Codex!Remove(u)
    BY <2>5
  <2>6. CASE Codex!Collect(u)
    <3>1. \E x, y : Codex!Work(u, [job[u] EXCEPT !.todo = x, !.rel = y])
      BY <2>6
    <3>. QED
      BY <3>1
  <2>7. CASE Codex!Release(u) \/ Codex!Stops(u)
    BY <2>7
  <2>8. CASE \/ Codex!Acquire(u) \/ Codex!MakeStaging(u) \/ Codex!Unpack(u) \/ Codex!RemoveOld(u)
             \/ Codex!MoveIn(u) \/ Codex!Activate(u) \/ Codex!LinkHelper(u) \/ Codex!LinkCodex(u)
    BY <2>8
  <2>. QED
    BY <2>3, <2>4, <2>5, <2>6, <2>7, <2>8 DEF CodexAct
<1>4. CodexJobs'
  BY <1>3 DEF CodexTyped, CodexJobs, CodexInv, CodexShape
<1>. QED
  BY <1>1, <1>2, <1>4 DEF CodexTyped

LEMMA CodexTypeStep == CodexInv /\ CodexTyped /\ [Codex!Next]_(Codex!vars) => CodexTyped'
<1> SUFFICES ASSUME CodexInv, CodexTyped, [Codex!Next]_(Codex!vars) PROVE CodexTyped'
  OBVIOUS
<1>1. CASE UNCHANGED Codex!vars \/ Codex!Publish
  BY <1>1 DEF CodexTyped, CodexFiles, CodexJobs, Codex!vars, Codex!Publish, Codex!Package
<1>2. ASSUME NEW s \in Sessions, Codex!Launch(s) \/ Codex!Exit(s)
      PROVE  CodexTyped'
  <2>1. UNCHANGED <<disk, staging, current, public, lock, pc, job, faults>>
    BY <1>2 DEF Codex!Launch, Codex!Exit, Codex!Package
  <2>2. running' \in [Sessions -> 0..LastRelease]
    BY <1>2, Bounds DEF Codex!Launch, Codex!Exit, CodexTyped, CodexFiles, CodexInv, CodexShape
  <2>. QED
    BY <2>1, <2>2 DEF CodexTyped, CodexFiles, CodexJobs
<1>. QED
  BY <1>1, <1>2, CodexActTypes DEF Codex!Next, CodexAct
-----------------------------------------------------------------------------
(* Self-update *)

LEMMA LeastNat ==
  ASSUME NEW T, T \subseteq Nat, T # {}
  PROVE  \E m \in T : \A k \in T : m <= k
<1>1. PICK R : R = OpToRel(<, Nat)
  OBVIOUS
<1>2. IsWellFoundedOn(R, Nat)
  BY <1>1, NatLessThanWellFounded, Zenon
<1>3. R = {ss \in Nat \X Nat : ss[1] < ss[2]}
  BY <1>1, Zenon DEF OpToRel
<1>4. \A x, y \in Nat : x < y => <<x, y>> \in R
  BY <1>3, SMT
<1>5. PICK m \in T : \A k \in T : ~(<<k, m>> \in R)
  BY <1>2, WFMin, Zenon
<1>6. \A k \in T : ~(k < m)
  BY <1>4, <1>5
<1>. QED
  BY <1>6

\* A finite set of numbers has a last one: that with the fewest above it.
LEMMA LastNat ==
  ASSUME NEW S, IsFiniteSet(S), S \subseteq Nat, S # {}
  PROVE  \E m \in S : \A k \in S : m >= k
<1> DEFINE Above(x) == {y \in S : y > x}
           Counts == {Cardinality(Above(x)) : x \in S}
<1>1. \A x \in S : IsFiniteSet(Above(x)) /\ Cardinality(Above(x)) \in Nat
  <2> TAKE x \in S
  <2>1. Above(x) \in SUBSET S
    OBVIOUS
  <2>. QED
    BY <2>1, FS_Subset, FS_CardinalityType
<1>2. Counts \subseteq Nat /\ Counts # {}
  BY <1>1
<1>3. PICK m \in S : \A x \in S : Cardinality(Above(m)) <= Cardinality(Above(x))
  <2>1. PICK c \in Counts : \A d \in Counts : c <= d
    BY <1>2, LeastNat
  <2>. QED
    BY <2>1
<1>4. ASSUME NEW k \in S, k > m
      PROVE  FALSE
  <2>0. k \in Nat /\ m \in Nat /\ \A y \in S : y \in Nat
    OBVIOUS
  <2>1. Above(k) \in SUBSET Above(m) /\ k \in Above(m) /\ k \notin Above(k)
    <3>1. ASSUME NEW y \in S, y > k
          PROVE  y > m
      BY <1>4, <2>0, <3>1
    <3>2. ~(k > k)
      BY <2>0
    <3>. QED
      BY <1>4, <3>1, <3>2
  <2>2. Cardinality(Above(k)) = Cardinality(Above(m))
    <3>1. Cardinality(Above(k)) <= Cardinality(Above(m))
      BY <1>1, <2>1, FS_Subset
    <3> HIDE DEF Above
    <3>. QED
      BY <1>1, <1>3, <3>1
  <2>3. Above(k) = Above(m)
    BY <1>1, <2>1, <2>2, FS_Subset
  <2>. QED
    BY <2>1, <2>3
<1>. QED
  BY <1>4

LEMMA UpdateBounds ==
  /\ Versions \subseteq Nat /\ Versions # {} /\ IsFiniteSet(Versions) /\ MaxFaults \in Nat
<1>1. Update!UpdateAssumption
  BY PartsAssumption
<1>. QED
  BY <1>1, Zenon DEF Update!UpdateAssumption, Update!IsFiniteSet, IsFiniteSet

LEMMA FirstVersion ==
  ASSUME NEW S, S \subseteq Versions, S # {}
  PROVE  Update!Min(S) \in S
<1>1. \E m \in S : \A k \in S : m =< k
  BY UpdateBounds, LeastNat
<1>. QED
  BY <1>1, Zenon DEF Update!Min

LEMMA LastVersion == Update!Max(Versions) \in Versions
<1>1. \E m \in Versions : \A k \in Versions : m >= k
  BY UpdateBounds, LastNat
<1>. QED
  BY <1>1, Zenon DEF Update!Max

UpdateBinary == [ver : Versions, genuine : BOOLEAN]
UpdatePlaces ==
  /\ coop \in UpdateBinary /\ proxy \in UpdateBinary
  /\ bg \in {"off", "fetching"}
  /\ pc \in {"idle", "download", "sums", "provenance", "attest", "proxy", "coop", "persist"}
  /\ rel \in Update!Releases /\ client \in Update!Clients
  /\ bundle \in {None, "skip", "api", "empty", "file"}
UpdateFlags == due \in BOOLEAN /\ torn \in BOOLEAN
UpdateNumbers ==
  /\ published \in Versions /\ known \in Versions \cup {0} /\ faults \in 0..MaxFaults
UpdateTyped == UpdatePlaces /\ UpdateFlags /\ UpdateNumbers

LEMMA UpdateTypes == UpdateTyped => Update!TypeOK
BY Zenon DEF UpdateTyped, UpdatePlaces, UpdateFlags, UpdateNumbers, UpdateBinary, Update!TypeOK,
   Update!None, None

LEMMA ReleasesOf ==
  /\ Update!NoRel \in Update!Releases
  /\ \A r \in Update!Releases : r.ver \in Versions /\ r.sound \in BOOLEAN /\ r.attested \in BOOLEAN
<1>1. Update!Oldest \in Versions
  BY UpdateBounds, FirstVersion DEF Update!Oldest
<1>. QED
  BY <1>1 DEF Update!Releases, Update!NoRel

LEMMA BinariesOf ==
  ASSUME NEW r \in Update!Releases, NEW c
  PROVE  Update!Binary(r, c) \in UpdateBinary
BY ReleasesOf DEF Update!Binary, UpdateBinary

LEMMA UpdateTypeInit == Update!Init => UpdateTyped
<1>1. Update!Init => UpdatePlaces
  BY ReleasesOf, BinariesOf DEF Update!Init, UpdatePlaces, Update!Clients, Update!None, None
<1>2. Update!Init => UpdateFlags
  BY DEF Update!Init, UpdateFlags
<1>3. Update!Init => UpdateNumbers
  <2>1. Update!Oldest \in Versions
    BY UpdateBounds, FirstVersion DEF Update!Oldest
  <2>2. 0 \in 0..MaxFaults
    BY UpdateBounds
  <2>. QED
    BY <2>1, <2>2 DEF Update!Init, UpdateNumbers
<1>. QED
  BY <1>1, <1>2, <1>3 DEF UpdateTyped

LEMMA UpdateTypeStep == UpdateTyped /\ [Update!Next]_(Update!vars) => UpdateTyped'
<1> SUFFICES ASSUME UpdateTyped, [Update!Next]_(Update!vars) PROVE UpdateTyped'
  OBVIOUS
<1>1. CASE UNCHANGED Update!vars
  BY <1>1 DEF UpdateTyped, UpdatePlaces, UpdateFlags, UpdateNumbers, Update!vars
<1>2. CASE Update!Next
  <2> USE <1>2 DEF Update!Next, Update!Publish, Update!IntervalElapses, Update!Run, Update!Download,
      Update!VerifySum, Update!ResolveProvenance, Update!VerifyAttestation, Update!ReplaceProxy,
      Update!ReplaceSelf, Update!Persist, Update!Kill, Update!StartCheck, Update!EndCheck
  <2>1. UpdateFlags'
    BY DEF UpdateTyped, UpdateFlags
  <2>2. UpdateNumbers'
    <3>1. published' \in Versions
      <4>1. UNCHANGED published \/ Update!Publish
        BY Zenon
      <4>2. ASSUME published < Update!Max(Versions)
            PROVE  Update!Min({v \in Versions : v > published}) \in Versions
        BY <4>2, UpdateBounds, FirstVersion, LastVersion DEF UpdateTyped, UpdateNumbers
      <4>. QED
        BY <4>1, <4>2 DEF UpdateTyped, UpdateNumbers
    <3>2. UNCHANGED faults \/ Update!Fault
      BY Zenon
    <3>3. known' \in {known, rel.ver, published}
      BY Zenon
    <3> HIDE <1>2
    <3>4. faults' \in 0..MaxFaults
      BY <3>2, UpdateBounds DEF UpdateTyped, UpdateNumbers, Update!Fault
    <3>5. known' \in Versions \cup {0}
      BY <3>3, ReleasesOf DEF UpdateTyped, UpdateNumbers, UpdatePlaces
    <3>. QED
      BY <3>1, <3>4, <3>5 DEF UpdateNumbers
  <2>3. UpdatePlaces'
    <3>1. coop' \in UpdateBinary /\ proxy' \in UpdateBinary
      BY BinariesOf DEF UpdateTyped, UpdatePlaces
    <3>2. rel' \in Update!Releases /\ client' \in Update!Clients
      BY ReleasesOf DEF UpdateTyped, UpdatePlaces, Update!Abort, Update!Go, Update!Clients
    <3>3. /\ bg' \in {"off", "fetching"}
          /\ pc' \in {"idle", "download", "sums", "provenance", "attest", "proxy", "coop", "persist"}
      BY DEF UpdateTyped, UpdatePlaces, Update!Abort, Update!Go
    <3>4. bundle' \in {None, "skip", "api", "empty", "file"}
      BY DEF UpdateTyped, UpdatePlaces, Update!Abort, Update!Go, Update!Provenance, Update!None, None
    <3>. QED
      BY <3>1, <3>2, <3>3, <3>4 DEF UpdatePlaces
  <2>. QED
    BY <2>1, <2>2, <2>3 DEF UpdateTyped
<1>. QED
  BY <1>1, <1>2
-----------------------------------------------------------------------------
(* Tokens and credentials *)

SecretPlaces == {"idle", "ask", "clear", "put", "delete", "lock", "read", "write"}
SecretJob == [verb : {None, "prompt", "setup", "forget", "never"}, key : Secret!Keys \cup {None},
              backend : Backends \cup {None}, doc : Secret!Docs]
SecretStores == [Backends -> [Secret!Accounts -> Secret!Keys \cup {None}]]
SecretTyped ==
  /\ config \in Secret!Docs /\ secret \in SecretStores /\ mixed \subseteq Backends \X Secret!Keys
  /\ lock \in Commands \cup {None}
  /\ pc \in [Commands -> SecretPlaces] /\ job \in [Commands -> SecretJob]
  /\ torn \subseteq Secret!Keys /\ faults \in 0..MaxFaults

LEMMA SecretTypes == SecretTyped => Secret!TypeOK
BY Zenon DEF SecretTyped, Secret!TypeOK, SecretPlaces, SecretJob, SecretStores, Secret!None, None

LEMMA SecretBounds == MaxFaults \in Nat
BY PartsAssumption DEF Secret!SecretAssumption

LEMMA DocsOf ==
  /\ Secret!NoDoc \in Secret!Docs
  /\ \A m \in {"off", "env"} : [Secret!NoDoc EXCEPT !.mode = m] \in Secret!Docs
  /\ \A d \in Secret!Docs : d.entry \in [Secret!Keys -> Backends \cup {None}]
BY DEF Secret!Docs, Secret!NoDoc, Secret!None, None

LEMMA JobsOf ==
  /\ Secret!NoJob \in SecretJob
  /\ \A v \in {"setup", "forget"}, k \in Secret!Keys, b \in Backends :
       [Secret!NoJob EXCEPT !.verb = v, !.key = k, !.backend = b] \in SecretJob
  /\ \A k \in Secret!Keys : [Secret!NoJob EXCEPT !.verb = "prompt", !.key = k] \in SecretJob
  /\ \A j \in SecretJob :
       /\ j.backend \in Backends \cup {None} /\ j.doc \in Secret!Docs
       /\ \A d \in Secret!Docs : [j EXCEPT !.doc = d] \in SecretJob
       /\ \A b \in Backends : [j EXCEPT !.verb = "setup", !.backend = b] \in SecretJob
       /\ [j EXCEPT !.verb = "never"] \in SecretJob
BY DocsOf DEF SecretJob, Secret!NoJob, Secret!None, None

LEMMA EditedType ==
  ASSUME NEW d \in Secret!Docs, NEW j \in SecretJob, j.key \in Secret!Keys,
         j.verb = "never" => j.key \in Repos
  PROVE  Secret!Edited(d, j) \in Secret!Docs
<1>1. j.backend \in Backends \cup {None}
  BY JobsOf
<1>2. CASE j.verb = "forget"
  <2>1. Secret!Edited(d, j) = [d EXCEPT !.entry[j.key] = None]
    BY <1>2 DEF Secret!Edited, Secret!None, None
  <2>. QED
    BY <2>1 DEF Secret!Docs, Secret!None, None
<1>3. CASE j.verb = "never"
  <2>1. Secret!Edited(d, j) = [d EXCEPT !.mode = "pat", !.skip = @ \cup {j.key}]
    BY <1>3 DEF Secret!Edited
  <2>. QED
    BY <1>3, <2>1 DEF Secret!Docs
<1>4. CASE j.verb \notin {"forget", "never"} /\ j.key \in Providers
  <2>1. Secret!Edited(d, j) = [d EXCEPT !.entry[j.key] = j.backend]
    BY <1>4 DEF Secret!Edited, Secret!upsert_proxy_entry
  <2>. QED
    BY <1>1, <2>1 DEF Secret!Docs, Secret!None, None
<1>5. CASE j.verb \notin {"forget", "never"} /\ j.key \notin Providers
  <2>1. Secret!Edited(d, j) =
          [d EXCEPT !.mode = "pat", !.entry[j.key] = j.backend, !.skip = @ \ {j.key}]
    BY <1>5 DEF Secret!Edited
  <2>2. [d EXCEPT !.mode = "pat", !.skip = @ \ {j.key}] \in Secret!Docs
    BY DEF Secret!Docs
  <2>3. \A x \in Secret!Docs : [x EXCEPT !.entry[j.key] = j.backend] \in Secret!Docs
    BY <1>1 DEF Secret!Docs, Secret!None, None
  <2>4. Secret!Edited(d, j) =
          [[d EXCEPT !.mode = "pat", !.skip = @ \ {j.key}] EXCEPT !.entry[j.key] = j.backend]
    BY <2>1 DEF Secret!Docs
  <2>. QED
    BY <2>2, <2>3, <2>4
<1>. QED
  BY <1>2, <1>3, <1>4, <1>5

LEMMA SecretTypeInit == Secret!Init => SecretTyped
<1>1. Secret!Init => config \in Secret!Docs
  BY DocsOf DEF Secret!Init
<1>2. Secret!Init => secret \in SecretStores
  BY DEF Secret!Init, SecretStores, Secret!None, None
<1>3. Secret!Init => pc \in [Commands -> SecretPlaces] /\ job \in [Commands -> SecretJob]
  BY JobsOf DEF Secret!Init, SecretPlaces
<1>4. Secret!Init => lock = None /\ torn = {} /\ faults = 0
  BY DEF Secret!Init, Secret!None, None
<1>5. Secret!Init => mixed = {}
  BY DEF Secret!Init
<1>. QED
  BY <1>1, <1>2, <1>3, <1>4, <1>5, SecretBounds DEF SecretTyped

SecretAct(c) ==
  \/ \E k \in Secret!Keys, b \in Backends : Secret!SetUp(c, k, b) \/ Secret!SetUpProvider(c, k, b)
  \/ \E k \in Repos : Secret!Forget(c, k) \/ Secret!Prompt(c, k)
  \/ Secret!Answer(c) \/ Secret!ClearSecret(c) \/ Secret!PutSecret(c) \/ Secret!DeleteSecret(c)
  \/ Secret!Acquire(c) \/ Secret!ReadDoc(c) \/ Secret!WriteDoc(c) \/ Secret!Kill(c)

LEMMA SecretActTypes ==
  ASSUME SecretInv, SecretTyped, NEW c \in Commands, SecretAct(c)
  PROVE  SecretTyped'
<1> USE DEF Secret!SetUp, Secret!SetUpProvider, Secret!Forget, Secret!Prompt, Secret!Answer,
    Secret!ClearSecret, Secret!PutSecret, Secret!DeleteSecret, Secret!Acquire, Secret!ReadDoc,
    Secret!WriteDoc, Secret!Kill
<1>0. /\ pc[c] # "idle" => job[c].key \in Secret!Keys
      /\ job[c].verb = "never" => job[c].key \in Repos
      /\ job[c] \in SecretJob /\ job = [job EXCEPT ![c] = job[c]]
      /\ Repos \subseteq Secret!Keys
  BY DEF SecretInv, SecretOwned, SecretSteps, SecretTyped, Secret!Keys
<1>1. pc' \in [Commands -> SecretPlaces]
  <2>1. \E p \in SecretPlaces : pc' = [pc EXCEPT ![c] = p]
    BY DEF SecretAct, SecretPlaces, Secret!Begin, Secret!Go, Secret!End
  <2>. QED
    BY <2>1 DEF SecretTyped
<1>2. \E j \in SecretJob : job' = [job EXCEPT ![c] = j]
  <2> USE <1>0, JobsOf DEF Secret!Begin, Secret!End
  <2>1. CASE \E k \in Secret!Keys, b \in Backends : Secret!SetUp(c, k, b) \/ Secret!SetUpProvider(c, k, b)
    BY <2>1
  <2>2. ASSUME NEW k \in Repos, Secret!Forget(c, k)
        PROVE  \E j \in SecretJob : job' = [job EXCEPT ![c] = j]
    <3>1. config.entry[k] \in Backends
      BY <2>2, DocsOf DEF SecretTyped, Secret!None, None
    <3>. QED
      BY <2>2, <3>1
  <2>3. ASSUME NEW k \in Repos, Secret!Prompt(c, k)
        PROVE  \E j \in SecretJob : job' = [job EXCEPT ![c] = j]
    BY <2>3
  <2>4. ASSUME Secret!Answer(c)
        PROVE  \E j \in SecretJob : job' = [job EXCEPT ![c] = j]
    <3>1. \/ \E b \in Backends : job' = [job EXCEPT ![c].verb = "setup", ![c].backend = b]
          \/ job' = [job EXCEPT ![c].verb = "never"]
          \/ job' = [job EXCEPT ![c] = Secret!NoJob]
      BY <2>4
    <3>2. \A b \in Backends : [job EXCEPT ![c].verb = "setup", ![c].backend = b]
            = [job EXCEPT ![c] = [job[c] EXCEPT !.verb = "setup", !.backend = b]]
      BY DEF SecretTyped
    <3>3. [job EXCEPT ![c].verb = "never"] = [job EXCEPT ![c] = [job[c] EXCEPT !.verb = "never"]]
      BY DEF SecretTyped
    <3>. QED
      BY <3>1, <3>2, <3>3
  <2>5. CASE Secret!ClearSecret(c) \/ Secret!PutSecret(c) \/ Secret!DeleteSecret(c)
    BY <2>5
  <2>6. CASE Secret!Acquire(c) \/ Secret!ReadDoc(c)
    BY <2>6 DEF SecretTyped
  <2>7. CASE Secret!WriteDoc(c) \/ Secret!Kill(c)
    BY <2>7
  <2>. QED
    BY <2>1, <2>2, <2>3, <2>4, <2>5, <2>6, <2>7 DEF SecretAct
<1>3. UNCHANGED faults \/ Secret!Fault
  BY Zenon DEF SecretAct
<1>4. UNCHANGED config \/ (Secret!WriteDoc(c) /\ config' = Secret!Edited(job[c].doc, job[c]))
  BY Zenon DEF SecretAct
<1>5. /\ lock' \in {lock, c, None}
      /\ torn' \subseteq torn \cup {job[c].key} /\ (torn' # torn => pc[c] # "idle")
  BY DEF SecretAct, Secret!None, None
<1>6. \/ UNCHANGED <<secret, mixed>>
      \/ /\ pc[c] \in {"clear", "put", "delete"}
         /\ \E v \in {None, job[c].key} : Secret!Put(job[c].backend, job[c].key, v)
  BY DEF SecretAct, Secret!None, None
<1>7. config' \in Secret!Docs
  <2>1. CASE UNCHANGED config
    BY <2>1 DEF SecretTyped
  <2>2. CASE Secret!WriteDoc(c) /\ config' = Secret!Edited(job[c].doc, job[c])
    BY <1>0, <2>2, JobsOf, EditedType
  <2>. QED
    BY <1>4, <2>1, <2>2
<1>8. secret' \in SecretStores /\ mixed' \subseteq Backends \X Secret!Keys
  <2>1. CASE UNCHANGED <<secret, mixed>>
    BY <2>1 DEF SecretTyped
  <2>2. pc[c] \in {"clear", "put", "delete"} => job[c].backend \in Backends /\ job[c].key \in Secret!Keys
    BY DEF SecretInv, SecretSteps, SecretOwned
  <2>3. ASSUME NEW b \in Backends, NEW k \in Secret!Keys, NEW v \in Secret!Keys \cup {None},
               Secret!Put(b, k, v)
        PROVE  secret' \in SecretStores /\ mixed' \subseteq Backends \X Secret!Keys
    <3> DEFINE a == Secret!Account(k)
    <3>1. a \in Secret!Accounts
      BY DEF Secret!Accounts
    <3> HIDE DEF a
    <3>2. secret' = [secret EXCEPT ![b][a] = v]
          /\ mixed' = (mixed \cup {<<b, secret[b][a]>>}) \ {<<b, k>>, <<b, None>>}
      BY <2>3 DEF Secret!Put, a, Secret!None, None
    <3>3. secret[b][a] \in Secret!Keys \cup {None}
      BY <3>1 DEF SecretTyped, SecretStores
    <3>4. secret' \in SecretStores
      BY <3>2 DEF SecretTyped, SecretStores
    <3>. QED
      BY <3>2, <3>3, <3>4 DEF SecretTyped
  <2>. QED
    BY <1>0, <1>6, <2>1, <2>2, <2>3
<1>9. faults' \in 0..MaxFaults
  BY <1>3, SecretBounds DEF SecretTyped, Secret!Fault
<1>10. lock' \in Commands \cup {None} /\ torn' \subseteq Secret!Keys /\ job' \in [Commands -> SecretJob]
  BY <1>0, <1>2, <1>5 DEF SecretTyped
<1>. QED
  BY <1>1, <1>7, <1>8, <1>9, <1>10 DEF SecretTyped

LEMMA SecretTypeStep == SecretInv /\ SecretTyped /\ [Secret!Next]_(Secret!vars) => SecretTyped'
<1>1. SecretTyped /\ UNCHANGED Secret!vars => SecretTyped'
  BY DEF SecretTyped, Secret!vars
<1>. QED
  BY <1>1, SecretActTypes DEF Secret!Next, SecretAct
-----------------------------------------------------------------------------
(* coop-proxy *)

RequestPlaces == {"free", "dialing", "handshake", "waiting", "streaming"}
RequestTyped(q) == q.at \in RequestPlaces /\ q.got \in ProxyRequests \cup {Proxy!NoHeaders}
ProxyTyped ==
  /\ phase \in {"down", "serving"} /\ scoped \in BOOLEAN
  /\ \A r \in Requests : RequestTyped(req[r])

LEMMA ProxyTypes == ProxyInv /\ ProxyTyped => Proxy!TypeOK
<1> SUFFICES ASSUME ProxyInv, ProxyTyped PROVE Proxy!TypeOK
  OBVIOUS
<1>1. permits \in 0..MAX_CONCURRENT_REQUESTS
  BY BusyFinite DEF ProxyInv, PermitsHeld
<1>2. cfg \in ProxyConfigs
  BY DEF ProxyInv, OnlyCredentialSent
<1>. QED
  BY <1>1, <1>2 DEF ProxyTyped, RequestTyped, RequestPlaces, Proxy!TypeOK

\* A request is over, goes on, or has just come.
RequestMoves(r) ==
  \/ req' = [req EXCEPT ![r] = Proxy!Free]
  \/ \E at \in RequestPlaces : req' = [req EXCEPT ![r].at = at]
  \/ \E h \in ProxyRequests, s \in {Proxy!build_upstream_headers(g) : g \in ProxyRequests} :
       req' = [req EXCEPT ![r] = [at |-> "dialing", permit |-> TRUE, got |-> h, sent |-> s]]

LEMMA ProxyTypeInit == Proxy!Init => ProxyTyped
<1>1. RequestTyped(Proxy!Free)
  BY DEF Proxy!Free, RequestTyped, RequestPlaces
<1>2. Proxy!Init => \A r \in Requests : req[r] = Proxy!Free
  BY DEF Proxy!Init
<1>3. Proxy!Init => scoped \in BOOLEAN
  BY Zenon DEF Proxy!Init
<1>4. Proxy!Init => phase \in {"down", "serving"}
  BY DEF Proxy!Init
<1>. QED
  BY <1>1, <1>2, <1>3, <1>4 DEF ProxyTyped

LEMMA ProxyTypeStep == ProxyInv /\ ProxyTyped /\ [Proxy!Next]_(Proxy!vars) => ProxyTyped'
<1> SUFFICES ASSUME ProxyInv, ProxyTyped, [Proxy!Next]_(Proxy!vars) PROVE ProxyTyped'
  OBVIOUS
<1>1. CASE UNCHANGED Proxy!vars
  BY <1>1 DEF Proxy!vars, ProxyTyped, RequestTyped
<1>2. CASE Proxy!Start
  BY <1>2 DEF Proxy!Start, ProxyTyped, RequestTyped
<1>3. CASE Proxy!Shutdown
  BY <1>3 DEF Proxy!Shutdown, Proxy!Free, ProxyTyped, RequestTyped, RequestPlaces
<1>4. ASSUME NEW r \in Requests, RequestMoves(r), UNCHANGED <<phase, scoped>>
      PROVE  ProxyTyped'
  <2>1. DOMAIN req = Requests /\ \A s \in Requests : DOMAIN req[s] = {"at", "permit", "got", "sent"}
    BY DEF ProxyInv, PermitsHeld
  <2>2. \A s \in Requests \ {r} : req'[s] = req[s]
    BY <1>4, <2>1 DEF RequestMoves
  <2>3. RequestTyped(req'[r])
    BY <1>4, <2>1 DEF RequestMoves, RequestTyped, RequestPlaces, ProxyTyped, Proxy!Free
  <2>. QED
    BY <1>4, <2>2, <2>3 DEF ProxyTyped, RequestTyped
<1>5. ASSUME NEW r \in Requests, Proxy!Arrive(r)
      PROVE  RequestMoves(r) /\ UNCHANGED <<phase, scoped>>
  BY <1>5 DEF RequestMoves, Proxy!Arrive
<1>6. ASSUME NEW r \in Requests, Proxy!Connected(r) \/ Proxy!Send(r) \/ Proxy!Respond(r)
      PROVE  RequestMoves(r) /\ UNCHANGED <<phase, scoped>>
  BY <1>6 DEF RequestMoves, RequestPlaces, Proxy!Connected, Proxy!Send, Proxy!Respond, Proxy!Goes
<1>7. ASSUME NEW r \in Requests,
             \/ Proxy!DialFails(r) \/ Proxy!UpstreamFails(r)
             \/ Proxy!Drained(r) \/ Proxy!GuestGone(r)
      PROVE  RequestMoves(r) /\ UNCHANGED <<phase, scoped>>
  BY <1>7 DEF RequestMoves, Proxy!DialFails, Proxy!UpstreamFails, Proxy!Drained, Proxy!GuestGone,
     Proxy!Ends
<1>. QED
  BY <1>1, <1>2, <1>3, <1>4, <1>5, <1>6, <1>7 DEF Proxy!Next
-----------------------------------------------------------------------------
(* Claude and Codex in a guest *)

AgentSteps == {"idle", "claude", "settings", "plugins", "codex", "remember", "check", "remove",
               "stage", "copy", "keyring", "install"}
AgentModels == [mode : {"remote", "local"}, codex : BOOLEAN, keyring : BOOLEAN]
AgentTyped ==
  /\ model \in AgentModels /\ guest \in Agent!Disks /\ image \in Agent!Disks
  /\ vm \in {"none", "stopped", "running"} /\ first \in BOOLEAN /\ pc \in AgentSteps
  /\ last \in {"ok", "failed", "stale"} /\ faults \in 0..MaxFaults

LEMMA AgentTypes == AgentInv /\ AgentTyped => Agent!TypeOK
BY Zenon DEF AgentInv, AgentShape, AgentTyped, AgentSteps, AgentModels, Agent!TypeOK

LEMMA AgentBounds == MaxFaults \in Nat
BY PartsAssumption DEF Agent!BootstrapAssumption

LEMMA RouteOf == \A a : Agent!Route(a) \in Agent!Routes
BY DEF Agent!Route, Agent!Routes

LEMMA DisksOf ==
  /\ Agent!Fresh \in Agent!Disks
  /\ \A d \in Agent!Disks, b \in BOOLEAN :
       /\ [d EXCEPT !.auth = b] \in Agent!Disks
       /\ \A r \in Agent!Routes : /\ [d EXCEPT !.claude = r] \in Agent!Disks
                                 /\ [d EXCEPT !.codex = r, !.keyring = b] \in Agent!Disks
BY DEF Agent!Disks, Agent!Fresh, Agent!Routes

LEMMA ModelsOf ==
  /\ Agent!NoModel \in AgentModels
  /\ \A m \in AgentModels, b \in BOOLEAN, w \in {"remote", "local"} :
       /\ [m EXCEPT !.mode = w, !.codex = b] \in AgentModels
       /\ [m EXCEPT !.codex = b] \in AgentModels /\ [m EXCEPT !.keyring = b] \in AgentModels
BY DEF AgentModels, Agent!NoModel

LEMMA AgentTypeInit == Agent!Init => AgentTyped
<1>1. Agent!Init => first \in BOOLEAN
  BY Zenon DEF Agent!Init
<1>2. Agent!Init => model \in AgentModels /\ guest \in Agent!Disks /\ image \in Agent!Disks
  BY DisksOf, ModelsOf DEF Agent!Init
<1>3. Agent!Init => /\ vm \in {"none", "stopped", "running"} /\ pc \in AgentSteps
                    /\ last \in {"ok", "failed", "stale"} /\ faults \in 0..MaxFaults
  BY AgentBounds DEF Agent!Init, AgentSteps
<1>. QED
  BY <1>1, <1>2, <1>3 DEF AgentTyped

LEMMA AgentTypeStep == AgentInv /\ AgentTyped /\ [Agent!Next]_(Agent!vars) => AgentTyped'
<1> SUFFICES ASSUME AgentInv, AgentTyped, [Agent!Next]_(Agent!vars) PROVE AgentTyped'
  OBVIOUS
<1>1. CASE UNCHANGED Agent!vars
  BY <1>1 DEF Agent!vars, AgentTyped
<1>2. CASE Agent!Next
  <2> USE <1>2 DEF Agent!Next, Agent!EditConfig, Agent!Up, Agent!Start, Agent!Stop, Agent!Destroy,
      Agent!Commit, Agent!Restore, Agent!SwitchModel, Agent!ProxyClaude, Agent!WriteSettings,
      Agent!InstallPlugins, Agent!ProxyCodex, Agent!Remember, Agent!CheckCodex, Agent!RemoveAuth,
      Agent!StageFiles, Agent!CopyFile, Agent!RecordKeyring, Agent!RemoveAccountAuth,
      Agent!InstallCodexPlugins, Agent!Kill
  <2>0. cfg.account \in BOOLEAN
    BY PartsAssumption DEF Agent!BootstrapAssumption, AgentInv, AgentShape
  <2>1. UNCHANGED faults \/ Agent!Fault
    BY Zenon DEF Agent!FailTo
  <2>2. faults' \in 0..MaxFaults
    BY ONLY <2>1, AgentTyped, AgentBounds DEF AgentTyped, Agent!Fault
  <2>3. pc' \in AgentSteps
    BY DEF AgentTyped, AgentSteps, Agent!Go, Agent!End, Agent!FailTo, Agent!Begin
  <2>4. /\ vm' \in {"none", "stopped", "running"} /\ first' \in BOOLEAN
        /\ last' \in {"ok", "failed", "stale"}
    BY DEF AgentTyped, Agent!Go, Agent!End, Agent!FailTo, Agent!Begin
  <2>5. image' \in Agent!Disks
    BY DEF AgentTyped
  <2>6. \/ guest' \in {guest, image, Agent!Fresh}
        \/ \E r \in Agent!Routes : guest' = [guest EXCEPT !.claude = r]
        \/ \E r \in Agent!Routes : guest' = [guest EXCEPT !.codex = r, !.keyring = cfg.account]
        \/ \E b \in BOOLEAN : guest' = [guest EXCEPT !.auth = b]
    BY RouteOf DEF AgentTyped
  <2>7. guest' \in Agent!Disks
    <3>1. guest \in Agent!Disks /\ image \in Agent!Disks /\ Agent!Fresh \in Agent!Disks
      BY ONLY AgentTyped, DisksOf DEF AgentTyped
    <3>2. \A r \in Agent!Routes : /\ [guest EXCEPT !.claude = r] \in Agent!Disks
                                 /\ [guest EXCEPT !.codex = r, !.keyring = cfg.account] \in Agent!Disks
      BY ONLY <2>0, <3>1, DisksOf, Zenon
    <3>3. \A b \in BOOLEAN : [guest EXCEPT !.auth = b] \in Agent!Disks
      BY ONLY <2>0, <3>1, DisksOf, Zenon
    <3>. QED
      BY ONLY <2>6, <3>1, <3>2, <3>3
  <2>8. \/ model' \in {model, Agent!NoModel}
        \/ \E m \in {"remote", "local"}, b \in BOOLEAN : model' = [model EXCEPT !.mode = m, !.codex = b]
        \/ \E b \in BOOLEAN : model' = [model EXCEPT !.codex = b]
        \/ model' = [model EXCEPT !.keyring = cfg.account]
    BY DEF AgentTyped
  <2>9. model' \in AgentModels
    BY ONLY <2>0, <2>8, AgentTyped, ModelsOf DEF AgentTyped
  <2>. QED
    BY <2>2, <2>3, <2>4, <2>5, <2>7, <2>9 DEF AgentTyped
<1>. QED
  BY <1>1, <1>2
-----------------------------------------------------------------------------
(* Images and disks *)

ImageSteps == {"idle", "kvm", "firecracker", "chmod", "kernel", "check", "current", "build", "swap",
               "config", "clear", "copy", "grow", "patch", "lineage", "fsck", "take"}
DiskSizes == Sizes \cup {0}
DiskRecord == [image : Images \cup {None}, disk : Image!Contents, own : BOOLEAN,
               size : DiskSizes, fs : DiskSizes]
InstDisk == {d \in DiskRecord : d.fs <= d.size}
FileSize == {z \in [size : DiskSizes, fs : DiskSizes] : z.fs <= z.size}
Lacking == {"disk", "address", "size", "file"}
ImageJob == [image : Images \cup {None}, recipe : Recipes, rebuild : BOOLEAN,
             inst : Insts \cup {None}, size : DiskSizes, step : 0..5, found : Image!Contents]
ToolStates == {"absent", "partial", "there"}
ImageTyped ==
  /\ template \in [Images -> Image!Contents] /\ tsize \in [Images -> FileSize]
  /\ conf \in [Images -> Recipes \cup {None}] /\ staging \in Image!Contents
  /\ mounted \in 0..6 /\ leaked \in BOOLEAN /\ tools \in [Image!Tools -> ToolStates]
  /\ inst \in [Insts -> InstDisk] /\ pc \in ImageSteps /\ job \in ImageJob
  /\ cut \in [Images \cup Insts \cup Image!Tools -> SUBSET Lacking] /\ faults \in 0..MaxFaults

LEMMA ImageTypes == ImageTyped => Image!TypeOK
<1> SUFFICES ASSUME ImageTyped PROVE Image!TypeOK
  OBVIOUS
<1>1. Len(Image!BuildSteps) = 5
  BY DEF Image!BuildSteps
<1>2. /\ inst \in [Insts -> [image : Images \cup {None}, disk : Image!Contents, own : BOOLEAN,
                             size : DiskSizes, fs : DiskSizes]]
      /\ \A n \in Insts : inst[n].fs <= inst[n].size
  BY DEF ImageTyped, InstDisk, DiskRecord
<1>3. tsize \in [Images -> [size : DiskSizes, fs : DiskSizes]]
  BY DEF ImageTyped, FileSize
<1>. QED
  BY <1>1, <1>2, <1>3, Zenon DEF ImageTyped, ImageSteps, ImageJob, DiskSizes, ToolStates, Lacking,
     Image!TypeOK, Image!None, None

LEMMA ImageBounds ==
  /\ MaxFaults \in Nat /\ Sizes \subseteq Nat /\ Default \in Recipes /\ DiskSizes \subseteq Nat
  /\ Image!TemplateSize \in DiskSizes /\ Image!Built \in FileSize
<1>1. MaxFaults \in Nat /\ Sizes \subseteq Nat /\ Default \in Recipes /\ Sizes # {}
  BY PartsAssumption DEF Image!ImageAssumption
<1>2. \E z \in Sizes : \A y \in Sizes : z <= y
  BY <1>1, LeastNat
<1>3. Image!TemplateSize \in Sizes
  BY <1>2, Zenon DEF Image!TemplateSize
<1>4. Image!TemplateSize \in DiskSizes /\ Image!TemplateSize <= Image!TemplateSize
  BY <1>1, <1>3 DEF DiskSizes
<1>5. Image!Built \in FileSize
  <2> HIDE DEF Image!TemplateSize
  <2>. QED
    BY <1>4 DEF Image!Built, FileSize
<1>. QED
  BY <1>1, <1>3, <1>5 DEF DiskSizes

LEMMA ContentsOf ==
  /\ "none" \in Image!Contents /\ "broken" \in Image!Contents /\ \A r \in Recipes : r \in Image!Contents
BY DEF Image!Contents, Image!None, Image!Broken

LEMMA InstDisksOf ==
  /\ Image!NoInst \in InstDisk
  /\ \A d \in InstDisk :
       /\ d.disk \in Image!Contents /\ d.size \in DiskSizes /\ d.image \in Images \cup {None}
       /\ Image!Cleared(d) \in InstDisk /\ Image!HalfCopied(d) \in InstDisk
       /\ [d EXCEPT !.own = TRUE] \in InstDisk /\ [d EXCEPT !.fs = d.size] \in InstDisk
  /\ \A d \in InstDisk, i \in Images : [d EXCEPT !.image = i] \in InstDisk
  /\ \A d \in InstDisk, z \in DiskSizes :
       /\ [d EXCEPT !.size = z, !.fs = z] \in InstDisk
       /\ [Image!HalfCopied(d) EXCEPT !.size = z, !.fs = z] \in InstDisk
       /\ z >= d.size => [d EXCEPT !.size = z] \in InstDisk
  /\ \A d \in InstDisk, z \in FileSize, c \in Image!Contents :
       [d EXCEPT !.disk = c, !.size = z.size, !.fs = z.fs, !.own = FALSE] \in InstDisk
  /\ \A d \in InstDisk : [size |-> d.size, fs |-> d.fs] \in FileSize
<1>1. /\ Image!NoInst \in DiskRecord /\ Image!NoInst.fs <= Image!NoInst.size
  BY ContentsOf DEF DiskRecord, DiskSizes, Image!NoInst, Image!None, None
<1>2. ASSUME NEW d \in DiskRecord
      PROVE  /\ d.size \in DiskSizes /\ d.fs \in DiskSizes /\ d.size \in Nat /\ d.fs \in Nat
             /\ d.disk \in Image!Contents /\ d.image \in Images \cup {None}
  BY ImageBounds DEF DiskRecord
<1>3. ASSUME NEW d \in DiskRecord, NEW c \in Image!Contents
      PROVE  /\ [d EXCEPT !.disk = c, !.own = FALSE] \in DiskRecord
             /\ [d EXCEPT !.disk = c, !.own = FALSE].fs = d.fs
             /\ [d EXCEPT !.disk = c, !.own = FALSE].size = d.size
  BY DEF DiskRecord
<1>4. ASSUME NEW d \in DiskRecord
      PROVE  /\ [d EXCEPT !.own = TRUE] \in DiskRecord
             /\ [d EXCEPT !.own = TRUE].fs = d.fs /\ [d EXCEPT !.own = TRUE].size = d.size
  BY DEF DiskRecord
<1>5. ASSUME NEW d \in DiskRecord, NEW i \in Images
      PROVE  /\ [d EXCEPT !.image = i] \in DiskRecord
             /\ [d EXCEPT !.image = i].fs = d.fs /\ [d EXCEPT !.image = i].size = d.size
  BY DEF DiskRecord
<1>6. ASSUME NEW d \in DiskRecord, NEW z \in DiskSizes
      PROVE  /\ [d EXCEPT !.fs = z] \in DiskRecord
             /\ [d EXCEPT !.fs = z].fs = z /\ [d EXCEPT !.fs = z].size = d.size
  BY DEF DiskRecord
<1>7. ASSUME NEW d \in DiskRecord, NEW z \in DiskSizes
      PROVE  /\ [d EXCEPT !.size = z] \in DiskRecord
             /\ [d EXCEPT !.size = z].fs = d.fs /\ [d EXCEPT !.size = z].size = z
  BY DEF DiskRecord
<1>8. ASSUME NEW d \in DiskRecord, NEW z \in DiskSizes
      PROVE  /\ [d EXCEPT !.size = z, !.fs = z] \in DiskRecord
             /\ [d EXCEPT !.size = z, !.fs = z].fs = z
             /\ [d EXCEPT !.size = z, !.fs = z].size = z
  BY DEF DiskRecord
<1>9. ASSUME NEW d \in DiskRecord, NEW z \in DiskSizes, NEW y \in DiskSizes, NEW c \in Image!Contents
      PROVE  /\ [d EXCEPT !.disk = c, !.size = z, !.fs = y, !.own = FALSE] \in DiskRecord
             /\ [d EXCEPT !.disk = c, !.size = z, !.fs = y, !.own = FALSE].fs = y
             /\ [d EXCEPT !.disk = c, !.size = z, !.fs = y, !.own = FALSE].size = z
  BY DEF DiskRecord
<1>10. \A d : d \in InstDisk <=> d \in DiskRecord /\ d.fs <= d.size
  BY DEF InstDisk
<1>11. \A z \in DiskSizes : z \in Nat /\ z <= z
  BY ImageBounds
<1>12. ASSUME NEW d \in InstDisk
       PROVE  /\ d.disk \in Image!Contents /\ d.size \in DiskSizes /\ d.image \in Images \cup {None}
              /\ Image!Cleared(d) \in InstDisk /\ Image!HalfCopied(d) \in InstDisk
              /\ [d EXCEPT !.own = TRUE] \in InstDisk /\ [d EXCEPT !.fs = d.size] \in InstDisk
  <2>1. /\ d \in DiskRecord /\ d.fs <= d.size /\ d.size \in DiskSizes /\ d.size <= d.size
        /\ "broken" \in Image!Contents /\ "none" \in Image!Contents
    BY <1>2, <1>10, <1>11, ContentsOf
  <2>2. Image!Cleared(d) \in InstDisk /\ Image!HalfCopied(d) \in InstDisk
    BY <1>3, <1>10, <2>1 DEF Image!Cleared, Image!HalfCopied, Image!None, Image!Broken
  <2>3. [d EXCEPT !.own = TRUE] \in InstDisk
    BY <1>4, <1>10, <2>1
  <2>4. [d EXCEPT !.fs = d.size] \in InstDisk
    BY <1>6, <1>10, <2>1
  <2>. QED
    BY <1>2, <2>1, <2>2, <2>3, <2>4
<1>13. ASSUME NEW d \in InstDisk, NEW i \in Images
       PROVE  [d EXCEPT !.image = i] \in InstDisk
  BY <1>5, <1>10
<1>14. ASSUME NEW d \in InstDisk, NEW z \in DiskSizes
       PROVE  /\ [d EXCEPT !.size = z, !.fs = z] \in InstDisk
              /\ [Image!HalfCopied(d) EXCEPT !.size = z, !.fs = z] \in InstDisk
              /\ z >= d.size => [d EXCEPT !.size = z] \in InstDisk
  <2>1. d \in DiskRecord /\ d.fs <= d.size /\ d.fs \in Nat /\ d.size \in Nat /\ z \in Nat
    BY <1>2, <1>10, <1>11
  <2>2. z >= d.size => d.fs <= z
    BY <2>1
  <2>3. Image!HalfCopied(d) \in DiskRecord
    BY <1>10, <1>12
  <2>4. [Image!HalfCopied(d) EXCEPT !.size = z, !.fs = z] \in InstDisk
    BY ONLY <1>8, <1>10, <1>11, <2>3
  <2>. QED
    BY <1>7, <1>8, <1>10, <1>11, <2>1, <2>2, <2>4
<1>15. ASSUME NEW d \in InstDisk, NEW s \in FileSize, NEW c \in Image!Contents
       PROVE  [d EXCEPT !.disk = c, !.size = s.size, !.fs = s.fs, !.own = FALSE] \in InstDisk
  <2>1. d \in DiskRecord /\ s.size \in DiskSizes /\ s.fs \in DiskSizes /\ s.fs <= s.size
    BY <1>10 DEF FileSize
  <2>2. ASSUME NEW z \in DiskSizes, NEW y \in DiskSizes, y <= z
        PROVE  [d EXCEPT !.disk = c, !.size = z, !.fs = y, !.own = FALSE] \in InstDisk
    <3> DEFINE e == [d EXCEPT !.disk = c, !.size = z, !.fs = y, !.own = FALSE]
    <3>1. e \in DiskRecord /\ e.fs = y /\ e.size = z
      BY <2>1 DEF DiskRecord
    <3> HIDE DEF e
    <3>2. e \in InstDisk
      BY <1>10, <2>2, <3>1
    <3>. QED
      BY <3>2 DEF e
  <2>. QED
    BY ONLY <2>1, <2>2, Zenon
<1>16. ASSUME NEW d \in InstDisk
       PROVE  [size |-> d.size, fs |-> d.fs] \in FileSize
  BY <1>2, <1>10 DEF FileSize
<1>. QED
  BY <1>1, <1>10, <1>12, <1>13, <1>14, <1>15, <1>16

LEMMA ImageJobsOf ==
  /\ Image!NoJob \in ImageJob
  /\ \A j \in ImageJob : j.recipe \in Recipes /\ j.size \in DiskSizes
  /\ \A j \in ImageJob, k \in 0..5 : [j EXCEPT !.step = k] \in ImageJob
  /\ \A i \in Images, r \in Recipes, b \in BOOLEAN :
       [Image!NoJob EXCEPT !.image = i, !.recipe = r, !.rebuild = b] \in ImageJob
  /\ \A n \in Insts : [Image!NoJob EXCEPT !.inst = n] \in ImageJob
  /\ \A n \in Insts, i \in Images, c \in Image!Contents :
       [Image!NoJob EXCEPT !.image = i, !.inst = n, !.found = c] \in ImageJob
  /\ \A n \in Insts, i \in Images, z \in Sizes :
       [Image!NoJob EXCEPT !.image = i, !.inst = n, !.size = z, !.rebuild = TRUE] \in ImageJob
  /\ \A n \in Insts, i \in Images, r \in Recipes :
       [Image!NoJob EXCEPT !.image = i, !.inst = n, !.recipe = r] \in ImageJob
<1>1. Image!NoJob \in ImageJob
  BY ImageBounds, ContentsOf DEF ImageJob, DiskSizes, Image!NoJob, Image!None, None
<1>2. \A z \in Sizes : z \in DiskSizes
  BY DEF DiskSizes
<1>. QED
  BY <1>1, <1>2 DEF ImageJob

LEMMA ImageTypeInit == Image!Init => ImageTyped
<1> SUFFICES ASSUME Image!Init PROVE ImageTyped
  OBVIOUS
<1>1. leaked \in BOOLEAN
  BY Zenon DEF Image!Init
<1>2. tools \in [Image!Tools -> ToolStates] /\ pc \in ImageSteps
      /\ cut \in [Images \cup Insts \cup Image!Tools -> SUBSET Lacking]
  BY DEF Image!Init, ToolStates, ImageSteps, Lacking
<1>3. /\ template \in [Images -> Image!Contents] /\ tsize \in [Images -> FileSize]
      /\ conf \in [Images -> Recipes \cup {None}] /\ staging \in Image!Contents
  BY ContentsOf, ImageBounds DEF Image!Init, Image!None, None
<1>4. inst \in [Insts -> InstDisk] /\ job \in ImageJob
  BY InstDisksOf, ImageJobsOf DEF Image!Init
<1>5. mounted \in 0..6 /\ faults \in 0..MaxFaults
  BY ImageBounds DEF Image!Init
<1>. QED
  BY <1>1, <1>2, <1>3, <1>4, <1>5 DEF ImageTyped

\* Three fields of one disk set in a row are one disk set.
LEMMA SetTwice ==
  ASSUME inst \in [Insts -> InstDisk], NEW n \in Insts, NEW c, NEW z, NEW y
  PROVE  /\ [inst EXCEPT ![n].size = z, ![n].fs = z]
              = [inst EXCEPT ![n] = [inst[n] EXCEPT !.size = z, !.fs = z]]
         /\ [inst EXCEPT ![n].disk = c, ![n].size = z, ![n].fs = y, ![n].own = FALSE]
              = [inst EXCEPT ![n] = [inst[n] EXCEPT !.disk = c, !.size = z, !.fs = y, !.own = FALSE]]
<1> DEFINE f == [inst EXCEPT ![n].disk = c, ![n].size = z]
           g == [f EXCEPT ![n].fs = y, ![n].own = FALSE]
           d == [inst[n] EXCEPT !.disk = c, !.size = z]
           e == [d EXCEPT !.fs = y, !.own = FALSE]
<1>1. f = [inst EXCEPT ![n] = d]
  OBVIOUS
<1>2. f \in [Insts -> InstDisk \cup {d}] /\ f[n] = d
  <2> HIDE DEF d
  <2>. QED
    BY <1>1
<1>3. g = [f EXCEPT ![n] = e]
  <2> HIDE DEF d, f
  <2>. QED
    BY <1>2
<1>4. [f EXCEPT ![n] = e] = [inst EXCEPT ![n] = e]
  <2> HIDE DEF d, f, e
  <2>. QED
    BY <1>1
<1>5. [inst EXCEPT ![n].disk = c, ![n].size = z, ![n].fs = y, ![n].own = FALSE] = g
  BY Zenon
<1>6. e = [inst[n] EXCEPT !.disk = c, !.size = z, !.fs = y, !.own = FALSE]
  BY Zenon
<1>7. [inst EXCEPT ![n].disk = c, ![n].size = z, ![n].fs = y, ![n].own = FALSE]
        = [inst EXCEPT ![n] = [inst[n] EXCEPT !.disk = c, !.size = z, !.fs = y, !.own = FALSE]]
  <2> HIDE DEF g, f
  <2>. QED
    BY <1>3, <1>4, <1>5, <1>6
<1>8. [inst EXCEPT ![n].size = z, ![n].fs = z]
        = [inst EXCEPT ![n] = [inst[n] EXCEPT !.size = z, !.fs = z]]
  OBVIOUS
<1>. QED
  BY <1>7, <1>8

\* What a step may make of the disks of the instances.
DisksChange == UNCHANGED inst \/ \E n \in Insts, d \in InstDisk : inst' = [inst EXCEPT ![n] = d]

LEMMA DisksStep ==
  ASSUME ImageInv, ImageTyped, Image!Next
  PROVE  DisksChange
<1>0. /\ inst \in [Insts -> InstDisk] /\ \A n \in Insts : inst[n] \in InstDisk
      /\ pc \in Image!DiskSteps => job.inst \in Insts /\ inst[job.inst] \in InstDisk
      /\ pc = "copy" => job.image \in Images
      /\ job.size \in DiskSizes
  BY ImageJobsOf DEF ImageInv, ImageBuilds, Image!DiskSteps, ImageTyped
<1>1. ASSUME NEW n \in Insts, NEW d \in InstDisk, inst' = [inst EXCEPT ![n] = d]
      PROVE  DisksChange
  BY <1>1 DEF DisksChange
<1>2. ASSUME NEW d \in InstDisk, job.inst \in Insts, NEW what, Image!DiskFails(d, what)
      PROVE  DisksChange
  <2>1. inst' = [inst EXCEPT ![job.inst] = Image!NoInst] \/ inst' = [inst EXCEPT ![job.inst] = d]
    BY <1>2 DEF Image!DiskFails
  <2>. QED
    BY <1>1, <1>2, <2>1, InstDisksOf
<1>3. ASSUME NEW n \in Insts, NEW i \in Images, NEW z \in Sizes, Image!Up(n, i, z)
      PROVE  DisksChange
  <2>1. UNCHANGED inst \/ inst' = [inst EXCEPT ![n].image = i]
    BY <1>3 DEF Image!Up
  <2>2. [inst[n] EXCEPT !.image = i] \in InstDisk
    BY <1>0, InstDisksOf
  <2>. QED
    BY <1>1, <2>1, <2>2 DEF DisksChange
<1>4. ASSUME NEW n \in Insts, NEW z \in Sizes, Image!Resize(n, z)
      PROVE  DisksChange
  <2>1. z > inst[n].size /\ inst' = [inst EXCEPT ![n].size = z]
    BY <1>4 DEF Image!Resize
  <2>2. inst[n] \in InstDisk /\ inst[n].size \in Nat /\ z \in Nat /\ z \in DiskSizes
    BY <1>0, InstDisksOf, ImageBounds DEF DiskSizes
  <2>3. z >= inst[n].size
    BY <2>1, <2>2
  <2>4. [inst[n] EXCEPT !.size = z] \in InstDisk
    BY ONLY <2>2, <2>3, InstDisksOf
  <2>. QED
    BY <1>1, <2>1, <2>4
<1>5. ASSUME NEW n \in Insts, Image!Destroy(n)
      PROVE  DisksChange
  BY <1>1, <1>5, InstDisksOf DEF Image!Destroy
<1>6. CASE Image!CopyTemplate
  <2>1. /\ template[job.image] \in Image!Contents /\ tsize[job.image] \in FileSize
        /\ job.inst \in Insts
    BY <1>0, <1>6 DEF ImageTyped, Image!CopyTemplate, Image!DiskSteps
  <2> DEFINE size == tsize[job.image]
             copied == [inst[job.inst] EXCEPT !.disk = template[job.image], !.size = size.size,
                                              !.fs = size.fs, !.own = FALSE]
             cleared == Image!Cleared(inst[job.inst])
             broken == Image!HalfCopied(inst[job.inst])
  <2>2. copied \in InstDisk
    BY <1>0, <2>1, InstDisksOf
  <2>3. broken \in InstDisk /\ cleared \in InstDisk
    BY <1>0, <2>1, InstDisksOf
  <2>4. \/ inst' = [inst EXCEPT ![job.inst] = copied]
        \/ Image!DiskFails(broken, {"disk", "address"})
        \/ Image!DiskFails(cleared, {"disk", "address"})
    <3>1. CASE inst' = [inst EXCEPT ![job.inst].disk = template[job.image],
                                   ![job.inst].size = size.size, ![job.inst].fs = size.fs,
                                   ![job.inst].own = FALSE]
      BY <1>0, <2>1, <3>1, SetTwice, Zenon
    <3>2. CASE \E left \in {cleared, broken} : Image!DiskFails(left, {"disk", "address"})
      <4> HIDE DEF cleared, broken
      <4>. QED
        BY <3>2
    <3>. QED
      BY <1>6, <3>1, <3>2, Zenon DEF Image!CopyTemplate
  <2> HIDE DEF copied, cleared, broken
  <2>. QED
    BY <1>1, <1>2, <2>1, <2>2, <2>3, <2>4
<1>7. CASE Image!GrowNew
  <2>1. job.inst \in Insts
    BY <1>0, <1>7 DEF Image!GrowNew, Image!DiskSteps
  <2> DEFINE old == inst[job.inst]
             grown == [inst[job.inst] EXCEPT !.size = job.size, !.fs = job.size]
  <2>2. old \in InstDisk /\ grown \in InstDisk
    BY <1>0, <2>1, InstDisksOf
  <2>3. UNCHANGED inst \/ Image!DiskFails(old, {}) \/ inst' = [inst EXCEPT ![job.inst] = grown]
    BY <1>0, <1>7, <2>1, SetTwice, Zenon DEF Image!GrowNew
  <2> HIDE DEF old, grown
  <2>. QED
    BY <1>1, <1>2, <2>1, <2>2, <2>3 DEF DisksChange
<1>8. CASE Image!PatchNetwork
  <2>1. job.inst \in Insts
    BY <1>0, <1>8 DEF Image!PatchNetwork, Image!DiskSteps
  <2> DEFINE old == inst[job.inst]
             own == [inst[job.inst] EXCEPT !.own = TRUE]
  <2>2. old \in InstDisk /\ own \in InstDisk
    BY <1>0, <2>1, InstDisksOf
  <2>3. Image!DiskFails(old, {"address"}) \/ inst' = [inst EXCEPT ![job.inst] = own]
    BY <1>8 DEF Image!PatchNetwork
  <2> HIDE DEF old, own
  <2>. QED
    BY <1>1, <1>2, <2>1, <2>2, <2>3
<1>9. CASE Image!SaveLineage
  <2>1. job.inst \in Insts /\ job.image \in Images
    BY <1>0, <1>9 DEF Image!SaveLineage, Image!DiskSteps, ImageInv, ImageBuilds
  <2> DEFINE old == inst[job.inst]
             now == [inst[job.inst] EXCEPT !.image = job.image]
  <2>2. old \in InstDisk /\ now \in InstDisk
    BY <1>0, <2>1, InstDisksOf
  <2>3. Image!DiskFails(old, {}) \/ inst' = [inst EXCEPT ![job.inst] = now]
    BY <1>9 DEF Image!SaveLineage
  <2> HIDE DEF old, now
  <2>. QED
    BY <1>1, <1>2, <2>1, <2>2, <2>3
<1>10. CASE Image!GrowFilesystem
  <2>1. job.inst \in Insts
    BY <1>0, <1>10 DEF Image!GrowFilesystem, Image!DiskSteps
  <2> DEFINE old == inst[job.inst]
             whole == [inst[job.inst] EXCEPT !.fs = inst[job.inst].size]
  <2>2. old \in InstDisk /\ whole \in InstDisk
    BY <1>0, <2>1, InstDisksOf
  <2>3. Image!DiskFails(old, {"size"}) \/ inst' = [inst EXCEPT ![job.inst] = whole]
    BY <1>10 DEF Image!GrowFilesystem
  <2> HIDE DEF old, whole
  <2>. QED
    BY <1>1, <1>2, <2>1, <2>2, <2>3
<1>11. CASE Image!Kill
  <2>1. CASE Image!KillDisk
    <3> DEFINE d == inst[job.inst]
    <3>1. job.inst \in Insts /\ d \in InstDisk /\ d.size \in DiskSizes /\ job.size \in DiskSizes
      BY <1>0, <2>1, InstDisksOf DEF Image!KillDisk
    <3>2. Image!LeftDisks(d) \subseteq InstDisk
      <4>1. /\ Image!Cleared(d) \in InstDisk /\ Image!HalfCopied(d) \in InstDisk
            /\ [Image!HalfCopied(d) EXCEPT !.size = job.size, !.fs = job.size] \in InstDisk
            /\ job.size >= d.size => [d EXCEPT !.size = job.size] \in InstDisk
        BY <3>1, InstDisksOf
      <4> HIDE DEF d
      <4>. QED
        BY <3>1, <4>1, Zenon DEF Image!LeftDisks
    <3>3. PICK left \in Image!LeftDisks(d) : inst' = [inst EXCEPT ![job.inst] = left]
      BY <2>1 DEF Image!KillDisk
    <3>. QED
      BY <1>1, <3>1, <3>2, <3>3
  <2>2. CASE Image!KillCommit \/ Image!KillSetup
    BY <2>2 DEF Image!KillCommit, Image!KillSetup, DisksChange
  <2>. QED
    BY <1>11, <2>1, <2>2 DEF Image!Kill
<1>13. CASE Image!ClearDisk
  <2>1. job.inst \in Insts
    BY <1>0, <1>13 DEF Image!ClearDisk, Image!DiskSteps
  <2> DEFINE old == inst[job.inst]
             cleared == Image!Cleared(inst[job.inst])
  <2>2. old \in InstDisk /\ cleared \in InstDisk
    BY <1>0, <2>1, InstDisksOf
  <2>3. Image!DiskFails(old, {}) \/ inst' = [inst EXCEPT ![job.inst] = cleared]
    BY <1>13, Zenon DEF Image!ClearDisk
  <2> HIDE DEF old, cleared
  <2>. QED
    BY <1>1, <1>2, <2>1, <2>2, <2>3
<1>12. CASE \/ \E i \in Images, r \in Recipes, b \in BOOLEAN : Image!Setup(i, r, b)
            \/ \E n \in Insts, i \in Images : Image!Restore(n, i)
            \/ \E n \in Insts, i \in Images, f \in BOOLEAN : Image!Commit(n, i, f)
            \/ Image!CheckHost \/ Image!InstallFirecracker \/ Image!MakeExecutable
            \/ Image!FetchKernel \/ Image!CheckTemplate \/ Image!CalledUpToDate
            \/ Image!BuildStep \/ Image!BuildFails \/ Image!SwapTemplate \/ Image!SaveConfig
            \/ Image!TakeDisk
  BY <1>12 DEF DisksChange, Image!files, Image!Setup, Image!Restore, Image!Commit, Image!CheckHost,
     Image!InstallFirecracker, Image!MakeExecutable, Image!FetchKernel, Image!CheckTemplate,
     Image!CalledUpToDate, Image!BuildStep, Image!BuildFails, Image!SwapTemplate,
     Image!SaveConfig, Image!TakeDisk
<1>. QED
  BY <1>3, <1>4, <1>5, <1>6, <1>7, <1>8, <1>9, <1>10, <1>11, <1>12, <1>13 DEF Image!Next

CutType == [Images \cup Insts \cup Image!Tools -> SUBSET Lacking]

LEMMA CutStep ==
  ASSUME ImageInv, ImageTyped, Image!Next
  PROVE  cut' \in CutType
<1>1. /\ cut \in CutType
      /\ pc \in Image!DiskSteps \cup {"take"} => job.inst \in Insts
      /\ pc \in {"copy", "take"} => job.image \in Images
  BY DEF ImageInv, ImageBuilds, ImageTyped, CutType
<1>2. ASSUME NEW x, NEW w \in SUBSET Lacking, Image!Undone(x, w)
      PROVE  cut' \in CutType
  BY ONLY <1>1, <1>2 DEF CutType, Image!Undone
<1>3. ASSUME NEW x, cut' = [cut EXCEPT ![x] = {}]
      PROVE  cut' \in CutType
  BY ONLY <1>1, <1>3 DEF CutType
<1>4. ASSUME NEW d, NEW w \in SUBSET Lacking, Image!DiskFails(d, w)
      PROVE  cut' \in CutType
  BY ONLY <1>2, <1>3, <1>4, Zenon DEF Image!DiskFails
<1>5. CASE UNCHANGED cut
  BY ONLY <1>1, <1>5
<1>6. /\ {} \in SUBSET Lacking /\ {"disk"} \in SUBSET Lacking /\ {"file"} \in SUBSET Lacking
      /\ {"address"} \in SUBSET Lacking /\ {"size"} \in SUBSET Lacking
      /\ {"disk", "address"} \in SUBSET Lacking
  BY ONLY DEF Lacking
<1>7. CASE Image!Kill
  <2>1. Image!LeftUndone(inst[job.inst]) \in SUBSET Lacking
    BY ONLY DEF Image!LeftUndone, Lacking
  <2>. QED
    BY ONLY <1>2, <1>5, <1>6, <1>7, <2>1, Zenon
    DEF Image!Kill, Image!KillDisk, Image!KillCommit, Image!KillSetup
<1>8. CASE Image!MakeExecutable \/ Image!FetchKernel
  BY ONLY <1>2, <1>5, <1>6, <1>8, Zenon DEF Image!MakeExecutable, Image!FetchKernel
<1>9. CASE Image!ClearDisk \/ Image!GrowNew \/ Image!PatchNetwork \/ Image!SaveLineage
  BY ONLY <1>4, <1>5, <1>6, <1>9, Zenon
  DEF Image!ClearDisk, Image!GrowNew, Image!PatchNetwork, Image!SaveLineage
<1>10. CASE Image!CopyTemplate
  <2>1. CASE pc = "copy" /\ cut' = [cut EXCEPT ![job.inst] = cut[job.image]]
    BY ONLY <1>1, <2>1 DEF CutType
  <2>. QED
    BY ONLY <1>4, <1>6, <1>10, <2>1, Zenon DEF Image!CopyTemplate
<1>11. CASE Image!GrowFilesystem
  <2>1. CASE cut' = [cut EXCEPT ![job.inst] = @ \ {"size"}]
    BY ONLY <1>1, <2>1 DEF CutType
  <2>. QED
    BY ONLY <1>4, <1>6, <1>11, <2>1, Zenon DEF Image!GrowFilesystem
<1>12. CASE Image!TakeDisk
  <2>1. CASE pc = "take" /\ cut' = [cut EXCEPT ![job.image] = cut[job.inst] \ {"address"}]
    BY ONLY <1>1, <2>1 DEF CutType, Image!DiskSteps
  <2>. QED
    BY ONLY <1>2, <1>6, <1>12, <2>1, Zenon DEF Image!TakeDisk
<1>13. CASE Image!SwapTemplate \/ \E n \in Insts : Image!Destroy(n)
  BY ONLY <1>3, <1>5, <1>13, Zenon DEF Image!SwapTemplate, Image!Destroy
<1>14. CASE \/ \E i \in Images, r \in Recipes, b \in BOOLEAN : Image!Setup(i, r, b)
            \/ \E n \in Insts, i \in Images : Image!Restore(n, i)
            \/ \E n \in Insts, i \in Images, f \in BOOLEAN : Image!Commit(n, i, f)
            \/ \E n \in Insts, i \in Images, z \in Sizes : Image!Up(n, i, z)
            \/ \E n \in Insts, z \in Sizes : Image!Resize(n, z)
            \/ Image!CheckHost \/ Image!InstallFirecracker \/ Image!CheckTemplate
            \/ Image!CalledUpToDate \/ Image!BuildStep \/ Image!BuildFails \/ Image!SaveConfig
  BY ONLY <1>5, <1>14 DEF Image!files, Image!Setup, Image!Restore, Image!Commit, Image!Up,
     Image!Resize, Image!CheckHost, Image!InstallFirecracker, Image!CheckTemplate,
     Image!CalledUpToDate, Image!BuildStep, Image!BuildFails, Image!SaveConfig
<1>. QED
  BY ONLY <1>7, <1>8, <1>9, <1>10, <1>11, <1>12, <1>13, <1>14, ImageTyped, Image!Next DEF Image!Next

LEMMA ImageTypeStep == ImageInv /\ ImageTyped /\ [Image!Next]_(Image!vars) => ImageTyped'
<1> SUFFICES ASSUME ImageInv, ImageTyped, [Image!Next]_(Image!vars) PROVE ImageTyped'
  OBVIOUS
<1>1. CASE UNCHANGED Image!vars
  BY <1>1 DEF Image!vars, ImageTyped
<1>2. CASE Image!Next
  <2> USE <1>2 DEF Image!Next, Image!Setup, Image!CheckHost, Image!InstallFirecracker,
      Image!MakeExecutable, Image!FetchKernel, Image!CheckTemplate, Image!CalledUpToDate,
      Image!BuildStep, Image!BuildFails, Image!SwapTemplate, Image!SaveConfig, Image!Up,
      Image!Restore, Image!Commit, Image!Resize, Image!Destroy, Image!ClearDisk,
      Image!CopyTemplate, Image!GrowNew, Image!PatchNetwork, Image!SaveLineage,
      Image!GrowFilesystem, Image!TakeDisk, Image!Kill, Image!KillDisk, Image!KillCommit,
      Image!KillSetup
  <2>0. /\ pc \notin {"idle", "fsck"} => job.image \in Images
        /\ pc \in Image!DiskSteps \cup {"take"} => job.inst \in Insts
        /\ pc = "build" => job.step \in 1..5
        /\ job.recipe \in Recipes /\ job.size \in DiskSizes
    BY ONLY ImageInv, ImageTyped, ImageJobsOf DEF ImageInv, ImageBuilds, ImageTyped
  <2>1. UNCHANGED faults \/ Image!Fault
    BY Zenon DEF Image!files
  <2>2. faults' \in 0..MaxFaults
    BY ONLY <2>1, ImageTyped, ImageBounds DEF ImageTyped, Image!Fault
  <2>3. pc' \in ImageSteps
    BY DEF ImageTyped, ImageSteps, Image!Go, Image!Finish, Image!DiskFails
  <2>4. leaked' \in BOOLEAN
    BY DEF ImageTyped, Image!Unwound, Image!files
  <2>5. mounted' \in {mounted, 0, 6}
    BY DEF Image!Unwound, Image!files
  <2>6. staging' \in {staging, "none", "broken", job.recipe}
    BY DEF ImageTyped, Image!Staged, Image!files, Image!None, Image!Broken
  <2>7. conf' \in [Images -> Recipes \cup {None}]
    BY <2>0 DEF ImageTyped, Image!files
  <2>8. tools' \in [Image!Tools -> ToolStates]
    BY DEF ImageTyped, ToolStates, Image!files
  <2>9. pc = "copy" \/ pc = "take" => job.image \in Images
    BY <2>0
  <2>10. tsize' \in [Images -> FileSize]
    <3> DEFINE taken == [size |-> inst[job.inst].size, fs |-> inst[job.inst].fs]
    <3>1. \/ UNCHANGED tsize
          \/ tsize' = [tsize EXCEPT ![job.image] = Image!Built]
          \/ pc = "take" /\ tsize' = [tsize EXCEPT ![job.image] = taken]
      BY DEF Image!files
    <3>2. pc = "take" => taken \in FileSize
      BY ONLY <2>0, ImageTyped, InstDisksOf DEF ImageTyped
    <3> HIDE DEF taken
    <3>. QED
      BY ONLY <3>1, <3>2, ImageTyped, ImageBounds DEF ImageTyped
  <2>11. template' \in [Images -> Image!Contents]
    <3>1. \/ UNCHANGED template
          \/ template' = [template EXCEPT ![job.image] = staging]
          \/ template' = [template EXCEPT ![job.image] = "broken"]
          \/ template' = [template EXCEPT ![job.image] = "none"]
          \/ \E i \in Images : template' = [template EXCEPT ![i] = "none"]
          \/ pc = "take" /\ template' = [template EXCEPT ![job.image] = inst[job.inst].disk]
      BY DEF Image!files, Image!None, Image!Broken
    <3>2. pc = "take" => inst[job.inst].disk \in Image!Contents
      BY ONLY <2>0, ImageTyped, InstDisksOf DEF ImageTyped
    <3>. QED
      BY ONLY <3>1, <3>2, ImageTyped, ContentsOf DEF ImageTyped
  <2>12. /\ mounted' \in 0..6 /\ staging' \in Image!Contents
    BY ONLY <2>0, <2>5, <2>6, ImageTyped, ContentsOf DEF ImageTyped
  <2>13. DisksChange
    BY ONLY <1>2, ImageInv, ImageTyped, DisksStep
  <2>14. inst' \in [Insts -> InstDisk]
    BY ONLY <2>13, ImageTyped DEF ImageTyped, DisksChange
  <2>15. cut' \in CutType
    BY ONLY <1>2, ImageInv, ImageTyped, CutStep
  <2>16. job' \in ImageJob
    <3>1. ASSUME NEW i \in Images, NEW r \in Recipes, NEW b \in BOOLEAN, Image!Setup(i, r, b)
          PROVE  job' \in ImageJob
      <4>1. Image!Asked(i, r) \in Recipes
        BY DEF Image!Asked, ImageTyped, Image!None, None
      <4>. QED
        BY <3>1, <4>1, ImageJobsOf
    <3>2. ASSUME NEW n \in Insts, NEW i \in Images, NEW z \in Sizes, Image!Up(n, i, z)
          PROVE  job' \in ImageJob
      <4>1. \/ job' = job
            \/ job' = [Image!NoJob EXCEPT !.image = i, !.inst = n, !.size = z, !.rebuild = TRUE]
        BY ONLY <3>2 DEF Image!Up
      <4>2. [Image!NoJob EXCEPT !.image = i, !.inst = n, !.size = z, !.rebuild = TRUE] \in ImageJob
        BY ONLY ImageJobsOf, Zenon
      <4>. QED
        BY ONLY <4>1, <4>2, ImageTyped DEF ImageTyped
    <3>3. ASSUME NEW n \in Insts, NEW i \in Images, Image!Restore(n, i)
          PROVE  job' \in ImageJob
      <4>1. inst[n].disk \in Image!Contents
        BY ONLY ImageTyped, InstDisksOf DEF ImageTyped
      <4>2. job' = [Image!NoJob EXCEPT !.image = i, !.inst = n, !.found = inst[n].disk]
        BY ONLY <3>3 DEF Image!Restore
      <4>. QED
        BY ONLY <4>1, <4>2, ImageJobsOf
    <3>4. ASSUME NEW n \in Insts, NEW i \in Images, NEW f \in BOOLEAN, Image!Commit(n, i, f)
          PROVE  job' \in ImageJob
      <4>1. inst[n].image \in Images /\ conf[inst[n].image] \in Recipes
        BY <3>4, InstDisksOf DEF ImageTyped, Image!Exists, Image!None, None
      <4>. QED
        BY <3>4, <4>1, ImageJobsOf
    <3>5. ASSUME NEW n \in Insts, NEW z \in Sizes, Image!Resize(n, z)
          PROVE  job' \in ImageJob
      BY <3>5, ImageJobsOf
    <3>6. CASE Image!CheckTemplate
      <4>1. job' = job \/ job' = [job EXCEPT !.step = 1]
        BY ONLY <3>6 DEF Image!Go, Image!CheckTemplate
      <4>2. 1 \in 0..5 /\ job \in ImageJob
        BY ONLY ImageTyped DEF ImageTyped
      <4>3. [job EXCEPT !.step = 1] \in ImageJob
        BY ONLY <4>2, ImageJobsOf, Zenon
      <4>. QED
        BY ONLY <4>1, <4>2, <4>3
    <3>7. CASE Image!BuildStep
      <4>1. job' = job \/ (job.step < 5 /\ job' = [job EXCEPT !.step = @ + 1])
        BY <3>7 DEF Image!Go, Image!BuildSteps
      <4>2. job.step < 5 => job.step + 1 \in 0..5
        BY <2>0, <3>7
      <4>. QED
        <5>1. job \in ImageJob
          BY ONLY ImageTyped DEF ImageTyped
        <5>2. job.step < 5 => [job EXCEPT !.step = @ + 1] \in ImageJob
          BY ONLY <4>2, <5>1, ImageJobsOf, Zenon
        <5>. QED
          BY ONLY <4>1, <5>1, <5>2
    <3>8. job' \in {job, Image!NoJob} =>  job' \in ImageJob
      BY ImageJobsOf DEF ImageTyped
    <3>. QED
      BY <3>1, <3>2, <3>3, <3>4, <3>5, <3>6, <3>7, <3>8
      DEF Image!Go, Image!Finish, Image!DiskFails
  <2>. QED
    BY <2>2, <2>3, <2>4, <2>7, <2>8, <2>10, <2>11, <2>12, <2>14, <2>15, <2>16 DEF ImageTyped, CutType
<1>. QED
  BY <1>1, <1>2
-----------------------------------------------------------------------------
(* Images and instances of Lima *)

LimaSteps == {"idle", "check", "build", "swap", "config", "template", "guard", "guarding", "stamp",
              "write", "create", "ssh", "mark", "boot", "copy", "take", "lineage",
              "delete", "rmdir"}
LimaVm == [image : LimaImages \cup {None}, vm : {None, "Stopped", "Running", "Broken"},
           disk : Lima!Disks, net : Lima!Modes, mounts : BOOLEAN, marked : BOOLEAN,
           yaml : BOOLEAN, spec : {"good", "bad"}, stale : BOOLEAN]
LimaCommand == [verb : {None, "setup", "up", "start", "resources", "commit", "restore", "destroy"},
                mode : Lima!Modes, image : LimaImages \cup {None}, inst : Insts \cup {None},
                recipe : {Default} \cup {None}, mounts : BOOLEAN, start : BOOLEAN,
                old : {"good", "bad"}]
Ages == {None, "old", "current"}
LimaTyped ==
  /\ config \in Lima!Modes /\ base \in [LimaImages -> Lima!Disks]
  /\ conf \in [LimaImages -> {Default} \cup {None}]
  /\ guarded \in [LimaImages -> Ages] /\ stamp \in [LimaImages -> Ages]
  /\ tmpl \in [LimaImages -> Lima!Modes \cup {None}] /\ inst \in [Insts -> LimaVm]
  /\ pc \in LimaSteps /\ job \in LimaCommand
  /\ cut \subseteq Insts /\ faults \in 0..LimaFaults
  \* What CreateVm boots with: the template is there by then.
  /\ pc = "create" => tmpl[job.image] # None

LEMMA LimaTypes == LimaTyped => Lima!TypeOK
BY Zenon DEF LimaTyped, LimaSteps, LimaVm, LimaCommand, Ages, Lima!TypeOK, Lima!None, None

LEMMA LimaBounds == LimaFaults \in Nat /\ None \notin LimaImages \cup Insts
BY PartsAssumption DEF Lima!LimaAssumption, Lima!None, None

LEMMA LimaVmsOf ==
  /\ Lima!NoInst \in LimaVm
  /\ \A v \in LimaVm : /\ v.image \in LimaImages \cup {None} /\ v.disk \in Lima!Disks
                       /\ v.spec \in {"good", "bad"}
                       /\ v.marked \in BOOLEAN /\ v.yaml \in BOOLEAN
  /\ \A v \in LimaVm, i \in LimaImages \cup {None} : [v EXCEPT !.image = i] \in LimaVm
  /\ \A v \in LimaVm, s \in {"Stopped", "Running", "Broken"} : [v EXCEPT !.vm = s] \in LimaVm
  /\ \A v \in LimaVm, s \in {"Stopped", "Running"}, p \in {"good", "bad"} :
       [v EXCEPT !.vm = s, !.spec = p] \in LimaVm
  /\ \A v \in LimaVm, p \in {"good", "bad"} : [v EXCEPT !.spec = p] \in LimaVm
  /\ \A v \in LimaVm, d \in Lima!Disks : [v EXCEPT !.disk = d] \in LimaVm
  /\ \A v \in LimaVm, b \in BOOLEAN : [v EXCEPT !.marked = b, !.stale = FALSE] \in LimaVm
  /\ \A v \in LimaVm, d \in Lima!Disks, m \in Lima!Modes, b, y, t \in BOOLEAN :
       [v EXCEPT !.vm = "Running", !.disk = d, !.net = m, !.mounts = b, !.yaml = y,
                 !.spec = "good", !.stale = t] \in LimaVm
  /\ \A v \in LimaVm, i \in LimaImages \cup {None}, b, y \in BOOLEAN :
       [v EXCEPT !.image = i, !.marked = b, !.yaml = y] \in LimaVm
  /\ \A v \in LimaVm : Lima!WithoutVm(v) \in LimaVm
<1>1. Lima!NoInst \in LimaVm
  BY DEF LimaVm, Lima!NoInst, Lima!Disks, Lima!Modes, Lima!None, None
<1>2. \A v \in LimaVm : Lima!WithoutVm(v) \in LimaVm
  BY DEF LimaVm, Lima!WithoutVm, Lima!Disks, Lima!Modes, Lima!None, None
<1>3. /\ \A v \in LimaVm, i \in LimaImages \cup {None} : [v EXCEPT !.image = i] \in LimaVm
      /\ \A v \in LimaVm, s \in {"Stopped", "Running", "Broken"} : [v EXCEPT !.vm = s] \in LimaVm
      /\ \A v \in LimaVm, s \in {"Stopped", "Running"}, p \in {"good", "bad"} :
           [v EXCEPT !.vm = s, !.spec = p] \in LimaVm
  BY DEF LimaVm
<1>4. /\ \A v \in LimaVm, p \in {"good", "bad"} : [v EXCEPT !.spec = p] \in LimaVm
      /\ \A v \in LimaVm, d \in Lima!Disks : [v EXCEPT !.disk = d] \in LimaVm
      /\ \A v \in LimaVm, b \in BOOLEAN : [v EXCEPT !.marked = b, !.stale = FALSE] \in LimaVm
  BY DEF LimaVm
<1>5. \A v \in LimaVm, d \in Lima!Disks, m \in Lima!Modes, b, y, t \in BOOLEAN :
        [v EXCEPT !.vm = "Running", !.disk = d, !.net = m, !.mounts = b, !.yaml = y,
                  !.spec = "good", !.stale = t] \in LimaVm
  BY DEF LimaVm
<1>6. \A v \in LimaVm, i \in LimaImages \cup {None}, b, y \in BOOLEAN :
        [v EXCEPT !.image = i, !.marked = b, !.yaml = y] \in LimaVm
  BY DEF LimaVm
<1>7. \A v \in LimaVm : /\ v.image \in LimaImages \cup {None} /\ v.disk \in Lima!Disks
                        /\ v.spec \in {"good", "bad"}
                        /\ v.marked \in BOOLEAN /\ v.yaml \in BOOLEAN
  BY DEF LimaVm
<1>. QED
  BY ONLY <1>1, <1>2, <1>3, <1>4, <1>5, <1>6, <1>7

LEMMA LimaCommandsOf ==
  /\ Lima!NoJob \in LimaCommand
  /\ \A j \in LimaCommand : /\ j.mode \in Lima!Modes /\ j.recipe \in {Default} \cup {None}
                            /\ j.mounts \in BOOLEAN /\ j.old \in {"good", "bad"}
  /\ \A j \in LimaCommand, m \in Lima!Modes : [j EXCEPT !.mode = m] \in LimaCommand
  /\ \A i \in LimaImages, b \in BOOLEAN :
       [Lima!NoJob EXCEPT !.verb = "setup", !.image = i, !.recipe = Default, !.start = b] \in LimaCommand
  /\ \A n \in Insts, i \in LimaImages, b \in BOOLEAN :
       [Lima!NoJob EXCEPT !.verb = "up", !.image = i, !.inst = n, !.mounts = b] \in LimaCommand
  /\ \A n \in Insts, p \in {"good", "bad"} :
       [Lima!NoJob EXCEPT !.verb = "start", !.inst = n, !.start = TRUE, !.old = p] \in LimaCommand
  /\ \A n \in Insts, p \in {"good", "bad"}, b \in BOOLEAN :
       [Lima!NoJob EXCEPT !.verb = "resources", !.inst = n, !.start = b, !.old = p] \in LimaCommand
  /\ \A n \in Insts, i \in LimaImages :
       /\ [Lima!NoJob EXCEPT !.verb = "commit", !.image = i, !.inst = n, !.recipe = Default] \in LimaCommand
       /\ [Lima!NoJob EXCEPT !.verb = "restore", !.image = i, !.inst = n] \in LimaCommand
  /\ \A n \in Insts : [Lima!NoJob EXCEPT !.verb = "destroy", !.inst = n] \in LimaCommand
<1>1. Lima!NoJob \in LimaCommand
  BY DEF LimaCommand, Lima!NoJob, Lima!Modes, Lima!None, None
<1>. QED
  BY <1>1 DEF LimaCommand

LEMMA AgesOf ==
  ASSUME NEW f \in [LimaImages -> Ages], NEW i \in LimaImages
  PROVE  Lima!Aged(f, i) \in [LimaImages -> Ages] /\ [f EXCEPT ![i] = "current"] \in [LimaImages -> Ages]
         /\ [f EXCEPT ![i] = None] \in [LimaImages -> Ages]
BY DEF Ages, Lima!Aged, Lima!None, None

LEMMA LimaTypeInit == Lima!Init => LimaTyped
<1> SUFFICES ASSUME Lima!Init PROVE LimaTyped
  OBVIOUS
<1>1. /\ config \in Lima!Modes /\ base \in [LimaImages -> Lima!Disks]
      /\ conf \in [LimaImages -> {Default} \cup {None}] /\ tmpl \in [LimaImages -> Lima!Modes \cup {None}]
      /\ guarded \in [LimaImages -> Ages] /\ stamp \in [LimaImages -> Ages]
  BY DEF Lima!Init, Lima!Disks, Ages, Lima!None, None
<1>2. inst \in [Insts -> LimaVm] /\ job \in LimaCommand
  BY LimaVmsOf, LimaCommandsOf DEF Lima!Init
<1>3. pc \in LimaSteps /\ pc # "create" /\ cut = {} /\ faults \in 0..LimaFaults
  BY LimaBounds DEF Lima!Init, LimaSteps
<1>. QED
  BY <1>1, <1>2, <1>3 DEF LimaTyped

LEMMA KilledTypes ==
  ASSUME NEW w \in LimaVm
  PROVE  Lima!Killed(w) \subseteq LimaVm
<1> SUFFICES ASSUME NEW v \in Lima!Killed(w) PROVE v \in LimaVm
  OBVIOUS
<1>1. CASE pc = "take"
  <2>1. v = [w EXCEPT !.disk = "broken"]
    BY <1>1 DEF Lima!Killed
  <2>. QED
    BY <2>1, LimaVmsOf DEF Lima!Disks
<1>2. CASE pc = "boot"
  <2>1. PICK x \in {"Stopped", "Running"} : v = [w EXCEPT !.vm = x]
    BY <1>2 DEF Lima!Killed
  <2>2. [w EXCEPT !.vm = x] \in LimaVm
    BY LimaVmsOf
  <2>. QED
    BY ONLY <2>1, <2>2
<1>3. CASE pc = "delete"
  <2>1. v = w \/ v = [w EXCEPT !.vm = "Stopped"] \/ v = [w EXCEPT !.vm = "Broken"]
    BY <1>3 DEF Lima!Killed, Lima!HalfDeleted
  <2>2. [w EXCEPT !.vm = "Stopped"] \in LimaVm /\ [w EXCEPT !.vm = "Broken"] \in LimaVm
    BY LimaVmsOf
  <2>. QED
    BY ONLY <2>1, <2>2
<1>4. CASE pc = "rmdir"
  <2>1. v \in Lima!HalfRemoved(w)
    BY <1>4 DEF Lima!Killed
  <2>2. PICK i \in {w.image, None}, m \in {w.marked, FALSE}, y \in {w.yaml, FALSE} :
          v = [w EXCEPT !.image = i, !.marked = m, !.yaml = y]
    BY <2>1, HalfRemovedOf
  <2>3. i \in LimaImages \cup {None} /\ m \in BOOLEAN /\ y \in BOOLEAN
    BY ONLY <2>2, LimaVmsOf, w \in LimaVm
  <2>4. [w EXCEPT !.image = i, !.marked = m, !.yaml = y] \in LimaVm
    BY <2>3, LimaVmsOf
  <2>. QED
    BY ONLY <2>2, <2>4
<1>5. CASE pc \notin {"take", "boot", "delete", "rmdir"}
  BY <1>5 DEF Lima!Killed
<1>. QED
  BY <1>1, <1>2, <1>3, <1>4, <1>5

VmsChange == UNCHANGED inst \/ \E n \in Insts, v \in LimaVm : inst' = [inst EXCEPT ![n] = v]

LEMMA VmsStep ==
  ASSUME LimaInv, LimaTyped, Lima!Next
  PROVE  VmsChange
<1>0. /\ inst \in [Insts -> LimaVm] /\ \A n \in Insts : inst[n] \in LimaVm
      /\ pc # "idle" /\ job.verb # "setup" => job.inst \in Insts
      /\ pc \in {"create", "ssh", "mark", "copy", "take", "lineage", "boot", "delete", "rmdir"} =>
           job.inst \in Insts
      /\ pc \notin {"idle", "boot", "delete", "rmdir"} => job.image \in LimaImages
      /\ job.mounts \in BOOLEAN /\ job.old \in {"good", "bad"}
  BY LimaCommandsOf DEF LimaInv, LimaJob, LimaTyped
<1>1. ASSUME NEW n \in Insts, NEW v \in LimaVm, inst' = [inst EXCEPT ![n] = v]
      PROVE  VmsChange
  BY <1>1 DEF VmsChange
<1>2. ASSUME NEW n \in Insts, NEW i \in LimaImages, NEW m \in BOOLEAN, Lima!Up(n, i, m)
      PROVE  VmsChange
  <2>1. [inst[n] EXCEPT !.image = i] \in LimaVm /\ inst' = [inst EXCEPT ![n].image = i]
    BY <1>0, <1>2, LimaVmsOf DEF Lima!Up
  <2>. QED
    BY <1>1, <2>1
<1>3. CASE Lima!CreateVm
  <2> DEFINE Made(old) == [old EXCEPT !.vm = "Running", !.disk = Lima!DiskOf(job.image),
                             !.net = tmpl[job.image], !.mounts = job.mounts,
                             !.yaml = inst[job.inst].yaml \/ job.mounts, !.spec = "good",
                             !.stale = inst[job.inst].marked]
             made == Made(inst[job.inst])
  <2>1. job.image \in LimaImages /\ job.inst \in Insts /\ tmpl[job.image] \in Lima!Modes
    BY <1>0, <1>3 DEF Lima!CreateVm, LimaTyped
  <2>2. Lima!DiskOf(job.image) \in Lima!Disks
    BY <2>1 DEF LimaTyped, Lima!DiskOf, Lima!Disks
  <2>3. made \in LimaVm
    <3>1. PICK old \in LimaVm : old = inst[job.inst]
      BY <1>0, <2>1
    <3>2. (old.yaml \/ job.mounts) \in BOOLEAN /\ inst[job.inst].marked \in BOOLEAN
      BY <1>0, <2>1, LimaVmsOf
    <3>3. Made(old) \in LimaVm
      BY <1>0, <2>1, <2>2, <3>2, LimaVmsOf
    <3> HIDE DEF Made
    <3>. QED
      BY ONLY <3>1, <3>3
  <2>4. inst' = [inst EXCEPT ![job.inst] = made]
    BY <1>3, Zenon DEF Lima!CreateVm
  <2> HIDE DEF made
  <2>. QED
    BY <1>1, <2>1, <2>3, <2>4
<1>4. CASE Lima!DeleteVm
  <2>1. /\ job.inst \in Insts
        /\ \E v \in {Lima!WithoutVm(inst[job.inst])} \cup Lima!HalfDeleted(inst[job.inst]) :
             inst' = [inst EXCEPT ![job.inst] = v]
    BY <1>0, <1>4 DEF Lima!DeleteVm
  <2>2. \A v \in LimaVm : Lima!HalfDeleted(v) \subseteq LimaVm
    BY LimaVmsOf DEF Lima!HalfDeleted
  <2>. QED
    BY <1>0, <1>1, <2>1, <2>2, LimaVmsOf
<1>5. CASE Lima!RecordMode
  <2> DEFINE n == job.inst
             made == [inst[n] EXCEPT !.marked = Lima!Private, !.stale = FALSE]
  <2>1. n \in Insts
    BY <1>0, <1>5 DEF Lima!RecordMode
  <2>2. UNCHANGED inst \/ inst' = [inst EXCEPT ![n].marked = Lima!Private, ![n].stale = FALSE]
    BY <1>5 DEF Lima!RecordMode
  <2>3. Lima!Private \in BOOLEAN
    BY Zenon DEF Lima!Private
  <2>4. made \in LimaVm
    BY <1>0, <2>1, <2>3, LimaVmsOf, Zenon
  <2>5. [inst EXCEPT ![n].marked = Lima!Private, ![n].stale = FALSE] = [inst EXCEPT ![n] = made]
    BY <1>0, <2>1
  <2> HIDE DEF made
  <2>. QED
    BY <1>1, <2>1, <2>2, <2>4, <2>5 DEF VmsChange
<1>6. CASE Lima!Boot
  <2>1. job.inst \in Insts
    BY <1>0, <1>6 DEF Lima!Boot
  <2> DEFINE n == job.inst
  <2>2. \E s \in {"Stopped", "Running"}, p \in {job.old, inst[n].spec} :
          inst' = [inst EXCEPT ![n].vm = s, ![n].spec = p]
    BY <1>6 DEF Lima!Boot
  <2>3. PICK s \in {"Stopped", "Running"}, p \in {job.old, inst[n].spec} :
          inst' = [inst EXCEPT ![n].vm = s, ![n].spec = p]
    BY <2>2
  <2>4. [inst EXCEPT ![n].vm = s, ![n].spec = p]
          = [inst EXCEPT ![n] = [inst[n] EXCEPT !.vm = s, !.spec = p]]
    BY <1>0, <2>1
  <2>5. [inst[n] EXCEPT !.vm = s, !.spec = p] \in LimaVm
    BY <1>0, <2>1, LimaVmsOf
  <2>. QED
    BY <1>1, <2>1, <2>3, <2>4, <2>5
<1>7. ASSUME NEW n \in Insts, Lima!Stop(n) \/ Lima!Destroy(n) \/ Lima!Start(n)
      PROVE  VmsChange
  <2>1. [inst[n] EXCEPT !.vm = "Stopped"] \in LimaVm
    BY <1>0, LimaVmsOf
  <2>2. \/ UNCHANGED inst \/ inst' = [inst EXCEPT ![n].vm = "Stopped"]
    BY <1>7 DEF Lima!Stop, Lima!Destroy, Lima!Start
  <2>. QED
    BY <1>1, <2>1, <2>2, LimaVmsOf DEF VmsChange
<1>8. ASSUME NEW n \in Insts, NEW s \in {"good", "bad"}, NEW b \in BOOLEAN, Lima!SetResources(n, s, b)
      PROVE  VmsChange
  <2>1. [inst[n] EXCEPT !.spec = s] \in LimaVm
    BY <1>0, LimaVmsOf
  <2>2. UNCHANGED inst \/ inst' = [inst EXCEPT ![n].spec = s]
    BY <1>8, Zenon DEF Lima!SetResources
  <2>. QED
    BY <1>1, <2>1, <2>2 DEF VmsChange
<1>9. CASE Lima!CopyToDisk
  <2>1. job.inst \in Insts /\ job.image \in LimaImages
    BY <1>0, <1>9 DEF Lima!CopyToDisk
  <2>2. \E d \in Lima!Disks : inst' = [inst EXCEPT ![job.inst].disk = d]
    BY <1>9, <2>1 DEF Lima!CopyToDisk, LimaTyped, Lima!Disks
  <2>3. \A d \in Lima!Disks : [inst[job.inst] EXCEPT !.disk = d] \in LimaVm
    BY <1>0, <2>1, LimaVmsOf
  <2>. QED
    BY <1>1, <2>1, <2>2, <2>3
<1>10. CASE Lima!SaveLineage
  <2>1. job.inst \in Insts /\ job.image \in LimaImages
    BY <1>0, <1>10 DEF Lima!SaveLineage
  <2>2. UNCHANGED inst \/ inst' = [inst EXCEPT ![job.inst].image = job.image]
    BY <1>10 DEF Lima!SaveLineage
  <2>3. [inst[job.inst] EXCEPT !.image = job.image] \in LimaVm
    BY <1>0, <2>1, LimaVmsOf
  <2>. QED
    BY <1>1, <2>1, <2>2, <2>3 DEF VmsChange
<1>11. CASE Lima!Kill
  <2>1. UNCHANGED inst \/ (job.inst \in Insts
          /\ \E v \in Lima!Killed(inst[job.inst]) : inst' = [inst EXCEPT ![job.inst] = v])
    BY <1>0, <1>11 DEF Lima!Kill
  <2>. QED
    BY <1>0, <1>1, <2>1, KilledTypes DEF VmsChange
<1>13. CASE Lima!RemoveDir
  <2>1. /\ pc = "rmdir" /\ job.inst \in Insts
        /\ \E v \in {Lima!NoInst} \cup Lima!HalfRemoved(inst[job.inst]) :
             inst' = [inst EXCEPT ![job.inst] = v]
    BY <1>0, <1>13 DEF Lima!RemoveDir
  <2>2. Lima!HalfRemoved(inst[job.inst]) \subseteq LimaVm
    BY <1>0, <2>1, KilledTypes DEF Lima!Killed
  <2>. QED
    BY <1>1, <2>1, <2>2, LimaVmsOf
<1>12. CASE \/ \E i \in LimaImages, b \in BOOLEAN : Lima!Setup(i, Default, b)
            \/ \E n \in Insts, i \in LimaImages, f \in BOOLEAN : Lima!Commit(n, i, f)
            \/ \E n \in Insts, i \in LimaImages : Lima!Restore(n, i)
            \/ \E i \in LimaImages : Lima!RemoveImage(i)
            \/ Lima!EditConfig \/ Lima!CheckImage \/ Lima!BuildGolden \/ Lima!SwapBase
            \/ Lima!SaveConfig \/ Lima!GenerateTemplate \/ Lima!WriteTemplate \/ Lima!CheckGuard
            \/ Lima!BuildGuard \/ Lima!WriteStamp \/ Lima!CopyToImage \/ Lima!AwaitSsh
  BY <1>12 DEF VmsChange, Lima!Setup, Lima!Commit, Lima!Restore, Lima!RemoveImage,
     Lima!EditConfig, Lima!CheckImage, Lima!BuildGolden, Lima!SwapBase, Lima!SaveConfig,
     Lima!GenerateTemplate, Lima!WriteTemplate, Lima!CheckGuard, Lima!BuildGuard, Lima!WriteStamp,
     Lima!CopyToImage, Lima!AwaitSsh
<1>. QED
  BY <1>2, <1>3, <1>4, <1>5, <1>6, <1>7, <1>8, <1>9, <1>10, <1>11, <1>12, <1>13 DEF Lima!Next

LEMMA CommandsStep ==
  ASSUME LimaInv, LimaTyped, Lima!Next
  PROVE  job' \in LimaCommand
<1>0. /\ job \in LimaCommand /\ config \in Lima!Modes
      /\ \A n \in Insts : inst[n].spec \in {"good", "bad"} /\ inst[n].image \in LimaImages \cup {None}
      /\ \A i \in LimaImages : conf[i] \in {Default} \cup {None}
  BY LimaVmsOf DEF LimaTyped
<1>1. ASSUME NEW p, NEW j \in LimaCommand, Lima!Command(p, j)
      PROVE  job' \in LimaCommand
  BY <1>0, <1>1, LimaCommandsOf DEF Lima!Command
<1>2. ASSUME NEW i \in LimaImages, NEW b \in BOOLEAN, Lima!Setup(i, Default, b)
      PROVE  job' \in LimaCommand
  <2> DEFINE j == [Lima!NoJob EXCEPT !.verb = "setup", !.image = i, !.recipe = Default, !.start = b]
  <2>1. j \in LimaCommand
    BY LimaCommandsOf
  <2>2. Lima!Command("check", j)
    BY <1>2 DEF Lima!Setup
  <2> HIDE DEF j
  <2>. QED
    BY <1>1, <2>1, <2>2
<1>3. ASSUME NEW n \in Insts, NEW i \in LimaImages, NEW m \in BOOLEAN, Lima!Up(n, i, m)
      PROVE  job' \in LimaCommand
  <2> DEFINE j == [Lima!NoJob EXCEPT !.verb = "up", !.image = i, !.inst = n, !.mounts = m]
  <2>1. j \in LimaCommand
    BY LimaCommandsOf
  <2>2. \E p : Lima!Command(p, j)
    BY <1>3, Zenon DEF Lima!Up
  <2> HIDE DEF j
  <2>. QED
    BY <1>1, <2>1, <2>2
<1>4. ASSUME NEW n \in Insts, Lima!Start(n)
      PROVE  job' \in LimaCommand
  <2> DEFINE j == [Lima!NoJob EXCEPT !.verb = "start", !.inst = n, !.start = TRUE, !.old = inst[n].spec]
  <2>1. j \in LimaCommand
    BY <1>0, LimaCommandsOf
  <2>2. \E p : Lima!Command(p, j)
    BY <1>4, Zenon DEF Lima!Start
  <2> HIDE DEF j
  <2>. QED
    BY <1>1, <2>1, <2>2
<1>5. ASSUME NEW n \in Insts, NEW s \in {"good", "bad"}, NEW b \in BOOLEAN, Lima!SetResources(n, s, b)
      PROVE  job' \in LimaCommand
  <2> DEFINE j == [Lima!NoJob EXCEPT !.verb = "resources", !.inst = n, !.start = b, !.old = inst[n].spec]
  <2>1. j \in LimaCommand
    BY <1>0, LimaCommandsOf
  <2>2. UNCHANGED job \/ \E p : Lima!Command(p, j)
    BY <1>5, Zenon DEF Lima!SetResources
  <2> HIDE DEF j
  <2>. QED
    BY <1>0, <1>1, <2>1, <2>2
<1>6. ASSUME NEW n \in Insts, NEW i \in LimaImages, NEW f \in BOOLEAN, Lima!Commit(n, i, f)
      PROVE  job' \in LimaCommand
  <2> DEFINE j == [Lima!NoJob EXCEPT !.verb = "commit", !.image = i, !.inst = n,
                                     !.recipe = conf[inst[n].image]]
  <2>1. conf[inst[n].image] = Default
    BY <1>0, <1>6 DEF Lima!Commit, Lima!Exists, Lima!None, None
  <2>2. j \in LimaCommand
    BY <2>1, LimaCommandsOf
  <2>3. \E p : Lima!Command(p, j)
    BY <1>6, Zenon DEF Lima!Commit
  <2> HIDE DEF j
  <2>. QED
    BY <1>1, <2>2, <2>3
<1>7. ASSUME NEW n \in Insts, NEW i \in LimaImages, Lima!Restore(n, i)
      PROVE  job' \in LimaCommand
  <2> DEFINE j == [Lima!NoJob EXCEPT !.verb = "restore", !.image = i, !.inst = n]
  <2>1. j \in LimaCommand
    BY LimaCommandsOf
  <2>2. \E p : Lima!Command(p, j)
    BY <1>7, Zenon DEF Lima!Restore
  <2> HIDE DEF j
  <2>. QED
    BY <1>1, <2>1, <2>2
<1>10. ASSUME NEW n \in Insts, Lima!Destroy(n)
       PROVE  job' \in LimaCommand
  <2> DEFINE j == [Lima!NoJob EXCEPT !.verb = "destroy", !.inst = n]
  <2>1. j \in LimaCommand
    BY LimaCommandsOf
  <2>2. \E p : Lima!Command(p, j)
    BY <1>10, Zenon DEF Lima!Destroy
  <2> HIDE DEF j
  <2>. QED
    BY <1>1, <2>1, <2>2
<1>8. CASE UNCHANGED job \/ job' = Lima!NoJob
  BY <1>0, <1>8, LimaCommandsOf
<1>9. CASE \/ \E n \in Insts : Lima!Stop(n)
           \/ \E i \in LimaImages : Lima!RemoveImage(i)
           \/ Lima!EditConfig \/ Lima!CheckImage \/ Lima!BuildGolden \/ Lima!SwapBase
           \/ Lima!SaveConfig \/ Lima!GenerateTemplate \/ Lima!WriteTemplate \/ Lima!CheckGuard
           \/ Lima!BuildGuard \/ Lima!WriteStamp \/ Lima!CreateVm \/ Lima!AwaitSsh
           \/ Lima!RecordMode \/ Lima!Boot \/ Lima!CopyToImage \/ Lima!CopyToDisk
           \/ Lima!SaveLineage \/ Lima!Kill \/ Lima!DeleteVm \/ Lima!RemoveDir
  <2>1. ASSUME Lima!WriteTemplate PROVE UNCHANGED job \/ job' = Lima!NoJob
    <3>1. job.verb \in {"setup", "up", "commit"}
      BY <2>1 DEF Lima!WriteTemplate, LimaInv, LimaJob
    <3>. QED
      BY <2>1, <3>1 DEF Lima!WriteTemplate, Lima!Go, Lima!Finish
  <2>. QED
    BY <1>8, <1>9, <2>1, Zenon DEF Lima!Go, Lima!Finish, Lima!GiveUp, Lima!RunBuilder, Lima!Stop,
       Lima!RemoveImage, Lima!EditConfig, Lima!CheckImage, Lima!BuildGolden, Lima!SwapBase,
       Lima!SaveConfig, Lima!GenerateTemplate, Lima!CheckGuard, Lima!BuildGuard, Lima!WriteStamp,
       Lima!CreateVm, Lima!AwaitSsh, Lima!RecordMode, Lima!Boot, Lima!CopyToImage, Lima!CopyToDisk,
       Lima!SaveLineage, Lima!Kill, Lima!DeleteVm, Lima!RemoveDir
<1>. QED
  BY <1>2, <1>3, <1>4, <1>5, <1>6, <1>7, <1>9, <1>10 DEF Lima!Next

LEMMA LimaTypeStep == LimaInv /\ LimaTyped /\ [Lima!Next]_(Lima!vars) => LimaTyped'
<1> SUFFICES ASSUME LimaInv, LimaTyped, [Lima!Next]_(Lima!vars) PROVE LimaTyped'
  OBVIOUS
<1>1. CASE UNCHANGED Lima!vars
  BY <1>1 DEF Lima!vars, LimaTyped
<1>2. CASE Lima!Next
  <2>1. VmsChange /\ job' \in LimaCommand
    BY <1>2, VmsStep, CommandsStep
  <2>2. inst' \in [Insts -> LimaVm]
    BY <2>1 DEF LimaTyped, VmsChange
  <2>3. /\ pc \notin {"idle", "boot", "delete", "rmdir"} => job.image \in LimaImages
        /\ pc \in {"config", "swap"} => job.recipe \in {Default} \cup {None}
        /\ pc \in {"template", "write"} => job.verb \in {"setup", "up", "commit"}
        /\ pc = "create" => tmpl[job.image] # None
        /\ pc \in {"create", "ssh", "mark", "copy", "take", "lineage", "boot", "delete", "rmdir"} =>
             job.inst \in Insts
        /\ job.mode \in Lima!Modes
    BY LimaCommandsOf DEF LimaInv, LimaJob, LimaTyped
  <2> USE <1>2 DEF Lima!Next, Lima!EditConfig, Lima!Setup, Lima!CheckImage, Lima!BuildGolden,
      Lima!RunBuilder, Lima!SwapBase, Lima!SaveConfig, Lima!GenerateTemplate, Lima!WriteTemplate,
      Lima!CheckGuard, Lima!BuildGuard, Lima!WriteStamp, Lima!Up, Lima!CreateVm, Lima!AwaitSsh,
      Lima!RecordMode, Lima!Boot, Lima!Start, Lima!Stop, Lima!Destroy, Lima!SetResources,
      Lima!Commit, Lima!Restore, Lima!CopyToImage, Lima!CopyToDisk, Lima!SaveLineage,
      Lima!RemoveImage, Lima!Kill, Lima!DeleteVm, Lima!RemoveDir
  <2>4. UNCHANGED faults \/ Lima!Fault
    BY Zenon
  <2>5. faults' \in 0..LimaFaults
    BY ONLY <2>4, LimaTyped, LimaBounds DEF LimaTyped, Lima!Fault
  <2>6. config' \in Lima!Modes
    BY DEF LimaTyped
  <2>7. pc' \in LimaSteps
    BY <2>3 DEF LimaTyped, LimaSteps, Lima!Go, Lima!Finish, Lima!GiveUp, Lima!Command, Lima!Guarded
  <2>8. conf' \in [LimaImages -> {Default} \cup {None}]
    BY <2>3 DEF LimaTyped, Lima!None, None
  <2>9. tmpl' \in [LimaImages -> Lima!Modes \cup {None}]
    BY <2>3 DEF LimaTyped, Lima!None, None
  <2>10. cut' \subseteq Insts
    BY <2>3 DEF LimaTyped
  <2>11. base' \in [LimaImages -> Lima!Disks]
    <3>1. pc = "copy" => inst[job.inst].disk \in Lima!Disks
      BY <2>3, LimaVmsOf DEF LimaTyped
    <3>. QED
      BY <2>3, <3>1 DEF LimaTyped, Lima!SetBase, Lima!Disks, Lima!None, None
  <2>12. guarded' \in [LimaImages -> Ages]
    <3>1. \/ UNCHANGED guarded \/ \E i \in LimaImages : guarded' = Lima!Aged(guarded, i)
          \/ \E i \in LimaImages : guarded' = [guarded EXCEPT ![i] = "current"]
          \/ \E i \in LimaImages : guarded' = [guarded EXCEPT ![i] = None]
      BY <2>3 DEF Lima!SetBase, Lima!None, None
    <3>. QED
      BY ONLY <3>1, LimaTyped, AgesOf DEF LimaTyped
  <2>13. stamp' \in [LimaImages -> Ages]
    <3>1. \/ UNCHANGED stamp \/ \E i \in LimaImages : stamp' = Lima!Aged(stamp, i)
          \/ \E i \in LimaImages : stamp' = [stamp EXCEPT ![i] = "current"]
          \/ \E i \in LimaImages : stamp' = [stamp EXCEPT ![i] = None]
      BY <2>3 DEF Lima!SetBase, Lima!None, None
    <3>. QED
      BY ONLY <3>1, LimaTyped, AgesOf DEF LimaTyped
  <2>14. pc' = "create" => tmpl'[job'.image] # None
    <3>1. ASSUME NEW n \in Insts, NEW i \in LimaImages, NEW m \in BOOLEAN, Lima!Up(n, i, m)
          PROVE  job'.image = i /\ UNCHANGED tmpl /\ tmpl[i] # None
      BY ONLY <3>1 DEF Lima!Up, Lima!Command, Lima!NoJob, Lima!None, None
    <3>2. ASSUME Lima!WriteTemplate, pc' = "create"
          PROVE  tmpl'[job'.image] # None
      <4>1. job.verb = "up" /\ job' = job /\ tmpl' = [tmpl EXCEPT ![job.image] = job.mode]
        BY ONLY <2>3, <3>2 DEF Lima!WriteTemplate, Lima!Go, Lima!Finish
      <4>2. job.image \in LimaImages /\ job.mode # None
        BY ONLY <2>3, <3>2 DEF Lima!WriteTemplate, Lima!Modes, None
      <4>. QED
        BY ONLY <4>1, <4>2, LimaTyped DEF LimaTyped
    <3>3. ASSUME pc' = "create"
          PROVE  Lima!WriteTemplate
                 \/ \E n \in Insts, i \in LimaImages, m \in BOOLEAN : Lima!Up(n, i, m)
      BY <2>3, <3>3, Zenon DEF Lima!Go, Lima!Finish, Lima!GiveUp, Lima!Command, Lima!Guarded
    <3>. QED
      BY ONLY <3>1, <3>2, <3>3
  <2>. QED
    BY ONLY <2>1, <2>2, <2>5, <2>6, <2>7, <2>8, <2>9, <2>10, <2>11, <2>12, <2>13, <2>14 DEF LimaTyped
<1>. QED
  BY <1>1, <1>2
-----------------------------------------------------------------------------
(* The types of every part *)

\* The part that runs has its variables in their types.
TypedParts ==
  /\ part = "images" => ImageTyped
  /\ part = "lima" => LimaTyped
  /\ part = "update" => UpdateTyped
  /\ part = "secrets" => SecretTyped
  /\ part = "agents" => AgentTyped
  /\ part = "proxy" => ProxyTyped
  /\ part = "sync" => SyncTyped
  /\ part = "codex" => CodexTyped
  /\ part = "account" => AccountTyped

\* What the parts keep, as proved above.
PartsKept ==
  ImagePart /\ LimaPart /\ SecretPart /\ AgentPart /\ ProxyPart /\ CodexPart

LEMMA OthersAlone ==
  ASSUME [Next]_vars
  PROVE  /\ part = "images" => [Image!Next]_(Image!vars)
         /\ part = "lima" => [Lima!Next]_(Lima!vars)
         /\ part = "agents" => [Agent!Next]_(Agent!vars)
         /\ part = "proxy" => [Proxy!Next]_(Proxy!vars)
<1>1. part = "images" => [Image!Next]_(Image!vars)
  BY OnlyItsSteps DEF StepImage, vars, imagesVars, Image!vars
<1>2. part = "lima" => [Lima!Next]_(Lima!vars)
  BY OnlyItsSteps DEF StepLima, vars, limaVars, Lima!vars
<1>3. part = "agents" => [Agent!Next]_(Agent!vars)
  BY OnlyItsSteps DEF StepAgent, vars, agentsVars, Agent!vars
<1>4. part = "proxy" => [Proxy!Next]_(Proxy!vars)
  BY OnlyItsSteps DEF StepProxy, vars, proxyVars, Proxy!vars
<1>. QED
  BY <1>1, <1>2, <1>3, <1>4

LEMMA TypedInit == Init => TypedParts
BY ImageTypeInit, LimaTypeInit, UpdateTypeInit, SecretTypeInit, AgentTypeInit, ProxyTypeInit,
   SyncTypeInit, CodexTypeInit, AccountTypeInit DEF Init, TypedParts

LEMMA TypedStep == PartsKept /\ TypedParts /\ [Next]_vars => TypedParts'
<1> SUFFICES ASSUME PartsKept, TypedParts, [Next]_vars PROVE TypedParts'
  OBVIOUS
<1> USE SamePart DEF PartsKept, TypedParts
<1>1. part = "images" => ImageTyped'
  BY OthersAlone, ImageTypeStep DEF ImagePart
<1>2. part = "lima" => LimaTyped'
  BY OthersAlone, LimaTypeStep DEF LimaPart
<1>3. part = "update" => UpdateTyped'
  BY UpdateAlone, UpdateTypeStep
<1>4. part = "secrets" => SecretTyped'
  BY SecretAlone, SecretTypeStep DEF SecretPart
<1>5. part = "agents" => AgentTyped'
  BY OthersAlone, AgentTypeStep DEF AgentPart
<1>6. part = "proxy" => ProxyTyped'
  BY OthersAlone, ProxyTypeStep DEF ProxyPart
<1>7. part = "sync" => SyncTyped'
  BY SyncAlone, SyncTypeStep
<1>8. part = "codex" => CodexTyped'
  BY CodexAlone, CodexTypeStep DEF CodexPart
<1>9. part = "account" => AccountTyped'
  BY CodexAlone, AccountTypeStep
<1>. QED
  BY <1>1, <1>2, <1>3, <1>4, <1>5, <1>6, <1>7, <1>8, <1>9

\* Every variable of every part keeps its type, whatever fails or is killed: no step of a
\* command leaves a record, a size or a step behind that the next would not expect, for any
\* images, instances, sizes, versions, repositories, requests, sessions and bounds.
THEOREM TypesHold == Spec => []TypeOK
<1>1. Spec => []PartsKept
  BY ImagePartHolds, LimaPartHolds, SecretPartHolds, AgentPartHolds, ProxyPartHolds, CodexPartHolds,
     PTL DEF PartsKept
<1>2. Init => TypedParts
  BY TypedInit
<1>3. PartsKept /\ TypedParts /\ [Next]_vars => TypedParts'
  BY TypedStep
<1>4. PartsKept /\ TypedParts => TypeOK
  BY ImageTypes, LimaTypes, UpdateTypes, SecretTypes, AgentTypes, ProxyTypes, SyncTypes, CodexTypes,
     AccountTypes
  DEF PartsKept, TypedParts, TypeOK, AgentPart, ProxyPart, CodexPart
<1>. QED
  BY <1>1, <1>2, <1>3, <1>4, PTL DEF Spec
=============================================================================
