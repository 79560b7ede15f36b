----------------------------- MODULE CodexRelease -----------------------------
(***************************************************************************)
(* The Codex package in a guest: its installer                             *)
(* (src/scripts/guest/codex.sh), which setup runs once and                 *)
(* `coop agent update` (src/src/commands/agent.rs) again, beside sessions  *)
(* that run the releases it installs, switches between and removes.        *)
(*                                                                         *)
(* Installers run side by side, each may fail at any command (set -e) or   *)
(* be killed.  Releases are numbered in the order they are published.      *)
(***************************************************************************)
EXTENDS Naturals, FiniteSets

CONSTANTS
  Updaters,      \* installers at work at once
  Sessions,      \* codex processes at once
  LastRelease,   \* bound on published releases
  MaxFaults      \* bound on failures and kills

None == "none"
CodexAssumption ==
  IsFiniteSet(Updaters) /\ None \notin Updaters /\ LastRelease \in Nat \ {0} /\ MaxFaults \in Nat

Releases == 1..LastRelease

VARIABLES
  latest,    \* the release the feed has
  disk,      \* each release directory: absent, part of a package, or a safe whole one
  staging,   \* the staging directory: none, part, whole
  current,   \* the release the `current` link names, or 0
  public,    \* the links of /usr/local/bin that go by `current`
  lock,      \* who has the flock
  pc, job,   \* the step of each installer, and what it works with
  running,   \* the release each session runs, or 0
  faults
vars == <<latest, disk, staging, current, public, lock, pc, job, running, faults>>

NoJob == [sum |-> 0, got |-> 0, previous |-> 0, keep |-> TRUE, todo |-> {}, rel |-> 0]
None0 == Releases \cup {0}

TypeOK ==
  /\ latest \in Releases /\ disk \in [Releases -> {"absent", "part", "whole"}]
  /\ staging \in {None, "part", "whole"} /\ current \in None0 /\ public \subseteq {"helper", "codex"}
  /\ lock \in Updaters \cup {None} /\ running \in [Sessions -> None0] /\ faults \in 0..MaxFaults
  /\ pc \in [Updaters -> {"idle", "installed", "lock", "sums", "archive", "clean", "stage", "unpack", "old", "move",
                          "activate", "helper", "codex", "verify", "gc", "remove", "unlock"}]
  /\ \A u \in Updaters :
       /\ {job[u].sum, job[u].got, job[u].previous, job[u].rel} \subseteq None0
       /\ job[u].todo \subseteq Releases /\ job[u].keep \in BOOLEAN

\* An image before its first setup, or one of the time of the single binary.
Init ==
  /\ latest = 1 /\ disk = [r \in Releases |-> "absent"] /\ staging = None /\ current = 0 /\ public = {}
  /\ lock = None /\ pc = [u \in Updaters |-> "idle"] /\ job = [u \in Updaters |-> NoJob]
  /\ running = [s \in Sessions |-> 0] /\ faults = 0

Go(u, p) == pc' = [pc EXCEPT ![u] = p]
Step(u, p, q) == pc[u] = p /\ Go(u, q)
Work(u, j) == job' = [job EXCEPT ![u] = j]
Fault == faults < MaxFaults /\ faults' = faults + 1
Safe(r) == r # 0 /\ disk[r] = "whole"
Package == <<disk, staging, current, public>>
-----------------------------------------------------------------------------
(* An installer *)

\* Setup keeps what is installed; `coop agent update` sets COOP_FORCE_INSTALL.
Begin(u, keep) ==
  /\ Step(u, "idle", IF keep THEN "installed" ELSE "lock") /\ Work(u, [NoJob EXCEPT !.keep = keep])
  /\ UNCHANGED <<latest, Package, lock, running, faults>>

CheckInstalled(u) ==
  /\ Step(u, "installed", IF Safe(current) THEN "helper" ELSE "lock")
  /\ Work(u, [job[u] EXCEPT !.keep = Safe(current)])
  /\ UNCHANGED <<latest, Package, lock, running, faults>>

\* Mutant of Acquire: flock fails, and that is passed over.
AcquireOrNot(u) ==
  /\ Step(u, "lock", "sums") /\ lock' = (IF lock = None THEN u ELSE lock)
  /\ UNCHANGED <<latest, Package, job, running, faults>>

Acquire(u) ==
  /\ Step(u, "lock", "sums") /\ lock = None /\ lock' = u
  /\ UNCHANGED <<latest, Package, job, running, faults>>

\* download_codex_file of the manifest, then of the package, of whatever is the
\* latest release at that time.
FetchSums(u) ==
  /\ Step(u, "sums", "archive") /\ Work(u, [job[u] EXCEPT !.sum = latest])
  /\ UNCHANGED <<latest, Package, lock, running, faults>>

FetchArchive(u) ==
  /\ pc[u] = "archive" /\ Work(u, [job[u] EXCEPT !.got = latest])
  /\ Go(u, IF job[u].sum = latest THEN "clean" ELSE "sums")
  /\ UNCHANGED <<latest, Package, lock, running, faults>>

\* Staging directories of others go; codex_current_release_sha is remembered.
CleanStaging(u) ==
  /\ Step(u, "clean", IF Safe(job[u].sum) THEN "activate" ELSE "stage")
  /\ staging' = None /\ Work(u, [job[u] EXCEPT !.previous = current])
  /\ UNCHANGED <<latest, disk, current, public, lock, running, faults>>

MakeStaging(u) ==
  /\ Step(u, "stage", "unpack") /\ staging' = "part"
  /\ UNCHANGED <<latest, disk, current, public, lock, job, running, faults>>

\* tar, chown, chmod, and codex_installed_package_is_safe.
Unpack(u) ==
  /\ Step(u, "unpack", "old") /\ staging' = "whole"
  /\ UNCHANGED <<latest, disk, current, public, lock, job, running, faults>>

RemoveOld(u) ==
  /\ Step(u, "old", "move") /\ disk' = [disk EXCEPT ![job[u].sum] = "absent"]
  /\ UNCHANGED <<latest, staging, current, public, lock, job, running, faults>>

MoveIn(u) ==
  /\ Step(u, "move", "activate") /\ staging' = None /\ disk' = [disk EXCEPT ![job[u].sum] = "whole"]
  /\ UNCHANGED <<latest, current, public, lock, job, running, faults>>

\* ln and mv -T of `current`.
Activate(u) ==
  /\ Step(u, "activate", "helper") /\ current' = job[u].sum
  /\ UNCHANGED <<latest, disk, staging, public, lock, job, running, faults>>

\* codex_reconcile_public_entrypoints: the helper's link first.
LinkHelper(u) ==
  /\ Step(u, "helper", "codex") /\ public' = public \cup {"helper"}
  /\ UNCHANGED <<latest, disk, staging, current, lock, job, running, faults>>

LinkCodex(u) ==
  /\ Step(u, "codex", IF job[u].keep THEN "idle" ELSE "verify") /\ public' = public \cup {"codex"}
  /\ UNCHANGED <<latest, disk, staging, current, lock, job, running, faults>>

\* The glob of codex_gc_releases expands once.
Verify(u) ==
  /\ Step(u, "verify", "gc") /\ Safe(current)
  /\ Work(u, [job[u] EXCEPT !.todo = {r \in Releases : disk[r] # "absent"} \ {job[u].sum, job[u].previous}])
  /\ UNCHANGED <<latest, Package, lock, running, faults>>

\* Mutant of codex_release_has_live_executable: nobody is looked for.
nobody_lives(r) == FALSE

codex_release_has_live_executable(r) == \E s \in Sessions : running[s] = r

\* One release of codex_gc_releases: kept if a process runs from it.
Collect(u) ==
  /\ pc[u] = "gc" /\ job[u].todo # {}
  /\ \E r \in job[u].todo :
       LET live == codex_release_has_live_executable(r) IN
       /\ Work(u, [job[u] EXCEPT !.todo = @ \ {r}, !.rel = IF live THEN 0 ELSE r])
       /\ Go(u, IF live THEN "gc" ELSE "remove")
       /\ disk' = IF live THEN disk ELSE [disk EXCEPT ![r] = "part"]
  /\ UNCHANGED <<latest, staging, current, public, lock, running, faults>>

\* The rm -rf that Collect has begun is done.
Remove(u) ==
  /\ Step(u, "remove", "gc") /\ disk' = [disk EXCEPT ![job[u].rel] = "absent"]
  /\ Work(u, [job[u] EXCEPT !.rel = 0])
  /\ UNCHANGED <<latest, staging, current, public, lock, running, faults>>

Release(u) ==
  /\ pc[u] = "gc" /\ job[u].todo = {} /\ Go(u, "idle") /\ Work(u, NoJob) /\ lock' = None
  /\ UNCHANGED <<latest, Package, running, faults>>

\* A command fails, and cleanup_codex_install runs, or the installer is killed;
\* the flock goes with its descriptor.
Stops(u) ==
  /\ pc[u] \notin {"idle", "lock"} /\ Fault /\ Go(u, "idle") /\ Work(u, NoJob)
  /\ lock' = (IF lock = u THEN None ELSE lock)
  /\ staging' \in IF pc[u] \in {"unpack", "old", "move"} THEN {None, staging} ELSE {staging}
  /\ UNCHANGED <<latest, disk, current, public, running>>
-----------------------------------------------------------------------------
(* Around it *)

Publish ==
  /\ latest < LastRelease /\ latest' = latest + 1
  /\ UNCHANGED <<Package, lock, pc, job, running, faults>>

\* exec of /usr/local/bin/codex, by `current`.
Launch(s) ==
  /\ running[s] = 0 /\ "codex" \in public /\ Safe(current)
  /\ running' = [running EXCEPT ![s] = current]
  /\ UNCHANGED <<latest, Package, lock, pc, job, faults>>

Exit(s) ==
  /\ running[s] # 0 /\ running' = [running EXCEPT ![s] = 0]
  /\ UNCHANGED <<latest, Package, lock, pc, job, faults>>

Next ==
  \/ \E u \in Updaters :
       \/ \E keep \in BOOLEAN : Begin(u, keep)
       \/ CheckInstalled(u) \/ Acquire(u) \/ FetchSums(u) \/ FetchArchive(u) \/ CleanStaging(u)
       \/ MakeStaging(u) \/ Unpack(u) \/ RemoveOld(u) \/ MoveIn(u) \/ Activate(u)
       \/ LinkHelper(u) \/ LinkCodex(u) \/ Verify(u) \/ Collect(u) \/ Remove(u) \/ Release(u) \/ Stops(u)
  \/ \E s \in Sessions : Launch(s) \/ Exit(s)
  \/ Publish

Spec == Init /\ [][Next]_vars
-----------------------------------------------------------------------------
(* Properties *)

\* Once Codex was installed it can be run, whatever update fails, is killed or
\* waits: `current` names a whole release and both links go by it, Codex's never
\* without its helper's.  And what a session runs from stays on the disk, however
\* many updates pass it by.
CodexRuns ==
  /\ current # 0 => Safe(current)
  /\ "codex" \in public => "helper" \in public /\ current # 0
  /\ \A s \in Sessions : running[s] # 0 => Safe(running[s])

\* What an installer activates is not older than what was active.
Forward == current' >= current

\* Updates that run at once never take Codex back to an older release, however
\* slow the one and quick the other.
NeverRollsBack == [][Forward]_current
================================================================================
