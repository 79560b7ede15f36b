----------------------------- MODULE WorkspaceSync -----------------------------
(***************************************************************************)
(* `coop push` and `coop pull` (src/src/workspace.rs) between a directory  *)
(* of the host and the workspace of a running instance, while the user     *)
(* works in the one and an agent in the other.                             *)
(*                                                                         *)
(* A directory is a repository with branches, a worktree, files git does   *)
(* not track and files it ignores; what was changed in it is a set of      *)
(* pieces of work.                                                         *)
(***************************************************************************)
EXTENDS Naturals, FiniteSets

CONSTANTS
  Work,        \* the pieces of work done in either directory
  MaxFaults    \* bound on checks that could not run and transfers cut short

WorkspaceAssumption == IsFiniteSet(Work) /\ MaxFaults \in Nat

None == "none"
Sides == {"host", "guest"}

\* head: the commits of the branch that is checked out; others: those only other
\* branches or the stash have; up: those the remote has, which the branch has as its
\* upstream or not; work: what the tracked files hold (clean when it is head);
\* files: those git does not track; ignored: those it ignores.
Trees == [git : BOOLEAN, head : SUBSET Work, others : SUBSET Work, upstream : BOOLEAN,
          up : SUBSET Work, work : SUBSET Work, files : SUBSET Work, ignored : SUBSET Work]
Plain == [git |-> FALSE, head |-> {}, others |-> {}, upstream |-> FALSE, up |-> {},
          work |-> {}, files |-> {}, ignored |-> {}]
Jobs == [verb : {"push", "pull"}, force : BOOLEAN, exclude_git : BOOLEAN]
NoJob == [verb |-> "push", force |-> TRUE, exclude_git |-> TRUE]

VARIABLES
  tree,    \* the directory on each side
  done,    \* the pieces of work done so far
  state,   \* the path in the guest that workspace.json has, or none
  pc, job, \* the command
  seen,    \* the destination as the check of this command read it; Plain when it did not
  faults
vars == <<tree, done, state, pc, job, seen, faults>>

Idle == pc' = "idle" /\ job' = NoJob /\ seen' = Plain
Fault == faults < MaxFaults /\ faults' = faults + 1
Commits(t) == t.head \cup t.others
Holds(t) == Commits(t) \cup t.work \cup t.files \cup t.ignored
Source == IF job.verb = "push" THEN "host" ELSE "guest"
Dest == IF job.verb = "push" THEN "guest" ELSE "host"

TypeOK ==
  /\ tree \in [Sides -> Trees] /\ done \subseteq Work /\ state \in {None, "/workspace", "elsewhere"}
  /\ pc \in {"idle", "check", "transfer"} /\ job \in Jobs /\ seen \in Trees /\ faults \in 0..MaxFaults

Init ==
  /\ \E g, u \in BOOLEAN :
       tree = [s \in Sides |-> IF s = "host" THEN [Plain EXCEPT !.git = g, !.upstream = g /\ u] ELSE Plain]
  /\ done = {} /\ state = None
  /\ pc = "idle" /\ job = NoJob /\ seen = Plain /\ faults = 0
-----------------------------------------------------------------------------
(* The user and the agent *)
Changes(s, t) == tree' = [tree EXCEPT ![s] = t] /\ UNCHANGED <<state, pc, job, seen, faults>>

Edit(s) ==
  \E w \in Work \ done :
    /\ done' = done \cup {w}
    /\ \/ Changes(s, [tree[s] EXCEPT !.work = @ \cup {w}])
       \/ Changes(s, [tree[s] EXCEPT !.files = @ \cup {w}])
       \/ Changes(s, [tree[s] EXCEPT !.ignored = @ \cup {w}])

\* git add of some of the new files, and git commit.
CommitWork(s) ==
  LET t == tree[s] IN
  /\ t.git /\ UNCHANGED done
  /\ \E new \in SUBSET t.files :
       Changes(s, [t EXCEPT !.head = t.work \cup new, !.work = @ \cup new, !.files = @ \ new])

\* Another branch, perhaps a new one, with some of the commits there are.
SwitchBranch(s) ==
  LET t == tree[s] IN
  /\ t.git /\ t.work = t.head /\ UNCHANGED done
  /\ \E b \in SUBSET Commits(t), u \in BOOLEAN :
       Changes(s, [t EXCEPT !.head = b, !.work = b, !.others = Commits(t) \ b, !.upstream = u])

Publish(s) ==
  /\ tree[s].upstream /\ UNCHANGED done
  /\ Changes(s, [tree[s] EXCEPT !.up = @ \cup tree[s].head])

\* A repository of the agent's own has no upstream, and tracks nothing yet.
InitRepository ==
  LET t == tree["guest"] IN
  /\ ~t.git /\ UNCHANGED done
  /\ Changes("guest", [Plain EXCEPT !.git = TRUE, !.files = t.work \cup t.files, !.ignored = t.ignored])
-----------------------------------------------------------------------------
(* A transfer *)

\* What `to` becomes when these parts of `from` arrive.  .git is one part; a
\* source without one takes the destination's away when files are deleted.  Of the
\* destination's files and refs, those stay (in kept) that the source has none of
\* the same name for, and of the ignored files of the source those come that the
\* transport does not leave out.
Arrives(from, to, parts, deletes, kept) ==
  LET repo == IF "git" \notin parts \/ ~(from.git \/ deletes) THEN to
              ELSE [from EXCEPT !.others = @ \cup IF deletes THEN {} ELSE (kept \cap Commits(to)) \ from.head]
      work == IF "work" \in parts THEN from.work ELSE to.work
      files == IF "files" \notin parts THEN to.files
               ELSE from.files \cup IF deletes THEN {} ELSE kept \cap to.files
      ignored == IF "files" \notin parts THEN to.ignored ELSE kept \cap (from.ignored \cup to.ignored)
  IN [repo EXCEPT !.work = work, !.files = files \ work, !.ignored = ignored \ (work \cup files)]

Parts(exclude_git) == {"work", "files"} \cup IF exclude_git THEN {} ELSE {"git"}

\* The branch as the remote has it.
Cloned(t) == [Plain EXCEPT !.git = TRUE, !.upstream = TRUE, !.up = t.up, !.head = t.head \cap t.up,
                           !.work = t.head \cap t.up]

\* The first start copies the project with a tar pipe, syncs it as a mount, with
\* rsync when the guest has it, or clones it in the guest, and writes workspace.json.
Up ==
  /\ state = None /\ pc = "idle" /\ UNCHANGED <<done, pc, job, seen, faults>>
  /\ \/ /\ tree["host"].upstream /\ state' = "/workspace"
        /\ tree' = [tree EXCEPT !["guest"] = Cloned(tree["host"])]
     \/ \E path \in {"/workspace", "elsewhere"}, rsync, exclude_git \in BOOLEAN, kept \in SUBSET Work :
          /\ state' = path
          /\ tree' = [tree EXCEPT !["guest"] = Arrives(tree["host"], @, Parts(exclude_git), rsync, kept)]

\* push and pull begin with the state; --dir names the host's directory when the
\* guest has a clone.
Command ==
  /\ pc = "idle" /\ state # None
  /\ job' \in Jobs
  /\ pc' = IF job'.force THEN "transfer" ELSE "check"
  /\ UNCHANGED <<tree, done, state, seen, faults>>

\* Mutant of check_guest_dirty: commits are not looked at.
check_modified(t) == t.git /\ t.work # t.head

check_guest_dirty(t) == t.git /\ (t.work # t.head \/ (t.upstream /\ t.head \ t.up # {}))
\* git status --porcelain: ignored files are not among what it prints.
check_local_dirty(t) == t.git /\ (t.work # t.head \/ t.files # {})
Dirty == IF job.verb = "push" THEN check_guest_dirty(tree["guest"]) ELSE check_local_dirty(tree["host"])

Check ==
  /\ pc = "check"
  /\ IF Dirty THEN Idle ELSE pc' = "transfer" /\ seen' = tree[Dest] /\ UNCHANGED job
  /\ UNCHANGED <<tree, done, state, faults>>

\* Only the output of the check counts: an ssh or a git that fails prints none.
CheckFails ==
  /\ pc = "check" /\ Fault /\ pc' = "transfer" /\ UNCHANGED <<tree, done, state, job, seen>>

\* rsync, when the guest has it, deletes on push only; the tar pipe of push unpacks
\* in /workspace, whatever path the state has.  Cut short, it has brought some of it.
Transfer ==
  /\ pc = "transfer"
  /\ \E rsync \in BOOLEAN, parts \in SUBSET Parts(job.exclude_git), kept \in SUBSET Work :
       /\ IF parts = Parts(job.exclude_git) THEN UNCHANGED faults ELSE Fault
       /\ tree' = IF job.verb = "push" /\ ~rsync /\ state # "/workspace" THEN tree
                  ELSE [tree EXCEPT ![Dest] =
                          Arrives(tree[Source], @, parts, rsync /\ job.verb = "push", kept)]
  /\ Idle /\ UNCHANGED <<done, state>>

Next ==
  \/ \E s \in Sides : Edit(s) \/ CommitWork(s) \/ SwitchBranch(s) \/ Publish(s)
  \/ InitRepository \/ Up \/ Command \/ Check \/ CheckFails \/ Transfer

Spec == Init /\ [][Next]_vars
-----------------------------------------------------------------------------
(* Properties *)

\* What a transfer without --force takes away is not guarded by its check.
LosesUnguarded ==
  pc = "transfer" /\ ~job.force =>
    \A w \in Holds(tree[Dest]) \ (Holds(tree'[Dest]) \cup Holds(tree[Source])) :
      \/ w \notin Holds(seen) \/ ~seen.git
      \/ w \in seen.ignored
      \/ w \in seen.files /\ job.verb = "push"
      \/ w \in seen.others /\ ~job.exclude_git
      \/ w \in seen.head /\ ~job.exclude_git /\ (job.verb = "push" => ~seen.upstream \/ w \in seen.up)

\* All that a push or pull without --force can lose of the destination, when the
\* other side does not have it either: work done after the check has read it, or
\* when the check could not run; work outside a repository; files git ignores, which
\* no check lists; on the guest, other files git does not track; and, unless .git is
\* left out, commits of branches that are not checked out or of the stash, the
\* guest's commits of a branch without an upstream or already upstream, and the
\* host's commits.  Kept are modified tracked files, the host's untracked files, the
\* commits of the guest's branch that its upstream does not have, and with
\* --exclude-git every commit.
OnlyUnguardedWorkIsLost ==
  [][LosesUnguarded]_tree
================================================================================
