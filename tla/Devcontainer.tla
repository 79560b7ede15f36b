----------------------------- MODULE Devcontainer -----------------------------
(***************************************************************************)
(* What becomes of a project's devcontainer.json: `coop setup` bakes its   *)
(* features and its remoteUser into the image, the first `coop up` or      *)
(* `coop quickstart` gives the instance the rest, and a report says of     *)
(* every key what came of it (src/src/devcontainer.rs,                     *)
(* src/src/devcontainer_oci.rs, src/src/commands/devcontainer.rs).         *)
(*                                                                         *)
(* A file asks for pairs <<key, item>>.  An item is "one" or "two", which  *)
(* coop understands, or "bad"; features and remoteUser have their own.     *)
(* The user may edit the file, opt the project out and answer prompts at   *)
(* any time; the registry serves a tag that moves.                         *)
(***************************************************************************)
EXTENDS Naturals, FiniteSets

CONSTANTS
  Files,      \* the contents devcontainer.json may have
  Mounted,    \* what a directory given with --extra-mount has: {contents}, or {}
  Lines,      \* the command lines of setup, up and quickstart
  Digests,    \* what the tag of an OCI feature may stand for
  MaxEdits,   \* bound on what the user and the registry change
  MaxFaults   \* bound on kills

None == "none"
Users == {"ubuntu", "vscode"}
Scalars == {"cpus", "memory", "storage", "postStartCommand"}
Keys == Scalars \cup {"containerEnv", "forwardPorts", "mounts", "features", "remoteUser", "image"}
Items == {"one", "two", "bad", "low", "rust", "oci", "foreign", "root"} \cup Users

\* A file has remoteUser once, a user or one that is refused, and a digest is the name of
\* nothing else.
DevcontainerAssumption ==
  /\ Files \subseteq SUBSET (Keys \X Items) /\ Lines \subseteq
       [devcontainer : {"off", "explicit", "discover"}, given : SUBSET (Keys \X Items), user : Users \cup {None}]
  /\ \A f \in Files : \A p, q \in f : p[1] = "remoteUser" /\ q[1] = "remoteUser" => p = q
  /\ \A f \in Files : \A p \in f : p[1] = "remoteUser" => p[2] \in Users \cup {"root"}
  /\ Mounted \subseteq Files /\ Cardinality(Mounted) <= 1 /\ Digests \cap Items = {}
  /\ Digests # {} /\ MaxEdits \in Nat /\ MaxFaults \in Nat

VARIABLES
  file,      \* the project's devcontainer.json: {its contents}, or {}
  ignored,   \* whether the project is opted out for good
  tag,       \* what the registry serves for the tag
  image,     \* the image: its template_config.json
  inst,      \* the project's instance: what its disk and files say, or NoInst
  pc, job,   \* the command
  told,      \* the last report and what it was about, until the next command
  edits, faults
vars == <<file, ignored, tag, image, inst, pc, job, told, edits, faults>>

\* of, source: the contents, and where they are from, as devcontainer_state.json has it.
Sources == {None, "project", "mount", "remote"}
NoInst == [user |-> None, file |-> {}, line |-> {}, of |-> {}, source |-> None]
NoTranslation == [rows |-> {}, carries |-> {}, features |-> {}]
NoJob == [cmd |-> None, line |-> [devcontainer |-> "off", given |-> {}, user |-> None], source |-> None,
          t |-> NoTranslation, read |-> {}]
NoReport == [cmd |-> None, rows |-> {}, read |-> {}, warned |-> FALSE]

\* preview is a --dry-run, check the setup stage of devcontainer check.
Commands == {"setup", "up", "clone", "quickstart", "preview", "check"}
Creates(cmd) == cmd \in {"up", "clone", "quickstart"}
Dry(cmd) == cmd \in {"preview", "check"}
Statuses == {"applied", "announced", "overridden", "unsupported", "invalid"}
RowType == [key : Keys, item : Items \cup Digests, status : Statuses]

TypeOK ==
  /\ file \subseteq Files /\ Cardinality(file) <= 1 /\ ignored \in BOOLEAN /\ tag \in Digests
  /\ image.user \in Users /\ image.profiles \subseteq {"rust"} /\ image.features \subseteq Digests
  /\ inst.user \in Users \cup {None} /\ inst.of \subseteq Files /\ inst.source \in Sources
  /\ inst.file \cup inst.line \subseteq Keys \X Items
  /\ pc \in {"idle", "find", "prompt", "load", "fetch", "apply", "record"}
  /\ job.cmd \in {None} \cup Commands /\ job.source \in Sources /\ job.t.rows \subseteq RowType
  /\ told.rows \subseteq RowType /\ told.warned \in BOOLEAN /\ edits \in 0..MaxEdits /\ faults \in 0..MaxFaults

Init ==
  /\ file \in {{f} : f \in Files} /\ ignored = FALSE /\ tag = CHOOSE d \in Digests : TRUE
  /\ image = [user |-> "ubuntu", profiles |-> {}, features |-> {}] /\ inst = NoInst
  /\ pc = "idle" /\ job = NoJob /\ told = NoReport /\ edits = 0 /\ faults = 0

Go(p) == pc' = p /\ UNCHANGED <<file, ignored, tag, image, inst, told, edits, faults>>
Fails == Go("idle") /\ job' = NoJob
-----------------------------------------------------------------------------
(* What the user and the registry do meanwhile *)
Meanwhile == edits < MaxEdits /\ edits' = edits + 1 /\ UNCHANGED <<image, inst, pc, job, told, faults>>

EditFile == Meanwhile /\ file' \in {{}} \cup {{f} : f \in Files} /\ file' # file /\ UNCHANGED <<ignored, tag>>
MoveTag == Meanwhile /\ tag' \in Digests \ {tag} /\ UNCHANGED <<file, ignored>>

\* coop devcontainer ignore and clear, and the opt-out of a prompt, of the project.
set_ignored == ignored' = TRUE
clear == ignored' = FALSE
cmd_devcontainer == Meanwhile /\ (set_ignored \/ clear) /\ UNCHANGED <<file, tag>>

Kill ==
  /\ pc # "idle" /\ faults < MaxFaults /\ faults' = faults + 1 /\ pc' = "idle" /\ job' = NoJob
  /\ UNCHANGED <<file, ignored, tag, image, inst, told, edits>>
-----------------------------------------------------------------------------
(* Which file *)

\* A command begins; up, clone and quickstart come here without an instance.
Command(cmd, o) ==
  /\ pc = "idle" /\ pc' = "find"
  /\ Creates(cmd) => inst = NoInst
  /\ cmd # "setup" => o.user = None
  /\ cmd = "quickstart" => o.given = {} /\ o.devcontainer # "explicit"
  /\ cmd = "check" => o.given = {} /\ o.devcontainer = "explicit"
  /\ job' = [NoJob EXCEPT !.cmd = cmd, !.line = o] /\ told' = NoReport
  /\ UNCHANGED <<file, ignored, tag, image, inst, edits, faults>>

\* Where there is a file: in the project, then under the extra mounts.
discover(cmd, o) ==
  (IF file # {} /\ cmd # "clone" THEN {"project"} ELSE {})
    \cup IF cmd \in {"up", "preview"} /\ <<"mounts", "two">> \in o.given /\ Mounted # {} THEN {"mount"} ELSE {}
pick_winner(found) == IF "project" \in found THEN "project" ELSE "mount"
Without == Go("apply") /\ job' = [job EXCEPT !.source = None, !.read = {}]

maybe_skip_stored_devcontainer_opt_out == ignored
maybe_record_devcontainer_opt_out == set_ignored

\* A stored opt-out skips whatever was found; a dry run does not ask.  A repository is
\* looked into over the network, and no opt-out is asked for: only a token that cannot be
\* had fails the command.
resolve_devcontainer_collect ==
  /\ pc = "find"
  /\ LET how == job.line.devcontainer
         found == discover(job.cmd, job.line)
         ask == IF Dry(job.cmd) THEN "load" ELSE "prompt"
     IN
     \/ how = "explicit" /\ Go("load") /\ job' = [job EXCEPT !.source = "project"]
     \/ how = "discover" /\ found # {} /\ ~maybe_skip_stored_devcontainer_opt_out /\ Go(ask)
        /\ job' = [job EXCEPT !.source = pick_winner(found)]
     \/ how = "discover" /\ job.cmd = "clone" /\ file # {} /\ Go(ask)
        /\ job' = [job EXCEPT !.source = "remote", !.read = file]
     \/ how = "discover" /\ job.cmd = "clone" /\ Fails
     \/ (how = "off" \/ (how = "discover" /\ (found = {} \/ maybe_skip_stored_devcontainer_opt_out)))
        /\ Without

\* Not a terminal; yes; no; and no, of a project for good.
Prompt ==
  /\ pc = "prompt"
  /\ \/ Fails
     \/ Go("load") /\ UNCHANGED job
     \/ Without
     \/ /\ job.source # "remote" /\ maybe_record_devcontainer_opt_out /\ pc' = "apply" /\ job' = [job EXCEPT !.source = None]
        /\ UNCHANGED <<file, tag, image, inst, told, edits, faults>>
-----------------------------------------------------------------------------
(* What it says: the status of each pair, by key *)

\* Which items coop understands.
MemorySpec_parse(i) == i # "bad"
VmMemory_new(i) == i # "low"
post_start_to_string(i) == i # "bad"
EnvVarName_new(i) == i # "bad"
parse_forward_port_entry(i) == i # "bad"
parse_mount_entry(i) == i # "bad"
GuestUser_new(i) == i # "root"
map_feature_to_profile(i) == i = "rust"
parse_supported_reference(i) == i # "foreign"
parse_options(i) == i # "bad"

Given(o, k) == \E p \in o.given : p[1] = k

Else(cli) == IF cli THEN "overridden" ELSE "applied"

translate_host_requirements(k, i, o, stage) ==
  CASE k = "cpus" /\ i = "bad" -> "invalid"
    [] k = "storage" /\ stage = "setup" -> "unsupported"
    [] OTHER -> Else(Given(o, k))

translate_post_start(i, o, stage) ==
  CASE stage = "setup" -> "announced"
    [] stage = "start" /\ ~post_start_to_string(i) -> "invalid"
    [] OTHER -> Else(Given(o, "postStartCommand"))

Named(f) == {p[2] : p \in {q \in f : q[1] = "remoteUser"}}
remote_user_mismatch(f, user) == \E u \in Named(f) : GuestUser_new(u) /\ u # user

\* Mutant of translate_container_env: the command line is not looked at.
env_unchecked(f, i, o, stage, user) ==
  CASE stage = "setup" -> "announced"
    [] stage = "start" /\ remote_user_mismatch(f, user) -> "unsupported"
    [] OTHER -> IF EnvVarName_new(i) THEN "applied" ELSE "invalid"

translate_container_env(f, i, o, stage, user) ==
  CASE stage = "setup" -> "announced"
    [] stage = "start" /\ remote_user_mismatch(f, user) -> "unsupported"
    [] OTHER -> IF EnvVarName_new(i) THEN Else(<<"containerEnv", i>> \in o.given) ELSE "invalid"

translate_forward_ports(i, o, stage) ==
  CASE stage = "setup" -> "announced"
    [] stage = "start" /\ ~parse_forward_port_entry(i) -> "invalid"
    [] OTHER -> Else(<<"forwardPorts", i>> \in o.given)

\* Of an OCI feature there is no row before the registry was asked.
Requests(f, stage) == stage = "setup" /\ <<"features", "oci">> \in f
translate_features(i, o, stage) ==
  CASE stage = "start" -> "unsupported"
    [] stage = "setup" /\ map_feature_to_profile(i) -> Else(<<"features", i>> \in o.given)
    [] OTHER -> IF parse_supported_reference(i) /\ ~parse_options(i) THEN "invalid" ELSE "unsupported"

\* --mount replaces them; a project or a clone leaves no place for them.
translate_mounts(i, o, stage, project) ==
  CASE stage = "setup" -> "announced"
    [] stage = "start" /\ Given(o, "mounts") -> "overridden"
    [] OTHER -> IF project THEN "unsupported" ELSE IF parse_mount_entry(i) THEN "applied" ELSE "invalid"

\* user: what the caller says the image's user is.
translate_remote_user(i, o, stage, user) ==
  CASE ~GuestUser_new(i) -> "invalid"
    [] stage = "setup" /\ GuestUser_new(i) -> Else(o.user # None)
    [] OTHER -> IF i = user THEN "applied" ELSE "unsupported"

Status(f, k, i, o, stage, user, project) ==
  CASE k \in {"cpus", "memory", "storage"} -> translate_host_requirements(k, i, o, stage)
    [] k = "postStartCommand" -> translate_post_start(i, o, stage)
    [] k = "containerEnv" -> translate_container_env(f, i, o, stage, user)
    [] k = "forwardPorts" -> translate_forward_ports(i, o, stage)
    [] k = "features" -> translate_features(i, o, stage)
    [] k = "mounts" -> translate_mounts(i, o, stage, project)
    [] k = "remoteUser" -> translate_remote_user(i, o, stage, user)
    [] OTHER -> "unsupported"

\* The rows of a file, and what it hands on: what was applied here and now.
translate(f, o, stage, user, project) ==
  LET rows == {[key |-> p[1], item |-> p[2], status |-> Status(f, p[1], p[2], o, stage, user, project)] :
                 p \in f \ (IF Requests(f, stage) THEN {<<"features", "oci">>} ELSE {})}
  IN [rows |-> rows, features |-> {},
      carries |-> {<<r.key, r.item>> : r \in {x \in rows : x.status = "applied"}}]

\* What up says is what template_config.json says; quickstart says nothing, which is
\* taken for ubuntu.
persisted_guest_user(cmd) == IF cmd = "quickstart" THEN "ubuntu" ELSE image.user
Stage(cmd) == IF cmd \in {"setup", "check"} THEN "setup" ELSE "start"
Readable(f) == \A i \in Items : {<<"memory", i>>, <<"storage", i>>} \cap f # {} => MemorySpec_parse(i)
Text == CASE job.source = "remote" -> job.read [] job.source = "mount" -> Mounted [] OTHER -> file

\* Only a start --dry-run may have no project and no repository.
Load ==
  /\ pc = "load"
  /\ \/ ~(\E f \in Text : Readable(f)) /\ Fails
     \/ \E f \in Text :
          /\ Readable(f) /\ Go(IF Requests(f, Stage(job.cmd)) THEN "fetch" ELSE "apply")
          /\ \E project \in {TRUE, job.cmd # "preview" \/ job.line.devcontainer # "explicit"} :
               LET t == translate(f, job.line, Stage(job.cmd), persisted_guest_user(job.cmd), project) IN
               job' = [job EXCEPT !.read = {f}, !.t = t]

\* The feature that the tag stands for now is fetched, or cannot be.
resolve_oci_feature_requests ==
  /\ pc = "fetch" /\ Go("apply")
  /\ \/ job' = [job EXCEPT !.t.features = {tag},
                           !.t.rows = @ \cup {[key |-> "features", item |-> tag, status |-> "applied"]}]
     \/ job' = [job EXCEPT !.t.rows = @ \cup {[key |-> "features", item |-> "oci", status |-> "invalid"]}]
-----------------------------------------------------------------------------
(* What is done with it *)
Low == \E p \in job.t.carries : p[1] = "memory" /\ ~VmMemory_new(p[2])     \* apply_to_config refuses it
Profiles(S) == {p[2] : p \in {q \in S : q[1] = "features"}} \cap {"rust"}
Tell(warned) == told' = [cmd |-> job.cmd, rows |-> job.t.rows, read |-> job.read, warned |-> warned]

\* A report was all that was asked for.
DryRun ==
  /\ pc = "apply" /\ Dry(job.cmd) /\ pc' = "idle" /\ job' = NoJob /\ Tell(FALSE)
  /\ UNCHANGED <<file, ignored, tag, image, inst, edits, faults>>

\* Profiles that nobody asks for anew are those of the image; features are not, and
\* Lima's image has what is asked for.
Asked == Profiles(job.line.given) \cup Profiles(job.t.carries)
resolve_template_config == IF Asked = {} /\ job.t.features = {} THEN image.profiles ELSE Asked

Setup ==
  /\ pc = "apply" /\ job.cmd = "setup"
  /\ \/ Fails
     \/ /\ ~Low /\ pc' = "idle" /\ job' = NoJob /\ Tell(FALSE)
        /\ LET asks == {p[2] : p \in {q \in job.t.carries : q[1] = "remoteUser"}} IN
           \E profiles \in {resolve_template_config, Asked} :
             image' = [user |-> IF job.line.user # None THEN job.line.user
                                ELSE IF asks # {} THEN CHOOSE u \in asks : TRUE ELSE "ubuntu",
                       profiles |-> profiles, features |-> job.t.features]
        /\ UNCHANGED <<file, ignored, tag, inst, edits, faults>>

\* The command line beats the file, except where apply_to_config comes last.
Wins(line, carries) ==
  [line |-> {p \in line : ~ \E q \in carries : p[1] = q[1] /\ p[1] \in {"cpus", "memory"}},
   file |-> {q \in carries : q[1] \in {"cpus", "memory", "mounts"}
               \/ (q \notin line /\ ~(q[1] \in Scalars /\ \E p \in line : p[1] = q[1]))}]

\* allocate_and_start: the disk is the image's; what the file gave is recorded last.
create_up_instance ==
  /\ pc = "apply" /\ Creates(job.cmd)
  /\ \/ Fails
     \/ /\ ~Low /\ pc' = "record"
        /\ LET w == Wins(job.line.given, {p \in job.t.carries : p[1] # "remoteUser"}) IN
           inst' = [NoInst EXCEPT !.user = image.user, !.file = w.file, !.line = w.line]
        /\ UNCHANGED <<file, ignored, tag, image, job, told, edits, faults>>

Record ==
  /\ pc = "record" /\ pc' = "idle" /\ job' = NoJob /\ Tell(FALSE)
  /\ inst' = [inst EXCEPT !.of = job.read, !.source = job.source]
  /\ UNCHANGED <<file, ignored, tag, image, edits, faults>>

\* Mutant of changed_warning: a file that is gone is not missed.
silent_when_gone == inst.source = "project" /\ file # {} /\ file # inst.of

\* A restart, or an up of what runs: only a warning when the file is another by now.
changed_warning == inst.source = "project" /\ file # inst.of
Restart ==
  /\ pc = "idle" /\ inst # NoInst
  /\ told' = [cmd |-> "restart", rows |-> {}, read |-> file, warned |-> changed_warning]
  /\ UNCHANGED <<file, ignored, tag, image, inst, pc, job, edits, faults>>

Destroy ==
  /\ pc = "idle" /\ inst # NoInst /\ inst' = NoInst /\ told' = NoReport
  /\ UNCHANGED <<file, ignored, tag, image, pc, job, edits, faults>>

Next ==
  \/ EditFile \/ MoveTag \/ cmd_devcontainer \/ Kill
  \/ \E cmd \in Commands : \E o \in Lines : Command(cmd, o)
  \/ resolve_devcontainer_collect \/ Prompt \/ Load \/ resolve_oci_feature_requests
  \/ DryRun \/ Setup \/ create_up_instance \/ Record \/ Restart \/ Destroy

Spec == Init /\ [][Next]_vars
-----------------------------------------------------------------------------
(* What the report promises *)
\* A setup is about features and remoteUser; the rest is for an up to come.
Settled ==
  CASE told.cmd = "setup" -> {r \in told.rows : r.key \in {"features", "remoteUser"}}
    [] Creates(told.cmd) -> told.rows [] OTHER -> {}
InForce(r) ==
  CASE r.key = "remoteUser" -> r.item = IF told.cmd = "setup" THEN image.user ELSE inst.user
    [] r.key = "features" -> told.cmd = "setup" /\ r.item \in image.profiles \cup image.features
    [] OTHER -> <<r.key, r.item>> \in inst.file
Overrides(r) ==
  CASE r.key = "remoteUser" -> TRUE
    [] r.key = "features" -> r.item \in image.profiles
    [] OTHER -> \E p \in inst.line : p[1] = r.key

\* Once a command has succeeded, every key of the file that it read has its row;
\* what is "applied" is in force in the image or the instance, what is "overridden" is
\* as the command line has it, and nothing else of the file is in force: no variables
\* for the home of a user the guest has not got, in particular (translate,
\* apply_to_config, create_up_instance).  Of quickstart only where the image is
\* ubuntu's: it does not look.
HonestReport ==
  (told.cmd = "quickstart" => image.user = "ubuntu") =>
    /\ told.cmd # "restart" => \A f \in told.read : \A p \in f :
         \E r \in told.rows : r.key = p[1] /\ (r.item = p[2] \/ (p[2] = "oci" /\ r.item \in Digests))
    /\ \A r \in Settled :
         /\ r.status = "applied" => InForce(r)
         /\ r.status = "overridden" => Overrides(r)
         /\ r.status \in {"unsupported", "invalid"} => ~InForce(r)
    /\ Creates(told.cmd) /\ (\E p \in inst.file : p[1] = "containerEnv") =>
         \A f \in told.read : Named(f) \subseteq {inst.user, "root"}

\* A restart without a warning is of an instance whose devcontainer.json was still as
\* it was applied (changed_warning).
WarnedOfChanges ==
  told.cmd = "restart" /\ ~told.warned /\ inst.source = "project" => told.read = inst.of

\* docs/configuration.md: the guest user is baked into the image for its lifetime, and
\* commands read it back from there for every instance (persisted_guest_user).
GuestUserIsInstances == inst # NoInst => inst.user = image.user
===============================================================================
