------------------------------ MODULE LimaStore ------------------------------
(***************************************************************************)
(* Images and instances on the Lima backend (src/src/lima.rs; cmd_commit   *)
(* and cmd_restore in commands/lifecycle.rs; the mode markers of           *)
(* private_egress.rs).                                                     *)
(*                                                                         *)
(* One command runs at a time, with the configuration it read when it      *)
(* started; the user may turn private egress on and off between commands.  *)
(* A disk is plain, has the early-boot guard, or is broken.                *)
(***************************************************************************)
EXTENDS Naturals, FiniteSets

CONSTANTS
  Images, Insts,
  Recipes,     \* what the provision script, user and plugins are composed from
  MaxFaults    \* bound on failures and kills

None == "none"

LimaAssumption ==
  /\ Recipes # {} /\ MaxFaults \in Nat /\ None \notin Images \cup Insts

Disks == {None, "plain", "guarded", "broken"}
Modes == {"ordinary", "private"}

VARIABLES
  config,     \* the mode of the user's configuration
  base,       \* each image's lima-base.img
  conf,       \* the recipe in its template configuration, or none
  guarded,    \* lima-private-egress-base.img: none, or made of the base as it
  stamp,      \* is now or as it was; and the fingerprint next to it
  tmpl,       \* the mode the shared start template was generated in, or none
  inst,       \* each instance: the image in its instance.json, its Lima VM with
              \* disk, network and host mounts, the other files of its directory
              \* (mode marker, lima-template.yaml), its lima.yaml, and whether
              \* the marker is there since before the VM
  pc, job,    \* the running command and what it was asked
  cut,        \* instances whose lima.yaml a reconfiguration could not put back
  faults
vars == <<config, base, conf, guarded, stamp, tmpl, inst, pc, job, cut, faults>>

NoJob == [verb |-> None, mode |-> "ordinary", image |-> None, inst |-> None, recipe |-> None,
          mounts |-> FALSE, start |-> FALSE, old |-> "good"]
NoInst == [image |-> None, vm |-> None, disk |-> None, net |-> "ordinary", mounts |-> FALSE,
           marked |-> FALSE, yaml |-> FALSE, spec |-> "good", stale |-> FALSE]
Exists(n) == inst[n].image # None
Fault == faults < MaxFaults /\ faults' = faults + 1
Go(p) == pc' = p /\ UNCHANGED job
Finish == pc' = "idle" /\ job' = NoJob
\* allocate_and_start destroys the instance of an up that fails.
GiveUp == IF job.verb = "up" THEN Go("delete") ELSE Finish
Private == job.mode = "private"

TypeOK ==
  /\ config \in Modes /\ base \in [Images -> Disks] /\ conf \in [Images -> Recipes \cup {None}]
  /\ guarded \in [Images -> {None, "old", "current"}] /\ stamp \in [Images -> {None, "old", "current"}]
  /\ tmpl \in [Images -> Modes \cup {None}]
  /\ inst \in [Insts -> [image : Images \cup {None}, vm : {None, "Stopped", "Running", "Broken"},
                         disk : Disks, net : Modes, mounts : BOOLEAN, marked : BOOLEAN,
                         yaml : BOOLEAN, spec : {"good", "bad"}, stale : BOOLEAN]]
  /\ pc \in {"idle", "check", "build", "swap", "config", "template", "guard", "guarding", "stamp",
            "write", "create", "ssh", "mark", "boot", "copy", "take", "lineage",
            "delete", "rmdir"}
  /\ job \in [verb : {None, "setup", "up", "start", "resources", "commit", "restore", "destroy"},
              mode : Modes, image : Images \cup {None}, inst : Insts \cup {None},
              recipe : Recipes \cup {None}, mounts : BOOLEAN, start : BOOLEAN,
              old : {"good", "bad"}]
  /\ cut \subseteq Insts /\ faults \in 0..MaxFaults

Init ==
  /\ config \in Modes
  /\ base = [i \in Images |-> None] /\ conf = [i \in Images |-> None]
  /\ guarded = [i \in Images |-> None] /\ stamp = [i \in Images |-> None]
  /\ tmpl = [i \in Images |-> None]
  /\ inst = [n \in Insts |-> NoInst]
  /\ pc = "idle" /\ job = NoJob /\ cut = {} /\ faults = 0

\* The user edits [private_egress] in or out of the configuration.
EditConfig ==
  /\ pc = "idle" /\ config' \in Modes \ {config}
  /\ UNCHANGED <<base, conf, guarded, stamp, tmpl, inst, pc, job, cut, faults>>

\* A command starts, with the configuration as it is now.
Command(p, j) == pc = "idle" /\ pc' = p /\ job' = [j EXCEPT !.mode = config]

\* A new base image: what was derived of the old one is old.
Aged(f, i) == [f EXCEPT ![i] = IF @ = None THEN None ELSE "old"]
SetBase(i, d) ==
  /\ base' = [base EXCEPT ![i] = d]
  /\ guarded' = Aged(guarded, i) /\ stamp' = Aged(stamp, i)
-----------------------------------------------------------------------------
(* coop setup *)

Setup(i, r, rebuild) ==
  /\ Command("check", [NoJob EXCEPT !.verb = "setup", !.image = i, !.recipe = r, !.start = rebuild])
  /\ UNCHANGED <<config, base, conf, guarded, stamp, tmpl, inst, cut, faults>>

\* needs_rebuild; an unreadable configuration reads as an orphaned image.
UpToDate(i, r) == base[i] # None /\ conf[i] = r

\* setup, after check_requirements and ensure_ssh_key.
CheckImage ==
  /\ pc = "check"
  /\ Go(IF UpToDate(job.image, job.recipe) /\ ~job.start THEN "template" ELSE "build")
  /\ UNCHANGED <<config, base, conf, guarded, stamp, tmpl, inst, cut, faults>>

\* verify_cloud_init_status, and after a cloud-init that may not tell the binaries:
\* degraded (2) is done, and done is done whatever the exit code.
VerifyBuilder(code, says, whole) ==
  says # "error" /\ (code \in {0, 2} \/ says = "done") /\ whole

\* run_builder_vm: limactl start, the checks, plugins, clean, stop and copy.
RunBuilder ==
  \E code \in 0..2, says \in {"done", "error", "other"}, whole \in BOOLEAN :
    IF VerifyBuilder(code, says, whole) THEN Go("swap") /\ UNCHANGED faults ELSE Fault /\ Finish

\* To a staging file; the builder always goes.
BuildGolden ==
  /\ pc = "build" /\ RunBuilder
  /\ UNCHANGED <<config, base, conf, guarded, stamp, tmpl, inst, cut>>

SwapBase ==
  /\ pc = "swap"
  /\ SetBase(job.image, "plain") /\ Go("config")
  /\ UNCHANGED <<config, conf, tmpl, inst, cut, faults>>

\* save_for: the last step of a commit, the last but one of a setup.
SaveConfig ==
  /\ pc = "config"
  /\ \/ /\ conf' = [conf EXCEPT ![job.image] = job.recipe] /\ UNCHANGED faults
        /\ IF job.verb = "setup" THEN Go("template") ELSE Finish
     \/ Fault /\ Finish /\ UNCHANGED conf
  /\ UNCHANGED <<config, base, guarded, stamp, tmpl, inst, cut>>

\* generate_start_template: in private mode it points at the guarded image.
GenerateTemplate ==
  /\ pc = "template" /\ Go(IF Private THEN "guard" ELSE "write")
  /\ UNCHANGED <<config, base, conf, guarded, stamp, tmpl, inst, cut, faults>>

WriteTemplate ==
  /\ pc = "write"
  /\ tmpl' = [tmpl EXCEPT ![job.image] = job.mode]
  /\ CASE job.verb = "setup" -> Finish
       [] job.verb = "up" -> Go("create")
       [] job.verb = "commit" -> Go("config")
  /\ UNCHANGED <<config, base, conf, guarded, stamp, inst, cut, faults>>
-----------------------------------------------------------------------------
(* ensure_private_egress_base *)

Guarded == IF job.verb = "restore" THEN "take" ELSE "write"

\* A guarded image with the fingerprint of the base as it is now is used as is.
CheckGuard ==
  /\ pc = "guard"
  /\ IF guarded[job.image] # None /\ stamp[job.image] = "current"
       THEN Go(Guarded) ELSE Go("guarding")
  /\ UNCHANGED <<config, base, conf, guarded, stamp, tmpl, inst, cut, faults>>

\* Mutant of BuildGuard: the fingerprint is written before the image is built.
BuildGuardStampFirst ==
  /\ pc = "guarding"
  /\ stamp' = [stamp EXCEPT ![job.image] = "current"]
  /\ \/ guarded' = [guarded EXCEPT ![job.image] = "current"] /\ Go(Guarded) /\ UNCHANGED faults
     \/ Fault /\ GiveUp /\ UNCHANGED guarded
  /\ UNCHANGED <<config, base, conf, tmpl, inst, cut>>

\* build_private_egress_base: guard script, clean, stop, copy, rename.
BuildGuard ==
  /\ pc = "guarding"
  /\ \/ guarded' = [guarded EXCEPT ![job.image] = "current"] /\ Go("stamp") /\ UNCHANGED faults
     \/ Fault /\ GiveUp /\ UNCHANGED guarded
  /\ UNCHANGED <<config, base, conf, stamp, tmpl, inst, cut>>

WriteStamp ==
  /\ pc = "stamp"
  /\ \/ stamp' = [stamp EXCEPT ![job.image] = "current"] /\ Go(Guarded) /\ UNCHANGED faults
     \/ Fault /\ GiveUp /\ UNCHANGED stamp
  /\ UNCHANGED <<config, base, conf, guarded, tmpl, inst, cut>>
-----------------------------------------------------------------------------
(* up, start, stop, destroy *)

\* Mutant of Up: the template is taken as the last setup left it.
UpAsLeft(n, i, mounts) ==
  /\ ~Exists(n) /\ base[i] # None /\ tmpl[i] # None
  /\ ~(config = "private" /\ mounts)
  /\ Command("create", [NoJob EXCEPT !.verb = "up", !.image = i, !.inst = n, !.mounts = mounts])
  /\ inst' = [inst EXCEPT ![n].image = i]
  /\ UNCHANGED <<config, base, conf, guarded, stamp, tmpl, cut, faults>>

\* create_and_start of an allocated instance, in a directory that may hold files of
\* an earlier one: no host mounts in private mode, and the shared template is
\* generated again, as the mode may have been turned on.
Up(n, i, mounts) ==
  /\ ~Exists(n) /\ base[i] # None /\ tmpl[i] # None
  /\ ~(config = "private" /\ mounts)
  /\ Command(IF config = "private" THEN "template" ELSE "create",
             [NoJob EXCEPT !.verb = "up", !.image = i, !.inst = n, !.mounts = mounts])
  /\ inst' = [inst EXCEPT ![n].image = i]
  /\ UNCHANGED <<config, base, conf, guarded, stamp, tmpl, cut, faults>>

\* What limactl makes a new disk of.
DiskOf(i) == IF tmpl[i] = "private" THEN "guarded" ELSE base[i]

\* Mounts are written to a template of the instance; limactl start makes the VM.
\* A marker that is there by now is not of this VM.
CreateVm ==
  /\ pc = "create" /\ Go("ssh")
  /\ inst' = [inst EXCEPT ![job.inst] =
       [@ EXCEPT !.vm = "Running", !.disk = DiskOf(job.image), !.net = tmpl[job.image],
                 !.mounts = job.mounts, !.yaml = inst[job.inst].yaml \/ job.mounts, !.spec = "good",
                 !.stale = inst[job.inst].marked]]
  /\ cut' = cut \ {job.inst}
  /\ UNCHANGED <<config, base, conf, guarded, stamp, tmpl, faults>>

\* wait_for_lima_ssh, or a failed limactl.
AwaitSsh ==
  /\ pc = "ssh"
  /\ \/ inst[job.inst].disk # "broken" /\ Go("mark") /\ UNCHANGED faults
     \/ Fault /\ GiveUp
     \/ inst[job.inst].disk = "broken" /\ GiveUp /\ UNCHANGED faults
  /\ UNCHANGED <<config, base, conf, guarded, stamp, tmpl, inst, cut>>

\* record_instance_mode: a marker for private egress, none for ordinary.
RecordMode ==
  /\ pc = "mark"
  /\ \/ /\ inst' = [inst EXCEPT ![job.inst].marked = Private, ![job.inst].stale = FALSE]
        /\ Finish /\ UNCHANGED faults
     \/ Fault /\ GiveUp /\ UNCHANGED inst
  /\ UNCHANGED <<config, base, conf, guarded, stamp, tmpl, cut>>

\* ensure_instance_mode: an instance without a marker is an ordinary one.
ModeMatches(n) == inst[n].marked = (config = "private")

\* start_existing: a lima-template.yaml in the directory stands for host mounts.
Start(n) ==
  /\ Exists(n) /\ inst[n].vm = "Stopped"
  /\ ModeMatches(n) /\ ~(config = "private" /\ inst[n].yaml)
  /\ Command("boot", [NoJob EXCEPT !.verb = "start", !.inst = n, !.start = TRUE,
                                   !.old = inst[n].spec])
  /\ UNCHANGED <<config, base, conf, guarded, stamp, tmpl, inst, cut, faults>>

\* Mutant of SetResources: the file is edited and nothing else.
SetResourcesUnsaved(n, s, start) ==
  /\ Exists(n) /\ inst[n].vm = "Stopped"
  /\ inst' = [inst EXCEPT ![n].spec = s] /\ ModeMatches(n)
  /\ Command("boot", [NoJob EXCEPT !.verb = "resources", !.inst = n, !.start = start, !.old = s])
  /\ UNCHANGED <<config, base, conf, guarded, stamp, tmpl, cut, faults>>

\* set_machine_resources: edit lima.yaml, boot, and put the file back if that
\* fails, as it does at once in the other mode.
SetResources(n, s, start) ==
  /\ Exists(n) /\ inst[n].vm = "Stopped"
  /\ IF ModeMatches(n) /\ ~(config = "private" /\ inst[n].yaml)
       THEN /\ inst' = [inst EXCEPT ![n].spec = s]
            /\ Command("boot", [NoJob EXCEPT !.verb = "resources", !.inst = n, !.start = start,
                                             !.old = inst[n].spec])
       ELSE pc = "idle" /\ UNCHANGED <<inst, pc, job>>
  /\ UNCHANGED <<config, base, conf, guarded, stamp, tmpl, cut, faults>>

Boots(n) == inst[n].spec = "good" /\ inst[n].disk # "broken"

\* limactl start of a VM that exists; a kill of the client may leave it running, as
\* does a stop that fails after the boot.  That the file could not be put back is
\* only logged.
Boot ==
  /\ pc = "boot" /\ Finish
  /\ LET n == job.inst
         left(v, s) == inst' = [inst EXCEPT ![n].vm = v, ![n].spec = s]
     IN \/ /\ Boots(n) /\ left(IF job.start THEN "Running" ELSE "Stopped", inst[n].spec)
           /\ cut' = cut \ {n} /\ UNCHANGED faults
        \/ Boots(n) /\ ~job.start /\ Fault /\ left("Running", inst[n].spec) /\ cut' = cut \ {n}
        \/ ~Boots(n) /\ left("Stopped", job.old) /\ UNCHANGED <<cut, faults>>
        \/ Fault /\ UNCHANGED cut /\ \E v \in {"Stopped", "Running"} : left(v, job.old)
        \/ /\ job.verb = "resources" /\ Fault /\ cut' = cut \cup {n}
           /\ \E v \in {"Stopped", "Running"} : left(v, inst[n].spec)
  /\ UNCHANGED <<config, base, conf, guarded, stamp, tmpl>>

\* stop_running.
Stop(n) ==
  /\ pc = "idle" /\ inst[n].vm = "Running"
  /\ inst' = [inst EXCEPT ![n].vm = "Stopped"]
  /\ UNCHANGED <<config, base, conf, guarded, stamp, tmpl, pc, job, cut, faults>>

\* destroy_instance, first the VM ...
Destroy(n) ==
  /\ Exists(n) /\ Command("delete", [NoJob EXCEPT !.verb = "destroy", !.inst = n])
  /\ UNCHANGED <<config, base, conf, guarded, stamp, tmpl, inst, cut, faults>>

WithoutVm(v) == [v EXCEPT !.vm = None, !.disk = None, !.net = "ordinary", !.mounts = FALSE,
                          !.spec = "good", !.stale = FALSE]

\* What a limactl stop and delete that fail leave of a VM.
HalfDeleted(v) ==
  IF v.vm = None THEN {v} ELSE {v, [v EXCEPT !.vm = "Stopped"], [v EXCEPT !.vm = "Broken"]}

\* ... if it can be deleted ...
DeleteVm ==
  /\ pc = "delete"
  /\ \/ inst' = [inst EXCEPT ![job.inst] = WithoutVm(@)] /\ Go("rmdir") /\ UNCHANGED faults
     \/ /\ inst[job.inst].vm # None /\ Fault /\ Finish
        /\ \E v \in HalfDeleted(inst[job.inst]) : inst' = [inst EXCEPT ![job.inst] = v]
  /\ UNCHANGED <<config, base, conf, guarded, stamp, tmpl, cut>>

\* What a remove_dir_all that stops leaves of the directory: any of its files.
HalfRemoved(v) ==
  {[v EXCEPT !.image = i, !.marked = m, !.yaml = y] :
     i \in {v.image, None}, m \in {v.marked, FALSE}, y \in {v.yaml, FALSE}}

\* ... then its directory, where a failure is only logged.
RemoveDir ==
  /\ pc = "rmdir" /\ Finish
  /\ \/ inst' = [inst EXCEPT ![job.inst] = NoInst] /\ UNCHANGED faults
     \/ /\ Fault
        /\ \E v \in HalfRemoved(inst[job.inst]) : inst' = [inst EXCEPT ![job.inst] = v]
  /\ cut' = cut \ {job.inst}
  /\ UNCHANGED <<config, base, conf, guarded, stamp, tmpl>>
-----------------------------------------------------------------------------
(* commit and restore *)

\* cmd_commit of a stopped instance, in its own mode, to a new image or by force.
Commit(n, i, force) ==
  /\ Exists(n) /\ ModeMatches(n) /\ inst[n].vm \in {"Stopped", "Broken"}
  /\ base[i] = None \/ tmpl[i] = None \/ force
  /\ conf[inst[n].image] # None /\ config = "ordinary"
  /\ Command("copy", [NoJob EXCEPT !.verb = "commit", !.image = i, !.inst = n,
                                   !.recipe = conf[inst[n].image]])
  /\ UNCHANGED <<config, base, conf, guarded, stamp, tmpl, inst, cut, faults>>

\* commit_disk writes the image where it is used.
CopyToImage ==
  /\ pc = "copy"
  /\ \/ SetBase(job.image, inst[job.inst].disk) /\ Go("template") /\ UNCHANGED faults
     \/ Fault /\ SetBase(job.image, "broken") /\ Finish
  /\ UNCHANGED <<config, conf, tmpl, inst, cut>>

\* cmd_restore and restore_disk: a private instance gets the guarded image.
Restore(n, i) ==
  /\ Exists(n) /\ ModeMatches(n) /\ inst[n].vm \in {"Stopped", "Broken"}
  /\ base[i] # None /\ tmpl[i] # None
  /\ Command(IF config = "private" THEN "guard" ELSE "take",
             [NoJob EXCEPT !.verb = "restore", !.image = i, !.inst = n])
  /\ UNCHANGED <<config, base, conf, guarded, stamp, tmpl, inst, cut, faults>>

CopyToDisk ==
  /\ pc = "take"
  /\ \/ /\ inst' = [inst EXCEPT ![job.inst].disk = IF Private THEN "guarded" ELSE base[job.image]]
        /\ Go("lineage") /\ UNCHANGED faults
     \/ Fault /\ Finish /\ inst' = [inst EXCEPT ![job.inst].disk = "broken"]
  /\ UNCHANGED <<config, base, conf, guarded, stamp, tmpl, cut>>

SaveLineage ==
  /\ pc = "lineage" /\ Finish
  /\ \/ inst' = [inst EXCEPT ![job.inst].image = job.image] /\ UNCHANGED faults
     \/ Fault /\ UNCHANGED inst
  /\ UNCHANGED <<config, base, conf, guarded, stamp, tmpl, cut>>

\* destroy_image.
RemoveImage(i) ==
  /\ pc = "idle" /\ base[i] # None
  /\ base' = [base EXCEPT ![i] = None] /\ conf' = [conf EXCEPT ![i] = None]
  /\ guarded' = [guarded EXCEPT ![i] = None] /\ stamp' = [stamp EXCEPT ![i] = None]
  /\ tmpl' = [tmpl EXCEPT ![i] = None]
  /\ UNCHANGED <<config, inst, pc, job, cut, faults>>

\* What is left of the instance a command is at work on when it is killed.
Killed(v) ==
  CASE pc = "take" -> {[v EXCEPT !.disk = "broken"]}
    [] pc = "boot" -> {[v EXCEPT !.vm = s] : s \in {"Stopped", "Running"}}
    [] pc = "delete" -> HalfDeleted(v)
    [] pc = "rmdir" -> HalfRemoved(v)
    [] OTHER -> {v}

\* coop is killed: what was half made or half removed stays.
Kill ==
  /\ pc # "idle" /\ Fault /\ Finish
  /\ IF pc = "copy" THEN SetBase(job.image, "broken") ELSE UNCHANGED <<base, guarded, stamp>>
  /\ IF job.verb = "setup" THEN UNCHANGED inst
     ELSE \E v \in Killed(inst[job.inst]) : inst' = [inst EXCEPT ![job.inst] = v]
  /\ cut' = IF pc = "boot" /\ job.verb = "resources" THEN cut \cup {job.inst} ELSE cut
  /\ UNCHANGED <<config, conf, tmpl>>

Next ==
  \/ EditConfig
  \/ \E i \in Images, r \in Recipes, b \in BOOLEAN : Setup(i, r, b)
  \/ CheckImage \/ BuildGolden \/ SwapBase \/ SaveConfig \/ GenerateTemplate \/ WriteTemplate
  \/ CheckGuard \/ BuildGuard \/ WriteStamp
  \/ \E n \in Insts, i \in Images, m \in BOOLEAN : Up(n, i, m)
  \/ CreateVm \/ AwaitSsh \/ RecordMode \/ Boot \/ DeleteVm \/ RemoveDir
  \/ \E n \in Insts : Start(n) \/ Stop(n) \/ Destroy(n)
  \/ \E n \in Insts, s \in {"good", "bad"}, b \in BOOLEAN : SetResources(n, s, b)
  \/ \E n \in Insts, i \in Images, f \in BOOLEAN : Commit(n, i, f)
  \/ \E n \in Insts, i \in Images : Restore(n, i)
  \/ CopyToImage \/ CopyToDisk \/ SaveLineage
  \/ \E i \in Images : RemoveImage(i)
  \/ Kill

Spec == Init /\ [][Next]_vars
-----------------------------------------------------------------------------
\* Whatever was configured, built, committed or killed before: a VM whose marker says
\* private egress has the guarded disk, the network of the gateway alone and no host
\* mounts; it is never started without them.  The exception is a marker older than
\* its VM: one of an earlier instance, left by a destroy that stopped after the VM
\* was gone, until the up of the new VM records its own mode or clears the marker.
PrivateIsGuarded ==
  \A n \in Insts : inst[n].marked /\ inst[n].vm # None /\ ~inst[n].stale =>
    inst[n].disk \in {"guarded", "broken"} /\ inst[n].net = "private" /\ ~inst[n].mounts

\* The guarded image is trusted by its fingerprint: it was made of the base that
\* the fingerprint names.
StampIsOfGuard ==
  \A i \in Images : stamp[i] = "current" => guarded[i] = "current"

\* A reconfiguration that fails leaves the lima.yaml that booted before; only one
\* that was killed, or could not put the file back, may not.
SpecBooted ==
  \A n \in Insts \ cut : inst[n].spec = "bad" => pc = "boot" /\ job.inst = n

\* A private instance cannot be committed, so no image has the guard
\* (docs/images-and-profiles.md:183).
ImagesUnguarded ==
  \A i \in Images : base[i] # "guarded"
=============================================================================
