------------------------------ MODULE ImageStore ------------------------------
(***************************************************************************)
(* Images and disks on the Firecracker backend: what `coop setup` installs *)
(* and builds, and the disks that up, resize, commit and restore make of   *)
(* images (src/src/setup.rs; cmd_resize, cmd_commit and cmd_restore in     *)
(* commands/lifecycle.rs).                                                 *)
(*                                                                         *)
(* One command runs at a time, a step per host command that leaves a trace *)
(* on the disk; any step may fail, and coop may be killed between two.  A  *)
(* file has the recipe its content was made from, or is broken.            *)
(***************************************************************************)
EXTENDS Naturals, Sequences, FiniteSets, SequencesExt

CONSTANTS
  Images, Insts,
  Recipes,     \* the install scripts profiles and packages compose to
  Default,     \* the recipe without profiles and packages
  Sizes,       \* disk sizes; the smallest is the template's
  MaxFaults    \* bound on failures and kills

None == "none"
Broken == "broken"
Tools == {"firecracker", "kernel"}

\* cut is about names of three kinds: they are kept apart here, as are the recipes
\* from what is no recipe.
ImageAssumption ==
  /\ Default \in Recipes /\ Sizes # {} /\ Sizes \subseteq Nat /\ MaxFaults \in Nat
  /\ None \notin Images \cup Insts /\ Images \cap Insts = {}
  /\ (Images \cup Insts) \cap Tools = {} /\ Recipes \cap {None, Broken} = {}

Contents == Recipes \cup {None, Broken}
TemplateSize == CHOOSE z \in Sizes : \A y \in Sizes : z <= y
Built == [size |-> TemplateSize, fs |-> TemplateSize]

VARIABLES
  template,  \* each image's rootfs-template.ext4
  tsize,     \* its size, and that of its filesystem
  conf,      \* the recipe in its template-config.json, or none
  staging,   \* the file the template is built in
  mounted,   \* mounts of the running command: six for a build, one for a patch
  leaked,    \* whether there are mounts that nothing will undo
  tools,     \* firecracker and the kernel: absent, partial, or there
  inst,      \* each instance's image, disk, address and sizes
  pc, job,   \* the running command and what it was asked
  cut,       \* what stopped commands left undone: of each image and instance
             \* the copy of its disk, its address, the size of its filesystem
             \* (as of the disk it was copied from), of each tool its file
  faults
vars == <<template, tsize, conf, staging, mounted, leaked, tools, inst, pc, job, cut, faults>>
files == <<template, tsize, conf, staging, mounted, leaked, tools, inst, cut>>

NoJob == [image |-> None, recipe |-> Default, rebuild |-> FALSE, inst |-> None, size |-> 0,
          step |-> 0, found |-> None]
NoInst == [image |-> None, disk |-> None, own |-> FALSE, size |-> 0, fs |-> 0]
Exists(n) == inst[n].image # None

BuildSteps == <<"unpack", "mkfs", "mount", "install", "unmount">>

TypeOK ==
  /\ template \in [Images -> Contents]
  /\ tsize \in [Images -> [size : Sizes \cup {0}, fs : Sizes \cup {0}]]
  /\ conf \in [Images -> Recipes \cup {None}]
  /\ staging \in Contents
  /\ mounted \in 0..6 /\ leaked \in BOOLEAN
  /\ tools \in [Tools -> {"absent", "partial", "there"}]
  /\ inst \in [Insts -> [image : Images \cup {None}, disk : Contents, own : BOOLEAN,
                         size : Sizes \cup {0}, fs : Sizes \cup {0}]]
  /\ \A n \in Insts : inst[n].fs <= inst[n].size
  /\ pc \in {"idle", "kvm", "firecracker", "chmod", "kernel", "check", "current", "build", "swap", "config",
            "clear", "copy", "grow", "patch", "lineage", "fsck", "take"}
  /\ job \in [image : Images \cup {None}, recipe : Recipes, rebuild : BOOLEAN,
              inst : Insts \cup {None}, size : Sizes \cup {0}, step : 0..Len(BuildSteps),
              found : Contents]
  /\ cut \in [Images \cup Insts \cup Tools -> SUBSET {"disk", "address", "size", "file"}]
  /\ faults \in 0..MaxFaults

Init ==
  /\ template = [i \in Images |-> None] /\ tsize = [i \in Images |-> Built]
  /\ conf = [i \in Images |-> None]
  /\ staging = None /\ mounted = 0 /\ leaked = FALSE
  /\ tools = [t \in Tools |-> "absent"]
  /\ inst = [n \in Insts |-> NoInst]
  /\ pc = "idle" /\ job = NoJob /\ faults = 0
  /\ cut = [x \in Images \cup Insts \cup Tools |-> {}]

Fault == faults < MaxFaults /\ faults' = faults + 1
Go(p) == pc' = p /\ UNCHANGED job
Finish == pc' = "idle" /\ job' = NoJob
Undone(x, what) == cut' = [cut EXCEPT ![x] = @ \cup what]
-----------------------------------------------------------------------------
(* coop setup *)

\* resolve_template_config: without profiles or packages of its own, setup
\* repeats the recipe the image was last built with.
Asked(i, r) == IF r # Default \/ conf[i] = None THEN r ELSE conf[i]

Setup(i, r, rebuild) ==
  /\ pc = "idle" /\ pc' = "kvm"
  /\ job' = [NoJob EXCEPT !.image = i, !.recipe = Asked(i, r), !.rebuild = rebuild]
  /\ UNCHANGED <<files, faults>>

\* What setup needs of the host: KVM, packages, and access it may have to grant.
CheckHost ==
  /\ pc = "kvm"
  /\ \/ Go("firecracker") /\ UNCHANGED faults
     \/ Fault /\ Finish
  /\ UNCHANGED files

\* install_firecracker: a binary that is there is taken as it is; a new one is
\* renamed into place before it is made executable.
InstallFirecracker ==
  /\ pc = "firecracker"
  /\ \/ tools["firecracker"] # "absent" /\ Go("kernel") /\ UNCHANGED <<tools, faults>>
     \/ /\ tools["firecracker"] = "absent" /\ Go("chmod")
        /\ tools' = [tools EXCEPT !["firecracker"] = "partial"] /\ UNCHANGED faults
     \/ tools["firecracker"] = "absent" /\ Fault /\ Finish /\ UNCHANGED tools
  /\ UNCHANGED <<template, tsize, conf, staging, mounted, leaked, inst, cut>>

MakeExecutable ==
  /\ pc = "chmod"
  /\ \/ /\ tools' = [tools EXCEPT !["firecracker"] = "there"]
        /\ Go("kernel") /\ UNCHANGED <<cut, faults>>
     \/ Fault /\ Finish /\ Undone("firecracker", {"file"}) /\ UNCHANGED tools
  /\ UNCHANGED <<template, tsize, conf, staging, mounted, leaked, inst>>

\* fetch_kernel downloads to the final path: an interrupted download stays there.
FetchKernel ==
  /\ pc = "kernel"
  /\ \/ tools["kernel"] # "absent" /\ Go("check") /\ UNCHANGED <<tools, cut, faults>>
     \/ /\ tools["kernel"] = "absent" /\ Go("check")
        /\ tools' = [tools EXCEPT !["kernel"] = "there"] /\ UNCHANGED <<cut, faults>>
     \/ /\ tools["kernel"] = "absent" /\ Fault /\ Finish
        /\ tools' = [tools EXCEPT !["kernel"] = "partial"] /\ Undone("kernel", {"file"})
  /\ UNCHANGED <<template, tsize, conf, staging, mounted, leaked, inst>>

\* needs_rebuild: no readable configuration, or another recipe.
NeedsRebuild(i, r) == conf[i] # r

\* build_or_check_template: an up-to-date template is left alone; a leftover of
\* an earlier build goes first.
CheckTemplate ==
  /\ pc = "check"
  /\ IF template[job.image] # None /\ ~job.rebuild /\ ~NeedsRebuild(job.image, job.recipe)
       THEN Go("current") /\ UNCHANGED staging
       ELSE /\ pc' = "build" /\ job' = [job EXCEPT !.step = 1]
            /\ staging' = None
  /\ UNCHANGED <<template, tsize, conf, mounted, leaked, tools, inst, cut, faults>>

\* "Template rootfs: up to date".
CalledUpToDate ==
  /\ pc = "current" /\ Finish /\ UNCHANGED <<files, faults>>

Doing == BuildSteps[job.step]

\* What a step does to the staging file: it is a template only with its packages.
Staged(p) == CASE p = "mkfs" -> Broken [] p = "install" -> job.recipe [] OTHER -> staging

\* build_template: download_and_unpack_rootfs with the keys, create_ext4_image,
\* mount_chroot, install_guest_packages with its check of the binaries, and the
\* guard that unmounts.
BuildStep ==
  /\ pc = "build"
  /\ staging' = Staged(Doing)
  /\ mounted' = CASE Doing = "mount" -> 6 [] Doing = "unmount" -> 0 [] OTHER -> mounted
  /\ IF job.step < Len(BuildSteps)
       THEN job' = [job EXCEPT !.step = @ + 1] /\ UNCHANGED pc
       ELSE Go("swap")
  /\ UNCHANGED <<template, tsize, conf, leaked, tools, inst, cut, faults>>

\* Mutant of BuildFails: the error is logged, and the swap goes ahead.
BuildFailsUnnoticed ==
  /\ pc = "build" /\ Doing \notin {"unmount"} /\ Fault
  /\ mounted' = 0 /\ leaked' = leaked
  /\ pc' = "swap" /\ UNCHANGED job
  /\ UNCHANGED <<template, tsize, conf, staging, tools, inst, cut>>

\* A MountGuard undoes the mounts of a chroot that stands, not those made before
\* one of them failed.
Unwound(mounting) == mounted' = 0 /\ leaked' = (leaked \/ mounting)

\* A step fails: the staging file goes.
BuildFails ==
  /\ pc = "build" /\ Doing \notin {"unmount"} /\ Fault
  /\ staging' = None /\ Unwound(Doing = "mount")
  /\ Finish
  /\ UNCHANGED <<template, tsize, conf, tools, inst, cut>>

\* The mv of the staging file, then the configuration.
SwapTemplate ==
  /\ pc = "swap"
  /\ \/ /\ template' = [template EXCEPT ![job.image] = staging]
        /\ tsize' = [tsize EXCEPT ![job.image] = Built]
        /\ cut' = [cut EXCEPT ![job.image] = {}]
        /\ staging' = None /\ Go("config") /\ UNCHANGED faults
     \/ Fault /\ Finish /\ UNCHANGED <<template, tsize, cut, staging>>
  /\ UNCHANGED <<conf, mounted, leaked, tools, inst>>

SaveConfig ==
  /\ pc = "config"
  /\ \/ conf' = [conf EXCEPT ![job.image] = job.recipe] /\ UNCHANGED faults
     \/ Fault /\ UNCHANGED conf
  /\ Finish
  /\ UNCHANGED <<template, tsize, staging, mounted, leaked, tools, inst, cut>>
-----------------------------------------------------------------------------
(* up, resize, restore, commit, destroy *)

\* create_and_start after the allocation of an instance of a built image.
Up(n, i, z) ==
  /\ pc = "idle" /\ ~Exists(n)
  /\ IF template[i] = None
       THEN UNCHANGED <<pc, job, inst>>
       ELSE /\ inst' = [inst EXCEPT ![n].image = i]
            /\ pc' = "copy"
            /\ job' = [NoJob EXCEPT !.image = i, !.inst = n, !.size = z, !.rebuild = TRUE]
  /\ UNCHANGED <<template, tsize, conf, staging, mounted, leaked, tools, cut, faults>>

\* cmd_restore of another image, or of a newer template of the same; the disk it
\* finds is remembered.
Restore(n, i) ==
  /\ pc = "idle" /\ Exists(n) /\ template[i] # None
  /\ pc' = "clear"
  /\ job' = [NoJob EXCEPT !.image = i, !.inst = n, !.found = inst[n].disk]
  /\ UNCHANGED <<files, faults>>

Creating == job.rebuild

\* The instance of an up that fails is destroyed; a restore or a resize leaves what
\* it has, with something undone.
DiskFails(now, undone) ==
  /\ Finish
  /\ IF Creating
       THEN inst' = [inst EXCEPT ![job.inst] = NoInst] /\ cut' = [cut EXCEPT ![job.inst] = {}]
       ELSE inst' = [inst EXCEPT ![job.inst] = now] /\ Undone(job.inst, undone)

Cleared(d) == [d EXCEPT !.disk = None, !.own = FALSE]
HalfCopied(d) == [d EXCEPT !.disk = Broken, !.own = FALSE]

\* restore_instance_rootfs, first half: a disk that is there is removed.
ClearDisk ==
  /\ pc = "clear"
  /\ \/ /\ inst' = [inst EXCEPT ![job.inst] = Cleared(@)]
        /\ Go("copy") /\ UNCHANGED <<cut, faults>>
     \/ /\ inst[job.inst].disk # None /\ Fault
        /\ DiskFails(inst[job.inst], {})
  /\ UNCHANGED <<template, tsize, conf, staging, mounted, leaked, tools>>

\* create_instance, and the second half of a restore: the template is copied.  A
\* copy that fails leaves no file, or a part of one.
CopyTemplate ==
  /\ pc = "copy"
  /\ \/ /\ inst' = [inst EXCEPT ![job.inst].disk = template[job.image],
                               ![job.inst].size = tsize[job.image].size,
                               ![job.inst].fs = tsize[job.image].fs, ![job.inst].own = FALSE]
        /\ cut' = [cut EXCEPT ![job.inst] = cut[job.image]]
        /\ Go(IF Creating THEN "grow" ELSE "patch") /\ UNCHANGED faults
     \/ \E left \in {Cleared(inst[job.inst]), HalfCopied(inst[job.inst])} :
          Fault /\ DiskFails(left, {"disk", "address"})
  /\ UNCHANGED <<template, tsize, conf, staging, mounted, leaked, tools>>

\* A size is applied when it is above that of the built template; e2fsck refuses
\* a disk cut below its filesystem, as that of a committed image may be.
GrowNew ==
  /\ pc = "grow"
  /\ LET d == inst[job.inst] IN
     \/ job.size <= TemplateSize /\ Go("patch") /\ UNCHANGED <<inst, cut, faults>>
     \/ /\ job.size > TemplateSize /\ job.size >= d.size /\ Go("patch")
        /\ inst' = [inst EXCEPT ![job.inst].size = job.size, ![job.inst].fs = job.size]
        /\ UNCHANGED <<cut, faults>>
     \/ /\ job.size > TemplateSize /\ DiskFails(d, {})
        /\ \/ Fault
           \/ job.size < d.size /\ UNCHANGED faults
  /\ UNCHANGED <<template, tsize, conf, staging, mounted, leaked, tools>>

\* Mutant of PatchNetwork: a restored disk keeps the address it came with.
PatchNewNetwork ==
  /\ pc = "patch"
  /\ inst' = IF Creating THEN [inst EXCEPT ![job.inst].own = TRUE] ELSE inst
  /\ IF Creating THEN Finish ELSE Go("lineage")
  /\ UNCHANGED <<cut, faults, template, tsize, conf, staging, mounted, leaked, tools>>

\* patch_guest_network: mount, write address and host name, unmount by guard.
PatchNetwork ==
  /\ pc = "patch"
  /\ \/ /\ inst' = [inst EXCEPT ![job.inst].own = TRUE]
        /\ IF Creating THEN Finish ELSE Go("lineage")
        /\ UNCHANGED <<cut, faults>>
     \/ Fault /\ DiskFails(inst[job.inst], {"address"})
  /\ UNCHANGED <<template, tsize, conf, staging, mounted, leaked, tools>>

\* set_image after the swap of the disk; a repeated restore corrects a failure.
SaveLineage ==
  /\ pc = "lineage"
  /\ \/ /\ inst' = [inst EXCEPT ![job.inst].image = job.image]
        /\ Finish /\ UNCHANGED <<cut, faults>>
     \/ Fault /\ DiskFails(inst[job.inst], {})
  /\ UNCHANGED <<template, tsize, conf, staging, mounted, leaked, tools>>

\* Mutant of Resize: any other size is taken.
ResizeAny(n, z) ==
  /\ pc = "idle" /\ Exists(n) /\ inst[n].disk # None
  /\ inst' = [inst EXCEPT ![n].size = z]
  /\ pc' = "fsck" /\ job' = [NoJob EXCEPT !.inst = n]
  /\ UNCHANGED <<template, tsize, conf, staging, mounted, leaked, tools, cut, faults>>

\* cmd_resize: never smaller; the file grows before the filesystem does.
Resize(n, z) ==
  /\ pc = "idle" /\ Exists(n) /\ inst[n].disk # None
  /\ z > inst[n].size
  /\ inst' = [inst EXCEPT ![n].size = z]
  /\ pc' = "fsck" /\ job' = [NoJob EXCEPT !.inst = n]
  /\ UNCHANGED <<template, tsize, conf, staging, mounted, leaked, tools, cut, faults>>

GrowFilesystem ==
  /\ pc = "fsck"
  /\ \/ /\ inst[job.inst].disk # Broken
        /\ inst' = [inst EXCEPT ![job.inst].fs = inst[job.inst].size]
        /\ cut' = [cut EXCEPT ![job.inst] = @ \ {"size"}]
        /\ Finish /\ UNCHANGED faults
     \/ /\ DiskFails(inst[job.inst], {"size"})
        /\ \/ Fault
           \/ inst[job.inst].disk = Broken /\ UNCHANGED faults
  /\ UNCHANGED <<template, tsize, conf, staging, mounted, leaked, tools>>

\* cmd_commit: an existing image only with --force, the source's configuration
\* read first; commit_instance_rootfs removes the old template before the copy.
Commit(n, i, force) ==
  /\ pc = "idle" /\ Exists(n) /\ inst[n].disk # None
  /\ template[i] = None \/ force
  /\ conf[inst[n].image] # None
  /\ template' = [template EXCEPT ![i] = None]
  /\ pc' = "take"
  /\ job' = [NoJob EXCEPT !.image = i, !.inst = n, !.recipe = conf[inst[n].image]]
  /\ UNCHANGED <<tsize, conf, staging, mounted, leaked, tools, inst, cut, faults>>

TakeDisk ==
  /\ pc = "take"
  /\ \/ /\ template' = [template EXCEPT ![job.image] = inst[job.inst].disk]
        /\ tsize' = [tsize EXCEPT ![job.image] = [size |-> inst[job.inst].size,
                                                  fs |-> inst[job.inst].fs]]
        /\ cut' = [cut EXCEPT ![job.image] = cut[job.inst] \ {"address"}]
        /\ Go("config") /\ UNCHANGED faults
     \/ /\ Fault /\ Finish /\ Undone(job.image, {"disk"}) /\ UNCHANGED tsize
        /\ \E left \in {None, Broken} : template' = [template EXCEPT ![job.image] = left]
  /\ UNCHANGED <<conf, staging, mounted, leaked, tools, inst>>

Destroy(n) ==
  /\ pc = "idle" /\ Exists(n)
  /\ inst' = [inst EXCEPT ![n] = NoInst] /\ cut' = [cut EXCEPT ![n] = {}]
  /\ UNCHANGED <<template, tsize, conf, staging, mounted, leaked, tools, pc, job,
                 faults>>

DiskSteps == {"clear", "copy", "grow", "patch", "lineage", "fsck"}

\* What a kill may leave of the disk at work: removed or not; a part of a copy; a
\* longer file without its filesystem, or one cut below it.
LeftDisks(d) ==
  {d} \cup CASE pc = "clear" -> {Cleared(d)}
              [] pc = "copy" -> {HalfCopied(d)}
              [] pc = "grow" /\ job.size > TemplateSize ->
                   {IF job.size >= d.size THEN [d EXCEPT !.size = job.size]
                    ELSE [HalfCopied(d) EXCEPT !.size = job.size, !.fs = job.size]}
              [] OTHER -> {}

\* What it leaves undone.
LeftUndone(d) ==
  CASE pc \in {"clear", "copy"} -> {"disk", "address"}
    [] pc = "grow" -> {"size", "address"} \cup (IF job.size >= d.size THEN {} ELSE {"disk"})
    [] pc = "patch" -> {"address"}
    [] pc = "fsck" -> {"size"}
    [] OTHER -> {}

KillDisk ==
  /\ pc \in DiskSteps
  /\ \E left \in LeftDisks(inst[job.inst]) : inst' = [inst EXCEPT ![job.inst] = left]
  /\ Undone(job.inst, LeftUndone(inst[job.inst])) /\ UNCHANGED <<template, tools>>

KillCommit ==
  /\ pc = "take" /\ Undone(job.image, {"disk"}) /\ UNCHANGED <<inst, tools>>
  /\ \E left \in {None, Broken} : template' = [template EXCEPT ![job.image] = left]

KillSetup ==
  /\ pc \notin DiskSteps \cup {"take"} /\ UNCHANGED <<template, inst>>
  /\ \/ pc = "kernel" /\ tools["kernel"] = "absent" /\ Undone("kernel", {"file"})
        /\ tools' = [tools EXCEPT !["kernel"] = "partial"]
     \/ pc = "chmod" /\ Undone("firecracker", {"file"}) /\ UNCHANGED tools
     \/ pc # "chmod" /\ UNCHANGED <<tools, cut>>

\* The command is killed, perhaps in the middle of a copy or a download.
Kill ==
  /\ pc # "idle" /\ Fault /\ Finish
  /\ leaked' = (leaked \/ mounted > 0 \/ pc = "patch") /\ mounted' = 0
  /\ KillDisk \/ KillCommit \/ KillSetup
  /\ UNCHANGED <<tsize, conf, staging>>

Next ==
  \/ \E i \in Images, r \in Recipes, b \in BOOLEAN : Setup(i, r, b)
  \/ CheckHost \/ InstallFirecracker \/ MakeExecutable \/ FetchKernel \/ CheckTemplate
  \/ CalledUpToDate \/ BuildStep \/ BuildFails \/ SwapTemplate \/ SaveConfig
  \/ \E n \in Insts, i \in Images, z \in Sizes : Up(n, i, z)
  \/ \E n \in Insts, i \in Images : Restore(n, i)
  \/ \E n \in Insts, i \in Images, f \in BOOLEAN : Commit(n, i, f)
  \/ \E n \in Insts, z \in Sizes : Resize(n, z)
  \/ \E n \in Insts : Destroy(n)
  \/ ClearDisk \/ CopyTemplate \/ GrowNew \/ PatchNetwork \/ SaveLineage \/ GrowFilesystem \/ TakeDisk
  \/ Kill

Spec == Init /\ [][Next]_vars
-----------------------------------------------------------------------------
\* A setup that fails or is killed anywhere takes no template away and puts no part
\* of one in its place.  An image is without a whole template only after a commit
\* that stopped in the copy, which removes the old one first, or after a commit of
\* such a disk.
TemplateWhole ==
  \A i \in Images :
    template[i] = Broken \/ (template[i] = None /\ conf[i] # None) =>
      "disk" \in cut[i] \/ (pc = "take" /\ job.image = i)

\* An instance whose disk no command is at work on lacks a whole disk only after a
\* restore that stopped in its copy, an up that was killed, or a copy from such an
\* image; its address only after one of those or of a patch; a filesystem of its
\* disk's size only after a resize that stopped after the file had grown.  An up
\* that fails, a restore that cannot remove the disk or save the instance, and a
\* commit are no excuse.  What it boots with is there unless the chmod or the
\* download of that was cut.
InstancesBootable ==
  \A n \in Insts : Exists(n) /\ ~(pc \in DiskSteps /\ job.inst = n) =>
    /\ inst[n].disk \in {None, Broken} => "disk" \in cut[n]
    /\ ~inst[n].own => "address" \in cut[n]
    /\ inst[n].fs # inst[n].size => "size" \in cut[n]
    /\ \A t \in Tools : tools[t] = "there" \/ "file" \in cut[t]

\* What cmd_restore says of restore_disk (lifecycle.rs): when it fails, the recorded
\* image still matches the disk, which is untouched.
FailedRestoreLeavesDisk ==
  [][(ClearDisk \/ CopyTemplate \/ PatchNetwork) /\ ~Creating /\ pc' = "idle" =>
       inst'[job.inst].disk = job.found]_vars
=============================================================================
