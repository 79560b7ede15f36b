-------------------------- MODULE InstanceRegistry --------------------------
(***************************************************************************)
(* The instances directory and the commands that create, start, stop,      *)
(* restore and destroy instances (src/src/config.rs, src/src/commands/     *)
(* lifecycle.rs, FirecrackerBackend in src/src/backend.rs).                *)
(*                                                                         *)
(* Several `coop` processes share the directory.  Allocation runs under a  *)
(* lock file; looking an instance up, booting it, recording its workspace  *)
(* and removing its directory do not.  A command may fail after any step,  *)
(* and `coop up` then removes the instance it created, or it may be killed *)
(* at any step and leave what it has done.                                 *)
(***************************************************************************)
EXTENDS Naturals, Sequences, FiniteSets

CONSTANTS
  Coop,         \* the `coop` commands that may run at the same time
  Projects,     \* project directories
  Names,        \* instance names
  Candidates,   \* per project: the names derived from its basename, in order
  Named,        \* names that `coop up --name` may ask for
  Verbs,        \* the commands in use
  MaxIndex,     \* InstanceIndex::MAX
  MaxBorn,      \* bound on instances created in one behaviour
  MaxFaults,    \* bound on failures and kills
  None

Indices == 0..MaxIndex
Ids == 1..MaxBorn

ASSUME RegistryAssumption ==
  /\ Candidates \in [Projects -> Seq(Names)]
  /\ Named \subseteq Names
  /\ Verbs \subseteq {"up", "start", "stop", "restore", "destroy"}
  /\ MaxIndex \in Nat /\ MaxBorn \in Nat /\ MaxFaults \in Nat
  /\ None \notin Coop \cup Projects \cup Names \cup Ids

VARIABLES
  \* the instances directory
  meta,     \* per name: index and identity in instance.json, None without one
  space,    \* per name: the project in workspace.json, None without one
  disk,     \* per name: the instance whose rootfs.ext4 is there, or None
  power,    \* per name: the instance whose VM firecracker.pid names, or None
  lock,     \* who holds instances/.lock
  \* the commands
  pc,       \* where each command is
  project,  \* the directory given to `coop up`
  held,     \* the Instance value each command works with
  doomed,   \* the files its `rm -rf` still has to unlink
  \* history
  born,     \* instances created so far
  faults

dirVars  == <<meta, space, disk, power>>
cmdVars  == <<project, held, doomed>>
vars == <<dirVars, lock, pc, cmdVars, born, faults>>

Instance == [name : Names, index : Indices, id : Ids]
NoInstance == [name |-> None, index |-> 0, id |-> None]
Files == {"instance.json", "workspace.json", "rootfs.ext4", "firecracker.pid"}
-----------------------------------------------------------------------------
TypeOK ==
  /\ meta \in [Names -> Instance \cup {NoInstance}]
  /\ space \in [Names -> Projects \cup {None}]
  /\ disk \in [Names -> Ids \cup {None}]
  /\ power \in [Names -> Ids \cup {None}]
  /\ lock \in Coop \cup {None}
  /\ pc \in [Coop -> {"idle", "lookup", "lock", "choose", "save", "boot", "provision",
                      "finish", "start", "halt", "stopvm", "scan", "remove", "swap",
                      "copy", "lineage"}]
  /\ project \in [Coop -> Projects \cup {None}]
  /\ held \in [Coop -> Instance \cup {NoInstance}]
  /\ doomed \in [Coop -> SUBSET Files]
  /\ born \in 0..MaxBorn
  /\ faults \in 0..MaxFaults

Init ==
  /\ meta = [n \in Names |-> NoInstance]
  /\ space = [n \in Names |-> None]
  /\ disk = [n \in Names |-> None]
  /\ power = [n \in Names |-> None]
  /\ lock = None
  /\ pc = [p \in Coop |-> "idle"]
  /\ project = [p \in Coop |-> None]
  /\ held = [p \in Coop |-> NoInstance]
  /\ doomed = [p \in Coop |-> {}]
  /\ born = 0
  /\ faults = 0

Fault == faults < MaxFaults /\ faults' = faults + 1
Goto(p, l) == pc' = [pc EXCEPT ![p] = l]
Listed == {n \in Names : meta[n] # NoInstance}

\* The files `rm -rf` finds in the directory of n.
FilesOf(n) ==
  (IF meta[n] # NoInstance THEN {"instance.json"} ELSE {})
  \cup (IF space[n] # None THEN {"workspace.json"} ELSE {})
  \cup (IF disk[n] # None THEN {"rootfs.ext4"} ELSE {})
  \cup (IF power[n] # None THEN {"firecracker.pid"} ELSE {})
-----------------------------------------------------------------------------
(* allocate_instance *)

Used == {meta[n].index : n \in Listed}

\* The index after the highest one, and the lowest free one when there is no
\* room above (or nothing to be above of).
FreeIndices == Indices \ Used
AboveAll == {i \in Indices : i > 0 /\ i - 1 \in Used /\ \A u \in Used : u < i}

\* Mutant of NextIndex: indices from one.
CountFromOne == {Cardinality(Used) + 1}

NextIndex ==
  IF AboveAll # {} THEN AboveAll
  ELSE {i \in FreeIndices : \A j \in FreeIndices : i <= j}

\* Mutant of Derived: the basename, taken or not.
DerivedFirst(d) == {Candidates[d][1]}

\* unique_instance_name: the first candidate no listed instance has.
Derived(d) ==
  {Candidates[d][k] : k \in {k \in 1..Len(Candidates[d]) :
      /\ Candidates[d][k] \notin Listed
      /\ \A j \in 1..(k-1) : Candidates[d][j] \in Listed}}

\* Mutant of AcquireLock: the lock is taken whoever holds it.
TakeLock(p) ==
  /\ pc[p] = "lock"
  /\ lock' = p
  /\ Goto(p, "choose")
  /\ UNCHANGED <<dirVars, cmdVars, born, faults>>

AcquireLock(p) ==
  /\ pc[p] = "lock"
  /\ lock = None
  /\ lock' = p
  /\ Goto(p, "choose")
  /\ UNCHANGED <<dirVars, cmdVars, born, faults>>

\* Mutant of Choose: the lock is dropped before instance.json is written.
ChooseAndUnlock(p) ==
  /\ pc[p] = "choose"
  /\ born < MaxBorn
  /\ \E n \in Derived(project[p]) \cup (Named \ Listed), i \in NextIndex :
       held' = [held EXCEPT ![p] = [name |-> n, index |-> i, id |-> born + 1]]
  /\ lock' = None
  /\ Goto(p, "save")
  /\ UNCHANGED <<dirVars, project, doomed, born, faults>>

\* The listing skips directories without a readable instance.json.
Choose(p) ==
  /\ pc[p] = "choose"
  /\ born < MaxBorn
  /\ \E n \in Derived(project[p]) \cup (Named \ Listed), i \in NextIndex :
       held' = [held EXCEPT ![p] = [name |-> n, index |-> i, id |-> born + 1]]
  /\ Goto(p, "save")
  /\ UNCHANGED <<dirVars, lock, project, doomed, born, faults>>

\* No index or no name is left, or the name asked for exists: the command
\* fails and drops the lock.
NoneLeft(p) ==
  /\ pc[p] = "choose"
  /\ \/ NextIndex = {}
     \/ Derived(project[p]) = {}
     \/ Named \cap Listed # {}
  /\ lock' = None
  /\ Goto(p, "idle")
  /\ UNCHANGED <<dirVars, cmdVars, born, faults>>

\* Mutant of SaveInstance: the lock stays held.
SaveAndKeepLock(p) ==
  /\ pc[p] = "save"
  /\ meta' = [meta EXCEPT ![held[p].name] = held[p]]
  /\ born' = held[p].id
  /\ Goto(p, "boot")
  /\ UNCHANGED <<space, disk, power, lock, cmdVars, faults>>

\* save: the directory is created if missing, instance.json renamed into it.
SaveInstance(p) ==
  /\ pc[p] = "save"
  /\ meta' = [meta EXCEPT ![held[p].name] = held[p]]
  /\ lock' = None
  /\ born' = held[p].id
  /\ Goto(p, "boot")
  /\ UNCHANGED <<space, disk, power, cmdVars, faults>>
-----------------------------------------------------------------------------
(* coop up, coop start *)

\* Commands that may still create an instance count against MaxBorn.
Creating == {p \in Coop : pc[p] \in {"lookup", "lock", "choose", "save"}}

Up(p) ==
  /\ pc[p] = "idle"
  /\ "up" \in Verbs
  /\ born + Cardinality(Creating) < MaxBorn
  /\ \E d \in Projects : project' = [project EXCEPT ![p] = d]
  /\ Goto(p, "lookup")
  /\ UNCHANGED <<dirVars, lock, held, doomed, born, faults>>

Matching(d) == {n \in Listed : space[n] = d}

\* Mutant of Lookup: an instance is created without looking for one.
LookupNothing(p) ==
  /\ pc[p] = "lookup"
  /\ Goto(p, "lock")
  /\ UNCHANGED <<dirVars, lock, cmdVars, born, faults>>

\* find_workspace_instance: reconnect or restart the one there is, create one
\* when there is none, refuse to choose among several.
Lookup(p) ==
  /\ pc[p] = "lookup"
  /\ \/ Matching(project[p]) = {} /\ Goto(p, "lock") /\ UNCHANGED held
     \/ \E n \in Matching(project[p]) :
          /\ Matching(project[p]) = {n}
          /\ held' = [held EXCEPT ![p] = meta[n]]
          /\ Goto(p, IF power[n] = None THEN "start" ELSE "idle")
     \/ /\ \E m, n \in Matching(project[p]) : m # n
        /\ Goto(p, "idle") /\ UNCHANGED held
  /\ UNCHANGED <<dirVars, lock, project, doomed, born, faults>>

PowerOn(p) == power' = [power EXCEPT ![held[p].name] = held[p].id]

\* create_and_start copies the image into the directory, which must be there,
\* and boots; a stale PID file is replaced.
Boot(p) ==
  /\ pc[p] = "boot"
  /\ FilesOf(held[p].name) # {}
  /\ disk' = [disk EXCEPT ![held[p].name] = held[p].id]
  /\ PowerOn(p)
  /\ Goto(p, "provision")
  /\ UNCHANGED <<meta, space, lock, cmdVars, born, faults>>

\* Bootstrap and transfer of the project into the VM, then workspace.json,
\* whose directory is created again if it is gone.
Provision(p) ==
  /\ pc[p] = "provision"
  /\ power[held[p].name] # None
  /\ space' = [space EXCEPT ![held[p].name] = project[p]]
  /\ Goto(p, "finish")
  /\ UNCHANGED <<meta, disk, power, lock, cmdVars, born, faults>>

\* Mounts and the post-start hook, in the VM.
Finish(p) ==
  /\ pc[p] = "finish"
  /\ power[held[p].name] # None
  /\ Goto(p, "idle")
  /\ UNCHANGED <<dirVars, lock, cmdVars, born, faults>>

\* The start of a new instance fails, or is interrupted: allocate_and_start
\* destroys the instance.
CleanUp(p) ==
  /\ Goto(p, "stopvm")
  /\ UNCHANGED <<dirVars, lock, cmdVars, born>>

UpFails(p) ==
  /\ pc[p] \in {"boot", "provision", "finish"}
  /\ Fault
  /\ CleanUp(p)

\* The directory or the VM it needs is gone: not a fault of its own.
UpUndermined(p) ==
  /\ \/ pc[p] = "boot" /\ FilesOf(held[p].name) = {}
     \/ pc[p] \in {"provision", "finish"} /\ power[held[p].name] = None
  /\ CleanUp(p)
  /\ UNCHANGED faults

\* resolve_instance and find_stopped_instance read the listed metadata.
Resolve(p, verb, l) ==
  /\ pc[p] = "idle"
  /\ verb \in Verbs
  /\ Goto(p, l)
  /\ project' = [project EXCEPT ![p] = None]
  /\ UNCHANGED <<dirVars, lock, doomed, born, faults>>

Start(p) ==
  /\ Resolve(p, "start", "start")
  /\ \E n \in Listed : power[n] = None /\ held' = [held EXCEPT ![p] = meta[n]]

\* start_existing boots whatever disk is there, or fails without one.
StartExisting(p) ==
  /\ pc[p] = "start"
  /\ IF disk[held[p].name] # None THEN PowerOn(p) ELSE UNCHANGED power
  /\ Goto(p, "idle")
  /\ UNCHANGED <<meta, space, disk, lock, cmdVars, born, faults>>
-----------------------------------------------------------------------------
(* coop stop, coop destroy, coop restore *)

Stop(p) ==
  /\ Resolve(p, "stop", "halt")
  /\ \E n \in Listed : held' = [held EXCEPT ![p] = meta[n]]

\* The VM whose PID file is in the directory stops, if there is one.
Halt(p) ==
  /\ pc[p] = "halt"
  /\ power' = [power EXCEPT ![held[p].name] = None]
  /\ Goto(p, "idle")
  /\ UNCHANGED <<meta, space, disk, lock, cmdVars, born, faults>>

Destroy(p) ==
  /\ Resolve(p, "destroy", "stopvm")
  /\ \E n \in Listed : held' = [held EXCEPT ![p] = meta[n]]

StopVm(p) ==
  /\ pc[p] = "stopvm"
  /\ power' = [power EXCEPT ![held[p].name] = None]
  /\ Goto(p, "scan")
  /\ UNCHANGED <<meta, space, disk, lock, cmdVars, born, faults>>

\* `rm -rf` reads the directory, then unlinks what it read, by name.
ScanDir(p) ==
  /\ pc[p] = "scan"
  /\ doomed' = [doomed EXCEPT ![p] = FilesOf(held[p].name)]
  /\ Goto(p, "remove")
  /\ UNCHANGED <<dirVars, lock, project, held, born, faults>>

Unlink(p, f) ==
  LET n == held[p].name IN
  /\ meta'  = IF f = "instance.json" THEN [meta EXCEPT ![n] = NoInstance] ELSE meta
  /\ space' = IF f = "workspace.json" THEN [space EXCEPT ![n] = None] ELSE space
  /\ disk'  = IF f = "rootfs.ext4" THEN [disk EXCEPT ![n] = None] ELSE disk
  /\ power' = IF f = "firecracker.pid" THEN [power EXCEPT ![n] = None] ELSE power

RemoveFile(p) ==
  /\ pc[p] = "remove"
  /\ \E f \in doomed[p] :
       /\ Unlink(p, f)
       /\ doomed' = [doomed EXCEPT ![p] = @ \ {f}]
  /\ UNCHANGED <<lock, pc, project, held, born, faults>>

\* The directory itself goes, or stays when something new is in it.
Removed(p) ==
  /\ pc[p] = "remove"
  /\ doomed[p] = {}
  /\ Goto(p, "idle")
  /\ UNCHANGED <<dirVars, lock, cmdVars, born, faults>>

\* as_stopped; then the disk is removed and the image copied in its place.
Restore(p) ==
  /\ Resolve(p, "restore", "swap")
  /\ \E n \in Listed : power[n] = None /\ held' = [held EXCEPT ![p] = meta[n]]

RemoveDisk(p) ==
  /\ pc[p] = "swap"
  /\ disk' = [disk EXCEPT ![held[p].name] = None]
  /\ Goto(p, "copy")
  /\ UNCHANGED <<meta, space, power, lock, cmdVars, born, faults>>

\* The copy fails without the directory.
CopyDisk(p) ==
  /\ pc[p] = "copy"
  /\ IF FilesOf(held[p].name) # {}
       THEN disk' = [disk EXCEPT ![held[p].name] = held[p].id] /\ Goto(p, "lineage")
       ELSE UNCHANGED disk /\ Goto(p, "idle")
  /\ UNCHANGED <<meta, space, power, lock, cmdVars, born, faults>>

\* set_image saves the Instance value the command started with; the directory
\* is created again if it is gone.
SetImage(p) ==
  /\ pc[p] = "lineage"
  /\ meta' = [meta EXCEPT ![held[p].name] = held[p]]
  /\ Goto(p, "idle")
  /\ UNCHANGED <<space, disk, power, lock, cmdVars, born, faults>>
-----------------------------------------------------------------------------
\* A command that does not clean up fails, or any command is killed.
Abort(p) ==
  /\ pc[p] # "idle"
  /\ Fault
  /\ Goto(p, "idle")
  /\ doomed' = [doomed EXCEPT ![p] = {}]
  /\ lock' = IF lock = p THEN None ELSE lock
  /\ UNCHANGED <<dirVars, project, held, born>>

\* A VM ends by itself; the next probe drops its PID file.
VmEnds ==
  /\ Fault
  /\ \E n \in Names : power[n] # None /\ power' = [power EXCEPT ![n] = None]
  /\ UNCHANGED <<meta, space, disk, lock, pc, cmdVars, born>>

Begin(p) == Up(p) \/ Start(p) \/ Stop(p) \/ Destroy(p) \/ Restore(p)

Work(p) ==
  \/ Lookup(p) \/ AcquireLock(p) \/ Choose(p) \/ NoneLeft(p) \/ SaveInstance(p)
  \/ Boot(p) \/ Provision(p) \/ Finish(p) \/ UpUndermined(p)
  \/ StartExisting(p) \/ Halt(p) \/ StopVm(p) \/ ScanDir(p) \/ RemoveFile(p)
  \/ Removed(p) \/ RemoveDisk(p) \/ CopyDisk(p) \/ SetImage(p)

Next ==
  \/ \E p \in Coop : Begin(p) \/ Work(p) \/ UpFails(p) \/ Abort(p)
  \/ VmEnds

Spec == Init /\ [][Next]_vars

\* A command goes on, and the kernel serves the waiters of a lock file.
Fairness == \A p \in Coop : WF_vars(Work(p)) /\ SF_vars(AcquireLock(p))

FairSpec == Spec /\ Fairness
-----------------------------------------------------------------------------
(* Properties *)

\* Two instances never share an index, and with it an IP address, a MAC
\* address and a tap device, whatever allocations, failed or interrupted
\* starts and removals went on at the same time.
NoSharedIndex ==
  \A m, n \in Listed : m # n => meta[m].index # meta[n].index

\* Allocation implements the table of slots: every instance.json that appears
\* claims a free index for a new instance, and only its removal frees it.
Owner(i) == {n \in Listed : meta[n].index = i}
SlotOwner ==
  [i \in Indices |->
    IF Owner(i) = {} THEN None ELSE meta[CHOOSE n \in Owner(i) : TRUE].id]
Slots == INSTANCE SlotTable WITH owner <- SlotOwner, used <- 1..born
SlotsKept == Slots!Spec

\* A project directory has at most one instance ("ensure DIR has a single
\* matching environment").
OneEnvironmentPerProject ==
  \A d \in Projects : \A m, n \in Matching(d) : m = n

\* The metadata of an instance disappears only through a command that works on
\* that very instance ("Start, stop, and destroy instances without affecting
\* others").
LeavesOthers ==
  \A n \in Listed : meta'[n] # meta[n] =>
    \E p \in Coop : pc[p] = "remove" /\ held[p] = meta[n]
OthersUnaffected == [][LeavesOthers]_vars

\* Every command ends, whoever holds the lock and whatever was removed under
\* it.
CommandsEnd == \A p \in Coop : pc[p] # "idle" ~> pc[p] = "idle"
-----------------------------------------------------------------------------
(* Inductive invariant (proved in InstanceRegistryProofs, without restore) *)

\* Where a command is tells what it has resolved.
HoldsInstance ==
  \A p \in Coop : pc[p] \notin {"idle", "lookup", "lock", "choose"} =>
    held[p] \in Instance
KnowsProject ==
  \A p \in Coop : pc[p] \in {"lookup", "lock", "choose"} => project[p] \in Projects

\* From the listing of the directory to the rename of instance.json the lock is
\* held, and what was chosen stays free.
LockHeld == \A p \in Coop : pc[p] \in {"choose", "save"} => lock = p
ChosenIsFree ==
  \A p \in Coop : pc[p] = "save" =>
    held[p].index \notin Used /\ held[p].name \notin Listed /\ held[p].id = born + 1

OnlyBorn == \A n \in Listed : meta[n].id \in 1..born

\* Without `coop restore` nobody else writes instance.json.
NobodyRestores ==
  \A p \in Coop : pc[p] \notin {"swap", "copy", "lineage"}

SlotInv ==
  /\ TypeOK
  /\ HoldsInstance /\ KnowsProject
  /\ LockHeld /\ ChosenIsFree /\ OnlyBorn
  /\ NobodyRestores
  /\ NoSharedIndex
=============================================================================
