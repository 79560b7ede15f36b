----------------------- MODULE InstanceRegistryProofs -----------------------
(***************************************************************************)
(* InstanceRegistry, proved for every set of commands, projects and names, *)
(* every size of the index space and any number of faults: the types for   *)
(* all commands, and without `coop restore` the exclusive ownership of     *)
(* indices and the refinement of SlotTable.                                *)
(***************************************************************************)
EXTENDS InstanceRegistry, TLAPS

\* The index of a new instance is one of the table and is free.
LEMMA NextIndexFree == NextIndex \subseteq Indices \ Used
  BY DEF NextIndex, AboveAll, FreeIndices, Indices

\* A derived name is a name, and no listed instance has it.
LEMMA DerivedFree ==
  ASSUME NEW d \in Projects
  PROVE  Derived(d) \subseteq Names \ Listed
<1>1. Candidates[d] \in Seq(Names)
  BY RegistryAssumption
<1>. QED
  BY <1>1 DEF Derived

\* What `rm -rf` finds are files of an instance directory.
LEMMA FilesOfType == ASSUME NEW n PROVE FilesOf(n) \subseteq Files
  BY DEF FilesOf, Files

\* NoInstance is told apart from every instance by its name.
LEMMA NoInstanceApart == NoInstance \notin Instance /\ None \notin Ids
  BY RegistryAssumption DEF NoInstance, Instance
-----------------------------------------------------------------------------
\* The type invariant with what a command knows at each step.
TypeInv == TypeOK /\ HoldsInstance /\ KnowsProject

\* Initially everything has its type.
LEMMA TypeInit == Init => TypeInv
  BY RegistryAssumption DEF Init, TypeInv, TypeOK, HoldsInstance, KnowsProject

\* Commands that create an instance keep the types.
LEMMA AllocationTypes ==
  ASSUME TypeInv, NEW p \in Coop,
         AcquireLock(p) \/ Choose(p) \/ NoneLeft(p) \/ SaveInstance(p)
  PROVE  TypeInv'
<1> USE DEF TypeInv, TypeOK, HoldsInstance, KnowsProject, Goto, dirVars, cmdVars
<1>1. CASE AcquireLock(p)
  BY <1>1 DEF AcquireLock
<1>2. CASE Choose(p)
  <2>1. PICK n \in Derived(project[p]) \cup (Named \ Listed), i \in NextIndex :
          held' = [held EXCEPT ![p] = [name |-> n, index |-> i, id |-> born + 1]]
    BY <1>2 DEF Choose
  <2>2. n \in Names
    BY <1>2, DerivedFree, RegistryAssumption DEF Choose
  <2>3. i \in Indices
    BY NextIndexFree
  <2>4. born + 1 \in Ids
    BY <1>2, RegistryAssumption DEF Choose, Ids
  <2>5. [name |-> n, index |-> i, id |-> born + 1] \in Instance
    BY <2>2, <2>3, <2>4 DEF Instance
  <2>. QED
    BY <1>2, <2>1, <2>5 DEF Choose
<1>3. CASE NoneLeft(p)
  BY <1>3 DEF NoneLeft
<1>4. CASE SaveInstance(p)
  <2>1. held[p] \in Instance
    BY <1>4 DEF SaveInstance
  <2>2. held[p].id \in 0..MaxBorn
    BY <2>1, RegistryAssumption DEF Instance, Ids
  <2>. QED
    BY <1>4, <2>1, <2>2 DEF SaveInstance
<1>. QED
  BY <1>1, <1>2, <1>3, <1>4

\* `coop up` and `coop start` keep the types.
LEMMA StartTypes ==
  ASSUME TypeInv, NEW p \in Coop,
         \/ Up(p) \/ Lookup(p) \/ Boot(p) \/ Provision(p) \/ Finish(p)
         \/ UpFails(p) \/ UpUndermined(p) \/ Start(p) \/ StartExisting(p)
  PROVE  TypeInv'
<1> USE DEF TypeInv, TypeOK, HoldsInstance, KnowsProject, Goto, dirVars, cmdVars
<1>0. pc[p] \in {"boot", "provision", "finish", "start"} =>
        held[p].name \in Names /\ held[p].id \in Ids
  BY DEF Instance
<1>1. CASE Up(p)
  BY <1>1 DEF Up
<1>2. CASE Lookup(p)
  <2>1. \A n \in Matching(project[p]) : meta[n] \in Instance
    BY DEF Matching, Listed
  <2>. QED
    BY <1>2, <2>1 DEF Lookup
<1>3. CASE Boot(p)
  BY <1>0, <1>3 DEF Boot, PowerOn
<1>4. CASE Provision(p)
  BY <1>0, <1>4 DEF Provision
<1>5. CASE Finish(p)
  BY <1>5 DEF Finish
<1>6. CASE UpFails(p)
  BY <1>6, RegistryAssumption DEF UpFails, CleanUp, Fault
<1>7. CASE UpUndermined(p)
  BY <1>7 DEF UpUndermined, CleanUp
<1>8. CASE Start(p)
  BY <1>8 DEF Start, Resolve, Listed
<1>9. CASE StartExisting(p)
  BY <1>0, <1>9 DEF StartExisting, PowerOn
<1>. QED
  BY <1>1, <1>2, <1>3, <1>4, <1>5, <1>6, <1>7, <1>8, <1>9

\* `coop stop`, `coop destroy` and `coop restore` keep the types.
LEMMA RemovalTypes ==
  ASSUME TypeInv, NEW p \in Coop,
         \/ Stop(p) \/ Halt(p) \/ Destroy(p) \/ StopVm(p) \/ ScanDir(p)
         \/ RemoveFile(p) \/ Removed(p)
         \/ Restore(p) \/ RemoveDisk(p) \/ CopyDisk(p) \/ SetImage(p)
  PROVE  TypeInv'
<1> USE DEF TypeInv, TypeOK, HoldsInstance, KnowsProject, Goto, dirVars, cmdVars
<1>0. pc[p] \notin {"idle", "lookup", "lock", "choose"} =>
        held[p].name \in Names /\ held[p].id \in Ids
  BY DEF Instance
<1>1. CASE Stop(p) \/ Destroy(p) \/ Restore(p)
  BY <1>1 DEF Stop, Destroy, Restore, Resolve, Listed
<1>2. CASE Halt(p) \/ StopVm(p)
  BY <1>0, <1>2 DEF Halt, StopVm
<1>3. CASE ScanDir(p)
  BY <1>3, FilesOfType DEF ScanDir
<1>4. CASE RemoveFile(p)
  <2>1. PICK f \in doomed[p] : Unlink(p, f) /\ doomed' = [doomed EXCEPT ![p] = @ \ {f}]
    BY <1>4 DEF RemoveFile
  <2>2. meta' \in [Names -> Instance \cup {NoInstance}]
    BY <2>1 DEF Unlink
  <2>3. /\ space' \in [Names -> Projects \cup {None}]
        /\ disk' \in [Names -> Ids \cup {None}]
        /\ power' \in [Names -> Ids \cup {None}]
    BY <2>1 DEF Unlink
  <2>4. doomed' \in [Coop -> SUBSET Files]
    BY <2>1
  <2>. QED
    BY <1>4, <2>2, <2>3, <2>4 DEF RemoveFile
<1>5. CASE Removed(p)
  BY <1>5 DEF Removed
<1>6. CASE RemoveDisk(p) \/ CopyDisk(p)
  BY <1>0, <1>6 DEF RemoveDisk, CopyDisk
<1>7. CASE SetImage(p)
  BY <1>0, <1>7 DEF SetImage
<1>. QED
  BY <1>1, <1>2, <1>3, <1>4, <1>5, <1>6, <1>7

\* Every step keeps the types.
LEMMA TypeStep == TypeInv /\ [Next]_vars => TypeInv'
<1> SUFFICES ASSUME TypeInv, [Next]_vars PROVE TypeInv'
  OBVIOUS
<1>1. ASSUME NEW p \in Coop, Begin(p) \/ Work(p) \/ UpFails(p) PROVE TypeInv'
  BY <1>1, AllocationTypes, StartTypes, RemovalTypes DEF Begin, Work
<1>2. ASSUME NEW p \in Coop, Abort(p) PROVE TypeInv'
  BY <1>2, RegistryAssumption
  DEF Abort, Fault, Goto, dirVars, TypeInv, TypeOK, HoldsInstance, KnowsProject
<1>3. CASE VmEnds
  BY <1>3, RegistryAssumption
  DEF VmEnds, Fault, cmdVars, TypeInv, TypeOK, HoldsInstance, KnowsProject
<1>4. CASE UNCHANGED vars
  BY <1>4 DEF vars, dirVars, cmdVars, TypeInv, TypeOK, HoldsInstance, KnowsProject
<1>. QED
  BY <1>1, <1>2, <1>3, <1>4 DEF Next

\* Every variable keeps its type, whatever the commands do.
THEOREM TypeCorrect == Spec => []TypeOK
<1>1. TypeInv => TypeOK
  BY DEF TypeInv
<1>. QED
  BY <1>1, TypeInit, TypeStep, PTL DEF Spec
-----------------------------------------------------------------------------
\* What the allocation lock protects.
LockInv == LockHeld /\ ChosenIsFree /\ OnlyBorn /\ NoSharedIndex

\* Without `coop restore` no command ever replaces a disk.
LEMMA RestoreNever ==
  ASSUME "restore" \notin Verbs
  PROVE  TypeInv /\ NobodyRestores /\ [Next]_vars => NobodyRestores'
<1> SUFFICES ASSUME TypeInv, NobodyRestores, [Next]_vars PROVE NobodyRestores'
  OBVIOUS
<1> USE DEF NobodyRestores, Goto, TypeInv, TypeOK
<1>1. ASSUME NEW p \in Coop, Begin(p) PROVE NobodyRestores'
  BY <1>1 DEF Begin, Up, Start, Stop, Destroy, Restore, Resolve
<1>2. ASSUME NEW p \in Coop, Work(p) PROVE NobodyRestores'
  BY <1>2 DEF Work, Lookup, AcquireLock, Choose, NoneLeft, SaveInstance, Boot,
     Provision, Finish, UpUndermined, CleanUp, StartExisting, Halt, StopVm, ScanDir,
     RemoveFile, Removed, RemoveDisk, CopyDisk, SetImage
<1>3. ASSUME NEW p \in Coop, UpFails(p) \/ Abort(p) PROVE NobodyRestores'
  BY <1>3 DEF UpFails, CleanUp, Abort
<1>4. CASE VmEnds \/ UNCHANGED vars
  BY <1>4 DEF VmEnds, vars
<1>. QED
  BY <1>1, <1>2, <1>3, <1>4 DEF Next

\* A step that leaves instance.json and the number of instances alone, and
\* gives nobody the lock's work, keeps what the lock protects.
LEMMA LockInvKept ==
  ASSUME LockInv, UNCHANGED <<meta, born>>,
         \A p \in Coop : pc'[p] \in {"choose", "save"} =>
           pc'[p] = pc[p] /\ lock' = lock /\ held'[p] = held[p]
  PROVE  LockInv'
  BY DEF LockInv, LockHeld, ChosenIsFree, OnlyBorn, NoSharedIndex, Listed, Used

\* Taking the lock, choosing and giving up.
LEMMA ChoosingKeepsLockInv ==
  ASSUME TypeInv, LockInv, NEW p \in Coop,
         AcquireLock(p) \/ Choose(p) \/ NoneLeft(p)
  PROVE  LockInv'
<1> USE DEF LockInv, LockHeld, Goto, dirVars, cmdVars
<1>1. CASE AcquireLock(p)
  <2>1. \A q \in Coop : pc[q] \notin {"choose", "save"}
    BY <1>1, RegistryAssumption DEF AcquireLock
  <2>. QED
    BY <1>1, <2>1 DEF AcquireLock, ChosenIsFree, OnlyBorn, NoSharedIndex, Listed,
       Used, TypeInv, TypeOK
<1>2. CASE Choose(p)
  <2>1. PICK n \in Derived(project[p]) \cup (Named \ Listed), i \in NextIndex :
          held' = [held EXCEPT ![p] = [name |-> n, index |-> i, id |-> born + 1]]
    BY <1>2 DEF Choose
  <2>2. n \notin Listed /\ i \notin Used
    BY <1>2, DerivedFree, NextIndexFree DEF Choose, TypeInv, KnowsProject
  <2>3. held'[p] = [name |-> n, index |-> i, id |-> born + 1]
    BY <2>1 DEF TypeInv, TypeOK
  <2>4. \A q \in Coop : q # p => pc'[q] # "save"
    BY <1>2 DEF Choose, TypeInv, TypeOK
  <2>5. UNCHANGED <<meta, born, lock>>
    BY <1>2 DEF Choose
  <2>6. ChosenIsFree'
    BY <2>2, <2>3, <2>4, <2>5 DEF ChosenIsFree, Listed, Used
  <2>7. LockHeld'
    BY <1>2, <2>5 DEF Choose, TypeInv, TypeOK
  <2>. QED
    BY <2>5, <2>6, <2>7 DEF OnlyBorn, NoSharedIndex, Listed
<1>3. CASE NoneLeft(p)
  <2>1. \A q \in Coop : pc'[q] \notin {"choose", "save"}
    BY <1>3 DEF NoneLeft, TypeInv, TypeOK
  <2>. QED
    BY <1>3, <2>1, LockInvKept DEF NoneLeft
<1>. QED
  BY <1>1, <1>2, <1>3

\* Writing instance.json claims what was chosen under the lock.
LEMMA SavingKeepsLockInv ==
  ASSUME TypeInv, LockInv, NEW p \in Coop, SaveInstance(p)
  PROVE  LockInv'
<1>1. /\ held[p] \in Instance /\ held[p].name \in Names
      /\ held[p].index \notin Used /\ held[p].name \notin Listed
      /\ held[p].id = born + 1
  BY DEF SaveInstance, TypeInv, HoldsInstance, LockInv, ChosenIsFree, Instance
<1>2. \A q \in Coop : pc'[q] \notin {"choose", "save"}
  BY DEF SaveInstance, Goto, LockInv, LockHeld, TypeInv, TypeOK
<1>3. meta' = [meta EXCEPT ![held[p].name] = held[p]] /\ born' = born + 1
  BY <1>1 DEF SaveInstance
<1>4. Listed' = Listed \cup {held[p].name}
  BY <1>1, <1>3, NoInstanceApart DEF Listed, TypeInv, TypeOK
<1>5. meta'[held[p].name] = held[p] /\ \A n \in Listed : meta'[n] = meta[n]
  BY <1>1, <1>3 DEF TypeInv, TypeOK, Listed
<1>6. LockHeld' /\ ChosenIsFree'
  BY <1>2 DEF LockHeld, ChosenIsFree
<1>7. OnlyBorn'
  <2>1. born \in Nat
    BY RegistryAssumption DEF TypeInv, TypeOK
  <2>. QED
    BY <1>1, <1>3, <1>4, <1>5, <2>1 DEF LockInv, OnlyBorn
<1>8. NoSharedIndex'
  BY <1>1, <1>4, <1>5 DEF LockInv, NoSharedIndex, Used
<1>. QED
  BY <1>6, <1>7, <1>8 DEF LockInv

\* Removing files of an instance directory only makes room.
LEMMA RemovingKeepsLockInv ==
  ASSUME TypeInv, LockInv, NEW p \in Coop, RemoveFile(p)
  PROVE  LockInv'
<1>1. PICK f \in doomed[p] : Unlink(p, f)
  BY DEF RemoveFile
<1>2. held[p].name \in Names
  BY DEF RemoveFile, TypeInv, HoldsInstance, Instance
<1>3. Listed' \subseteq Listed /\ \A n \in Listed' : meta'[n] = meta[n]
  BY <1>1, <1>2 DEF Unlink, Listed, TypeInv, TypeOK
<1>4. Used' \subseteq Used
  BY <1>3 DEF Used
<1>5. UNCHANGED <<born, lock, pc, held>>
  BY DEF RemoveFile
<1>. QED
  BY <1>3, <1>4, <1>5 DEF LockInv, LockHeld, ChosenIsFree, OnlyBorn, NoSharedIndex

\* Every step keeps what the lock protects.
LEMMA LockStep == TypeInv /\ LockInv /\ NobodyRestores /\ [Next]_vars => LockInv'
<1> SUFFICES ASSUME TypeInv, LockInv, NobodyRestores, [Next]_vars PROVE LockInv'
  OBVIOUS
<1>1. ASSUME NEW p \in Coop, Begin(p) PROVE LockInv'
  BY <1>1, LockInvKept
  DEF Begin, Up, Start, Stop, Destroy, Restore, Resolve, Goto, dirVars, cmdVars,
      TypeInv, TypeOK
<1>2. ASSUME NEW p \in Coop, Lookup(p) \/ Boot(p) \/ Provision(p) \/ Finish(p)
             \/ UpUndermined(p) \/ UpFails(p) \/ StartExisting(p)
      PROVE  LockInv'
  BY <1>2, LockInvKept
  DEF Lookup, Boot, Provision, Finish, UpUndermined, UpFails, CleanUp, StartExisting,
      Goto, dirVars, cmdVars, TypeInv, TypeOK
<1>3. ASSUME NEW p \in Coop, Halt(p) \/ StopVm(p) \/ ScanDir(p) \/ Removed(p)
      PROVE  LockInv'
  BY <1>3, LockInvKept
  DEF Halt, StopVm, ScanDir, Removed, Goto, dirVars, cmdVars, TypeInv, TypeOK
<1>4. ASSUME NEW p \in Coop, RemoveDisk(p) \/ CopyDisk(p) \/ SetImage(p)
      PROVE  LockInv'
  BY <1>4 DEF NobodyRestores, RemoveDisk, CopyDisk, SetImage
<1>5. ASSUME NEW p \in Coop, Abort(p) PROVE LockInv'
  <2>1. \A q \in Coop : pc'[q] \in {"choose", "save"} => q # p /\ pc'[q] = pc[q]
    BY <1>5 DEF Abort, Goto, TypeInv, TypeOK
  <2>2. \A q \in Coop : pc'[q] \in {"choose", "save"} => lock' = lock
    BY <1>5, <2>1 DEF Abort, LockInv, LockHeld
  <2>. QED
    BY <1>5, <2>1, <2>2, LockInvKept DEF Abort, dirVars
<1>6. CASE VmEnds \/ UNCHANGED vars
  BY <1>6, LockInvKept DEF VmEnds, vars, dirVars, cmdVars
<1>. QED
  BY <1>1, <1>2, <1>3, <1>4, <1>5, <1>6, ChoosingKeepsLockInv, SavingKeepsLockInv,
     RemovingKeepsLockInv
  DEF Next, Work

\* Without `coop restore`, the invariant of the allocation lock holds in every
\* reachable state.
THEOREM SlotInvariant == ASSUME "restore" \notin Verbs PROVE Spec => []SlotInv
<1>1. Init => TypeInv /\ LockInv /\ NobodyRestores
  BY TypeInit
  DEF Init, LockInv, LockHeld, ChosenIsFree, OnlyBorn, NoSharedIndex, Listed,
      NobodyRestores
<1>2. TypeInv /\ LockInv /\ NobodyRestores /\ [Next]_vars
        => (TypeInv /\ LockInv /\ NobodyRestores)'
  BY TypeStep, LockStep, RestoreNever
<1>3. TypeInv /\ LockInv /\ NobodyRestores => SlotInv
  BY DEF SlotInv, TypeInv, LockInv
<1>. QED
  BY <1>1, <1>2, <1>3, PTL DEF Spec

\* Two instances never share an index, and with it their address on the bridge.
THEOREM IndexNeverShared ==
  ASSUME "restore" \notin Verbs PROVE Spec => []NoSharedIndex
<1>1. SlotInv => NoSharedIndex
  BY DEF SlotInv
<1>. QED
  BY <1>1, SlotInvariant, PTL
-----------------------------------------------------------------------------
(* Allocation implements SlotTable *)

\* The slot of a listed instance belongs to it, the others to nobody.
LEMMA SlotOwnerValue ==
  ASSUME TypeInv, NoSharedIndex
  PROVE  /\ \A n \in Listed : /\ meta[n].index \in Indices /\ meta[n].id \in Ids
                             /\ SlotOwner[meta[n].index] = meta[n].id
         /\ \A i \in Indices : i \notin Used => SlotOwner[i] = None
<1>1. ASSUME NEW n \in Listed
      PROVE  /\ meta[n].index \in Indices /\ meta[n].id \in Ids
             /\ SlotOwner[meta[n].index] = meta[n].id
  <2>1. meta[n] \in Instance
    BY DEF TypeInv, TypeOK, Listed
  <2>2. meta[n].index \in Indices /\ meta[n].id \in Ids
    BY <2>1 DEF Instance
  <2>3. Owner(meta[n].index) = {n}
    BY DEF Owner, NoSharedIndex
  <2>4. (CHOOSE m \in Owner(meta[n].index) : TRUE) = n
    BY <2>3
  <2>. QED
    BY <2>2, <2>3, <2>4 DEF SlotOwner
<1>2. ASSUME NEW i \in Indices, i \notin Used PROVE SlotOwner[i] = None
  BY <1>2 DEF SlotOwner, Owner, Used
<1>. QED
  BY <1>1, <1>2

\* The steps that leave the table as it is.
LEMMA TableKept ==
  ASSUME NobodyRestores, [Next]_vars,
         \A p \in Coop : ~SaveInstance(p) /\ ~RemoveFile(p)
  PROVE  UNCHANGED <<meta, born>>
<1>1. ASSUME NEW p \in Coop, Begin(p) PROVE UNCHANGED <<meta, born>>
  BY <1>1 DEF Begin, Up, Start, Stop, Destroy, Restore, Resolve, dirVars
<1>2. ASSUME NEW p \in Coop, Work(p) PROVE UNCHANGED <<meta, born>>
  BY <1>2 DEF Work, Lookup, AcquireLock, Choose, NoneLeft, Boot, Provision, Finish,
     UpUndermined, CleanUp, StartExisting, Halt, StopVm, ScanDir, Removed, RemoveDisk,
     CopyDisk, SetImage, NobodyRestores, dirVars
<1>3. ASSUME NEW p \in Coop, UpFails(p) \/ Abort(p) PROVE UNCHANGED <<meta, born>>
  BY <1>3 DEF UpFails, CleanUp, Abort, dirVars
<1>4. CASE VmEnds \/ UNCHANGED vars
  BY <1>4 DEF VmEnds, vars, dirVars
<1>. QED
  BY <1>1, <1>2, <1>3, <1>4 DEF Next

\* An unchanged directory is an unchanged table.
LEMMA TableStutters ==
  ASSUME UNCHANGED <<meta, born>>
  PROVE  UNCHANGED Slots!vars
  BY DEF Slots!vars, SlotOwner, Owner, Listed

\* Writing instance.json claims a slot.
LEMMA SavingClaims ==
  ASSUME TypeInv, LockInv, TypeInv', LockInv', NEW p \in Coop, SaveInstance(p)
  PROVE  Slots!Next
<1>0. PICK i \in Indices : i = held[p].index
  BY DEF SaveInstance, TypeInv, HoldsInstance, Instance
<1>1. /\ held[p] \in Instance /\ held[p].name \in Names
      /\ i \notin Used /\ held[p].name \notin Listed
      /\ held[p].id = born + 1 /\ held[p].id \in Ids
  BY <1>0 DEF SaveInstance, TypeInv, HoldsInstance, LockInv, ChosenIsFree, Instance
<1>2. meta' = [meta EXCEPT ![held[p].name] = held[p]] /\ born' = born + 1
  BY <1>1 DEF SaveInstance
<1>3. Listed' = Listed \cup {held[p].name}
  BY <1>1, <1>2, NoInstanceApart DEF Listed, TypeInv, TypeOK
<1>4. meta'[held[p].name] = held[p] /\ \A n \in Listed : meta'[n] = meta[n]
  BY <1>1, <1>2 DEF TypeInv, TypeOK, Listed
<1>5. SlotOwner[i] = None
  BY <1>1, SlotOwnerValue DEF LockInv
<1>6. born + 1 \notin 1..born /\ 1..(born + 1) = (1..born) \cup {born + 1}
  BY RegistryAssumption DEF TypeInv, TypeOK
<1>7. Owner(i)' = {held[p].name}
  <2>1. \A n \in Listed : meta[n].index # i
    BY <1>1 DEF Used
  <2>. QED
    BY <1>0, <1>1, <1>3, <1>4, <2>1 DEF Owner
<1>8. (CHOOSE n \in Owner(i)' : TRUE) = held[p].name
  BY <1>7
<1>9. ASSUME NEW j \in Indices, j # i
      PROVE  /\ Owner(j)' = Owner(j)
             /\ \A n \in Owner(j) : meta'[n] = meta[n]
  BY <1>0, <1>1, <1>3, <1>4, <1>9 DEF Owner
<1>10. ASSUME NEW j \in Indices, j # i
       PROVE  SlotOwner'[j] = SlotOwner[j]
  <2>1. CASE Owner(j) = {}
    BY <1>9, <1>10, <2>1 DEF SlotOwner
  <2>2. CASE Owner(j) # {}
    <3>1. (CHOOSE n \in Owner(j) : TRUE) \in Owner(j)
      BY <2>2
    <3>2. meta'[CHOOSE n \in Owner(j)' : TRUE] = meta[CHOOSE n \in Owner(j) : TRUE]
      BY <1>9, <1>10, <3>1
    <3>. QED
      BY <1>9, <1>10, <2>2, <3>2 DEF SlotOwner
  <2>. QED
    BY <2>1, <2>2
<1>11. SlotOwner'[i] = born + 1
  BY <1>1, <1>4, <1>7, <1>8 DEF SlotOwner
<1>12. SlotOwner' = [SlotOwner EXCEPT ![i] = born + 1]
  BY <1>1, <1>10, <1>11 DEF SlotOwner
<1>13. Slots!Claim(i, born + 1)
  BY <1>2, <1>5, <1>6, <1>12 DEF Slots!Claim
<1>. QED
  BY <1>1, <1>13 DEF Slots!Next

\* Removing instance.json frees the slot of its instance.
LEMMA RemovingFrees ==
  ASSUME TypeInv, LockInv, TypeInv', LockInv', NEW p \in Coop, RemoveFile(p)
  PROVE  Slots!Next \/ UNCHANGED Slots!vars
<1>0. PICK m \in Names : m = held[p].name
  BY DEF RemoveFile, TypeInv, HoldsInstance, Instance
<1>1. PICK f \in doomed[p] : Unlink(p, f)
  BY DEF RemoveFile
<1>2. UNCHANGED born
  BY DEF RemoveFile
<1>3. CASE meta' = meta
  BY <1>2, <1>3, TableStutters
<1>4. CASE meta' # meta
  <2>1. meta' = [meta EXCEPT ![m] = NoInstance]
    BY <1>0, <1>1, <1>4 DEF Unlink
  <2>2. m \in Listed
    BY <1>2, <1>4, <2>1 DEF Listed, TypeInv, TypeOK
  <2>3. Listed' = Listed \ {m} /\ \A n \in Listed \ {m} : meta'[n] = meta[n]
    BY <1>2, <2>1 DEF Listed, TypeInv, TypeOK
  <2>0. PICK i \in Indices : i = meta[m].index
    BY <2>2, SlotOwnerValue DEF LockInv
  <2>4. SlotOwner[i] = meta[m].id /\ meta[m].id \in Ids
    BY <2>0, <2>2, SlotOwnerValue DEF LockInv
  <2>5. Owner(i)' = {}
    BY <2>0, <2>2, <2>3 DEF Owner, LockInv, NoSharedIndex
  <2>6. ASSUME NEW j \in Indices, j # i
        PROVE  /\ Owner(j)' = Owner(j)
               /\ \A n \in Owner(j) : meta'[n] = meta[n]
    BY <2>0, <2>3, <2>6 DEF Owner
  <2>7. ASSUME NEW j \in Indices, j # i
        PROVE  SlotOwner'[j] = SlotOwner[j]
    <3>1. CASE Owner(j) = {}
      BY <2>6, <2>7, <3>1 DEF SlotOwner
    <3>2. CASE Owner(j) # {}
      <4>1. (CHOOSE n \in Owner(j) : TRUE) \in Owner(j)
        BY <3>2
      <4>2. meta'[CHOOSE n \in Owner(j)' : TRUE] = meta[CHOOSE n \in Owner(j) : TRUE]
        BY <2>6, <2>7, <4>1
      <4>. QED
        BY <2>6, <2>7, <3>2, <4>2 DEF SlotOwner
    <3>. QED
      BY <3>1, <3>2
  <2>8. SlotOwner'[i] = None
    BY <2>5 DEF SlotOwner
  <2>9. SlotOwner' = [SlotOwner EXCEPT ![i] = None]
    BY <2>7, <2>8 DEF SlotOwner
  <2>10. SlotOwner[i] # None
    BY <2>4, NoInstanceApart
  <2>11. Slots!Free(i)
    BY <1>2, <2>9, <2>10 DEF Slots!Free
  <2>. QED
    BY <2>4, <2>11 DEF Slots!Next
<1>. QED
  BY <1>3, <1>4

\* Without `coop restore`, the instances directory under its commands, failures
\* and kills implements the table of slots.
THEOREM AllocationImplementsSlots ==
  ASSUME "restore" \notin Verbs PROVE Spec => SlotsKept
<1> DEFINE Inv == TypeInv /\ LockInv /\ NobodyRestores
<1>1. Init => Inv
  BY TypeInit
  DEF Init, LockInv, LockHeld, ChosenIsFree, OnlyBorn, NoSharedIndex, Listed,
      NobodyRestores
<1>2. Inv /\ [Next]_vars => Inv'
  BY TypeStep, LockStep, RestoreNever
<1>3. Init => Slots!Init
  <2> SUFFICES ASSUME Init PROVE Slots!Init
    OBVIOUS
  <2>1. Listed = {} /\ 1..born = {}
    BY DEF Init, Listed
  <2>. QED
    BY <2>1 DEF Slots!Init, SlotOwner, Owner
<1>4. Inv /\ Inv' /\ [Next]_vars => [Slots!Next]_(Slots!vars)
  <2> SUFFICES ASSUME Inv, Inv', [Next]_vars
               PROVE  Slots!Next \/ UNCHANGED Slots!vars
    OBVIOUS
  <2>1. CASE \E p \in Coop : SaveInstance(p)
    BY <2>1, SavingClaims
  <2>2. CASE \E p \in Coop : RemoveFile(p)
    BY <2>2, RemovingFrees
  <2>3. CASE \A p \in Coop : ~SaveInstance(p) /\ ~RemoveFile(p)
    BY <2>3, TableKept, TableStutters
  <2>. QED
    BY <2>1, <2>2, <2>3
<1>. QED
  BY <1>1, <1>2, <1>3, <1>4, PTL DEF Spec, SlotsKept, Slots!Spec
-----------------------------------------------------------------------------
(* One command at a time *)

\* The commands run one after another.
OneAtATime == \A p, q \in Coop : p = q

\* A directory's own names: no other directory can be given one of them.
NamesOf(d) == {Candidates[d][k] : k \in 1..Len(Candidates[d])}
OwnNamesOnly ==
  /\ Named = {}
  /\ \A d, e \in Projects : d # e => NamesOf(d) \cap NamesOf(e) = {}

\* The Instance value a command works with is the one in the directory.
NameMatches == \A n \in Listed : meta[n].name = n
HeldIsCurrent ==
  \A p \in Coop :
    /\ pc[p] \in {"boot", "provision", "finish", "start", "halt", "stopvm", "scan",
                  "swap", "copy", "lineage"} => meta[held[p].name] = held[p]
    /\ pc[p] = "remove" => meta[held[p].name] \in {held[p], NoInstance}
    /\ pc[p] = "save" => held[p].name \notin Listed

AloneInv == NameMatches /\ HeldIsCurrent

\* Where `coop up` is tells what it found and what it creates. A workspace.json
\* that outlived its instance.json names a directory whose name that is.
UpProgress ==
  \A p \in Coop :
    /\ pc[p] \in {"lock", "choose", "save"} => Matching(project[p]) = {}
    /\ pc[p] \in {"save", "boot", "provision", "finish"} =>
         /\ project[p] \in Projects
         /\ held[p].name \in NamesOf(project[p])
         /\ Matching(project[p]) \subseteq {held[p].name}
SpaceOfName == \A n \in Names, d \in Projects : space[n] = d => n \in NamesOf(d)

EnvironmentInv == UpProgress /\ SpaceOfName /\ OneEnvironmentPerProject

\* A derived name is one of the directory's own.
LEMMA DerivedOwn == ASSUME NEW d PROVE Derived(d) \subseteq NamesOf(d) \ Listed
  BY DEF Derived, NamesOf

\* Commands that create an instance know its directory entry.
LEMMA AloneUp ==
  ASSUME OneAtATime, TypeInv, AloneInv, NEW p \in Coop,
         \/ Up(p) \/ Lookup(p) \/ AcquireLock(p) \/ Choose(p) \/ NoneLeft(p)
         \/ SaveInstance(p)
  PROVE  AloneInv'
<1> USE DEF AloneInv, NameMatches, HeldIsCurrent, TypeInv, TypeOK, Goto, dirVars, cmdVars
<1>0. \A q \in Coop : q = p
  BY DEF OneAtATime
<1>1. CASE Up(p) \/ AcquireLock(p) \/ NoneLeft(p)
  BY <1>0, <1>1 DEF Up, AcquireLock, NoneLeft, Listed
<1>2. CASE Lookup(p)
  BY <1>0, <1>2 DEF Lookup, Matching, Listed
<1>3. CASE Choose(p)
  <2>1. PICK n \in Derived(project[p]) \cup (Named \ Listed), i \in NextIndex :
          held' = [held EXCEPT ![p] = [name |-> n, index |-> i, id |-> born + 1]]
    BY <1>3 DEF Choose
  <2>2. n \notin Listed /\ held'[p].name = n
    BY <1>3, <2>1, DerivedFree DEF Choose, KnowsProject
  <2>. QED
    BY <1>0, <1>3, <2>2 DEF Choose, Listed
<1>4. CASE SaveInstance(p)
  <2>1. held[p].name \in Names
    BY <1>4 DEF SaveInstance, HoldsInstance, Instance
  <2>. QED
    BY <1>0, <1>4, <2>1 DEF SaveInstance, Listed
<1>. QED
  BY <1>1, <1>2, <1>3, <1>4

\* The others keep it, but for the files that `coop destroy` removes.
LEMMA AloneRest ==
  ASSUME OneAtATime, TypeInv, AloneInv, NEW p \in Coop,
         \/ Boot(p) \/ Provision(p) \/ Finish(p) \/ UpFails(p) \/ UpUndermined(p)
         \/ Start(p) \/ StartExisting(p) \/ Stop(p) \/ Halt(p) \/ Destroy(p)
         \/ StopVm(p) \/ ScanDir(p) \/ RemoveFile(p) \/ Removed(p) \/ Restore(p)
         \/ RemoveDisk(p) \/ CopyDisk(p) \/ SetImage(p) \/ Abort(p)
  PROVE  AloneInv'
<1> USE DEF AloneInv, NameMatches, HeldIsCurrent, TypeInv, TypeOK, Goto, dirVars, cmdVars
<1>0. \A q \in Coop : q = p
  BY DEF OneAtATime
<1>1. CASE Boot(p) \/ Provision(p) \/ Finish(p) \/ UpFails(p) \/ UpUndermined(p)
           \/ StartExisting(p)
  BY <1>0, <1>1 DEF Boot, Provision, Finish, UpFails, UpUndermined, CleanUp,
     StartExisting, Listed
<1>2. CASE Start(p) \/ Stop(p) \/ Destroy(p) \/ Restore(p)
  BY <1>0, <1>2 DEF Start, Stop, Destroy, Restore, Resolve, Listed
<1>3. CASE Halt(p) \/ StopVm(p) \/ ScanDir(p) \/ Removed(p) \/ RemoveDisk(p)
           \/ CopyDisk(p) \/ Abort(p)
  BY <1>0, <1>3 DEF Halt, StopVm, ScanDir, Removed, RemoveDisk, CopyDisk, Abort, Listed
<1>4. CASE RemoveFile(p)
  <2>1. PICK f \in doomed[p] : Unlink(p, f)
    BY <1>4 DEF RemoveFile
  <2>2. held[p].name \in Names
    BY <1>4 DEF RemoveFile, HoldsInstance, Instance
  <2>3. meta' \in {meta, [meta EXCEPT ![held[p].name] = NoInstance]}
    BY <2>1 DEF Unlink
  <2>4. UNCHANGED <<pc, held>> /\ pc[p] = "remove"
    BY <1>4 DEF RemoveFile
  <2>. QED
    BY <1>0, <2>2, <2>3, <2>4 DEF Listed
<1>5. CASE SetImage(p)
  <2>1. held[p].name \in Names /\ meta[held[p].name] = held[p]
    BY <1>5 DEF SetImage, HoldsInstance, Instance
  <2>2. meta' = meta
    BY <1>5, <2>1 DEF SetImage
  <2>. QED
    BY <1>0, <1>5, <2>2 DEF SetImage, Listed
<1>. QED
  BY <1>1, <1>2, <1>3, <1>4, <1>5

LEMMA AloneStep ==
  ASSUME OneAtATime PROVE TypeInv /\ AloneInv /\ [Next]_vars => AloneInv'
<1> SUFFICES ASSUME TypeInv, AloneInv, [Next]_vars PROVE AloneInv'
  OBVIOUS
<1>1. ASSUME UNCHANGED <<meta, pc, held>> PROVE AloneInv'
  BY <1>1 DEF AloneInv, NameMatches, HeldIsCurrent, Listed
<1>2. CASE VmEnds \/ UNCHANGED vars
  BY <1>1, <1>2 DEF VmEnds, vars, dirVars, cmdVars
<1>. QED
  BY <1>2, AloneUp, AloneRest DEF Next, Begin, Work

LEMMA AloneAlways == ASSUME OneAtATime PROVE Spec => [](TypeInv /\ AloneInv)
<1>1. Init => AloneInv
  BY DEF Init, AloneInv, NameMatches, HeldIsCurrent, Listed
<1>. QED
  BY <1>1, TypeInit, TypeStep, AloneStep, PTL DEF Spec

\* Commands that run one after another, killed or not, never write or remove
\* the metadata of an instance other than their own.
THEOREM LeavesOthersAlone == ASSUME OneAtATime PROVE Spec => OthersUnaffected
<1>1. TypeInv /\ AloneInv /\ [Next]_vars => [LeavesOthers]_vars
  <2> SUFFICES ASSUME TypeInv, AloneInv, Next, NEW n \in Listed, meta'[n] # meta[n]
               PROVE  \E p \in Coop : pc[p] = "remove" /\ held[p] = meta[n]
    BY DEF LeavesOthers
  <2> USE DEF AloneInv, NameMatches, HeldIsCurrent, TypeInv, TypeOK
  <2>1. PICK p \in Coop : SaveInstance(p) \/ RemoveFile(p) \/ SetImage(p)
    BY DEF Next, VmEnds, Begin, Work, Up, Lookup, AcquireLock, Choose, NoneLeft,
       Boot, Provision, Finish, UpFails, UpUndermined, CleanUp, Start, StartExisting,
       Stop, Halt, Destroy, StopVm, ScanDir, Removed, Restore, RemoveDisk, CopyDisk,
       Abort, Resolve, dirVars, cmdVars
  <2>2. held[p].name \in Names /\ n \in Names
    BY <2>1 DEF SaveInstance, RemoveFile, SetImage, HoldsInstance, Instance, Listed
  <2>3. CASE SaveInstance(p)
    BY <2>2, <2>3 DEF SaveInstance
  <2>4. CASE SetImage(p)
    BY <2>2, <2>4 DEF SetImage
  <2>5. CASE RemoveFile(p)
    <3>1. n = held[p].name /\ pc[p] = "remove"
      BY <2>2, <2>5 DEF RemoveFile, Unlink
    <3>. QED
      BY <2>2, <3>1 DEF Listed
  <2>. QED
    BY <2>1, <2>3, <2>4, <2>5
<1>. QED
  BY <1>1, AloneAlways, PTL DEF Spec, OthersUnaffected

\* Steps that write neither instance.json nor workspace.json.
LEMMA EnvironmentKept ==
  ASSUME OneAtATime, OwnNamesOnly, TypeInv, EnvironmentInv, NEW p \in Coop,
         Begin(p) \/ Work(p) \/ UpFails(p) \/ Abort(p), UNCHANGED <<meta, space>>
  PROVE  EnvironmentInv'
<1>0. /\ \A q \in Coop : q = p
      /\ \A d : Matching(d)' = Matching(d)
      /\ SpaceOfName' /\ OneEnvironmentPerProject'
  BY DEF OneAtATime, Matching, Listed, EnvironmentInv, SpaceOfName,
         OneEnvironmentPerProject
<1> USE DEF EnvironmentInv, UpProgress, TypeInv, TypeOK, Goto
<1>1. CASE Choose(p)
  <2>1. PICK n \in Derived(project[p]) \cup (Named \ Listed), i \in NextIndex :
          held' = [held EXCEPT ![p] = [name |-> n, index |-> i, id |-> born + 1]]
    BY <1>1 DEF Choose
  <2>2. n \in NamesOf(project[p]) /\ held'[p].name = n
    BY <1>1, <2>1, DerivedOwn DEF OwnNamesOnly
  <2>3. project' = project /\ project[p] \in Projects /\ Matching(project[p]) = {}
    BY <1>1 DEF Choose, KnowsProject
  <2>. QED
    BY <1>0, <2>2, <2>3
<1>2. CASE Lookup(p) \/ AcquireLock(p) \/ NoneLeft(p)
  BY <1>0, <1>2 DEF Lookup, AcquireLock, NoneLeft, cmdVars
<1>3. CASE SaveInstance(p)
  <2>1. UNCHANGED <<project, held>> /\ pc[p] = "save"
    BY <1>3 DEF SaveInstance, cmdVars
  <2>. QED
    BY <1>0, <2>1
<1>4. CASE Boot(p) \/ Provision(p) \/ Finish(p) \/ UpFails(p) \/ UpUndermined(p)
           \/ StartExisting(p) \/ Halt(p) \/ StopVm(p) \/ ScanDir(p) \/ Removed(p)
  BY <1>0, <1>4 DEF Boot, Provision, Finish, UpFails, UpUndermined, CleanUp,
     StartExisting, Halt, StopVm, ScanDir, Removed, cmdVars
<1>5. CASE Begin(p) \/ RemoveFile(p) \/ RemoveDisk(p) \/ CopyDisk(p) \/ SetImage(p)
           \/ Abort(p)
  <2>1. pc'[p] \notin {"lock", "choose", "save", "boot", "provision", "finish"}
    BY <1>5 DEF Begin, Up, Start, Stop, Destroy, Restore, Resolve, RemoveFile,
       RemoveDisk, CopyDisk, SetImage, Abort
  <2>. QED
    BY <1>0, <2>1
<1>. QED
  BY <1>1, <1>2, <1>3, <1>4, <1>5 DEF Work

\* instance.json of a new instance: a workspace.json left behind in its
\* directory was written for the same project.
LEMMA EnvironmentSaved ==
  ASSUME OneAtATime, OwnNamesOnly, TypeInv, AloneInv, EnvironmentInv,
         NEW p \in Coop, SaveInstance(p)
  PROVE  EnvironmentInv'
<1> DEFINE n == held[p].name
           d == project[p]
<1>0. \A q \in Coop : q = p
  BY DEF OneAtATime
<1>1. /\ n \in Names /\ n \notin Listed
      /\ d \in Projects /\ n \in NamesOf(d) /\ Matching(d) = {}
  BY DEF SaveInstance, TypeInv, HoldsInstance, Instance, AloneInv, HeldIsCurrent,
         EnvironmentInv, UpProgress
<1>2. Listed' \subseteq Listed \cup {n} /\ UNCHANGED <<space, project, held>>
  BY <1>1 DEF SaveInstance, Listed, TypeInv, TypeOK, cmdVars
<1>3. Matching(d)' \subseteq {n}
  BY <1>1, <1>2 DEF Matching
<1>4. ASSUME NEW e \in Projects, e # d PROVE Matching(e)' \subseteq Matching(e)
  <2>1. space[n] # e
    BY <1>1, <1>4 DEF OwnNamesOnly, EnvironmentInv, SpaceOfName
  <2>. QED
    BY <1>2, <2>1 DEF Matching
<1>5. UpProgress'
  BY <1>0, <1>1, <1>2, <1>3 DEF SaveInstance, Goto, UpProgress, TypeInv, TypeOK
<1>6. SpaceOfName' /\ OneEnvironmentPerProject'
  BY <1>1, <1>2, <1>3, <1>4 DEF EnvironmentInv, SpaceOfName, OneEnvironmentPerProject
<1>. QED
  BY <1>5, <1>6 DEF EnvironmentInv

\* workspace.json of a new instance: its project had no other instance.
LEMMA EnvironmentProvisioned ==
  ASSUME OneAtATime, TypeInv, EnvironmentInv, NEW p \in Coop, Provision(p)
  PROVE  EnvironmentInv'
<1> DEFINE n == held[p].name
           d == project[p]
<1>0. \A q \in Coop : q = p
  BY DEF OneAtATime
<1>1. /\ n \in Names /\ d \in Projects /\ n \in NamesOf(d)
      /\ Matching(d) \subseteq {n}
  BY DEF Provision, TypeInv, HoldsInstance, Instance, EnvironmentInv, UpProgress
<1>2. /\ Listed' = Listed /\ UNCHANGED <<project, held>>
      /\ space'[n] = d /\ \A m \in Names \ {n} : space'[m] = space[m]
  BY <1>1 DEF Provision, Listed, TypeInv, TypeOK, cmdVars
<1>3. Matching(d)' \subseteq {n}
  BY <1>1, <1>2 DEF Matching, Listed
<1>4. ASSUME NEW e \in Projects, e # d PROVE Matching(e)' \subseteq Matching(e)
  BY <1>2, <1>4 DEF Matching, Listed
<1>5. UpProgress'
  BY <1>0, <1>1, <1>2, <1>3 DEF Provision, Goto, UpProgress, TypeInv, TypeOK
<1>6. SpaceOfName' /\ OneEnvironmentPerProject'
  BY <1>1, <1>2, <1>3, <1>4 DEF EnvironmentInv, SpaceOfName, OneEnvironmentPerProject
<1>. QED
  BY <1>5, <1>6 DEF EnvironmentInv

\* `rm -rf` leaves fewer instances of every project.
LEMMA EnvironmentRemoved ==
  ASSUME OneAtATime, TypeInv, EnvironmentInv, NEW p \in Coop, RemoveFile(p)
  PROVE  EnvironmentInv'
<1>1. PICK f \in doomed[p] : Unlink(p, f)
  BY DEF RemoveFile
<1>2. held[p].name \in Names /\ \A q \in Coop : q = p
  BY DEF RemoveFile, TypeInv, HoldsInstance, Instance, OneAtATime
<1>3. Listed' \subseteq Listed /\ \A m \in Names : space'[m] \in {space[m], None}
  BY <1>1, <1>2 DEF Unlink, Listed, TypeInv, TypeOK
<1>4. \A d \in Projects : Matching(d)' \subseteq Matching(d)
  BY <1>3, RegistryAssumption DEF Matching, Listed
<1>5. UpProgress'
  BY <1>2 DEF RemoveFile, UpProgress
<1>6. SpaceOfName' /\ OneEnvironmentPerProject'
  BY <1>3, <1>4, RegistryAssumption
  DEF EnvironmentInv, SpaceOfName, OneEnvironmentPerProject
<1>. QED
  BY <1>5, <1>6 DEF EnvironmentInv

LEMMA EnvironmentStep ==
  ASSUME OneAtATime, OwnNamesOnly
  PROVE  TypeInv /\ AloneInv /\ EnvironmentInv /\ [Next]_vars => EnvironmentInv'
<1> SUFFICES ASSUME TypeInv, AloneInv, EnvironmentInv, [Next]_vars
             PROVE  EnvironmentInv'
  OBVIOUS
<1>1. CASE VmEnds \/ UNCHANGED vars
  <2>1. UNCHANGED <<meta, space, pc, project, held>>
    BY <1>1 DEF VmEnds, vars, dirVars, cmdVars
  <2>. QED
    BY <2>1 DEF EnvironmentInv, UpProgress, SpaceOfName, OneEnvironmentPerProject,
       Matching, Listed
<1>2. ASSUME NEW p \in Coop, SetImage(p) PROVE UNCHANGED <<meta, space>>
  <2>1. held[p].name \in Names /\ meta[held[p].name] = held[p]
    BY <1>2 DEF SetImage, TypeInv, HoldsInstance, Instance, AloneInv, HeldIsCurrent
  <2>. QED
    BY <1>2, <2>1 DEF SetImage, TypeInv, TypeOK
<1>3. ASSUME NEW p \in Coop, Begin(p) \/ Work(p) \/ UpFails(p) \/ Abort(p),
             ~SaveInstance(p), ~Provision(p), ~RemoveFile(p)
      PROVE  UNCHANGED <<meta, space>>
  BY <1>2, <1>3
  DEF Begin, Work, Up, Lookup, AcquireLock, Choose, NoneLeft, Boot, Finish, UpFails,
      UpUndermined, CleanUp, Start, StartExisting, Stop, Halt, Destroy, StopVm, ScanDir,
      Removed, Restore, RemoveDisk, CopyDisk, Abort, Resolve, dirVars
<1>. QED
  BY <1>1, <1>3, EnvironmentKept, EnvironmentSaved, EnvironmentProvisioned,
     EnvironmentRemoved
  DEF Next

\* Commands that run one after another, killed or not, never give a project
\* directory a second instance, when its instance names are its own.
THEOREM EnvironmentUnique ==
  ASSUME OneAtATime, OwnNamesOnly PROVE Spec => []OneEnvironmentPerProject
<1>1. Init => EnvironmentInv
  BY RegistryAssumption
  DEF Init, EnvironmentInv, UpProgress, SpaceOfName, OneEnvironmentPerProject,
      Matching, Listed
<1>2. TypeInv /\ AloneInv /\ EnvironmentInv /\ [Next]_vars => EnvironmentInv'
  BY EnvironmentStep
<1>3. EnvironmentInv => OneEnvironmentPerProject
  BY DEF EnvironmentInv
<1>. QED
  BY <1>1, <1>2, <1>3, AloneAlways, PTL DEF Spec
=============================================================================
