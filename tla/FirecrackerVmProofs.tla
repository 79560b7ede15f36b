------------------------- MODULE FirecrackerVmProofs -------------------------
(***************************************************************************)
(* FirecrackerVm, proved for every set of commands and of PIDs and any     *)
(* number of faults: the types for all commands; and, when one command at  *)
(* a time manages the instance, while any number probe it, and the kill of *)
(* an orphan and the signals of a stop have their effect, that at most one *)
(* VMM runs and can be found, and that a stop is for the instance's own.   *)
(***************************************************************************)
EXTENDS FirecrackerVm, TLAPS

\* Only one command does more than probe.
StatusOnly(p) == Verbs[p] \subseteq {"status"}
OneManager == \A p, q \in Coop : p # q => StatusOnly(p) \/ StatusOnly(q)

\* `sudo` may refuse anything but the steps that end a VMM.
EndsAreObeyed == SudoFails \cap {"orphan", "term", "kill"} = {}

Own(i) == proc[i] \in {"shell", "exec", "vmm"}

\* Past its probe, a command manages the instance.
Managing(p) == pc[p] \notin {"idle", "probe", "judge", "drop"}

StatusProbes ==
  \A p \in Coop : StatusOnly(p) =>
    ~Managing(p) /\ (pc[p] = "idle" \/ verb[p] = "status")

\* Where a process of the instance is tells what names it.
ProcessNamed ==
  \A i \in Pids :
    /\ proc[i] = "shell" => pidFile = None
    /\ proc[i] \in {"exec", "vmm"} => pidFile \in {i, None}
    /\ proc[i] = "vmm" => socket = i

OneProcess == \A i, j \in Pids : Own(i) /\ Own(j) => i = j

\* A process that is still starting has a command that waits for it.
StartAwaited ==
  Spawning => \E p \in Coop : pc[p] \in {"await", "alive"}

\* Where the command that manages is tells what it has found and ended.
ManagerKnows ==
  \A p \in Coop :
    /\ pc[p] \in {"orphan", "rmsocket", "rmpid", "spawn"} => pidFile = None
    /\ pc[p] \in {"rmsocket", "rmpid", "spawn", "forget", "unbind"} =>
         \A i \in Pids : ~Own(i)
    /\ pc[p] \in {"graceful", "term", "kill"} => \A i \in Pids : Own(i) => i = seen[p]

VmInv ==
  StatusProbes /\ ProcessNamed /\ OneProcess /\ StartAwaited /\ ManagerKnows
-----------------------------------------------------------------------------
\* What a command has read is a PID whenever it uses it.
ReadIsPid ==
  \A p \in Coop : pc[p] \in {"judge", "graceful", "term", "kill"} => seen[p] \in Pids

TypeInv == TypeOK /\ ReadIsPid

LEMMA TypeInit == ASSUME VmAssumption PROVE Init => TypeInv
BY DEF VmAssumption, Init, TypeInv, TypeOK, ReadIsPid

LEMMA FaultTyped == TypeInv /\ Fault /\ MaxFaults \in Nat => faults' \in 0..MaxFaults
BY DEF TypeInv, TypeOK, Fault

\* A command keeps the types.
LEMMA CommandTypes ==
  ASSUME VmAssumption, TypeInv, NEW p \in Coop, Begin(p) \/ Command(p) \/ Killed(p)
  PROVE  TypeInv'
<1> USE DEF TypeInv, TypeOK, ReadIsPid, Goto, hostVars
<1>1. CASE Begin(p)
  <2>1. Verbs[p] \subseteq {"start", "stop", "disk", "status"}
    BY DEF VmAssumption
  <2>. QED
    BY <1>1, <2>1 DEF Begin
<1>2. CASE Killed(p) \/ SudoRefused(p) \/ Survives(p)
  <2>1. faults' \in 0..MaxFaults
    BY <1>2, FaultTyped DEF VmAssumption, Killed, SudoRefused, Survives
  <2>2. CASE SudoRefused(p)
    <3>1. pc'[p] \in {"drop", "rmsocket", "rmpid", "spawn", "await", "forget", "idle"}
      BY <2>2 DEF SudoRefused
    <3>. QED
      BY <2>1, <2>2, <3>1 DEF SudoRefused
  <2>3. CASE Killed(p) \/ Survives(p)
    BY <2>1, <2>3 DEF Killed, Survives
  <2>. QED
    BY <1>2, <2>2, <2>3
<1>3. CASE ReadPidFile(p) \/ Judge(p) \/ DropPidFile(p)
  BY <1>3 DEF ReadPidFile, Judge, DropPidFile, IfRunning, IfStopped
<1>4. CASE KillOrphan(p) \/ RemoveSocket(p) \/ RemovePidFile(p)
  BY <1>4 DEF KillOrphan, RemoveSocket, RemovePidFile, End
<1>5. CASE Spawn(p)
  BY <1>5 DEF Spawn
<1>6. CASE AwaitPidFile(p) \/ FirstCheck(p) \/ WaitForBoot(p) \/ StartTimesOut(p)
           \/ UseDisk(p)
  BY <1>6 DEF AwaitPidFile, FirstCheck, WaitForBoot, StartTimesOut, UseDisk
<1>7. CASE ReadPid(p) \/ SendCtrlAltDel(p)
  BY <1>7 DEF ReadPid, SendCtrlAltDel, End
<1>8. CASE Terminate(p) \/ KillHard(p)
  BY <1>8 DEF Terminate, KillHard, Signal, End
<1>9. CASE ForgetPid(p) \/ RemoveApiSocket(p)
  BY <1>9 DEF ForgetPid, RemoveApiSocket
<1>. QED
  BY <1>1, <1>2, <1>3, <1>4, <1>5, <1>6, <1>7, <1>8, <1>9 DEF Command

\* So does a process.
LEMMA ProcessTypes ==
  ASSUME VmAssumption, TypeInv, NEW i \in Pids,
         Record(i) \/ Bind(i) \/ VmmDies(i) \/ StrangerStarts(i)
  PROVE  TypeInv'
<1> USE DEF TypeInv, TypeOK, ReadIsPid
<1>1. CASE Record(i) \/ Bind(i)
  BY <1>1 DEF Record, Bind, End
<1>2. CASE VmmDies(i) \/ StrangerStarts(i)
  <2>1. faults' \in 0..MaxFaults
    BY <1>2, FaultTyped DEF VmAssumption, VmmDies, StrangerStarts
  <2>2. Strangers \subseteq {"foreign", "other"}
    BY DEF VmAssumption
  <2>. QED
    BY <1>2, <2>1, <2>2 DEF VmmDies, StrangerStarts, End
<1>. QED
  BY <1>1, <1>2

LEMMA TypeStep == ASSUME VmAssumption PROVE TypeInv /\ [Next]_vars => TypeInv'
<1> SUFFICES ASSUME TypeInv, [Next]_vars PROVE TypeInv'
  OBVIOUS
<1>1. CASE UNCHANGED vars
  BY <1>1 DEF vars, hostVars, TypeInv, TypeOK, ReadIsPid
<1>. QED
  BY <1>1, CommandTypes, ProcessTypes DEF Next

\* Everything has its type, whatever the commands are and may do.
THEOREM TypeCorrect == ASSUME VmAssumption PROVE Spec => []TypeOK
<1>1. Init => TypeInv
  BY TypeInit
<1>2. TypeInv /\ [Next]_vars => TypeInv'
  BY TypeStep
<1>3. TypeInv => TypeOK
  BY DEF TypeInv
<1>. QED
  BY <1>1, <1>2, <1>3, PTL DEF Spec
-----------------------------------------------------------------------------
(* One command manages, the others probe *)

LEMMA OneManages ==
  ASSUME OneManager, StatusProbes, NEW p \in Coop, NEW q \in Coop,
         Managing(p), Managing(q)
  PROVE  p = q
BY DEF OneManager, StatusProbes

LEMMA ManagerMayMore ==
  ASSUME StatusProbes, NEW p \in Coop, Managing(p) \/ (pc[p] # "idle" /\ verb[p] # "status")
  PROVE  ~StatusOnly(p)
BY DEF StatusProbes, Managing

\* A command that only probes goes on doing so.
LEMMA StatusStep ==
  ASSUME VmAssumption, TypeInv, StatusProbes, [Next]_vars
  PROVE  StatusProbes'
<1> USE DEF TypeInv, TypeOK, StatusProbes, StatusOnly, Managing, Goto, hostVars
<1>1. CASE UNCHANGED vars
  BY <1>1 DEF vars
<1>2. ASSUME NEW i \in Pids, Record(i) \/ Bind(i) \/ VmmDies(i) \/ StrangerStarts(i)
      PROVE  StatusProbes'
  BY <1>2 DEF Record, Bind, VmmDies, StrangerStarts
<1>3. ASSUME NEW p \in Coop, Begin(p) \/ Command(p) \/ Killed(p)
      PROVE  StatusProbes'
  <2>1. CASE Begin(p)
    BY <1>3, <2>1 DEF Begin
  <2>2. CASE Killed(p)
    BY <1>3, <2>2 DEF Killed
  <2>3. CASE SudoRefused(p)
    <3>1. pc[p] = "judge" => pc'[p] = "drop"
      BY <2>3 DEF SudoRefused
    <3>2. pc[p] \notin {"idle", "probe", "drop"}
      BY <2>3 DEF SudoRefused, VmAssumption
    <3>. QED
      BY <2>3, <3>1, <3>2 DEF SudoRefused
  <2>4. CASE ReadPidFile(p) \/ Judge(p) \/ DropPidFile(p)
    BY <2>4 DEF ReadPidFile, Judge, DropPidFile, IfRunning, IfStopped
  <2>5. CASE Command(p) /\ Managing(p) /\ ~SudoRefused(p)
    <3>1. ~StatusOnly(p)
      BY <2>5, ManagerMayMore
    <3>2. verb' = verb /\ \A q \in Coop : q # p => pc'[q] = pc[q]
      BY <2>5 DEF Command, ReadPidFile, Judge, DropPidFile, KillOrphan, RemoveSocket,
         RemovePidFile, Spawn, AwaitPidFile, FirstCheck, WaitForBoot, StartTimesOut,
         ReadPid, SendCtrlAltDel, Terminate, Survives, KillHard, ForgetPid,
         RemoveApiSocket, UseDisk
    <3>. QED
      BY <3>1, <3>2
  <2>6. Command(p) /\ ~Managing(p) =>
          ReadPidFile(p) \/ Judge(p) \/ DropPidFile(p) \/ SudoRefused(p)
    BY DEF Command, KillOrphan, RemoveSocket,
       RemovePidFile, Spawn, AwaitPidFile, FirstCheck, WaitForBoot, StartTimesOut,
       ReadPid, SendCtrlAltDel, Terminate, Survives, KillHard, ForgetPid,
       RemoveApiSocket, UseDisk
  <2>. QED
    BY <1>3, <2>1, <2>2, <2>3, <2>4, <2>5, <2>6
<1>. QED
  BY <1>1, <1>2, <1>3 DEF Next
-----------------------------------------------------------------------------
(* What a VMM can be found by *)

LEMMA VmInit == Init => VmInv
BY DEF Init, VmInv, StatusProbes, StatusOnly, Managing, ProcessNamed, OneProcess, Own,
   StartAwaited, Spawning, ManagerKnows

\* What the manager knows before a step of another command, and after it.
Named == ProcessNamed /\ OneProcess /\ StartAwaited /\ ManagerKnows

\* A command that neither starts nor ends a process, nor removes a name, only has to
\* keep what it knows and to be waiting for who starts.
LEMMA PassesOn ==
  ASSUME TypeInv, Named, NEW p \in Coop, NEW l, Goto(p, l), UNCHANGED hostVars,
         \A q \in Coop : q # p => seen'[q] = seen[q],
         Spawning /\ pc[p] \in {"await", "alive"} => l \in {"await", "alive"},
         l \in {"orphan", "rmsocket", "rmpid", "spawn"} => pidFile = None,
         l \in {"rmsocket", "rmpid", "spawn", "forget", "unbind"} =>
           \A i \in Pids : ~Own(i),
         l \in {"graceful", "term", "kill"} =>
           \A i \in Pids : Own(i) => i = seen'[p]
  PROVE  Named'
<1> USE DEF TypeInv, TypeOK, Named, Goto, hostVars
<1>1. ProcessNamed' /\ OneProcess'
  BY DEF ProcessNamed, OneProcess, Own
<1>2. StartAwaited'
  BY DEF StartAwaited, Spawning
<1>3. ManagerKnows'
  BY DEF ManagerKnows, Own
<1>. QED
  BY <1>1, <1>2, <1>3

\* The steps of a command that leave the processes and their names alone.
LEMMA QuietSteps ==
  ASSUME VmAssumption, OneManager, EndsAreObeyed, TypeInv, VmInv, NEW p \in Coop,
         \/ Begin(p) \/ ReadPidFile(p) \/ Judge(p) \/ SudoRefused(p) \/ Killed(p)
         \/ AwaitPidFile(p) \/ FirstCheck(p) \/ WaitForBoot(p) \/ StartTimesOut(p)
         \/ ReadPid(p) \/ Survives(p) \/ UseDisk(p)
  PROVE  Named'
<1>1. Named /\ StatusProbes
  BY DEF VmInv, Named
<1>2. CASE Begin(p)
  BY <1>1, <1>2, PassesOn DEF Begin
<1>3. CASE ReadPidFile(p)
  <2>1. seen'[p] = pidFile /\ \A q \in Coop : q # p => seen'[q] = seen[q]
    BY <1>3 DEF ReadPidFile, TypeInv, TypeOK
  <2>2. IfStopped(p) \in {"orphan", "disk", "idle"}
    BY DEF IfStopped
  <2>. QED
    BY <1>1, <1>3, <2>1, <2>2, PassesOn DEF ReadPidFile
<1>4. CASE Judge(p)
  BY <1>1, <1>4, PassesOn DEF Judge, IfRunning
<1>5. CASE Killed(p)
  BY <1>1, <1>5, PassesOn DEF Killed, Settled
<1>6. CASE SudoRefused(p)
  <2>1. pc[p] \in {"judge", "rmsocket", "rmpid", "spawn", "alive", "boot", "unbind"}
    BY <1>6 DEF SudoRefused, VmAssumption, EndsAreObeyed
  <2>2. pc[p] \in {"rmsocket", "rmpid", "spawn"} =>
          pidFile = None /\ \A i \in Pids : ~Own(i)
    BY <1>1 DEF Named, ManagerKnows
  <2>3. UNCHANGED hostVars /\ seen' = seen
    BY <1>6 DEF SudoRefused
  <2>4. pc[p] = "alive" => ~Spawning
    BY <1>6 DEF SudoRefused, Settled
  <2>5. PICK l \in {"drop", "rmpid", "spawn", "await", "idle"} :
          /\ Goto(p, l)
          /\ l = "rmpid" => pc[p] = "rmsocket"
          /\ l = "spawn" => pc[p] = "rmpid"
          /\ l = "await" => pc[p] = "spawn"
    BY <1>6, <2>1 DEF SudoRefused
  <2>. QED
    BY <1>1, <2>1, <2>2, <2>3, <2>4, <2>5, PassesOn
<1>7. CASE AwaitPidFile(p) \/ FirstCheck(p) \/ WaitForBoot(p) \/ StartTimesOut(p)
           \/ UseDisk(p)
  BY <1>1, <1>7, PassesOn
  DEF AwaitPidFile, FirstCheck, WaitForBoot, StartTimesOut, UseDisk, Settled
<1>8. CASE ReadPid(p)
  <2>1. seen'[p] = pidFile /\ \A q \in Coop : q # p => seen'[q] = seen[q]
    BY <1>8 DEF ReadPid, TypeInv, TypeOK
  <2>2. pidFile # None => \A i \in Pids : Own(i) => i = pidFile
    BY <1>1 DEF Named, ProcessNamed, Own
  <2>. QED
    BY <1>1, <1>8, <2>1, <2>2, PassesOn DEF ReadPid
<1>9. CASE Survives(p)
  <2>1. \A i \in Pids : Own(i) => i = seen[p]
    BY <1>1, <1>9 DEF Named, ManagerKnows, Survives
  <2>. QED
    BY <1>1, <1>9, <2>1, PassesOn DEF Survives
<1>. QED
  BY <1>2, <1>3, <1>4, <1>5, <1>6, <1>7, <1>8, <1>9

\* The end of a process takes nothing from who is left.
LEMMA EndKeeps ==
  ASSUME TypeInv, ProcessNamed, OneProcess, NEW i \in Pids, End(i), UNCHANGED pidFile
  PROVE  /\ ProcessNamed' /\ OneProcess'
         /\ \A j \in Pids : Own(j)' => Own(j) /\ j # i
         /\ Spawning' => Spawning
BY DEF TypeInv, TypeOK, ProcessNamed, OneProcess, Own, End, Spawning

\* The steps of a command that end a process.
LEMMA EndingSteps ==
  ASSUME VmAssumption, OneManager, TypeInv, VmInv, NEW p \in Coop,
         KillOrphan(p) \/ SendCtrlAltDel(p) \/ Terminate(p) \/ KillHard(p)
  PROVE  Named'
<1> USE DEF Goto
<1>1. /\ Named /\ StatusProbes
      /\ ProcessNamed /\ OneProcess /\ StartAwaited /\ ManagerKnows
  BY DEF VmInv, Named
<1>2. pc[p] \in {"orphan", "graceful", "term", "kill"} /\ Managing(p)
  BY DEF KillOrphan, SendCtrlAltDel, Terminate, KillHard, Managing
<1>3. ~Spawning
  <2>1. \A q \in Coop : pc[q] \in {"await", "alive"} => Managing(q)
    BY DEF Managing
  <2>. QED
    BY <1>1, <1>2, <2>1, OneManages DEF StartAwaited
<1>4. /\ pidFile' = pidFile /\ seen' = seen
      /\ pc' = [pc EXCEPT ![p] = pc'[p]]
      /\ pc'[p] = IF pc[p] = "orphan" THEN "rmsocket"
                  ELSE IF pc[p] = "graceful" THEN "term" ELSE "forget"
  BY DEF KillOrphan, SendCtrlAltDel, Terminate, KillHard, TypeInv, TypeOK
<1>5. /\ ProcessNamed' /\ OneProcess' /\ ~Spawning'
      /\ \A j \in Pids : Own(j)' => Own(j)
  <2>1. CASE UNCHANGED <<proc, socket>>
    BY <1>1, <1>3, <1>4, <2>1 DEF ProcessNamed, OneProcess, Own, Spawning
  <2>2. CASE \E i \in Pids : End(i)
    BY <1>1, <1>3, <1>4, <2>2, EndKeeps
  <2>3. seen[p] \in Pids \/ pc[p] \notin {"term", "kill"}
    BY DEF TypeInv, ReadIsPid
  <2>. QED
    BY <2>1, <2>2, <2>3
    DEF KillOrphan, SendCtrlAltDel, Terminate, KillHard, Signal, Live
<1>6. StartAwaited'
  BY <1>5 DEF StartAwaited
<1>7. pc[p] # "graceful" => \A j \in Pids : ~Own(j)'
  <2>1. CASE pc[p] = "orphan"
    <3>1. KillOrphan(p) /\ pidFile = None
      BY <1>1, <2>1 DEF KillOrphan, SendCtrlAltDel, Terminate, KillHard, ManagerKnows
    <3>2. \A j \in Pids : Own(j) => j \in Live /\ socket = j
      BY <1>1, <1>3 DEF Own, Spawning, Live, ProcessNamed
    <3>3. CASE socket \in Live
      <4>1. End(socket) /\ socket \in Pids
        BY <3>1, <3>3 DEF KillOrphan, Live
      <4>. QED
        BY <1>1, <1>4, <3>2, <4>1, EndKeeps
    <3>4. CASE socket \notin Live
      BY <1>5, <3>2, <3>4
    <3>. QED
      BY <3>3, <3>4
  <2>2. CASE pc[p] \in {"term", "kill"}
    <3>1. Signal(p) /\ seen[p] \in Pids
      BY <2>2 DEF KillOrphan, SendCtrlAltDel, Terminate, KillHard, TypeInv, ReadIsPid
    <3>2. \A j \in Pids : Own(j) => j = seen[p]
      BY <1>1, <2>2 DEF ManagerKnows
    <3>3. CASE Alive(seen[p])
      BY <1>1, <1>4, <3>1, <3>2, <3>3, EndKeeps DEF Signal
    <3>4. CASE ~Alive(seen[p])
      BY <1>5, <3>1, <3>2, <3>4 DEF Alive, Own
    <3>. QED
      BY <3>3, <3>4
  <2>. QED
    BY <1>2, <2>1, <2>2
<1>8. ManagerKnows'
  <2> SUFFICES ASSUME NEW q \in Coop
      PROVE /\ pc'[q] \in {"orphan", "rmsocket", "rmpid", "spawn"} => pidFile' = None
            /\ pc'[q] \in {"rmsocket", "rmpid", "spawn", "forget", "unbind"} =>
                 \A i \in Pids : ~Own(i)'
            /\ pc'[q] \in {"graceful", "term", "kill"} =>
                 \A i \in Pids : Own(i)' => i = seen'[q]
    BY DEF ManagerKnows
  <2>1. CASE q = p
    BY <1>1, <1>2, <1>4, <1>5, <1>7, <2>1 DEF ManagerKnows, TypeInv, TypeOK
  <2>2. CASE q # p
    BY <1>1, <1>4, <1>5, <2>2 DEF ManagerKnows, TypeInv, TypeOK
  <2>. QED
    BY <2>1, <2>2
<1>. QED
  BY <1>5, <1>6, <1>8 DEF Named

\* The steps of a command that remove a name: none is in use, or it is the PID file,
\* without which the socket is enough.
LEMMA RemovingSteps ==
  ASSUME VmAssumption, OneManager, TypeInv, VmInv, NEW p \in Coop,
         \/ DropPidFile(p) \/ RemoveSocket(p) \/ RemovePidFile(p) \/ ForgetPid(p)
         \/ RemoveApiSocket(p)
  PROVE  Named'
<1> USE DEF Goto
<1>1. /\ Named /\ StatusProbes
      /\ ProcessNamed /\ OneProcess /\ StartAwaited /\ ManagerKnows
  BY DEF VmInv, Named
<1>2. /\ proc' = proc /\ seen' = seen
      /\ pidFile' \in {pidFile, None}
      /\ pc' = [pc EXCEPT ![p] = pc'[p]]
  BY DEF DropPidFile, RemoveSocket, RemovePidFile, ForgetPid, RemoveApiSocket,
         TypeInv, TypeOK
<1>3. socket' # socket => \A i \in Pids : ~Own(i)
  BY <1>1 DEF DropPidFile, RemoveSocket, RemovePidFile, ForgetPid, RemoveApiSocket,
         ManagerKnows
<1>4. ProcessNamed' /\ OneProcess'
  BY <1>1, <1>2, <1>3 DEF ProcessNamed, OneProcess, Own
<1>5. StartAwaited'
  <2>1. pc[p] \notin {"await", "alive"}
    BY DEF DropPidFile, RemoveSocket, RemovePidFile, ForgetPid, RemoveApiSocket
  <2>. QED
    BY <1>1, <1>2, <2>1 DEF StartAwaited, Spawning, TypeInv, TypeOK
<1>6. ManagerKnows'
  <2>1. /\ pc'[p] \in {"orphan", "rmpid", "spawn", "unbind", "idle", "disk"}
        /\ pc'[p] = "orphan" => pidFile' = None
        /\ pc'[p] \in {"rmpid", "spawn"} => pidFile = None
        /\ pc'[p] \in {"rmpid", "spawn", "unbind"} => \A i \in Pids : ~Own(i)
    BY <1>1 DEF DropPidFile, IfStopped, RemoveSocket, RemovePidFile, ForgetPid,
       RemoveApiSocket, ManagerKnows, TypeInv, TypeOK
  <2>. QED
    BY <1>1, <1>2, <2>1 DEF ManagerKnows, Own, TypeInv, TypeOK
<1>. QED
  BY <1>4, <1>5, <1>6 DEF Named

\* A process is started where none is left, and without a PID file.
LEMMA SpawnStep ==
  ASSUME VmAssumption, OneManager, TypeInv, VmInv, NEW p \in Coop, Spawn(p)
  PROVE  Named'
<1> USE DEF Goto
<1>1. /\ Named /\ StatusProbes
      /\ ProcessNamed /\ OneProcess /\ StartAwaited /\ ManagerKnows
  BY DEF VmInv, Named
<1>2. pc[p] = "spawn" /\ pidFile = None /\ \A i \in Pids : ~Own(i)
  BY <1>1 DEF Spawn, ManagerKnows
<1>3. CASE \E i \in Pids : proc[i] = "free" /\ proc' = [proc EXCEPT ![i] = "shell"]
  <2>1. PICK i \in Pids : proc[i] = "free" /\ proc' = [proc EXCEPT ![i] = "shell"]
    BY <1>3
  <2>2. pc' = [pc EXCEPT ![p] = "await"] /\ UNCHANGED <<pidFile, socket, seen>>
    BY <1>3, <2>1 DEF Spawn, Alive
  <2>3. \A j \in Pids : Own(j)' => j = i /\ proc'[j] = "shell"
    BY <1>2, <2>1 DEF Own, TypeInv, TypeOK
  <2>4. ProcessNamed' /\ OneProcess'
    BY <1>2, <2>2, <2>3 DEF ProcessNamed, OneProcess, Own
  <2>5. StartAwaited'
    BY <2>2 DEF StartAwaited, TypeInv, TypeOK
  <2>6. \A q \in Coop : Managing(q) => q = p
    BY <1>1, <1>2, OneManages DEF Managing
  <2>7. ManagerKnows'
    BY <2>2, <2>6 DEF ManagerKnows, Managing, TypeInv, TypeOK
  <2>. QED
    BY <2>4, <2>5, <2>7 DEF Named
<1>4. CASE Goto(p, "idle") /\ UNCHANGED proc
  BY <1>1, <1>2, <1>4, PassesOn DEF Spawn, hostVars
<1>. QED
  BY <1>3, <1>4 DEF Spawn

\* What the processes do by themselves.
LEMMA ProcessSteps ==
  ASSUME VmAssumption, OneManager, TypeInv, VmInv, NEW i \in Pids,
         Record(i) \/ Bind(i) \/ VmmDies(i) \/ StrangerStarts(i)
  PROVE  Named'
<1>1. /\ Named /\ StatusProbes
      /\ ProcessNamed /\ OneProcess /\ StartAwaited /\ ManagerKnows
  BY DEF VmInv, Named
<1>2. pc' = pc /\ seen' = seen
  BY DEF Record, Bind, VmmDies, StrangerStarts
<1>3. Spawning => \A p \in Coop :
        pc[p] \notin {"orphan", "rmsocket", "rmpid", "spawn", "graceful", "term",
                      "kill", "forget", "unbind"}
  <2>1. SUFFICES ASSUME Spawning, NEW p \in Coop, Managing(p)
                 PROVE  pc[p] \in {"await", "alive"}
    BY DEF Managing
  <2>2. PICK q \in Coop : pc[q] \in {"await", "alive"}
    BY <1>1, <2>1 DEF StartAwaited
  <2>. QED
    BY <1>1, <2>1, <2>2, OneManages DEF Managing
<1>4. CASE Record(i)
  <2>1. Spawning /\ Own(i)
    BY <1>4 DEF Record, Spawning, Own
  <2>2. \A j \in Pids : Own(j)' => j = i /\ proc'[j] = "exec"
    BY <1>1, <1>4, <2>1 DEF Record, Own, OneProcess, TypeInv, TypeOK
  <2>3. pidFile' = i
    BY <1>4 DEF Record
  <2>4. ProcessNamed' /\ OneProcess'
    BY <2>2, <2>3 DEF ProcessNamed, OneProcess, Own
  <2>5. StartAwaited' /\ ManagerKnows'
    BY <1>1, <1>2, <1>3, <2>1 DEF StartAwaited, ManagerKnows
  <2>. QED
    BY <2>4, <2>5 DEF Named
<1>5. CASE Bind(i)
  <2>1. Spawning /\ Own(i) /\ pidFile' = pidFile
    BY <1>5 DEF Bind, Spawning, Own
  <2>2. StartAwaited' /\ ManagerKnows'
    BY <1>1, <1>2, <1>3, <2>1 DEF StartAwaited, ManagerKnows
  <2>3. CASE socket = None
    <3>1. proc' = [proc EXCEPT ![i] = "vmm"] /\ socket' = i
      BY <1>5, <2>3 DEF Bind
    <3>2. \A j \in Pids : Own(j)' => j = i /\ proc'[j] = "vmm"
      BY <1>1, <2>1, <3>1 DEF Own, OneProcess, TypeInv, TypeOK
    <3>3. pidFile \in {i, None}
      BY <1>1, <1>5 DEF Bind, ProcessNamed
    <3>. QED
      BY <2>1, <2>2, <3>1, <3>2, <3>3 DEF Named, ProcessNamed, OneProcess, Own
  <2>4. CASE socket # None
    <3>1. End(i)
      BY <1>5, <2>4 DEF Bind
    <3>. QED
      BY <1>1, <2>1, <2>2, <3>1, EndKeeps DEF Named
  <2>. QED
    BY <2>3, <2>4
<1>6. CASE VmmDies(i)
  <2>1. End(i) /\ pidFile' = pidFile
    BY <1>6 DEF VmmDies
  <2>2. /\ ProcessNamed' /\ OneProcess' /\ (Spawning' => Spawning)
        /\ \A j \in Pids : Own(j)' => Own(j)
    BY <1>1, <2>1, EndKeeps
  <2>3. StartAwaited' /\ ManagerKnows'
    BY <1>1, <1>2, <2>1, <2>2 DEF StartAwaited, ManagerKnows
  <2>. QED
    BY <2>2, <2>3 DEF Named
<1>7. CASE StrangerStarts(i)
  <2>1. \A j \in Pids : proc'[j] \in {"shell", "exec", "vmm"} => proc'[j] = proc[j]
    BY <1>7 DEF StrangerStarts, VmAssumption, TypeInv, TypeOK
  <2>2. UNCHANGED <<pidFile, socket>>
    BY <1>7 DEF StrangerStarts
  <2>3. ProcessNamed' /\ OneProcess'
    BY <1>1, <2>1, <2>2 DEF ProcessNamed, OneProcess, Own
  <2>4. StartAwaited' /\ ManagerKnows'
    BY <1>1, <1>2, <2>1, <2>2 DEF StartAwaited, Spawning, ManagerKnows, Own
  <2>. QED
    BY <2>3, <2>4 DEF Named
<1>. QED
  BY <1>4, <1>5, <1>6, <1>7

\* The invariant is inductive.
LEMMA VmStep ==
  ASSUME VmAssumption, OneManager, EndsAreObeyed
  PROVE  TypeInv /\ VmInv /\ [Next]_vars => VmInv'
<1> SUFFICES ASSUME TypeInv, VmInv, [Next]_vars PROVE VmInv'
  OBVIOUS
<1>1. StatusProbes'
  BY StatusStep DEF VmInv
<1>2. Named'
  <2>1. CASE UNCHANGED vars
    BY <2>1 DEF vars, hostVars, VmInv, Named, ProcessNamed, OneProcess, Own,
       StartAwaited, Spawning, ManagerKnows
  <2>2. CASE Next
    BY <2>2, QuietSteps, EndingSteps, RemovingSteps, SpawnStep, ProcessSteps
    DEF Next, Command
  <2>. QED
    BY <2>1, <2>2
<1>. QED
  BY <1>1, <1>2 DEF VmInv, Named

\* While one command at a time manages the instance, and what ends a VMM has its
\* effect, no second VMM ever opens the disk, and start finds the one there is.
THEOREM OneVmm ==
  ASSUME VmAssumption, OneManager, EndsAreObeyed
  PROVE  Spec => [](SingleVmm /\ FindableVmm)
<1>1. Init => TypeInv /\ VmInv
  BY TypeInit, VmInit
<1>2. TypeInv /\ VmInv /\ [Next]_vars => TypeInv' /\ VmInv'
  BY TypeStep, VmStep
<1>3. VmInv => SingleVmm /\ FindableVmm
  BY DEF VmInv, ProcessNamed, OneProcess, Own, SingleVmm, FindableVmm, Live
<1>. QED
  BY <1>1, <1>2, <1>3, PTL DEF Spec
-----------------------------------------------------------------------------
(* Whose VM a stop is for *)

NoForeign == \A i \in Pids : proc[i] # "foreign"

LEMMA NoForeignStep ==
  ASSUME TypeInv, NoForeign, [Next]_vars, "foreign" \notin Strangers
  PROVE  NoForeign'
<1> USE DEF NoForeign, TypeInv, TypeOK
<1>1. CASE proc' = proc
  BY <1>1
<1>2. CASE \E i \in Pids, k \in {"free", "shell", "exec", "vmm"} :
             proc' = [proc EXCEPT ![i] = k]
  BY <1>2
<1>3. CASE \E i \in Pids : StrangerStarts(i)
  BY <1>3 DEF StrangerStarts
<1>4. CASE UNCHANGED vars
  BY <1>1, <1>4 DEF vars, hostVars
<1>5. ASSUME NEW i \in Pids, Record(i) \/ Bind(i) \/ VmmDies(i)
      PROVE  NoForeign'
  BY <1>2, <1>5 DEF Record, Bind, VmmDies, End
<1>6. ASSUME NEW p \in Coop, Begin(p) \/ Command(p) \/ Killed(p)
      PROVE  NoForeign'
  <2>1. CASE Spawn(p)
    BY <1>1, <1>2, <2>1 DEF Spawn
  <2>2. CASE KillOrphan(p) \/ SendCtrlAltDel(p)
    BY <1>1, <1>2, <2>2 DEF KillOrphan, SendCtrlAltDel, End, Live
  <2>3. CASE Terminate(p) \/ KillHard(p)
    <3>1. seen[p] \in Pids
      BY <2>3 DEF Terminate, KillHard, ReadIsPid
    <3>. QED
      BY <1>1, <1>2, <2>3, <3>1 DEF Terminate, KillHard, Signal, End
  <2>4. CASE proc' = proc
    BY <1>1, <2>4
  <2>. QED
    BY <1>6, <2>1, <2>2, <2>3, <2>4
    DEF Begin, Killed, Command, ReadPidFile, Judge, SudoRefused, DropPidFile,
        RemoveSocket, RemovePidFile, AwaitPidFile, FirstCheck, WaitForBoot,
        StartTimesOut, ReadPid, Survives, ForgetPid, RemoveApiSocket, UseDisk, hostVars
<1>. QED
  BY <1>3, <1>4, <1>5, <1>6 DEF Next

LEMMA StopIsOwn ==
  ASSUME TypeInv, NoForeign, [Next]_vars
  PROVE  StopsItsOwn
<1> SUFFICES ASSUME NEW p \in Coop, pc[p] = "judge", pc'[p] = "read"
             PROVE  proc[seen[p]] \in {"shell", "exec", "vmm"}
  BY DEF StopsItsOwn
<1>1. seen[p] \in Pids
  BY DEF TypeInv, ReadIsPid
<1>2. PICK q \in Coop : Begin(q) \/ Command(q) \/ Killed(q)
  BY DEF Next, vars, Record, Bind, VmmDies, StrangerStarts
<1>3. q = p
  <2>1. \E l : Goto(q, l)
    BY <1>2 DEF Command, Begin, Killed, ReadPidFile, Judge, SudoRefused, DropPidFile,
       KillOrphan, RemoveSocket, RemovePidFile, Spawn, AwaitPidFile, FirstCheck,
       WaitForBoot, StartTimesOut, ReadPid, SendCtrlAltDel, Terminate, Survives,
       KillHard, ForgetPid, RemoveApiSocket, UseDisk
  <2>. QED
    BY <2>1 DEF Goto, TypeInv, TypeOK
<1>4. Judge(p)
  <2>1. ~Killed(p) /\ ~SudoRefused(p)
    BY DEF Killed, SudoRefused, Goto, TypeInv, TypeOK
  <2>. QED
    BY <1>2, <1>3, <2>1 DEF Command, Begin, ReadPidFile, DropPidFile,
       KillOrphan, RemoveSocket, RemovePidFile, Spawn, AwaitPidFile, FirstCheck,
       WaitForBoot, StartTimesOut, ReadPid, SendCtrlAltDel, Terminate, Survives,
       KillHard, ForgetPid, RemoveApiSocket, UseDisk
<1>. QED
  BY <1>1, <1>4 DEF Judge, Goto, IsFirecracker, NoForeign, TypeInv, TypeOK

\* However many commands run and whoever got a PID since, as long as it is not the VMM
\* of another instance: the process a stop goes on to is the instance's own.
THEOREM OwnStopped ==
  ASSUME VmAssumption, "foreign" \notin Strangers
  PROVE  Spec => RunningIsOwn
<1>1. Init => TypeInv /\ NoForeign
  BY TypeInit DEF Init, NoForeign
<1>2. TypeInv /\ NoForeign /\ [Next]_vars => TypeInv' /\ NoForeign'
  BY TypeStep, NoForeignStep
<1>3. TypeInv /\ NoForeign /\ [Next]_vars => [StopsItsOwn]_vars
  BY StopIsOwn
<1>. QED
  BY <1>1, <1>2, <1>3, PTL DEF Spec, RunningIsOwn
=============================================================================
