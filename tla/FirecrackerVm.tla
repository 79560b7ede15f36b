---------------------------- MODULE FirecrackerVm ----------------------------
(***************************************************************************)
(* The Firecracker process of one instance and the two files a command has *)
(* to find it by: firecracker.pid and the API socket (src/src/vm.rs,       *)
(* Instance::is_running in src/src/config.rs).                             *)
(*                                                                         *)
(* Nothing serializes the commands that work on one instance.  Each probes *)
(* the PID file, which may also remove it; `start` kills the process that  *)
(* holds the socket when there is no PID file, removes both files, spawns  *)
(* a shell that records its PID and becomes the VMM, and probes it; `stop` *)
(* signals the recorded PID and removes both files.  Commands may be       *)
(* killed, and the VMM may die, between any two steps.                     *)
(***************************************************************************)
EXTENDS Naturals, FiniteSets

CONSTANTS
  Coop,       \* the `coop` commands that may run at the same time
  Verbs,      \* what each of them may do
  Pids,       \* process identifiers of the host
  Strangers,  \* other programs that may get a free PID
  SudoFails,  \* the steps at which `sudo` may refuse what a command asks
  MaxFaults,  \* bound on failures, kills and unrelated processes
  None, Stale

VmAssumption ==
  /\ Verbs \in [Coop -> SUBSET {"start", "stop", "disk", "status"}]
  /\ Strangers \subseteq {"foreign", "other"}
  /\ SudoFails \subseteq {"judge", "orphan", "rmsocket", "rmpid", "spawn", "alive",
                    "boot", "term", "kill", "unbind"}
  /\ MaxFaults \in Nat
  /\ None \notin Pids /\ Stale \notin Pids /\ None # Stale

VARIABLES
  proc,     \* per PID: "free", the VMM's three ages "shell", "exec" and "vmm",
            \* "foreign" (another instance's VMM) or "other"
  pidFile,  \* the PID in firecracker.pid, None without a file
  socket,   \* who bound the API socket; Stale: nobody alive, None: no file
  pc,       \* where each command is
  verb,     \* what each command does
  seen,     \* the PID it has read
  faults

hostVars == <<proc, pidFile, socket>>
vars == <<hostVars, pc, verb, seen, faults>>

Live == {i \in Pids : proc[i] = "vmm"}
Alive(i) == proc[i] # "free"

\* The shell's command line already names the Firecracker binary.
IsFirecracker(i) == proc[i] \in {"shell", "exec", "vmm", "foreign"}
-----------------------------------------------------------------------------
TypeOK ==
  /\ proc \in [Pids -> {"free", "shell", "exec", "vmm", "foreign", "other"}]
  /\ pidFile \in Pids \cup {None}
  /\ socket \in Pids \cup {None, Stale}
  /\ pc \in [Coop -> {"idle", "probe", "judge", "drop", "orphan", "rmsocket", "rmpid",
                      "spawn", "await", "alive", "boot", "read", "graceful", "term",
                      "kill", "forget", "unbind", "disk"}]
  /\ verb \in [Coop -> {"start", "stop", "disk", "status"}]
  /\ seen \in [Coop -> Pids \cup {None}]
  /\ faults \in 0..MaxFaults

Init ==
  /\ proc = [i \in Pids |-> "free"]
  /\ pidFile = None
  /\ socket = None
  /\ pc = [p \in Coop |-> "idle"]
  /\ verb = [p \in Coop |-> "status"]
  /\ seen = [p \in Coop |-> None]
  /\ faults = 0

Fault == faults < MaxFaults /\ faults' = faults + 1
Goto(p, l) == pc' = [pc EXCEPT ![p] = l]

\* The process ends; its socket file stays.
End(i) ==
  /\ proc' = [proc EXCEPT ![i] = "free"]
  /\ socket' = IF socket = i THEN Stale ELSE socket
-----------------------------------------------------------------------------
(* Instance::is_running, and what each command does with the answer *)

Begin(p) ==
  /\ pc[p] = "idle"
  /\ \E v \in Verbs[p] : verb' = [verb EXCEPT ![p] = v]
  /\ Goto(p, "probe")
  /\ UNCHANGED <<hostVars, seen, faults>>

IfRunning(p) == IF verb[p] = "stop" THEN "read" ELSE "idle"
IfStopped(p) ==
  CASE verb[p] = "start" -> "orphan"
    [] verb[p] = "disk" -> "disk"
    [] OTHER -> "idle"

ReadPidFile(p) ==
  /\ pc[p] = "probe"
  /\ seen' = [seen EXCEPT ![p] = pidFile]
  /\ Goto(p, IF pidFile = None THEN IfStopped(p) ELSE "judge")
  /\ UNCHANGED <<hostVars, verb, faults>>

\* Mutant of Judge: the command line is not looked at.
JudgeAlive(p) ==
  /\ pc[p] = "judge"
  /\ Goto(p, IF Alive(seen[p]) THEN IfRunning(p) ELSE "drop")
  /\ UNCHANGED <<hostVars, verb, seen, faults>>

\* `sudo kill -0` and the command line of the process.
Judge(p) ==
  /\ pc[p] = "judge"
  /\ Goto(p, IF Alive(seen[p]) /\ IsFirecracker(seen[p]) THEN IfRunning(p) ELSE "drop")
  /\ UNCHANGED <<hostVars, verb, seen, faults>>

\* Whatever file has the name by now is removed.
DropPidFile(p) ==
  /\ pc[p] = "drop"
  /\ pidFile' = None
  /\ Goto(p, IfStopped(p))
  /\ UNCHANGED <<proc, socket, verb, seen, faults>>
-----------------------------------------------------------------------------
(* FirecrackerVm::start and wait_for_boot *)

\* Mutant of KillOrphan: nothing is killed.
LeaveOrphan(p) ==
  /\ pc[p] = "orphan"
  /\ Goto(p, "rmsocket")
  /\ UNCHANGED <<hostVars, verb, seen, faults>>

KillOrphan(p) ==
  /\ pc[p] = "orphan"
  /\ IF pidFile = None /\ socket \in Live
       THEN End(socket)
       ELSE UNCHANGED <<proc, socket>>
  /\ Goto(p, "rmsocket")
  /\ UNCHANGED <<pidFile, verb, seen, faults>>

RemoveSocket(p) ==
  /\ pc[p] = "rmsocket"
  /\ socket' = None
  /\ Goto(p, "rmpid")
  /\ UNCHANGED <<proc, pidFile, verb, seen, faults>>

RemovePidFile(p) ==
  /\ pc[p] = "rmpid"
  /\ pidFile' = None
  /\ Goto(p, "spawn")
  /\ UNCHANGED <<proc, socket, verb, seen, faults>>

\* Without a free PID the fork fails, and the command with it.
Spawn(p) ==
  /\ pc[p] = "spawn"
  /\ \/ /\ \E i \in Pids : proc[i] = "free" /\ proc' = [proc EXCEPT ![i] = "shell"]
        /\ Goto(p, "await")
     \/ /\ \A i \in Pids : Alive(i)
        /\ Goto(p, "idle")
        /\ UNCHANGED proc
  /\ UNCHANGED <<pidFile, socket, verb, seen, faults>>

\* PID_TRAMPOLINE replaces the PID file and execs Firecracker.
Record(i) ==
  /\ proc[i] = "shell"
  /\ pidFile' = i
  /\ proc' = [proc EXCEPT ![i] = "exec"]
  /\ UNCHANGED <<socket, pc, verb, seen, faults>>

\* Firecracker refuses to start on a socket path that exists.
Bind(i) ==
  /\ proc[i] = "exec"
  /\ IF socket = None
       THEN proc' = [proc EXCEPT ![i] = "vmm"] /\ socket' = i
       ELSE End(i)
  /\ UNCHANGED <<pidFile, pc, verb, seen, faults>>

\* The waits of a command (five seconds for the PID file, one before the probe)
\* are longer than a spawned process takes to bind its socket or end.
Spawning == \E i \in Pids : proc[i] \in {"shell", "exec"}
Settled == ~Spawning

\* wait_for_pid_file.
AwaitPidFile(p) ==
  /\ pc[p] = "await"
  /\ pidFile # None
  /\ Goto(p, "alive")
  /\ UNCHANGED <<hostVars, verb, seen, faults>>

\* check_alive reads the PID file once more.
CheckAlive == pidFile # None /\ Alive(pidFile)

FirstCheck(p) ==
  /\ pc[p] = "alive"
  /\ Settled
  /\ Goto(p, IF CheckAlive THEN "boot" ELSE "idle")
  /\ UNCHANGED <<hostVars, verb, seen, faults>>

\* The guest answers, or the process is found dead.
WaitForBoot(p) ==
  /\ pc[p] = "boot"
  /\ Live # {} \/ ~CheckAlive
  /\ Goto(p, "idle")
  /\ UNCHANGED <<hostVars, verb, seen, faults>>

\* Either wait times out.
StartTimesOut(p) ==
  /\ pc[p] \in {"await", "boot"}
  /\ Settled
  /\ Goto(p, "idle")
  /\ UNCHANGED <<hostVars, verb, seen, faults>>
-----------------------------------------------------------------------------
(* FirecrackerVm::stop *)

ReadPid(p) ==
  /\ pc[p] = "read"
  /\ seen' = [seen EXCEPT ![p] = pidFile]
  /\ Goto(p, IF pidFile = None THEN "idle" ELSE "graceful")
  /\ UNCHANGED <<hostVars, verb, faults>>

\* The guest shuts down within the three seconds, or it does not.
SendCtrlAltDel(p) ==
  /\ pc[p] = "graceful"
  /\ \/ socket \in Live /\ End(socket)
     \/ UNCHANGED <<proc, socket>>
  /\ Goto(p, "term")
  /\ UNCHANGED <<pidFile, verb, seen, faults>>

\* A signal to the PID that was read, and the wait for its exit.
Signal(p) ==
  IF Alive(seen[p]) THEN End(seen[p]) ELSE UNCHANGED <<proc, socket>>

Terminate(p) ==
  /\ pc[p] = "term"
  /\ Signal(p)
  /\ Goto(p, "forget")
  /\ UNCHANGED <<pidFile, verb, seen, faults>>

\* Mutant of Survives: no SIGKILL follows.
SurvivesIgnored(p) ==
  /\ pc[p] = "term"
  /\ Alive(seen[p])
  /\ Fault
  /\ Goto(p, "forget")
  /\ UNCHANGED <<hostVars, verb, seen>>

\* It outlives SIGTERM and the wait for it.
Survives(p) ==
  /\ pc[p] = "term"
  /\ Alive(seen[p])
  /\ Fault
  /\ Goto(p, "kill")
  /\ UNCHANGED <<hostVars, verb, seen>>

KillHard(p) ==
  /\ pc[p] = "kill"
  /\ Signal(p)
  /\ Goto(p, "forget")
  /\ UNCHANGED <<pidFile, verb, seen, faults>>

\* Mutant of ForgetPid: the file is left behind without its PID.
ForgetPidOnly(p) ==
  /\ pc[p] = "forget"
  /\ pidFile' = Stale
  /\ Goto(p, "unbind")
  /\ UNCHANGED <<proc, socket, verb, seen, faults>>

ForgetPid(p) ==
  /\ pc[p] = "forget"
  /\ pidFile' = None
  /\ Goto(p, "unbind")
  /\ UNCHANGED <<proc, socket, verb, seen, faults>>

RemoveApiSocket(p) ==
  /\ pc[p] = "unbind"
  /\ socket' = None
  /\ Goto(p, "idle")
  /\ UNCHANGED <<proc, pidFile, verb, seen, faults>>
-----------------------------------------------------------------------------
\* A refused `sudo` changes nothing.  A probe then reads the process as gone,
\* a signal or a removal is logged and passed over, and `start` finds no VMM.
\* A kill of an orphan without lsof, and a process that outlives SIGKILL, look
\* the same to the command.
SudoRefused(p) ==
  /\ pc[p] \in SudoFails
  /\ pc[p] \in {"alive", "boot"} => Settled
  /\ Fault
  /\ Goto(p, CASE pc[p] = "judge" -> "drop"
               [] pc[p] = "orphan" -> "rmsocket"
               [] pc[p] = "rmsocket" -> "rmpid"
               [] pc[p] = "rmpid" -> "spawn"
               [] pc[p] = "spawn" -> "await"
               [] pc[p] \in {"term", "kill"} -> "forget"
               [] OTHER -> "idle")
  /\ UNCHANGED <<hostVars, verb, seen>>

\* resize_disk, commit_disk and restore_disk work on the disk of a
\* StoppedInstance.
UseDisk(p) ==
  /\ pc[p] = "disk"
  /\ Goto(p, "idle")
  /\ UNCHANGED <<hostVars, verb, seen, faults>>

\* The command is interrupted.  A spawned VMM goes on by itself.
Killed(p) ==
  /\ pc[p] # "idle"
  /\ Settled
  /\ Fault
  /\ Goto(p, "idle")
  /\ UNCHANGED <<hostVars, verb, seen>>

\* The VMM crashes, fails to start, or the guest powers off.
VmmDies(i) ==
  /\ proc[i] \in {"shell", "exec", "vmm"}
  /\ Fault
  /\ End(i)
  /\ UNCHANGED <<pidFile, pc, verb, seen>>

\* Another program gets a free PID.
StrangerStarts(i) ==
  /\ proc[i] = "free"
  /\ Fault
  /\ \E k \in Strangers : proc' = [proc EXCEPT ![i] = k]
  /\ UNCHANGED <<pidFile, socket, pc, verb, seen>>

Command(p) ==
  \/ ReadPidFile(p) \/ Judge(p) \/ SudoRefused(p) \/ DropPidFile(p)
  \/ KillOrphan(p) \/ RemoveSocket(p) \/ RemovePidFile(p) \/ Spawn(p)
  \/ AwaitPidFile(p) \/ FirstCheck(p) \/ WaitForBoot(p) \/ StartTimesOut(p)
  \/ ReadPid(p) \/ SendCtrlAltDel(p) \/ Terminate(p) \/ Survives(p) \/ KillHard(p)
  \/ ForgetPid(p) \/ RemoveApiSocket(p) \/ UseDisk(p)

Next ==
  \/ \E p \in Coop : Begin(p) \/ Command(p) \/ Killed(p)
  \/ \E i \in Pids : Record(i) \/ Bind(i) \/ VmmDies(i) \/ StrangerStarts(i)

Spec == Init /\ [][Next]_vars
-----------------------------------------------------------------------------
(* Properties *)

\* No two VMMs ever run on the disk of the instance, whatever died, was killed,
\* or lost its PID file before.
SingleVmm == \A i, j \in Live : i = j

\* What `start` relies on to keep that: a VMM can always be found again, by the
\* PID file, or by the socket when there is no PID file.
FindableVmm ==
  \A i \in Live : pidFile = i \/ (pidFile = None /\ socket = i)

\* A command that holds the proof that the instance is stopped works on a disk
\* no VMM has open ("operations taking a StoppedInstance can rely on the
\* precondition without re-checking").
ProofOfStop == \A p \in Coop : pc[p] = "disk" => Live = {}

\* A command that stops what it found running stops its own VM, whoever got the
\* PID of a VM that is gone ("guards against PID reuse").
StopsItsOwn ==
  \A p \in Coop : pc[p] = "judge" /\ pc'[p] = "read" =>
    proc[seen[p]] \in {"shell", "exec", "vmm"}
RunningIsOwn == [][StopsItsOwn]_vars
=============================================================================
