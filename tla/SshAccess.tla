------------------------------ MODULE SshAccess ------------------------------
(***************************************************************************)
(* How the user and coop reach a guest over ssh, and what is left of it:   *)
(* the wait for sshd and its shared connection, the coop-<name> aliases in *)
(* ~/.ssh/config, the sessions, and the way out: `coop destroy`, `coop     *)
(* destroy --all` and `coop uninstall` (src/src/backend.rs SshTarget,      *)
(* ssh.rs, workspace.rs, commands/admin.rs).                               *)
(*                                                                         *)
(* Commands run side by side, each about another instance; nothing locks   *)
(* the ssh configuration.  On Lima the forwarded port is new at each boot. *)
(***************************************************************************)
EXTENDS Naturals

CONSTANTS
  Commands,    \* commands at work at once
  Insts,       \* instance names
  Ports,       \* ports a boot may get
  Codes,       \* exit codes of remote commands, 0 among them
  MaxCommands, \* bound on the commands run
  MaxFaults    \* bound on failures and kills

None == "none"
All == "all"

SshAssumption ==
  /\ {0, 1} \subseteq Codes /\ Codes \subseteq Nat /\ {MaxCommands, MaxFaults} \subseteq Nat
  /\ {None, All} \cap Insts = {} /\ None \notin Ports

VARIABLES
  exists,   \* the instances there are
  port,     \* where the sshd of each running instance is forwarded to
  alias,    \* the port in each coop block of ~/.ssh/config
  master,   \* ports with an open control master
  pc, job,  \* the step of each command, and what it has read
  coop,     \* coop itself: installed, or removed with or without its data
  last,     \* the kind, remote exit code and own exit code of the last session
  odd,      \* instances about which commands overlapped, or one was cut short
  left,     \* ports whose master was not closed by the command that opened it
  begun,    \* commands begun
  faults
vars == <<exists, port, alias, master, pc, job, coop, last, odd, left, begun, faults>>

Maybe == Ports \cup {None}
NoSession == [kind |-> None, remote |-> 0, own |-> 0]
NoJob == [verb |-> None, inst |-> None, at |-> None, ready |-> FALSE, list |-> {}, doc |-> [i \in Insts |-> None]]

TypeOK ==
  /\ exists \subseteq Insts /\ port \in [Insts -> Maybe] /\ alias \in [Insts -> Maybe]
  /\ master \subseteq Ports /\ odd \subseteq Insts /\ left \subseteq Ports
  /\ pc \in [Commands -> {"idle", "boot", "probe", "close", "drop", "read", "write", "self"}]
  /\ job \in [Commands ->
               [verb : {None, "start", "restart", "config", "clean", "destroy", "purge", "uninstall", "keep"},
                inst : Insts \cup {None, All}, at : Maybe, ready : BOOLEAN, list : SUBSET Insts, doc : [Insts -> Maybe]]]
  /\ coop \in {"installed", "kept", "removed"} /\ begun \in 0..MaxCommands /\ faults \in 0..MaxFaults
  /\ last \in [kind : {None, "shell", "run", "exec"}, remote : Codes, own : Codes]

Init ==
  /\ exists = {} /\ port = [i \in Insts |-> None] /\ alias = [i \in Insts |-> None]
  /\ master = {} /\ pc = [c \in Commands |-> "idle"] /\ job = [c \in Commands |-> NoJob]
  /\ coop = "installed" /\ last = NoSession /\ odd = {} /\ left = {} /\ begun = 0 /\ faults = 0

Go(c, p) == pc' = [pc EXCEPT ![c] = p]
End(c) == Go(c, "idle") /\ job' = [job EXCEPT ![c] = NoJob]
Fault == faults < MaxFaults /\ faults' = faults + 1
Busy == {c \in Commands : pc[c] # "idle"}
About(j) == IF j.inst = All THEN Insts ELSE {j.inst} \ {None}
Touched(cs) == UNION {About(job[c]) : c \in cs}

\* Two commands about one instance are not modelled; a purge is about them all.
Begin(c, p, j) ==
  /\ coop = "installed" /\ pc[c] = "idle" /\ Go(c, p) /\ job' = [job EXCEPT ![c] = j]
  /\ j.inst # All => \A d \in Busy : job[d].inst # j.inst
  /\ odd' = odd \cup UNION {About(job[d]) \cap About(j) : d \in Busy}
  /\ last' = NoSession /\ begun < MaxCommands /\ begun' = begun + 1
-----------------------------------------------------------------------------
(* Boot, and the wait for sshd *)

Start(c, i) ==
  /\ i \notin exists /\ exists' = exists \cup {i}
  /\ Begin(c, "boot", [NoJob EXCEPT !.verb = "start", !.inst = i])
  /\ UNCHANGED <<port, alias, master, coop, left, faults>>

Restart(c, i) ==
  /\ i \in exists /\ port[i] = None
  /\ Begin(c, "boot", [NoJob EXCEPT !.verb = "restart", !.inst = i])
  /\ UNCHANGED <<exists, port, alias, master, coop, left, faults>>

\* A port of the host nobody listens on.
Boot(c) ==
  /\ pc[c] = "boot" /\ Go(c, "probe")
  /\ \E p \in Ports \ {port[i] : i \in Insts} :
       port' = [port EXCEPT ![job[c].inst] = p] /\ job' = [job EXCEPT ![c].at = p]
  /\ UNCHANGED <<exists, alias, master, coop, last, odd, left, begun, faults>>

\* wait_until_ready: probes go through one shared connection, which stays open when
\* one got that far, whether or not its command succeeded before the time was up.
wait_until_ready(c) ==
  /\ pc[c] = "probe" /\ Go(c, "close")
  /\ \/ /\ master' = master \cup {job[c].at}
        /\ job' = [job EXCEPT ![c].ready = TRUE] /\ UNCHANGED faults
     \/ Fault /\ master' \in {master, master \cup {job[c].at}} /\ UNCHANGED job
  /\ UNCHANGED <<exists, port, alias, coop, last, odd, left, begun>>

\* `ssh -O exit`, best effort.
close_mux(c) ==
  \/ master' = master \ {job[c].at} /\ UNCHANGED <<left, faults>>
  \/ job[c].at \in master /\ Fault /\ left' = left \cup {job[c].at} /\ UNCHANGED master

\* A first start that failed is cleaned up; a restart leaves its VM as it is.
Ready(c) ==
  /\ pc[c] = "close" /\ close_mux(c)
  /\ CASE job[c].verb = "start" /\ ~job[c].ready -> Go(c, "drop") /\ UNCHANGED <<job, odd>>
       [] job[c].verb = "restart" /\ job[c].ready -> Go(c, "read") /\ UNCHANGED <<job, odd>>
       [] OTHER -> /\ End(c)
                   /\ odd' = IF job[c].ready THEN odd ELSE odd \cup {job[c].inst}
  /\ UNCHANGED <<exists, port, alias, coop, last, begun>>

\* ControlPersist: sixty seconds later the master ends by itself.
Persisted(p) ==
  /\ p \in master \cap left /\ master' = master \ {p} /\ left' = left \ {p}
  /\ UNCHANGED <<exists, port, alias, pc, job, coop, last, odd, begun, faults>>
-----------------------------------------------------------------------------
(* The ssh configuration *)

\* ssh-config and vscode, for a running instance; --clean for any.
WriteConfig(c, i) ==
  /\ port[i] # None /\ Begin(c, "read", [NoJob EXCEPT !.verb = "config", !.inst = i, !.at = port[i]])
  /\ UNCHANGED <<exists, port, alias, master, coop, left, faults>>

Clean(c, i) ==
  /\ i \in exists /\ Begin(c, "read", [NoJob EXCEPT !.verb = "clean", !.inst = i])
  /\ UNCHANGED <<exists, port, alias, master, coop, left, faults>>

\* The file as it is, whoever else is about to rewrite it.
ReadConfig(c) ==
  /\ pc[c] = "read" /\ Go(c, "write") /\ job' = [job EXCEPT ![c].doc = alias]
  /\ odd' = LET d == {x \in Commands : pc[x] = "write"}
              IN  IF d = {} THEN odd ELSE odd \cup Touched(d \cup {c})
  /\ UNCHANGED <<exists, port, alias, master, coop, last, left, begun, faults>>

\* A block is there for the host named, no other.
marker_block_present(doc, i) == doc[i] # None

ssh_config_block(at) == at

\* update_ssh_config: the block of this host is dropped and written anew.
update_ssh_config(doc, i, at) == [doc EXCEPT ![i] = ssh_config_block(at)]

remove_named_marker_block(doc, i) == [doc EXCEPT ![i] = None]

remove_marker_blocks(doc) == [i \in Insts |-> None]

\* Mutant of refresh_ssh_config_if_present: a block that is there is left alone.
refresh_ssh_config_if_absent(doc, i, at) ==
  IF marker_block_present(doc, i) THEN doc ELSE update_ssh_config(doc, i, at)

refresh_ssh_config_if_present(doc, i, at) ==
  IF marker_block_present(doc, i) THEN update_ssh_config(doc, i, at) ELSE doc

Purging(j) == j.verb \in {"purge", "uninstall"} /\ j.list # {}

\* What a command makes of the file.
Edited(j) ==
  CASE j.verb = "config" -> update_ssh_config(j.doc, j.inst, j.at)
    [] j.verb = "restart" -> refresh_ssh_config_if_present(j.doc, j.inst, j.at)
    [] j.inst = All /\ ~Purging(j) -> remove_marker_blocks(j.doc)
    [] Purging(j) -> [i \in Insts |-> IF i \in j.list \ exists THEN None ELSE j.doc[i]]
    [] OTHER -> remove_named_marker_block(j.doc, j.inst)

\* atomic_write, when there is something to change; a failed one is an error, of a
\* restart and of `uninstall --keep-data` a warning.
WriteBack(c) ==
  /\ pc[c] = "write"
  /\ \/ /\ alias' = (IF Edited(job[c]) = job[c].doc THEN alias ELSE Edited(job[c]))
        /\ UNCHANGED <<odd, faults>>
        /\ CASE Purging(job[c]) -> /\ Go(c, "drop")
                                   /\ job' = [job EXCEPT ![c].list = @ \cap exists, ![c].doc = NoJob.doc]
             [] ~Purging(job[c]) /\ job[c].verb \in {"uninstall", "keep"} -> Go(c, "self") /\ UNCHANGED job
             [] OTHER -> End(c)
     \/ /\ Fault /\ odd' = odd \cup About(job[c]) /\ UNCHANGED alias
        /\ IF job[c].verb = "keep" THEN Go(c, "self") /\ UNCHANGED job ELSE End(c)
  /\ UNCHANGED <<exists, port, master, coop, last, left, begun>>
-----------------------------------------------------------------------------
(* Sessions: each a single step here, observed until the next command *)

\* The code of the remote command or of an ssh that lost its connection.  A shell ends
\* well whatever it was; a command's failure is an error, and every error exits with 1.
exit_code(kind, remote) == IF kind = "shell" \/ remote = 0 THEN 0 ELSE 1

\* run_interactive, run_command and exec_command.
Session(i, kind, remote) ==
  /\ coop = "installed" /\ port[i] # None /\ Busy = {}
  /\ last' = [kind |-> kind, remote |-> remote, own |-> exit_code(kind, remote)]
  /\ UNCHANGED <<exists, port, alias, master, pc, job, coop, odd, left, begun, faults>>
-----------------------------------------------------------------------------
(* Stop, destroy, uninstall *)

\* The alias stays; the next start refreshes it.
Stop(i) ==
  /\ coop = "installed" /\ port[i] # None /\ \A d \in Busy : i \notin About(job[d])
  /\ port' = [port EXCEPT ![i] = None]
  /\ UNCHANGED <<exists, alias, master, pc, job, coop, last, odd, left, begun, faults>>

Destroy(c, i) ==
  /\ i \in exists /\ Begin(c, "drop", [NoJob EXCEPT !.verb = "destroy", !.inst = i])
  /\ UNCHANGED <<exists, port, alias, master, coop, left, faults>>

\* `destroy --all`, and what `uninstall` does with the data unless it is kept: the
\* instances there are now, one after the other.
Purge(c, verb) ==
  /\ verb \in {"purge", "uninstall"}
  /\ Begin(c, "drop", [NoJob EXCEPT !.verb = verb, !.inst = All, !.list = exists])
  /\ UNCHANGED <<exists, port, alias, master, coop, left, faults>>

UninstallKeepingData(c) ==
  /\ Begin(c, "read", [NoJob EXCEPT !.verb = "keep", !.inst = All])
  /\ UNCHANGED <<exists, port, alias, master, coop, left, faults>>

Remove(is) == exists' = exists \ is /\ port' = [i \in Insts |-> IF i \in is THEN None ELSE port[i]]

\* destroy_instance; one that fails ends the command, only the cleanup of a first
\* start goes on.  Behind the last one everything shared goes, and what is left of
\* the instances' directory.
Drop(c) ==
  /\ pc[c] = "drop"
  /\ \/ /\ Purging(job[c]) \/ job[c].inst # All
        /\ \E i \in IF job[c].inst = All THEN job[c].list ELSE {job[c].inst} : Remove({i})
        /\ Go(c, "read") /\ UNCHANGED <<job, odd, faults>>
     \/ /\ job[c].inst = All /\ ~Purging(job[c])
        /\ Remove(exists) /\ Go(c, "read") /\ UNCHANGED <<job, odd, faults>>
     \/ /\ Purging(job[c]) \/ job[c].inst # All
        /\ Fault /\ UNCHANGED <<exists, port>> /\ odd' = odd \cup About(job[c])
        /\ IF job[c].verb = "start" THEN Go(c, "read") /\ UNCHANGED job ELSE End(c)
  /\ UNCHANGED <<alias, master, coop, last, left, begun>>

\* wipe_data_dir, remove_state and remove_self_binary; a build of cargo stays, and so
\* does one the user may not delete.
RemoveSelf(c) ==
  /\ pc[c] = "self" /\ End(c)
  /\ \/ coop' = (IF job[c].verb = "keep" THEN "kept" ELSE "removed") /\ UNCHANGED faults
     \/ Fault /\ UNCHANGED coop
  /\ UNCHANGED <<exists, port, alias, master, last, odd, left, begun>>

Kill(c) ==
  /\ pc[c] # "idle" /\ Fault /\ End(c) /\ odd' = odd \cup About(job[c])
  /\ left' = IF pc[c] = "close" THEN left \cup (master \cap {job[c].at}) ELSE left
  /\ UNCHANGED <<exists, port, alias, master, coop, last, begun>>

Next ==
  \/ \E c \in Commands :
       \/ \E i \in Insts : Start(c, i) \/ Restart(c, i) \/ WriteConfig(c, i) \/ Clean(c, i) \/ Destroy(c, i)
       \/ \E v \in {"purge", "uninstall"} : Purge(c, v)
       \/ UninstallKeepingData(c) \/ Boot(c) \/ wait_until_ready(c) \/ Ready(c)
       \/ ReadConfig(c) \/ WriteBack(c) \/ Drop(c) \/ RemoveSelf(c) \/ Kill(c)
  \/ \E i \in Insts : Stop(i)
  \/ \E i \in Insts, k \in {"shell", "run", "exec"}, r \in Codes : Session(i, k, r)
  \/ \E p \in Ports : Persisted(p)

Spec == Init /\ [][Next]_vars
-----------------------------------------------------------------------------
Settled == Insts \ (odd \cup Touched(Busy))

\* An alias leads to an instance that exists and, while it runs, to its own port,
\* though the port changes at each start, unless commands rewrote the file at the
\* same time or one was stopped halfway.
AliasesHold ==
  \A i \in Settled : alias[i] # None => i \in exists /\ port[i] \in {None, alias[i]}

\* The connection the probes share is closed before the command goes on, so that
\* nothing later runs through it.
MastersClosed ==
  master \subseteq left \cup {job[c].at : c \in {d \in Commands : pc[d] = "close"}}

\* coop is gone with its data only when no instance and no alias is left.
UninstallIsComplete ==
  coop = "removed" => \A i \in Insts \ odd : i \notin exists /\ alias[i] = None

SshHolds == AliasesHold /\ MastersClosed /\ UninstallIsComplete
=============================================================================
