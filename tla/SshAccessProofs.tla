--------------------------- MODULE SshAccessProofs ---------------------------
(***************************************************************************)
(* SshAccess, proved for any commands, instances, ports and bounds: where  *)
(* aliases lead, that the shared connections are closed, and that an       *)
(* uninstall leaves nothing.                                               *)
(***************************************************************************)
EXTENDS SshAccess, TLAPS

\* An alias that leads where it says.
Fits(i) == alias[i] # None => i \in exists /\ port[i] \in {None, alias[i]}

\* Which commands take which steps.
Stages ==
  [start |-> {"boot", "probe", "close", "drop", "read", "write"},
   restart |-> {"boot", "probe", "close", "read", "write"},
   config |-> {"read", "write"}, clean |-> {"read", "write"},
   destroy |-> {"drop", "read", "write"}, purge |-> {"drop", "read", "write"},
   uninstall |-> {"drop", "read", "write", "self"}, keep |-> {"read", "write", "self"}]

Fields == {"verb", "inst", "at", "ready", "list", "doc"}

\* What an idle command, and one of each kind, has in its job.
JobFits(c) ==
  /\ DOMAIN job[c] = Fields
  /\ DOMAIN job[c].doc = Insts
  /\ pc[c] = "idle" => job[c].inst = None
  /\ pc[c] # "idle" =>
       /\ job[c].verb \in DOMAIN Stages /\ pc[c] \in Stages[job[c].verb]
       /\ IF job[c].verb \in {"purge", "uninstall", "keep"} THEN job[c].inst = All
          ELSE job[c].inst \in Insts
       /\ job[c].verb = "keep" => job[c].list = {}

SshShape ==
  /\ DOMAIN pc = Commands /\ DOMAIN job = Commands
  /\ DOMAIN alias = Insts /\ DOMAIN port = Insts
  /\ \A c \in Commands : JobFits(c)

\* What a command about i has established.
Stage(c, i) ==
  /\ job[c].verb = "start" =>
       alias[i] = None /\ (pc[c] \in {"boot", "probe", "close"} => i \in exists)
  /\ job[c].verb \in {"restart", "config", "clean"} => i \in exists
  /\ job[c].verb = "restart" /\ pc[c] # "boot" => port[i] = job[c].at
  /\ job[c].verb = "config" => port[i] = job[c].at
  /\ job[c].verb \in {"purge", "uninstall"} /\ pc[c] \in {"read", "write"} /\ job[c].list = {} =>
       i \notin exists
  /\ pc[c] = "self" => alias[i] = None /\ (job[c].verb = "uninstall" => i \notin exists)

\* Commands about one instance at once make it odd, and so do two that hold the file;
\* of the others, what the file says is what the command read, and what it has
\* established about its instances still holds.
SshInv ==
  /\ SshShape
  /\ \A c, d \in Busy : c # d => About(job[c]) \cap About(job[d]) \subseteq odd
  /\ \A c, d \in Commands : c # d /\ pc[c] = "write" /\ pc[d] = "write" =>
       About(job[c]) \subseteq odd
  /\ \A c \in Commands, i \in Insts : pc[c] = "write" /\ i \notin odd => job[c].doc[i] = alias[i]
  /\ \A c \in Busy : \A i \in About(job[c]) : i \notin odd => Stage(c, i)
  /\ \A i \in Insts : i \notin odd /\ port[i] # None => i \in exists
  /\ AliasesHold
  /\ UninstallIsComplete
  /\ coop = "removed" => \A c \in Busy : About(job[c]) \subseteq odd

LEMMA SshInit == SshAssumption /\ Init => SshInv /\ MastersClosed
<1>. SUFFICES ASSUME SshAssumption, Init PROVE SshInv /\ MastersClosed
  OBVIOUS
<1>1. \A c \in Commands : pc[c] = "idle" /\ job[c] = NoJob
  BY DEF Init
<1>2. SshShape
  BY <1>1 DEF Init, SshShape, JobFits, NoJob, Fields
<1>3. Busy = {}
  BY <1>1 DEF Busy
<1>. QED
  BY <1>1, <1>2, <1>3 DEF Init, SshInv, AliasesHold, Settled, UninstallIsComplete, MastersClosed

\* What a step of one command d does to the others: nothing, but to instances about
\* which commands overlapped.
Frame(d) ==
  /\ \A c \in Commands \ {d} : pc'[c] = pc[c] /\ job'[c] = job[c]
  /\ odd \subseteq odd'
  /\ \A i \in Insts \ odd' : i \notin About(job'[d]) \cup About(job[d]) =>
       (i \in exists' <=> i \in exists) /\ port'[i] = port[i] /\ alias'[i] = alias[i]
  /\ pc[d] # "idle" /\ pc'[d] # "idle" => About(job'[d]) = About(job[d])
  /\ pc[d] = "write" \/ alias' = alias
  /\ pc'[d] = "idle" \/ \A c \in Busy \ {d} : About(job[c]) \cap About(job'[d]) \subseteq odd'

\* ... and what it leaves behind.
Result(d) ==
  /\ SshShape'
  /\ pc'[d] = "write" => \A i \in Insts \ odd' : job'[d].doc[i] = alias'[i]
  /\ pc'[d] = "write" => \A c \in Commands \ {d} : pc[c] = "write" =>
       About(job'[d]) \cup About(job[c]) \subseteq odd'
  /\ pc'[d] # "idle" => \A i \in About(job'[d]) \ odd' : Stage(d, i)'
  /\ pc'[d] = "idle" => \A i \in About(job[d]) \ odd' : Fits(i)'
  /\ \A i \in (About(job[d]) \cup About(job'[d])) \ odd' : port'[i] # None => i \in exists'
  /\ coop' = "removed" =>
       \/ coop = "removed" /\ pc[d] # "idle"
       \/ /\ job[d].inst = All /\ pc'[d] = "idle"
          /\ \A i \in Insts \ odd' : i \notin exists' /\ alias'[i] = None

\* A command at work is about instances, an idle one about none.
LEMMA SshAbout ==
  ASSUME SshAssumption, SshShape, NEW c \in Commands
  PROVE  /\ About(job[c]) \subseteq Insts
         /\ pc[c] = "idle" => About(job[c]) = {}
<1>1. IF pc[c] = "idle" THEN job[c].inst = None ELSE job[c].inst \in Insts \cup {All}
  BY DEF SshShape, JobFits
<1>. QED
  BY <1>1 DEF About, SshAssumption, None, All

\* Both together keep the invariant: the argument about interleaving, once for all steps.
LEMMA SshCombine ==
  ASSUME SshAssumption, SshInv, NEW d \in Commands, Frame(d), Result(d)
  PROVE  SshInv'
<1>. DEFINE A(c) == About(job[c])
<1>0. SshShape /\ SshShape'
  BY DEF SshInv, Result
<1>1. /\ \A c \in Commands : A(c) \subseteq Insts /\ (pc[c] = "idle" => A(c) = {})
      /\ \A c \in Commands : A(c)' \subseteq Insts /\ (pc'[c] = "idle" => A(c)' = {})
  <2>1. \A c \in Commands : A(c) \subseteq Insts /\ (pc[c] = "idle" => A(c) = {})
    BY <1>0, SshAbout
  <2>2. \A c \in Commands : A(c)' \subseteq Insts /\ (pc'[c] = "idle" => A(c)' = {})
    <3>1. \A c \in Commands : IF pc'[c] = "idle" THEN job'[c].inst = None
                                ELSE job'[c].inst \in Insts \cup {All}
      BY <1>0 DEF SshShape, JobFits
    <3>. QED
      BY <3>1 DEF About, SshAssumption, None, All
  <2>. QED
    BY <2>1, <2>2
<1>2. \A c \in Commands \ {d} : pc'[c] = pc[c] /\ job'[c] = job[c] /\ A(c)' = A(c)
  BY DEF Frame, About
<1>3. /\ odd \subseteq odd'
      /\ \A i \in Insts \ odd' : i \notin A(d)' \cup A(d) =>
           (i \in exists' <=> i \in exists) /\ port'[i] = port[i] /\ alias'[i] = alias[i]
      /\ pc[d] # "idle" /\ pc'[d] # "idle" => A(d)' = A(d)
      /\ pc[d] = "write" \/ alias' = alias
      /\ pc'[d] = "idle" \/ \A c \in Busy \ {d} : A(c) \cap A(d)' \subseteq odd'
  BY DEF Frame, About
<1>4. /\ \A c, e \in Busy : c # e => A(c) \cap A(e) \subseteq odd
      /\ Busy' \ {d} = Busy \ {d}
      /\ d \in Busy <=> pc[d] # "idle"
      /\ d \in Busy' <=> pc'[d] # "idle"
  BY <1>2 DEF SshInv, Busy
<1>. HIDE DEF A
<1>5. \A c, e \in Busy' : c # e => A(c)' \cap A(e)' \subseteq odd'
  BY <1>2, <1>3, <1>4 DEF Busy
<1>6. \A c \in Busy \ {d} : A(c) \cap (A(d) \cup A(d)') \subseteq odd'
  BY <1>1, <1>3, <1>4
<1>7. \A c, e \in Commands : c # e /\ pc'[c] = "write" /\ pc'[e] = "write" => A(c)' \subseteq odd'
  <2>1. /\ \A c, e \in Commands : c # e /\ pc[c] = "write" /\ pc[e] = "write" => A(c) \subseteq odd
        /\ pc'[d] = "write" => \A c \in Commands \ {d} : pc[c] = "write" =>
             A(d)' \cup A(c) \subseteq odd'
    BY DEF SshInv, Result, A
  <2>. QED
    BY <2>1, <1>2, <1>3
<1>8. \A c \in Commands, i \in Insts : pc'[c] = "write" /\ i \notin odd' => job'[c].doc[i] = alias'[i]
  <2>1. ASSUME NEW c \in Commands \ {d}, NEW i \in Insts, pc[c] = "write", i \notin odd'
        PROVE  job[c].doc[i] = alias'[i]
    <3>1. job[c].doc[i] = alias[i] /\ i \notin odd
      BY <2>1, <1>3 DEF SshInv
    <3>2. CASE pc[d] = "write"
      <4>1. A(d) \subseteq odd
        BY <2>1, <3>2 DEF SshInv, A
      <4>2. A(d)' = A(d) \/ A(d)' = {}
        BY <3>2, <1>1, <1>3
      <4>. QED
        BY <2>1, <3>1, <4>1, <4>2, <1>3
    <3>. QED
      BY <3>1, <3>2, <1>3
  <2>. QED
    BY <1>2, <2>1 DEF Result
<1>9. ASSUME NEW c \in Busy', NEW i \in A(c)', i \notin odd' PROVE Stage(c, i)'
  <2>1. CASE c = d
    BY <1>9, <1>4, <2>1 DEF Result, A
  <2>2. CASE c # d
    <3>1. /\ c \in Busy \ {d} /\ i \in A(c) /\ i \notin odd /\ i \in Insts /\ c \in Commands
          /\ i \notin A(d)' \cup A(d)
      BY <1>9, <2>2, <1>1, <1>2, <1>3, <1>4, <1>6 DEF Busy
    <3>2. Stage(c, i)
      BY <3>1 DEF SshInv, A
    <3>3. /\ (i \in exists' <=> i \in exists) /\ port'[i] = port[i] /\ alias'[i] = alias[i]
          /\ pc'[c] = pc[c] /\ job'[c] = job[c]
      BY <1>9, <3>1, <1>2, <1>3
    <3>. QED
      BY <3>2, <3>3 DEF Stage
  <2>. QED
    BY <2>1, <2>2
<1>10. \A i \in Insts : i \notin odd' /\ port'[i] # None => i \in exists'
  <2>1. \A i \in Insts : i \notin odd /\ port[i] # None => i \in exists
    BY DEF SshInv
  <2>2. \A i \in (A(d) \cup A(d)') \ odd' : port'[i] # None => i \in exists'
    BY DEF Result, A
  <2>. QED
    BY <2>1, <2>2, <1>3
<1>11. AliasesHold'
  <2>. SUFFICES ASSUME NEW i \in Insts, i \notin odd', \A c \in Busy' : i \notin A(c)'
                PROVE  Fits(i)'
    BY DEF AliasesHold, Settled, Touched, Fits, A
  <2>1. CASE i \in A(d)
    <3>1. pc[d] # "idle"
      BY <2>1, <1>1
    <3>2. pc'[d] = "idle"
      BY <2>1, <3>1, <1>3, <1>4
    <3>. QED
      BY <2>1, <3>2 DEF Result, A
  <2>2. CASE i \notin A(d)
    <3>1. i \notin A(d)'
      BY <1>1, <1>4
    <3>2. \A c \in Busy : i \notin A(c)
      BY <2>2, <1>2, <1>4 DEF Busy
    <3>3. Fits(i)
      BY <3>2, <1>3 DEF SshInv, AliasesHold, Settled, Touched, Fits, A
    <3>. QED
      BY <2>2, <3>1, <3>3, <1>3 DEF Fits
  <2>. QED
    BY <2>1, <2>2
<1>12. coop' = "removed" =>
         /\ \A i \in Insts \ odd' : i \notin exists' /\ alias'[i] = None
         /\ \A c \in Busy' : A(c)' \subseteq odd'
  <2>1. CASE coop = "removed" /\ pc[d] # "idle"
    <3>1. /\ \A i \in Insts \ odd : i \notin exists /\ alias[i] = None
          /\ \A c \in Busy : A(c) \subseteq odd
      BY <2>1 DEF SshInv, UninstallIsComplete, A
    <3>2. A(d) \subseteq odd /\ A(d)' \subseteq odd
      BY <2>1, <3>1, <1>1, <1>3, <1>4
    <3>. QED
      BY <3>1, <3>2, <1>2, <1>3, <1>4 DEF Busy
  <2>2. CASE /\ job[d].inst = All /\ pc'[d] = "idle"
             /\ \A i \in Insts \ odd' : i \notin exists' /\ alias'[i] = None
    <3>1. A(d) = Insts /\ d \notin Busy'
      BY <2>2, <1>4 DEF A, About
    <3>. QED
      BY <2>2, <3>1, <1>1, <1>2, <1>4, <1>6 DEF Busy
  <2>. QED
    BY <2>1, <2>2 DEF Result
<1>. QED
  BY <1>0, <1>5, <1>7, <1>8, <1>9, <1>10, <1>11, <1>12 DEF SshInv, UninstallIsComplete, A

\* What Begin does, whatever the command is.
LEMMA SshBegin ==
  ASSUME SshAssumption, SshInv, NEW c \in Commands, NEW p \in {"boot", "read", "drop"}, NEW j,
         Begin(c, p, j), UNCHANGED <<port, alias, coop>>,
         DOMAIN j = Fields, DOMAIN j.doc = Insts, j.verb \in DOMAIN Stages, p \in Stages[j.verb],
         IF j.verb \in {"purge", "uninstall", "keep"} THEN j.inst = All ELSE j.inst \in Insts,
         j.verb = "keep" => j.list = {},
         exists \subseteq exists', \A i \in exists' \ exists : i \in About(j),
         \A i \in About(j) : i \notin odd' /\ Fits(i) => Stage(c, i)'
  PROVE  Frame(c) /\ Result(c)
<1>1. /\ coop = "installed" /\ pc[c] = "idle"
      /\ pc' = [pc EXCEPT ![c] = p] /\ job' = [job EXCEPT ![c] = j]
      /\ odd' = odd \cup UNION {About(job[d]) \cap About(j) : d \in Busy}
  BY DEF Begin, Go
<1>2. SshShape
  BY DEF SshInv
<1>3. /\ pc'[c] = p /\ job'[c] = j /\ About(job'[c]) = About(j)
      /\ \A d \in Commands \ {c} : pc'[d] = pc[d] /\ job'[d] = job[d]
      /\ About(job[c]) = {}
  BY <1>1, <1>2, SshAbout DEF SshShape
<1>4. About(j) \subseteq Insts
  BY DEF About, Stages
<1>5. \A d \in Busy : About(job[d]) \cap About(j) \subseteq odd'
  BY <1>1
<1>6. ASSUME NEW i \in About(j), i \notin odd' PROVE Stage(c, i)'
  <2>1. i \notin Touched(Busy) /\ i \notin odd /\ i \in Insts
    BY <1>1, <1>4, <1>6 DEF Touched
  <2>. QED
    BY <1>6, <2>1 DEF SshInv, AliasesHold, Settled, Fits
<1>7. SshShape'
  <2>1. JobFits(c)'
    BY <1>3 DEF JobFits, Fields
  <2>2. \A d \in Commands \ {c} : JobFits(d)'
    BY <1>2, <1>3 DEF SshShape, JobFits
  <2>. QED
    BY <1>1, <1>2, <2>1, <2>2 DEF SshShape
<1>8. Frame(c)
  BY <1>1, <1>3, <1>5 DEF Frame
<1>9. \A i \in About(j) \ odd' : port'[i] # None => i \in exists'
  BY <1>1, <1>4 DEF SshInv
<1>. QED
  BY <1>1, <1>3, <1>6, <1>7, <1>8, <1>9 DEF Result

LEMMA SshBegins ==
  ASSUME SshAssumption, SshInv, NEW c \in Commands, NEW i,
         \/ i \in Insts /\ Start(c, i)
         \/ i \in Insts /\ Restart(c, i)
         \/ i \in Insts /\ WriteConfig(c, i)
         \/ i \in Insts /\ Clean(c, i)
         \/ i \in Insts /\ Destroy(c, i)
         \/ (\E v \in {"purge", "uninstall"} : Purge(c, v)) \/ UninstallKeepingData(c)
  PROVE  Frame(c) /\ Result(c)
<1>1. /\ DOMAIN NoJob = Fields /\ NoJob.list = {} /\ DOMAIN NoJob.doc = Insts
  BY DEF NoJob, Fields
<1>2. All \notin Insts /\ None \notin Insts
  BY DEF SshAssumption
<1>3. ASSUME NEW j PROVE i \in Insts /\ j.inst = i => About(j) = {i}
  BY <1>2 DEF About
<1>4. SshShape
  BY DEF SshInv
<1>5. ASSUME NEW p, NEW j, Begin(c, p, j)
      PROVE  pc'[c] = p /\ job'[c] = j
  BY <1>4, <1>5 DEF Begin, Go, SshShape
<1>. USE DEF Fields
<1>6. CASE i \in Insts /\ Start(c, i)
  <2>. DEFINE j == [NoJob EXCEPT !.verb = "start", !.inst = i]
  <2>1. DOMAIN j = Fields /\ j.verb = "start" /\ j.inst = i /\ j.doc = NoJob.doc /\ j.list = {}
    BY <1>1
  <2>. HIDE DEF j
  <2>2. /\ Begin(c, "boot", j) /\ UNCHANGED <<port, alias, coop>> /\ exists' = exists \cup {i}
        /\ i \notin exists /\ i \in Insts
    BY <1>6 DEF Start, j
  <2>3. ASSUME Fits(i) PROVE Stage(c, i)'
    BY <1>5, <2>1, <2>2, <2>3 DEF Fits, Stage
  <2>. QED
    BY <1>1, <1>3, <2>1, <2>2, <2>3, SshBegin DEF Stages
<1>7. CASE i \in Insts /\ Restart(c, i)
  <2>. DEFINE j == [NoJob EXCEPT !.verb = "restart", !.inst = i]
  <2>1. DOMAIN j = Fields /\ j.verb = "restart" /\ j.inst = i /\ j.doc = NoJob.doc /\ j.list = {}
    BY <1>1
  <2>. HIDE DEF j
  <2>2. Begin(c, "boot", j) /\ UNCHANGED <<exists, port, alias, coop>> /\ i \in exists /\ i \in Insts
    BY <1>7 DEF Restart, j
  <2>3. ASSUME Fits(i), i \notin odd' PROVE Stage(c, i)'
    BY <1>5, <2>1, <2>2, <2>3 DEF Fits, Stage, SshInv, Begin
  <2>. QED
    BY <1>1, <1>3, <2>1, <2>2, <2>3, SshBegin DEF Stages
<1>8. CASE i \in Insts /\ WriteConfig(c, i)
  <2>. DEFINE j == [NoJob EXCEPT !.verb = "config", !.inst = i, !.at = port[i]]
  <2>1. DOMAIN j = Fields /\ j.verb = "config" /\ j.inst = i /\ j.doc = NoJob.doc /\ j.list = {} /\ j.at = port[i]
    BY <1>1
  <2>. HIDE DEF j
  <2>2. Begin(c, "read", j) /\ UNCHANGED <<exists, port, alias, coop>> /\ port[i] # None /\ i \in Insts
    BY <1>8 DEF WriteConfig, j
  <2>3. ASSUME Fits(i), i \notin odd' PROVE Stage(c, i)'
    BY <1>5, <2>1, <2>2, <2>3 DEF Fits, Stage, SshInv, Begin
  <2>. QED
    BY <1>1, <1>3, <2>1, <2>2, <2>3, SshBegin DEF Stages
<1>9. CASE i \in Insts /\ Clean(c, i)
  <2>. DEFINE j == [NoJob EXCEPT !.verb = "clean", !.inst = i]
  <2>1. DOMAIN j = Fields /\ j.verb = "clean" /\ j.inst = i /\ j.doc = NoJob.doc /\ j.list = {}
    BY <1>1
  <2>. HIDE DEF j
  <2>2. Begin(c, "read", j) /\ UNCHANGED <<exists, port, alias, coop>> /\ i \in exists /\ i \in Insts
    BY <1>9 DEF Clean, j
  <2>3. ASSUME Fits(i), i \notin odd' PROVE Stage(c, i)'
    BY <1>5, <2>1, <2>2, <2>3 DEF Fits, Stage, SshInv, Begin
  <2>. QED
    BY <1>1, <1>3, <2>1, <2>2, <2>3, SshBegin DEF Stages
<1>10. CASE i \in Insts /\ Destroy(c, i)
  <2>. DEFINE j == [NoJob EXCEPT !.verb = "destroy", !.inst = i]
  <2>1. DOMAIN j = Fields /\ j.verb = "destroy" /\ j.inst = i /\ j.doc = NoJob.doc /\ j.list = {}
    BY <1>1
  <2>. HIDE DEF j
  <2>2. Begin(c, "drop", j) /\ UNCHANGED <<exists, port, alias, coop>> /\ i \in exists /\ i \in Insts
    BY <1>10 DEF Destroy, j
  <2>3. ASSUME Fits(i), i \notin odd' PROVE Stage(c, i)'
    BY <1>5, <2>1, <2>2, <2>3 DEF Fits, Stage, SshInv, Begin
  <2>. QED
    BY <1>1, <1>3, <2>1, <2>2, <2>3, SshBegin DEF Stages
<1>11. ASSUME NEW v \in {"purge", "uninstall"}, Purge(c, v) PROVE Frame(c) /\ Result(c)
  <2>. DEFINE j == [NoJob EXCEPT !.verb = v, !.inst = All, !.list = exists]
  <2>1. DOMAIN j = Fields /\ j.verb = v /\ j.inst = All /\ j.doc = NoJob.doc
    BY <1>1
  <2>. HIDE DEF j
  <2>2. Begin(c, "drop", j) /\ UNCHANGED <<exists, port, alias, coop>>
    BY <1>11 DEF Purge, j
  <2>3. \A k \in About(j) : Stage(c, k)'
    BY <1>5, <2>1, <2>2 DEF Stage
  <2>. QED
    BY <1>1, <2>1, <2>2, <2>3, SshBegin DEF Stages
<1>12. CASE UninstallKeepingData(c)
  <2>. DEFINE j == [NoJob EXCEPT !.verb = "keep", !.inst = All]
  <2>1. DOMAIN j = Fields /\ j.verb = "keep" /\ j.inst = All /\ j.doc = NoJob.doc /\ j.list = {}
    BY <1>1
  <2>. HIDE DEF j
  <2>2. Begin(c, "read", j) /\ UNCHANGED <<exists, port, alias, coop>>
    BY <1>12 DEF UninstallKeepingData, j
  <2>3. \A k \in About(j) : Stage(c, k)'
    BY <1>5, <2>1, <2>2 DEF Stage
  <2>. QED
    BY <1>1, <2>1, <2>2, <2>3, SshBegin DEF Stages
<1>. QED
  BY <1>6, <1>7, <1>8, <1>9, <1>10, <1>11, <1>12


\* Command c goes to step p with what it has read, j; the others stay where they are.
Moves(c, p, j) ==
  /\ DOMAIN pc' = Commands /\ DOMAIN job' = Commands /\ pc'[c] = p /\ job'[c] = j
  /\ \A d \in Commands \ {c} : pc'[d] = pc[d] /\ job'[d] = job[d]

\* A step that goes on with its command as it was begun, or ends it.
LEMMA SshGoes ==
  ASSUME SshAssumption, SshInv, NEW c \in Commands, pc[c] # "idle", NEW p, NEW j,
         Moves(c, p, j), odd \subseteq odd',
         IF p = "idle" THEN j = NoJob
         ELSE /\ DOMAIN j = Fields /\ DOMAIN j.doc = Insts /\ j.verb = job[c].verb
              /\ j.inst = job[c].inst /\ p \in Stages[j.verb] /\ (j.verb = "keep" => j.list = {}),
         DOMAIN port' = Insts, DOMAIN alias' = Insts,
         \A i \in Insts \ odd' : i \notin About(job[c]) =>
           (i \in exists' <=> i \in exists) /\ port'[i] = port[i] /\ alias'[i] = alias[i],
         pc[c] = "write" \/ alias' = alias,
         \A i \in About(job[c]) \ odd' : port'[i] # None => i \in exists'
  PROVE  /\ Frame(c)
         /\ SshShape'
         /\ About(job'[c]) = IF p = "idle" THEN {} ELSE About(job[c])
         /\ \A i \in About(job[c]) : i \in Insts
         /\ \A i \in (About(job[c]) \cup About(job'[c])) \ odd' : port'[i] # None => i \in exists'
<1>1. SshShape /\ JobFits(c) /\ c \in Busy
  BY DEF SshInv, SshShape, Busy
<1>. USE DEF Moves
<1>2. NoJob.inst = None /\ About(NoJob) = {}
  BY DEF NoJob, About, None, All
<1>3. /\ About(job'[c]) = IF p = "idle" THEN {} ELSE About(job[c])
      /\ \A i \in About(job[c]) : i \in Insts
  BY <1>1, <1>2, SshAbout DEF About
<1>4. SshShape'
  <2>1. JobFits(c)'
    BY <1>1, <1>2 DEF JobFits, Fields, NoJob
  <2>2. \A d \in Commands \ {c} : JobFits(d)'
    BY <1>1 DEF SshShape, JobFits
  <2>. QED
    BY <1>1, <2>1, <2>2 DEF SshShape
<1>5. \A d \in Busy \ {c} : About(job[d]) \cap About(job[c]) \subseteq odd'
  BY <1>1 DEF SshInv
<1>6. Frame(c)
  BY <1>3, <1>5 DEF Frame
<1>. QED
  BY <1>3, <1>4, <1>6

LEMMA SshStage ==
  ASSUME SshInv, NEW c \in Commands, pc[c] # "idle"
  PROVE  /\ SshShape /\ JobFits(c) /\ DOMAIN pc = Commands /\ DOMAIN job = Commands
         /\ \A i \in About(job[c]) : i \notin odd => Stage(c, i)
         /\ \A i \in Insts : i \notin odd /\ port[i] # None => i \in exists
BY DEF SshInv, SshShape, Busy

LEMMA SshBoots ==
  ASSUME SshAssumption, SshInv, NEW c \in Commands, Boot(c) \/ wait_until_ready(c)
  PROVE  Frame(c) /\ Result(c)
<1>1. pc[c] # "idle"
  BY DEF Boot, wait_until_ready
<1>2. /\ SshShape /\ JobFits(c) /\ DOMAIN pc = Commands /\ DOMAIN job = Commands
      /\ \A i \in About(job[c]) : i \notin odd => Stage(c, i)
      /\ \A i \in Insts : i \notin odd /\ port[i] # None => i \in exists
  BY <1>1, SshStage
<1>3. CASE Boot(c)
  <2>1. PICK p \in Ports : /\ port' = [port EXCEPT ![job[c].inst] = p]
                           /\ job' = [job EXCEPT ![c].at = p]
    BY <1>3 DEF Boot
  <2>. DEFINE j == [job[c] EXCEPT !.at = p]
  <2>2. /\ pc[c] = "boot" /\ Moves(c, "probe", j)
        /\ UNCHANGED <<exists, alias, coop, odd>>
    BY <1>2, <1>3, <2>1 DEF Boot, Go, Moves
  <2>3. /\ DOMAIN j = Fields /\ j.doc = job[c].doc /\ j.verb = job[c].verb /\ j.inst = job[c].inst
        /\ j.at = p /\ j.list = job[c].list
    BY <1>2 DEF JobFits, Fields
  <2>. HIDE DEF j
  <2>4. job[c].verb \in {"start", "restart"} /\ job[c].inst \in Insts
    BY <1>2, <2>2 DEF JobFits, Stages
  <2>5. About(job[c]) = {job[c].inst}
    BY <2>4 DEF About, SshAssumption
  <2>6. /\ DOMAIN port' = Insts /\ port'[job[c].inst] = p
        /\ \A i \in Insts : i # job[c].inst => port'[i] = port[i]
    BY <1>2, <2>1, <2>4 DEF SshShape
  <2>7. /\ Frame(c) /\ SshShape' /\ About(job'[c]) = About(job[c])
        /\ \A i \in (About(job[c]) \cup About(job'[c])) \ odd' : port'[i] # None => i \in exists'
    <3>1. \A i \in About(job[c]) \ odd' : i \in exists'
      BY <1>2, <2>2, <2>4 DEF Stage
    <3>2. DOMAIN j.doc = Insts /\ "probe" \in Stages[j.verb] /\ (j.verb = "keep" => j.list = {})
          /\ DOMAIN alias' = Insts
      BY <1>2, <2>2, <2>3, <2>4 DEF JobFits, Stages, SshShape
    <3>. QED
      BY <1>1, <2>2, <2>3, <2>5, <2>6, <3>1, <3>2, SshGoes
  <2>8. \A i \in About(job'[c]) \ odd' : Stage(c, i)'
    BY <1>2, <2>2, <2>3, <2>4, <2>5, <2>6, <2>7 DEF Stage, Moves
  <2>. QED
    BY <1>1, <2>2, <2>7, <2>8 DEF Result, Moves
<1>4. CASE wait_until_ready(c)
  <2>. DEFINE j == job'[c]
  <2>1. /\ pc[c] = "probe" /\ Moves(c, "close", j)
        /\ UNCHANGED <<exists, port, alias, coop, odd>>
    BY <1>2, <1>4 DEF wait_until_ready, Go, Moves
  <2>2. /\ DOMAIN j = Fields /\ j.doc = job[c].doc /\ j.verb = job[c].verb /\ j.inst = job[c].inst
        /\ j.at = job[c].at /\ j.list = job[c].list
    BY <1>2, <1>4 DEF wait_until_ready, JobFits, Fields
  <2>. HIDE DEF j
  <2>3. job[c].verb \in {"start", "restart"}
    BY <1>2, <2>1 DEF JobFits, Stages
  <2>4. /\ Frame(c) /\ SshShape' /\ About(job'[c]) = About(job[c])
        /\ \A i \in (About(job[c]) \cup About(job'[c])) \ odd' : port'[i] # None => i \in exists'
    <3>1. DOMAIN j.doc = Insts /\ "close" \in Stages[j.verb] /\ (j.verb = "keep" => j.list = {})
      BY <1>2, <2>2, <2>3 DEF JobFits, Stages
    <3>2. \A i \in About(job[c]) \ odd' : port'[i] # None => i \in exists'
      BY <1>1, <1>2, <2>1, SshAbout
    <3>. QED
      BY <1>1, <1>2, <2>1, <2>2, <3>1, <3>2, SshGoes DEF SshShape
  <2>5. \A i \in About(job'[c]) \ odd' : Stage(c, i)'
    BY <1>2, <2>1, <2>2, <2>3, <2>4 DEF Stage, Moves
  <2>. QED
    BY <1>1, <2>1, <2>4, <2>5 DEF Result, Moves
<1>. QED
  BY <1>3, <1>4

LEMMA SshReadies ==
  ASSUME SshAssumption, SshInv, NEW c \in Commands, Ready(c)
  PROVE  Frame(c) /\ Result(c)
<1>1. pc[c] # "idle"
  BY DEF Ready
<1>2. /\ SshShape /\ JobFits(c) /\ DOMAIN pc = Commands /\ DOMAIN job = Commands
      /\ DOMAIN port = Insts /\ DOMAIN alias = Insts /\ DOMAIN NoJob.doc = Insts
      /\ \A i \in About(job[c]) : i \in Insts /\ (i \notin odd => Stage(c, i))
      /\ \A i \in Insts : i \notin odd /\ port[i] # None => i \in exists
  BY <1>1, SshStage, SshAbout DEF SshShape, NoJob
<1>3. job[c].verb \in {"start", "restart"} /\ job[c].inst \in Insts /\ pc[c] = "close"
  BY <1>2 DEF Ready, JobFits, Stages
<1>4. About(job[c]) = {job[c].inst} /\ UNCHANGED <<exists, port, alias, coop>> /\ odd \subseteq odd'
  BY <1>3 DEF Ready, About, SshAssumption
<1>5. \A i \in About(job[c]) \ odd' : port'[i] # None => i \in exists'
  BY <1>2, <1>4
<1>6. ASSUME NEW p \in {"drop", "read"}, Moves(c, p, job[c]), p \in Stages[job[c].verb], UNCHANGED odd,
             p = "read" => job[c].verb = "restart"
      PROVE  Frame(c) /\ Result(c)
  <2>1. /\ Frame(c) /\ SshShape' /\ About(job'[c]) = About(job[c])
        /\ \A i \in (About(job[c]) \cup About(job'[c])) \ odd' : port'[i] # None => i \in exists'
    BY <1>1, <1>2, <1>3, <1>4, <1>5, <1>6, SshGoes DEF JobFits
  <2>2. \A i \in About(job'[c]) \ odd' : Stage(c, i)'
    BY <1>2, <1>3, <1>4, <1>6, <2>1 DEF Stage, Moves
  <2>. QED
    BY <1>1, <1>4, <1>6, <2>1, <2>2 DEF Result, Moves
<1>7. CASE job[c].verb = "start" /\ ~job[c].ready
  BY <1>2, <1>6, <1>7 DEF Ready, Go, Moves, Stages
<1>8. CASE job[c].verb = "restart" /\ job[c].ready
  BY <1>2, <1>6, <1>8 DEF Ready, Go, Moves, Stages
<1>9. CASE (job[c].verb = "start") <=> job[c].ready
  <2>1. /\ Moves(c, "idle", NoJob)
        /\ odd' = IF job[c].ready THEN odd ELSE odd \cup {job[c].inst}
    BY <1>2, <1>3, <1>9 DEF Ready, End, Go, Moves
  <2>2. /\ Frame(c) /\ SshShape' /\ About(job'[c]) = {}
        /\ \A i \in (About(job[c]) \cup About(job'[c])) \ odd' : port'[i] # None => i \in exists'
    BY <1>1, <1>2, <1>3, <1>4, <1>5, <2>1, SshGoes
  <2>3. \A i \in About(job[c]) \ odd' : Fits(i)'
    BY <1>2, <1>3, <1>4, <1>9, <2>1 DEF Stage, Fits
  <2>. QED
    BY <1>1, <1>4, <2>1, <2>2, <2>3 DEF Result, Moves
<1>. QED
  BY <1>3, <1>7, <1>8, <1>9

LEMMA SshReads ==
  ASSUME SshAssumption, SshInv, NEW c \in Commands, ReadConfig(c)
  PROVE  Frame(c) /\ Result(c)
<1>1. pc[c] # "idle"
  BY DEF ReadConfig
<1>2. /\ SshShape /\ JobFits(c) /\ DOMAIN pc = Commands /\ DOMAIN job = Commands
      /\ DOMAIN port = Insts /\ DOMAIN alias = Insts /\ DOMAIN NoJob.doc = Insts
      /\ \A i \in About(job[c]) : i \in Insts /\ (i \notin odd => Stage(c, i))
      /\ \A i \in Insts : i \notin odd /\ port[i] # None => i \in exists
  BY <1>1, SshStage, SshAbout DEF SshShape, NoJob
<1>. DEFINE j == [job[c] EXCEPT !.doc = alias]
<1>3. /\ pc[c] = "read" /\ Moves(c, "write", j) /\ UNCHANGED <<exists, port, alias, coop>>
      /\ odd \subseteq odd'
      /\ \A d \in Commands : pc[d] = "write" => About(job[c]) \cup About(job[d]) \subseteq odd'
  BY <1>2 DEF ReadConfig, Go, Moves, Touched
<1>4. /\ DOMAIN j = Fields /\ j.doc = alias /\ j.verb = job[c].verb /\ j.inst = job[c].inst
      /\ j.at = job[c].at /\ j.list = job[c].list
  BY <1>2 DEF JobFits, Fields
<1>. HIDE DEF j
<1>5. "write" \in Stages[j.verb] /\ (j.verb = "keep" => j.list = {})
  BY <1>1, <1>2, <1>3, <1>4 DEF JobFits, Stages
<1>6. \A i \in About(job[c]) \ odd' : port'[i] # None => i \in exists'
  BY <1>2, <1>3
<1>7. /\ Frame(c) /\ SshShape' /\ About(job'[c]) = About(job[c])
      /\ \A i \in (About(job[c]) \cup About(job'[c])) \ odd' : port'[i] # None => i \in exists'
  BY <1>1, <1>2, <1>3, <1>4, <1>5, <1>6, SshGoes
<1>8. \A i \in About(job'[c]) \ odd' : Stage(c, i)'
  BY <1>2, <1>3, <1>4, <1>7 DEF Stage, Moves
<1>. QED
  BY <1>1, <1>3, <1>4, <1>7, <1>8 DEF Result, Moves

LEMMA SshKills ==
  ASSUME SshAssumption, SshInv, NEW c \in Commands, Kill(c)
  PROVE  Frame(c) /\ Result(c)
<1>1. pc[c] # "idle"
  BY DEF Kill
<1>2. /\ SshShape /\ JobFits(c) /\ DOMAIN pc = Commands /\ DOMAIN job = Commands
      /\ DOMAIN port = Insts /\ DOMAIN alias = Insts /\ DOMAIN NoJob.doc = Insts
      /\ \A i \in About(job[c]) : i \in Insts /\ (i \notin odd => Stage(c, i))
      /\ \A i \in Insts : i \notin odd /\ port[i] # None => i \in exists
  BY <1>1, SshStage, SshAbout DEF SshShape, NoJob
<1>3. /\ Moves(c, "idle", NoJob) /\ odd' = odd \cup About(job[c])
      /\ UNCHANGED <<exists, port, alias, coop>>
  BY <1>2 DEF Kill, End, Go, Moves
<1>4. /\ Frame(c) /\ SshShape' /\ About(job'[c]) = {}
      /\ \A i \in (About(job[c]) \cup About(job'[c])) \ odd' : port'[i] # None => i \in exists'
  BY <1>1, <1>2, <1>3, SshGoes
<1>. QED
  BY <1>1, <1>3, <1>4 DEF Result, Moves

LEMMA SshRemovesSelf ==
  ASSUME SshAssumption, SshInv, NEW c \in Commands, RemoveSelf(c)
  PROVE  Frame(c) /\ Result(c)
<1>1. pc[c] # "idle"
  BY DEF RemoveSelf
<1>2. /\ SshShape /\ JobFits(c) /\ DOMAIN pc = Commands /\ DOMAIN job = Commands
      /\ DOMAIN port = Insts /\ DOMAIN alias = Insts /\ DOMAIN NoJob.doc = Insts
      /\ \A i \in About(job[c]) : i \in Insts /\ (i \notin odd => Stage(c, i))
      /\ \A i \in Insts : i \notin odd /\ port[i] # None => i \in exists
  BY <1>1, SshStage, SshAbout DEF SshShape, NoJob
<1>3. /\ pc[c] = "self" /\ Moves(c, "idle", NoJob) /\ UNCHANGED <<exists, port, alias, odd>>
      /\ coop' # coop => coop' = IF job[c].verb = "keep" THEN "kept" ELSE "removed"
  BY <1>2 DEF RemoveSelf, End, Go, Moves
<1>4. job[c].inst = All /\ job[c].verb \in {"uninstall", "keep"} /\ About(job[c]) = Insts
  BY <1>1, <1>2, <1>3 DEF JobFits, Stages, About
<1>5. /\ Frame(c) /\ SshShape' /\ About(job'[c]) = {}
      /\ \A i \in (About(job[c]) \cup About(job'[c])) \ odd' : port'[i] # None => i \in exists'
  BY <1>1, <1>2, <1>3, SshGoes
<1>6. \A i \in About(job[c]) \ odd' :
        alias'[i] = None /\ (job[c].verb = "uninstall" => i \notin exists')
  BY <1>2, <1>3 DEF Stage
<1>. QED
  BY <1>1, <1>3, <1>4, <1>5, <1>6 DEF Result, Moves, Fits

LEMMA SshDrops ==
  ASSUME SshAssumption, SshInv, NEW c \in Commands, Drop(c)
  PROVE  Frame(c) /\ Result(c)
<1>1. pc[c] # "idle"
  BY DEF Drop
<1>2. /\ SshShape /\ JobFits(c) /\ DOMAIN pc = Commands /\ DOMAIN job = Commands
      /\ DOMAIN port = Insts /\ DOMAIN alias = Insts /\ DOMAIN NoJob.doc = Insts
      /\ \A i \in About(job[c]) : i \in Insts /\ (i \notin odd => Stage(c, i))
      /\ \A i \in Insts : i \notin odd /\ port[i] # None => i \in exists
  BY <1>1, SshStage, SshAbout DEF SshShape, NoJob
<1>3. /\ pc[c] = "drop" /\ UNCHANGED <<alias, coop>>
      /\ job[c].verb \in {"start", "destroy", "purge", "uninstall"}
      /\ About(job[c]) = IF job[c].inst = All THEN Insts ELSE {job[c].inst}
      /\ job[c].inst # All => job[c].verb \in {"start", "destroy"}
      /\ job[c].inst = All => job[c].verb \in {"purge", "uninstall"}
  BY <1>2 DEF Drop, JobFits, Stages, About, SshAssumption
<1>4. ASSUME NEW gone, Remove(gone), \A i \in gone \cap Insts : i \in About(job[c]),
             Moves(c, "read", job[c]), UNCHANGED odd,
             job[c].inst = All /\ job[c].list = {} => gone = exists
      PROVE  Frame(c) /\ Result(c)
  <2>1. exists' = exists \ gone /\ port' = [i \in Insts |-> IF i \in gone THEN None ELSE port[i]]
    BY <1>4 DEF Remove
  <2>2. /\ Frame(c) /\ SshShape' /\ About(job'[c]) = About(job[c])
        /\ \A i \in (About(job[c]) \cup About(job'[c])) \ odd' : port'[i] # None => i \in exists'
    <3>1. /\ DOMAIN port' = Insts
          /\ \A i \in Insts \ odd' : i \notin About(job[c]) =>
               (i \in exists' <=> i \in exists) /\ port'[i] = port[i] /\ alias'[i] = alias[i]
          /\ \A i \in About(job[c]) \ odd' : port'[i] # None => i \in exists'
      BY <1>2, <1>3, <1>4, <2>1
    <3>2. /\ "read" \in Stages[job[c].verb] /\ job[c].verb # "keep"
          /\ DOMAIN job[c] = Fields /\ DOMAIN job[c].doc = Insts
      BY <1>2, <1>3 DEF Stages, JobFits
    <3>3. DOMAIN alias' = Insts /\ UNCHANGED <<alias, odd>>
      BY <1>2, <1>3, <1>4
    <3>. QED
      BY <1>1, <1>4, <3>1, <3>2, <3>3, SshGoes
  <2>3. \A i \in About(job'[c]) \ odd' : Stage(c, i)'
    BY <1>2, <1>3, <1>4, <2>1, <2>2 DEF Stage, Moves
  <2>. QED
    BY <1>1, <1>3, <1>4, <2>2, <2>3 DEF Result, Moves
<1>5. CASE /\ Purging(job[c]) \/ job[c].inst # All
           /\ \E i \in IF job[c].inst = All THEN job[c].list ELSE {job[c].inst} : Remove({i})
           /\ Go(c, "read") /\ UNCHANGED <<job, odd, faults>>
  <2>1. PICK i \in IF job[c].inst = All THEN job[c].list ELSE {job[c].inst} : Remove({i})
    BY <1>5
  <2>2. Moves(c, "read", job[c])
    BY <1>2, <1>5 DEF Go, Moves
  <2>3. job[c].inst # All \/ job[c].list # {}
    BY <1>5 DEF Purging
  <2>. QED
    BY <1>3, <1>4, <1>5, <2>1, <2>2, <2>3
<1>6. CASE /\ job[c].inst = All /\ ~Purging(job[c])
           /\ Remove(exists) /\ Go(c, "read") /\ UNCHANGED <<job, odd, faults>>
  <2>1. Moves(c, "read", job[c])
    BY <1>2, <1>6 DEF Go, Moves
  <2>. QED
    BY <1>3, <1>4, <1>6, <2>1
<1>7. CASE /\ Purging(job[c]) \/ job[c].inst # All
           /\ Fault /\ UNCHANGED <<exists, port>> /\ odd' = odd \cup About(job[c])
           /\ IF job[c].verb = "start" THEN Go(c, "read") /\ UNCHANGED job ELSE End(c)
  <2>1. CASE job[c].verb = "start"
    <3>1. Moves(c, "read", job[c])
      BY <1>2, <1>7, <2>1 DEF Go, Moves
    <3>2. /\ Frame(c) /\ SshShape' /\ About(job'[c]) = About(job[c])
          /\ \A i \in (About(job[c]) \cup About(job'[c])) \ odd' : port'[i] # None => i \in exists'
      <4>1. "read" \in Stages[job[c].verb] /\ job[c].verb # "keep"
        BY <2>1 DEF Stages
      <4>. QED
        BY <1>1, <1>2, <1>3, <1>7, <3>1, <4>1, SshGoes DEF JobFits
    <3>. QED
      BY <1>1, <1>3, <1>7, <3>1, <3>2 DEF Result, Moves
  <2>2. CASE job[c].verb # "start"
    <3>1. Moves(c, "idle", NoJob)
      BY <1>2, <1>7, <2>2 DEF End, Go, Moves
    <3>2. /\ Frame(c) /\ SshShape' /\ About(job'[c]) = {}
          /\ \A i \in (About(job[c]) \cup About(job'[c])) \ odd' : port'[i] # None => i \in exists'
      BY <1>1, <1>2, <1>3, <1>7, <3>1, SshGoes
    <3>. QED
      BY <1>1, <1>3, <1>7, <3>1, <3>2 DEF Result, Moves
  <2>. QED
    BY <2>1, <2>2
<1>. QED
  BY <1>5, <1>6, <1>7 DEF Drop

\* What an edit makes of the blocks: of others than those it is about, nothing.
LEMMA SshEdits ==
  ASSUME SshAssumption, SshInv, NEW c \in Commands, pc[c] = "write", NEW i \in Insts, i \notin odd
  PROVE  /\ i \notin About(job[c]) => Edited(job[c])[i] = alias[i]
         /\ i \in About(job[c]) =>
              Edited(job[c])[i] =
                CASE job[c].verb = "config" -> job[c].at
                  [] job[c].verb = "restart" -> IF alias[i] = None THEN None ELSE job[c].at
                  [] Purging(job[c]) -> IF i \in job[c].list \ exists THEN None ELSE alias[i]
                  [] OTHER -> None
<1>1. /\ JobFits(c) /\ job[c].doc[i] = alias[i] /\ DOMAIN job[c].doc = Insts
      /\ Purging(job[c]) => job[c].inst = All
  BY DEF SshInv, SshShape, JobFits, Purging
<1>. USE DEF Edited, update_ssh_config, ssh_config_block, refresh_ssh_config_if_present,
         marker_block_present, remove_marker_blocks, remove_named_marker_block
<1>2. CASE job[c].inst = All
  <2>1. job[c].verb \in {"purge", "uninstall", "keep"} /\ About(job[c]) = Insts
    BY <1>1, <1>2 DEF JobFits, About, SshAssumption
  <2>. QED
    BY <1>1, <1>2, <2>1
<1>3. CASE job[c].inst # All
  <2>1. /\ job[c].verb \notin {"purge", "uninstall", "keep"} /\ About(job[c]) = {job[c].inst}
        /\ ~Purging(job[c]) /\ job[c].inst \in Insts
    BY <1>1, <1>3 DEF JobFits, About, SshAssumption
  <2>. QED
    BY <1>1, <1>3, <2>1
<1>. QED
  BY <1>2, <1>3

LEMMA SshWrites ==
  ASSUME SshAssumption, SshInv, NEW c \in Commands, WriteBack(c)
  PROVE  Frame(c) /\ Result(c)
<1>1. pc[c] # "idle"
  BY DEF WriteBack
<1>2. /\ SshShape /\ JobFits(c) /\ DOMAIN pc = Commands /\ DOMAIN job = Commands
      /\ DOMAIN port = Insts /\ DOMAIN alias = Insts /\ DOMAIN NoJob.doc = Insts
      /\ \A i \in About(job[c]) : i \in Insts /\ (i \notin odd => Stage(c, i))
      /\ \A i \in Insts : i \notin odd /\ port[i] # None => i \in exists
  BY <1>1, SshStage, SshAbout DEF SshShape, NoJob
<1>3. pc[c] = "write" /\ UNCHANGED <<exists, port, coop>>
  BY DEF WriteBack
<1>4. CASE /\ alias' = (IF Edited(job[c]) = job[c].doc THEN alias ELSE Edited(job[c]))
           /\ UNCHANGED <<odd, faults>>
           /\ CASE Purging(job[c]) -> /\ Go(c, "drop")
                                      /\ job' = [job EXCEPT ![c].list = @ \cap exists, ![c].doc = NoJob.doc]
                [] ~Purging(job[c]) /\ job[c].verb \in {"uninstall", "keep"} -> Go(c, "self") /\ UNCHANGED job
                [] OTHER -> End(c)
  <2>1. \A i \in Insts \ odd : alias'[i] = Edited(job[c])[i]
    BY <1>3, <1>4 DEF SshInv
  <2>2. /\ DOMAIN alias' = Insts /\ UNCHANGED odd
        /\ \A i \in Insts \ odd' : i \notin About(job[c]) =>
             (i \in exists' <=> i \in exists) /\ port'[i] = port[i] /\ alias'[i] = alias[i]
        /\ \A i \in About(job[c]) \ odd' : port'[i] # None => i \in exists'
    <3>1. DOMAIN Edited(job[c]) = Insts
      BY <1>2 DEF JobFits, Edited, update_ssh_config, ssh_config_block, refresh_ssh_config_if_present,
         marker_block_present, remove_marker_blocks, remove_named_marker_block
    <3>. QED
      BY <1>2, <1>3, <1>4, <2>1, <3>1, SshEdits
  <2>3. CASE Purging(job[c])
    <3>. DEFINE j == job'[c]
    <3>0. /\ Go(c, "drop")
          /\ job' = [job EXCEPT ![c].list = @ \cap exists, ![c].doc = NoJob.doc]
      BY <1>4, <2>3
    <3>1. /\ DOMAIN j = Fields /\ j.doc = NoJob.doc /\ j.verb = job[c].verb /\ j.inst = job[c].inst
      BY <1>2, <3>0 DEF JobFits, Fields
    <3>2. Moves(c, "drop", j)
      BY <1>2, <3>0 DEF Go, Moves
    <3>. HIDE DEF j
    <3>3. job[c].verb \in {"purge", "uninstall"} /\ "drop" \in Stages[job[c].verb]
      BY <2>3 DEF Purging, Stages
    <3>4. /\ Frame(c) /\ SshShape' /\ About(job'[c]) = About(job[c])
          /\ \A i \in (About(job[c]) \cup About(job'[c])) \ odd' : port'[i] # None => i \in exists'
      BY <1>1, <1>2, <1>3, <2>2, <3>1, <3>2, <3>3, SshGoes
    <3>5. \A i \in About(job'[c]) \ odd' : Stage(c, i)'
      BY <3>1, <3>2, <3>3 DEF Stage, Moves
    <3>. QED
      BY <1>1, <1>3, <3>2, <3>4, <3>5 DEF Result, Moves
  <2>4. CASE ~Purging(job[c]) /\ job[c].verb \in {"uninstall", "keep"}
    <3>1. Moves(c, "self", job[c])
      BY <1>2, <1>4, <2>4 DEF Go, Moves
    <3>2. "self" \in Stages[job[c].verb] /\ (job[c].verb = "uninstall" => job[c].list = {})
      BY <2>4 DEF Stages, Purging
    <3>3. /\ Frame(c) /\ SshShape' /\ About(job'[c]) = About(job[c])
          /\ \A i \in (About(job[c]) \cup About(job'[c])) \ odd' : port'[i] # None => i \in exists'
      BY <1>1, <1>2, <1>3, <2>2, <3>1, <3>2, SshGoes DEF JobFits
    <3>4. \A i \in About(job[c]) \ odd' : alias'[i] = None
      BY <1>2, <1>3, <2>1, <2>2, <2>4, SshEdits
    <3>5. \A i \in About(job'[c]) \ odd' : Stage(c, i)'
      BY <1>2, <1>3, <2>2, <2>4, <3>1, <3>2, <3>3, <3>4 DEF Stage, Moves
    <3>. QED
      BY <1>1, <1>3, <3>1, <3>3, <3>5 DEF Result, Moves
  <2>5. CASE ~Purging(job[c]) /\ job[c].verb \notin {"uninstall", "keep"}
    <3>1. Moves(c, "idle", NoJob)
      BY <1>2, <1>4, <2>5 DEF End, Go, Moves
    <3>2. /\ Frame(c) /\ SshShape' /\ About(job'[c]) = {}
          /\ \A i \in (About(job[c]) \cup About(job'[c])) \ odd' : port'[i] # None => i \in exists'
      BY <1>1, <1>2, <1>3, <2>2, <3>1, SshGoes
    <3>3. \A i \in About(job[c]) \ odd' : Fits(i)'
      BY <1>2, <1>3, <2>1, <2>2, <2>5, SshEdits DEF Stage, Fits
    <3>. QED
      BY <1>1, <1>3, <3>1, <3>2, <3>3 DEF Result, Moves
  <2>. QED
    BY <2>3, <2>4, <2>5
<1>5. CASE /\ Fault /\ odd' = odd \cup About(job[c]) /\ UNCHANGED alias
           /\ IF job[c].verb = "keep" THEN Go(c, "self") /\ UNCHANGED job ELSE End(c)
  <2>1. CASE job[c].verb = "keep"
    <3>1. Moves(c, "self", job[c])
      BY <1>2, <1>5, <2>1 DEF Go, Moves
    <3>2. /\ Frame(c) /\ SshShape' /\ About(job'[c]) = About(job[c])
          /\ \A i \in (About(job[c]) \cup About(job'[c])) \ odd' : port'[i] # None => i \in exists'
      <4>1. "self" \in Stages[job[c].verb] /\ job[c].list = {}
        BY <1>1, <1>2, <2>1 DEF Stages, JobFits
      <4>. QED
        BY <1>1, <1>2, <1>3, <1>5, <3>1, <4>1, SshGoes DEF JobFits
    <3>. QED
      BY <1>1, <1>3, <1>5, <3>1, <3>2 DEF Result, Moves
  <2>2. CASE job[c].verb # "keep"
    <3>1. Moves(c, "idle", NoJob)
      BY <1>2, <1>5, <2>2 DEF End, Go, Moves
    <3>2. /\ Frame(c) /\ SshShape' /\ About(job'[c]) = {}
          /\ \A i \in (About(job[c]) \cup About(job'[c])) \ odd' : port'[i] # None => i \in exists'
      BY <1>1, <1>2, <1>3, <1>5, <3>1, SshGoes
    <3>. QED
      BY <1>1, <1>3, <1>5, <3>1, <3>2 DEF Result, Moves
  <2>. QED
    BY <2>1, <2>2
<1>. QED
  BY <1>4, <1>5 DEF WriteBack

\* A session, a stop, the end of an old connection: no command takes the step.
Aside ==
  /\ UNCHANGED <<pc, job, coop, odd, alias, exists>> /\ DOMAIN port' = Insts
  /\ \A i \in Insts :
       port'[i] = port[i] \/ (port'[i] = None /\ \A d \in Busy : i \notin About(job[d]))

LEMMA SshAlone ==
  SshAssumption /\ SshInv /\ Aside => SshInv'
<1>. SUFFICES ASSUME SshAssumption, SshInv, Aside PROVE SshInv'
  OBVIOUS
<1>. USE DEF Aside
<1>1. SshShape'
  BY DEF SshInv, SshShape, JobFits
<1>2. /\ Busy' = Busy
      /\ \A c \in Commands : About(job[c])' = About(job[c])
  BY DEF Busy, About
<1>3. ASSUME NEW c \in Busy, NEW i \in About(job[c]), i \notin odd PROVE Stage(c, i)'
  <2>1. i \in Insts /\ port'[i] = port[i] /\ Stage(c, i)
    BY <1>3, SshAbout DEF SshInv, Busy
  <2>. QED
    BY <2>1 DEF Stage
<1>4. AliasesHold'
  <2>1. Settled' = Settled
    BY <1>2 DEF Settled, Touched, Busy
  <2>. QED
    BY <2>1 DEF SshInv, AliasesHold, Settled
<1>. QED
  BY <1>1, <1>2, <1>3, <1>4 DEF SshInv, UninstallIsComplete, Busy

LEMMA SshStep == SshAssumption /\ SshInv /\ [Next]_vars => SshInv'
<1>. SUFFICES ASSUME SshAssumption, SshInv, [Next]_vars PROVE SshInv'
  OBVIOUS
<1>1. ASSUME NEW c \in Commands, Frame(c) /\ Result(c) PROVE SshInv'
  BY <1>1, SshCombine
<1>2. ASSUME NEW c \in Commands, NEW i \in Insts,
             Start(c, i) \/ Restart(c, i) \/ WriteConfig(c, i) \/ Clean(c, i) \/ Destroy(c, i)
      PROVE  SshInv'
  <2>1. \/ i \in Insts /\ Start(c, i)
        \/ i \in Insts /\ Restart(c, i)
        \/ i \in Insts /\ WriteConfig(c, i)
        \/ i \in Insts /\ Clean(c, i)
        \/ i \in Insts /\ Destroy(c, i)
    BY <1>2
  <2>2. Frame(c) /\ Result(c)
    BY <2>1, SshBegins
  <2>. QED
    BY <1>1, <2>2
<1>3. ASSUME NEW c \in Commands,
             (\E v \in {"purge", "uninstall"} : Purge(c, v)) \/ UninstallKeepingData(c)
      PROVE  SshInv'
  BY <1>1, <1>3, SshBegins
<1>4. ASSUME NEW c \in Commands, Boot(c) \/ wait_until_ready(c) PROVE SshInv'
  BY <1>1, <1>4, SshBoots
<1>5. ASSUME NEW c \in Commands, Ready(c) PROVE SshInv'
  BY <1>1, <1>5, SshReadies
<1>6. ASSUME NEW c \in Commands, ReadConfig(c) \/ WriteBack(c) PROVE SshInv'
  BY <1>1, <1>6, SshReads, SshWrites
<1>7. ASSUME NEW c \in Commands, Drop(c) \/ RemoveSelf(c) \/ Kill(c) PROVE SshInv'
  BY <1>1, <1>7, SshDrops, SshRemovesSelf, SshKills
<1>8. ASSUME UNCHANGED <<pc, job, coop, odd, alias, exists, port>> PROVE SshInv'
  <2>1. UNCHANGED <<pc, job, coop, odd, alias, exists>> /\ port' = port
    BY <1>8
  <2>2. DOMAIN port' = Insts
    BY <2>1 DEF SshInv, SshShape
  <2>. QED
    BY <2>1, <2>2, SshAlone DEF Aside
<1>9. ASSUME NEW i \in Insts, Stop(i) PROVE SshInv'
  <2>1. /\ DOMAIN port' = Insts /\ port' = [port EXCEPT ![i] = None]
        /\ \A d \in Busy : i \notin About(job[d])
        /\ UNCHANGED <<pc, job, coop, odd, alias, exists>> /\ DOMAIN port = Insts
    BY <1>9 DEF Stop, SshInv, SshShape
  <2>2. \A k \in Insts : IF k = i THEN port'[k] = None ELSE port'[k] = port[k]
    BY <2>1
  <2>. QED
    BY <2>1, <2>2, SshAlone DEF Aside
<1>10. ASSUME NEW i \in Insts, NEW k \in {"shell", "run", "exec"}, NEW r \in Codes, Session(i, k, r)
       PROVE  SshInv'
  BY <1>8, <1>10 DEF Session
<1>11. ASSUME NEW p \in Ports, Persisted(p) PROVE SshInv'
  BY <1>8, <1>11 DEF Persisted
<1>12. CASE UNCHANGED vars
  BY <1>8, <1>12 DEF vars
<1>. QED
  BY <1>2, <1>3, <1>4, <1>5, <1>6, <1>7, <1>9, <1>10, <1>11, <1>12 DEF Next

\* An open master is about to be closed, or nobody closes it any more.
Kept(p) == p \in left \/ \E c \in Commands : pc[c] = "close" /\ job[c].at = p

LEMMA MastersStep == SshShape /\ MastersClosed /\ [Next]_vars => MastersClosed'
<1>. SUFFICES ASSUME SshShape, MastersClosed, [Next]_vars, NEW p \in master'
              PROVE  Kept(p)'
  BY DEF MastersClosed, Kept
<1>. USE DEF Kept
<1>1. DOMAIN pc = Commands /\ DOMAIN job = Commands
  BY DEF SshShape
<1>2. p \in master => Kept(p)
  BY DEF MastersClosed, Kept
<1>3. ASSUME NEW c \in Commands, pc[c] # "close", UNCHANGED <<master, left>>,
             \A d \in Commands \ {c} : pc'[d] = pc[d] /\ job'[d] = job[d]
      PROVE  Kept(p)'
  BY <1>2, <1>3
<1>4. ASSUME NEW c \in Commands, NEW q, NEW j, Begin(c, q, j)
      PROVE  /\ pc[c] # "close"
             /\ \A d \in Commands \ {c} : pc'[d] = pc[d] /\ job'[d] = job[d]
  BY <1>1, <1>4 DEF Begin, Go
<1>5. ASSUME NEW c \in Commands, NEW i \in Insts,
             Start(c, i) \/ Restart(c, i) \/ WriteConfig(c, i) \/ Clean(c, i) \/ Destroy(c, i)
      PROVE  Kept(p)'
  BY <1>3, <1>4, <1>5 DEF Start, Restart, WriteConfig, Clean, Destroy
<1>6. ASSUME NEW c \in Commands,
             (\E v \in {"purge", "uninstall"} : Purge(c, v)) \/ UninstallKeepingData(c)
      PROVE  Kept(p)'
  BY <1>3, <1>4, <1>6 DEF Purge, UninstallKeepingData
<1>7. ASSUME NEW c \in Commands, Boot(c) \/ ReadConfig(c) \/ RemoveSelf(c)
      PROVE  Kept(p)'
  BY <1>1, <1>3, <1>7 DEF Boot, ReadConfig, RemoveSelf, Go, End
<1>8. ASSUME NEW c \in Commands, wait_until_ready(c)
      PROVE  Kept(p)'
  <2>1. /\ pc[c] = "probe" /\ pc'[c] = "close" /\ left' = left
        /\ \A d \in Commands \ {c} : pc'[d] = pc[d] /\ job'[d] = job[d]
        /\ p \in master \/ p = job[c].at
    BY <1>1, <1>8 DEF wait_until_ready, Go
  <2>2. job'[c].at = job[c].at
    <3>1. job' = job \/ job' = [job EXCEPT ![c] = [job[c] EXCEPT !.ready = TRUE]]
      BY <1>8 DEF wait_until_ready
    <3>. QED
      BY <1>1, <3>1 DEF JobFits, SshShape, Fields
  <2>. QED
    BY <1>2, <2>1, <2>2
<1>9. ASSUME NEW c \in Commands, Ready(c)
      PROVE  Kept(p)'
  <2>1. /\ \A d \in Commands \ {c} : pc'[d] = pc[d] /\ job'[d] = job[d]
    BY <1>1, <1>9 DEF Ready, Go, End
  <2>2. \/ master' = master \ {job[c].at} /\ left' = left
        \/ master' = master /\ left' = left \cup {job[c].at}
    BY <1>9 DEF Ready, close_mux
  <2>. QED
    BY <1>2, <2>1, <2>2
<1>10. ASSUME NEW c \in Commands, WriteBack(c) \/ Drop(c)
       PROVE  Kept(p)'
  <2>1. /\ pc[c] # "close" /\ UNCHANGED <<master, left>>
        /\ \A d \in Commands \ {c} : pc'[d] = pc[d] /\ job'[d] = job[d]
    <3>1. CASE WriteBack(c)
      BY <1>1, <3>1 DEF WriteBack, Go, End
    <3>2. CASE Drop(c)
      BY <1>1, <3>2 DEF Drop, Go, End
    <3>. QED
      BY <1>10, <3>1, <3>2
  <2>. QED
    BY <1>3, <2>1
<1>11. ASSUME NEW c \in Commands, Kill(c)
       PROVE  Kept(p)'
  <2>1. /\ master' = master /\ \A d \in Commands \ {c} : pc'[d] = pc[d] /\ job'[d] = job[d]
        /\ left' = IF pc[c] = "close" THEN left \cup (master \cap {job[c].at}) ELSE left
    BY <1>1, <1>11 DEF Kill, Go, End
  <2>. QED
    BY <1>2, <2>1
<1>12. ASSUME UNCHANGED <<pc, job>>, master' \ left' \subseteq master \ left
       PROVE  Kept(p)'
  BY <1>2, <1>12
<1>13. ASSUME NEW q \in Ports, Persisted(q) PROVE UNCHANGED <<pc, job>> /\ master' \ left' \subseteq master \ left
  BY <1>13 DEF Persisted
<1>14. ASSUME \/ UNCHANGED vars \/ \E i \in Insts : Stop(i)
              \/ \E i \in Insts, k \in {"shell", "run", "exec"}, r \in Codes : Session(i, k, r)
       PROVE  UNCHANGED <<pc, job>> /\ master' \ left' \subseteq master \ left
  BY <1>14 DEF vars, Stop, Session
<1>. QED
  BY <1>5, <1>6, <1>7, <1>8, <1>9, <1>10, <1>11, <1>12, <1>13, <1>14 DEF Next

\* Aliases lead where they say, no shared connection outlives the wait, and coop goes
\* with its data only when nothing is left of it, whatever the number of commands.
THEOREM AliasesAreKept == ASSUME SshAssumption PROVE Spec => []SshHolds
<1>. DEFINE Inv == SshInv /\ MastersClosed
<1>1. Init => Inv
  BY SshInit
<1>2. Inv /\ [Next]_vars => Inv'
  BY SshStep, MastersStep DEF SshInv
<1>3. Inv => SshHolds
  BY DEF SshInv, SshHolds
<1>. QED
  BY <1>1, <1>2, <1>3, PTL DEF Spec
-----------------------------------------------------------------------------
(* Types *)

Jobs ==
  [verb : {None, "start", "restart", "config", "clean", "destroy", "purge", "uninstall", "keep"},
   inst : Insts \cup {None, All}, at : Maybe, ready : BOOLEAN, list : SUBSET Insts,
   doc : [Insts -> Maybe]]
Steps == {"idle", "boot", "probe", "close", "drop", "read", "write", "self"}

\* A command that waits for sshd has the port to ask.
Asks == \A c \in Commands : pc[c] \in {"probe", "close"} => job[c].at \in Ports

Files ==
  /\ exists \subseteq Insts /\ port \in [Insts -> Maybe] /\ alias \in [Insts -> Maybe]
  /\ master \subseteq Ports /\ left \subseteq Ports
Marks ==
  /\ odd \subseteq Insts /\ coop \in {"installed", "kept", "removed"}
  /\ begun \in 0..MaxCommands /\ faults \in 0..MaxFaults
  /\ last \in [kind : {None, "shell", "run", "exec"}, remote : Codes, own : Codes]
AtWork == pc \in [Commands -> Steps] /\ job \in [Commands -> Jobs] /\ Asks

\* What the steps make of a job.
LEMMA JobForms ==
  /\ NoJob \in Jobs
  /\ \A i \in Insts :
       /\ [NoJob EXCEPT !.verb = "start", !.inst = i] \in Jobs
       /\ [NoJob EXCEPT !.verb = "restart", !.inst = i] \in Jobs
       /\ [NoJob EXCEPT !.verb = "clean", !.inst = i] \in Jobs
       /\ [NoJob EXCEPT !.verb = "destroy", !.inst = i] \in Jobs
  /\ \A i \in Insts, p \in Maybe : [NoJob EXCEPT !.verb = "config", !.inst = i, !.at = p] \in Jobs
  /\ \A v \in {"purge", "uninstall"}, l \in SUBSET Insts :
       [NoJob EXCEPT !.verb = v, !.inst = All, !.list = l] \in Jobs
  /\ [NoJob EXCEPT !.verb = "keep", !.inst = All] \in Jobs
  /\ \A j \in Jobs, p \in Ports : [j EXCEPT !.at = p] \in Jobs /\ [j EXCEPT !.at = p].at = p
  /\ \A j \in Jobs : [j EXCEPT !.ready = TRUE] \in Jobs /\ [j EXCEPT !.ready = TRUE].at = j.at
  /\ \A j \in Jobs, d \in [Insts -> Maybe] : [j EXCEPT !.doc = d] \in Jobs
  /\ \A j \in Jobs, l \in SUBSET Insts, d \in [Insts -> Maybe] : [j EXCEPT !.list = l, !.doc = d] \in Jobs
BY DEF Jobs, NoJob, Maybe

\* What the fields of a job are.
LEMMA JobFields ==
  ASSUME SshAssumption, NEW j \in Jobs
  PROVE  /\ j.inst \in Insts \cup {None, All} /\ j.list \subseteq Insts /\ j.doc \in [Insts -> Maybe]
         /\ j.at \in Maybe /\ About(j) \subseteq Insts /\ NoJob.doc \in [Insts -> Maybe]
<1>1. /\ j.inst \in Insts \cup {None, All} /\ j.list \subseteq Insts /\ j.doc \in [Insts -> Maybe]
      /\ j.at \in Maybe /\ NoJob.doc \in [Insts -> Maybe]
  BY DEF Jobs, NoJob, Maybe
<1>. QED
  BY <1>1 DEF About

\* A command goes on with a job, j.
LEMMA GoesOn ==
  ASSUME AtWork, NEW c \in Commands, NEW p \in Steps, NEW j \in Jobs,
         pc' = [pc EXCEPT ![c] = p], job' = [job EXCEPT ![c] = j],
         p \in {"probe", "close"} => j.at \in Ports
  PROVE  AtWork'
<1>1. pc' \in [Commands -> Steps] /\ job' \in [Commands -> Jobs]
  BY DEF AtWork
<1>2. Asks'
  <2>. SUFFICES ASSUME NEW d \in Commands, pc'[d] \in {"probe", "close"} PROVE job'[d].at \in Ports
    BY DEF Asks
  <2>1. CASE d = c
    BY <2>1 DEF AtWork
  <2>2. CASE d # c
    <3>1. pc'[d] = pc[d] /\ job'[d] = job[d]
      BY <2>2 DEF AtWork
    <3>. QED BY <3>1 DEF AtWork, Asks
  <2>. QED BY <2>1, <2>2
<1>. QED BY <1>1, <1>2 DEF AtWork

\* ... or its job stays as it was, or it ends.
LEMMA GoesOnSame ==
  ASSUME AtWork, NEW c \in Commands, NEW p \in Steps,
         \/ Go(c, p) /\ job' = job /\ p \notin {"probe", "close"}
         \/ Go(c, p) /\ job' = job /\ pc[c] \in {"probe", "close"}
         \/ End(c)
  PROVE  AtWork'
<1>1. CASE End(c)
  BY <1>1, GoesOn, JobForms DEF End, Go, Steps
<1>2. CASE Go(c, p) /\ job' = job /\ (p \notin {"probe", "close"} \/ pc[c] \in {"probe", "close"})
  <2>1. job' = [job EXCEPT ![c] = job[c]] /\ job[c] \in Jobs
    BY <1>2 DEF AtWork
  <2>2. p \in {"probe", "close"} => job[c].at \in Ports
    BY <1>2 DEF AtWork, Asks
  <2>. QED BY <1>2, <2>1, <2>2, GoesOn DEF Go
<1>. QED BY <1>1, <1>2

LEMMA BeginTypes ==
  ASSUME SshAssumption, Marks, AtWork, NEW c \in Commands, NEW p \in {"boot", "read", "drop"},
         NEW j \in Jobs, Begin(c, p, j), UNCHANGED <<coop, faults>>
  PROVE  Marks' /\ AtWork'
<1>1. AtWork'
  BY GoesOn DEF Begin, Go, Steps
<1>2. odd' \subseteq Insts
  <2>1. About(j) \subseteq Insts
    BY JobFields
  <2>. QED BY <2>1 DEF Begin, Marks
<1>3. begun' \in 0..MaxCommands
  BY DEF Begin, Marks, SshAssumption
<1>4. last' \in [kind : {None, "shell", "run", "exec"}, remote : Codes, own : Codes]
  BY DEF Begin, NoSession, SshAssumption
<1>. QED BY <1>1, <1>2, <1>3, <1>4 DEF Marks
LEMMA SshTypesBegin ==
  ASSUME SshAssumption, Files, Marks, AtWork, NEW c \in Commands,
         \/ \E i \in Insts :
              Start(c, i) \/ Restart(c, i) \/ WriteConfig(c, i) \/ Clean(c, i) \/ Destroy(c, i)
         \/ \E v \in {"purge", "uninstall"} : Purge(c, v)
         \/ UninstallKeepingData(c)
  PROVE  Files' /\ Marks' /\ AtWork'
<1>1. ASSUME NEW i \in Insts, Start(c, i) PROVE Files' /\ Marks' /\ AtWork'
  BY <1>1, JobForms, BeginTypes DEF Start, Files
<1>2. ASSUME NEW i \in Insts, Restart(c, i) PROVE Files' /\ Marks' /\ AtWork'
  BY <1>2, JobForms, BeginTypes DEF Restart, Files
<1>3. ASSUME NEW i \in Insts, WriteConfig(c, i) PROVE Files' /\ Marks' /\ AtWork'
  <2>1. port[i] \in Maybe
    BY DEF Files
  <2>2. [NoJob EXCEPT !.verb = "config", !.inst = i, !.at = port[i]] \in Jobs
    BY <2>1, JobForms
  <2>. QED BY <1>3, <2>2, BeginTypes DEF WriteConfig, Files
<1>4. ASSUME NEW i \in Insts, Clean(c, i) PROVE Files' /\ Marks' /\ AtWork'
  BY <1>4, JobForms, BeginTypes DEF Clean, Files
<1>5. ASSUME NEW i \in Insts, Destroy(c, i) PROVE Files' /\ Marks' /\ AtWork'
  BY <1>5, JobForms, BeginTypes DEF Destroy, Files
<1>6. ASSUME NEW v \in {"purge", "uninstall"}, Purge(c, v) PROVE Files' /\ Marks' /\ AtWork'
  <2>1. exists \in SUBSET Insts
    BY DEF Files
  <2>2. [NoJob EXCEPT !.verb = v, !.inst = All, !.list = exists] \in Jobs
    BY <2>1, JobForms
  <2>. QED BY <1>6, <2>2, BeginTypes DEF Purge, Files
<1>7. ASSUME UninstallKeepingData(c) PROVE Files' /\ Marks' /\ AtWork'
  BY <1>7, JobForms, BeginTypes DEF UninstallKeepingData, Files
<1>. QED BY <1>1, <1>2, <1>3, <1>4, <1>5, <1>6, <1>7

LEMMA SshTypesBoot ==
  ASSUME SshAssumption, SshInv, Files, Marks, AtWork, NEW c \in Commands,
         Boot(c) \/ wait_until_ready(c) \/ Ready(c)
  PROVE  Files' /\ Marks' /\ AtWork'
<1>0. job[c] \in Jobs
  BY DEF AtWork
<1>1. CASE Boot(c)
  <2>1. PICK p \in Ports : port' = [port EXCEPT ![job[c].inst] = p] /\ job' = [job EXCEPT ![c].at = p]
    BY <1>1 DEF Boot
  <2>2. job' = [job EXCEPT ![c] = [job[c] EXCEPT !.at = p]]
    BY <2>1 DEF AtWork
  <2>3. [job[c] EXCEPT !.at = p] \in Jobs /\ [job[c] EXCEPT !.at = p].at = p
    BY <1>0, JobForms
  <2>4. AtWork'
    <3>1. pc' = [pc EXCEPT ![c] = "probe"] /\ "probe" \in Steps
      BY <1>1 DEF Boot, Go, Steps
    <3>. QED BY <2>2, <2>3, <3>1, GoesOn
  <2>5. port' \in [Insts -> Maybe]
    BY <2>1 DEF Files, Maybe
  <2>. QED BY <1>1, <2>4, <2>5 DEF Boot, Files, Marks
<1>2. CASE wait_until_ready(c)
  <2>1. job[c].at \in Ports /\ pc[c] = "probe"
    BY <1>2 DEF wait_until_ready, AtWork, Asks
  <2>0. Go(c, "close") /\ pc' = [pc EXCEPT ![c] = "close"] /\ "close" \in Steps
    BY <1>2 DEF wait_until_ready, Go, Steps
  <2>2. ASSUME job' = [job EXCEPT ![c].ready = TRUE] PROVE AtWork'
    <3>1. job' = [job EXCEPT ![c] = [job[c] EXCEPT !.ready = TRUE]]
      BY <2>2 DEF AtWork
    <3>2. [job[c] EXCEPT !.ready = TRUE] \in Jobs /\ [job[c] EXCEPT !.ready = TRUE].at = job[c].at
      BY <1>0, JobForms
    <3>. QED BY <2>0, <2>1, <3>1, <3>2, GoesOn
  <2>3. ASSUME job' = job PROVE AtWork'
    BY <2>0, <2>1, <2>3, GoesOnSame
  <2>4. AtWork'
    BY <1>2, <2>2, <2>3 DEF wait_until_ready
  <2>5. Files'
    BY <1>2, <2>1 DEF wait_until_ready, Files
  <2>6. faults' \in 0..MaxFaults
    BY <1>2 DEF wait_until_ready, Fault, Marks, SshAssumption
  <2>. QED BY <1>2, <2>4, <2>5, <2>6 DEF wait_until_ready, Marks
<1>3. CASE Ready(c)
  <2>1. AtWork'
    BY <1>3, GoesOnSame DEF Ready, Steps
  <2>2. Files'
    BY <1>3 DEF Ready, close_mux, Files
  <2>3. faults' \in 0..MaxFaults
    BY <1>3 DEF Ready, close_mux, Fault, Marks, SshAssumption
  <2>4. odd' \subseteq Insts
    <3>1. odd' \subseteq odd \cup {job[c].inst} /\ (odd' = odd \/ job[c].inst \in Insts)
      <4>1. pc[c] = "close" /\ (odd' = odd \/ odd' = odd \cup {job[c].inst})
        BY <1>3 DEF Ready
      <4>2. job[c].inst \in Insts
        BY <4>1 DEF SshInv, SshShape, JobFits, Stages
      <4>. QED BY <4>1, <4>2
    <3>. QED BY <3>1 DEF Marks
  <2>. QED BY <1>3, <2>1, <2>2, <2>3, <2>4 DEF Ready, Marks
<1>. QED BY <1>1, <1>2, <1>3

\* What is made of the file.
LEMMA EditedTypes ==
  ASSUME SshAssumption, NEW j \in Jobs
  PROVE  Edited(j) \in [Insts -> Maybe]
BY JobFields DEF Edited, update_ssh_config, ssh_config_block, refresh_ssh_config_if_present,
   remove_marker_blocks, remove_named_marker_block, Maybe

LEMMA SshTypesEdit ==
  ASSUME SshAssumption, SshInv, Files, Marks, AtWork, NEW c \in Commands,
         ReadConfig(c) \/ WriteBack(c)
  PROVE  Files' /\ Marks' /\ AtWork'
<1>0. job[c] \in Jobs
  BY DEF AtWork
<1>1. \A d \in Commands : About(job[d]) \subseteq Insts
  BY JobFields DEF AtWork
<1>2. CASE ReadConfig(c)
  <2>1. job' = [job EXCEPT ![c] = [job[c] EXCEPT !.doc = alias]]
    BY <1>2 DEF ReadConfig, AtWork
  <2>2. [job[c] EXCEPT !.doc = alias] \in Jobs
    BY <1>0, JobForms DEF Files
  <2>3. AtWork'
    BY <1>2, <2>1, <2>2, GoesOn DEF ReadConfig, Go, Steps
  <2>4. odd' \subseteq Insts
    <3>1. \A S \in SUBSET Commands : Touched(S) \subseteq Insts
      BY <1>1 DEF Touched
    <3>. QED BY <1>2, <3>1 DEF ReadConfig, Marks
  <2>. QED BY <1>2, <2>3, <2>4 DEF ReadConfig, Files, Marks
<1>3. CASE WriteBack(c)
  <2>1. alias' \in [Insts -> Maybe]
    <3>1. alias' = alias \/ alias' = Edited(job[c])
      BY <1>3 DEF WriteBack
    <3>. QED BY <1>0, <3>1, EditedTypes DEF Files
  <2>2. odd' \subseteq Insts
    BY <1>1, <1>3 DEF WriteBack, Marks
  <2>3. faults' \in 0..MaxFaults
    BY <1>3 DEF WriteBack, Fault, Marks, SshAssumption
  <2>4. AtWork'
    <3>1. CASE Go(c, "drop") /\ job' = [job EXCEPT ![c].list = @ \cap exists, ![c].doc = NoJob.doc]
      <4>. DEFINE l == job[c].list \cap exists
      <4>1. job' = [job EXCEPT ![c] = [job[c] EXCEPT !.list = l, !.doc = NoJob.doc]]
        BY <3>1 DEF AtWork
      <4>2. l \in SUBSET Insts /\ NoJob.doc \in [Insts -> Maybe]
        BY <1>0, JobFields
      <4>. HIDE DEF l
      <4>3. [job[c] EXCEPT !.list = l, !.doc = NoJob.doc] \in Jobs
        BY <1>0, <4>2, JobForms
      <4>. QED BY <3>1, <4>1, <4>3, GoesOn DEF Go, Steps
    <3>2. CASE (Go(c, "self") /\ job' = job) \/ End(c)
      BY <3>2, GoesOnSame DEF Steps
    <3>. QED BY <1>3, <3>1, <3>2 DEF WriteBack
  <2>. QED BY <1>3, <2>1, <2>2, <2>3, <2>4 DEF WriteBack, Files, Marks
<1>. QED BY <1>2, <1>3

LEMMA SshTypesEnd ==
  ASSUME SshAssumption, SshInv, Files, Marks, AtWork, NEW c \in Commands,
         Drop(c) \/ RemoveSelf(c) \/ Kill(c)
  PROVE  Files' /\ Marks' /\ AtWork'
<1>1. About(job[c]) \subseteq Insts
  BY JobFields DEF AtWork
<1>2. faults' \in 0..MaxFaults
  BY DEF Drop, RemoveSelf, Kill, Fault, Marks, SshAssumption
<1>3. AtWork'
  BY GoesOnSame DEF Drop, RemoveSelf, Kill, Steps
<1>4. CASE Drop(c)
  <2>1. odd' \subseteq Insts
    BY <1>1, <1>4 DEF Drop, Marks
  <2>2. UNCHANGED <<exists, port>> \/ \E is : Remove(is)
    BY <1>4 DEF Drop
  <2>3. exists' \subseteq Insts /\ port' \in [Insts -> Maybe]
    BY <2>2 DEF Remove, Files, Maybe
  <2>. QED BY <1>2, <1>3, <1>4, <2>1, <2>3 DEF Drop, Files, Marks
<1>5. CASE RemoveSelf(c)
  BY <1>2, <1>3, <1>5 DEF RemoveSelf, Files, Marks
<1>6. CASE Kill(c)
  BY <1>1, <1>2, <1>3, <1>6 DEF Kill, Files, Marks
<1>. QED BY <1>4, <1>5, <1>6

SshTyped == Files /\ Marks /\ AtWork

LEMMA SshTypedStep == SshAssumption /\ SshInv /\ SshTyped /\ [Next]_vars => SshTyped'
<1>. SUFFICES ASSUME SshAssumption, SshInv, Files, Marks, AtWork, [Next]_vars
              PROVE  Files' /\ Marks' /\ AtWork'
  BY DEF SshTyped
<1>1. ASSUME NEW i \in Insts, Stop(i) PROVE Files' /\ Marks' /\ AtWork'
  BY <1>1 DEF Stop, Files, Marks, AtWork, Asks, Maybe
<1>2. ASSUME NEW i \in Insts, NEW k \in {"shell", "run", "exec"}, NEW r \in Codes, Session(i, k, r)
      PROVE  Files' /\ Marks' /\ AtWork'
  BY <1>2 DEF Session, exit_code, Files, Marks, AtWork, Asks, SshAssumption
<1>3. ASSUME NEW p \in Ports, Persisted(p) PROVE Files' /\ Marks' /\ AtWork'
  BY <1>3 DEF Persisted, Files, Marks, AtWork, Asks
<1>4. CASE UNCHANGED vars
  BY <1>4 DEF vars, Files, Marks, AtWork, Asks
<1>. QED
  BY <1>1, <1>2, <1>3, <1>4, SshTypesBegin, SshTypesBoot, SshTypesEdit, SshTypesEnd DEF Next

LEMMA SshTypedInit == SshAssumption /\ Init => SshTyped
<1>. SUFFICES ASSUME SshAssumption, Init PROVE SshTyped
  OBVIOUS
<1>1. Files /\ Marks
  BY DEF Init, Files, Marks, Maybe, NoSession, SshAssumption
<1>2. AtWork
  BY JobForms DEF Init, AtWork, Asks, Steps
<1>. QED BY <1>1, <1>2 DEF SshTyped

LEMMA SshTypedTypes == SshTyped => TypeOK
BY DEF SshTyped, Files, Marks, AtWork, Jobs, Steps, TypeOK

\* Every variable keeps its type, whichever commands run side by side, fail or are killed:
\* what a command has read of the instances and of the file fits them.
THEOREM TypeCorrect == ASSUME SshAssumption PROVE Spec => []TypeOK
<1>. DEFINE Inv == SshInv /\ SshTyped
<1>1. Init => Inv
  BY SshInit, SshTypedInit
<1>2. Inv /\ [Next]_vars => Inv'
  BY SshStep, SshTypedStep
<1>. QED
  BY <1>1, <1>2, SshTypedTypes, PTL DEF Spec
=============================================================================
