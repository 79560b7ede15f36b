----------------------------- MODULE CodexAccount -----------------------------
(***************************************************************************)
(* Codex with a ChatGPT account: `coop codex` and its checks               *)
(* (src/src/lib.rs, src/src/backend.rs), and the wrapper in the guest that *)
(* creates or unlocks the keyring its credentials go to                    *)
(* (src/scripts/guest/codex-account.sh).  Several sessions start at once,  *)
(* by coop or in the guest, while the setting of the guest changes.        *)
(***************************************************************************)
CONSTANTS
  Sessions,    \* sessions at once
  Passwords    \* what a user may type

None == "none"

VARIABLES
  account,     \* codex.auth = "chatgpt"
  conflict,    \* an upstream for OpenAI beside it, by an override of the VM
  support,     \* the packages are in the image
  setting,     \* the guest's config.toml selects the keyring
  keyring,     \* the password of the keyring file, or None
  sure,        \* passwords that were typed twice
  pc,          \* the step of each session
  sess         \* what each wrapper knows, and its bus
vars == <<account, conflict, support, setting, keyring, sure, pc, sess>>

\* tty: a terminal to ask on; dbus, unlocked: the marks in the environment;
\* typed: the password; open: whether the daemon of the session's bus has the keyring
\* unlocked.
NoSession == [tty |-> FALSE, dbus |-> FALSE, unlocked |-> FALSE, typed |-> None, open |-> FALSE]

TypeOK ==
  /\ {account, conflict, support, setting} \subseteq BOOLEAN
  /\ keyring \in Passwords \cup {None} /\ sure \subseteq Passwords
  /\ pc \in [Sessions -> {"idle", "wrapper", "bus", "tools", "prompt", "confirm", "unlock", "probe",
                          "plain", "codex"}]
  /\ sess \in [Sessions -> [tty : BOOLEAN, dbus : BOOLEAN, unlocked : BOOLEAN, typed : Passwords \cup {None},
                            open : BOOLEAN]]

Init ==
  /\ account \in BOOLEAN /\ conflict \in BOOLEAN /\ support \in BOOLEAN
  /\ setting = FALSE /\ keyring = None /\ sure = {}
  /\ pc = [s \in Sessions |-> "idle"] /\ sess = [s \in Sessions |-> NoSession]

Go(s, p) == pc' = [pc EXCEPT ![s] = p]
Step(s, p, q) == pc[s] = p /\ Go(s, q)
Learn(s, r) == sess' = [sess EXCEPT ![s] = r]
Die(s) == Go(s, "idle") /\ Learn(s, NoSession)
Config == <<account, conflict, support, setting>>
-----------------------------------------------------------------------------
(* The host *)

\* coop start writes the setting of its configuration, an agent any.
ChangeSetting ==
  /\ setting' = ~setting /\ UNCHANGED <<account, conflict, support, keyring, sure, pc, sess>>

\* The user switches codex.auth, or the VM's upstream.
Switch ==
  /\ account' \in BOOLEAN /\ conflict' \in BOOLEAN
  /\ UNCHANGED <<support, setting, keyring, sure, pc, sess>>

\* ensure_codex_remote_auth_consistent, ensure_codex_account_guest_support,
\* ensure_codex_keyring_configured.
Ready == ~conflict /\ support /\ setting

\* coop codex: the wrapper for an account whose checks pass, else Codex itself.
CoopCodex(s) ==
  /\ pc[s] = "idle" /\ (account => Ready)
  /\ IF account THEN Go(s, "wrapper") /\ Learn(s, [NoSession EXCEPT !.tty = TRUE])
     ELSE Go(s, "plain") /\ UNCHANGED sess
  /\ UNCHANGED <<Config, keyring, sure>>

\* codex-account or codex-yolo in a shell of the guest.
GuestCodex(s) ==
  /\ Step(s, "idle", "wrapper") /\ \E t \in BOOLEAN : Learn(s, [NoSession EXCEPT !.tty = t])
  /\ UNCHANGED <<Config, keyring, sure>>

\* The same from within an agent, with its bus and its marks.
Nested(s) ==
  /\ Step(s, "codex", "wrapper") /\ UNCHANGED <<Config, keyring, sure, sess>>
-----------------------------------------------------------------------------
(* The wrapper *)

keyring_mode(s) ==
  /\ Step(s, "wrapper", IF setting THEN "bus" ELSE "plain")
  /\ UNCHANGED <<Config, keyring, sure, sess>>

\* dbus-run-session starts the wrapper anew, with a bus nobody serves yet.
SessionBus(s) ==
  /\ pc[s] = "bus" /\ UNCHANGED <<Config, keyring, sure>>
  /\ CASE sess[s].dbus -> Go(s, "tools") /\ UNCHANGED sess
       [] support /\ ~sess[s].dbus -> Go(s, "wrapper") /\ Learn(s, [sess[s] EXCEPT !.dbus = TRUE])
       [] OTHER -> Die(s)

CheckTools(s) ==
  /\ pc[s] = "tools" /\ UNCHANGED <<Config, keyring, sure>>
  /\ IF support THEN Go(s, IF sess[s].unlocked THEN "probe" ELSE "prompt") /\ UNCHANGED sess ELSE Die(s)

\* keyring_exists, then the password; none, an empty one or no terminal ends it.
Prompt(s) ==
  /\ pc[s] = "prompt" /\ UNCHANGED <<Config, keyring, sure>>
  /\ \/ \E p \in Passwords :
          /\ sess[s].tty /\ Learn(s, [sess[s] EXCEPT !.typed = p])
          /\ Go(s, IF keyring = None THEN "confirm" ELSE "unlock")
     \/ Die(s)

\* Mutant of Confirm: what is typed the second time is not compared.
ConfirmAnything(s) ==
  /\ Step(s, "confirm", "unlock")
  /\ \E p \in Passwords : sure' = IF p = sess[s].typed THEN sure \cup {p} ELSE sure
  /\ UNCHANGED <<Config, keyring, sess>>

Confirm(s) ==
  /\ pc[s] = "confirm" /\ UNCHANGED <<Config, keyring>>
  /\ \/ sure' = sure \cup {sess[s].typed} /\ Go(s, "unlock") /\ UNCHANGED sess
     \/ Die(s) /\ UNCHANGED sure

\* gnome-keyring-daemon --unlock: creates what there is not, and starts, whether the
\* password fits or not.
Unlock(s) ==
  /\ pc[s] = "unlock" /\ UNCHANGED <<Config, sure>>
  /\ LET made == IF keyring = None THEN sess[s].typed ELSE keyring IN
     \/ /\ keyring' = made /\ Go(s, "probe")
        /\ Learn(s, [sess[s] EXCEPT !.open = (made = sess[s].typed), !.unlocked = TRUE, !.typed = None])
     \/ Die(s) /\ keyring' \in {keyring, made}

\* Mutant of Probe: a lookup, which a locked collection answers too.
LookUp(s) ==
  /\ Step(s, "probe", "codex") /\ UNCHANGED <<Config, keyring, sure, sess>>

\* probe_keyring stores an item.
Probe(s) ==
  /\ pc[s] = "probe" /\ UNCHANGED <<Config, keyring, sure>>
  /\ \/ sess[s].open /\ Go(s, "codex") /\ UNCHANGED sess
     \/ Die(s)

Exit(s) ==
  /\ pc[s] \in {"codex", "plain"} /\ Die(s) /\ UNCHANGED <<Config, keyring, sure>>

Next ==
  \/ ChangeSetting \/ Switch
  \/ \E s \in Sessions :
       \/ CoopCodex(s) \/ GuestCodex(s) \/ Nested(s)
       \/ keyring_mode(s) \/ SessionBus(s) \/ CheckTools(s) \/ Prompt(s) \/ Confirm(s) \/ Unlock(s)
       \/ Probe(s) \/ Exit(s)

Spec == Init /\ [][Next]_vars
-----------------------------------------------------------------------------
(* Properties *)

\* The guest's keyring opens with a password its user typed twice, even when two
\* first sessions create it at once; and a Codex that was started for the keyring,
\* also from within another, has it unlocked.
KeyringUsable ==
  /\ keyring # None => keyring \in sure
  /\ \A s \in Sessions : pc[s] = "codex" => sess[s].open
================================================================================
