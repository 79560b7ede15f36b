---------------------------- MODULE EgressConfig ----------------------------
(***************************************************************************)
(* What the private gateway makes of the provider's subscription (module   *)
(* `platform` of src/src/private_egress.rs: ensure_mihomo_binary,          *)
(* fetch_subscription, harden_config) and where traffic goes through it    *)
(* once mihomo runs the result, for every subscription and every           *)
(* [private_egress] table of src/src/config.rs.  The lock, the stamp and   *)
(* concurrent commands are those of EgressGateway; here one command at a   *)
(* time deploys, and a deployment is never skipped.                        *)
(*                                                                         *)
(* A choice is named <<beginning, end>>, for exit_choice_prefix and suffix,*)
(* or, as a group among the members of another, <<name>>.                  *)
(***************************************************************************)
EXTENDS Naturals, SequencesExt

CONSTANTS
  Subs,      \* subscriptions: [keys, dns, groups], a group [kind, proxies]
  Urls,      \* what subscription URLs are like
  Tables,    \* [private_egress] as written in config.toml
  MaxFaults  \* bound on failures, kills and restarts

None == "none"

\* RawPrivateEgressConfig::try_from: names that are there, and one rule for the exit.
try_from(raw) ==
  /\ "" \notin {raw.entry_group, raw.exit_group} /\ raw.entry_choice # <<"", "">>
  /\ \/ raw.exit_choice \notin {<<>>, <<"", "">>} /\ raw.exit_choice_prefix = None /\ raw.exit_choice_suffix = ""
     \/ raw.exit_choice = <<>> /\ raw.exit_choice_prefix \notin {None, ""}

\* GLOBAL is mihomo's own group, no table names it.
EgressAssumption ==
  /\ Subs # {} /\ Tables # {} /\ MaxFaults \in Nat
  /\ \A t \in Tables : "GLOBAL" \notin {t.entry_group, t.exit_group}

VARIABLES
  sub, url,  \* what the provider serves, and where
  want,      \* the table that was loaded
  pc, got,   \* the step of the command, and the configuration it has made
  binary,    \* /usr/local/bin/mihomo of the gateway
  file,      \* config.yaml and selector-state.json
  running,   \* what mihomo runs
  chosen,    \* the choice of each group in it
  cache,     \* choices of each group mihomo keeps across starts
  switch,    \* the kill switch: "closed" or "open"
  faults
vars == <<sub, url, want, pc, got, binary, file, running, chosen, cache, switch, faults>>

NoFile == [keys |-> {}, dns |-> <<>>, groups |-> <<>>, pins |-> <<>>, of |-> <<>>]

TypeOK ==
  /\ sub \in Subs /\ url \in Urls /\ want \in Tables /\ try_from(want)
  /\ pc \in {"idle", "binary", "resolve", "fetch", "harden", "install", "start"}
  /\ binary \in {None, "whole", "cut"} /\ switch \in {"closed", "open"} /\ faults \in 0..MaxFaults
  /\ running # NoFile => DOMAIN chosen = DOMAIN running.groups \cup {"GLOBAL"}

Init ==
  /\ sub \in Subs /\ url \in Urls /\ want \in {t \in Tables : try_from(t)}
  /\ pc = "idle" /\ got = NoFile /\ binary = None /\ file = NoFile
  /\ running = NoFile /\ chosen = <<>> /\ cache = <<>> /\ switch = "closed" /\ faults = 0

Fault == faults < MaxFaults /\ faults' = faults + 1
gatewayVars == <<binary, file, running, chosen, cache, switch>>
-----------------------------------------------------------------------------
(* Rewriting the subscription *)

\* Of two mappings the first wins.
Over(f, g) == [k \in DOMAIN f \cup DOMAIN g |-> IF k \in DOMAIN f THEN f[k] ELSE g[k]]

Listeners == {"port", "socks-port", "redir-port", "tproxy-port", "mixed-port", "listeners", "authentication",
              "skip-auth-prefixes", "lan-allowed-ips", "lan-disallowed-ips", "external-ui",
              "external-ui-url", "external-ui-name"}

Dropped == {"nameserver-policy", "fallback", "fallback-filter", "direct-nameserver",
            "direct-nameserver-follow-policy", "proxy-server-nameserver-policy"}

Forced(exit_group) == [k \in {"default-nameserver", "nameserver", "proxy-server-nameserver"} |->
                         IF k = "nameserver" THEN exit_group ELSE "bootstrap"]

\* A section that is no mapping (<<>> here) is replaced.
harden_dns(dns, exit_group) ==
  Over(Forced(exit_group), [k \in DOMAIN dns \ Dropped |-> dns[k]])

exit_matches(want_, name) ==
  IF want_.exit_choice # <<>> THEN name = want_.exit_choice
  ELSE name[1] = want_.exit_choice_prefix /\ want_.exit_choice_suffix \in {"", Last(name)}

entry_matches(want_, name) == name = want_.entry_choice

\* prioritize_choice: the first match, moved to the front; 0 for none.
EntryAt(groups, w) ==
  IF w.entry_group \notin DOMAIN groups THEN 0
  ELSE SelectInSeq(groups[w.entry_group].proxies, LAMBDA n : entry_matches(w, n))
ExitAt(groups, w) ==
  IF w.exit_group \notin DOMAIN groups THEN 0
  ELSE SelectInSeq(groups[w.exit_group].proxies, LAMBDA n : exit_matches(w, n))
prioritize_choice(groups, g, i) ==
  [groups EXCEPT ![g].proxies = <<@[i]>> \o RemoveAt(@, i)]

\* A configuration that lacks a group or a choice is an error, not a default; the exit is
\* looked for when the entry is in front.
Entered(s, w) == prioritize_choice(s.groups, w.entry_group, EntryAt(s.groups, w))
Hardenable(s, w) ==
  EntryAt(s.groups, w) # 0 /\ ExitAt(Entered(s, w), w) # 0

harden_config(s, w) ==
  LET entered == Entered(s, w)
      i == EntryAt(s.groups, w)
      j == ExitAt(entered, w)
  IN  [keys |-> (s.keys \ Listeners) \cup {"tun", "external-controller"},
       dns |-> harden_dns(s.dns, w.exit_group),
       groups |-> prioritize_choice(entered, w.exit_group, j),
       pins |-> <<<<w.entry_group, s.groups[w.entry_group].proxies[i]>>,
                  <<w.exit_group, entered[w.exit_group].proxies[j]>>, <<"GLOBAL", <<w.exit_group>>>>>>,
       of |-> w]
-----------------------------------------------------------------------------
(* The command *)

\* The provider changes what it serves; the user writes another table.
ProviderChanges(s) ==
  /\ sub' = s /\ Fault /\ UNCHANGED <<url, want, pc, got, gatewayVars>>
Reconfigure(t) ==
  /\ pc = "idle" /\ try_from(t) /\ want' = t /\ UNCHANGED <<sub, url, pc, got, gatewayVars, faults>>

\* The parts of ensure_gateway before EgressGateway's Install.
Begin ==
  /\ pc = "idle" /\ pc' = "binary" /\ UNCHANGED <<sub, url, want, got, gatewayVars, faults>>

\* Nothing downloaded is installed unless it has the digest of the release.
ensure_mihomo_binary ==
  /\ pc = "binary" /\ pc' = "resolve" /\ binary' = IF binary = None THEN "whole" ELSE binary
  /\ UNCHANGED <<sub, url, want, got, file, running, chosen, cache, switch, faults>>

\* The transfer ends with the command that feeds it: what has arrived is executable.
BinaryCut ==
  /\ pc = "binary" /\ binary = None /\ Fault /\ pc' = "idle" /\ binary' = "cut"
  /\ UNCHANGED <<sub, url, want, got, file, running, chosen, cache, switch>>

\* Both `cmd:` values, whether or not the gateway is up to date.
Resolve ==
  /\ pc = "resolve" /\ pc' = "fetch" /\ UNCHANGED <<sub, url, want, got, gatewayVars, faults>>

fetch_subscription ==
  /\ pc = "fetch" /\ url = "https"
  /\ pc' = "harden" /\ got' = [NoFile EXCEPT !.keys = sub.keys, !.dns = sub.dns, !.groups = sub.groups]
  /\ UNCHANGED <<sub, url, want, gatewayVars, faults>>

Harden ==
  /\ pc = "harden" /\ Hardenable(got, want)
  /\ pc' = "install" /\ got' = harden_config(got, want)
  /\ UNCHANGED <<sub, url, want, gatewayVars, faults>>

\* Errors: no HTTPS URL or one with userinfo; a group or choice that is not there.
Refused ==
  /\ \/ pc = "fetch" /\ url # "https"
     \/ pc = "harden" /\ ~Hardenable(got, want)
  /\ pc' = "idle" /\ got' = NoFile /\ UNCHANGED <<sub, url, want, gatewayVars, faults>>

\* A failed command, download, resolver or transfer; the gateway stays as it is.
Fails ==
  /\ pc # "idle" /\ Fault /\ pc' = "idle" /\ got' = NoFile
  /\ UNCHANGED <<sub, url, want, gatewayVars>>

\* install_gateway_config; a stop of mihomo closes the switch.
Install ==
  /\ pc = "install" /\ pc' = "start" /\ file' = got /\ got' = NoFile
  /\ running' = NoFile /\ chosen' = <<>> /\ switch' = "closed"
  /\ UNCHANGED <<sub, url, want, binary, cache, faults>>

verify_gateway_connectivity ==
  /\ pc = "start" /\ switch = "open" /\ pc' = "idle"
  /\ UNCHANGED <<sub, url, want, got, gatewayVars, faults>>
-----------------------------------------------------------------------------
(* The service *)

\* GLOBAL holds every group and proxy unless the provider defines it.
Members(f, g) ==
  IF g \in DOMAIN f.groups THEN ToSet(f.groups[g].proxies)
  ELSE {<<h>> : h \in DOMAIN f.groups} \cup UNION {ToSet(f.groups[h].proxies) : h \in DOMAIN f.groups}
Selectable(f, g) == IF g \in DOMAIN f.groups THEN f.groups[g].kind = "select" ELSE g = "GLOBAL"

\* profile.store-selected: a choice made earlier, where it is still a member; the first
\* of the list otherwise, of GLOBAL going direct.
StartMihomo ==
  /\ switch = "closed" /\ running = NoFile /\ file # NoFile /\ binary = "whole"
  /\ running' = file
  /\ chosen' = [g \in DOMAIN file.groups \cup {"GLOBAL"} |->
                  IF g \in DOMAIN cache /\ cache[g] \in Members(file, g) THEN cache[g]
                  ELSE IF g \in DOMAIN file.groups THEN file.groups[g].proxies[1] ELSE <<"DIRECT">>]
  /\ UNCHANGED <<sub, url, want, pc, got, binary, file, cache, switch, faults>>

\* Mutant of Pins: the exit is left to mihomo, which has it first in its group.
PinsButExit == <<file.pins[1], file.pins[3]>>

Pins == file.pins

\* mihomo-restore-selectors, then the switch: every pin is taken, in turn, or none is
\* relied on.
Restorable ==
  \A i \in DOMAIN Pins : Selectable(running, Pins[i][1]) /\ Pins[i][2] \in Members(running, Pins[i][1])

LastPin(g) == SelectLastInSeq(Pins, LAMBDA pin : pin[1] = g)

OpenSwitch ==
  /\ running # NoFile /\ switch = "closed" /\ Restorable
  /\ chosen' = [g \in DOMAIN chosen |-> IF LastPin(g) = 0 THEN chosen[g] ELSE Pins[LastPin(g)][2]]
  /\ cache' = Over(chosen', cache)
  /\ switch' = "open" /\ UNCHANGED <<sub, url, want, pc, got, binary, file, running, faults>>

\* The start fails, and the command that waits for it.
RestoreRefused ==
  /\ running # NoFile /\ switch = "closed" /\ ~Restorable
  /\ running' = NoFile /\ chosen' = <<>> /\ pc' = IF pc = "start" THEN "idle" ELSE pc
  /\ UNCHANGED <<sub, url, want, got, binary, file, cache, switch, faults>>

\* mihomo or the VM ends.
ServiceStops ==
  /\ running # NoFile /\ Fault /\ running' = NoFile /\ chosen' = <<>> /\ switch' = "closed"
  /\ UNCHANGED <<sub, url, want, pc, got, binary, file, cache>>

Next ==
  \/ \E s \in Subs : ProviderChanges(s)
  \/ \E t \in Tables : Reconfigure(t)
  \/ Begin \/ ensure_mihomo_binary \/ BinaryCut \/ Resolve \/ fetch_subscription \/ Harden
  \/ Refused \/ Fails \/ Install \/ verify_gateway_connectivity
  \/ StartMihomo \/ OpenSwitch \/ RestoreRefused \/ ServiceStops

Spec == Init /\ [][Next]_vars
-----------------------------------------------------------------------------
\* While the switch is open traffic leaves by the choice the installed table asks for,
\* whatever mihomo remembers from before and whichever groups the provider sends.
ExitIsRequested ==
  switch = "open" =>
    LET w == file.of
    IN  /\ chosen["GLOBAL"] = <<w.exit_group>> /\ exit_matches(w, chosen[w.exit_group])
        /\ w.entry_group # w.exit_group => chosen[w.entry_group] = w.entry_choice

\* Whom mihomo asks about the names its clients use.
Asked(dns) == {dns[k] : k \in DOMAIN dns \cap {"nameserver", "nameserver-policy", "fallback", "direct-nameserver"}}

\* Names are looked up through the exit, and nothing of the provider's listens.
NoOtherWay ==
  running # NoFile =>
    /\ Asked(running.dns) = {running.of.exit_group}
    /\ running.keys \cap Listeners = {}

EgressHolds == ExitIsRequested /\ NoOtherWay
=============================================================================
