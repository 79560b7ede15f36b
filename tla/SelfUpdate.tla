------------------------------ MODULE SelfUpdate ------------------------------
(***************************************************************************)
(* `coop update` and the check for newer releases that other commands run  *)
(* in the background (src/src/update.rs).                                  *)
(*                                                                         *)
(* One update runs at a time, next to the check of one other command.  A   *)
(* step of the update may fail and coop may be killed between two.         *)
(***************************************************************************)
EXTENDS Naturals, FiniteSets, FiniteSetsExt

CONSTANTS
  Versions,    \* the releases, oldest first
  Bundled,     \* those whose tarball has a coop-proxy
  MaxFaults    \* bound on failures and kills

UpdateAssumption ==
  /\ Versions \subseteq Nat /\ Versions # {} /\ IsFiniteSet(Versions) /\ Bundled \subseteq Versions
  /\ MaxFaults \in Nat

None == "none"
Oldest == Min(Versions)

\* What a download of a release turns out to be: whether the tarball has the
\* checksum of SHA256SUMS, whether its provenance is attested, and whether the
\* release has a bundle to show it by.
Releases == [ver : Versions, sound : BOOLEAN, attested : BOOLEAN,
             bundle : {"absent", "empty", "there"}]

\* The user's gh: a gh before 2.56.0 takes an empty bundle for a proof; with
\* COOP_UPDATE_API_BASE_URL none is used.
Clients == {"test", "no gh", "old gh", "new gh"}

VARIABLES
  published,   \* the latest release
  coop, proxy, \* the binaries in place: the release they are of, and whether it
               \* is what was published, as far as the client could tell
  known,       \* update-check.json: the latest known version, and whether it
  due,         \* was checked longer ago than the interval
  bg,          \* the background check: off, or fetching
  pc,          \* the step of the update
  rel, client, \* its release and client
  bundle,      \* the attestation bundle it goes by
  torn,        \* whether an update was cut between its two swaps
  faults
vars == <<published, coop, proxy, known, due, bg, pc, rel, client, bundle, torn, faults>>

NoRel == [ver |-> Oldest, sound |-> TRUE, attested |-> TRUE, bundle |-> "there"]
Binary(r, c) ==
  [ver |-> r.ver, genuine |-> r.sound /\ (c \in {"old gh", "new gh"} => r.attested)]

TypeOK ==
  /\ published \in Versions /\ known \in Versions \cup {0} /\ due \in BOOLEAN
  /\ coop \in [ver : Versions, genuine : BOOLEAN] /\ proxy \in [ver : Versions, genuine : BOOLEAN]
  /\ bg \in {"off", "fetching"}
  /\ pc \in {"idle", "download", "sums", "provenance", "attest", "proxy", "coop", "persist"}
  /\ rel \in Releases /\ client \in Clients
  /\ bundle \in {None, "skip", "api", "empty", "file"} /\ torn \in BOOLEAN
  /\ faults \in 0..MaxFaults

\* A first installation, by install.sh.
Init ==
  /\ published = Oldest /\ known = 0 /\ due = TRUE /\ bg = "off"
  /\ coop = Binary(NoRel, "no gh") /\ proxy = Binary(NoRel, "no gh")
  /\ pc = "idle" /\ rel = NoRel /\ client = "no gh" /\ bundle = None /\ torn = FALSE /\ faults = 0

Fault == faults < MaxFaults /\ faults' = faults + 1
Abort == pc' = "idle" /\ rel' = NoRel /\ client' = "no gh" /\ bundle' = None
Go(p) == pc' = p /\ UNCHANGED <<rel, client, bundle>>

\* A release is published; time passes.
Publish ==
  /\ published < Max(Versions) /\ published' = Min({v \in Versions : v > published})
  /\ UNCHANGED <<coop, proxy, known, due, bg, pc, rel, client, bundle, torn, faults>>

IntervalElapses ==
  /\ ~due /\ due' = TRUE
  /\ UNCHANGED <<published, coop, proxy, known, bg, pc, rel, client, bundle, torn, faults>>
-----------------------------------------------------------------------------
(* coop update *)

\* run: the latest release if it is newer or forced, or the one that was pinned.
Run(r, c, force, pinned) ==
  /\ pc = "idle"
  /\ IF pinned THEN r.ver <= published ELSE r.ver = published
  /\ r.ver > coop.ver \/ force \/ pinned
  /\ pc' = "download" /\ rel' = r /\ client' = c
  /\ UNCHANGED <<published, coop, proxy, known, due, bg, bundle, torn, faults>>

\* perform_update: tarball and SHA256SUMS, by gh, curl with a token or plain curl.
Download ==
  /\ pc = "download"
  /\ \/ Go("sums") /\ UNCHANGED faults
     \/ Fault /\ Abort
  /\ UNCHANGED <<published, coop, proxy, known, due, bg, torn>>

\* verify_sha256 of the entry parse_sha256sums finds.
VerifySum ==
  /\ pc = "sums"
  /\ IF rel.sound THEN Go("provenance") ELSE Abort
  /\ UNCHANGED <<published, coop, proxy, known, due, bg, torn, faults>>

\* Mutant of Provenance: a bundle is used as it was downloaded.
AnyBundle(fetched) ==
  IF client \in {"test", "no gh"} THEN "skip"
  ELSE IF rel.bundle = "absent" \/ ~fetched THEN "api"
  ELSE IF rel.bundle = "empty" THEN "empty" ELSE "file"

\* resolve_provenance: a bundle that is not there, was not fetched or is empty
\* leaves the attestations API.
Provenance(fetched) ==
  IF client \in {"test", "no gh"} THEN "skip"
  ELSE IF rel.bundle \in {"absent", "empty"} \/ ~fetched THEN "api" ELSE "file"

ResolveProvenance ==
  /\ pc = "provenance" /\ pc' = "attest"
  /\ \E fetched \in BOOLEAN : bundle' = Provenance(fetched)
  /\ UNCHANGED <<published, coop, proxy, known, due, bg, rel, client, torn, faults>>

\* verify_attestation: what gh says of the tarball.
Attested ==
  \/ bundle = "skip"
  \/ bundle \in {"api", "file"} /\ rel.attested
  \/ bundle = "empty" /\ client = "old gh"

VerifyAttestation ==
  /\ pc = "attest"
  /\ \/ Attested /\ Go("proxy") /\ UNCHANGED faults
     \/ ~Attested /\ Abort /\ UNCHANGED faults
     \/ Fault /\ Abort    \* no login, or no answer
  /\ UNCHANGED <<published, coop, proxy, known, due, bg, torn>>

\* Mutant of ReplaceProxy: a proxy that cannot be written does not stop the update.
ReplaceProxyIfPossible ==
  /\ pc = "proxy" /\ Go("coop")
  /\ \/ proxy' = Binary(rel, client) /\ UNCHANGED faults
     \/ Fault /\ UNCHANGED proxy
  /\ UNCHANGED <<published, coop, known, due, bg, torn>>

\* replace_sibling_proxy: the proxy of the tarball, if it has one, is renamed
\* into place before coop is.
ReplaceProxy ==
  /\ pc = "proxy"
  /\ \/ /\ proxy' = IF rel.ver \in Bundled THEN Binary(rel, client) ELSE proxy
        /\ Go("coop") /\ UNCHANGED faults
     \/ rel.ver \in Bundled /\ Fault /\ Abort /\ UNCHANGED proxy
  /\ UNCHANGED <<published, coop, known, due, bg, torn>>

\* atomic_replace_self.
ReplaceSelf ==
  /\ pc = "coop"
  /\ \/ /\ coop' = Binary(rel, client) /\ torn' = FALSE
        /\ Go("persist") /\ UNCHANGED faults
     \/ Fault /\ Abort /\ torn' = TRUE /\ UNCHANGED coop
  /\ UNCHANGED <<published, proxy, known, due, bg>>

\* persist_state, whose failure is ignored.
Persist ==
  /\ pc = "persist" /\ Abort
  /\ \/ known' = rel.ver /\ due' = FALSE /\ UNCHANGED faults
     \/ Fault /\ UNCHANGED <<known, due>>
  /\ UNCHANGED <<published, coop, proxy, bg, torn>>

\* Files staged by a killed update lie under names of their own.
Kill ==
  /\ pc # "idle" /\ Fault /\ Abort
  /\ torn' = (torn \/ pc = "coop")
  /\ UNCHANGED <<published, coop, proxy, known, due, bg>>
-----------------------------------------------------------------------------
(* The background check *)

\* maybe_run_background_check: the stamp is written before the thread starts.
StartCheck ==
  /\ bg = "off" /\ due /\ bg' = "fetching" /\ due' = FALSE
  /\ UNCHANGED <<published, coop, proxy, known, pc, rel, client, bundle, torn, faults>>

\* The answer is written, or the command has ended before it came.
EndCheck ==
  /\ bg = "fetching" /\ bg' = "off"
  /\ \/ known' = published /\ due' = FALSE
     \/ UNCHANGED <<known, due>>
  /\ UNCHANGED <<published, coop, proxy, pc, rel, client, bundle, torn, faults>>

Next ==
  \/ Publish \/ IntervalElapses
  \/ \E r \in Releases, c \in Clients, f, p \in BOOLEAN : Run(r, c, f, p)
  \/ Download \/ VerifySum \/ ResolveProvenance \/ VerifyAttestation
  \/ ReplaceProxy \/ ReplaceSelf \/ Persist \/ Kill
  \/ StartCheck \/ EndCheck

Spec == Init /\ [][Next]_vars
-----------------------------------------------------------------------------
\* Whatever failed on the way: a binary in place has the published checksum, and
\* if gh was there its provenance is attested, however the release shows it
\* (an empty bundle shows nothing).
InstalledIsVerified ==
  coop.genuine /\ proxy.genuine

\* coop and the coop-proxy next to it are of one release, unless an update was
\* cut between the two swaps: one that cannot write the proxy leaves both.
InLockstep ==
  pc = "idle" /\ ~torn /\ coop.ver \in Bundled => proxy.ver = coop.ver
=============================================================================
