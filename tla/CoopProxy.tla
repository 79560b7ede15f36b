------------------------------- MODULE CoopProxy -------------------------------
(***************************************************************************)
(* coop-proxy, one process per proxied upstream (src/coop-proxy): it reads *)
(* its configuration from stdin, confines itself, and serves the guest's   *)
(* requests, many at a time.                                               *)
(*                                                                         *)
(* A request's synchronous stretches are single steps; between two awaits  *)
(* the other requests run, the guest may hang up, the upstream may fail or *)
(* say nothing, and the process may be told to stop.  hyper closes the     *)
(* upstream connection of a request whose future or body is dropped; that  *)
(* is part of the step that drops it.                                      *)
(***************************************************************************)
EXTENDS Naturals, FiniteSets, FiniteSetsExt

CONSTANTS
  Requests,               \* the requests in flight at once
  Incoming,               \* the headers they may come with: functions from names
                          \* to a value, [scheme, secret]
  Configs,                \* what coop may write to stdin
  MAX_CONCURRENT_REQUESTS

None == "none"
ProxyAssumption ==
  /\ IsFiniteSet(Requests)
  /\ Configs \subseteq [listen : {"unspecified", "link", "taken"}, token : STRING,
                        upstream : STRING, header : {"authorization", "x-api-key"}, credential : STRING]
  /\ MAX_CONCURRENT_REQUESTS \in Nat \ {0}

\* What the kernel offers of Landlock: nothing, the floor of writes and program
\* execution, or the TCP ports as well.
Kernels == {"none", "floor", "ports"}

VARIABLES
  phase,     \* the process: down, serving, stopping
  cfg,       \* its configuration
  scoped,    \* whether its outgoing TCP ports are limited
  permits,   \* the semaphore's free permits
  req        \* per request: where it is, whether it holds a permit, what goes upstream
vars == <<phase, cfg, scoped, permits, req>>

\* dialing: TCP and TLS; handshake: HTTP; waiting: sent, no headers yet;
\* streaming: the response's body is on its way to the guest.
NoHeaders == [n \in {} |-> None]
Free == [at |-> "free", permit |-> FALSE, got |-> NoHeaders, sent |-> NoHeaders]

TypeOK ==
  /\ phase \in {"down", "serving"} /\ cfg \in Configs /\ scoped \in BOOLEAN
  /\ permits \in 0..MAX_CONCURRENT_REQUESTS
  /\ \A r \in Requests :
       /\ req[r].at \in {"free", "dialing", "handshake", "waiting", "streaming"}
       /\ req[r].got \in Incoming \cup {NoHeaders}

Init ==
  /\ phase = "down" /\ cfg \in Configs /\ scoped = FALSE
  /\ permits = MAX_CONCURRENT_REQUESTS /\ req = [r \in Requests |-> Free]
-----------------------------------------------------------------------------
(* The process *)

\* from_json, the jail and serve: it serves only with a token, confined, and on
\* an address of its own; otherwise it ends before it has bound anything.
Accepts(c, kernel) == c.token # "" /\ kernel # "none" /\ c.listen = "link"

Start ==
  /\ phase = "down"
  /\ \E c \in Configs, kernel \in Kernels :
       /\ Accepts(c, kernel)
       /\ cfg' = c /\ scoped' = (kernel = "ports")
  /\ phase' = "serving" /\ permits' = MAX_CONCURRENT_REQUESTS /\ UNCHANGED req

\* SIGTERM, or Ctrl-C: accept_loop ends, block_on returns and the runtime drops
\* every task with it.
Shutdown ==
  /\ phase = "serving" /\ phase' = "down"
  /\ req' = [r \in Requests |-> Free] /\ permits' = MAX_CONCURRENT_REQUESTS
  /\ UNCHANGED <<cfg, scoped>>
-----------------------------------------------------------------------------
(* What a request presents, and what is made of it *)
Carries(h, name) == name \in DOMAIN h

\* A bearer token comes first, whatever it is worth; without one the key counts.
presented_token(h) ==
  IF Carries(h, "authorization") /\ h["authorization"].scheme = "Bearer"
  THEN h["authorization"].secret
  ELSE IF Carries(h, "x-api-key") THEN h["x-api-key"].secret ELSE None

authorized(h) == presented_token(h) = cfg.token

\* Mutant of is_credential_header: only the slot the credential goes to is cleared.
replaced_header(name) == name = cfg.header

is_credential_header(name) == name \in {"authorization", "x-api-key"}
is_hop_by_hop(name) == name \in {"connection", "te"}   \* two of the nine

\* Everything else passes; the upstream's name and the credential are put in.
build_upstream_headers(h) ==
  LET kept == {n \in DOMAIN h : ~is_hop_by_hop(n) /\ n # "host" /\ ~is_credential_header(n)}
      real == [scheme |-> IF cfg.header = "authorization" THEN "Bearer" ELSE "",
               secret |-> cfg.credential]
  IN [n \in kept \cup {"host", cfg.header} |->
        CASE n = cfg.header -> real
          [] n = "host" -> [scheme |-> "", secret |-> cfg.upstream]
          [] OTHER -> h[n]]

Held(r) == IF req[r].permit THEN 1 ELSE 0
Goes(r, at) == req' = [req EXCEPT ![r].at = at] /\ UNCHANGED <<phase, cfg, scoped, permits>>
\* The request is over, with a response or without: its permit is dropped.
Ends(r) == req' = [req EXCEPT ![r] = Free] /\ permits' = permits + Held(r) /\ UNCHANGED <<phase, cfg, scoped>>
-----------------------------------------------------------------------------
(* A request *)

\* A request without the token, beyond the cap, or whose headers or target cannot
\* be rewritten gets its refusal at once, and leaves nothing behind.
Arrive(r) ==
  /\ phase = "serving" /\ req[r].at = "free"
  /\ \E h \in Incoming :
       /\ authorized(h) /\ permits > 0
       /\ req' = [req EXCEPT ![r] = [at |-> "dialing", permit |-> TRUE, got |-> h,
                                     sent |-> build_upstream_headers(h)]]
  /\ permits' = permits - 1 /\ UNCHANGED <<phase, cfg, scoped>>

Connected(r) == req[r].at = "dialing" /\ Goes(r, "handshake")

\* Refused, a certificate that does not verify, or thirty seconds: 502.
DialFails(r) == req[r].at = "dialing" /\ Ends(r)

Send(r) == req[r].at = "handshake" /\ Goes(r, "waiting")

UpstreamFails(r) == req[r].at \in {"handshake", "waiting", "streaming"} /\ Ends(r)

\* Mutant of Respond: the permit goes when the headers arrive.
RespondAndRelease(r) ==
  /\ req[r].at = "waiting"
  /\ req' = [req EXCEPT ![r].at = "streaming", ![r].permit = FALSE]
  /\ permits' = permits + Held(r) /\ UNCHANGED <<phase, cfg, scoped>>

\* The headers go to the guest; the permit moves into the body.
Respond(r) == req[r].at = "waiting" /\ Goes(r, "streaming")

Drained(r) == req[r].at = "streaming" /\ Ends(r)

\* The guest hangs up: its request's future, or its body, is dropped.
GuestGone(r) == req[r].at # "free" /\ Ends(r)

Next ==
  \/ Start \/ Shutdown
  \/ \E r \in Requests :
       \/ Arrive(r) \/ Connected(r) \/ DialFails(r) \/ Send(r) \/ UpstreamFails(r)
       \/ Respond(r) \/ Drained(r) \/ GuestGone(r)

Spec == Init /\ [][Next]_vars
-----------------------------------------------------------------------------
(* Properties *)

\* At most MAX_CONCURRENT_REQUESTS requests hold an upstream connection or dial
\* for one, for the whole of a streamed response, and no permit is ever lost:
\* the ones that are free and the ones that are held make up the cap.
CapHolds ==
  /\ Quantify(Requests, LAMBDA r : req[r].at # "free") <= MAX_CONCURRENT_REQUESTS
  /\ permits + Quantify(Requests, LAMBDA r : req[r].permit) = MAX_CONCURRENT_REQUESTS

\* What goes upstream has one credential header, with the real credential, and
\* the upstream's own name; and it goes there only for a request that showed a
\* token which is not empty.  The guest's token never leaves the host in one of
\* the headers it is shown in.
OnlyTheCredentialLeaves ==
  \A r \in Requests : req[r].at # "free" =>
    LET sent == req[r].sent IN
    /\ DOMAIN sent \cap {"authorization", "x-api-key"} = {cfg.header}
    /\ sent[cfg.header].secret = cfg.credential
    /\ sent["host"].secret = cfg.upstream
    /\ ~\E n \in DOMAIN sent : sent[n].secret = cfg.token
    /\ presented_token(req[r].got) # ""
================================================================================
