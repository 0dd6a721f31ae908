------------------------------- MODULE Proxy -------------------------------
(***************************************************************************)
(* proxy_openai of backend/src/proxy.rs: the attempt loop of an HTTP       *)
(* request, composed with the books it shares with every other request:    *)
(* the endpoint and key breakers (HealthEntry), the provider's capacity    *)
(* and breaker (ProviderEntry) and the key's quota (QuotaEntry).           *)
(*                                                                         *)
(* A request walks its plan of targets.  For each it checks that the       *)
(* target looks available, sleeps the backoff, reserves the target book by *)
(* book (each book has its own lock, so other requests run in between),    *)
(* prepares the upstream request, checks that its reservation is still     *)
(* current, sends, and settles the reservation by what came back.  The     *)
(* body of an answer is read by a task of its own that keeps the           *)
(* reservation until the stream ends, even if the client has gone.         *)
(*                                                                         *)
(* Left out: bodies and headers other than Retry-After, telemetry, and     *)
(* session affinity.  A provider's breaker settings are fixed here;        *)
(* ProviderRuntime changes them and purges entries.                        *)
(***************************************************************************)
EXTENDS Resilience, Sequences, FiniteSets

CONSTANTS
  FailureThreshold, OpenDuration, HalfOpenThreshold, Fallback,
  Requests,
  Plan,               \* the targets of a request in order: UpstreamPlan.attempts
  MAX_ATTEMPTS,       \* resilience.rs: target attempts of one request
  ProviderAttempts,   \* max_attempts of a provider
  MaxConcurrency,     \* max_concurrency of a provider
  RetryAfters,        \* Retry-After delays of failing endpoints (NoTime: absent)
  RateHeaders,        \* rate-limit headers of answers, see Q!Headers
  Hints,              \* reset times a Codex 402/429 body announces
  Deadline,           \* when UPSTREAM_REQUEST_TIMEOUT_MS of every request is over
  MaxClock,           \* bound: the clock stops here
  MaxResets           \* bound: resets the administrator makes

H == INSTANCE HealthEntry
P == INSTANCE ProviderEntry
Q == INSTANCE QuotaEntry

NoToken == [generation |-> 0, probe_id |-> 0]  \* a guard not held

Targets   == {Plan[i] : i \in DOMAIN Plan}
Providers == {x.provider : x \in Targets}
Endpoints == {x.endpoint : x \in Targets}
Keys      == {x.key : x \in Targets}

ASSUME ProxyAssumption ==
  /\ Plan \in Seq([provider: Providers, endpoint: Endpoints, key: Keys])
  /\ IsFiniteSet(Requests)
  /\ FailureThreshold \in Nat /\ OpenDuration \in Nat /\ HalfOpenThreshold \in Nat
  /\ Fallback \in Nat
  /\ MAX_ATTEMPTS \in Nat \ {0}
  /\ ProviderAttempts \in Nat
  /\ MaxConcurrency \in Nat
  /\ RetryAfters \subseteq Nat \cup {Q!NoTime}
  /\ RateHeaders \subseteq Q!Headers
  /\ Hints \subseteq Nat
  /\ Deadline \in Nat
  /\ MaxClock \in Nat
  /\ MaxResets \in Nat

VARIABLES
  now,
  endpoints, keys,  \* EndpointHealthBook, UpstreamKeyHealthBook
  providers,        \* ProviderRuntimeBook
  quotas,           \* QuotaBook
  req,              \* the handler of each request, then its reader task
  resets            \* resets made so far

books == <<endpoints, keys, providers, quotas>>
vars  == <<now, books, req, resets>>

-----------------------------------------------------------------------------
(* The state of a request: where its handler is (the await or the lock it  *)
(* is at), its position in the plan, its UpstreamAttemptReservation, its   *)
(* AttemptBudget (used, sent), the targets its AttemptExclusions rule out, *)
(* whether this attempt was replayed after an OAuth refresh, whether its   *)
(* one encrypted-content retry is used, and what its last send came back   *)
(* with.  `sends` is a history of the request: how often it went upstream. *)

NoGuards == [capacity |-> FALSE, provider |-> NoToken, key |-> NoToken, endpoint |-> NoToken]

NewRequest ==
  [pc |-> "select", at |-> 1, guards |-> NoGuards, used |-> 0,
   sent |-> [p \in Providers |-> 0], sends |-> 0, skip |-> {}, replayed |-> FALSE,
   recovered |-> FALSE, last |-> "none"]

Target(r) == Plan[req[r].at]

At(r, label) == req[r].pc = label

\* Mutant of `continue`: the index stays.
continue_stays(x) == [x EXCEPT !.pc = "select"]

\* Where a handler goes next.  `continue`, `return` with an error of the
\* gateway's own, hand the answer and the reservation to the reader, end.
Goto(x, label) == [x EXCEPT !.pc = label]
Continue(x)    == [x EXCEPT !.pc = "select", !.at = @ + 1]
Failed(x)      == [NewRequest EXCEPT !.pc = "failed", !.last = x.last]
Streaming(x)   == [NewRequest EXCEPT !.pc = "stream", !.at = x.at, !.guards = x.guards, !.last = x.last]
Ended          == [NewRequest EXCEPT !.pc = "done"]

Become(r, x) == req' = [req EXCEPT ![r] = x]

Init ==
  /\ now = 0
  /\ endpoints = [e \in Endpoints |-> H!DefaultEntry]
  /\ keys = [k \in Keys |-> H!DefaultEntry]
  /\ providers = [p \in Providers |-> P!DefaultEntry]
  /\ quotas = [k \in Keys |-> Q!DefaultEntry]
  /\ req = [r \in Requests |-> NewRequest]
  /\ resets = 0

-----------------------------------------------------------------------------
(* The reservation.                                                        *)

\* UpstreamAttemptReservation::is_current
is_current(r) ==
  LET x == Target(r)
      g == req[r].guards
  IN  /\ P!attempt_token_matches(providers[x.provider], g.provider)
      /\ H!attempt_token_matches(endpoints[x.endpoint], g.endpoint)
      /\ H!attempt_token_matches(keys[x.key], g.key)

Scopes == {"success", "key", "model", "client", "quota", "neutral", "provider"}

\* finish_with_scope: what a failure of each scope tells each book.  "neutral"
\* is reservation.neutral() and what dropping a reservation does.
Verdict(scope) ==
  CASE scope = "success"              -> [endpoint |-> "success", key |-> "success", provider |-> "success"]
    [] scope = "key"                  -> [endpoint |-> "success", key |-> "failure", provider |-> "neutral"]
    [] scope \in {"model", "client"}  -> [endpoint |-> "success", key |-> "success", provider |-> "neutral"]
    [] scope \in {"quota", "neutral"} -> [endpoint |-> "neutral", key |-> "neutral", provider |-> "neutral"]
    [] scope = "provider"             -> [endpoint |-> "failure", key |-> "neutral", provider |-> "failure"]

settled_health(e, tok, verdict) ==
  IF ~H!attempt_token_matches(e, tok) THEN e
  ELSE CASE verdict = "success" -> H!after_success(e, tok, now)
         [] verdict = "failure" -> H!after_failure(e, tok, now)
         [] verdict = "neutral" -> H!release_probe_owner(e, tok)

settled_provider(e, tok, verdict) ==
  IF ~P!attempt_token_matches(e, tok) THEN e
  ELSE CASE verdict = "success" -> P!after_success(TRUE, e, tok, now)
         [] verdict = "failure" -> P!after_failure(TRUE, e, tok, now)
         [] verdict = "neutral" -> P!release_probe_owner(e, tok)

\* Mutant: the permit leaks.
release_nothing(e, held) == e

release_capacity(e, held) ==
  IF held THEN [e EXCEPT !.in_flight = MaxOf(@ - 1, 0)] ELSE e

\* Settle the three guards by scope; the permit is dropped with the
\* reservation, here unless the answer's reader keeps it.  The three books
\* are settled in one step: no operation reads two of them at once.  `hold` is
\* the moment to which a failed endpoint's Retry-After defers it, or NoTime.
finish_with_scope(r, scope, keep, hold) ==
  LET x == Target(r)
      v == Verdict(scope)
      g == req[r].guards
      e == settled_health(endpoints[x.endpoint], g.endpoint, v.endpoint)
  IN  /\ endpoints' = [endpoints EXCEPT ![x.endpoint] =
                         IF hold = H!NoTime THEN e ELSE H!after_defer(e, hold)]
      /\ keys' = [keys EXCEPT ![x.key] = settled_health(@, g.key, v.key)]
      /\ providers' = [providers EXCEPT ![x.provider] =
           release_capacity(settled_provider(@, g.provider, v.provider), g.capacity /\ ~keep)]

finish(r, scope) == finish_with_scope(r, scope, FALSE, H!NoTime)

neutral(r) == finish(r, "neutral")

\* The request without its reservation.
Released(r) == [req[r] EXCEPT !.guards = NoGuards]

-----------------------------------------------------------------------------
(* The attempt budget and the exclusions.                                  *)

available(r) == req[r].used < MAX_ATTEMPTS /\ now < Deadline

provider_available(r, p) == req[r].sent[p] < MaxOf(ProviderAttempts, 1)

\* AttemptBudget::begin, after its sleep.
begin(r) == available(r)

\* begin returns false: the budget is spent, or a later attempt's backoff
\* would pass the deadline.
begin_refuses(r) == ~available(r) \/ req[r].used > 0

Begun(x) == [x EXCEPT !.used = @ + 1]

note_send(x) == [x EXCEPT !.sent[Plan[x.at].provider] = @ + 1, !.sends = @ + 1]

avoid_endpoint(x) == {y \in Targets : y.endpoint = x.endpoint}
avoid_key(x)      == {y \in Targets : y.key = x.key}
avoid_provider(x) == {y \in Targets : y.provider = x.provider}
\* attempted_pairs
note_attempt(x)   == {y \in Targets : y.key = x.key /\ y.endpoint = x.endpoint}

Later(r) == {Plan[i] : i \in req[r].at + 1 .. Len(Plan)}

\* A failed attempt excludes targets, then the loop goes on while the plan has
\* another one (has_remaining_candidate).
Failover(r, x, excluded) ==
  LET y == [x EXCEPT !.skip = @ \cup note_attempt(Target(r)) \cup excluded]
  IN  Become(r, IF Later(r) \ y.skip # {} THEN Continue(y) ELSE Failed(y))

-----------------------------------------------------------------------------
(* Choosing a target.                                                      *)

\* The snapshots read before the backoff.
Eligible(x) ==
  /\ H!available(endpoints[x.endpoint], now)
  /\ H!available(keys[x.key], now)
  /\ P!admits(TRUE, providers[x.provider], now)
  /\ providers[x.provider].in_flight < MaxConcurrency
  /\ Q!is_available(quotas[x.key], now)

InPlan(r) == At(r, "select") /\ req[r].at =< Len(Plan)

SkipTarget(r) ==
  /\ InPlan(r)
  /\ \/ Target(r) \in req[r].skip
     \/ /\ available(r)
        /\ ~provider_available(r, Target(r).provider) \/ ~Eligible(Target(r))
  /\ Become(r, Continue(req[r]))
  /\ UNCHANGED <<now, books, resets>>

\* The plan or the budget is used up: answer with the last failure.
StopRetrying(r) ==
  /\ At(r, "select")
  /\ InPlan(r) => Target(r) \notin req[r].skip /\ ~available(r)
  /\ Become(r, Failed(req[r]))
  /\ UNCHANGED <<now, books, resets>>

ChooseTarget(r) ==
  /\ InPlan(r)
  /\ Target(r) \notin req[r].skip
  /\ available(r)
  /\ provider_available(r, Target(r).provider)
  /\ Eligible(Target(r))
  /\ quotas' = [quotas EXCEPT ![Target(r).key] = Q!expire_quota_state(@, now)]
  /\ Become(r, [Goto(req[r], "backoff") EXCEPT !.replayed = FALSE])
  /\ UNCHANGED <<now, endpoints, keys, providers, resets>>

BeginAttempt(r) ==
  /\ At(r, "backoff")
  /\ begin(r)
  /\ Become(r, Begun(Goto(req[r], "capacity")))
  /\ UNCHANGED <<now, books, resets>>

BeginOverrun(r) ==
  /\ At(r, "backoff")
  /\ begin_refuses(r)
  /\ Become(r, Failed(req[r]))
  /\ UNCHANGED <<now, books, resets>>

-----------------------------------------------------------------------------
(* reserve_attempt: one book after the other.                              *)

Reserving == {"capacity", "provider", "key", "endpoint", "quota"}

\* Does the book whose turn it is let the request through?
Admits(r) ==
  LET x == Target(r) IN
  CASE At(r, "capacity") -> providers[x.provider].in_flight < MaxConcurrency
    [] At(r, "provider") -> P!admits(TRUE, providers[x.provider], now)
    [] At(r, "key")      -> H!available(keys[x.key], now)
    [] At(r, "endpoint") -> H!available(endpoints[x.endpoint], now)
    [] At(r, "quota")    -> Q!is_available(quotas[x.key], now)

ReserveCapacity(r) ==
  /\ At(r, "capacity") /\ Admits(r)
  /\ providers' = [providers EXCEPT ![Target(r).provider].in_flight = @ + 1]
  /\ Become(r, [Goto(req[r], "provider") EXCEPT !.guards.capacity = TRUE])
  /\ UNCHANGED <<now, endpoints, keys, quotas, resets>>

ReserveProvider(r) ==
  LET p == Target(r).provider IN
  /\ At(r, "provider") /\ Admits(r)
  /\ providers' = [providers EXCEPT ![p] = P!after_begin(TRUE, @, now)]
  /\ Become(r, [Goto(req[r], "key") EXCEPT
                  !.guards.provider = P!begin_token(TRUE, providers[p], now)])
  /\ UNCHANGED <<now, endpoints, keys, quotas, resets>>

ReserveKey(r) ==
  LET k == Target(r).key IN
  /\ At(r, "key") /\ Admits(r)
  /\ keys' = [keys EXCEPT ![k] = H!after_begin(@, now)]
  /\ Become(r, [Goto(req[r], "endpoint") EXCEPT !.guards.key = H!begin_token(keys[k], now)])
  /\ UNCHANGED <<now, endpoints, providers, quotas, resets>>

ReserveEndpoint(r) ==
  LET e == Target(r).endpoint IN
  /\ At(r, "endpoint") /\ Admits(r)
  /\ endpoints' = [endpoints EXCEPT ![e] = H!after_begin(@, now)]
  /\ Become(r, [Goto(req[r], "quota") EXCEPT !.guards.endpoint = H!begin_token(endpoints[e], now)])
  /\ UNCHANGED <<now, keys, providers, quotas, resets>>

ReserveQuota(r) ==
  /\ At(r, "quota") /\ Admits(r)
  /\ quotas' = [quotas EXCEPT ![Target(r).key] = Q!after_reserve(@, now)]
  /\ Become(r, Goto(req[r], "prepare"))
  /\ UNCHANGED <<now, endpoints, keys, providers, resets>>

\* One book refuses: the guards taken so far are dropped.
ReservationRefused(r) ==
  /\ req[r].pc \in Reserving /\ ~Admits(r)
  /\ neutral(r)
  /\ Become(r, Continue(Released(r)))
  /\ UNCHANGED <<now, quotas, resets>>

-----------------------------------------------------------------------------
(* Preparing and sending.                                                  *)

\* The body cannot be converted, normalised or overridden, or the headers not.
RequestRejected(r) ==
  /\ req[r].pc \in {"prepare", "replay"}
  /\ neutral(r)
  /\ Become(r, Failed(req[r]))
  /\ UNCHANGED <<now, quotas, resets>>

\* The target's base URL does not make a URI.
InvalidUri(r) ==
  /\ At(r, "prepare")
  /\ finish(r, "provider")
  /\ Failover(r, Released(r), avoid_endpoint(Target(r)))
  /\ UNCHANGED <<now, quotas, resets>>

\* prepare_auth of a Codex key failed; its status is classified like an
\* upstream's answer: 401, 403 / 409, 5xx / 400.
AuthUnavailable(r, scope) ==
  /\ At(r, "prepare")
  /\ scope \in {"key", "provider", "client"}
  /\ finish(r, scope)
  /\ Failover(r, Released(r), avoid_key(Target(r)))
  /\ UNCHANGED <<now, quotas, resets>>

\* Mutant: the reservation is not checked again before the send.
send_unchecked(r) ==
  /\ At(r, "prepare")
  /\ Become(r, note_send(Goto(req[r], "sent")))
  /\ UNCHANGED <<now, books, resets>>

\* Another request may have opened a breaker while this one slept or refreshed
\* its token: send only with a current reservation.
Send(r) ==
  /\ At(r, "prepare")
  /\ is_current(r)
  /\ Become(r, note_send(Goto(req[r], "sent")))
  /\ UNCHANGED <<now, books, resets>>

SendCancelled(r) ==
  /\ At(r, "prepare")
  /\ ~is_current(r)
  /\ neutral(r)
  /\ Become(r, Continue(Released(r)))
  /\ UNCHANGED <<now, quotas, resets>>

MayResend(r) == available(r) /\ provider_available(r, Target(r).provider)

\* A Codex key's 401: refresh the token and replay, once an attempt.
AuthRejected(r) ==
  /\ At(r, "sent")
  /\ ~req[r].replayed
  /\ MayResend(r)
  /\ Become(r, [Goto(req[r], "replay") EXCEPT !.last = "key"])
  /\ UNCHANGED <<now, books, resets>>

\* Mutant: the replay is sent without drawing on the budget.
replay_off_budget(r) ==
  /\ At(r, "replay")
  /\ begin(r)
  /\ is_current(r)
  /\ Become(r, [note_send(Goto(req[r], "sent")) EXCEPT !.replayed = TRUE])
  /\ UNCHANGED <<now, books, resets>>

Replay(r) ==
  /\ At(r, "replay")
  /\ begin(r)
  /\ is_current(r)
  /\ Become(r, [note_send(Begun(Goto(req[r], "sent"))) EXCEPT !.replayed = TRUE])
  /\ UNCHANGED <<now, books, resets>>

ReplayCancelled(r) ==
  /\ At(r, "replay")
  /\ begin(r)
  /\ ~is_current(r)
  /\ neutral(r)
  /\ Become(r, Continue(Begun(Released(r))))
  /\ UNCHANGED <<now, quotas, resets>>

ReplayOverrun(r) ==
  /\ At(r, "replay")
  /\ begin_refuses(r)
  /\ neutral(r)
  /\ Become(r, Failed(req[r]))
  /\ UNCHANGED <<now, quotas, resets>>

\* A 400 that rejects encrypted content: strip it and retry, once a request.
\* The check comes after the one for a 401.
ContentRejected(r) ==
  /\ At(r, "sent")
  /\ ~req[r].recovered
  /\ MayResend(r)
  /\ Become(r, [Goto(req[r], "recover") EXCEPT !.recovered = TRUE, !.replayed = TRUE, !.last = "client"])
  /\ UNCHANGED <<now, books, resets>>

Recover(r) ==
  /\ At(r, "recover")
  /\ begin(r)
  /\ is_current(r)
  /\ Become(r, note_send(Begun(Goto(req[r], "sent"))))
  /\ UNCHANGED <<now, books, resets>>

-----------------------------------------------------------------------------
(* What came back.  classify_failure_scope sorts the status of an answer   *)
(* into "ok" (2xx, 3xx), "key" (401, 403), "quota" (402, 429), "model"     *)
(* (404), "provider" (408, 409, 425, 5xx) and "client" (other 4xx).        *)

Retryable == {"key", "quota", "model", "provider"}  \* should_retry_response_status
Statuses  == Retryable \cup {"ok", "client"}

\* The connection, or the wait for the answer's head, failed.
DispatchFailed(r) ==
  /\ At(r, "sent")
  /\ finish(r, "provider")
  /\ Failover(r, [Released(r) EXCEPT !.last = "error"], avoid_endpoint(Target(r)))
  /\ UNCHANGED <<now, quotas, resets>>

\* quota.observe_response, on every answer.
observe_response(k, status, h) ==
  quotas' = [quotas EXCEPT ![k] =
    Q!after_observe(@, CASE status = "ok"    -> "ok"
                         [] status = "quota" -> "limited"
                         [] OTHER            -> "other", h, now)]

\* The head of an answer; a 402/429 goes on to defer the key.
Answered(r, status, h) ==
  /\ At(r, "sent")
  /\ observe_response(Target(r).key, status, h)
  /\ Become(r, [Goto(req[r], IF status = "quota" THEN "defer" ELSE "judge") EXCEPT !.last = status])
  /\ UNCHANGED <<now, endpoints, keys, providers, resets>>

\* No budget left to recover with, or no longer current: the 400 in hand is
\* the answer.
RecoverCancelled(r, h) ==
  /\ At(r, "recover")
  /\ observe_response(Target(r).key, "client", h)
  /\ \/ begin(r) /\ ~is_current(r) /\ Become(r, Begun(Goto(req[r], "judge")))
     \/ begin_refuses(r) /\ Become(r, Goto(req[r], "judge"))
  /\ UNCHANGED <<now, endpoints, keys, providers, resets>>

\* upstream_key_health.defer_until what the quota book now says.
DeferKey(r) ==
  LET k == Target(r).key
      q == Q!expire_quota_state(quotas[k], now)
  IN  /\ At(r, "defer")
      /\ quotas' = [quotas EXCEPT ![k] = q]
      /\ keys' = IF q.cooldown_until = Q!NoTime THEN keys
                 ELSE [keys EXCEPT ![k] = H!after_defer(@, q.cooldown_until)]
      /\ Become(r, Goto(req[r], "judge"))
      /\ UNCHANGED <<now, endpoints, providers, resets>>

\* An answer that is not retried, or whose body holds usage or could not be
\* read to its end, goes to the client; the reader gets the reservation.  So
\* does a Codex stream collected for a client that did not ask for one.
PassOn(r) ==
  /\ At(r, "judge")
  /\ Become(r, Streaming(req[r]))
  /\ UNCHANGED <<now, books, resets>>

\* What a failure of each scope takes out of the rest of the plan.
Excluded(x, scope) ==
  note_attempt(x) \cup
    CASE scope = "model"            -> avoid_provider(x)
      [] scope \in {"key", "quota"} -> avoid_key(x)
      [] scope = "provider"         -> avoid_endpoint(x)

\* A retryable status without usage.  The body may show the fault to be the
\* model's.  Without another target the answer is passed on: its reservation
\* is settled already, the reader keeps only the permit.
RetryStatus(r, scope, retry_after) ==
  LET x     == [Released(r) EXCEPT !.skip = @ \cup Excluded(Target(r), scope)]
      again == available(r) /\ \E y \in Later(r) \ x.skip : provider_available(r, y.provider)
      hold  == IF scope = "provider" /\ retry_after # H!NoTime
                 THEN now + retry_after ELSE H!NoTime
  IN  /\ At(r, "judge")
      /\ req[r].last \in Retryable
      /\ scope \in {req[r].last, "model"}
      /\ finish_with_scope(r, scope, ~again, hold)
      /\ Become(r, IF again THEN Continue(x)
                   ELSE Streaming([x EXCEPT !.guards.capacity = req[r].guards.capacity]))
      /\ UNCHANGED <<now, quotas, resets>>

\* A 2xx whose stream fails before its first event (preflight_sse), or whose
\* Chat answer cannot be read or converted to a Responses one.
AnswerUnusable(r) ==
  /\ At(r, "judge")
  /\ req[r].last = "ok"
  /\ finish(r, "provider")
  /\ Failover(r, Released(r), avoid_endpoint(Target(r)))
  /\ UNCHANGED <<now, quotas, resets>>

\* codex_stream_expected: Codex did not stream although it was told to.
StreamExpected(r) ==
  /\ At(r, "judge")
  /\ req[r].last = "ok"
  /\ finish(r, "provider")
  /\ Become(r, Failed(req[r]))
  /\ UNCHANGED <<now, quotas, resets>>

\* finalize_tap: the reader reached the end of the body, an error or its
\* deadline.  Events in the stream and transport errors may change the scope;
\* a client that left makes it neutral.  The body of a Codex 402/429 may
\* announce when the quota is reset (set_cooldown_until).
finalize_tap(r, scope, hint) ==
  /\ At(r, "stream")
  /\ finish(r, scope)
  /\ \/ UNCHANGED quotas
     \/ /\ req[r].last = "quota"
        /\ quotas' = [quotas EXCEPT ![Target(r).key] = Q!after_cooldown(@, hint, now)]
  /\ Become(r, Ended)
  /\ UNCHANGED <<now, resets>>

-----------------------------------------------------------------------------
(* The environment.                                                        *)

\* The client leaves before it was answered: hyper drops the handler at the
\* await it is at, and with it the reservation.
Disconnect(r) ==
  /\ req[r].pc \in {"backoff", "prepare", "sent", "replay", "recover", "judge"}
  /\ neutral(r)
  /\ Become(r, Ended)
  /\ UNCHANGED <<now, quotas, resets>>

EndpointsOf(p) == {x.endpoint : x \in {y \in Targets : y.provider = p}}
KeysOf(p)      == {x.key : x \in {y \in Targets : y.provider = p}}

\* admin.rs reset_provider_circuit: every breaker of the provider is reset,
\* then its keys are deferred again to the end of their quota windows.  (One
\* step: until a key is deferred again its quota entry still refuses it.)
reset_provider_circuit(p) ==
  LET q(k)     == Q!expire_quota_state(quotas[k], now)
      until(k) == MaxOf(q(k).cooldown_until, Q!blocked_until(q(k)))
  IN  /\ resets < MaxResets
      /\ resets' = resets + 1
      /\ providers' = [providers EXCEPT ![p] = P!after_reset(@)]
      /\ endpoints' = [e \in Endpoints |->
           IF e \in EndpointsOf(p) THEN H!after_reset(endpoints[e]) ELSE endpoints[e]]
      /\ quotas' = [k \in Keys |-> IF k \in KeysOf(p) THEN q(k) ELSE quotas[k]]
      /\ keys' = [k \in Keys |->
           IF k \notin KeysOf(p) THEN keys[k]
           ELSE IF until(k) = Q!NoTime THEN H!after_reset(keys[k])
           ELSE H!after_defer(H!after_reset(keys[k]), until(k))]
      /\ UNCHANGED <<now, req>>

\* Plans, dashboards and Retry-After hints read the quota book, and every read
\* expires the entry it reads.
ReadQuota(k) ==
  /\ quotas' = [quotas EXCEPT ![k] = Q!expire_quota_state(@, now)]
  /\ UNCHANGED <<now, endpoints, keys, providers, req, resets>>

Tick ==
  /\ now < MaxClock
  /\ now' = now + 1
  /\ UNCHANGED <<books, req, resets>>

-----------------------------------------------------------------------------
Reserve(r) ==
  \/ ReserveCapacity(r)
  \/ ReserveProvider(r)
  \/ ReserveKey(r)
  \/ ReserveEndpoint(r)
  \/ ReserveQuota(r)
  \/ ReservationRefused(r)

Prepare(r) ==
  \/ RequestRejected(r)
  \/ InvalidUri(r)
  \/ \E scope \in Scopes : AuthUnavailable(r, scope)
  \/ Send(r)
  \/ SendCancelled(r)

Resend(r) ==
  \/ AuthRejected(r)
  \/ Replay(r)
  \/ ReplayCancelled(r)
  \/ ReplayOverrun(r)
  \/ ContentRejected(r)
  \/ Recover(r)
  \/ \E h \in RateHeaders : RecoverCancelled(r, h)

Judge(r) ==
  \/ PassOn(r)
  \/ \E scope \in Retryable, retry_after \in RetryAfters : RetryStatus(r, scope, retry_after)
  \/ AnswerUnusable(r)
  \/ StreamExpected(r)

Step(r) ==
  \/ SkipTarget(r)
  \/ StopRetrying(r)
  \/ ChooseTarget(r)
  \/ BeginAttempt(r)
  \/ BeginOverrun(r)
  \/ Reserve(r)
  \/ Prepare(r)
  \/ Resend(r)
  \/ DispatchFailed(r)
  \/ \E status \in Statuses, h \in RateHeaders : Answered(r, status, h)
  \/ DeferKey(r)
  \/ Judge(r)
  \/ \E scope \in Scopes, hint \in Hints : finalize_tap(r, scope, hint)

Next ==
  \/ \E r \in Requests : Step(r)
  \/ \E r \in Requests : Disconnect(r)
  \/ \E p \in Providers : reset_provider_circuit(p)
  \/ \E k \in Keys : ReadQuota(k)
  \/ Tick

Spec == Init /\ [][Next]_vars

\* A request's handler and its reader go on.  Every wait for the upstream has a
\* timeout; the reader's wait for room in the client's channel (sender.send) has
\* none, so this assumes a client that reads or goes away.
FairSpec == Spec /\ \A r \in Requests : WF_vars(Step(r))

-----------------------------------------------------------------------------
(* Properties.                                                             *)

Labels == Reserving \cup {"select", "backoff", "prepare", "replay", "recover", "sent",
                          "defer", "judge", "stream", "done", "failed"}

Request ==
  [pc: Labels, at: 1 .. Len(Plan) + 1,
   guards: [capacity: BOOLEAN, provider: P!Token, key: H!Token, endpoint: H!Token],
   used: 0 .. MAX_ATTEMPTS, sent: [Providers -> Nat], sends: Nat, skip: SUBSET Targets,
   replayed: BOOLEAN, recovered: BOOLEAN, last: Statuses \cup {"none", "error"}]

TypeOK ==
  /\ now \in Nat
  /\ endpoints \in [Endpoints -> H!Entry]
  /\ keys \in [Keys -> H!Entry]
  /\ providers \in [Providers -> P!Entry]
  /\ quotas \in [Keys -> Q!Entry]
  /\ req \in [Requests -> Request]
  /\ resets \in Nat

\* README: a request makes at most three target attempts in all, the replay
\* after an OAuth refresh included, and a provider's own limit holds within
\* that.  Failover, replay and encrypted-content recovery draw on one budget.
AttemptCap ==
  \A r \in Requests :
    /\ req[r].sends =< req[r].used
    /\ req[r].used =< MAX_ATTEMPTS
    /\ \A p \in Providers : req[r].sent[p] =< MaxOf(ProviderAttempts, 1)

\* README: a target that is cooling is not forwarded to, whatever the other
\* requests find out while this one sleeps, refreshes its token or strips its
\* body: no request goes upstream while a breaker of its target is open.
NoForwardWhileCooling ==
  [][\A r \in Requests : At(r, "sent")' /\ ~At(r, "sent") =>
       /\ endpoints[Target(r).endpoint].open_until =< now
       /\ keys[Target(r).key].open_until =< now
       /\ providers[Target(r).provider].open_until =< now]_vars

ProbeOf(e)       == [generation |-> e.generation, probe_id |-> e.probe_owner]
PermitHolders(p) == {r \in Requests : req[r].guards.capacity /\ Target(r).provider = p}

\* Every early return, failover, disconnect and stream end gives back what the
\* reservation took: a permit counts a request that holds it, and a claimed
\* probe belongs to a request that can still return it.
NothingLeaked ==
  /\ \A p \in Providers :
       /\ providers[p].in_flight = Cardinality(PermitHolders(p))
       /\ providers[p].probe_owner # 0 => \E r \in Requests :
            req[r].guards.provider = ProbeOf(providers[p]) /\ Target(r).provider = p
  /\ \A k \in Keys : keys[k].probe_owner # 0 => \E r \in Requests :
       req[r].guards.key = ProbeOf(keys[k]) /\ Target(r).key = k
  /\ \A e \in Endpoints : endpoints[e].probe_owner # 0 => \E r \in Requests :
       req[r].guards.endpoint = ProbeOf(endpoints[e]) /\ Target(r).endpoint = e

\* Behind AttemptCap: an attempt is drawn from the budget before it is sent,
\* and a provider's own limit is checked when its target is chosen, or before
\* the same request is sent once more.
Budgeted(x) ==
  /\ x.sends =< x.used
  /\ x.pc \in Reserving \cup {"prepare"} => x.sends < x.used
  /\ \A p \in Providers : x.sent[p] =< MaxOf(ProviderAttempts, 1)
  /\ x.pc \in Reserving \cup {"backoff", "prepare", "replay", "recover"} =>
       x.sent[Plan[x.at].provider] < MaxOf(ProviderAttempts, 1)

BudgetInv == \A r \in Requests : Budgeted(req[r])

\* Behind the other two: a permit is held from its reservation to the end, and
\* the guards are taken one after the other.
Aimless == {"select", "done", "failed"}     \* no target is chosen
Unheld  == Aimless \cup {"backoff", "capacity"}

Guarded(x) ==
  /\ x.pc \notin Aimless => x.at =< Len(Plan)
  /\ x.guards.capacity <=> x.pc \notin Unheld
  /\ x.pc \in Unheld \cup {"provider"} => x.guards.provider = NoToken
  /\ x.pc \in Unheld \cup {"provider", "key"} => x.guards.key = NoToken
  /\ x.pc \in Unheld \cup {"provider", "key", "endpoint"} => x.guards.endpoint = NoToken

GuardInv == \A r \in Requests : Guarded(req[r])

\* Behind NoForwardWhileCooling: an entry whose breaker opens, or stays open
\* longer, gets a new generation, so a token that still fits is of a time when
\* it was not open.
Timely(e, tok) ==
  /\ tok.generation =< e.generation
  /\ tok.generation = e.generation => e.open_until =< now

CoolInv ==
  /\ \A p \in Providers : providers[p].generation > 0
  /\ \A k \in Keys : keys[k].generation > 0
  /\ \A e \in Endpoints : endpoints[e].generation > 0
  /\ \A r \in Requests : req[r].guards.capacity =>
       /\ Timely(providers[Target(r).provider], req[r].guards.provider)
       /\ Timely(keys[Target(r).key], req[r].guards.key)
       /\ Timely(endpoints[Target(r).endpoint], req[r].guards.endpoint)

\* Every request is answered, or abandoned by its client, and its reader ends.
EveryRequestEnds == \A r \in Requests : <>(At(r, "done") \/ At(r, "failed"))
============================================================================
