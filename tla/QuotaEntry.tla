---------------------------- MODULE QuotaEntry ----------------------------
(***************************************************************************)
(* One entry of QuotaBook (backend/src/provider_runtime.rs): what an       *)
(* upstream key's rate-limit headers and 402/429 answers allow, and what   *)
(* each operation of the book does to it.  remaining_requests and          *)
(* remaining_tokens come from the same headers and block the same way.     *)
(***************************************************************************)
EXTENDS Resilience

CONSTANT Fallback  \* rate_limit_fallback_cooldown, a Nat

NoTime  == -1      \* Option<i64> None of a time
NoCount == -1000   \* Option<i64> None of a count (a count may pass below zero)

Entry == [remaining_requests: Int, remaining_tokens: Int, reset_at: Int,
          cooldown_until: Int, consecutive_rate_limits: Nat]

DefaultEntry ==
  [remaining_requests |-> NoCount, remaining_tokens |-> NoCount,
   reset_at |-> NoTime, cooldown_until |-> NoTime, consecutive_rate_limits |-> 0]

expire_quota_state(q, t) ==
  LET reset == q.reset_at # NoTime /\ q.reset_at =< t
      cooled == q.cooldown_until # NoTime /\ q.cooldown_until =< t
  IN  [q EXCEPT !.remaining_requests = IF reset THEN NoCount ELSE @,
                !.remaining_tokens   = IF reset THEN NoCount ELSE @,
                !.reset_at           = IF reset THEN NoTime ELSE @,
                !.cooldown_until     = IF cooled THEN NoTime ELSE @]

Exhausted(q) ==
  \/ q.remaining_requests # NoCount /\ q.remaining_requests =< 0
  \/ q.remaining_tokens # NoCount /\ q.remaining_tokens =< 0

\* QuotaRuntimeView::blocked_until_ms
blocked_until(q) == IF Exhausted(q) THEN q.reset_at ELSE NoTime

is_available(q, t) ==
  /\ q.cooldown_until = NoTime \/ q.cooldown_until =< t
  /\ ~(q.reset_at > t /\ Exhausted(q))

\* reserve_request, when is_available let it through.
after_reserve(q, t) ==
  LET e == expire_quota_state(q, t)
  IN  [e EXCEPT !.remaining_requests = IF @ = NoCount THEN @ ELSE @ - 1]

\* The rate-limit headers of a response: the counts left, when they are reset,
\* and a Retry-After delay; each may be absent.
Headers == [requests: Int, tokens: Int, reset_at: Int, retry_after: Int]
NoHeaders == [requests |-> NoCount, tokens |-> NoCount, reset_at |-> NoTime, retry_after |-> NoTime]

\* observe_response: headers overwrite what they carry, then a 402/429
\* ("limited") cools the key, and a success after the cooldown clears it.
after_observe(q, outcome, h, t) ==
  LET seen == [q EXCEPT
                 !.remaining_requests = IF h.requests = NoCount THEN @ ELSE h.requests,
                 !.remaining_tokens = IF h.tokens = NoCount THEN @ ELSE h.tokens,
                 !.reset_at = IF h.reset_at = NoTime THEN @ ELSE h.reset_at]
      limits == q.consecutive_rate_limits + 1
      hint == MaxOf(h.retry_after, IF seen.reset_at = NoTime THEN NoTime ELSE seen.reset_at - t)
      wait == MaxOf(IF hint > 0 THEN hint ELSE cooldown(Fallback, limits), 1)
  IN  IF outcome = "limited"
        THEN [seen EXCEPT !.consecutive_rate_limits = limits,
                          !.cooldown_until = MaxOf(MaxOf(@, 0), t + wait)]
      ELSE IF outcome = "ok" /\ q.cooldown_until =< t
        THEN [seen EXCEPT !.consecutive_rate_limits = 0, !.cooldown_until = NoTime]
        ELSE seen

\* set_cooldown_until: a moment announced by an error body.
after_cooldown(q, until, t) ==
  LET e == expire_quota_state(q, t)
  IN  IF until =< t THEN e
      ELSE [e EXCEPT !.cooldown_until = MaxOf(MaxOf(@, 0), until),
                     !.reset_at = MaxOf(MaxOf(@, 0), until),
                     !.remaining_requests = 0]
============================================================================
