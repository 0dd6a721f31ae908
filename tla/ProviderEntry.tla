--------------------------- MODULE ProviderEntry ---------------------------
(***************************************************************************)
(* One entry of ProviderRuntimeBook (backend/src/provider_runtime.rs): the *)
(* in-flight counter of a provider and its circuit breaker.  Unlike the    *)
(* endpoint and key breaker (HealthEntry) it opens only at a threshold,    *)
(* asks for several successful probes before it closes, and can be         *)
(* switched off per provider.  Every operation reads the breaker settings  *)
(* from the UpstreamProvider the caller cloned when it planned its route.  *)
(*                                                                         *)
(* Left out: statistics and the error timeline, which no operation reads,  *)
(* and the wrap-around of the u64 counters.                                *)
(***************************************************************************)
EXTENDS Resilience

CONSTANTS
  FailureThreshold,   \* circuit_breaker_failure_threshold
  OpenDuration,       \* circuit_breaker_open_ms
  HalfOpenThreshold   \* circuit_breaker_half_open_success_threshold

ASSUME ProviderEntryAssumption ==
  /\ FailureThreshold \in Nat
  /\ OpenDuration \in Nat
  /\ HalfOpenThreshold \in Nat

NoTime  == -1
NoProbe == 0

Entry == [in_flight: Nat, generation: Nat, next_probe_id: Nat, probe_owner: Nat,
          consecutive_failures: Nat, half_open_successes: Nat,
          open_until: Nat \cup {NoTime}]

Token == [generation: Nat, probe_id: Nat]

\* ProviderRuntimeState::default.  An entry missing from by_provider is made
\* from it on first use, so a missing entry and this one are the same state.
DefaultEntry ==
  [in_flight |-> 0, generation |-> 1, next_probe_id |-> 0, probe_owner |-> NoProbe,
   consecutive_failures |-> 0, half_open_successes |-> 0, open_until |-> NoTime]

\* `enabled` is circuit_breaker_enabled of the caller's clone.
circuit_state(enabled, e, t) ==
  IF ~enabled \/ e.open_until = NoTime THEN "closed"
  ELSE IF e.open_until > t THEN "open" ELSE "half_open"

attempt_token_matches(e, tok) ==
  /\ e.generation = tok.generation
  /\ tok.probe_id # NoProbe => e.probe_owner = tok.probe_id

release_probe_owner(e, tok) ==
  IF tok.probe_id # NoProbe /\ e.probe_owner = tok.probe_id
    THEN [e EXCEPT !.probe_owner = NoProbe]
    ELSE e

advance_generation(e) ==
  [e EXCEPT !.generation = @ + 1, !.probe_owner = NoProbe]

clear_breaker_state(e) ==
  [e EXCEPT !.consecutive_failures = 0, !.open_until = NoTime,
            !.half_open_successes = 0, !.probe_owner = NoProbe]

\* Mutant: half-open lets everybody through.
admits_without_owner(enabled, e, t) == circuit_state(enabled, e, t) # "open"

\* What try_begin_attempt admits, and the guard and entry it then leaves.
admits(enabled, e, t) ==
  LET kind == circuit_state(enabled, e, t)
  IN  kind = "closed" \/ (kind = "half_open" /\ e.probe_owner = NoProbe)

begin_token(enabled, e, t) ==
  [generation |-> e.generation,
   probe_id |-> IF circuit_state(enabled, e, t) = "half_open"
                  THEN e.next_probe_id + 1 ELSE NoProbe]

after_begin(enabled, e, t) ==
  IF circuit_state(enabled, e, t) = "half_open"
    THEN [e EXCEPT !.next_probe_id = begin_token(enabled, e, t).probe_id,
                   !.probe_owner = begin_token(enabled, e, t).probe_id]
    ELSE e

\* Mutant: one successful probe closes the breaker.
success_closes_at_once(enabled, e, tok, t) ==
  LET r == release_probe_owner(e, tok)
  IN  IF circuit_state(enabled, e, t) = "half_open"
        THEN clear_breaker_state(advance_generation(r))
        ELSE clear_breaker_state(r)

\* finish_success by the holder of a matching token.
after_success(enabled, e, tok, t) ==
  LET r == release_probe_owner(e, tok)
      successes == e.half_open_successes + 1
  IN  IF ~enabled THEN clear_breaker_state(r)
      ELSE IF circuit_state(enabled, e, t) # "half_open"
        THEN [r EXCEPT !.consecutive_failures = 0, !.open_until = NoTime,
                       !.half_open_successes = 0]
      ELSE IF successes >= MaxOf(HalfOpenThreshold, 1)
        THEN clear_breaker_state(advance_generation(r))
        ELSE [r EXCEPT !.half_open_successes = successes]

\* finish_failure by the holder of a matching token.
after_failure(enabled, e, tok, t) ==
  LET r == release_probe_owner(e, tok)
      threshold == MaxOf(FailureThreshold, 1)
      failures == IF circuit_state(enabled, e, t) = "half_open"
                    THEN MaxOf(e.consecutive_failures + 1, threshold)
                    ELSE e.consecutive_failures + 1
  IN  IF ~enabled
        THEN [r EXCEPT !.consecutive_failures = failures, !.open_until = NoTime,
                       !.half_open_successes = 0]
      ELSE IF failures >= threshold
        THEN advance_generation(
               [r EXCEPT !.consecutive_failures = failures,
                         !.half_open_successes = 0,
                         !.open_until = t + cooldown(OpenDuration, failures - threshold + 1)])
        ELSE [r EXCEPT !.consecutive_failures = failures]

\* Mutant: the owner of the probe survives the new generation.
reset_keeps_probe(e) ==
  [e EXCEPT !.generation = @ + 1, !.consecutive_failures = 0, !.open_until = NoTime,
            !.half_open_successes = 0]

\* reset keeps the in-flight counter.
after_reset(e) ==
  [advance_generation(e) EXCEPT !.consecutive_failures = 0, !.open_until = NoTime,
                                !.half_open_successes = 0]
============================================================================
