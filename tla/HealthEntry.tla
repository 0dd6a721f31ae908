---------------------------- MODULE HealthEntry ----------------------------
(***************************************************************************)
(* One entry of RuntimeHealthBook (backend/src/health.rs) and what each    *)
(* operation of the book does to it: pure functions from an entry, the     *)
(* caller's token and the caller's clock to the next entry.  HealthBook    *)
(* runs them under concurrency, Proxy composes them with the other books.  *)
(*                                                                         *)
(* Left out: the statistics of an entry (success_count, failure_count,     *)
(* latency, last_* fields), which no operation reads, and the wrap-around  *)
(* of the u64 generation and probe counters.                               *)
(***************************************************************************)
EXTENDS Resilience

CONSTANTS
  FailureThreshold,  \* failure_threshold
  OpenDuration       \* open_duration_ms

ASSUME HealthEntryAssumption == FailureThreshold \in Nat /\ OpenDuration \in Nat

-----------------------------------------------------------------------------
(* Entries and tokens.  Option<i64> None is NoTime, Option<u64> None is    *)
(* NoProbe: a probe id is at least 1 (`.max(1)`).                          *)

NoTime  == -1
NoProbe == 0

Entry == [generation: Nat, next_probe_id: Nat, probe_owner: Nat,
          consecutive_failures: Nat, open_until: Nat \cup {NoTime}]

Token == [generation: Nat, probe_id: Nat]

\* RuntimeHealthState::default
DefaultEntry ==
  [generation |-> 1, next_probe_id |-> 0, probe_owner |-> NoProbe,
   consecutive_failures |-> 0, open_until |-> NoTime]

state_kind(e, t) ==
  IF e.open_until = NoTime THEN "closed"
  ELSE IF e.open_until > t THEN "open" ELSE "half_open"

\* Mutant: half-open lets everybody through.
available_without_owner(e, t) == state_kind(e, t) # "open"

\* The `available` field of to_view, which the scheduler reads.
available(e, t) ==
  \/ state_kind(e, t) = "closed"
  \/ state_kind(e, t) = "half_open" /\ e.probe_owner = NoProbe

\* Mutant: the generation is not compared.
token_matches_any_generation(e, tok) ==
  tok.probe_id # NoProbe => e.probe_owner = tok.probe_id

attempt_token_matches(e, tok) ==
  /\ e.generation = tok.generation
  /\ tok.probe_id # NoProbe => e.probe_owner = tok.probe_id

\* Mutant: the probe is never given back.
release_nothing(e, tok) == e

release_probe_owner(e, tok) ==
  IF tok.probe_id # NoProbe /\ e.probe_owner = tok.probe_id
    THEN [e EXCEPT !.probe_owner = NoProbe]
    ELSE e

advance_generation(e) ==
  [e EXCEPT !.generation = @ + 1, !.probe_owner = NoProbe]

\* Mutant: the probe counter runs backwards.
begin_token_backwards(e, t) ==
  [generation |-> e.generation,
   probe_id |-> IF state_kind(e, t) = "half_open" THEN e.next_probe_id - 1 ELSE NoProbe]

\* try_begin_attempt on an available entry: plain while closed, the one probe
\* while half open.
begin_token(e, t) ==
  [generation |-> e.generation,
   probe_id |-> IF state_kind(e, t) = "half_open" THEN e.next_probe_id + 1 ELSE NoProbe]

after_begin(e, t) ==
  IF state_kind(e, t) = "half_open"
    THEN [e EXCEPT !.next_probe_id = begin_token(e, t).probe_id,
                   !.probe_owner = begin_token(e, t).probe_id]
    ELSE e

\* The entry after finish_success by the holder of tok.
after_success(e, tok, t) ==
  LET closed == [release_probe_owner(e, tok) EXCEPT
                   !.consecutive_failures = 0, !.open_until = NoTime]
  IN  IF state_kind(e, t) = "half_open" THEN advance_generation(closed) ELSE closed

\* The entry after finish_failure: one failure cools the target at once, the
\* threshold only decides whether the configured duration counts.
after_failure(e, tok, t) ==
  LET failures   == e.consecutive_failures + 1
      configured == IF failures >= MaxOf(FailureThreshold, 1)
                         \/ state_kind(e, t) = "half_open"
                      THEN MaxOf(OpenDuration, 1) ELSE 0
  IN  advance_generation(
        [release_probe_owner(e, tok) EXCEPT
           !.consecutive_failures = failures,
           !.open_until = t + cooldown(configured, failures)])

after_reset(e) ==
  [advance_generation(e) EXCEPT !.consecutive_failures = 0, !.open_until = NoTime]

\* Mutant: the last deferral wins.
defer_overwrites(e, until) == [advance_generation(e) EXCEPT !.open_until = until]

\* defer_until never shortens: `open_until_ms.unwrap_or(0).max(until_ms)`.
after_defer(e, until) ==
  [advance_generation(e) EXCEPT
     !.open_until = MaxOf(MaxOf(e.open_until, 0), until)]
============================================================================
