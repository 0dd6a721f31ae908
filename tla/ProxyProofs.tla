---------------------------- MODULE ProxyProofs ----------------------------
(***************************************************************************)
(* Proofs about Proxy for every finite set of requests, every plan, every  *)
(* budget, threshold and duration, and any number of resets.               *)
(***************************************************************************)
EXTENDS Proxy, FiniteSetTheorems, TLAPS

\* A cooldown is some time, however many failures came before.
LEMMA CooldownNat ==
  ASSUME NEW c \in Nat, NEW n \in Int
  PROVE  cooldown(c, n) \in Nat
<1> DEFINE base == MaxOf(c, CooldownBase)
           k == MinOf(MaxOf(n, 1), 11)
<1>1. base \in Nat
  BY CooldownAssumption DEF MaxOf
<1>2. Backoff(n) \in Nat
  <2>1. k \in 1 .. 11
    BY DEF MaxOf, MinOf
  <2>2. Backoff(n) = Doubling[k]
    BY DEF Backoff
  <2>3. \A i \in 1 .. 11 : Doubling[i] \in Nat
    BY DEF Doubling
  <2> QED  BY <2>1, <2>2, <2>3
<1>3. base * Backoff(n) \in Nat /\ MaxOf(CooldownMax, base) \in Nat
  <2> HIDE DEF base
  <2> QED  BY <1>1, <1>2, CooldownAssumption DEF MaxOf
<1> HIDE DEF base
<1>4. MinOf(base * Backoff(n), MaxOf(CooldownMax, base)) \in Nat
  BY <1>3 DEF MinOf
<1> QED  BY <1>4 DEF cooldown, base

\* The books compute it alike.
LEMMA SameCooldown ==
  ASSUME NEW c \in Nat, NEW n \in Int
  PROVE  H!cooldown(c, n) \in Nat /\ P!cooldown(c, n) \in Nat /\ Q!cooldown(c, n) \in Nat
<1>1. /\ H!cooldown(c, n) = cooldown(c, n)
      /\ P!cooldown(c, n) = cooldown(c, n)
      /\ Q!cooldown(c, n) = cooldown(c, n)
  BY DEF cooldown, H!cooldown, P!cooldown, Q!cooldown, Backoff, H!Backoff, P!Backoff, Q!Backoff,
         Doubling, H!Doubling, P!Doubling, Q!Doubling, MaxOf, H!MaxOf, P!MaxOf, Q!MaxOf,
         MinOf, H!MinOf, P!MinOf, Q!MinOf
<1> QED  BY <1>1, CooldownNat

-----------------------------------------------------------------------------
(* What one step of a request may do to an entry of a breaker, whichever   *)
(* book it is in: it gets a new generation, or opens no later than before; *)
(* a probe that is claimed afterwards is the request's own, or one claimed *)
(* before by another; and a guard the request takes is of the entry's      *)
(* present generation, when it is not open.                                *)

Calm(e, f) ==
  \/ f.generation > e.generation
  \/ f.generation = e.generation /\ f.open_until \in {e.open_until, -1}

Change(e, tok, f, new) ==
  /\ Calm(e, f)
  /\ f.probe_owner # 0 =>
       \/ new = ProbeOf(f)
       \/ ProbeOf(f) = ProbeOf(e) /\ tok # ProbeOf(e)
  /\ \/ new = NoToken
     \/ new = tok
     \/ new.generation = f.generation /\ f.open_until =< now

\* An entry nobody touches.
LEMMA Unchanged ==
  ASSUME NEW e, NEW tok, e.generation \in Nat
  PROVE  Change(e, tok, e, tok)
BY DEF Change, Calm

\* A new generation without a probe suits every holder.
LEMMA Advanced ==
  ASSUME NEW e, NEW f, NEW tok, NEW new \in {NoToken, tok},
         f.generation > e.generation, f.probe_owner = 0
  PROVE  Change(e, tok, f, new)
BY DEF Change, Calm

-----------------------------------------------------------------------------
(* The operations on an entry of the endpoint and the key book.            *)

LEMMA HealthRelease ==
  ASSUME NEW e \in H!Entry, NEW tok \in H!Token
  PROVE  LET f == H!release_probe_owner(e, tok) IN
         /\ f \in H!Entry
         /\ f.generation = e.generation
         /\ f.open_until = e.open_until
         /\ f.consecutive_failures = e.consecutive_failures
         /\ f.probe_owner # 0 => f.probe_owner = e.probe_owner /\ tok.probe_id # e.probe_owner
BY DEF H!release_probe_owner, H!Entry, H!Token, H!NoProbe

LEMMA HealthAdvance ==
  ASSUME NEW e \in H!Entry
  PROVE  LET f == H!advance_generation(e) IN
         /\ f \in H!Entry
         /\ f.generation = e.generation + 1
         /\ f.open_until = e.open_until
         /\ f.probe_owner = 0
<1> DEFINE g == e.generation + 1
<1>1. g \in Nat
  BY DEF H!Entry
<1>2. H!advance_generation(e) = [e EXCEPT !.generation = g, !.probe_owner = 0]
  BY DEF H!advance_generation, H!NoProbe
<1> HIDE DEF g
<1>3. LET f == [e EXCEPT !.generation = g, !.probe_owner = 0] IN
      /\ f \in H!Entry
      /\ f.generation = g
      /\ f.open_until = e.open_until
      /\ f.probe_owner = 0
  BY <1>1 DEF H!Entry
<1> QED  BY <1>2, <1>3 DEF g

LEMMA HealthSettles ==
  ASSUME NEW e \in H!Entry, NEW tok \in H!Token, now \in Nat,
         NEW verdict \in {"success", "failure", "neutral"}
  PROVE  /\ settled_health(e, tok, verdict) \in H!Entry
         /\ Change(e, tok, settled_health(e, tok, verdict), NoToken)
<1> DEFINE f == settled_health(e, tok, verdict)
           r == H!release_probe_owner(e, tok)
<1>0. e.generation \in Nat /\ e.probe_owner \in Nat
  BY DEF H!Entry
<1>1. /\ r \in H!Entry
      /\ r.generation = e.generation
      /\ r.open_until = e.open_until
      /\ r.consecutive_failures = e.consecutive_failures
      /\ r.probe_owner # 0 => r.probe_owner = e.probe_owner /\ tok.probe_id # e.probe_owner
  BY HealthRelease
<1>2. CASE ~H!attempt_token_matches(e, tok)
  <2>1. f = e
    BY <1>2 DEF settled_health
  <2>2. tok # ProbeOf(e)
    BY <1>2 DEF H!attempt_token_matches, ProbeOf
  <2> QED  BY <1>0, <2>1, <2>2 DEF Change, Calm
<1>3. CASE H!attempt_token_matches(e, tok) /\ verdict = "neutral"
  <2>1. f = r
    BY <1>3 DEF settled_health
  <2> HIDE DEF r
  <2> QED  BY <1>0, <1>1, <2>1 DEF Change, Calm, ProbeOf
<1>4. CASE H!attempt_token_matches(e, tok) /\ verdict = "success"
  <2> DEFINE c == [r EXCEPT !.consecutive_failures = 0, !.open_until = -1]
  <2>1. f = H!after_success(e, tok, now)
    BY <1>4 DEF settled_health
  <2>2. H!after_success(e, tok, now) = c \/ H!after_success(e, tok, now) = H!advance_generation(c)
    BY DEF H!after_success, H!NoTime
  <2> HIDE DEF r
  <2>3. /\ c \in H!Entry
        /\ c.generation = r.generation
        /\ c.open_until = -1
        /\ c.probe_owner = r.probe_owner
    BY <1>1 DEF H!Entry, H!NoTime
  <2> HIDE DEF c, f
  <2>4. CASE f = c
    BY <1>0, <1>1, <2>3, <2>4 DEF Change, Calm, ProbeOf, f
  <2>5. CASE f = H!advance_generation(c)
    <3>1. f \in H!Entry /\ f.generation > e.generation /\ f.probe_owner = 0
      BY <1>0, <1>1, <2>3, <2>5, HealthAdvance
    <3> QED  BY <3>1, Advanced DEF f
  <2> QED  BY <2>1, <2>2, <2>4, <2>5
<1>5. CASE H!attempt_token_matches(e, tok) /\ verdict = "failure"
  <2> DEFINE n == e.consecutive_failures + 1
             configured == IF n >= H!MaxOf(FailureThreshold, 1)
                                \/ H!state_kind(e, now) = "half_open"
                             THEN H!MaxOf(OpenDuration, 1) ELSE 0
             u == now + H!cooldown(configured, n)
             c == [r EXCEPT !.consecutive_failures = n, !.open_until = u]
  <2>1. f = H!advance_generation(c)
    BY <1>5 DEF settled_health, H!after_failure
  <2>2. n \in Nat
    BY DEF H!Entry
  <2>3. configured \in Nat
    BY ProxyAssumption DEF H!MaxOf
  <2>4. u \in Nat
    <3> HIDE DEF n, configured
    <3> QED  BY <2>2, <2>3, SameCooldown
  <2> HIDE DEF r, n, u
  <2>5. c \in H!Entry /\ c.generation = r.generation
    BY <1>1, <2>2, <2>4 DEF H!Entry
  <2> HIDE DEF c, f
  <2>6. f \in H!Entry /\ f.generation > e.generation /\ f.probe_owner = 0
    BY <1>0, <1>1, <2>1, <2>5, HealthAdvance
  <2> QED  BY <2>6, Advanced DEF f
<1> QED  BY <1>2, <1>3, <1>4, <1>5

LEMMA HealthDefers ==
  ASSUME NEW e \in H!Entry, NEW until \in Int
  PROVE  LET f == H!after_defer(e, until) IN
         f \in H!Entry /\ f.generation = e.generation + 1 /\ f.probe_owner = 0
<1> DEFINE a == H!advance_generation(e)
           u == H!MaxOf(H!MaxOf(e.open_until, 0), until)
<1>1. a \in H!Entry /\ a.generation = e.generation + 1 /\ a.probe_owner = 0
  BY HealthAdvance
<1>2. u \in Nat
  BY DEF H!Entry, H!MaxOf, H!NoTime
<1>3. H!after_defer(e, until) = [a EXCEPT !.open_until = u]
  BY DEF H!after_defer
<1> HIDE DEF a, u
<1>4. LET f == [a EXCEPT !.open_until = u] IN
      f \in H!Entry /\ f.generation = a.generation /\ f.probe_owner = a.probe_owner
  BY <1>1, <1>2 DEF H!Entry
<1> QED  BY <1>1, <1>3, <1>4

LEMMA HealthResets ==
  ASSUME NEW e \in H!Entry
  PROVE  LET f == H!after_reset(e) IN
         f \in H!Entry /\ f.generation = e.generation + 1 /\ f.probe_owner = 0
<1> DEFINE a == H!advance_generation(e)
<1>1. a \in H!Entry /\ a.generation = e.generation + 1 /\ a.probe_owner = 0
  BY HealthAdvance
<1>2. H!after_reset(e) = [a EXCEPT !.consecutive_failures = 0, !.open_until = -1]
  BY DEF H!after_reset, H!NoTime
<1> HIDE DEF a
<1>3. LET f == [a EXCEPT !.consecutive_failures = 0, !.open_until = -1] IN
      f \in H!Entry /\ f.generation = a.generation /\ f.probe_owner = a.probe_owner
  BY <1>1 DEF H!Entry, H!NoTime
<1> QED  BY <1>1, <1>2, <1>3

LEMMA HealthBegins ==
  ASSUME NEW e \in H!Entry, now \in Nat, H!available(e, now)
  PROVE  /\ H!after_begin(e, now) \in H!Entry
         /\ H!begin_token(e, now) \in H!Token
         /\ Change(e, NoToken, H!after_begin(e, now), H!begin_token(e, now))
<1> DEFINE n == e.next_probe_id + 1
<1>1. /\ n \in Nat \ {0}
      /\ e.generation \in Nat
      /\ e.open_until \in Int
  BY DEF H!Entry, H!NoTime
<1>2. CASE H!state_kind(e, now) = "half_open"
  <2> DEFINE f == [e EXCEPT !.next_probe_id = n, !.probe_owner = n]
             t == [generation |-> e.generation, probe_id |-> n]
  <2>1. H!begin_token(e, now) = t
    BY <1>2 DEF H!begin_token
  <2>2. H!after_begin(e, now) = f
    BY <1>2, <2>1 DEF H!after_begin
  <2>3. e.open_until =< now
    BY <1>1, <1>2 DEF H!state_kind
  <2> HIDE DEF n
  <2>4. /\ f \in H!Entry
        /\ f.generation = e.generation
        /\ f.probe_owner = n
        /\ f.open_until = e.open_until
    BY <1>1 DEF H!Entry
  <2>5. t \in H!Token /\ t.generation = e.generation
    BY <1>1 DEF H!Token
  <2>6. t = ProbeOf(f)
    BY <2>4 DEF ProbeOf
  <2> HIDE DEF f, t
  <2>7. Change(e, NoToken, f, t)
    BY <1>1, <2>3, <2>4, <2>5, <2>6 DEF Change, Calm
  <2> QED  BY <2>1, <2>2, <2>4, <2>5, <2>7
<1>3. CASE H!state_kind(e, now) # "half_open"
  <2> DEFINE t == [generation |-> e.generation, probe_id |-> 0]
  <2>1. H!begin_token(e, now) = t /\ H!after_begin(e, now) = e
    BY <1>3 DEF H!begin_token, H!after_begin, H!NoProbe
  <2>2. H!state_kind(e, now) = "closed"
    BY <1>3 DEF H!available
  <2>3. e.open_until = -1
    BY <2>2 DEF H!state_kind, H!NoTime
  <2>4. t \in H!Token /\ t.generation = e.generation
    BY <1>1 DEF H!Token
  <2>5. e.probe_owner # 0 => NoToken # ProbeOf(e)
    BY DEF NoToken, ProbeOf
  <2> HIDE DEF t
  <2>6. Change(e, NoToken, e, t)
    BY <1>1, <2>3, <2>4, <2>5 DEF Change, Calm
  <2> QED  BY <2>1, <2>4, <2>6
<1> QED  BY <1>2, <1>3

-----------------------------------------------------------------------------
(* The operations on a provider's entry.                                   *)

LEMMA ProviderRelease ==
  ASSUME NEW e \in P!Entry, NEW tok \in P!Token
  PROVE  LET f == P!release_probe_owner(e, tok) IN
         /\ f \in P!Entry
         /\ f.in_flight = e.in_flight
         /\ f.generation = e.generation
         /\ f.open_until = e.open_until
         /\ f.probe_owner # 0 => f.probe_owner = e.probe_owner /\ tok.probe_id # e.probe_owner
BY DEF P!release_probe_owner, P!Entry, P!Token, P!NoProbe

LEMMA ProviderAdvance ==
  ASSUME NEW e \in P!Entry
  PROVE  LET f == P!advance_generation(e) IN
         /\ f \in P!Entry
         /\ f.in_flight = e.in_flight
         /\ f.generation = e.generation + 1
         /\ f.open_until = e.open_until
         /\ f.probe_owner = 0
<1> DEFINE g == e.generation + 1
<1>1. g \in Nat
  BY DEF P!Entry
<1>2. P!advance_generation(e) = [e EXCEPT !.generation = g, !.probe_owner = 0]
  BY DEF P!advance_generation, P!NoProbe
<1> HIDE DEF g
<1>3. LET f == [e EXCEPT !.generation = g, !.probe_owner = 0] IN
      /\ f \in P!Entry
      /\ f.in_flight = e.in_flight
      /\ f.generation = g
      /\ f.open_until = e.open_until
      /\ f.probe_owner = 0
  BY <1>1 DEF P!Entry
<1> QED  BY <1>2, <1>3 DEF g

LEMMA ProviderClear ==
  ASSUME NEW e \in P!Entry
  PROVE  LET f == P!clear_breaker_state(e) IN
         /\ f \in P!Entry
         /\ f.in_flight = e.in_flight
         /\ f.generation = e.generation
         /\ f.open_until = -1
         /\ f.probe_owner = 0
BY DEF P!clear_breaker_state, P!Entry, P!NoProbe, P!NoTime

LEMMA ProviderSettles ==
  ASSUME NEW e \in P!Entry, NEW tok \in P!Token, now \in Nat,
         NEW verdict \in {"success", "failure", "neutral"}
  PROVE  LET f == settled_provider(e, tok, verdict) IN
         /\ f \in P!Entry
         /\ f.in_flight = e.in_flight
         /\ Change(e, tok, f, NoToken)
<1> DEFINE f == settled_provider(e, tok, verdict)
           r == P!release_probe_owner(e, tok)
<1>0. e.generation \in Nat /\ e.probe_owner \in Nat
  BY DEF P!Entry
<1>1. /\ r \in P!Entry
      /\ r.in_flight = e.in_flight
      /\ r.generation = e.generation
      /\ r.open_until = e.open_until
      /\ r.probe_owner # 0 => r.probe_owner = e.probe_owner /\ tok.probe_id # e.probe_owner
  BY ProviderRelease
\* An entry of the same generation that keeps at most another's probe.
<1>2. ASSUME NEW c, c.generation = r.generation, c.open_until \in {r.open_until, -1},
             c.probe_owner \in {0, r.probe_owner}
      PROVE  Change(e, tok, c, NoToken)
  <2> HIDE DEF r
  <2> QED  BY <1>0, <1>1, <1>2 DEF Change, Calm, ProbeOf
<1>3. CASE ~P!attempt_token_matches(e, tok)
  <2>1. f = e
    BY <1>3 DEF settled_provider
  <2>2. tok # ProbeOf(e)
    BY <1>3 DEF P!attempt_token_matches, ProbeOf
  <2> QED  BY <1>0, <2>1, <2>2 DEF Change, Calm
<1>4. CASE P!attempt_token_matches(e, tok) /\ verdict = "neutral"
  <2>1. f = r
    BY <1>4 DEF settled_provider
  <2> HIDE DEF r, f
  <2>2. Change(e, tok, f, NoToken)
    BY <1>2, <2>1
  <2> QED  BY <1>1, <2>1, <2>2 DEF f
<1>5. CASE P!attempt_token_matches(e, tok) /\ verdict = "success"
  <2> DEFINE n == e.half_open_successes + 1
             c == [r EXCEPT !.consecutive_failures = 0, !.open_until = -1, !.half_open_successes = 0]
             d == [r EXCEPT !.half_open_successes = n]
             a == P!advance_generation(r)
  <2>1. f \in {c, P!clear_breaker_state(a), d}
    BY <1>5 DEF settled_provider, P!after_success, P!NoTime
  <2>2. n \in Nat
    BY DEF P!Entry
  <2> HIDE DEF r, n, f
  <2>3. CASE f = c
    <3>1. /\ f \in P!Entry
          /\ f.in_flight = r.in_flight
          /\ f.generation = r.generation
          /\ f.open_until = -1
          /\ f.probe_owner = r.probe_owner
      BY <1>1, <2>3 DEF P!Entry, P!NoTime
    <3> HIDE DEF c
    <3>2. Change(e, tok, f, NoToken)
      BY <1>2, <3>1
    <3> QED  BY <1>1, <3>1, <3>2 DEF f
  <2>4. CASE f = P!clear_breaker_state(a)
    <3>1. a \in P!Entry /\ a.in_flight = r.in_flight /\ a.generation = r.generation + 1
      BY <1>1, ProviderAdvance
    <3> HIDE DEF a
    <3>2. /\ f \in P!Entry
          /\ f.in_flight = e.in_flight
          /\ f.generation > e.generation
          /\ f.probe_owner = 0
      BY <1>0, <1>1, <2>4, <3>1, ProviderClear
    <3> QED  BY <3>2, Advanced DEF f
  <2>5. CASE f = d
    <3>1. /\ f \in P!Entry
          /\ f.in_flight = r.in_flight
          /\ f.generation = r.generation
          /\ f.open_until = r.open_until
          /\ f.probe_owner = r.probe_owner
      BY <1>1, <2>2, <2>5 DEF P!Entry
    <3> HIDE DEF d
    <3>2. Change(e, tok, f, NoToken)
      BY <1>2, <3>1
    <3> QED  BY <1>1, <3>1, <3>2 DEF f
  <2> QED  BY <2>1, <2>3, <2>4, <2>5
<1>6. CASE P!attempt_token_matches(e, tok) /\ verdict = "failure"
  <2> DEFINE threshold == P!MaxOf(FailureThreshold, 1)
             half == P!circuit_state(TRUE, e, now) = "half_open"
             n == IF half
                    THEN P!MaxOf(e.consecutive_failures + 1, threshold)
                    ELSE e.consecutive_failures + 1
             u == now + P!cooldown(OpenDuration, n - threshold + 1)
             c == [r EXCEPT !.consecutive_failures = n, !.half_open_successes = 0, !.open_until = u]
             d == [r EXCEPT !.consecutive_failures = n]
  <2>1. f \in {P!advance_generation(c), d}
    BY <1>6 DEF settled_provider, P!after_failure
  <2>2. threshold \in Nat
    BY ProxyAssumption DEF P!MaxOf
  <2>3. n \in Nat
    <3>1. e.consecutive_failures + 1 \in Nat
      BY DEF P!Entry
    <3> HIDE DEF threshold, half
    <3> QED  BY <2>2, <3>1 DEF P!MaxOf
  <2>4. u \in Nat
    <3>1. OpenDuration \in Nat
      BY ProxyAssumption
    <3> HIDE DEF threshold, n
    <3>2. n - threshold + 1 \in Int
      BY <2>2, <2>3
    <3>3. P!cooldown(OpenDuration, n - threshold + 1) \in Nat
      BY <3>1, <3>2, SameCooldown
    <3> QED  BY <3>3
  <2> HIDE DEF r, n, u, f
  <2>5. CASE f = P!advance_generation(c)
    <3>1. c \in P!Entry /\ c.in_flight = r.in_flight /\ c.generation = r.generation
      BY <1>1, <2>3, <2>4 DEF P!Entry
    <3> HIDE DEF c
    <3>2. /\ f \in P!Entry
          /\ f.in_flight = e.in_flight
          /\ f.generation > e.generation
          /\ f.probe_owner = 0
      BY <1>0, <1>1, <2>5, <3>1, ProviderAdvance
    <3> QED  BY <3>2, Advanced DEF f
  <2>6. CASE f = d
    <3>1. /\ f \in P!Entry
          /\ f.in_flight = r.in_flight
          /\ f.generation = r.generation
          /\ f.open_until = r.open_until
          /\ f.probe_owner = r.probe_owner
      BY <1>1, <2>3, <2>6 DEF P!Entry
    <3> HIDE DEF d
    <3>2. Change(e, tok, f, NoToken)
      BY <1>2, <3>1
    <3> QED  BY <1>1, <3>1, <3>2 DEF f
  <2> QED  BY <2>1, <2>5, <2>6
<1> QED  BY <1>3, <1>4, <1>5, <1>6

LEMMA ProviderResets ==
  ASSUME NEW e \in P!Entry
  PROVE  LET f == P!after_reset(e) IN
         /\ f \in P!Entry
         /\ f.in_flight = e.in_flight
         /\ f.generation = e.generation + 1
         /\ f.probe_owner = 0
<1> DEFINE a == P!advance_generation(e)
<1>1. /\ a \in P!Entry
      /\ a.in_flight = e.in_flight
      /\ a.generation = e.generation + 1
      /\ a.probe_owner = 0
  BY ProviderAdvance
<1>2. P!after_reset(e) =
        [a EXCEPT !.consecutive_failures = 0, !.open_until = -1, !.half_open_successes = 0]
  BY DEF P!after_reset, P!NoTime
<1> HIDE DEF a
<1>3. LET f == [a EXCEPT !.consecutive_failures = 0, !.open_until = -1, !.half_open_successes = 0] IN
      /\ f \in P!Entry
      /\ f.in_flight = a.in_flight
      /\ f.generation = a.generation
      /\ f.probe_owner = a.probe_owner
  BY <1>1 DEF P!Entry, P!NoTime
<1> QED  BY <1>1, <1>2, <1>3

LEMMA ProviderBegins ==
  ASSUME NEW e \in P!Entry, now \in Nat, P!admits(TRUE, e, now)
  PROVE  /\ P!after_begin(TRUE, e, now) \in P!Entry
         /\ P!after_begin(TRUE, e, now).in_flight = e.in_flight
         /\ P!begin_token(TRUE, e, now) \in P!Token
         /\ Change(e, NoToken, P!after_begin(TRUE, e, now), P!begin_token(TRUE, e, now))
<1> DEFINE n == e.next_probe_id + 1
<1>1. /\ n \in Nat \ {0}
      /\ e.generation \in Nat
      /\ e.open_until \in Int
  BY DEF P!Entry, P!NoTime
<1>2. CASE P!circuit_state(TRUE, e, now) = "half_open"
  <2> DEFINE f == [e EXCEPT !.next_probe_id = n, !.probe_owner = n]
             t == [generation |-> e.generation, probe_id |-> n]
  <2>1. P!begin_token(TRUE, e, now) = t
    BY <1>2 DEF P!begin_token
  <2>2. P!after_begin(TRUE, e, now) = f
    BY <1>2 DEF P!after_begin, P!begin_token, P!circuit_state
  <2>3. e.open_until =< now
    BY <1>1, <1>2 DEF P!circuit_state
  <2> HIDE DEF n
  <2>4. /\ f \in P!Entry
        /\ f.in_flight = e.in_flight
        /\ f.generation = e.generation
        /\ f.probe_owner = n
        /\ f.open_until = e.open_until
    BY <1>1 DEF P!Entry
  <2>5. t \in P!Token /\ t.generation = e.generation
    BY <1>1 DEF P!Token
  <2>6. t = ProbeOf(f)
    BY <2>4 DEF ProbeOf
  <2> HIDE DEF f, t
  <2>7. Change(e, NoToken, f, t)
    BY <1>1, <2>3, <2>4, <2>5, <2>6 DEF Change, Calm
  <2> QED  BY <2>1, <2>2, <2>4, <2>5, <2>7
<1>3. CASE P!circuit_state(TRUE, e, now) # "half_open"
  <2> DEFINE t == [generation |-> e.generation, probe_id |-> 0]
  <2>1. P!begin_token(TRUE, e, now) = t /\ P!after_begin(TRUE, e, now) = e
    BY <1>3 DEF P!begin_token, P!after_begin, P!NoProbe
  <2>2. P!circuit_state(TRUE, e, now) = "closed"
    BY <1>3 DEF P!admits
  <2>3. e.open_until = -1
    BY <2>2 DEF P!circuit_state, P!NoTime
  <2>4. t \in P!Token /\ t.generation = e.generation
    BY <1>1 DEF P!Token
  <2>5. e.probe_owner # 0 => NoToken # ProbeOf(e)
    BY DEF NoToken, ProbeOf
  <2> HIDE DEF t
  <2>6. Change(e, NoToken, e, t)
    BY <1>1, <2>3, <2>4, <2>5 DEF Change, Calm
  <2> QED  BY <2>1, <2>4, <2>6
<1> QED  BY <1>2, <1>3

\* A held permit is one of those counted: giving it back takes one off.
LEMMA CapacityReleased ==
  ASSUME NEW e \in P!Entry, NEW held \in BOOLEAN, held => e.in_flight > 0
  PROVE  LET f == release_capacity(e, held) IN
         /\ f \in P!Entry
         /\ f.in_flight = IF held THEN e.in_flight - 1 ELSE e.in_flight
         /\ f.generation = e.generation
         /\ f.open_until = e.open_until
         /\ f.probe_owner = e.probe_owner
<1> DEFINE n == MaxOf(e.in_flight - 1, 0)
<1>1. n \in Nat /\ (held => n = e.in_flight - 1)
  BY DEF P!Entry, MaxOf
<1>2. release_capacity(e, held) = IF held THEN [e EXCEPT !.in_flight = n] ELSE e
  BY DEF release_capacity
<1> HIDE DEF n
<1> QED  BY <1>1, <1>2 DEF P!Entry

-----------------------------------------------------------------------------
(* The operations on a key's quota entry keep its type.                    *)

LEMMA QuotaExpires ==
  ASSUME NEW q \in Q!Entry, NEW t \in Nat
  PROVE  Q!expire_quota_state(q, t) \in Q!Entry
<1> DEFINE reset == q.reset_at # Q!NoTime /\ q.reset_at =< t
           cooled == q.cooldown_until # Q!NoTime /\ q.cooldown_until =< t
           a == IF reset THEN Q!NoCount ELSE q.remaining_requests
           b == IF reset THEN Q!NoCount ELSE q.remaining_tokens
           c == IF reset THEN Q!NoTime ELSE q.reset_at
           d == IF cooled THEN Q!NoTime ELSE q.cooldown_until
<1>1. Q!expire_quota_state(q, t) = [q EXCEPT !.remaining_requests = a, !.remaining_tokens = b,
                                             !.reset_at = c, !.cooldown_until = d]
  BY DEF Q!expire_quota_state
<1>2. a \in Int /\ b \in Int /\ c \in Int /\ d \in Int
  BY DEF Q!Entry, Q!NoTime, Q!NoCount
<1> HIDE DEF a, b, c, d
<1>3. [q EXCEPT !.remaining_requests = a, !.remaining_tokens = b,
                !.reset_at = c, !.cooldown_until = d] \in Q!Entry
  BY <1>2 DEF Q!Entry
<1> QED  BY <1>1, <1>3

LEMMA QuotaReserves ==
  ASSUME NEW q \in Q!Entry, NEW t \in Nat
  PROVE  Q!after_reserve(q, t) \in Q!Entry
<1> DEFINE e == Q!expire_quota_state(q, t)
           n == IF e.remaining_requests = Q!NoCount THEN e.remaining_requests
                ELSE e.remaining_requests - 1
<1>1. e \in Q!Entry
  BY QuotaExpires
<1> HIDE DEF e
<1>2. n \in Int
  BY <1>1 DEF Q!Entry
<1>3. Q!after_reserve(q, t) = [e EXCEPT !.remaining_requests = n]
  BY DEF Q!after_reserve, e
<1> HIDE DEF n
<1> QED  BY <1>1, <1>2, <1>3 DEF Q!Entry

LEMMA QuotaCools ==
  ASSUME NEW q \in Q!Entry, NEW t \in Nat, NEW until \in Nat
  PROVE  Q!after_cooldown(q, until, t) \in Q!Entry
<1> DEFINE e == Q!expire_quota_state(q, t)
           c == Q!MaxOf(Q!MaxOf(e.cooldown_until, 0), until)
           u == Q!MaxOf(Q!MaxOf(e.reset_at, 0), until)
<1>1. e \in Q!Entry
  BY QuotaExpires
<1>2. Q!after_cooldown(q, until, t) =
        IF until =< t THEN e
        ELSE [e EXCEPT !.cooldown_until = c, !.reset_at = u, !.remaining_requests = 0]
  BY DEF Q!after_cooldown
<1> HIDE DEF e
<1>3. c \in Int /\ u \in Int
  BY <1>1 DEF Q!Entry, Q!MaxOf
<1> HIDE DEF c, u
<1>4. \A n \in Int :
        [e EXCEPT !.cooldown_until = c, !.reset_at = u, !.remaining_requests = n] \in Q!Entry
  BY <1>1, <1>3 DEF Q!Entry
<1>5. 0 \in Int
  OBVIOUS
<1>6. [e EXCEPT !.cooldown_until = c, !.reset_at = u, !.remaining_requests = 0] \in Q!Entry
  BY <1>4, <1>5, Zenon
<1> QED  BY <1>1, <1>2, <1>6

LEMMA QuotaObserves ==
  ASSUME NEW q \in Q!Entry, NEW t \in Nat, NEW outcome, NEW h \in Q!Headers
  PROVE  Q!after_observe(q, outcome, h, t) \in Q!Entry
<1> DEFINE a == IF h.requests = Q!NoCount THEN q.remaining_requests ELSE h.requests
           b == IF h.tokens = Q!NoCount THEN q.remaining_tokens ELSE h.tokens
           c == IF h.reset_at = Q!NoTime THEN q.reset_at ELSE h.reset_at
           seen == [q EXCEPT !.remaining_requests = a, !.remaining_tokens = b, !.reset_at = c]
           limits == q.consecutive_rate_limits + 1
           hint == Q!MaxOf(h.retry_after, IF seen.reset_at = Q!NoTime THEN Q!NoTime
                                          ELSE seen.reset_at - t)
           wait == Q!MaxOf(IF hint > 0 THEN hint ELSE Q!cooldown(Fallback, limits), 1)
           until == Q!MaxOf(Q!MaxOf(seen.cooldown_until, 0), t + wait)
<1>1. Q!after_observe(q, outcome, h, t) \in
        {[seen EXCEPT !.consecutive_rate_limits = limits, !.cooldown_until = until],
         [seen EXCEPT !.consecutive_rate_limits = 0, !.cooldown_until = -1], seen}
  BY DEF Q!after_observe, Q!NoTime
<1>2. a \in Int /\ b \in Int /\ c \in Int
  BY DEF Q!Entry, Q!Headers
<1> HIDE DEF a, b, c
<1>3. seen \in Q!Entry
  BY <1>2 DEF Q!Entry
<1>4. limits \in Nat
  BY DEF Q!Entry
<1> HIDE DEF seen, limits
<1>5. hint \in Int
  BY <1>3 DEF Q!Entry, Q!Headers, Q!MaxOf, Q!NoTime
<1>6. Q!cooldown(Fallback, limits) \in Nat
  <2>1. Fallback \in Nat
    BY ProxyAssumption
  <2> QED  BY <1>4, <2>1, SameCooldown
<1> HIDE DEF hint
<1>7. wait \in Int
  BY <1>5, <1>6 DEF Q!MaxOf
<1> HIDE DEF wait
<1>8. until \in Int
  BY <1>3, <1>7 DEF Q!Entry, Q!MaxOf
<1> HIDE DEF until
<1>9. \A n \in Nat, m \in Int :
        [seen EXCEPT !.consecutive_rate_limits = n, !.cooldown_until = m] \in Q!Entry
  BY <1>3 DEF Q!Entry
<1>10. 0 \in Nat /\ -1 \in Int
  OBVIOUS
<1>11. [seen EXCEPT !.consecutive_rate_limits = 0, !.cooldown_until = -1] \in Q!Entry
  BY <1>9, <1>10, Zenon
<1>12. [seen EXCEPT !.consecutive_rate_limits = limits, !.cooldown_until = until] \in Q!Entry
  BY <1>4, <1>8, <1>9, Zenon
<1> QED  BY <1>1, <1>3, <1>11, <1>12

-----------------------------------------------------------------------------
(* The parts of the invariant that speak about one book are preserved by   *)
(* every step that changes entries and guards as Change allows: b and c    *)
(* are a book before and after the step, g and h the guards the requests S *)
(* hold on it, t and u the entries they aim at, r the request that moves.  *)
(* Any entry may also start a new generation without a probe.              *)

Renewed(e, f) == f.generation > e.generation /\ f.probe_owner = 0

BookBefore(S, Ids, b, g, t) ==
  /\ \A id \in Ids : b[id].generation \in Nat /\ b[id].generation > 0 /\ b[id].open_until \in Int
  /\ \A s \in S : g[s].generation \in Nat
  /\ \A id \in Ids : b[id].probe_owner # 0 =>
       \E s \in S : g[s] = ProbeOf(b[id]) /\ t[s] = id
  /\ \A s \in S : g[s] # NoToken => t[s] \in Ids /\ Timely(b[t[s]], g[s])

BookMove(S, Ids, b, c, g, h, t, u, r) ==
  /\ \A id \in Ids : c[id].generation \in Nat /\ c[id].open_until \in Int
  /\ \A s \in S : s # r => h[s] = g[s] /\ u[s] = t[s]
  /\ h[r] = NoToken \/ u[r] = t[r]
  /\ \A s \in S : h[s] # NoToken => u[s] \in Ids
  /\ \A id \in Ids : id = t[r] => Change(b[id], g[r], c[id], h[r])
  /\ \A id \in Ids : id # t[r] => c[id] = b[id] \/ Renewed(b[id], c[id])

BookAfter(S, Ids, c, h, u) ==
  /\ \A id \in Ids : c[id].generation > 0
  /\ \A id \in Ids : c[id].probe_owner # 0 =>
       \E s \in S : h[s] = ProbeOf(c[id]) /\ u[s] = id
  /\ \A s \in S : h[s] # NoToken => Timely(c[u[s]], h[s])

LEMMA BookStep ==
  ASSUME NEW S, NEW Ids, NEW b, NEW c, NEW g, NEW h, NEW t, NEW u, NEW r \in S,
         now \in Nat,
         BookBefore(S, Ids, b, g, t),
         BookMove(S, Ids, b, c, g, h, t, u, r)
  PROVE  BookAfter(S, Ids, c, h, u)
<1> USE DEF BookBefore, BookMove
<1>1. \A id \in Ids : c[id] = b[id] \/ Calm(b[id], c[id])
  BY DEF Change, Calm, Renewed
<1>2. \A id \in Ids : c[id].generation >= b[id].generation
  BY <1>1 DEF Calm
<1>3. \A id \in Ids : c[id].generation > 0
  BY <1>2
<1>4. ASSUME NEW id \in Ids, c[id].probe_owner # 0
      PROVE  \E s \in S : h[s] = ProbeOf(c[id]) /\ u[s] = id
  <2>1. CASE id # t[r]
    <3>1. c[id] = b[id]
      BY <1>4, <2>1 DEF Renewed
    <3>2. PICK s \in S : g[s] = ProbeOf(b[id]) /\ t[s] = id
      BY <1>4, <3>1
    <3>3. s # r
      BY <2>1, <3>2
    <3> QED  BY <3>1, <3>2, <3>3
  <2>2. CASE id = t[r] /\ h[r] = ProbeOf(c[id])
    <3>1. h[r] # NoToken
      BY <1>4, <2>2 DEF ProbeOf, NoToken
    <3> QED  BY <1>4, <2>2, <3>1
  <2>3. CASE id = t[r] /\ h[r] # ProbeOf(c[id])
    <3>1. ProbeOf(c[id]) = ProbeOf(b[id]) /\ g[r] # ProbeOf(b[id])
      BY <1>4, <2>3 DEF Change
    <3>2. b[id].probe_owner # 0
      BY <1>4, <3>1 DEF ProbeOf
    <3>3. PICK s \in S : g[s] = ProbeOf(b[id]) /\ t[s] = id
      BY <3>2
    <3> QED  BY <3>1, <3>3
  <2> QED  BY <2>1, <2>2, <2>3
<1>5. ASSUME NEW s \in S, h[s] # NoToken
      PROVE  Timely(c[u[s]], h[s])
  <2>0. u[s] \in Ids
    BY <1>5
  <2>1. ASSUME h[s] = g[s], u[s] = t[s]  PROVE Timely(c[u[s]], h[s])
    <3>1. Timely(b[u[s]], g[s])
      BY <1>5, <2>1
    <3>2. c[u[s]] = b[u[s]] \/ Calm(b[u[s]], c[u[s]])
      BY <1>1, <2>0
    <3> QED  BY <2>0, <2>1, <3>1, <3>2 DEF Timely, Calm
  <2>2. CASE s # r
    BY <2>1, <2>2
  <2>3. CASE s = r
    <3>1. u[r] = t[r]
      BY <1>5, <2>3
    <3>2. h[r] = g[r] \/ (h[r].generation = c[t[r]].generation /\ c[t[r]].open_until =< now)
      BY <1>5, <2>0, <2>3, <3>1 DEF Change
    <3>3. CASE h[r] = g[r]
      BY <2>1, <2>3, <3>1, <3>3
    <3>4. CASE h[r].generation = c[t[r]].generation /\ c[t[r]].open_until =< now
      BY <2>0, <2>3, <3>1, <3>4 DEF Timely
    <3> QED  BY <3>2, <3>3, <3>4
  <2> QED  BY <2>2, <2>3
<1> QED  BY <1>3, <1>4, <1>5 DEF BookAfter

-----------------------------------------------------------------------------
(* Requests and their targets.                                             *)

LEMMA PlanTargets ==
  ASSUME NEW i \in 1 .. Len(Plan)
  PROVE  /\ Plan[i] \in Targets
         /\ Plan[i].provider \in Providers
         /\ Plan[i].key \in Keys
         /\ Plan[i].endpoint \in Endpoints
<1>1. i \in DOMAIN Plan
  BY ProxyAssumption
<1>2. Plan[i] \in Targets
  BY <1>1 DEF Targets
<1> QED  BY <1>2 DEF Providers, Keys, Endpoints

LEMMA PlanLength == Len(Plan) \in Nat
  BY ProxyAssumption

\* The fields of a request the invariants speak about, its label apart.
Same(y, x) ==
  /\ y.at = x.at
  /\ y.guards = x.guards
  /\ y.used = x.used
  /\ y.sent = x.sent
  /\ y.sends = x.sends

LEMMA GotoFields ==
  ASSUME NEW x \in Request, NEW l \in Labels, NEW y, y = Goto(x, l)
  PROVE  y \in Request /\ y.pc = l /\ Same(y, x)
BY DEF Goto, Request, Same

\* What else an answer or a retry writes down.
LEMMA NoteFields ==
  ASSUME NEW x \in Request, NEW a \in BOOLEAN, NEW b \in BOOLEAN,
         NEW l \in Statuses \cup {"none", "error"}, NEW y,
         y = [x EXCEPT !.replayed = a, !.recovered = b, !.last = l]
  PROVE  y \in Request /\ y.pc = x.pc /\ Same(y, x)
BY DEF Request, Same

LEMMA SkipFields ==
  ASSUME NEW x \in Request, NEW s \in SUBSET Targets, NEW y, y = [x EXCEPT !.skip = s]
  PROVE  y \in Request /\ y.pc = x.pc /\ Same(y, x)
BY DEF Request, Same

LEMMA ContinueFields ==
  ASSUME NEW x \in Request, x.at =< Len(Plan), NEW y, y = Continue(x)
  PROVE  /\ y \in Request
         /\ y.pc = "select"
         /\ y.guards = x.guards
         /\ y.used = x.used
         /\ y.sent = x.sent
         /\ y.sends = x.sends
<1> DEFINE n == x.at + 1
<1>1. n \in 1 .. Len(Plan) + 1
  BY PlanLength DEF Request
<1>2. y = [x EXCEPT !.pc = "select", !.at = n]
  BY DEF Continue
<1>3. "select" \in Labels
  BY DEF Labels
<1> HIDE DEF n
<1> QED  BY <1>1, <1>2, <1>3 DEF Request

LEMMA BegunFields ==
  ASSUME NEW x \in Request, x.used < MAX_ATTEMPTS, NEW y, y = Begun(x)
  PROVE  /\ y \in Request
         /\ y.pc = x.pc
         /\ y.at = x.at
         /\ y.guards = x.guards
         /\ y.used = x.used + 1
         /\ y.sent = x.sent
         /\ y.sends = x.sends
<1> DEFINE n == x.used + 1
<1>1. n \in 0 .. MAX_ATTEMPTS
  BY ProxyAssumption DEF Request
<1>2. y = [x EXCEPT !.used = n]
  BY DEF Begun
<1> HIDE DEF n
<1>3. y \in Request /\ y.used = n
  BY <1>1, <1>2 DEF Request
<1>4. /\ y.pc = x.pc
      /\ y.at = x.at
      /\ y.guards = x.guards
      /\ y.sent = x.sent
      /\ y.sends = x.sends
  BY <1>2 DEF Request
<1> QED  BY <1>3, <1>4 DEF n

LEMMA SendFields ==
  ASSUME NEW x \in Request, x.at =< Len(Plan), NEW y, y = note_send(x)
  PROVE  /\ y \in Request
         /\ y.pc = x.pc
         /\ y.at = x.at
         /\ y.guards = x.guards
         /\ y.used = x.used
         /\ y.sends = x.sends + 1
         /\ y.sent = [x.sent EXCEPT ![Plan[x.at].provider] = @ + 1]
<1> DEFINE p == Plan[x.at].provider
           n == x.sends + 1
           m == x.sent[p] + 1
           f == [x.sent EXCEPT ![p] = m]
<1>1. p \in Providers
  BY PlanTargets, PlanLength DEF Request
<1>2. n \in Nat /\ x.sent \in [Providers -> Nat]
  BY DEF Request
<1> HIDE DEF p
<1>3. m \in Nat
  BY <1>1, <1>2
<1> HIDE DEF m
<1>4. f \in [Providers -> Nat]
  BY <1>2, <1>3
<1>5. y = [x EXCEPT !.sent = f, !.sends = n]
  BY DEF note_send, f, p, m
<1> HIDE DEF n, f
<1>6. /\ y \in Request
      /\ y.pc = x.pc
      /\ y.at = x.at
      /\ y.guards = x.guards
      /\ y.used = x.used
      /\ y.sends = n
      /\ y.sent = f
  BY <1>2, <1>4, <1>5 DEF Request
<1> QED  BY <1>6 DEF n, f, m, p

LEMMA NoGuardsFields ==
  /\ NoGuards.capacity = FALSE
  /\ NoGuards.provider = NoToken
  /\ NoGuards.key = NoToken
  /\ NoGuards.endpoint = NoToken
  /\ NoGuards \in [capacity: BOOLEAN, provider: P!Token, key: H!Token, endpoint: H!Token]
BY DEF NoGuards, NoToken, P!Token, H!Token

LEMMA ReleasedFields ==
  ASSUME NEW r, req[r] \in Request, NEW y, y = Released(r)
  PROVE  /\ y \in Request
         /\ y.pc = req[r].pc
         /\ y.at = req[r].at
         /\ y.guards = NoGuards
         /\ y.used = req[r].used
         /\ y.sent = req[r].sent
         /\ y.sends = req[r].sends
<1> DEFINE x == req[r]
<1>1. x \in Request
  OBVIOUS
<1>2. y = [x EXCEPT !.guards = NoGuards]
  BY DEF Released
<1> HIDE DEF x
<1>3. /\ y \in Request
      /\ y.pc = x.pc
      /\ y.at = x.at
      /\ y.guards = NoGuards
      /\ y.used = x.used
      /\ y.sent = x.sent
      /\ y.sends = x.sends
  BY <1>1, <1>2, NoGuardsFields DEF Request
<1> QED  BY <1>3 DEF x

LEMMA NewRequestType ==
  /\ NewRequest \in Request
  /\ NewRequest.pc = "select"
  /\ NewRequest.at = 1
  /\ NewRequest.guards = NoGuards
  /\ NewRequest.used = 0
  /\ NewRequest.sends = 0
  /\ \A p \in Providers : NewRequest.sent[p] = 0
<1> DEFINE f == [p \in Providers |-> 0]
           m == MAX_ATTEMPTS
<1>1. f \in [Providers -> Nat] /\ \A p \in Providers : f[p] = 0
  OBVIOUS
<1>2. 1 \in 1 .. Len(Plan) + 1 /\ 0 \in 0 .. MAX_ATTEMPTS
  BY PlanLength, ProxyAssumption
<1>3. "select" \in Labels
  BY DEF Labels
<1>4. NewRequest = [pc |-> "select", at |-> 1, guards |-> NoGuards, used |-> 0,
                    sent |-> f, sends |-> 0, skip |-> {}, replayed |-> FALSE,
                    recovered |-> FALSE, last |-> "none"]
  BY DEF NewRequest
<1> HIDE DEF f
<1> QED  BY <1>1, <1>2, <1>3, <1>4, NoGuardsFields DEF Request

\* The ways a handler can end: with nothing of the attempt left.
LEMMA FailedFields ==
  ASSUME NEW x \in Request, NEW y, y = Failed(x)
  PROVE  /\ y \in Request
         /\ y.pc = "failed"
         /\ y.guards = NoGuards
         /\ y.used = 0
         /\ y.sends = 0
         /\ \A p \in Providers : y.sent[p] = 0
<1>1. y = [NewRequest EXCEPT !.pc = "failed", !.last = x.last]
  BY DEF Failed
<1>2. "failed" \in Labels /\ x.last \in Statuses \cup {"none", "error"}
  BY DEF Labels, Request
<1>3. y \in Request
  BY <1>1, <1>2, NewRequestType DEF Request
<1>4. /\ y.used = NewRequest.used
      /\ y.sends = NewRequest.sends
      /\ y.sent = NewRequest.sent
      /\ y.pc = "failed"
      /\ y.guards = NewRequest.guards
  BY <1>1, NewRequestType DEF Request
<1> QED  BY <1>3, <1>4, NewRequestType

LEMMA EndedFields ==
  /\ Ended \in Request
  /\ Ended.pc = "done"
  /\ Ended.guards = NoGuards
  /\ Ended.used = 0
  /\ Ended.sends = 0
  /\ \A p \in Providers : Ended.sent[p] = 0
<1>1. Ended = [NewRequest EXCEPT !.pc = "done"]
  BY DEF Ended
<1>2. "done" \in Labels
  BY DEF Labels
<1>3. Ended \in Request
  BY <1>1, <1>2, NewRequestType DEF Request
<1>4. /\ Ended.used = NewRequest.used
      /\ Ended.sends = NewRequest.sends
      /\ Ended.sent = NewRequest.sent
      /\ Ended.pc = "done"
      /\ Ended.guards = NewRequest.guards
  BY <1>1, NewRequestType DEF Request
<1> QED  BY <1>3, <1>4, NewRequestType

LEMMA StreamingFields ==
  ASSUME NEW x \in Request, NEW y, y = Streaming(x)
  PROVE  /\ y \in Request
         /\ y.pc = "stream"
         /\ y.at = x.at
         /\ y.guards = x.guards
         /\ y.used = 0
         /\ y.sends = 0
         /\ \A p \in Providers : y.sent[p] = 0
<1>1. y = [NewRequest EXCEPT !.pc = "stream", !.at = x.at, !.guards = x.guards, !.last = x.last]
  BY DEF Streaming
<1>2. /\ "stream" \in Labels
      /\ x.at \in 1 .. Len(Plan) + 1
      /\ x.guards \in [capacity: BOOLEAN, provider: P!Token, key: H!Token, endpoint: H!Token]
      /\ x.last \in Statuses \cup {"none", "error"}
  BY DEF Labels, Request
<1>3. y \in Request
  BY <1>1, <1>2, NewRequestType DEF Request
<1>4. /\ y.used = NewRequest.used
      /\ y.sends = NewRequest.sends
      /\ y.sent = NewRequest.sent
      /\ y.pc = "stream"
      /\ y.at = x.at
      /\ y.guards = x.guards
  BY <1>1, NewRequestType DEF Request
<1> QED  BY <1>3, <1>4, NewRequestType

-----------------------------------------------------------------------------
(* The inductive invariant, and the shape of a step of one request.        *)

Inv == TypeOK /\ BudgetInv /\ GuardInv /\ CoolInv /\ NothingLeaked

Permits(x) == IF x.guards.capacity THEN 1 ELSE 0

\* What the request r, which becomes y, may do to each book.
BooksTouched(r, y) ==
  /\ providers' \in [Providers -> P!Entry]
  /\ \A p \in Providers : p = Target(r).provider =>
       /\ Change(providers[p], req[r].guards.provider, providers'[p], y.guards.provider)
       /\ providers'[p].in_flight = providers[p].in_flight + Permits(y) - Permits(req[r])
  /\ \A p \in Providers : p # Target(r).provider => providers'[p] = providers[p]
  /\ keys' \in [Keys -> H!Entry]
  /\ \A k \in Keys : k = Target(r).key =>
       Change(keys[k], req[r].guards.key, keys'[k], y.guards.key)
  /\ \A k \in Keys : k # Target(r).key => keys'[k] = keys[k]
  /\ endpoints' \in [Endpoints -> H!Entry]
  /\ \A e \in Endpoints : e = Target(r).endpoint =>
       Change(endpoints[e], req[r].guards.endpoint, endpoints'[e], y.guards.endpoint)
  /\ \A e \in Endpoints : e # Target(r).endpoint => endpoints'[e] = endpoints[e]
  /\ quotas' \in [Keys -> Q!Entry]
  /\ now' = now
  /\ resets' = resets

\* A request moves on with its guards, or leaves its target without any.  It
\* goes upstream only when its reservation is current.
Touch(r, y) ==
  /\ req' = [req EXCEPT ![r] = y]
  /\ y \in Request
  /\ Budgeted(y)
  /\ Guarded(y)
  /\ y.at = req[r].at \/ y.guards = NoGuards
  /\ y.pc = "sent" /\ req[r].pc # "sent" =>
       is_current(r) /\ req[r].pc \in {"prepare", "replay", "recover"}
  /\ BooksTouched(r, y)

\* What a request that holds something is known to satisfy.
LEMMA Holding ==
  ASSUME Inv, NEW s \in Requests,
         \/ req[s].guards.capacity
         \/ req[s].guards.provider # NoToken
         \/ req[s].guards.key # NoToken
         \/ req[s].guards.endpoint # NoToken
  PROVE  /\ req[s].guards.capacity
         /\ req[s].at \in 1 .. Len(Plan)
         /\ Target(s).provider \in Providers
         /\ Target(s).key \in Keys
         /\ Target(s).endpoint \in Endpoints
         /\ Timely(providers[Target(s).provider], req[s].guards.provider)
         /\ Timely(keys[Target(s).key], req[s].guards.key)
         /\ Timely(endpoints[Target(s).endpoint], req[s].guards.endpoint)
<1>0. req[s] \in Request /\ Guarded(req[s])
  BY DEF Inv, TypeOK, GuardInv
<1>1. req[s].pc \notin Unheld
  BY <1>0 DEF Guarded
<1>2. req[s].guards.capacity
  BY <1>0, <1>1 DEF Guarded
<1>3. req[s].at =< Len(Plan)
  BY <1>0, <1>1 DEF Guarded, Unheld
<1>4. req[s].at \in 1 .. Len(Plan)
  BY <1>0, <1>3, PlanLength DEF Request
<1>5. /\ Target(s).provider \in Providers
      /\ Target(s).key \in Keys
      /\ Target(s).endpoint \in Endpoints
  BY <1>4, PlanTargets DEF Target
<1> QED  BY <1>2, <1>4, <1>5 DEF Inv, CoolInv

LEMMA EntryNumbers ==
  ASSUME TypeOK
  PROVE  /\ \A p \in Providers : /\ providers[p] \in P!Entry
                                 /\ providers[p].generation \in Nat
                                 /\ providers[p].open_until \in Int
                                 /\ providers[p].in_flight \in Nat
         /\ \A k \in Keys : /\ keys[k] \in H!Entry
                            /\ keys[k].generation \in Nat
                            /\ keys[k].open_until \in Int
         /\ \A e \in Endpoints : /\ endpoints[e] \in H!Entry
                                 /\ endpoints[e].generation \in Nat
                                 /\ endpoints[e].open_until \in Int
BY DEF TypeOK, P!Entry, H!Entry, P!NoTime, H!NoTime

LEMMA GuardNumbers ==
  ASSUME NEW x \in Request
  PROVE  /\ x.guards.capacity \in BOOLEAN
         /\ x.guards.provider \in P!Token /\ x.guards.provider.generation \in Nat
         /\ x.guards.key \in H!Token /\ x.guards.key.generation \in Nat
         /\ x.guards.endpoint \in H!Token /\ x.guards.endpoint.generation \in Nat
BY DEF Request, P!Token, H!Token

\* Taking or giving back one permit moves the count of holders by one.
LEMMA PermitCount ==
  ASSUME NEW S, IsFiniteSet(S), NEW r, NEW T, S \ {r} = T \ {r}
  PROVE  /\ IsFiniteSet(T)
         /\ Cardinality(T) = Cardinality(S) + (IF r \in T THEN 1 ELSE 0)
                                            - (IF r \in S THEN 1 ELSE 0)
         /\ r \in S => Cardinality(S) > 0
<1> DEFINE U == S \ {r}
<1>1. IsFiniteSet(U) /\ Cardinality(U) \in Nat
  BY FS_RemoveElement, FS_CardinalityType
<1>2. Cardinality(S) = Cardinality(U) + (IF r \in S THEN 1 ELSE 0)
  <2>1. CASE r \in S
    <3>1. Cardinality(S) \in Nat
      BY FS_CardinalityType
    <3>2. Cardinality(U) = Cardinality(S) - 1
      BY <2>1, FS_RemoveElement
    <3> HIDE DEF U
    <3> QED  BY <1>1, <2>1, <3>1, <3>2
  <2>2. CASE r \notin S
    <3>1. U = S
      BY <2>2
    <3> HIDE DEF U
    <3> QED  BY <1>1, <2>2, <3>1
  <2> QED  BY <2>1, <2>2
<1>3. IsFiniteSet(T) /\ Cardinality(T) = Cardinality(U) + (IF r \in T THEN 1 ELSE 0)
  <2>1. CASE r \in T
    <3>1. T = U \cup {r} /\ r \notin U
      BY <2>1
    <3> HIDE DEF U
    <3>2. IsFiniteSet(T) /\ Cardinality(T) = Cardinality(U) + 1
      BY <1>1, <3>1, FS_AddElement
    <3> QED  BY <2>1, <3>2
  <2>2. CASE r \notin T
    <3>1. T = U
      BY <2>2
    <3> HIDE DEF U
    <3> QED  BY <1>1, <2>2, <3>1
  <2> QED  BY <2>1, <2>2
<1> HIDE DEF U
<1> QED  BY <1>1, <1>2, <1>3

LEMMA Preserved ==
  ASSUME Inv, NEW r \in Requests, NEW y, Touch(r, y)
  PROVE  Inv'
<1> USE DEF Touch
<1>0. /\ TypeOK /\ BudgetInv /\ GuardInv /\ CoolInv /\ NothingLeaked
      /\ now \in Nat
      /\ req \in [Requests -> Request]
      /\ req[r] \in Request
  BY DEF Inv, TypeOK
<1>1. /\ req' \in [Requests -> Request]
      /\ req'[r] = y
      /\ \A s \in Requests : s # r => req'[s] = req[s]
  BY <1>0
<1>2. TypeOK'
  BY <1>0, <1>1 DEF TypeOK, BooksTouched
<1>3. BudgetInv' /\ GuardInv'
  <2>1. \A s \in Requests : Budgeted(req'[s]) /\ Guarded(req'[s])
    BY <1>0, <1>1 DEF BudgetInv, GuardInv
  <2> QED  BY <2>1 DEF BudgetInv, GuardInv, Budgeted, Guarded
<1>4. \A s \in Requests : req'[s].guards # NoGuards => req'[s].at \in 1 .. Len(Plan)
  <2> SUFFICES ASSUME NEW s \in Requests, req'[s].guards # NoGuards
               PROVE  req'[s].at \in 1 .. Len(Plan)
    OBVIOUS
  <2> DEFINE x == req'[s]
  <2>1. x \in Request /\ Guarded(x)
    BY <1>0, <1>1 DEF GuardInv
  <2>2. x.pc \notin Unheld
    BY <2>1 DEF Guarded, Request, NoGuards
  <2>3. x.at =< Len(Plan)
    BY <2>1, <2>2 DEF Guarded, Unheld
  <2> QED  BY <2>1, <2>3, PlanLength DEF Request
<1>5. \A s \in Requests : req'[s].guards # NoGuards =>
        /\ Plan[req'[s].at].provider \in Providers
        /\ Plan[req'[s].at].key \in Keys
        /\ Plan[req'[s].at].endpoint \in Endpoints
  BY <1>4, PlanTargets
<1>6. /\ \A p \in Providers : providers'[p].generation > 0
      /\ \A p \in Providers : providers'[p].probe_owner # 0 => \E s \in Requests :
           req'[s].guards.provider = ProbeOf(providers'[p]) /\ Plan[req'[s].at].provider = p
      /\ \A s \in Requests : req'[s].guards.provider # NoToken =>
           Timely(providers'[Plan[req'[s].at].provider], req'[s].guards.provider)
  <2> DEFINE g == [s \in Requests |-> req[s].guards.provider]
             h == [s \in Requests |-> req'[s].guards.provider]
             t == [s \in Requests |-> Target(s).provider]
             u == [s \in Requests |-> Plan[req'[s].at].provider]
             b == providers
             c == providers'
  <2>1. \A p \in Providers : b[p].generation \in Nat /\ b[p].generation > 0 /\ b[p].open_until \in Int
    BY <1>0, EntryNumbers DEF CoolInv
  <2>2. \A p \in Providers : c[p].generation \in Nat /\ c[p].open_until \in Int
    BY DEF BooksTouched, P!Entry, P!NoTime
  <2>3. \A s \in Requests : g[s].generation \in Nat
    BY <1>0, GuardNumbers
  <2>4. \A s \in Requests : s # r => h[s] = g[s] /\ u[s] = t[s]
    BY <1>1 DEF Target
  <2>5. h[r] = NoToken \/ u[r] = t[r]
    BY <1>1, NoGuardsFields DEF Target
  <2>6. \A s \in Requests : h[s] # NoToken => u[s] \in Providers
    BY <1>5, NoGuardsFields
  <2>7. /\ \A p \in Providers : p = t[r] => Change(b[p], g[r], c[p], h[r])
        /\ \A p \in Providers : p # t[r] => c[p] = b[p] \/ Renewed(b[p], c[p])
    BY <1>1 DEF BooksTouched
  <2>8. \A p \in Providers : b[p].probe_owner # 0 =>
          \E s \in Requests : g[s] = ProbeOf(b[p]) /\ t[s] = p
    BY <1>0 DEF NothingLeaked
  <2>9. \A s \in Requests : g[s] # NoToken => t[s] \in Providers /\ Timely(b[t[s]], g[s])
    BY Holding
  <2> HIDE DEF g, h, t, u, b, c
  <2>10. BookBefore(Requests, Providers, b, g, t)
    BY <2>1, <2>3, <2>8, <2>9 DEF BookBefore
  <2>11. BookMove(Requests, Providers, b, c, g, h, t, u, r)
    BY <2>2, <2>4, <2>5, <2>6, <2>7 DEF BookMove
  <2>12. BookAfter(Requests, Providers, c, h, u)
    BY <1>0, <2>10, <2>11, BookStep
  <2> QED  BY <2>12 DEF BookAfter, h, u, c
<1>7. /\ \A k \in Keys : keys'[k].generation > 0
      /\ \A k \in Keys : keys'[k].probe_owner # 0 => \E s \in Requests :
           req'[s].guards.key = ProbeOf(keys'[k]) /\ Plan[req'[s].at].key = k
      /\ \A s \in Requests : req'[s].guards.key # NoToken =>
           Timely(keys'[Plan[req'[s].at].key], req'[s].guards.key)
  <2> DEFINE g == [s \in Requests |-> req[s].guards.key]
             h == [s \in Requests |-> req'[s].guards.key]
             t == [s \in Requests |-> Target(s).key]
             u == [s \in Requests |-> Plan[req'[s].at].key]
             b == keys
             c == keys'
  <2>1. \A k \in Keys : b[k].generation \in Nat /\ b[k].generation > 0 /\ b[k].open_until \in Int
    BY <1>0, EntryNumbers DEF CoolInv
  <2>2. \A k \in Keys : c[k].generation \in Nat /\ c[k].open_until \in Int
    BY DEF BooksTouched, H!Entry, H!NoTime
  <2>3. \A s \in Requests : g[s].generation \in Nat
    BY <1>0, GuardNumbers
  <2>4. \A s \in Requests : s # r => h[s] = g[s] /\ u[s] = t[s]
    BY <1>1 DEF Target
  <2>5. h[r] = NoToken \/ u[r] = t[r]
    BY <1>1, NoGuardsFields DEF Target
  <2>6. \A s \in Requests : h[s] # NoToken => u[s] \in Keys
    BY <1>5, NoGuardsFields
  <2>7. /\ \A k \in Keys : k = t[r] => Change(b[k], g[r], c[k], h[r])
        /\ \A k \in Keys : k # t[r] => c[k] = b[k] \/ Renewed(b[k], c[k])
    BY <1>1 DEF BooksTouched
  <2>8. \A k \in Keys : b[k].probe_owner # 0 =>
          \E s \in Requests : g[s] = ProbeOf(b[k]) /\ t[s] = k
    BY <1>0 DEF NothingLeaked
  <2>9. \A s \in Requests : g[s] # NoToken => t[s] \in Keys /\ Timely(b[t[s]], g[s])
    BY Holding
  <2> HIDE DEF g, h, t, u, b, c
  <2>10. BookBefore(Requests, Keys, b, g, t)
    BY <2>1, <2>3, <2>8, <2>9 DEF BookBefore
  <2>11. BookMove(Requests, Keys, b, c, g, h, t, u, r)
    BY <2>2, <2>4, <2>5, <2>6, <2>7 DEF BookMove
  <2>12. BookAfter(Requests, Keys, c, h, u)
    BY <1>0, <2>10, <2>11, BookStep
  <2> QED  BY <2>12 DEF BookAfter, h, u, c
<1>8. /\ \A e \in Endpoints : endpoints'[e].generation > 0
      /\ \A e \in Endpoints : endpoints'[e].probe_owner # 0 => \E s \in Requests :
           req'[s].guards.endpoint = ProbeOf(endpoints'[e]) /\ Plan[req'[s].at].endpoint = e
      /\ \A s \in Requests : req'[s].guards.endpoint # NoToken =>
           Timely(endpoints'[Plan[req'[s].at].endpoint], req'[s].guards.endpoint)
  <2> DEFINE g == [s \in Requests |-> req[s].guards.endpoint]
             h == [s \in Requests |-> req'[s].guards.endpoint]
             t == [s \in Requests |-> Target(s).endpoint]
             u == [s \in Requests |-> Plan[req'[s].at].endpoint]
             b == endpoints
             c == endpoints'
  <2>1. \A e \in Endpoints : b[e].generation \in Nat /\ b[e].generation > 0 /\ b[e].open_until \in Int
    BY <1>0, EntryNumbers DEF CoolInv
  <2>2. \A e \in Endpoints : c[e].generation \in Nat /\ c[e].open_until \in Int
    BY DEF BooksTouched, H!Entry, H!NoTime
  <2>3. \A s \in Requests : g[s].generation \in Nat
    BY <1>0, GuardNumbers
  <2>4. \A s \in Requests : s # r => h[s] = g[s] /\ u[s] = t[s]
    BY <1>1 DEF Target
  <2>5. h[r] = NoToken \/ u[r] = t[r]
    BY <1>1, NoGuardsFields DEF Target
  <2>6. \A s \in Requests : h[s] # NoToken => u[s] \in Endpoints
    BY <1>5, NoGuardsFields
  <2>7. /\ \A e \in Endpoints : e = t[r] => Change(b[e], g[r], c[e], h[r])
        /\ \A e \in Endpoints : e # t[r] => c[e] = b[e] \/ Renewed(b[e], c[e])
    BY <1>1 DEF BooksTouched
  <2>8. \A e \in Endpoints : b[e].probe_owner # 0 =>
          \E s \in Requests : g[s] = ProbeOf(b[e]) /\ t[s] = e
    BY <1>0 DEF NothingLeaked
  <2>9. \A s \in Requests : g[s] # NoToken => t[s] \in Endpoints /\ Timely(b[t[s]], g[s])
    BY Holding
  <2> HIDE DEF g, h, t, u, b, c
  <2>10. BookBefore(Requests, Endpoints, b, g, t)
    BY <2>1, <2>3, <2>8, <2>9 DEF BookBefore
  <2>11. BookMove(Requests, Endpoints, b, c, g, h, t, u, r)
    BY <2>2, <2>4, <2>5, <2>6, <2>7 DEF BookMove
  <2>12. BookAfter(Requests, Endpoints, c, h, u)
    BY <1>0, <2>10, <2>11, BookStep
  <2> QED  BY <2>12 DEF BookAfter, h, u, c
<1>9. CoolInv'
  <2>1. ASSUME NEW s \in Requests, req'[s].guards.capacity
        PROVE  /\ Timely(providers'[Plan[req'[s].at].provider], req'[s].guards.provider)
               /\ Timely(keys'[Plan[req'[s].at].key], req'[s].guards.key)
               /\ Timely(endpoints'[Plan[req'[s].at].endpoint], req'[s].guards.endpoint)
    <3>1. /\ Plan[req'[s].at].provider \in Providers
          /\ Plan[req'[s].at].key \in Keys
          /\ Plan[req'[s].at].endpoint \in Endpoints
      BY <1>5, <2>1, NoGuardsFields
    <3>2. ASSUME NEW e, e.generation \in Nat, e.generation > 0  PROVE Timely(e, NoToken)
      BY <3>2 DEF Timely, NoToken
    <3>3. /\ providers'[Plan[req'[s].at].provider].generation \in Nat
          /\ keys'[Plan[req'[s].at].key].generation \in Nat
          /\ endpoints'[Plan[req'[s].at].endpoint].generation \in Nat
      BY <3>1 DEF BooksTouched, P!Entry, H!Entry
    <3> QED  BY <1>6, <1>7, <1>8, <3>1, <3>2, <3>3
  <2>2. now' = now
    BY DEF BooksTouched
  <2> QED  BY <1>6, <1>7, <1>8, <2>1, <2>2, ZenonT(60) DEF CoolInv, Timely, Target
<1>10. \A p \in Providers : providers'[p].in_flight = Cardinality(PermitHolders(p)')
  <2> SUFFICES ASSUME NEW p \in Providers
               PROVE  providers'[p].in_flight = Cardinality(PermitHolders(p)')
    OBVIOUS
  <2> DEFINE S == PermitHolders(p)
             T == PermitHolders(p)'
  <2>1. IsFiniteSet(S)
    <3>1. IsFiniteSet(Requests)
      BY ProxyAssumption
    <3>2. S \subseteq Requests
      BY DEF PermitHolders
    <3> QED  BY <3>1, <3>2, FS_Subset
  <2>2. S \ {r} = T \ {r}
    BY <1>1 DEF PermitHolders, Target
  <2>3. r \in S <=> req[r].guards.capacity /\ Target(r).provider = p
    BY DEF PermitHolders
  <2>4. r \in T <=> y.guards.capacity /\ Target(r).provider = p
    BY <1>1, NoGuardsFields DEF PermitHolders, Target
  <2>5. providers[p].in_flight = Cardinality(S)
    BY <1>0 DEF NothingLeaked
  <2>6. providers'[p].in_flight = IF p = Target(r).provider
          THEN providers[p].in_flight + Permits(y) - Permits(req[r])
          ELSE providers[p].in_flight
    BY DEF BooksTouched
  <2>7. Cardinality(S) \in Nat
    BY <2>1, FS_CardinalityType
  <2> HIDE DEF S, T
  <2>8. Cardinality(T) = Cardinality(S) + (IF r \in T THEN 1 ELSE 0) - (IF r \in S THEN 1 ELSE 0)
    BY <2>1, <2>2, PermitCount
  <2>9. providers'[p].in_flight = Cardinality(T)
    BY <2>3, <2>4, <2>5, <2>6, <2>7, <2>8 DEF Permits
  <2> QED  BY <2>9 DEF T
<1>11. NothingLeaked'
  BY <1>6, <1>7, <1>8, <1>10 DEF NothingLeaked, Target, ProbeOf
<1> QED  BY <1>2, <1>3, <1>9, <1>11 DEF Inv

-----------------------------------------------------------------------------
(* The two shapes of a step.                                               *)

\* A step that leaves the breakers and the guards as they are.
LEMMA Keeps ==
  ASSUME Inv, NEW r \in Requests, NEW y \in Request,
         req' = [req EXCEPT ![r] = y],
         Budgeted(y), Guarded(y),
         y.guards = req[r].guards,
         y.at = req[r].at \/ y.guards = NoGuards,
         y.pc = "sent" /\ req[r].pc # "sent" =>
           is_current(r) /\ req[r].pc \in {"prepare", "replay", "recover"},
         quotas' \in [Keys -> Q!Entry],
         UNCHANGED <<now, endpoints, keys, providers, resets>>
  PROVE  Touch(r, y)
<1>1. TypeOK
  BY DEF Inv
<1>2. /\ \A p \in Providers : Change(providers[p], y.guards.provider, providers[p], y.guards.provider)
      /\ \A k \in Keys : Change(keys[k], y.guards.key, keys[k], y.guards.key)
      /\ \A e \in Endpoints : Change(endpoints[e], y.guards.endpoint, endpoints[e], y.guards.endpoint)
  BY <1>1, EntryNumbers, Unchanged
<1>3. \A p \in Providers :
        providers[p].in_flight = providers[p].in_flight + Permits(y) - Permits(req[r])
  <2>1. Permits(y) = Permits(req[r]) /\ Permits(y) \in Nat
    BY DEF Permits
  <2> QED  BY <1>1, <2>1, EntryNumbers
<1>4. BooksTouched(r, y)
  BY <1>1, <1>2, <1>3 DEF BooksTouched, TypeOK
<1> QED  BY <1>4 DEF Touch

LEMMA Verdicts ==
  ASSUME NEW scope \in Scopes
  PROVE  /\ Verdict(scope).endpoint \in {"success", "failure", "neutral"}
         /\ Verdict(scope).key \in {"success", "failure", "neutral"}
         /\ Verdict(scope).provider \in {"success", "failure", "neutral"}
BY DEF Scopes, Verdict

\* A step that settles the reservation, whatever it tells the books.
LEMMA Finishes ==
  ASSUME Inv, NEW r \in Requests, NEW y \in Request,
         NEW scope \in Scopes, NEW keep \in BOOLEAN, NEW hold \in Int,
         req[r].at \in 1 .. Len(Plan),
         finish_with_scope(r, scope, keep, hold),
         req' = [req EXCEPT ![r] = y],
         Budgeted(y), Guarded(y),
         y.guards.provider = NoToken, y.guards.key = NoToken, y.guards.endpoint = NoToken,
         y.guards.capacity <=> keep /\ req[r].guards.capacity,
         y.at = req[r].at \/ y.guards = NoGuards,
         y.pc # "sent",
         quotas' \in [Keys -> Q!Entry],
         UNCHANGED <<now, resets>>
  PROVE  Touch(r, y)
<1> DEFINE x == Target(r)
           v == Verdict(scope)
           g == req[r].guards
           e0 == endpoints[x.endpoint]
           e1 == settled_health(e0, g.endpoint, v.endpoint)
           e2 == IF hold = -1 THEN e1 ELSE H!after_defer(e1, hold)
           k0 == keys[x.key]
           k1 == settled_health(k0, g.key, v.key)
           p0 == providers[x.provider]
           p1 == settled_provider(p0, g.provider, v.provider)
           p2 == release_capacity(p1, g.capacity /\ ~keep)
<1>0. TypeOK /\ now \in Nat /\ req[r] \in Request
  BY DEF Inv, TypeOK
<1>1. x.provider \in Providers /\ x.key \in Keys /\ x.endpoint \in Endpoints
  BY PlanTargets DEF Target
<1>2. /\ g.capacity \in BOOLEAN
      /\ g.provider \in P!Token
      /\ g.key \in H!Token
      /\ g.endpoint \in H!Token
  BY <1>0, GuardNumbers
<1>3. p0 \in P!Entry /\ k0 \in H!Entry /\ e0 \in H!Entry
  BY <1>0, <1>1, EntryNumbers
<1>4. /\ v.endpoint \in {"success", "failure", "neutral"}
      /\ v.key \in {"success", "failure", "neutral"}
      /\ v.provider \in {"success", "failure", "neutral"}
  BY Verdicts
<1>5. /\ endpoints' = [endpoints EXCEPT ![x.endpoint] = e2]
      /\ keys' = [keys EXCEPT ![x.key] = k1]
      /\ providers' = [providers EXCEPT ![x.provider] = p2]
  BY DEF finish_with_scope, H!NoTime
<1>6. g.capacity => p0.in_flight > 0
  <2> SUFFICES ASSUME g.capacity PROVE p0.in_flight > 0
    OBVIOUS
  <2> DEFINE S == PermitHolders(x.provider)
  <2>1. r \in S
    BY DEF PermitHolders
  <2>2. IsFiniteSet(S)
    <3>1. IsFiniteSet(Requests)
      BY ProxyAssumption
    <3>2. S \subseteq Requests
      BY DEF PermitHolders
    <3> QED  BY <3>1, <3>2, FS_Subset
  <2>3. p0.in_flight = Cardinality(S)
    BY <1>1 DEF Inv, NothingLeaked
  <2> HIDE DEF S
  <2> QED  BY <2>1, <2>2, <2>3, PermitCount
<1> HIDE DEF x, v, g, e0, k0, p0
<1>7. k1 \in H!Entry /\ Change(k0, g.key, k1, NoToken)
  BY <1>0, <1>2, <1>3, <1>4, HealthSettles
<1>8. e2 \in H!Entry /\ Change(e0, g.endpoint, e2, NoToken)
  <2>1. e1 \in H!Entry /\ Change(e0, g.endpoint, e1, NoToken)
    BY <1>0, <1>2, <1>3, <1>4, HealthSettles
  <2> HIDE DEF e1
  <2>2. CASE hold = -1
    BY <2>1, <2>2
  <2>3. CASE hold # -1
    <3>1. e2 \in H!Entry /\ e2.generation = e1.generation + 1 /\ e2.probe_owner = 0
      BY <2>1, <2>3, HealthDefers
    <3>2. e2.generation > e0.generation
      BY <1>3, <2>1, <3>1, SMTT(30) DEF Change, Calm, H!Entry
    <3> HIDE DEF e2
    <3> QED  BY <3>1, <3>2, Advanced
  <2> QED  BY <2>2, <2>3
<1>9. /\ p2 \in P!Entry
      /\ Change(p0, g.provider, p2, NoToken)
      /\ p2.in_flight = IF g.capacity /\ ~keep THEN p0.in_flight - 1 ELSE p0.in_flight
  <2>1. p1 \in P!Entry /\ p1.in_flight = p0.in_flight /\ Change(p0, g.provider, p1, NoToken)
    BY <1>0, <1>2, <1>3, <1>4, ProviderSettles
  <2> HIDE DEF p1
  <2> DEFINE held == g.capacity /\ ~keep
  <2>2. held \in BOOLEAN /\ (held => p1.in_flight > 0)
    BY <1>6, <2>1
  <2> HIDE DEF held
  <2>3. LET f == release_capacity(p1, held) IN
        /\ f \in P!Entry
        /\ f.in_flight = IF held THEN p1.in_flight - 1 ELSE p1.in_flight
        /\ f.generation = p1.generation
        /\ f.open_until = p1.open_until
        /\ f.probe_owner = p1.probe_owner
    BY <2>1, <2>2, CapacityReleased
  <2>4. p2 = release_capacity(p1, held)
    BY DEF held
  <2> HIDE DEF p2
  <2>5. Change(p0, g.provider, p2, NoToken)
    BY <2>1, <2>3, <2>4 DEF Change, Calm, ProbeOf
  <2> QED  BY <2>1, <2>3, <2>4, <2>5 DEF held
<1> HIDE DEF k1, e2, p2
<1>10. /\ providers' \in [Providers -> P!Entry]
       /\ providers'[x.provider] = p2
       /\ \A p \in Providers : p # x.provider => providers'[p] = providers[p]
       /\ keys' \in [Keys -> H!Entry]
       /\ keys'[x.key] = k1
       /\ \A k \in Keys : k # x.key => keys'[k] = keys[k]
       /\ endpoints' \in [Endpoints -> H!Entry]
       /\ endpoints'[x.endpoint] = e2
       /\ \A e \in Endpoints : e # x.endpoint => endpoints'[e] = endpoints[e]
  BY <1>0, <1>1, <1>5, <1>7, <1>8, <1>9 DEF TypeOK
<1>11. p2.in_flight = p0.in_flight + Permits(y) - Permits(req[r])
  <2>1. p0.in_flight \in Nat
    BY <1>3 DEF P!Entry
  <2>2. req[r].guards.capacity = g.capacity
    BY DEF g
  <2> QED  BY <1>9, <2>1, <2>2 DEF Permits
<1>12. BooksTouched(r, y)
  BY <1>7, <1>8, <1>9, <1>10, <1>11 DEF BooksTouched, x, g, p0, k0, e0
<1> QED  BY <1>12 DEF Touch

-----------------------------------------------------------------------------
(* Requests that have left their target.                                   *)

Within(x) ==
  /\ x.sends =< x.used
  /\ \A p \in Providers : x.sent[p] =< MaxOf(ProviderAttempts, 1)

Over(y) ==
  /\ y \in Request
  /\ y.pc \in Aimless
  /\ y.guards = NoGuards
  /\ Within(y)

LEMMA OverFits ==
  ASSUME NEW y, Over(y)
  PROVE  Budgeted(y) /\ Guarded(y)
<1>1. /\ y.pc \notin Reserving \cup {"backoff", "prepare", "replay", "recover", "sent"}
      /\ y.pc \in Unheld
  BY DEF Over, Aimless, Unheld, Reserving
<1> QED  BY <1>1, NoGuardsFields DEF Over, Within, Budgeted, Guarded

LEMMA ProviderLimit == MaxOf(ProviderAttempts, 1) \in Nat /\ MaxOf(ProviderAttempts, 1) > 0
  BY ProxyAssumption DEF MaxOf

LEMMA OverFailed ==
  ASSUME NEW x \in Request
  PROVE  Over(Failed(x))
<1> DEFINE y == Failed(x)
<1>1. /\ y \in Request
      /\ y.pc = "failed"
      /\ y.guards = NoGuards
      /\ y.used = 0
      /\ y.sends = 0
      /\ \A p \in Providers : y.sent[p] = 0
  BY FailedFields
<1> HIDE DEF y
<1>2. Over(y)
  BY <1>1, ProviderLimit DEF Over, Within, Aimless
<1> QED  BY <1>2 DEF y

LEMMA OverEnded == Over(Ended)
  BY EndedFields, ProviderLimit DEF Over, Within, Aimless

LEMMA OverContinue ==
  ASSUME NEW x \in Request, x.at =< Len(Plan), x.guards = NoGuards, Within(x)
  PROVE  Over(Continue(x))
<1> DEFINE y == Continue(x)
<1>1. /\ y \in Request
      /\ y.pc = "select"
      /\ y.guards = x.guards
      /\ y.used = x.used
      /\ y.sent = x.sent
      /\ y.sends = x.sends
  BY ContinueFields
<1> HIDE DEF y
<1>2. Over(y)
  BY <1>1 DEF Over, Within, Aimless
<1> QED  BY <1>2 DEF y

LEMMA ExcludedTargets ==
  ASSUME NEW x
  PROVE  /\ note_attempt(x) \subseteq Targets
         /\ avoid_endpoint(x) \subseteq Targets
         /\ avoid_key(x) \subseteq Targets
         /\ avoid_provider(x) \subseteq Targets
BY DEF note_attempt, avoid_endpoint, avoid_key, avoid_provider

LEMMA OverFailover ==
  ASSUME NEW r, NEW x \in Request, x.at =< Len(Plan), x.guards = NoGuards, Within(x),
         NEW excluded \in SUBSET Targets,
         Failover(r, x, excluded)
  PROVE  \E y : req' = [req EXCEPT ![r] = y] /\ Over(y)
<1> DEFINE s == x.skip \cup note_attempt(Target(r)) \cup excluded
           y == [x EXCEPT !.skip = s]
<1>1. s \in SUBSET Targets
  BY ExcludedTargets DEF Request
<1>2. \/ req' = [req EXCEPT ![r] = Continue(y)]
      \/ req' = [req EXCEPT ![r] = Failed(y)]
  BY DEF Failover, Become
<1> HIDE DEF s
<1>3. y \in Request /\ Same(y, x)
  BY <1>1, SkipFields
<1> HIDE DEF y
<1>4. Over(Continue(y))
  BY <1>3, OverContinue DEF Same, Within
<1>5. Over(Failed(y))
  BY <1>3, OverFailed
<1> QED  BY <1>2, <1>4, <1>5

\* A request with a target settles its reservation and leaves it.
LEMMA Leaves ==
  ASSUME Inv, NEW r \in Requests, req[r].pc \notin Aimless,
         NEW scope \in Scopes, finish(r, scope),
         NEW y, Over(y), req' = [req EXCEPT ![r] = y],
         quotas' \in [Keys -> Q!Entry],
         UNCHANGED <<now, resets>>
  PROVE  Touch(r, y)
<1>1. req[r] \in Request /\ Guarded(req[r])
  BY DEF Inv, TypeOK, GuardInv
<1>2. req[r].at \in 1 .. Len(Plan)
  BY <1>1, PlanLength DEF Guarded, Request
<1>3. finish_with_scope(r, scope, FALSE, -1)
  BY DEF finish, H!NoTime
<1>4. /\ y \in Request
      /\ y.guards = NoGuards
      /\ y.pc # "sent"
      /\ Budgeted(y) /\ Guarded(y)
  BY OverFits DEF Over, Aimless
<1>5. /\ y.guards.provider = NoToken
      /\ y.guards.key = NoToken
      /\ y.guards.endpoint = NoToken
      /\ y.guards.capacity = FALSE
  BY <1>4, NoGuardsFields
<1>6. FALSE \in BOOLEAN /\ -1 \in Int
  OBVIOUS
<1> QED  BY <1>2, <1>3, <1>4, <1>5, <1>6, Finishes

\* What is known of a request before its step.
LEMMA Before ==
  ASSUME Inv, NEW r \in Requests
  PROVE  /\ req[r] \in Request
         /\ Budgeted(req[r])
         /\ Guarded(req[r])
         /\ Within(req[r])
         /\ now \in Nat
         /\ quotas \in [Keys -> Q!Entry]
         /\ req[r].pc \notin Aimless => req[r].at \in 1 .. Len(Plan)
         /\ req[r].pc \notin Aimless => Target(r).key \in Keys /\ Target(r).provider \in Providers
         /\ req[r].pc \in Unheld => req[r].guards = NoGuards
<1>1. req[r] \in Request /\ Budgeted(req[r]) /\ Guarded(req[r])
  BY DEF Inv, TypeOK, BudgetInv, GuardInv
<1>2. Within(req[r])
  BY <1>1 DEF Budgeted, Within
<1>3. req[r].pc \notin Aimless => req[r].at \in 1 .. Len(Plan)
  BY <1>1, PlanLength DEF Guarded, Request
<1>4. req[r].pc \in Unheld => req[r].guards = NoGuards
  BY <1>1 DEF Guarded, Request, NoGuards
<1>5. req[r].pc \notin Aimless => Target(r).key \in Keys /\ Target(r).provider \in Providers
  BY <1>3, PlanTargets DEF Target
<1> QED  BY <1>1, <1>2, <1>3, <1>4, <1>5 DEF Inv, TypeOK

\* The request that has dropped its reservation and still has its target.
LEMMA ReleasedFits ==
  ASSUME Inv, NEW r \in Requests, req[r].pc \notin Aimless
  PROVE  /\ Released(r) \in Request
         /\ Released(r).at =< Len(Plan)
         /\ Released(r).guards = NoGuards
         /\ Within(Released(r))
<1> DEFINE y == Released(r)
<1>1. /\ y \in Request
      /\ y.at = req[r].at
      /\ y.guards = NoGuards
      /\ y.used = req[r].used
      /\ y.sent = req[r].sent
      /\ y.sends = req[r].sends
  BY Before, ReleasedFields
<1>2. req[r].at \in 1 .. Len(Plan) /\ Within(req[r])
  BY Before
<1> HIDE DEF y
<1>3. y.at =< Len(Plan) /\ Within(y)
  BY <1>1, <1>2, PlanLength DEF Within
<1> QED  BY <1>1, <1>3 DEF y

-----------------------------------------------------------------------------
(* One lemma per group of actions.                                         *)

Touched(r) == \E y : Touch(r, y)

\* A request that stays at its target and keeps what it holds.
LEMMA GoesOn ==
  ASSUME Inv, NEW r \in Requests, NEW y \in Request,
         req' = [req EXCEPT ![r] = y],
         y.at = req[r].at, y.guards = req[r].guards,
         y.pc \in {"prepare", "replay", "recover", "sent", "defer", "judge"},
         req[r].pc \in {"quota", "prepare", "replay", "recover", "sent", "defer", "judge"},
         Within(y),
         y.pc = "prepare" => y.sends < y.used,
         y.pc \in {"prepare", "replay", "recover"} =>
           y.sent[Target(r).provider] < MaxOf(ProviderAttempts, 1),
         y.pc = "sent" /\ req[r].pc # "sent" =>
           is_current(r) /\ req[r].pc \in {"prepare", "replay", "recover"},
         quotas' \in [Keys -> Q!Entry],
         UNCHANGED <<now, endpoints, keys, providers, resets>>
  PROVE  Touch(r, y)
<1>1. req[r] \in Request /\ Guarded(req[r])
  BY Before
<1>2. /\ y.pc \notin Unheld \cup {"provider", "key", "endpoint"}
      /\ req[r].pc \notin Unheld
  BY DEF Unheld, Aimless
<1>3. Guarded(y)
  BY <1>1, <1>2 DEF Guarded, Unheld
<1>4. /\ y.pc \in Reserving \cup {"prepare"} => y.pc = "prepare"
      /\ y.pc \in Reserving \cup {"backoff", "prepare", "replay", "recover"} =>
           y.pc \in {"prepare", "replay", "recover"}
  BY DEF Reserving
<1>5. Budgeted(y)
  BY <1>4 DEF Budgeted, Within, Target
<1> QED  BY <1>3, <1>5, Keeps

\* Walking the plan.
LEMMA Walks ==
  ASSUME Inv, NEW r \in Requests,
         \/ SkipTarget(r) \/ StopRetrying(r) \/ ChooseTarget(r)
         \/ BeginAttempt(r) \/ BeginOverrun(r)
  PROVE  Touched(r)
<1> DEFINE x == req[r]
<1>0. /\ x \in Request
      /\ Budgeted(x) /\ Guarded(x) /\ Within(x)
      /\ now \in Nat
      /\ quotas \in [Keys -> Q!Entry]
      /\ x.pc \in Unheld => x.guards = NoGuards
  BY Before
<1>1. ASSUME NEW y, Over(y), x.pc \in {"select", "backoff"},
             req' = [req EXCEPT ![r] = y], UNCHANGED <<now, books, resets>>
      PROVE  Touched(r)
  <2>1. /\ y \in Request
        /\ Budgeted(y) /\ Guarded(y)
        /\ y.guards = NoGuards
        /\ y.pc # "sent"
    BY <1>1, OverFits DEF Over, Aimless
  <2>2. x.guards = NoGuards
    BY <1>0, <1>1 DEF Unheld, Aimless
  <2>3. quotas' \in [Keys -> Q!Entry] /\ UNCHANGED <<now, endpoints, keys, providers, resets>>
    BY <1>0, <1>1 DEF books
  <2>4. Touch(r, y)
    BY <1>1, <2>1, <2>2, <2>3, Keeps
  <2> QED  BY <2>4 DEF Touched
<1>2. CASE SkipTarget(r)
  <2>1. x.pc = "select" /\ x.at =< Len(Plan) /\ x.guards = NoGuards
    BY <1>0, <1>2 DEF SkipTarget, InPlan, At, Unheld, Aimless
  <2>2. Over(Continue(x))
    BY <1>0, <2>1, OverContinue
  <2>3. req' = [req EXCEPT ![r] = Continue(x)] /\ UNCHANGED <<now, books, resets>>
    BY <1>2 DEF SkipTarget, Become
  <2> QED  BY <1>1, <2>1, <2>2, <2>3
<1>3. CASE StopRetrying(r)
  <2>1. x.pc = "select"
    BY <1>3 DEF StopRetrying, At
  <2>2. Over(Failed(x))
    BY <1>0, OverFailed
  <2>3. req' = [req EXCEPT ![r] = Failed(x)] /\ UNCHANGED <<now, books, resets>>
    BY <1>3 DEF StopRetrying, Become
  <2> QED  BY <1>1, <2>1, <2>2, <2>3
<1>4. CASE ChooseTarget(r)
  <2> DEFINE w == Goto(x, "backoff")
             y == [w EXCEPT !.replayed = FALSE]
             k == Target(r).key
  <2>1. x.pc = "select" /\ x.at =< Len(Plan) /\ x.guards = NoGuards
    BY <1>0, <1>4 DEF ChooseTarget, InPlan, At, Unheld, Aimless
  <2>2. k \in Keys
    <3>1. x.at \in 1 .. Len(Plan)
      BY <1>0, <2>1, PlanLength DEF Request
    <3> QED  BY <3>1, PlanTargets DEF Target
  <2>3. w \in Request /\ w.pc = "backoff" /\ Same(w, x)
    <3>1. "backoff" \in Labels
      BY DEF Labels
    <3> QED  BY <1>0, <3>1, GotoFields
  <2>4. req' = [req EXCEPT ![r] = y]
    BY <1>4 DEF ChooseTarget, Become
  <2>5. x.sent[Plan[x.at].provider] < MaxOf(ProviderAttempts, 1)
    BY <1>4 DEF ChooseTarget, provider_available, Target
  <2>6. quotas' \in [Keys -> Q!Entry]
    <3> DEFINE q == Q!expire_quota_state(quotas[k], now)
    <3>1. q \in Q!Entry
      BY <1>0, <2>2, QuotaExpires
    <3>2. quotas' = [quotas EXCEPT ![k] = q]
      BY <1>4 DEF ChooseTarget
    <3> HIDE DEF q
    <3> QED  BY <1>0, <2>2, <3>1, <3>2
  <2>7. UNCHANGED <<now, endpoints, keys, providers, resets>>
    BY <1>4 DEF ChooseTarget
  <2> HIDE DEF w
  <2>8. y \in Request /\ y.pc = "backoff" /\ Same(y, w)
    BY <2>3 DEF Request, Same
  <2> HIDE DEF y
  <2>9. Same(y, x)
    BY <2>3, <2>8 DEF Same
  <2>10. Guarded(y)
    BY <2>1, <2>8, <2>9, NoGuardsFields DEF Guarded, Same, Unheld, Aimless
  <2>11. Budgeted(y)
    BY <1>0, <2>5, <2>8, <2>9 DEF Budgeted, Within, Same, Reserving
  <2>12. Touch(r, y)
    BY <2>4, <2>6, <2>7, <2>8, <2>9, <2>10, <2>11, Keeps DEF Same
  <2> QED  BY <2>12 DEF Touched
<1>5. CASE BeginAttempt(r)
  <2> DEFINE w == Goto(x, "capacity")
             y == Begun(w)
  <2>1. x.pc = "backoff" /\ x.used < MAX_ATTEMPTS
    BY <1>5 DEF BeginAttempt, At, begin, available
  <2>2. w \in Request /\ w.pc = "capacity" /\ Same(w, x)
    <3>1. "capacity" \in Labels
      BY DEF Labels, Reserving
    <3> QED  BY <1>0, <3>1, GotoFields
  <2>3. req' = [req EXCEPT ![r] = y] /\ UNCHANGED <<now, books, resets>>
    BY <1>5 DEF BeginAttempt, Become
  <2>4. quotas' \in [Keys -> Q!Entry] /\ UNCHANGED <<now, endpoints, keys, providers, resets>>
    BY <1>0, <2>3 DEF books
  <2> HIDE DEF w
  <2>5. w.used < MAX_ATTEMPTS
    BY <2>1, <2>2 DEF Same
  <2>6. /\ y \in Request
        /\ y.pc = w.pc
        /\ y.at = w.at
        /\ y.guards = w.guards
        /\ y.used = w.used + 1
        /\ y.sent = w.sent
        /\ y.sends = w.sends
    BY <2>2, <2>5, BegunFields
  <2> HIDE DEF y
  <2>7. /\ y.pc = "capacity" /\ y.at = x.at /\ y.guards = x.guards
        /\ y.used = x.used + 1 /\ y.sent = x.sent /\ y.sends = x.sends
    BY <2>2, <2>6 DEF Same
  <2>8. Guarded(y)
    BY <1>0, <2>1, <2>7, NoGuardsFields DEF Guarded, Unheld, Aimless
  <2>9. Budgeted(y)
    <3>1. x.sends \in Nat /\ x.used \in Nat /\ x.sends =< x.used
      BY <1>0, ProxyAssumption DEF Request, Within
    <3>2. y.sends < y.used /\ y.sends =< y.used
      BY <2>7, <3>1
    <3> QED  BY <1>0, <2>1, <2>7, <3>2 DEF Budgeted
  <2>10. Touch(r, y)
    BY <2>3, <2>4, <2>6, <2>7, <2>8, <2>9, Keeps
  <2> QED  BY <2>10 DEF Touched
<1>6. CASE BeginOverrun(r)
  <2>1. x.pc = "backoff"
    BY <1>6 DEF BeginOverrun, At
  <2>2. Over(Failed(x))
    BY <1>0, OverFailed
  <2>3. req' = [req EXCEPT ![r] = Failed(x)] /\ UNCHANGED <<now, books, resets>>
    BY <1>6 DEF BeginOverrun, Become
  <2> QED  BY <1>1, <2>1, <2>2, <2>3
<1> QED  BY <1>2, <1>3, <1>4, <1>5, <1>6

\* A guard is added to the reservation, nothing else.
Took(x, l, g) == [Goto(x, l) EXCEPT !.guards = g]

LEMMA TookFields ==
  ASSUME NEW x \in Request, NEW l \in Labels, NEW g \in [capacity: BOOLEAN, provider: P!Token, key: H!Token, endpoint: H!Token]
  PROVE  LET y == Took(x, l, g) IN
         /\ y \in Request
         /\ y.pc = l
         /\ y.at = x.at
         /\ y.used = x.used
         /\ y.sent = x.sent
         /\ y.sends = x.sends
         /\ y.guards = g
<1> DEFINE w == Goto(x, l)
           y == [w EXCEPT !.guards = g]
<1>1. w \in Request /\ w.pc = l /\ Same(w, x)
  BY GotoFields
<1> HIDE DEF w
<1>2. /\ y \in Request
      /\ y.guards = g
      /\ y.pc = w.pc
      /\ y.at = w.at
      /\ y.used = w.used
      /\ y.sent = w.sent
      /\ y.sends = w.sends
  BY <1>1 DEF Request
<1>3. Took(x, l, g) = y
  BY DEF Took, w
<1> HIDE DEF y
<1> QED  BY <1>1, <1>2, <1>3 DEF Same

\* Within the reservation the budget does not move.
LEMMA ReserveBudget ==
  ASSUME NEW x, Budgeted(x), x.pc \in Reserving, NEW y,
         y.pc \in Reserving \cup {"prepare"},
         y.at = x.at, y.used = x.used, y.sent = x.sent, y.sends = x.sends
  PROVE  Budgeted(y)
BY DEF Budgeted

LEMMA BooksUntouched ==
  ASSUME Inv
  PROVE  /\ \A p \in Providers : \A tok : Change(providers[p], tok, providers[p], tok)
         /\ \A k \in Keys : \A tok : Change(keys[k], tok, keys[k], tok)
         /\ \A e \in Endpoints : \A tok : Change(endpoints[e], tok, endpoints[e], tok)
         /\ providers \in [Providers -> P!Entry]
         /\ keys \in [Keys -> H!Entry]
         /\ endpoints \in [Endpoints -> H!Entry]
         /\ \A p \in Providers : providers[p].in_flight \in Nat
<1>1. TypeOK
  BY DEF Inv
<1>2. /\ \A p \in Providers : providers[p].generation \in Nat /\ providers[p].in_flight \in Nat
      /\ \A k \in Keys : keys[k].generation \in Nat
      /\ \A e \in Endpoints : endpoints[e].generation \in Nat
  BY <1>1, EntryNumbers
<1> QED  BY <1>1, <1>2, Unchanged DEF TypeOK

LEMMA ReservesCapacity ==
  ASSUME Inv, NEW r \in Requests, ReserveCapacity(r)
  PROVE  Touched(r)
<1> DEFINE x == req[r]
           q == Target(r).provider
           y == [Goto(x, "provider") EXCEPT !.guards.capacity = TRUE]
           n == providers[q].in_flight + 1
           f == [providers[q] EXCEPT !.in_flight = n]
<1>0. x.pc = "capacity"
  BY DEF ReserveCapacity, At
<1>1. /\ x \in Request
      /\ Budgeted(x) /\ Guarded(x)
      /\ quotas \in [Keys -> Q!Entry]
      /\ q \in Providers
      /\ x.guards = NoGuards
      /\ x.at \in 1 .. Len(Plan)
  BY <1>0, Before DEF Aimless, Unheld
<1>2. /\ req' = [req EXCEPT ![r] = y]
      /\ providers' = [providers EXCEPT ![q] = f]
      /\ UNCHANGED <<now, endpoints, keys, quotas, resets>>
  BY DEF ReserveCapacity, Become
<1>3. /\ y \in Request
      /\ y.pc = "provider"
      /\ y.at = x.at /\ y.used = x.used /\ y.sent = x.sent /\ y.sends = x.sends
      /\ y.guards.capacity = TRUE
      /\ y.guards.provider = NoToken /\ y.guards.key = NoToken /\ y.guards.endpoint = NoToken
  <2>1. "provider" \in Labels
    BY DEF Labels, Reserving
  <2>3. /\ x.guards.provider = NoToken
        /\ x.guards.key = NoToken
        /\ x.guards.endpoint = NoToken
    BY <1>1, NoGuardsFields
  <2> DEFINE g == [x.guards EXCEPT !.capacity = TRUE]
             w == Goto(x, "provider")
  <2>4. x.guards \in [capacity: BOOLEAN, provider: P!Token, key: H!Token, endpoint: H!Token]
    BY <1>1 DEF Request
  <2>5. /\ g \in [capacity: BOOLEAN, provider: P!Token, key: H!Token, endpoint: H!Token]
        /\ g.capacity = TRUE
        /\ g.provider = x.guards.provider
        /\ g.key = x.guards.key
        /\ g.endpoint = x.guards.endpoint
    BY <2>4
  <2>6. w \in Request /\ w.guards = x.guards
    BY <1>1, <2>1, GotoFields DEF Same
  <2>7. y = Took(x, "provider", g)
    <3> HIDE DEF w
    <3>1. y = [w EXCEPT !.guards.capacity = TRUE]
      BY DEF w
    <3>2. y = [w EXCEPT !.guards = g]
      BY <2>6, <3>1
    <3> QED  BY <3>2 DEF Took, w
  <2> HIDE DEF y, g
  <2>8. /\ y \in Request
        /\ y.pc = "provider"
        /\ y.at = x.at /\ y.used = x.used /\ y.sent = x.sent /\ y.sends = x.sends
        /\ y.guards = g
    BY <1>1, <2>1, <2>5, <2>7, TookFields
  <2> QED  BY <2>5, <2>8, <2>3
<1> HIDE DEF y
<1>4. Guarded(y)
  BY <1>1, <1>3, PlanLength DEF Guarded, Unheld, Aimless
<1>5. Budgeted(y)
  BY <1>0, <1>1, <1>3, ReserveBudget DEF Reserving
<1>6. providers[q] \in P!Entry /\ n \in Nat /\ n = providers[q].in_flight + 1
  BY <1>1, BooksUntouched
<1> HIDE DEF n
<1>7. /\ f \in P!Entry
      /\ f.in_flight = n
      /\ f.generation = providers[q].generation
      /\ f.open_until = providers[q].open_until
      /\ f.probe_owner = providers[q].probe_owner
  BY <1>6 DEF P!Entry
<1> HIDE DEF f
<1>8. Change(providers[q], NoToken, f, NoToken)
  BY <1>7 DEF Change, Calm, ProbeOf, NoToken
<1>9. Permits(y) = 1 /\ Permits(x) = 0
  BY <1>1, <1>3, NoGuardsFields DEF Permits
<1>10. f.in_flight = providers[q].in_flight + Permits(y) - Permits(x)
  BY <1>6, <1>7, <1>9, BooksUntouched, <1>1
<1>11. /\ providers' \in [Providers -> P!Entry]
       /\ providers'[q] = f
       /\ \A p \in Providers : p # q => providers'[p] = providers[p]
  BY <1>1, <1>2, <1>7, BooksUntouched
<1>12. /\ x.guards.provider = NoToken
       /\ x.guards.key = NoToken
       /\ x.guards.endpoint = NoToken
  BY <1>1, NoGuardsFields
<1>13. BooksTouched(r, y)
  BY <1>1, <1>2, <1>3, <1>8, <1>10, <1>11, <1>12, BooksUntouched DEF BooksTouched
<1>14. Touch(r, y)
  BY <1>2, <1>3, <1>4, <1>5, <1>13 DEF Touch
<1> QED  BY <1>14 DEF Touched

LEMMA ReservesProvider ==
  ASSUME Inv, NEW r \in Requests, ReserveProvider(r)
  PROVE  Touched(r)
<1> DEFINE x == req[r]
           q == Target(r).provider
           tok == P!begin_token(TRUE, providers[q], now)
           f == P!after_begin(TRUE, providers[q], now)
           y == [Goto(x, "key") EXCEPT !.guards.provider = tok]
<1>0. x.pc = "provider"
  BY DEF ReserveProvider, At
<1>1. /\ x \in Request
      /\ Budgeted(x) /\ Guarded(x)
      /\ quotas \in [Keys -> Q!Entry]
      /\ now \in Nat
      /\ q \in Providers
      /\ x.at \in 1 .. Len(Plan)
  BY <1>0, Before DEF Aimless
<1>2. /\ x.guards.capacity
      /\ x.guards.provider = NoToken /\ x.guards.key = NoToken /\ x.guards.endpoint = NoToken
  BY <1>0, <1>1 DEF Guarded, Unheld, Aimless
<1>3. /\ req' = [req EXCEPT ![r] = y]
      /\ providers' = [providers EXCEPT ![q] = f]
      /\ UNCHANGED <<now, endpoints, keys, quotas, resets>>
  BY DEF ReserveProvider, Become
<1>4. P!admits(TRUE, providers[q], now)
  BY <1>0 DEF ReserveProvider, Admits, At
<1>5. providers[q] \in P!Entry
  BY <1>1, BooksUntouched
<1>6. /\ f \in P!Entry
      /\ f.in_flight = providers[q].in_flight
      /\ tok \in P!Token
      /\ Change(providers[q], NoToken, f, tok)
  BY <1>1, <1>4, <1>5, ProviderBegins
<1> HIDE DEF tok, f
<1>7. /\ y \in Request
      /\ y.pc = "key"
      /\ y.at = x.at /\ y.used = x.used /\ y.sent = x.sent /\ y.sends = x.sends
      /\ y.guards.capacity = x.guards.capacity
      /\ y.guards.provider = tok
      /\ y.guards.key = x.guards.key
      /\ y.guards.endpoint = x.guards.endpoint
  <2>1. "key" \in Labels
    BY DEF Labels, Reserving
  <2> DEFINE g == [x.guards EXCEPT !.provider = tok]
             w == Goto(x, "key")
  <2>4. x.guards \in [capacity: BOOLEAN, provider: P!Token, key: H!Token, endpoint: H!Token]
    BY <1>1 DEF Request
  <2>5. /\ g \in [capacity: BOOLEAN, provider: P!Token, key: H!Token, endpoint: H!Token]
        /\ g.provider = tok
        /\ g.capacity = x.guards.capacity
        /\ g.key = x.guards.key
        /\ g.endpoint = x.guards.endpoint
    BY <2>4, <1>6
  <2>6. w \in Request /\ w.guards = x.guards
    BY <1>1, <2>1, GotoFields DEF Same
  <2>7. y = Took(x, "key", g)
    <3> HIDE DEF w
    <3>1. y = [w EXCEPT !.guards.provider = tok]
      BY DEF w
    <3>2. y = [w EXCEPT !.guards = g]
      BY <2>6, <3>1
    <3> QED  BY <3>2 DEF Took, w
  <2> HIDE DEF y, g
  <2>8. /\ y \in Request
        /\ y.pc = "key"
        /\ y.at = x.at /\ y.used = x.used /\ y.sent = x.sent /\ y.sends = x.sends
        /\ y.guards = g
    BY <1>1, <2>1, <2>5, <2>7, TookFields
  <2> QED  BY <2>5, <2>8
<1> HIDE DEF y
<1>8. Guarded(y)
  BY <1>1, <1>2, <1>7, PlanLength DEF Guarded, Unheld, Aimless
<1>9. Budgeted(y)
  BY <1>0, <1>1, <1>7, ReserveBudget DEF Reserving
<1>10. f.in_flight = providers[q].in_flight + Permits(y) - Permits(x)
  <2>1. Permits(y) = 1 /\ Permits(x) = 1
    BY <1>2, <1>7 DEF Permits
  <2> QED  BY <1>1, <1>6, <2>1, BooksUntouched
<1>11. /\ providers' \in [Providers -> P!Entry]
       /\ providers'[q] = f
       /\ \A p \in Providers : p # q => providers'[p] = providers[p]
  BY <1>1, <1>3, <1>6, BooksUntouched
<1>12. BooksTouched(r, y)
  BY <1>1, <1>2, <1>3, <1>6, <1>7, <1>10, <1>11, BooksUntouched DEF BooksTouched
<1>13. Touch(r, y)
  BY <1>3, <1>7, <1>8, <1>9, <1>12 DEF Touch
<1> QED  BY <1>13 DEF Touched

LEMMA ReservesKey ==
  ASSUME Inv, NEW r \in Requests, ReserveKey(r)
  PROVE  Touched(r)
<1> DEFINE x == req[r]
           q == Target(r).key
           tok == H!begin_token(keys[q], now)
           f == H!after_begin(keys[q], now)
           y == [Goto(x, "endpoint") EXCEPT !.guards.key = tok]
<1>0. x.pc = "key"
  BY DEF ReserveKey, At
<1>1. /\ x \in Request
      /\ Budgeted(x) /\ Guarded(x)
      /\ quotas \in [Keys -> Q!Entry]
      /\ now \in Nat
      /\ x.at \in 1 .. Len(Plan)
  BY <1>0, Before DEF Aimless
<1>2. /\ x.guards.capacity /\ x.guards.key = NoToken /\ x.guards.endpoint = NoToken
      /\ q \in Keys
  BY <1>0, <1>1, PlanTargets DEF Guarded, Unheld, Aimless, Target
<1>3. /\ req' = [req EXCEPT ![r] = y]
      /\ keys' = [keys EXCEPT ![q] = f]
      /\ UNCHANGED <<now, endpoints, providers, quotas, resets>>
  BY DEF ReserveKey, Become
<1>4. H!available(keys[q], now)
  BY <1>0 DEF ReserveKey, Admits, At
<1>5. keys[q] \in H!Entry
  BY <1>2, BooksUntouched
<1>6. /\ f \in H!Entry
      /\ tok \in H!Token
      /\ Change(keys[q], NoToken, f, tok)
  BY <1>1, <1>4, <1>5, HealthBegins
<1> HIDE DEF tok, f
<1>7. /\ y \in Request
      /\ y.pc = "endpoint"
      /\ y.at = x.at /\ y.used = x.used /\ y.sent = x.sent /\ y.sends = x.sends
      /\ y.guards.key = tok
      /\ y.guards.capacity = x.guards.capacity
      /\ y.guards.provider = x.guards.provider
      /\ y.guards.endpoint = x.guards.endpoint
  <2>1. "endpoint" \in Labels
    BY DEF Labels, Reserving
  <2> DEFINE g == [x.guards EXCEPT !.key = tok]
             w == Goto(x, "endpoint")
  <2>4. x.guards \in [capacity: BOOLEAN, provider: P!Token, key: H!Token, endpoint: H!Token]
    BY <1>1 DEF Request
  <2>5. /\ g \in [capacity: BOOLEAN, provider: P!Token, key: H!Token, endpoint: H!Token]
        /\ g.key = tok
        /\ g.capacity = x.guards.capacity
        /\ g.provider = x.guards.provider
        /\ g.endpoint = x.guards.endpoint
    BY <2>4, <1>6
  <2>6. w \in Request /\ w.guards = x.guards
    BY <1>1, <2>1, GotoFields DEF Same
  <2>7. y = Took(x, "endpoint", g)
    <3> HIDE DEF w
    <3>1. y = [w EXCEPT !.guards.key = tok]
      BY DEF w
    <3>2. y = [w EXCEPT !.guards = g]
      BY <2>6, <3>1
    <3> QED  BY <3>2 DEF Took, w
  <2> HIDE DEF y, g
  <2>8. /\ y \in Request
        /\ y.pc = "endpoint"
        /\ y.at = x.at /\ y.used = x.used /\ y.sent = x.sent /\ y.sends = x.sends
        /\ y.guards = g
    BY <1>1, <2>1, <2>5, <2>7, TookFields
  <2> QED  BY <2>5, <2>8
<1> HIDE DEF y
<1>8. Guarded(y)
  BY <1>1, <1>2, <1>7, PlanLength DEF Guarded, Unheld, Aimless
<1>9. Budgeted(y)
  BY <1>0, <1>1, <1>7, ReserveBudget DEF Reserving
<1>10. \A p \in Providers :
         providers[p].in_flight = providers[p].in_flight + Permits(y) - Permits(x)
  <2>1. Permits(y) = 1 /\ Permits(x) = 1
    BY <1>2, <1>7 DEF Permits
  <2> QED  BY <2>1, BooksUntouched
<1>11. /\ keys' \in [Keys -> H!Entry]
       /\ keys'[q] = f
       /\ \A i \in Keys : i # q => keys'[i] = keys[i]
  BY <1>2, <1>3, <1>6, BooksUntouched
<1>12. BooksTouched(r, y)
  BY <1>1, <1>2, <1>3, <1>6, <1>7, <1>10, <1>11, BooksUntouched DEF BooksTouched
<1>13. Touch(r, y)
  BY <1>3, <1>7, <1>8, <1>9, <1>12 DEF Touch
<1> QED  BY <1>13 DEF Touched

LEMMA ReservesEndpoint ==
  ASSUME Inv, NEW r \in Requests, ReserveEndpoint(r)
  PROVE  Touched(r)
<1> DEFINE x == req[r]
           q == Target(r).endpoint
           tok == H!begin_token(endpoints[q], now)
           f == H!after_begin(endpoints[q], now)
           y == [Goto(x, "quota") EXCEPT !.guards.endpoint = tok]
<1>0. x.pc = "endpoint"
  BY DEF ReserveEndpoint, At
<1>1. /\ x \in Request
      /\ Budgeted(x) /\ Guarded(x)
      /\ quotas \in [Keys -> Q!Entry]
      /\ now \in Nat
      /\ x.at \in 1 .. Len(Plan)
  BY <1>0, Before DEF Aimless
<1>2. /\ x.guards.capacity /\ x.guards.endpoint = NoToken
      /\ q \in Endpoints
  BY <1>0, <1>1, PlanTargets DEF Guarded, Unheld, Aimless, Target
<1>3. /\ req' = [req EXCEPT ![r] = y]
      /\ endpoints' = [endpoints EXCEPT ![q] = f]
      /\ UNCHANGED <<now, keys, providers, quotas, resets>>
  BY DEF ReserveEndpoint, Become
<1>4. H!available(endpoints[q], now)
  BY <1>0 DEF ReserveEndpoint, Admits, At
<1>5. endpoints[q] \in H!Entry
  BY <1>2, BooksUntouched
<1>6. /\ f \in H!Entry
      /\ tok \in H!Token
      /\ Change(endpoints[q], NoToken, f, tok)
  BY <1>1, <1>4, <1>5, HealthBegins
<1> HIDE DEF tok, f
<1>7. /\ y \in Request
      /\ y.pc = "quota"
      /\ y.at = x.at /\ y.used = x.used /\ y.sent = x.sent /\ y.sends = x.sends
      /\ y.guards.endpoint = tok
      /\ y.guards.capacity = x.guards.capacity
      /\ y.guards.provider = x.guards.provider
      /\ y.guards.key = x.guards.key
  <2>1. "quota" \in Labels
    BY DEF Labels, Reserving
  <2> DEFINE g == [x.guards EXCEPT !.endpoint = tok]
             w == Goto(x, "quota")
  <2>4. x.guards \in [capacity: BOOLEAN, provider: P!Token, key: H!Token, endpoint: H!Token]
    BY <1>1 DEF Request
  <2>5. /\ g \in [capacity: BOOLEAN, provider: P!Token, key: H!Token, endpoint: H!Token]
        /\ g.endpoint = tok
        /\ g.capacity = x.guards.capacity
        /\ g.provider = x.guards.provider
        /\ g.key = x.guards.key
    BY <2>4, <1>6
  <2>6. w \in Request /\ w.guards = x.guards
    BY <1>1, <2>1, GotoFields DEF Same
  <2>7. y = Took(x, "quota", g)
    <3> HIDE DEF w
    <3>1. y = [w EXCEPT !.guards.endpoint = tok]
      BY DEF w
    <3>2. y = [w EXCEPT !.guards = g]
      BY <2>6, <3>1
    <3> QED  BY <3>2 DEF Took, w
  <2> HIDE DEF y, g
  <2>8. /\ y \in Request
        /\ y.pc = "quota"
        /\ y.at = x.at /\ y.used = x.used /\ y.sent = x.sent /\ y.sends = x.sends
        /\ y.guards = g
    BY <1>1, <2>1, <2>5, <2>7, TookFields
  <2> QED  BY <2>5, <2>8
<1> HIDE DEF y
<1>8. Guarded(y)
  BY <1>1, <1>2, <1>7, PlanLength DEF Guarded, Unheld, Aimless
<1>9. Budgeted(y)
  BY <1>0, <1>1, <1>7, ReserveBudget DEF Reserving
<1>10. \A p \in Providers :
         providers[p].in_flight = providers[p].in_flight + Permits(y) - Permits(x)
  <2>1. Permits(y) = 1 /\ Permits(x) = 1
    BY <1>2, <1>7 DEF Permits
  <2> QED  BY <2>1, BooksUntouched
<1>11. /\ endpoints' \in [Endpoints -> H!Entry]
       /\ endpoints'[q] = f
       /\ \A i \in Endpoints : i # q => endpoints'[i] = endpoints[i]
  BY <1>2, <1>3, <1>6, BooksUntouched
<1>12. BooksTouched(r, y)
  BY <1>1, <1>2, <1>3, <1>6, <1>7, <1>10, <1>11, BooksUntouched DEF BooksTouched
<1>13. Touch(r, y)
  BY <1>3, <1>7, <1>8, <1>9, <1>12 DEF Touch
<1> QED  BY <1>13 DEF Touched

\* The quota book comes last; a book that refuses ends the reservation.
LEMMA ReservesQuota ==
  ASSUME Inv, NEW r \in Requests, ReserveQuota(r)
  PROVE  Touched(r)
<1> DEFINE x == req[r]
           y == Goto(x, "prepare")
           k == Target(r).key
           q == Q!after_reserve(quotas[k], now)
<1>0. x.pc = "quota"
  BY DEF ReserveQuota, At
<1>1. /\ x \in Request
      /\ Budgeted(x) /\ Within(x)
      /\ quotas \in [Keys -> Q!Entry]
      /\ now \in Nat
      /\ k \in Keys
  BY <1>0, Before DEF Aimless
<1>2. /\ req' = [req EXCEPT ![r] = y]
      /\ quotas' = [quotas EXCEPT ![k] = q]
      /\ UNCHANGED <<now, endpoints, keys, providers, resets>>
  BY DEF ReserveQuota, Become
<1>3. q \in Q!Entry
  BY <1>1, QuotaReserves
<1> HIDE DEF q
<1>4. quotas' \in [Keys -> Q!Entry]
  BY <1>1, <1>2, <1>3
<1>5. y \in Request /\ y.pc = "prepare" /\ Same(y, x)
  <2>1. "prepare" \in Labels
    BY DEF Labels
  <2> QED  BY <1>1, <2>1, GotoFields
<1> HIDE DEF y
<1>6. y.sends < y.used /\ y.sent[Target(r).provider] < MaxOf(ProviderAttempts, 1) /\ Within(y)
  BY <1>0, <1>1, <1>5 DEF Budgeted, Reserving, Same, Within, Target
<1>7. Touch(r, y)
  BY <1>0, <1>2, <1>4, <1>5, <1>6, GoesOn DEF Same
<1> QED  BY <1>7 DEF Touched

\* A settled reservation and a request that has left its target, as above.
LEMMA LeavesTouched ==
  ASSUME Inv, NEW r \in Requests, req[r].pc \notin Aimless,
         NEW scope \in Scopes, finish(r, scope),
         \E y : req' = [req EXCEPT ![r] = y] /\ Over(y),
         UNCHANGED <<now, quotas, resets>>
  PROVE  Touched(r)
<1>1. PICK y : req' = [req EXCEPT ![r] = y] /\ Over(y)
  OBVIOUS
<1>2. quotas' \in [Keys -> Q!Entry]
  BY Before
<1>3. Touch(r, y)
  BY <1>1, <1>2, Leaves
<1> QED  BY <1>3 DEF Touched

LEMMA Refuses ==
  ASSUME Inv, NEW r \in Requests, ReservationRefused(r)
  PROVE  Touched(r)
<1>1. req[r].pc \notin Aimless
  BY DEF ReservationRefused, Reserving, Aimless
<1>2. finish(r, "neutral") /\ "neutral" \in Scopes
  BY DEF ReservationRefused, neutral, Scopes
<1>3. Over(Continue(Released(r)))
  BY <1>1, ReleasedFits, OverContinue
<1>4. req' = [req EXCEPT ![r] = Continue(Released(r))] /\ UNCHANGED <<now, quotas, resets>>
  BY DEF ReservationRefused, Become
<1> QED  BY <1>1, <1>2, <1>3, <1>4, LeavesTouched

LEMMA Reserves ==
  ASSUME Inv, NEW r \in Requests, Reserve(r)
  PROVE  Touched(r)
BY ReservesCapacity, ReservesProvider, ReservesKey, ReservesEndpoint, ReservesQuota, Refuses
   DEF Reserve

\* A send: the attempt was drawn from the budget, the reservation is current.
LEMMA Sends ==
  ASSUME Inv, NEW r \in Requests,
         req[r].pc \in {"prepare", "replay", "recover"}, is_current(r),
         NEW w \in Request, w.pc = "sent", w.at = req[r].at, w.guards = req[r].guards,
         w.sent = req[r].sent, w.sends = req[r].sends, w.used \in Nat, w.sends < w.used,
         NEW y \in Request, y.pc = "sent", Same(y, note_send(w)),
         req' = [req EXCEPT ![r] = y],
         UNCHANGED <<now, books, resets>>
  PROVE  Touched(r)
<1> DEFINE x == req[r]
           z == note_send(w)
           q == Plan[w.at].provider
<1>1. /\ x \in Request
      /\ Budgeted(x) /\ Within(x)
      /\ quotas \in [Keys -> Q!Entry]
      /\ x.at \in 1 .. Len(Plan)
      /\ Target(r).provider \in Providers
  BY Before DEF Aimless
<1>2. w.at =< Len(Plan) /\ q = Target(r).provider
  BY <1>1, PlanLength DEF Target
<1>3. /\ z.at = w.at
      /\ z.guards = w.guards
      /\ z.used = w.used
      /\ z.sends = w.sends + 1
      /\ z.sent = [w.sent EXCEPT ![q] = @ + 1]
  BY <1>2, SendFields, ZenonT(60)
<1> HIDE DEF z
<1>4. /\ y.at = x.at
      /\ y.guards = x.guards
      /\ y.used = w.used
      /\ y.sends = w.sends + 1
      /\ y.sent = [x.sent EXCEPT ![q] = @ + 1]
  BY <1>3 DEF Same, z
<1>5. x.sent[q] < MaxOf(ProviderAttempts, 1)
  BY <1>1, <1>2 DEF Budgeted, Reserving, Target
<1>6. y.sends =< y.used
  BY <1>4, <1>1 DEF Request
<1>7. \A p \in Providers : y.sent[p] =< MaxOf(ProviderAttempts, 1)
  <2>1. x.sent \in [Providers -> Nat] /\ q \in Providers
    BY <1>1, <1>2 DEF Request
  <2>2. ASSUME NEW p \in Providers PROVE y.sent[p] =< MaxOf(ProviderAttempts, 1)
    <3>1. CASE p = q
      <4>1. y.sent[p] = x.sent[q] + 1 /\ x.sent[q] \in Nat
        BY <1>4, <2>1, <3>1
      <4> QED  BY <1>5, <4>1, ProviderLimit
    <3>2. CASE p # q
      <4>1. y.sent[p] = x.sent[p]
        BY <1>4, <2>1, <3>2
      <4> QED  BY <1>1, <4>1 DEF Within
    <3> QED  BY <3>1, <3>2
  <2> QED  BY <2>2
<1>8. quotas' \in [Keys -> Q!Entry] /\ UNCHANGED <<now, endpoints, keys, providers, resets>>
  BY <1>1 DEF books
<1>9. Touch(r, y)
  BY <1>4, <1>6, <1>7, <1>8, GoesOn DEF Within
<1> QED  BY <1>9 DEF Touched

\* Preparing the upstream request and sending it.
LEMMA Prepares ==
  ASSUME Inv, NEW r \in Requests, Prepare(r)
  PROVE  Touched(r)
<1> DEFINE x == req[r]
<1>0. x \in Request /\ Budgeted(x) /\ Within(x)
  BY Before
<1>1. /\ "sent" \in Labels
      /\ "neutral" \in Scopes
      /\ "provider" \in Scopes
  BY DEF Labels, Scopes
<1>2. CASE RequestRejected(r)
  <2>1. x.pc \notin Aimless /\ finish(r, "neutral")
    BY <1>2 DEF RequestRejected, neutral, Aimless
  <2>2. req' = [req EXCEPT ![r] = Failed(x)] /\ UNCHANGED <<now, quotas, resets>>
    BY <1>2 DEF RequestRejected, Become
  <2> QED  BY <1>0, <1>1, <2>1, <2>2, OverFailed, LeavesTouched
<1>3. CASE InvalidUri(r)
  <2>1. x.pc \notin Aimless /\ finish(r, "provider") /\ UNCHANGED <<now, quotas, resets>>
    BY <1>3 DEF InvalidUri, At, Aimless
  <2>2. Failover(r, Released(r), avoid_endpoint(Target(r)))
    BY <1>3 DEF InvalidUri
  <2>3. \E y : req' = [req EXCEPT ![r] = y] /\ Over(y)
    BY <2>1, <2>2, ReleasedFits, ExcludedTargets, OverFailover
  <2> QED  BY <1>1, <2>1, <2>3, LeavesTouched
<1>4. ASSUME NEW scope \in Scopes, AuthUnavailable(r, scope) PROVE Touched(r)
  <2>1. x.pc \notin Aimless /\ finish(r, scope) /\ UNCHANGED <<now, quotas, resets>>
    BY <1>4 DEF AuthUnavailable, At, Aimless
  <2>2. Failover(r, Released(r), avoid_key(Target(r)))
    BY <1>4 DEF AuthUnavailable
  <2>3. \E y : req' = [req EXCEPT ![r] = y] /\ Over(y)
    BY <2>1, <2>2, ReleasedFits, ExcludedTargets, OverFailover
  <2> QED  BY <2>1, <2>3, LeavesTouched
<1>5. CASE Send(r)
  <2> DEFINE w == Goto(x, "sent")
             y == note_send(w)
  <2>1. x.pc = "prepare" /\ is_current(r)
    BY <1>5 DEF Send, At
  <2>2. req' = [req EXCEPT ![r] = y] /\ UNCHANGED <<now, books, resets>>
    BY <1>5 DEF Send, Become
  <2>3. w \in Request /\ w.pc = "sent" /\ Same(w, x)
    BY <1>0, <1>1, GotoFields
  <2> HIDE DEF w
  <2>4. w.used \in Nat /\ w.sends < w.used
    BY <1>0, <2>1, <2>3, ProxyAssumption DEF Budgeted, Same, Request
  <2>5. x.at \in 1 .. Len(Plan)
    BY <2>1, Before DEF Aimless
  <2>6. y \in Request /\ y.pc = "sent"
    <3>1. w.at =< Len(Plan)
      BY <2>3, <2>5, PlanLength DEF Same
    <3> QED  BY <2>3, <3>1, SendFields
  <2>7. Same(y, note_send(w))
    BY DEF Same
  <2> HIDE DEF y
  <2> QED  BY <2>1, <2>2, <2>3, <2>4, <2>6, <2>7, Sends DEF Same
<1>6. CASE SendCancelled(r)
  <2>1. x.pc \notin Aimless /\ finish(r, "neutral")
    BY <1>6 DEF SendCancelled, At, neutral, Aimless
  <2>2. req' = [req EXCEPT ![r] = Continue(Released(r))] /\ UNCHANGED <<now, quotas, resets>>
    BY <1>6 DEF SendCancelled, Become
  <2>3. Over(Continue(Released(r)))
    BY <2>1, ReleasedFits, OverContinue
  <2> QED  BY <1>1, <2>1, <2>2, <2>3, LeavesTouched
<1> QED  BY <1>2, <1>3, <1>4, <1>5, <1>6 DEF Prepare

\* A second send of the same attempt, after a 401 or a rejected body.
LEMMA Resends ==
  ASSUME Inv, NEW r \in Requests,
         \/ AuthRejected(r) \/ Replay(r) \/ ReplayCancelled(r) \/ ReplayOverrun(r)
         \/ ContentRejected(r) \/ Recover(r)
  PROVE  Touched(r)
<1> DEFINE x == req[r]
           again == Begun(Goto(x, "sent"))
<1>0. /\ x \in Request
      /\ Budgeted(x) /\ Within(x)
      /\ quotas \in [Keys -> Q!Entry]
      /\ x.used \in Nat /\ x.sends \in Nat
  BY Before, ProxyAssumption DEF Request
<1>1. /\ {"sent", "replay", "recover"} \subseteq Labels
      /\ "neutral" \in Scopes
  BY DEF Labels, Scopes
<1>2. CASE AuthRejected(r)
  <2> DEFINE w == Goto(x, "replay")
             y == [w EXCEPT !.last = "key"]
  <2>1. /\ x.pc = "sent"
        /\ x.sent[Target(r).provider] < MaxOf(ProviderAttempts, 1)
    BY <1>2 DEF AuthRejected, At, MayResend, provider_available
  <2>2. req' = [req EXCEPT ![r] = y] /\ UNCHANGED <<now, books, resets>>
    BY <1>2 DEF AuthRejected, Become
  <2>3. w \in Request /\ w.pc = "replay" /\ Same(w, x)
    BY <1>0, <1>1, GotoFields
  <2> HIDE DEF w
  <2>4. y \in Request /\ y.pc = "replay" /\ Same(y, w)
    BY <2>3 DEF Request, Same, Statuses, Retryable
  <2> HIDE DEF y
  <2>5. Same(y, x) /\ Within(y)
    BY <1>0, <2>3, <2>4 DEF Same, Within
  <2>6. quotas' \in [Keys -> Q!Entry] /\ UNCHANGED <<now, endpoints, keys, providers, resets>>
    BY <1>0, <2>2 DEF books
  <2>7. Touch(r, y)
    BY <2>1, <2>2, <2>4, <2>5, <2>6, GoesOn DEF Same
  <2> QED  BY <2>7 DEF Touched
<1>3. CASE ContentRejected(r)
  <2> DEFINE w == Goto(x, "recover")
             y == [w EXCEPT !.recovered = TRUE, !.replayed = TRUE, !.last = "client"]
  <2>1. /\ x.pc = "sent"
        /\ x.sent[Target(r).provider] < MaxOf(ProviderAttempts, 1)
    BY <1>3 DEF ContentRejected, At, MayResend, provider_available
  <2>2. req' = [req EXCEPT ![r] = y] /\ UNCHANGED <<now, books, resets>>
    BY <1>3 DEF ContentRejected, Become
  <2>3. w \in Request /\ w.pc = "recover" /\ Same(w, x)
    BY <1>0, <1>1, GotoFields
  <2> HIDE DEF w
  <2>4. y \in Request /\ y.pc = "recover" /\ Same(y, w)
    BY <2>3 DEF Request, Same, Statuses, Retryable
  <2> HIDE DEF y
  <2>5. Same(y, x) /\ Within(y)
    BY <1>0, <2>3, <2>4 DEF Same, Within
  <2>6. quotas' \in [Keys -> Q!Entry] /\ UNCHANGED <<now, endpoints, keys, providers, resets>>
    BY <1>0, <2>2 DEF books
  <2>7. Touch(r, y)
    BY <2>1, <2>2, <2>4, <2>5, <2>6, GoesOn DEF Same
  <2> QED  BY <2>7 DEF Touched
\* The budget is drawn once more before the request is sent again.
<1>4. ASSUME x.used < MAX_ATTEMPTS
      PROVE  /\ again \in Request
             /\ again.pc = "sent" /\ again.at = x.at /\ again.guards = x.guards
             /\ again.sent = x.sent /\ again.sends = x.sends
             /\ again.used \in Nat /\ again.sends < again.used
  <2> DEFINE w == Goto(x, "sent")
  <2>1. w \in Request /\ w.pc = "sent" /\ Same(w, x)
    BY <1>0, <1>1, GotoFields
  <2> HIDE DEF w
  <2>2. w.used < MAX_ATTEMPTS
    BY <1>4, <2>1 DEF Same
  <2>3. /\ Begun(w) \in Request
        /\ Begun(w).pc = w.pc
        /\ Begun(w).at = w.at
        /\ Begun(w).guards = w.guards
        /\ Begun(w).used = w.used + 1
        /\ Begun(w).sent = w.sent
        /\ Begun(w).sends = w.sends
    BY <2>1, <2>2, BegunFields
  <2>4. again = Begun(w)
    BY DEF w
  <2> HIDE DEF again
  <2>5. x.sends =< x.used
    BY <1>0 DEF Within
  <2> QED  BY <1>0, <2>1, <2>3, <2>4, <2>5 DEF Same
<1>5. CASE Replay(r)
  <2> DEFINE z == note_send(again)
             y == [z EXCEPT !.replayed = TRUE]
  <2>1. x.pc = "replay" /\ is_current(r) /\ x.used < MAX_ATTEMPTS
    BY <1>5 DEF Replay, At, begin, available
  <2>2. req' = [req EXCEPT ![r] = y] /\ UNCHANGED <<now, books, resets>>
    BY <1>5 DEF Replay, Become
  <2>3. x.at \in 1 .. Len(Plan)
    BY <2>1, Before DEF Aimless
  <2> HIDE DEF again
  <2>4. again.at =< Len(Plan)
    BY <1>4, <2>1, <2>3, PlanLength
  <2>5. z \in Request /\ z.pc = "sent"
    BY <1>4, <2>1, <2>4, SendFields
  <2> HIDE DEF z
  <2>6. y \in Request /\ y.pc = "sent" /\ Same(y, z)
    BY <2>5 DEF Request, Same
  <2> HIDE DEF y
  <2>7. Same(y, note_send(again))
    BY <2>6 DEF z
  <2> QED  BY <1>4, <2>1, <2>2, <2>6, <2>7, Sends
<1>6. CASE Recover(r)
  <2> DEFINE y == note_send(again)
  <2>1. x.pc = "recover" /\ is_current(r) /\ x.used < MAX_ATTEMPTS
    BY <1>6 DEF Recover, At, begin, available
  <2>2. req' = [req EXCEPT ![r] = y] /\ UNCHANGED <<now, books, resets>>
    BY <1>6 DEF Recover, Become
  <2>3. x.at \in 1 .. Len(Plan)
    BY <2>1, Before DEF Aimless
  <2> HIDE DEF again
  <2>4. again.at =< Len(Plan)
    BY <1>4, <2>1, <2>3, PlanLength
  <2>5. y \in Request /\ y.pc = "sent"
    BY <1>4, <2>1, <2>4, SendFields
  <2>6. Same(y, note_send(again))
    BY DEF Same
  <2> HIDE DEF y
  <2> QED  BY <1>4, <2>1, <2>2, <2>5, <2>6, Sends
<1>7. CASE ReplayCancelled(r)
  <2> DEFINE w == Released(r)
             z == Begun(w)
  <2>1. x.pc \notin Aimless /\ finish(r, "neutral") /\ x.used < MAX_ATTEMPTS
    BY <1>7 DEF ReplayCancelled, At, neutral, Aimless, begin, available
  <2>2. req' = [req EXCEPT ![r] = Continue(z)] /\ UNCHANGED <<now, quotas, resets>>
    BY <1>7 DEF ReplayCancelled, Become
  <2>3. w \in Request /\ w.at =< Len(Plan) /\ w.guards = NoGuards /\ Within(w)
    BY <2>1, ReleasedFits
  <2>4. w.used = x.used /\ w.sends = x.sends
    BY <1>0, ReleasedFields
  <2> HIDE DEF w
  <2>5. /\ z \in Request
        /\ z.at = w.at
        /\ z.guards = w.guards
        /\ z.used = w.used + 1
        /\ z.sent = w.sent
        /\ z.sends = w.sends
    BY <2>1, <2>3, <2>4, BegunFields
  <2> HIDE DEF z
  <2>6. z.sends =< z.used
    BY <1>0, <2>3, <2>4, <2>5 DEF Within
  <2>7. Within(z)
    BY <2>3, <2>5, <2>6 DEF Within
  <2>8. Over(Continue(z))
    BY <2>3, <2>5, <2>7, OverContinue
  <2> QED  BY <1>1, <2>1, <2>2, <2>8, LeavesTouched
<1>8. CASE ReplayOverrun(r)
  <2>1. x.pc \notin Aimless /\ finish(r, "neutral")
    BY <1>8 DEF ReplayOverrun, At, neutral, Aimless
  <2>2. req' = [req EXCEPT ![r] = Failed(x)] /\ UNCHANGED <<now, quotas, resets>>
    BY <1>8 DEF ReplayOverrun, Become
  <2> QED  BY <1>0, <1>1, <2>1, <2>2, OverFailed, LeavesTouched
<1> QED  BY <1>2, <1>3, <1>5, <1>6, <1>7, <1>8

\* What an answer tells the quota book keeps its type.
LEMMA Observes ==
  ASSUME NEW k \in Keys, NEW status, NEW h \in RateHeaders, now \in Nat,
         quotas \in [Keys -> Q!Entry], observe_response(k, status, h)
  PROVE  quotas' \in [Keys -> Q!Entry]
<1> DEFINE o == CASE status = "ok"    -> "ok"
                  [] status = "quota" -> "limited"
                  [] OTHER            -> "other"
           q == Q!after_observe(quotas[k], o, h, now)
<1>1. h \in Q!Headers
  BY ProxyAssumption
<1>2. quotas' = [quotas EXCEPT ![k] = q]
  BY DEF observe_response
<1> HIDE DEF o
<1>3. q \in Q!Entry
  BY <1>1, QuotaObserves
<1> HIDE DEF q
<1> QED  BY <1>2, <1>3

LEMMA HeadArrives ==
  ASSUME Inv, NEW r \in Requests, NEW status \in Statuses, NEW h \in RateHeaders,
         Answered(r, status, h)
  PROVE  Touched(r)
<1> DEFINE x == req[r]
           l == IF status = "quota" THEN "defer" ELSE "judge"
           w == Goto(x, l)
           y == [w EXCEPT !.last = status]
<1>1. x.pc = "sent" /\ observe_response(Target(r).key, status, h)
  BY DEF Answered, At
<1>2. /\ x \in Request
      /\ Within(x)
      /\ now \in Nat
      /\ quotas \in [Keys -> Q!Entry]
      /\ Target(r).key \in Keys
  BY <1>1, Before DEF Aimless
<1>3. /\ req' = [req EXCEPT ![r] = y]
      /\ UNCHANGED <<now, endpoints, keys, providers, resets>>
  BY DEF Answered, Become
<1>4. l \in Labels /\ l \in {"defer", "judge"}
  BY DEF Labels
<1> HIDE DEF l
<1>5. w \in Request /\ w.pc = l /\ Same(w, x)
  BY <1>2, <1>4, GotoFields
<1> HIDE DEF w
<1>6. y \in Request /\ y.pc = w.pc /\ Same(y, w)
  BY <1>5 DEF Request, Same
<1> HIDE DEF y
<1>7. Same(y, x) /\ Within(y) /\ y.pc \in {"defer", "judge"}
  BY <1>2, <1>4, <1>5, <1>6 DEF Same, Within
<1>8. quotas' \in [Keys -> Q!Entry]
  BY <1>1, <1>2, Observes
<1>9. Touch(r, y)
  BY <1>1, <1>3, <1>6, <1>7, <1>8, GoesOn DEF Same
<1> QED  BY <1>9 DEF Touched

LEMMA GivesUpRecovery ==
  ASSUME Inv, NEW r \in Requests, NEW h \in RateHeaders, RecoverCancelled(r, h)
  PROVE  Touched(r)
<1> DEFINE x == req[r]
           w == Goto(x, "judge")
<1>1. x.pc = "recover" /\ observe_response(Target(r).key, "client", h)
  BY DEF RecoverCancelled, At
<1>2. /\ x \in Request
      /\ Within(x)
      /\ x.used \in Nat /\ x.sends \in Nat
      /\ now \in Nat
      /\ quotas \in [Keys -> Q!Entry]
      /\ Target(r).key \in Keys
  <2>1. x \in Request
    BY Before
  <2>2. x.used \in Nat /\ x.sends \in Nat
    BY <2>1, ProxyAssumption DEF Request
  <2> QED  BY <1>1, <2>2, Before DEF Aimless
<1>3. "judge" \in Labels
  BY DEF Labels
<1>4. w \in Request /\ w.pc = "judge" /\ Same(w, x)
  BY <1>2, <1>3, GotoFields
<1>5. quotas' \in [Keys -> Q!Entry]
  BY <1>1, <1>2, Observes
<1>6. UNCHANGED <<now, endpoints, keys, providers, resets>>
  BY DEF RecoverCancelled
<1>7. CASE req' = [req EXCEPT ![r] = w]
  <2> HIDE DEF w
  <2>1. Within(w)
    BY <1>2, <1>4 DEF Same, Within
  <2>2. Touch(r, w)
    BY <1>1, <1>4, <1>5, <1>6, <1>7, <2>1, GoesOn DEF Same
  <2> QED  BY <2>2 DEF Touched
<1>8. CASE x.used < MAX_ATTEMPTS /\ req' = [req EXCEPT ![r] = Begun(w)]
  <2> DEFINE y == Begun(w)
  <2> HIDE DEF w
  <2>1. w.used < MAX_ATTEMPTS
    BY <1>4, <1>8 DEF Same
  <2>2. /\ y \in Request
        /\ y.pc = w.pc
        /\ y.at = w.at
        /\ y.guards = w.guards
        /\ y.used = w.used + 1
        /\ y.sent = w.sent
        /\ y.sends = w.sends
    BY <1>4, <2>1, BegunFields
  <2> HIDE DEF y
  <2>3. y.sends =< y.used
    BY <1>2, <1>4, <2>2 DEF Same, Within
  <2>4. Within(y)
    BY <1>2, <1>4, <2>2, <2>3 DEF Same, Within
  <2>5. req' = [req EXCEPT ![r] = y]
    BY <1>8 DEF y
  <2>6. Touch(r, y)
    BY <1>1, <1>4, <1>5, <1>6, <2>2, <2>4, <2>5, GoesOn DEF Same
  <2> QED  BY <2>6 DEF Touched
<1>9. \/ req' = [req EXCEPT ![r] = w]
      \/ x.used < MAX_ATTEMPTS /\ req' = [req EXCEPT ![r] = Begun(w)]
  BY DEF RecoverCancelled, begin, available, Become
<1> QED  BY <1>7, <1>8, <1>9

LEMMA Defers ==
  ASSUME Inv, NEW r \in Requests, DeferKey(r)
  PROVE  Touched(r)
<1> DEFINE x == req[r]
           y == Goto(x, "judge")
           k == Target(r).key
           q == Q!expire_quota_state(quotas[k], now)
           f == IF q.cooldown_until = -1 THEN keys[k] ELSE H!after_defer(keys[k], q.cooldown_until)
<1>1. x.pc = "defer"
  BY DEF DeferKey, At
<1>2. /\ x \in Request
      /\ Guarded(x) /\ Within(x)
      /\ now \in Nat
      /\ quotas \in [Keys -> Q!Entry]
      /\ k \in Keys
  BY <1>1, Before DEF Aimless
<1>3. /\ req' = [req EXCEPT ![r] = y]
      /\ quotas' = [quotas EXCEPT ![k] = q]
      /\ keys' = IF q.cooldown_until = -1 THEN keys ELSE [keys EXCEPT ![k] = f]
      /\ UNCHANGED <<now, endpoints, providers, resets>>
  BY DEF DeferKey, Become, Q!NoTime
<1>4. q \in Q!Entry /\ keys[k] \in H!Entry
  BY <1>2, QuotaExpires, BooksUntouched
<1> HIDE DEF q
<1>5. f \in H!Entry /\ Change(keys[k], x.guards.key, f, x.guards.key)
  <2>1. CASE q.cooldown_until = -1
    BY <1>2, <1>4, <2>1, BooksUntouched
  <2>2. CASE q.cooldown_until # -1
    <3>1. q.cooldown_until \in Int
      BY <1>4 DEF Q!Entry
    <3>2. f \in H!Entry /\ f.generation = keys[k].generation + 1 /\ f.probe_owner = 0
      BY <1>4, <2>2, <3>1, HealthDefers
    <3>3. f.generation > keys[k].generation
      BY <1>4, <3>2 DEF H!Entry
    <3> HIDE DEF f
    <3> QED  BY <3>2, <3>3, Advanced
  <2> QED  BY <2>1, <2>2
<1>6. /\ keys' \in [Keys -> H!Entry]
      /\ keys'[k] = f
      /\ \A i \in Keys : i # k => keys'[i] = keys[i]
  <2>1. keys \in [Keys -> H!Entry]
    BY BooksUntouched
  <2>2. q.cooldown_until = -1 => f = keys[k]
    OBVIOUS
  <2> HIDE DEF f
  <2> QED  BY <1>2, <1>3, <1>5, <2>1, <2>2
<1> HIDE DEF f
<1>7. quotas' \in [Keys -> Q!Entry]
  BY <1>2, <1>3, <1>4
<1>8. y \in Request /\ y.pc = "judge" /\ Same(y, x)
  <2>1. "judge" \in Labels
    BY DEF Labels
  <2> QED  BY <1>2, <2>1, GotoFields
<1> HIDE DEF y
<1>9. Guarded(y)
  BY <1>1, <1>2, <1>8 DEF Guarded, Same, Unheld, Aimless
<1>10. Budgeted(y)
  BY <1>2, <1>8 DEF Budgeted, Same, Within, Reserving
<1>11. \A p \in Providers :
         providers[p].in_flight = providers[p].in_flight + Permits(y) - Permits(x)
  <2>1. Permits(y) = Permits(x) /\ Permits(x) \in Nat
    BY <1>8 DEF Permits, Same
  <2> QED  BY <2>1, BooksUntouched
<1>12. BooksTouched(r, y)
  BY <1>2, <1>3, <1>5, <1>6, <1>7, <1>8, <1>11, BooksUntouched DEF BooksTouched, Same
<1>13. Touch(r, y)
  BY <1>3, <1>8, <1>9, <1>10, <1>12 DEF Touch, Same
<1> QED  BY <1>13 DEF Touched

\* What becomes of an answer, and of a connection that fails or is dropped.
LEMMA Fails ==
  ASSUME Inv, NEW r \in Requests,
         DispatchFailed(r) \/ AnswerUnusable(r) \/ StreamExpected(r) \/ Disconnect(r)
  PROVE  Touched(r)
<1> DEFINE x == req[r]
<1>0. x \in Request
  BY Before
<1>1. "neutral" \in Scopes /\ "provider" \in Scopes
  BY DEF Scopes
<1>2. CASE DispatchFailed(r)
  <2> DEFINE w == Released(r)
             z == [w EXCEPT !.last = "error"]
  <2>1. x.pc \notin Aimless /\ finish(r, "provider") /\ UNCHANGED <<now, quotas, resets>>
    BY <1>2 DEF DispatchFailed, At, Aimless
  <2>2. Failover(r, z, avoid_endpoint(Target(r)))
    BY <1>2 DEF DispatchFailed
  <2>3. w \in Request /\ w.at =< Len(Plan) /\ w.guards = NoGuards /\ Within(w)
    BY <2>1, ReleasedFits
  <2> HIDE DEF w
  <2>4. z \in Request /\ Same(z, w)
    BY <2>3 DEF Request, Same
  <2> HIDE DEF z
  <2>5. z.at =< Len(Plan) /\ z.guards = NoGuards /\ Within(z)
    BY <2>3, <2>4 DEF Same, Within
  <2>6. \E y : req' = [req EXCEPT ![r] = y] /\ Over(y)
    BY <2>2, <2>4, <2>5, ExcludedTargets, OverFailover
  <2> QED  BY <1>1, <2>1, <2>6, LeavesTouched
<1>3. CASE AnswerUnusable(r)
  <2>1. x.pc \notin Aimless /\ finish(r, "provider") /\ UNCHANGED <<now, quotas, resets>>
    BY <1>3 DEF AnswerUnusable, At, Aimless
  <2>2. Failover(r, Released(r), avoid_endpoint(Target(r)))
    BY <1>3 DEF AnswerUnusable
  <2>3. \E y : req' = [req EXCEPT ![r] = y] /\ Over(y)
    BY <2>1, <2>2, ReleasedFits, ExcludedTargets, OverFailover
  <2> QED  BY <1>1, <2>1, <2>3, LeavesTouched
<1>4. CASE StreamExpected(r)
  <2>1. x.pc \notin Aimless /\ finish(r, "provider")
    BY <1>4 DEF StreamExpected, At, Aimless
  <2>2. req' = [req EXCEPT ![r] = Failed(x)] /\ UNCHANGED <<now, quotas, resets>>
    BY <1>4 DEF StreamExpected, Become
  <2> QED  BY <1>0, <1>1, <2>1, <2>2, OverFailed, LeavesTouched
<1>5. CASE Disconnect(r)
  <2>1. x.pc \notin Aimless /\ finish(r, "neutral")
    BY <1>5 DEF Disconnect, neutral, Aimless
  <2>2. req' = [req EXCEPT ![r] = Ended] /\ UNCHANGED <<now, quotas, resets>>
    BY <1>5 DEF Disconnect, Become
  <2> QED  BY <1>1, <2>1, <2>2, OverEnded, LeavesTouched
<1> QED  BY <1>2, <1>3, <1>4, <1>5

\* The reader takes the guards over, or what is left of them.
LEMMA StreamFits ==
  ASSUME NEW x \in Request, x.at =< Len(Plan), x.guards.capacity
  PROVE  Budgeted(Streaming(x)) /\ Guarded(Streaming(x))
<1> DEFINE y == Streaming(x)
<1>1. /\ y.pc = "stream"
      /\ y.at = x.at
      /\ y.guards = x.guards
      /\ y.used = 0
      /\ y.sends = 0
      /\ \A p \in Providers : y.sent[p] = 0
  BY StreamingFields
<1> HIDE DEF y
<1>2. Guarded(y)
  BY <1>1 DEF Guarded, Unheld, Aimless
<1>3. Budgeted(y)
  BY <1>1, ProviderLimit DEF Budgeted, Reserving
<1> QED  BY <1>2, <1>3 DEF y

LEMMA PassesOn ==
  ASSUME Inv, NEW r \in Requests, PassOn(r)
  PROVE  Touched(r)
<1> DEFINE x == req[r]
           y == Streaming(x)
<1>1. x.pc = "judge"
  BY DEF PassOn, At
<1>2. /\ x \in Request
      /\ Guarded(x)
      /\ quotas \in [Keys -> Q!Entry]
      /\ x.at \in 1 .. Len(Plan)
  BY <1>1, Before DEF Aimless
<1>3. x.guards.capacity
  BY <1>1, <1>2 DEF Guarded, Unheld, Aimless
<1>4. req' = [req EXCEPT ![r] = y] /\ UNCHANGED <<now, books, resets>>
  BY DEF PassOn, Become
<1>5. y \in Request /\ y.pc = "stream" /\ y.at = x.at /\ y.guards = x.guards
  BY <1>2, StreamingFields
<1>6. Budgeted(y) /\ Guarded(y)
  BY <1>2, <1>3, StreamFits, PlanLength
<1>7. quotas' \in [Keys -> Q!Entry] /\ UNCHANGED <<now, endpoints, keys, providers, resets>>
  BY <1>2, <1>4 DEF books
<1> HIDE DEF y
<1>8. Touch(r, y)
  BY <1>4, <1>5, <1>6, <1>7, Keeps
<1> QED  BY <1>8 DEF Touched

LEMMA Ends ==
  ASSUME Inv, NEW r \in Requests, NEW scope \in Scopes, NEW hint \in Hints,
         finalize_tap(r, scope, hint)
  PROVE  Touched(r)
<1>1. req[r].pc \notin Aimless /\ finish(r, scope) /\ UNCHANGED <<now, resets>>
  BY DEF finalize_tap, At, Aimless
<1>2. req' = [req EXCEPT ![r] = Ended]
  BY DEF finalize_tap, Become
<1>3. quotas' \in [Keys -> Q!Entry]
  <2> DEFINE k == Target(r).key
             q == Q!after_cooldown(quotas[k], hint, now)
  <2>1. quotas \in [Keys -> Q!Entry] /\ now \in Nat /\ k \in Keys
    BY <1>1, Before
  <2>2. hint \in Nat
    BY ProxyAssumption
  <2>3. q \in Q!Entry
    BY <2>1, <2>2, QuotaCools
  <2>4. quotas' = quotas \/ quotas' = [quotas EXCEPT ![k] = q]
    BY DEF finalize_tap
  <2> HIDE DEF q
  <2> QED  BY <2>1, <2>3, <2>4
<1>4. Touch(r, Ended)
  BY <1>1, <1>2, <1>3, OverEnded, Leaves
<1> QED  BY <1>4 DEF Touched

LEMMA Retries ==
  ASSUME Inv, NEW r \in Requests, NEW scope \in Retryable, NEW retry_after \in RetryAfters,
         RetryStatus(r, scope, retry_after)
  PROVE  Touched(r)
<1> DEFINE o == req[r]
           w == Released(r)
           s == w.skip \cup Excluded(Target(r), scope)
           x == [w EXCEPT !.skip = s]
           again == available(r) /\ \E z \in Later(r) \ x.skip : provider_available(r, z.provider)
           hold == IF scope = "provider" /\ retry_after # -1 THEN now + retry_after ELSE -1
           kept == [x EXCEPT !.guards.capacity = o.guards.capacity]
           y == IF again THEN Continue(x) ELSE Streaming(kept)
<1>1. /\ o.pc = "judge"
      /\ finish_with_scope(r, scope, ~again, hold)
      /\ req' = [req EXCEPT ![r] = y]
      /\ UNCHANGED <<now, quotas, resets>>
  BY DEF RetryStatus, At, Become, H!NoTime
<1>2. /\ o \in Request
      /\ Guarded(o)
      /\ now \in Nat
      /\ quotas \in [Keys -> Q!Entry]
      /\ o.at \in 1 .. Len(Plan)
  BY <1>1, Before DEF Aimless
<1>3. o.guards.capacity
  BY <1>1, <1>2 DEF Guarded, Unheld, Aimless
<1>4. hold \in Int
  <2>1. retry_after \in Nat \cup {-1}
    BY ProxyAssumption DEF Q!NoTime
  <2> QED  BY <1>2, <2>1
<1>5. /\ w \in Request
      /\ w.at = o.at /\ w.guards = NoGuards
      /\ w.used = o.used /\ w.sent = o.sent /\ w.sends = o.sends
  BY <1>2, ReleasedFields
<1>6. w.at =< Len(Plan) /\ Within(w)
  BY <1>1, ReleasedFits DEF Aimless
<1>7. s \in SUBSET Targets
  <2>1. w.skip \in SUBSET Targets
    BY <1>5 DEF Request
  <2>2. Excluded(Target(r), scope) \in SUBSET Targets
    BY ExcludedTargets DEF Excluded, Retryable
  <2> QED  BY <2>1, <2>2
<1>8. scope \in Scopes
  BY DEF Scopes, Retryable
<1> HIDE DEF w, s
<1>9. x \in Request /\ Same(x, w)
  BY <1>5, <1>7 DEF Request, Same
<1> HIDE DEF x, hold
<1>10. x.at = o.at /\ x.at =< Len(Plan) /\ x.guards = NoGuards /\ Within(x)
  BY <1>5, <1>6, <1>9 DEF Same, Within
<1>11. CASE again
  <2>1. Over(y)
    BY <1>9, <1>10, <1>11, OverContinue
  <2>2. finish_with_scope(r, scope, FALSE, hold)
    BY <1>1, <1>11
  <2> HIDE DEF y, again
  <2>3. /\ y \in Request /\ Budgeted(y) /\ Guarded(y)
        /\ y.guards = NoGuards
        /\ y.pc # "sent"
    BY <2>1, OverFits DEF Over, Aimless
  <2>4. /\ y.guards.provider = NoToken
        /\ y.guards.key = NoToken
        /\ y.guards.endpoint = NoToken
        /\ y.guards.capacity = FALSE
    BY <2>3, NoGuardsFields
  <2>5. FALSE \in BOOLEAN /\ quotas' \in [Keys -> Q!Entry]
    BY <1>1, <1>2
  <2>6. Touch(r, y)
    BY <1>1, <1>2, <1>4, <1>8, <2>2, <2>3, <2>4, <2>5, Finishes
  <2> QED  BY <2>6 DEF Touched
<1>12. CASE ~again
  <2> DEFINE g == [NoGuards EXCEPT !.capacity = TRUE]
  <2>0. o.guards.capacity = TRUE
    BY <1>2, <1>3, GuardNumbers
  <2>1. kept = [x EXCEPT !.guards = g]
    BY <2>0, <1>9, <1>10
  <2>2. /\ g \in [capacity: BOOLEAN, provider: P!Token, key: H!Token, endpoint: H!Token]
        /\ g.capacity = TRUE
        /\ g.provider = NoToken
        /\ g.key = NoToken
        /\ g.endpoint = NoToken
    BY DEF NoGuards, NoToken, P!Token, H!Token
  <2>3. y = Streaming(kept)
    BY <1>12
  <2>4. finish_with_scope(r, scope, TRUE, hold)
    BY <1>1, <1>12
  <2> HIDE DEF g, y, again, kept
  <2>5. kept \in Request /\ kept.at = x.at /\ kept.guards = g
    BY <1>9, <2>1, <2>2 DEF Request
  <2>6. y \in Request /\ y.pc = "stream" /\ y.at = o.at /\ y.guards = g
    BY <1>10, <2>3, <2>5, StreamingFields
  <2>7. Budgeted(y) /\ Guarded(y)
    BY <1>10, <2>2, <2>3, <2>5, StreamFits
  <2>8. TRUE \in BOOLEAN /\ quotas' \in [Keys -> Q!Entry]
    BY <1>1, <1>2
  <2>9. /\ y.guards.provider = NoToken
        /\ y.guards.key = NoToken
        /\ y.guards.endpoint = NoToken
        /\ y.guards.capacity = TRUE
    BY <2>2, <2>6
  <2>10. Touch(r, y)
    BY <1>1, <1>2, <1>3, <1>4, <1>8, <2>4, <2>6, <2>7, <2>8, <2>9, Finishes
  <2> QED  BY <2>10 DEF Touched
<1> QED  BY <1>11, <1>12

LEMMA Steps ==
  ASSUME Inv, NEW r \in Requests, Step(r) \/ Disconnect(r)
  PROVE  Touched(r)
<1>1. ASSUME Resend(r) PROVE Touched(r)
  BY <1>1, Resends, GivesUpRecovery DEF Resend
<1>2. ASSUME Judge(r) PROVE Touched(r)
  BY <1>2, PassesOn, Retries, Fails DEF Judge
<1> QED  BY <1>1, <1>2, Walks, Reserves, Prepares, Fails, HeadArrives, Defers, Ends DEF Step

-----------------------------------------------------------------------------
(* Steps that no request takes.                                            *)

\* Timely at a moment t.
TimelyAt(e, tok, t) ==
  /\ tok.generation =< e.generation
  /\ tok.generation = e.generation => e.open_until =< t

\* Time passes, and entries may start a new generation; the requests stay.
Surroundings ==
  /\ req' = req
  /\ now' \in Nat /\ now' >= now
  /\ resets' \in Nat
  /\ quotas' \in [Keys -> Q!Entry]
  /\ providers' \in [Providers -> P!Entry]
  /\ keys' \in [Keys -> H!Entry]
  /\ endpoints' \in [Endpoints -> H!Entry]
  /\ \A p \in Providers : /\ providers'[p].in_flight = providers[p].in_flight
                          /\ providers'[p] = providers[p] \/ Renewed(providers[p], providers'[p])
  /\ \A k \in Keys : keys'[k] = keys[k] \/ Renewed(keys[k], keys'[k])
  /\ \A e \in Endpoints : endpoints'[e] = endpoints[e] \/ Renewed(endpoints[e], endpoints'[e])

LEMMA SurroundingsKeep ==
  ASSUME Inv, Surroundings
  PROVE  Inv'
<1> USE DEF Surroundings
<1>0. /\ TypeOK /\ BudgetInv /\ GuardInv /\ CoolInv /\ NothingLeaked
      /\ now \in Nat
      /\ req \in [Requests -> Request]
  BY DEF Inv, TypeOK
<1>1. TypeOK'
  BY <1>0 DEF TypeOK
<1>2. BudgetInv' /\ GuardInv'
  BY <1>0 DEF BudgetInv, GuardInv, Budgeted, Guarded
<1>3. ASSUME NEW e, NEW f, NEW tok, tok.generation \in Nat,
             e.generation \in Nat, f.generation \in Nat, e.open_until \in Int,
             f = e \/ Renewed(e, f), Timely(e, tok)
      PROVE  TimelyAt(f, tok, now')
  BY <1>0, <1>3 DEF Timely, TimelyAt, Renewed
<1>4. /\ \A p \in Providers : providers'[p].generation \in Nat /\ providers'[p].generation > 0
      /\ \A k \in Keys : keys'[k].generation \in Nat /\ keys'[k].generation > 0
      /\ \A e \in Endpoints : endpoints'[e].generation \in Nat /\ endpoints'[e].generation > 0
  <2>1. /\ \A p \in Providers : providers'[p].generation \in Nat
        /\ \A k \in Keys : keys'[k].generation \in Nat
        /\ \A e \in Endpoints : endpoints'[e].generation \in Nat
    BY DEF P!Entry, H!Entry
  <2>2. /\ \A p \in Providers : providers[p].generation \in Nat /\ providers[p].generation > 0
        /\ \A k \in Keys : keys[k].generation \in Nat /\ keys[k].generation > 0
        /\ \A e \in Endpoints : endpoints[e].generation \in Nat /\ endpoints[e].generation > 0
    BY <1>0, EntryNumbers DEF CoolInv
  <2> QED  BY <2>1, <2>2 DEF Renewed
<1>5. CoolInv'
  <2>1. ASSUME NEW s \in Requests, req'[s].guards.capacity
        PROVE  /\ TimelyAt(providers'[Plan[req'[s].at].provider], req'[s].guards.provider, now')
               /\ TimelyAt(keys'[Plan[req'[s].at].key], req'[s].guards.key, now')
               /\ TimelyAt(endpoints'[Plan[req'[s].at].endpoint], req'[s].guards.endpoint, now')
    <3> DEFINE p == Target(s).provider
               k == Target(s).key
               e == Target(s).endpoint
    <3>1. /\ p \in Providers /\ k \in Keys /\ e \in Endpoints
          /\ Timely(providers[p], req[s].guards.provider)
          /\ Timely(keys[k], req[s].guards.key)
          /\ Timely(endpoints[e], req[s].guards.endpoint)
      BY <2>1, Holding
    <3>2. /\ req[s].guards.provider.generation \in Nat
          /\ req[s].guards.key.generation \in Nat
          /\ req[s].guards.endpoint.generation \in Nat
      BY <1>0, GuardNumbers
    <3>3. /\ providers[p].generation \in Nat /\ providers[p].open_until \in Int
          /\ keys[k].generation \in Nat /\ keys[k].open_until \in Int
          /\ endpoints[e].generation \in Nat /\ endpoints[e].open_until \in Int
      BY <1>0, <3>1, EntryNumbers
    <3>4. /\ Plan[req'[s].at].provider = p
          /\ Plan[req'[s].at].key = k
          /\ Plan[req'[s].at].endpoint = e
      BY DEF Target
    <3> HIDE DEF p, k, e
    <3>5. TimelyAt(providers'[p], req[s].guards.provider, now')
      BY <1>3, <1>4, <3>1, <3>2, <3>3
    <3>6. TimelyAt(keys'[k], req[s].guards.key, now')
      BY <1>3, <1>4, <3>1, <3>2, <3>3
    <3>7. TimelyAt(endpoints'[e], req[s].guards.endpoint, now')
      BY <1>3, <1>4, <3>1, <3>2, <3>3
    <3> QED  BY <3>4, <3>5, <3>6, <3>7
  <2> QED  BY <1>4, <2>1 DEF CoolInv, Target, Timely, TimelyAt
<1>6. NothingLeaked'
  <2>1. \A p \in Providers : PermitHolders(p)' = PermitHolders(p)
    BY DEF PermitHolders, Target
  <2>2. \A p \in Providers : providers'[p].in_flight = Cardinality(PermitHolders(p)')
    BY <1>0, <2>1 DEF NothingLeaked
  <2>3. ASSUME NEW p \in Providers, providers'[p].probe_owner # 0
        PROVE  \E s \in Requests : /\ req'[s].guards.provider = ProbeOf(providers'[p])
                                   /\ Plan[req'[s].at].provider = p
    <3>1. providers'[p] = providers[p]
      BY <2>3 DEF Renewed
    <3> QED  BY <1>0, <2>3, <3>1 DEF NothingLeaked, Target
  <2>4. ASSUME NEW k \in Keys, keys'[k].probe_owner # 0
        PROVE  \E s \in Requests : /\ req'[s].guards.key = ProbeOf(keys'[k])
                                   /\ Plan[req'[s].at].key = k
    <3>1. keys'[k] = keys[k]
      BY <2>4 DEF Renewed
    <3> QED  BY <1>0, <2>4, <3>1 DEF NothingLeaked, Target
  <2>5. ASSUME NEW e \in Endpoints, endpoints'[e].probe_owner # 0
        PROVE  \E s \in Requests : /\ req'[s].guards.endpoint = ProbeOf(endpoints'[e])
                                   /\ Plan[req'[s].at].endpoint = e
    <3>1. endpoints'[e] = endpoints[e]
      BY <2>5 DEF Renewed
    <3> QED  BY <1>0, <2>5, <3>1 DEF NothingLeaked, Target
  <2> QED  BY <2>2, <2>3, <2>4, <2>5 DEF NothingLeaked, Target, ProbeOf
<1> QED  BY <1>1, <1>2, <1>5, <1>6 DEF Inv

LEMMA Resets ==
  ASSUME Inv, NEW p \in Providers, reset_provider_circuit(p)
  PROVE  Surroundings
<1> DEFINE q(k) == Q!expire_quota_state(quotas[k], now)
           until(k) == MaxOf(q(k).cooldown_until, Q!blocked_until(q(k)))
<1>0. /\ TypeOK
      /\ now \in Nat
      /\ resets \in Nat
      /\ quotas \in [Keys -> Q!Entry]
      /\ providers \in [Providers -> P!Entry]
      /\ keys \in [Keys -> H!Entry]
      /\ endpoints \in [Endpoints -> H!Entry]
  BY DEF Inv, TypeOK
<1>1. /\ req' = req /\ now' = now /\ resets' = resets + 1
      /\ providers' = [providers EXCEPT ![p] = P!after_reset(providers[p])]
      /\ endpoints' = [e \in Endpoints |->
           IF e \in EndpointsOf(p) THEN H!after_reset(endpoints[e]) ELSE endpoints[e]]
      /\ quotas' = [k \in Keys |-> IF k \in KeysOf(p) THEN q(k) ELSE quotas[k]]
      /\ keys' = [k \in Keys |->
           IF k \notin KeysOf(p) THEN keys[k]
           ELSE IF until(k) = -1 THEN H!after_reset(keys[k])
           ELSE H!after_defer(H!after_reset(keys[k]), until(k))]
  BY DEF reset_provider_circuit, Q!NoTime
<1>2. \A k \in Keys : q(k) \in Q!Entry
  BY <1>0, QuotaExpires
<1>3. \A k \in Keys : until(k) \in Int
  BY <1>2 DEF Q!Entry, MaxOf, Q!blocked_until, Q!NoTime
<1>4. quotas' \in [Keys -> Q!Entry]
  BY <1>0, <1>1, <1>2
<1> HIDE DEF q, until
<1>5. ASSUME NEW k \in Keys
      PROVE  keys'[k] \in H!Entry /\ (keys'[k] = keys[k] \/ Renewed(keys[k], keys'[k]))
  <2> DEFINE a == H!after_reset(keys[k])
             b == H!after_defer(a, until(k))
  <2>0. keys[k] \in H!Entry /\ keys[k].generation \in Nat
    BY <1>0 DEF H!Entry
  <2>1. a \in H!Entry /\ a.generation = keys[k].generation + 1 /\ a.probe_owner = 0
    BY <2>0, HealthResets
  <2>2. keys'[k] \in {keys[k], a, b}
    BY <1>1, <1>5
  <2> HIDE DEF a
  <2>3. b \in H!Entry /\ b.generation = a.generation + 1 /\ b.probe_owner = 0
    BY <1>3, <2>1, HealthDefers
  <2> HIDE DEF b
  <2> QED  BY <2>0, <2>1, <2>2, <2>3 DEF Renewed
<1>6. ASSUME NEW e \in Endpoints
      PROVE  /\ endpoints'[e] \in H!Entry
             /\ endpoints'[e] = endpoints[e] \/ Renewed(endpoints[e], endpoints'[e])
  <2> DEFINE a == H!after_reset(endpoints[e])
  <2>0. endpoints[e] \in H!Entry /\ endpoints[e].generation \in Nat
    BY <1>0 DEF H!Entry
  <2>1. a \in H!Entry /\ a.generation = endpoints[e].generation + 1 /\ a.probe_owner = 0
    BY <2>0, HealthResets
  <2>2. endpoints'[e] \in {endpoints[e], a}
    BY <1>1, <1>6
  <2> HIDE DEF a
  <2> QED  BY <2>0, <2>1, <2>2 DEF Renewed
<1>7. ASSUME NEW i \in Providers
      PROVE  /\ providers'[i] \in P!Entry
             /\ providers'[i].in_flight = providers[i].in_flight
             /\ providers'[i] = providers[i] \/ Renewed(providers[i], providers'[i])
  <2> DEFINE a == P!after_reset(providers[p])
  <2>0. /\ providers[i] \in P!Entry
        /\ providers[p] \in P!Entry /\ providers[p].generation \in Nat
    BY <1>0 DEF P!Entry
  <2>1. /\ a \in P!Entry
        /\ a.in_flight = providers[p].in_flight
        /\ a.generation = providers[p].generation + 1
        /\ a.probe_owner = 0
    BY <2>0, ProviderResets
  <2>2. providers'[i] = IF i = p THEN a ELSE providers[i]
    BY <1>0, <1>1, <1>7
  <2> HIDE DEF a
  <2> QED  BY <2>0, <2>1, <2>2 DEF Renewed
<1>8. keys' \in [Keys -> H!Entry]
  BY <1>1, <1>5
<1>9. endpoints' \in [Endpoints -> H!Entry]
  BY <1>1, <1>6
<1>10. providers' \in [Providers -> P!Entry]
  <2>1. providers' = [i \in Providers |-> providers'[i]]
    BY <1>0, <1>1
  <2> QED  BY <1>7, <2>1
<1> QED  BY <1>0, <1>1, <1>4, <1>5, <1>6, <1>7, <1>8, <1>9, <1>10 DEF Surroundings

\* A read of the quota book, a tick of the clock, or no step at all.
LEMMA Idles ==
  ASSUME Inv, (\E k \in Keys : ReadQuota(k)) \/ Tick \/ UNCHANGED vars
  PROVE  Surroundings
<1>0. /\ now \in Nat
      /\ resets \in Nat
      /\ quotas \in [Keys -> Q!Entry]
      /\ providers \in [Providers -> P!Entry]
      /\ keys \in [Keys -> H!Entry]
      /\ endpoints \in [Endpoints -> H!Entry]
  BY DEF Inv, TypeOK
<1>1. ASSUME NEW k \in Keys, ReadQuota(k) PROVE Surroundings
  <2> DEFINE q == Q!expire_quota_state(quotas[k], now)
  <2>1. q \in Q!Entry
    BY <1>0, QuotaExpires
  <2>2. quotas' = [quotas EXCEPT ![k] = q] /\ UNCHANGED <<now, endpoints, keys, providers, req, resets>>
    BY <1>1 DEF ReadQuota
  <2> HIDE DEF q
  <2>3. quotas' \in [Keys -> Q!Entry]
    BY <1>0, <2>1, <2>2
  <2> QED  BY <1>0, <2>2, <2>3 DEF Surroundings
<1>2. CASE Tick
  BY <1>0, <1>2 DEF Tick, books, Surroundings
<1>3. CASE UNCHANGED vars
  BY <1>0, <1>3 DEF vars, books, Surroundings
<1> QED  BY <1>1, <1>2, <1>3

-----------------------------------------------------------------------------
(* The theorems.                                                           *)

LEMMA InvInit == Init => Inv
<1> SUFFICES ASSUME Init PROVE Inv
  OBVIOUS
<1>1. \A r \in Requests : req[r] = NewRequest
  BY DEF Init
<1>2. H!DefaultEntry \in H!Entry /\ H!DefaultEntry.generation = 1 /\ H!DefaultEntry.probe_owner = 0
  BY DEF H!DefaultEntry, H!Entry, H!NoTime, H!NoProbe
<1>3. /\ P!DefaultEntry \in P!Entry /\ P!DefaultEntry.generation = 1
      /\ P!DefaultEntry.probe_owner = 0 /\ P!DefaultEntry.in_flight = 0
  BY DEF P!DefaultEntry, P!Entry, P!NoTime, P!NoProbe
<1>4. Q!DefaultEntry \in Q!Entry
  BY DEF Q!DefaultEntry, Q!Entry, Q!NoTime, Q!NoCount
<1>5. TypeOK
  BY <1>2, <1>3, <1>4, NewRequestType DEF Init, TypeOK
<1>6. Over(NewRequest)
  BY NewRequestType, ProviderLimit DEF Over, Within, Aimless
<1>7. BudgetInv /\ GuardInv
  BY <1>1, <1>6, OverFits DEF BudgetInv, GuardInv
<1>8. \A r \in Requests : ~req[r].guards.capacity
  BY <1>1, NewRequestType, NoGuardsFields
<1>9. /\ \A p \in Providers : providers[p] = P!DefaultEntry
      /\ \A k \in Keys : keys[k] = H!DefaultEntry
      /\ \A e \in Endpoints : endpoints[e] = H!DefaultEntry
  BY DEF Init
<1>10. CoolInv
  BY <1>2, <1>3, <1>8, <1>9 DEF CoolInv
<1>11. \A p \in Providers : PermitHolders(p) = {}
  BY <1>8 DEF PermitHolders
<1>12. Cardinality({}) = 0
  BY FS_EmptySet
<1>13. NothingLeaked
  BY <1>2, <1>3, <1>9, <1>11, <1>12 DEF NothingLeaked
<1> QED  BY <1>5, <1>7, <1>10, <1>13 DEF Inv

LEMMA InvStep ==
  ASSUME Inv, [Next]_vars
  PROVE  Inv'
<1>1. ASSUME NEW r \in Requests, Step(r) \/ Disconnect(r) PROVE Inv'
  <2>1. PICK y : Touch(r, y)
    BY <1>1, Steps DEF Touched
  <2> QED  BY <2>1, Preserved
<1>2. ASSUME NEW p \in Providers, reset_provider_circuit(p) PROVE Inv'
  BY <1>2, Resets, SurroundingsKeep
<1>3. ASSUME (\E k \in Keys : ReadQuota(k)) \/ Tick \/ UNCHANGED vars PROVE Inv'
  BY <1>3, Idles, SurroundingsKeep
<1> QED  BY <1>1, <1>2, <1>3 DEF Next

\* The inductive invariant of the attempt loop: the types, the budget behind
\* every send, which guards a handler holds at which await, the age of the
\* tokens, and the accounting of permits and probes.
THEOREM ProxyInvariant == Spec => []Inv
BY InvInit, InvStep, PTL DEF Spec

\* Every variable keeps its type, whatever the requests, the administrator and
\* the clock do (proxy_openai and the books it shares).
THEOREM TypeCorrect == Spec => []TypeOK
<1>1. Inv => TypeOK
  BY DEF Inv
<1> QED  BY <1>1, ProxyInvariant, PTL

\* No request goes upstream more often than its budget allows, nor to one
\* provider more often than that provider allows: failover, the replay after an
\* OAuth refresh and the encrypted-content retry draw on one AttemptBudget.
THEOREM AttemptCapHolds == Spec => []AttemptCap
<1>1. Inv => AttemptCap
  <2> SUFFICES ASSUME Inv, NEW r \in Requests
               PROVE  /\ req[r].sends =< req[r].used
                      /\ req[r].used =< MAX_ATTEMPTS
                      /\ \A p \in Providers : req[r].sent[p] =< MaxOf(ProviderAttempts, 1)
    BY DEF AttemptCap
  <2>1. req[r] \in Request /\ Within(req[r])
    BY Before
  <2>2. req[r].used =< MAX_ATTEMPTS
    BY <2>1, ProxyAssumption DEF Request
  <2> QED  BY <2>1, <2>2 DEF Within
<1> QED  BY <1>1, ProxyInvariant, PTL

\* Every early return, failover, disconnect and stream end gives back the
\* permit and the probes of the reservation: in_flight counts the requests that
\* hold a permit, and a claimed probe belongs to a request that can return it.
THEOREM NothingLeakedHolds == Spec => []NothingLeaked
<1>1. Inv => NothingLeaked
  BY DEF Inv
<1> QED  BY <1>1, ProxyInvariant, PTL

\* A request that starts to be sent has a current reservation, so none of its
\* three breakers is open.
LEMMA SentWhenCool ==
  ASSUME Inv, [Next]_vars, NEW r \in Requests, At(r, "sent")', ~At(r, "sent")
  PROVE  /\ endpoints[Target(r).endpoint].open_until =< now
         /\ keys[Target(r).key].open_until =< now
         /\ providers[Target(r).provider].open_until =< now
<1>0. req[r].pc # "sent" /\ req'[r].pc = "sent" /\ req \in [Requests -> Request]
  BY DEF At, Inv, TypeOK
<1>1. ASSUME Surroundings PROVE FALSE
  BY <1>0, <1>1 DEF Surroundings
<1>2. PICK s \in Requests : Step(s) \/ Disconnect(s)
  BY <1>1, Resets, Idles DEF Next
<1>3. PICK y : Touch(s, y)
  BY <1>2, Steps DEF Touched
<1>4. s = r /\ req'[r] = y
  BY <1>0, <1>3 DEF Touch
<1>5. is_current(r) /\ req[r].pc \in {"prepare", "replay", "recover"}
  BY <1>0, <1>3, <1>4 DEF Touch
<1>6. req[r].guards.capacity
  BY <1>5, Before DEF Guarded, Unheld, Aimless
<1>7. /\ Timely(providers[Target(r).provider], req[r].guards.provider)
      /\ Timely(keys[Target(r).key], req[r].guards.key)
      /\ Timely(endpoints[Target(r).endpoint], req[r].guards.endpoint)
  BY <1>6, Holding
<1>8. /\ req[r].guards.provider.generation = providers[Target(r).provider].generation
      /\ req[r].guards.key.generation = keys[Target(r).key].generation
      /\ req[r].guards.endpoint.generation = endpoints[Target(r).endpoint].generation
  BY <1>5 DEF is_current, P!attempt_token_matches, H!attempt_token_matches
<1> QED  BY <1>7, <1>8 DEF Timely

\* No request goes upstream while a breaker of its target is open, whatever the
\* other requests found out while it slept, refreshed its token or stripped its
\* body (the is_current check before every send of proxy_openai).
THEOREM NoForwardWhileCoolingHolds == Spec => NoForwardWhileCooling
<1>1. Inv /\ [Next]_vars =>
        [\A r \in Requests : At(r, "sent")' /\ ~At(r, "sent") =>
           /\ endpoints[Target(r).endpoint].open_until =< now
           /\ keys[Target(r).key].open_until =< now
           /\ providers[Target(r).provider].open_until =< now]_vars
  BY SentWhenCool
<1> QED  BY <1>1, ProxyInvariant, PTL DEF Spec, NoForwardWhileCooling
============================================================================
