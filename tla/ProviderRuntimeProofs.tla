----------------------- MODULE ProviderRuntimeProofs -----------------------
(***************************************************************************)
(* Proofs about ProviderRuntime for every set of callers, every concurrency *)
(* limit, threshold and duration, and any number of resets and purges.     *)
(***************************************************************************)
EXTENDS ProviderRuntime, FiniteSetTheorems, TLAPS

\* A provider that opens is shut for a positive stretch of time.
LEMMA CooldownPositive ==
  ASSUME NEW c \in Nat, NEW n \in Nat
  PROVE  cooldown(c, n) \in Nat \ {0}
<1> DEFINE base == MaxOf(c, CooldownBase)
           k == MinOf(MaxOf(n, 1), 11)
<1>1. base \in Nat \ {0}
  BY CooldownAssumption DEF MaxOf
<1>2. Backoff(n) \in Nat \ {0}
  <2>1. k \in 1 .. 11
    BY DEF MaxOf, MinOf
  <2>2. Backoff(n) = Doubling[k]
    BY DEF Backoff
  <2>3. \A i \in 1 .. 11 : Doubling[i] \in Nat \ {0}
    BY DEF Doubling
  <2> QED  BY <2>1, <2>2, <2>3
<1>3. base * Backoff(n) \in Nat \ {0} /\ MaxOf(CooldownMax, base) \in Nat \ {0}
  <2> HIDE DEF base
  <2> QED  BY <1>1, <1>2, CooldownAssumption DEF MaxOf
<1> HIDE DEF base
<1>4. MinOf(base * Backoff(n), MaxOf(CooldownMax, base)) \in Nat \ {0}
  BY <1>3 DEF MinOf
<1> QED  BY <1>4 DEF cooldown, base

-----------------------------------------------------------------------------
(* What the operations on one entry return.                                *)

LEMMA ReleaseFields ==
  ASSUME NEW e \in Entry, NEW tok \in Token
  PROVE  LET r == release_probe_owner(e, tok) IN
         /\ r \in Entry
         /\ r.in_flight = e.in_flight
         /\ r.generation = e.generation
         /\ r.next_probe_id = e.next_probe_id
         /\ r.consecutive_failures = e.consecutive_failures
         /\ r.half_open_successes = e.half_open_successes
         /\ r.open_until = e.open_until
         /\ r.probe_owner = IF tok.probe_id # NoProbe /\ e.probe_owner = tok.probe_id
                              THEN NoProbe ELSE e.probe_owner
BY DEF release_probe_owner, Entry, Token, NoProbe

LEMMA AdvanceFields ==
  ASSUME NEW e \in Entry
  PROVE  LET r == advance_generation(e) IN
         /\ r \in Entry
         /\ r.in_flight = e.in_flight
         /\ r.generation = e.generation + 1
         /\ r.next_probe_id = e.next_probe_id
         /\ r.probe_owner = NoProbe
         /\ r.open_until = e.open_until
<1> DEFINE g == e.generation + 1
<1>1. g \in Nat
  BY DEF Entry
<1>2. advance_generation(e) = [e EXCEPT !.generation = g, !.probe_owner = NoProbe]
  BY DEF advance_generation
<1> HIDE DEF g
<1>3. LET r == [e EXCEPT !.generation = g, !.probe_owner = NoProbe] IN
         /\ r \in Entry
         /\ r.in_flight = e.in_flight
         /\ r.generation = g
         /\ r.next_probe_id = e.next_probe_id
         /\ r.probe_owner = NoProbe
         /\ r.open_until = e.open_until
  BY <1>1 DEF Entry, NoProbe
<1> QED  BY <1>2, <1>3 DEF g

LEMMA ClearFields ==
  ASSUME NEW e \in Entry
  PROVE  LET r == clear_breaker_state(e) IN
         /\ r \in Entry
         /\ r.in_flight = e.in_flight
         /\ r.generation = e.generation
         /\ r.next_probe_id = e.next_probe_id
         /\ r.probe_owner = NoProbe
         /\ r.open_until = NoTime
BY DEF clear_breaker_state, Entry, NoProbe

\* The fields that a verdict writes besides generation and owner.
LEMMA VerdictFields ==
  ASSUME NEW e \in Entry, NEW f \in Nat, NEW h \in Nat, NEW u \in Nat \cup {NoTime}
  PROVE  LET r == [e EXCEPT !.consecutive_failures = f, !.half_open_successes = h,
                            !.open_until = u] IN
         /\ r \in Entry
         /\ r.in_flight = e.in_flight
         /\ r.generation = e.generation
         /\ r.next_probe_id = e.next_probe_id
         /\ r.probe_owner = e.probe_owner
         /\ r.open_until = u
BY DEF Entry

\* What settling a guard may do to the entry it matches: it never touches the
\* capacity counter or the probe counter; it opens a new generation without a
\* probe, or stays in this one, opens nothing, and keeps the claim of any other
\* probe as long as the breaker is not closed.
Settled(e, tok, r) ==
  /\ r \in Entry
  /\ r.in_flight = e.in_flight
  /\ r.next_probe_id = e.next_probe_id
  /\ \/ r.generation = e.generation + 1 /\ r.probe_owner = NoProbe
     \/ /\ r.generation = e.generation
        /\ r.open_until \in {e.open_until, NoTime}
        /\ \/ r.open_until = NoTime /\ r.probe_owner = NoProbe
           \/ r.probe_owner = release_probe_owner(e, tok).probe_owner

LEMMA NeutralSettles ==
  ASSUME NEW e \in Entry, NEW tok \in Token
  PROVE  Settled(e, tok, release_probe_owner(e, tok))
BY ReleaseFields DEF Settled

LEMMA SuccessSettles ==
  ASSUME NEW e \in Entry, NEW tok \in Token, NEW t \in Nat, NEW on \in BOOLEAN
  PROVE  Settled(e, tok, after_success(on, e, tok, t))
<1> DEFINE r == release_probe_owner(e, tok)
           n == e.half_open_successes + 1
           a == after_success(on, e, tok, t)
<1>1. /\ r \in Entry
      /\ r.in_flight = e.in_flight
      /\ r.generation = e.generation
      /\ r.next_probe_id = e.next_probe_id
      /\ r.open_until = e.open_until
      /\ n \in Nat
  BY ReleaseFields DEF Entry
<1>2. \/ a = clear_breaker_state(r)
      \/ a = [r EXCEPT !.consecutive_failures = 0, !.open_until = NoTime,
                       !.half_open_successes = 0]
      \/ a = clear_breaker_state(advance_generation(r))
      \/ a = [r EXCEPT !.half_open_successes = n]
  BY DEF after_success
<1> SUFFICES Settled(e, tok, a)
  OBVIOUS
<1> HIDE DEF r, n, a
<1>3. CASE a = clear_breaker_state(r)
  BY <1>1, <1>3, ClearFields DEF Settled
<1>4. CASE a = [r EXCEPT !.consecutive_failures = 0, !.open_until = NoTime,
                         !.half_open_successes = 0]
  BY <1>1, <1>4 DEF Settled, Entry, r
<1>5. CASE a = clear_breaker_state(advance_generation(r))
  BY <1>1, <1>5, ClearFields, AdvanceFields DEF Settled
<1>6. CASE a = [r EXCEPT !.half_open_successes = n]
  BY <1>1, <1>6 DEF Settled, Entry, r
<1> QED  BY <1>2, <1>3, <1>4, <1>5, <1>6

LEMMA FailureSettles ==
  ASSUME NEW e \in Entry, NEW tok \in Token, NEW t \in Nat, NEW on \in BOOLEAN
  PROVE  /\ Settled(e, tok, after_failure(on, e, tok, t))
         /\ circuit_state(on, e, t) = "half_open" =>
              after_failure(on, e, tok, t).open_until > t
<1> DEFINE r == release_probe_owner(e, tok)
           threshold == MaxOf(FailureThreshold, 1)
           half == circuit_state(on, e, t) = "half_open"
           f == IF half THEN MaxOf(e.consecutive_failures + 1, threshold)
                        ELSE e.consecutive_failures + 1
           u == t + cooldown(OpenDuration, f - threshold + 1)
           o == [r EXCEPT !.consecutive_failures = f, !.half_open_successes = 0,
                          !.open_until = u]
           a == after_failure(on, e, tok, t)
<1>1. /\ r \in Entry
      /\ r.in_flight = e.in_flight
      /\ r.generation = e.generation
      /\ r.next_probe_id = e.next_probe_id
      /\ r.open_until = e.open_until
  BY ReleaseFields
<1>2. threshold \in Nat /\ f \in Nat /\ (half => f >= threshold)
  BY ProviderEntryAssumption DEF Entry, MaxOf
<1>3. half => on
  BY DEF circuit_state
<1>4. a = IF ~on THEN [r EXCEPT !.consecutive_failures = f, !.open_until = NoTime,
                                !.half_open_successes = 0]
          ELSE IF f >= threshold THEN advance_generation(o)
          ELSE [r EXCEPT !.consecutive_failures = f]
  BY DEF after_failure
<1> HIDE DEF threshold, f, half
<1>5. f >= threshold => u \in Nat /\ u > t
  <2> SUFFICES ASSUME f >= threshold PROVE u \in Nat /\ u > t
    OBVIOUS
  <2> DEFINE n == f - threshold + 1
  <2>1. n \in Nat
    BY <1>2
  <2> HIDE DEF n
  <2>2. cooldown(OpenDuration, n) \in Nat \ {0}
    BY <2>1, CooldownPositive, ProviderEntryAssumption
  <2> QED  BY <2>2 DEF n
<1> HIDE DEF r, u, a
<1>6. CASE ~on
  <2>1. a = [r EXCEPT !.consecutive_failures = f, !.open_until = NoTime,
                      !.half_open_successes = 0]
    BY <1>4, <1>6
  <2>2. Settled(e, tok, a)
    BY <1>1, <1>2, <2>1 DEF Settled, Entry, r
  <2> QED  BY <1>3, <1>6, <2>2 DEF a, half
<1>7. CASE on /\ f >= threshold
  <2>1. a = advance_generation(o)
    BY <1>4, <1>7
  <2>2. /\ o \in Entry
        /\ o.in_flight = r.in_flight
        /\ o.next_probe_id = r.next_probe_id
        /\ o.generation = r.generation
        /\ o.open_until = u
    BY <1>1, <1>2, <1>5, <1>7 DEF Entry
  <2> HIDE DEF o
  <2>3. Settled(e, tok, a) /\ a.open_until = u
    BY <1>1, <2>1, <2>2, AdvanceFields DEF Settled
  <2> QED  BY <1>5, <1>7, <2>3 DEF a
<1>8. CASE on /\ ~(f >= threshold)
  <2>1. a = [r EXCEPT !.consecutive_failures = f]
    BY <1>4, <1>8
  <2>2. Settled(e, tok, a)
    BY <1>1, <1>2, <2>1 DEF Settled, Entry, r
  <2> QED  BY <1>2, <1>8, <2>2 DEF a, half
<1> QED  BY <1>6, <1>7, <1>8

LEMMA ResetFields ==
  ASSUME NEW e \in Entry
  PROVE  LET r == after_reset(e) IN
         /\ r \in Entry
         /\ r.in_flight = e.in_flight
         /\ r.generation = e.generation + 1
         /\ r.next_probe_id = e.next_probe_id
         /\ r.probe_owner = NoProbe
         /\ r.open_until = NoTime
<1> DEFINE x == advance_generation(e)
<1>1. /\ x \in Entry
      /\ x.in_flight = e.in_flight
      /\ x.generation = e.generation + 1
      /\ x.next_probe_id = e.next_probe_id
      /\ x.probe_owner = NoProbe
  BY AdvanceFields
<1> DEFINE y == [x EXCEPT !.consecutive_failures = 0, !.open_until = NoTime,
                          !.half_open_successes = 0]
<1>2. after_reset(e) = y
  BY DEF after_reset
<1> HIDE DEF x
<1>3. /\ y \in Entry
      /\ y.in_flight = x.in_flight
      /\ y.generation = x.generation
      /\ y.next_probe_id = x.next_probe_id
      /\ y.probe_owner = x.probe_owner
      /\ y.open_until = NoTime
  BY <1>1 DEF Entry
<1> HIDE DEF y
<1> QED  BY <1>1, <1>2, <1>3

\* A begun attempt carries the entry's generation, and the next probe id if the
\* breaker has cooled; then, and only then, the entry changes.
LEMMA BeginFields ==
  ASSUME NEW e \in Entry, NEW t \in Nat, NEW on \in BOOLEAN
  PROVE  LET r == after_begin(on, e, t)
             tok == begin_token(on, e, t) IN
         /\ r \in Entry /\ tok \in Token
         /\ r.in_flight = e.in_flight
         /\ r.generation = e.generation /\ tok.generation = e.generation
         /\ r.open_until = e.open_until
         /\ circuit_state(on, e, t) = "half_open" =>
              /\ tok.probe_id = e.next_probe_id + 1
              /\ r.next_probe_id = tok.probe_id
              /\ r.probe_owner = tok.probe_id
         /\ circuit_state(on, e, t) # "half_open" => tok.probe_id = NoProbe /\ r = e
<1> DEFINE half == circuit_state(on, e, t) = "half_open"
           id == IF half THEN e.next_probe_id + 1 ELSE NoProbe
<1>1. id \in Nat /\ (half => id = e.next_probe_id + 1) /\ (~half => id = NoProbe)
  BY DEF Entry, NoProbe
<1>2. /\ begin_token(on, e, t) = [generation |-> e.generation, probe_id |-> id]
      /\ after_begin(on, e, t) =
           IF half THEN [e EXCEPT !.next_probe_id = id, !.probe_owner = id] ELSE e
  BY DEF begin_token, after_begin
<1> DEFINE y == [e EXCEPT !.next_probe_id = id, !.probe_owner = id]
           tk == [generation |-> e.generation, probe_id |-> id]
<1> HIDE DEF id
<1>3. /\ y \in Entry
      /\ y.in_flight = e.in_flight
      /\ y.generation = e.generation
      /\ y.next_probe_id = id
      /\ y.probe_owner = id
      /\ y.open_until = e.open_until
  BY <1>1 DEF Entry
<1>4. tk \in Token /\ tk.generation = e.generation /\ tk.probe_id = id
  BY <1>1 DEF Entry, Token
<1> HIDE DEF y, tk
<1>5. CASE half
  BY <1>1, <1>2, <1>3, <1>4, <1>5 DEF y, tk
<1>6. CASE ~half
  BY <1>1, <1>2, <1>4, <1>6 DEF tk
<1> QED  BY <1>5, <1>6

\* Every settlement either meets a stale guard and leaves the entry alone, or
\* changes the entry as Settled allows.
LEMMA FinishSettles ==
  ASSUME TypeOK, NEW c \in Callers, Finish(c)
  PROVE  \E e : /\ Settle(c, e)
                /\ Settled(entry, token[c], e)
<1>1. entry \in Entry /\ token[c] \in Token /\ clone[c] \in BOOLEAN /\ now \in Nat
  BY DEF TypeOK
<1> QED  BY <1>1, NeutralSettles, SuccessSettles, FailureSettles
         DEF Finish, finish_success, finish_failure, finish_neutral

-----------------------------------------------------------------------------
(* Type correctness.                                                       *)

LEMMA DefaultTypes == DefaultEntry \in Entry /\ NoToken \in Token
BY DEF Entry, Token, DefaultEntry, NoToken, NoProbe

LEMMA TypeInit == Init => TypeOK
<1> SUFFICES ASSUME Init PROVE TypeOK
  OBVIOUS
<1>1. entry \in Entry
  BY DefaultTypes DEF Init
<1>2. token \in [Callers -> Token]
  BY DefaultTypes DEF Init
<1> QED  BY <1>1, <1>2 DEF Init, TypeOK

LEMMA TypeStep == TypeOK /\ [Next]_vars => TypeOK'
<1> SUFFICES ASSUME TypeOK, [Next]_vars PROVE TypeOK'
  OBVIOUS
<1> USE DEF TypeOK
<1>1. ASSUME NEW c \in Callers, try_acquire_capacity(c) PROVE TypeOK'
  <2> DEFINE n == entry.in_flight + 1
  <2>1. n \in Nat /\ entry' = [entry EXCEPT !.in_flight = n]
    BY <1>1 DEF try_acquire_capacity, Entry
  <2> HIDE DEF n
  <2>2. entry' \in Entry
    BY <2>1 DEF Entry
  <2> QED  BY <1>1, <2>2 DEF try_acquire_capacity
<1>2. ASSUME NEW c \in Callers, try_begin_attempt(c) PROVE TypeOK'
  <2>1. entry' \in Entry /\ begin_token(clone[c], entry, now) \in Token
    BY <1>2, BeginFields DEF try_begin_attempt
  <2> QED  BY <1>2, <2>1 DEF try_begin_attempt
<1>3. ASSUME NEW c \in Callers, Finish(c) PROVE TypeOK'
  <2>1. PICK e : Settle(c, e) /\ e \in Entry
    BY <1>3, FinishSettles DEF Settled
  <2>2. crossed' \in BOOLEAN
    BY <2>1 DEF Settle
  <2> QED  BY <2>1, <2>2, DefaultTypes DEF Settle
<1>4. ASSUME NEW c \in Callers, release_capacity(c) PROVE TypeOK'
  <2> DEFINE n == MaxOf(entry.in_flight - 1, 0)
  <2>1. n \in Nat /\ entry' = [entry EXCEPT !.in_flight = n]
    BY <1>4 DEF release_capacity, Entry, MaxOf
  <2> HIDE DEF n
  <2>2. entry' \in Entry
    BY <2>1 DEF Entry
  <2> QED  BY <1>4, <2>2 DEF release_capacity
<1>5. CASE reset
  BY <1>5, ResetFields DEF reset
<1>6. CASE purge_provider
  <2>1. entry' \in Entry
    BY <1>6, DefaultTypes DEF purge_provider
  <2>2. purges' \in Nat
    BY <1>6 DEF purge_provider
  <2>3. crossed' \in BOOLEAN
    BY <1>6 DEF purge_provider
  <2> QED  BY <1>6, <2>1, <2>2, <2>3 DEF purge_provider
<1>7. CASE ToggleBreaker
  BY <1>7 DEF ToggleBreaker
<1>8. CASE Tick
  BY <1>8 DEF Tick
<1>9. CASE UNCHANGED vars
  BY <1>9 DEF vars
<1> QED  BY <1>1, <1>2, <1>3, <1>4, <1>5, <1>6, <1>7, <1>8, <1>9 DEF Next

\* Every reachable state of the provider's entry, its permits and its guards is
\* well typed; the counter never falls below zero.
THEOREM TypeCorrect == Spec => []TypeOK
BY TypeInit, TypeStep, PTL DEF Spec

-----------------------------------------------------------------------------
(* Capacity.                                                               *)

\* Only finitely many permits are out, so counting them makes sense.
CapacityInv == IsFiniteSet(Held) /\ CapacityAccounting

LEMMA CapacityInit == Init => CapacityInv
<1> SUFFICES ASSUME Init PROVE CapacityInv
  OBVIOUS
<1>1. Held = {}
  BY DEF Init, Held
<1>2. entry.in_flight = 0
  BY DEF Init, DefaultEntry
<1> QED  BY <1>1, <1>2, FS_EmptySet, ProviderRuntimeAssumption
         DEF CapacityInv, CapacityAccounting

\* A step that hands out no permit and gives none back.
LEMMA CapacityIdle ==
  ASSUME CapacityInv, Held' = Held, entry'.in_flight = entry.in_flight, purges' = purges
  PROVE  CapacityInv'
BY DEF CapacityInv, CapacityAccounting

LEMMA CapacityStep == TypeOK /\ CapacityInv /\ [Next]_vars => CapacityInv'
<1> SUFFICES ASSUME TypeOK, CapacityInv, [Next]_vars PROVE CapacityInv'
  OBVIOUS
<1> DEFINE n == entry.in_flight
<1>0. /\ IsFiniteSet(Held) /\ Cardinality(Held) \in Nat /\ n \in Nat
      /\ n =< Cardinality(Held) /\ purges \in Nat
      /\ entry \in Entry /\ phase \in [Callers -> {"idle", "permit", "active", "done"}]
  BY FS_CardinalityType DEF CapacityInv, CapacityAccounting, TypeOK, Entry
<1>1. ASSUME NEW c \in Callers, try_acquire_capacity(c) PROVE CapacityInv'
  <2>1. c \notin Held /\ Held' = Held \cup {c}
    BY <1>0, <1>1 DEF try_acquire_capacity, Held
  <2>2. IsFiniteSet(Held') /\ Cardinality(Held') = Cardinality(Held) + 1
    BY <1>0, <2>1, FS_AddElement
  <2>3. entry'.in_flight = n + 1 /\ n < MaxConcurrency /\ purges' = purges
    BY <1>0, <1>1 DEF try_acquire_capacity, Entry
  <2> QED  BY <1>0, <2>2, <2>3, ProviderRuntimeAssumption DEF CapacityInv, CapacityAccounting
<1>2. ASSUME NEW c \in Callers, try_begin_attempt(c) PROVE CapacityInv'
  <2>1. Held' = Held
    BY <1>0, <1>2 DEF try_begin_attempt, Held
  <2>2. entry' = after_begin(clone[c], entry, now) /\ purges' = purges
    BY <1>2 DEF try_begin_attempt
  <2>3. clone[c] \in BOOLEAN /\ now \in Nat
    BY DEF TypeOK
  <2>4. entry'.in_flight = n
    BY <1>0, <2>2, <2>3, BeginFields
  <2> QED  BY <2>1, <2>2, <2>4, CapacityIdle
<1>3. ASSUME NEW c \in Callers, Finish(c) PROVE CapacityInv'
  <2>1. PICK e : Settle(c, e) /\ e.in_flight = n
    BY <1>3, FinishSettles DEF Settled
  <2>2. Held' = Held
    BY <1>0, <2>1 DEF Settle, Held
  <2>3. entry'.in_flight = n /\ purges' = purges
    BY <2>1 DEF Settle
  <2> QED  BY <2>2, <2>3, CapacityIdle
<1>4. ASSUME NEW c \in Callers, release_capacity(c) PROVE CapacityInv'
  <2>1. c \in Held /\ Held' = Held \ {c}
    BY <1>0, <1>4 DEF release_capacity, Held
  <2>2. IsFiniteSet(Held') /\ Cardinality(Held') = Cardinality(Held) - 1
    BY <1>0, <2>1, FS_RemoveElement
  <2>3. entry'.in_flight = (IF n - 1 >= 0 THEN n - 1 ELSE 0) /\ purges' = purges
    BY <1>0, <1>4 DEF release_capacity, Entry, MaxOf
  <2>4. Cardinality(Held) >= 1
    BY <1>0, <2>1, FS_EmptySet
  <2> QED  BY <1>0, <2>2, <2>3, <2>4, ProviderRuntimeAssumption
           DEF CapacityInv, CapacityAccounting
<1>5. CASE reset
  <2>1. entry'.in_flight = n /\ purges' = purges /\ Held' = Held
    BY <1>0, <1>5, ResetFields DEF reset, Held
  <2> QED  BY <2>1, CapacityIdle
<1>6. CASE purge_provider
  <2>1. entry'.in_flight = 0 /\ purges' # 0 /\ Held' = Held
    BY <1>0, <1>6 DEF purge_provider, DefaultEntry, Held
  <2> QED  BY <1>0, <2>1 DEF CapacityInv, CapacityAccounting
<1>7. CASE ToggleBreaker \/ Tick \/ UNCHANGED vars
  <2>1. entry' = entry /\ purges' = purges /\ Held' = Held
    BY <1>7 DEF ToggleBreaker, Tick, vars, Held
  <2> QED  BY <2>1, CapacityIdle
<1> QED  BY <1>1, <1>2, <1>3, <1>4, <1>5, <1>6, <1>7 DEF Next

\* The in-flight counter of the provider never counts a permit nobody holds,
\* resets and purges included; before the first purge it is exact and at most
\* max_concurrency permits are out.
THEOREM CapacityHolds == Spec => []CapacityAccounting
<1>1. CapacityInv => CapacityAccounting
  BY DEF CapacityInv
<1> QED  BY <1>1, CapacityInit, CapacityStep, TypeCorrect, PTL DEF Spec

-----------------------------------------------------------------------------
(* The token invariant.                                                    *)

LEMMA TokenInvInit == Init => TokenInv
<1> SUFFICES ASSUME Init PROVE TokenInv
  OBVIOUS
<1>1. \A c \in Callers : ~Young(c) /\ ~SameGeneration(c)
  BY DEF Init, Young, SameGeneration
<1>2. entry.probe_owner = NoProbe
  BY DEF Init, DefaultEntry
<1> QED  BY <1>1, <1>2
         DEF TokenInv, TokenBound, DistinctProbes, PlainTokens, ProbeTokens, ProbeHeld

\* A step that leaves the guards and the breaker alone, whatever it does to
\* permits, settings and the clock.
LEMMA TokenInvFrame ==
  ASSUME TypeOK, TokenInv,
         now' \in Nat, now' >= now, UNCHANGED <<token, born, purges, crossed>>,
         \A c \in Callers : phase'[c] = "active" <=> phase[c] = "active",
         \A c \in Callers : phase[c] = "active" => clone'[c] = clone[c],
         entry'.generation = entry.generation,
         entry'.next_probe_id = entry.next_probe_id,
         entry'.probe_owner = entry.probe_owner,
         entry'.open_until = entry.open_until
  PROVE  TokenInv'
<1>1. \A c \in Callers : Young(c)' <=> Young(c)
  BY DEF Young
<1>2. \A c \in Callers : SameGeneration(c)' => SameGeneration(c)
  BY <1>1 DEF SameGeneration, Young
<1>3. TokenBound' /\ DistinctProbes'
  BY <1>1 DEF TokenInv, TokenBound, DistinctProbes
<1>4. PlainTokens'
  BY <1>2 DEF TokenInv, PlainTokens
<1>5. ProbeTokens'
  <2>1. entry.open_until \in Int /\ now \in Int
    BY DEF TypeOK, Entry, NoTime
  <2> QED  BY <1>2, <2>1 DEF TokenInv, ProbeTokens
<1>6. ProbeHeld'
  BY DEF TokenInv, ProbeHeld, Current, attempt_token_matches
<1> QED  BY <1>3, <1>4, <1>5, <1>6 DEF TokenInv

\* A step that moves the entry to its next generation makes every guard of it
\* stale.
LEMMA TokenInvAdvance ==
  ASSUME TypeOK, TypeOK', TokenInv,
         \A c \in Callers : phase'[c] = "active" =>
           phase[c] = "active" /\ token'[c] = token[c] /\ born'[c] = born[c],
         purges' = purges,
         entry'.generation = entry.generation + 1,
         entry'.next_probe_id = entry.next_probe_id,
         entry'.probe_owner = NoProbe
  PROVE  TokenInv'
<1>1. \A c \in Callers : Young(c)' => Young(c) /\ token'[c] = token[c]
  BY DEF Young
<1>2. entry \in Entry /\ \A c \in Callers : token[c] \in Token
  BY DEF TypeOK
<1>3. TokenBound'
  <2> SUFFICES ASSUME NEW c \in Callers, Young(c)'
               PROVE  /\ token'[c].generation =< entry'.generation
                      /\ token'[c].probe_id =< entry'.next_probe_id
    BY DEF TokenBound
  <2>1. /\ token[c].generation =< entry.generation
        /\ token[c].probe_id =< entry.next_probe_id
    BY <1>1 DEF TokenInv, TokenBound
  <2> QED  BY <1>1, <1>2, <2>1 DEF Entry, Token
<1>4. DistinctProbes'
  BY <1>1 DEF TokenInv, DistinctProbes
<1>5. \A c \in Callers : ~SameGeneration(c)'
  <2> SUFFICES ASSUME NEW c \in Callers, SameGeneration(c)' PROVE FALSE
    OBVIOUS
  <2>1. token[c].generation =< entry.generation
    BY <1>1 DEF SameGeneration, TokenInv, TokenBound
  <2>2. token[c].generation = entry.generation + 1
    BY <1>1 DEF SameGeneration
  <2> QED  BY <1>2, <2>1, <2>2 DEF Entry, Token
<1>6. PlainTokens' /\ ProbeTokens'
  BY <1>5 DEF PlainTokens, ProbeTokens
<1>7. ProbeHeld'
  BY DEF ProbeHeld
<1> QED  BY <1>3, <1>4, <1>6, <1>7 DEF TokenInv

\* A guard handed out: plain while the breaker is closed or switched off, or
\* the one probe, whose id no guard of this entry carries.
LEMMA TokenInvBegin ==
  ASSUME TypeOK, TypeOK', TokenInv, NEW c \in Callers, try_begin_attempt(c)
  PROVE  TokenInv'
<1> DEFINE half == circuit_state(clone[c], entry, now) = "half_open"
           tok == begin_token(clone[c], entry, now)
<1>1. /\ phase[c] = "permit"
      /\ admits(clone[c], entry, now)
      /\ phase' = [phase EXCEPT ![c] = "active"]
      /\ token' = [token EXCEPT ![c] = tok]
      /\ born' = [born EXCEPT ![c] = purges]
      /\ entry' = after_begin(clone[c], entry, now)
      /\ UNCHANGED <<now, clone, purges, crossed>>
  BY DEF try_begin_attempt
<1>2. /\ entry \in Entry /\ clone[c] \in BOOLEAN /\ now \in Nat
      /\ \A d \in Callers : token[d] \in Token
      /\ entry.next_probe_id \in Nat /\ entry.generation \in Nat
  BY DEF TypeOK, Entry
<1>3. /\ tok \in Token
      /\ entry'.generation = entry.generation /\ tok.generation = entry.generation
      /\ entry'.open_until = entry.open_until
      /\ half => /\ tok.probe_id = entry.next_probe_id + 1
                 /\ entry'.next_probe_id = tok.probe_id
                 /\ entry'.probe_owner = tok.probe_id
      /\ ~half => tok.probe_id = NoProbe /\ entry' = entry
  BY <1>1, <1>2, BeginFields
<1> HIDE DEF half, tok
<1>4. /\ phase'[c] = "active" /\ token'[c] = tok /\ born'[c] = purges
      /\ \A d \in Callers : d # c =>
           phase'[d] = phase[d] /\ token'[d] = token[d] /\ born'[d] = born[d]
  BY <1>1 DEF TypeOK
<1>5. \A d \in Callers : d # c => /\ Young(d)' <=> Young(d)
                                  /\ SameGeneration(d)' <=> SameGeneration(d)
  BY <1>1, <1>3, <1>4 DEF Young, SameGeneration
<1>6. half => entry.open_until # NoTime /\ entry.open_until =< now
              /\ entry.probe_owner = NoProbe
  BY <1>1, <1>2 DEF half, circuit_state, admits, Entry, NoTime
<1>7. ~half /\ clone[c] => entry.open_until = NoTime
  BY <1>1, <1>2 DEF half, circuit_state, admits
<1>8. TokenBound'
  <2> SUFFICES ASSUME NEW d \in Callers, Young(d)'
               PROVE  /\ token'[d].generation =< entry'.generation
                      /\ token'[d].probe_id =< entry'.next_probe_id
    BY DEF TokenBound
  <2>1. CASE d = c
    BY <1>2, <1>3, <1>4, <2>1 DEF NoProbe
  <2>2. CASE d # c
    <3>1. /\ token[d].generation =< entry.generation
          /\ token[d].probe_id =< entry.next_probe_id
      BY <1>5, <2>2 DEF TokenInv, TokenBound
    <3>2. token[d].probe_id \in Nat
      BY <1>2 DEF Token
    <3> QED  BY <1>2, <1>3, <1>4, <2>2, <3>1, <3>2
  <2> QED  BY <2>1, <2>2
<1>9. DistinctProbes'
  <2> SUFFICES ASSUME NEW d \in Callers, d # c, Young(d)',
                      token'[d].probe_id = tok.probe_id, tok.probe_id # NoProbe
               PROVE  FALSE
    BY <1>4, <1>5 DEF TokenInv, DistinctProbes
  <2>1. token[d].probe_id =< entry.next_probe_id /\ token[d].probe_id \in Nat
    BY <1>2, <1>5 DEF TokenInv, TokenBound, Token
  <2> QED  BY <1>2, <1>3, <1>4, <2>1
<1>10. PlainTokens'
  BY <1>2, <1>3, <1>4, <1>5, <1>7, <1>1 DEF TokenInv, PlainTokens, SameGeneration, NoProbe
<1>11. ProbeTokens'
  <2> SUFFICES ASSUME NEW d \in Callers, SameGeneration(d)', token'[d].probe_id # NoProbe,
                      entry'.open_until # NoTime
               PROVE  /\ entry'.open_until =< now'
                      /\ ~crossed' => entry'.probe_owner = token'[d].probe_id
    BY DEF ProbeTokens
  <2>1. CASE d = c
    BY <1>1, <1>3, <1>4, <1>6, <2>1
  <2>2. CASE d # c
    <3>1. /\ entry.open_until =< now
          /\ ~crossed => entry.probe_owner = token[d].probe_id
      BY <1>3, <1>4, <1>5, <2>2 DEF TokenInv, ProbeTokens
    <3>2. ~crossed => ~half
      BY <1>4, <1>6, <2>2, <3>1
    <3> QED  BY <1>1, <1>3, <1>4, <2>2, <3>1, <3>2
  <2> QED  BY <2>1, <2>2
<1>12. ProbeHeld'
  <2>1. CASE half
    <3>1. Current(c)'
      BY <1>3, <1>4, <2>1 DEF Current, attempt_token_matches
    <3> QED  BY <1>3, <1>4, <2>1, <3>1 DEF ProbeHeld
  <2>2. CASE ~half
    <3> SUFFICES ASSUME entry.probe_owner # NoProbe
                 PROVE  \E d \in Callers :
                          Current(d)' /\ token'[d].probe_id = entry'.probe_owner
      BY <1>3, <2>2 DEF ProbeHeld
    <3>1. PICK d \in Callers : Current(d) /\ token[d].probe_id = entry.probe_owner
      BY DEF TokenInv, ProbeHeld
    <3>2. d # c
      BY <1>1, <3>1 DEF Current
    <3> QED  BY <1>3, <1>4, <2>2, <3>1, <3>2 DEF Current, attempt_token_matches
  <2> QED  BY <2>1, <2>2
<1> QED  BY <1>8, <1>9, <1>10, <1>11, <1>12 DEF TokenInv

\* A guard settled.  Within its generation a young guard gives back its own
\* claim only, as no other young guard carries its probe id; an older guard may
\* give back the claim of another, which is what `crossed` records.
LEMMA TokenInvFinish ==
  ASSUME TypeOK, TypeOK', TokenInv, NEW c \in Callers, Finish(c)
  PROVE  TokenInv'
<1>1. PICK e2 : Settle(c, e2) /\ Settled(entry, token[c], e2)
  BY FinishSettles
<1>2. /\ entry \in Entry /\ now \in Nat
      /\ \A d \in Callers : token[d] \in Token
  BY DEF TypeOK
<1>3. /\ phase[c] = "active" /\ phase'[c] = "permit"
      /\ \A d \in Callers : d # c =>
           phase'[d] = phase[d] /\ token'[d] = token[d] /\ born'[d] = born[d]
      /\ UNCHANGED <<now, clone, purges>>
      /\ crossed' = (crossed \/ (Current(c) /\ born[c] # purges))
  BY <1>1 DEF Settle, TypeOK
<1>4. \A d \in Callers : phase'[d] = "active" => d # c /\ phase[d] = "active"
  BY <1>3
<1>5. \A d \in Callers : Young(d)' => d # c /\ Young(d) /\ token'[d] = token[d]
  BY <1>3, <1>4 DEF Young
<1>6. CASE ~Current(c)
  <2>1. entry' = entry /\ (crossed' <=> crossed)
    BY <1>1, <1>3, <1>6 DEF Settle
  <2>2. \A d \in Callers : SameGeneration(d)' => SameGeneration(d)
    BY <1>3, <1>5, <2>1 DEF SameGeneration
  <2>3. TokenBound' /\ DistinctProbes'
    BY <1>5, <2>1 DEF TokenInv, TokenBound, DistinctProbes
  <2>4. PlainTokens'
    BY <1>5, <2>1, <2>2 DEF TokenInv, PlainTokens, SameGeneration
  <2>5. ProbeTokens'
    BY <1>3, <1>5, <2>1, <2>2 DEF TokenInv, ProbeTokens, SameGeneration
  <2>6. ProbeHeld'
    <3> SUFFICES ASSUME entry.probe_owner # NoProbe
                 PROVE  \E d \in Callers :
                          Current(d)' /\ token'[d].probe_id = entry'.probe_owner
      BY <2>1 DEF ProbeHeld
    <3>1. PICK d \in Callers : Current(d) /\ token[d].probe_id = entry.probe_owner
      BY DEF TokenInv, ProbeHeld
    <3> QED  BY <1>3, <1>6, <2>1, <3>1 DEF Current, attempt_token_matches
  <2> QED  BY <2>3, <2>4, <2>5, <2>6 DEF TokenInv
<1>7. CASE Current(c) /\ e2.generation = entry.generation + 1 /\ e2.probe_owner = NoProbe
  <2>1. entry' = e2 /\ e2.next_probe_id = entry.next_probe_id
    BY <1>1, <1>7 DEF Settle, Settled
  <2> QED  BY <1>3, <1>4, <1>7, <2>1, TokenInvAdvance
<1>8. CASE /\ Current(c)
           /\ e2.generation = entry.generation
           /\ e2.open_until \in {entry.open_until, NoTime}
           /\ \/ e2.open_until = NoTime /\ e2.probe_owner = NoProbe
              \/ e2.probe_owner = release_probe_owner(entry, token[c]).probe_owner
  <2>1. entry' = e2 /\ e2.next_probe_id = entry.next_probe_id
    BY <1>1, <1>8 DEF Settle, Settled
  <2>2. release_probe_owner(entry, token[c]).probe_owner =
          IF token[c].probe_id # NoProbe THEN NoProbe ELSE entry.probe_owner
    BY <1>2, <1>8, ReleaseFields DEF Current, attempt_token_matches
  <2>3. \A d \in Callers : SameGeneration(d)' => d # c /\ SameGeneration(d)
    BY <1>3, <1>5, <1>8, <2>1 DEF SameGeneration
  <2>4. TokenBound' /\ DistinctProbes'
    BY <1>5, <1>8, <2>1 DEF TokenInv, TokenBound, DistinctProbes
  <2>5. PlainTokens'
    BY <1>3, <1>8, <2>1, <2>3 DEF TokenInv, PlainTokens
  <2>6. ProbeTokens'
    <3> SUFFICES ASSUME NEW d \in Callers, SameGeneration(d)', token'[d].probe_id # NoProbe,
                        entry'.open_until # NoTime
                 PROVE  /\ entry'.open_until =< now'
                        /\ ~crossed' => entry'.probe_owner = token'[d].probe_id
      BY DEF ProbeTokens
    <3>1. /\ d # c /\ SameGeneration(d) /\ token'[d] = token[d]
          /\ entry'.open_until = entry.open_until
      BY <1>3, <1>8, <2>1, <2>3
    <3>2. /\ entry.open_until =< now
          /\ ~crossed => entry.probe_owner = token[d].probe_id
      BY <3>1 DEF TokenInv, ProbeTokens
    <3>3. ASSUME ~crossed' PROVE entry'.probe_owner = token'[d].probe_id
      <4>1. ~crossed /\ Young(c) /\ Young(d)
        BY <1>3, <1>8, <3>1, <3>3 DEF Young, SameGeneration
      <4>2. entry.probe_owner = token[d].probe_id
        BY <3>2, <4>1
      <4>3. token[c].probe_id = NoProbe
        BY <1>8, <3>1, <4>1, <4>2 DEF Current, attempt_token_matches, TokenInv, DistinctProbes
      <4> QED  BY <1>8, <2>1, <2>2, <3>1, <4>2, <4>3
    <3> QED  BY <1>3, <3>1, <3>2, <3>3
  <2>7. ProbeHeld'
    <3> SUFFICES ASSUME entry'.probe_owner # NoProbe
                 PROVE  \E d \in Callers :
                          Current(d)' /\ token'[d].probe_id = entry'.probe_owner
      BY DEF ProbeHeld
    <3>1. token[c].probe_id = NoProbe /\ entry'.probe_owner = entry.probe_owner
      BY <1>8, <2>1, <2>2
    <3>2. PICK d \in Callers : Current(d) /\ token[d].probe_id = entry.probe_owner
      BY <3>1 DEF TokenInv, ProbeHeld
    <3>3. d # c
      BY <3>1, <3>2
    <3> QED  BY <1>3, <1>8, <2>1, <3>1, <3>2, <3>3 DEF Current, attempt_token_matches
  <2> QED  BY <2>4, <2>5, <2>6, <2>7 DEF TokenInv
<1> QED  BY <1>1, <1>6, <1>7, <1>8 DEF Settled

\* After a purge no guard is young.
LEMMA TokenInvPurge ==
  ASSUME TypeOK, purge_provider, \A c \in Callers : born[c] =< purges
  PROVE  TokenInv'
<1>1. /\ entry' = DefaultEntry /\ purges' = purges + 1 /\ born' = born
      /\ purges \in Nat /\ \A c \in Callers : born[c] \in Nat
  BY DEF purge_provider, TypeOK
<1>2. \A c \in Callers : ~Young(c)'
  BY <1>1 DEF Young
<1>3. \A c \in Callers : ~SameGeneration(c)'
  BY <1>2 DEF SameGeneration
<1>4. entry'.probe_owner = NoProbe
  BY <1>1 DEF DefaultEntry
<1> QED  BY <1>2, <1>3, <1>4
         DEF TokenInv, TokenBound, DistinctProbes, PlainTokens, ProbeTokens, ProbeHeld

\* No guard was handed out after a purge yet to come.
BornBound == \A c \in Callers : born[c] =< purges

LEMMA BornStep == TypeOK /\ BornBound /\ [Next]_vars => BornBound'
<1> SUFFICES ASSUME TypeOK, BornBound, [Next]_vars PROVE BornBound'
  OBVIOUS
<1>0. purges \in Nat /\ born \in [Callers -> Nat]
  BY DEF TypeOK
<1>1. \/ UNCHANGED <<born, purges>>
      \/ born' = born /\ purges' = purges + 1
      \/ \E c \in Callers : born' = [born EXCEPT ![c] = purges] /\ purges' = purges
      \/ \E c \in Callers : born' = [born EXCEPT ![c] = 0] /\ purges' = purges
  BY DEF Next, vars, try_acquire_capacity, try_begin_attempt, Finish, finish_success,
         finish_failure, finish_neutral, Settle, release_capacity, reset, purge_provider,
         ToggleBreaker, Tick
<1> QED  BY <1>0, <1>1 DEF BornBound

LEMMA TokenInvStep ==
  TypeOK /\ TypeOK' /\ BornBound /\ TokenInv /\ [Next]_vars => TokenInv'
<1> SUFFICES ASSUME TypeOK, TypeOK', BornBound, TokenInv, [Next]_vars PROVE TokenInv'
  OBVIOUS
<1>0. /\ entry \in Entry /\ now \in Nat /\ clone \in [Callers -> BOOLEAN]
      /\ phase \in [Callers -> {"idle", "permit", "active", "done"}]
  BY DEF TypeOK
<1>1. ASSUME NEW c \in Callers, try_acquire_capacity(c) PROVE TokenInv'
  <2>1. /\ entry'.generation = entry.generation
        /\ entry'.next_probe_id = entry.next_probe_id
        /\ entry'.probe_owner = entry.probe_owner
        /\ entry'.open_until = entry.open_until
    BY <1>0, <1>1 DEF try_acquire_capacity, Entry
  <2>2. \A d \in Callers : /\ phase'[d] = "active" <=> phase[d] = "active"
                           /\ phase[d] = "active" => clone'[d] = clone[d]
    BY <1>0, <1>1 DEF try_acquire_capacity
  <2>3. now' = now /\ UNCHANGED <<token, born, purges, crossed>>
    BY <1>1 DEF try_acquire_capacity
  <2> QED  BY <1>0, <2>1, <2>2, <2>3, TokenInvFrame
<1>2. ASSUME NEW c \in Callers, release_capacity(c) PROVE TokenInv'
  <2>1. /\ entry'.generation = entry.generation
        /\ entry'.next_probe_id = entry.next_probe_id
        /\ entry'.probe_owner = entry.probe_owner
        /\ entry'.open_until = entry.open_until
    BY <1>0, <1>2 DEF release_capacity, Entry
  <2>2. \A d \in Callers : /\ phase'[d] = "active" <=> phase[d] = "active"
                           /\ phase[d] = "active" => clone'[d] = clone[d]
    BY <1>0, <1>2 DEF release_capacity
  <2>3. now' = now /\ UNCHANGED <<token, born, purges, crossed>>
    BY <1>2 DEF release_capacity
  <2> QED  BY <1>0, <2>1, <2>2, <2>3, TokenInvFrame
<1>3. CASE ToggleBreaker \/ Tick \/ UNCHANGED vars
  <2>1. /\ now' \in Nat /\ now' >= now
        /\ UNCHANGED <<entry, phase, clone, token, born, purges, crossed>>
    BY <1>0, <1>3 DEF ToggleBreaker, Tick, vars
  <2> QED  BY <2>1, TokenInvFrame
<1>4. CASE reset
  <2>1. /\ entry'.generation = entry.generation + 1
        /\ entry'.next_probe_id = entry.next_probe_id
        /\ entry'.probe_owner = NoProbe
    BY <1>0, <1>4, ResetFields DEF reset
  <2>2. UNCHANGED <<phase, token, born, purges>>
    BY <1>4 DEF reset
  <2> QED  BY <2>1, <2>2, TokenInvAdvance
<1>5. CASE purge_provider
  BY <1>5, TokenInvPurge DEF BornBound
<1> QED  BY <1>1, <1>2, <1>3, <1>4, <1>5, TokenInvBegin, TokenInvFinish DEF Next

\* The invariant that ties every guard to the entry it was handed out for.
THEOREM TokenInvariant == Spec => []TokenInv
<1>1. Init => TypeOK /\ BornBound /\ TokenInv
  BY TypeInit, TokenInvInit DEF Init, BornBound
<1>2. TypeOK /\ BornBound /\ TokenInv /\ [Next]_vars => (TypeOK /\ BornBound /\ TokenInv)'
  BY TypeStep, BornStep, TokenInvStep
<1> QED  BY <1>1, <1>2, PTL DEF Spec

-----------------------------------------------------------------------------
(* The properties that the run checks on a small instance.                 *)

LEMMA SingleProbeFromInv == TokenInv => SingleProbe
<1> SUFFICES ASSUME TokenInv, entry.open_until # NoTime, ~crossed,
                    NEW c \in Callers, NEW d \in Callers,
                    SameGeneration(c), SameGeneration(d)
             PROVE  c = d
  BY DEF SingleProbe, SameGeneration, Young, Trusted
<1>1. token[c].probe_id # NoProbe /\ token[d].probe_id # NoProbe
  BY DEF TokenInv, PlainTokens
<1>2. entry.probe_owner = token[c].probe_id /\ entry.probe_owner = token[d].probe_id
  BY <1>1 DEF TokenInv, ProbeTokens
<1> QED  BY <1>1, <1>2 DEF TokenInv, DistinctProbes, SameGeneration

\* At most one caller that sees the breaker on is under way for a provider
\* whose breaker is not closed, unless a guard that outlived a purge has
\* settled the new entry.
THEOREM SingleProbeHolds == Spec => []SingleProbe
BY TokenInvariant, SingleProbeFromInv, PTL

\* A claimed probe is held by a caller that can still give it back, purges,
\* resets, switches of the breaker and left-over guards included.
THEOREM ProbeHeldHolds == Spec => []ProbeHeld
<1>1. TokenInv => ProbeHeld
  BY DEF TokenInv
<1> QED  BY <1>1, TokenInvariant, PTL

\* A probe's success closes the breaker only as the threshold-th in a row.
LEMMA SuccessEarns ==
  ASSUME NEW e \in Entry, NEW tok \in Token, NEW t \in Nat,
         circuit_state(TRUE, e, t) = "half_open",
         after_success(TRUE, e, tok, t).open_until # e.open_until
  PROVE  e.half_open_successes + 1 >= HalfOpenThreshold
<1> DEFINE r == release_probe_owner(e, tok)
           n == e.half_open_successes + 1
<1>1. r \in Entry /\ r.open_until = e.open_until /\ n \in Nat
  BY ReleaseFields DEF Entry
<1>2. CASE n >= MaxOf(HalfOpenThreshold, 1)
  BY <1>1, <1>2, ProviderEntryAssumption DEF MaxOf
<1>3. CASE ~(n >= MaxOf(HalfOpenThreshold, 1))
  <2>1. after_success(TRUE, e, tok, t) = [r EXCEPT !.half_open_successes = n]
    BY <1>3 DEF after_success
  <2> HIDE DEF r, n
  <2>2. [r EXCEPT !.half_open_successes = n].open_until = e.open_until
    BY <1>1 DEF Entry
  <2> QED  BY <2>1, <2>2
<1> QED  BY <1>2, <1>3

\* The guard that brings an open breaker's end nearer was current, so the
\* invariant says it was the probe of a cooled breaker.
LEMMA RecoveryStep ==
  ASSUME TypeOK, TokenInv, Next, entry.open_until # NoTime,
         entry'.open_until < entry.open_until
  PROVE  \/ reset
         \/ purge_provider
         \/ \E c \in Callers : Finish(c) /\ ~Trusted(c)
         \/ \E c \in Callers :
              /\ finish_success(c)
              /\ token[c].probe_id = entry.probe_owner
              /\ entry.open_until =< now
              /\ entry.half_open_successes + 1 >= HalfOpenThreshold
<1>0. entry \in Entry /\ now \in Nat /\ entry.open_until \in Nat
  BY DEF TypeOK, Entry
<1>1. ASSUME entry'.open_until = entry.open_until PROVE FALSE
  BY <1>0, <1>1
<1>2. ASSUME NEW c \in Callers, try_acquire_capacity(c) \/ release_capacity(c) PROVE FALSE
  <2>1. entry'.open_until = entry.open_until
    BY <1>0, <1>2 DEF try_acquire_capacity, release_capacity, Entry
  <2> QED  BY <1>1, <2>1
<1>3. ASSUME NEW c \in Callers, try_begin_attempt(c) PROVE FALSE
  <2>1. entry' = after_begin(clone[c], entry, now) /\ clone[c] \in BOOLEAN
    BY <1>3 DEF try_begin_attempt, TypeOK
  <2> QED  BY <1>0, <1>1, <2>1, BeginFields
<1>4. CASE ToggleBreaker \/ Tick
  BY <1>1, <1>4 DEF ToggleBreaker, Tick
<1>5. ASSUME NEW c \in Callers, Finish(c), Trusted(c)
      PROVE  /\ finish_success(c)
             /\ token[c].probe_id = entry.probe_owner
             /\ entry.open_until =< now
             /\ entry.half_open_successes + 1 >= HalfOpenThreshold
  <2>1. token[c] \in Token /\ clone[c] = TRUE /\ clone[c] \in BOOLEAN
    BY <1>5 DEF TypeOK, Trusted
  <2>2. Current(c)
    BY <1>1, <1>5 DEF Finish, finish_success, finish_failure, finish_neutral, Settle
  <2>3. SameGeneration(c)
    BY <1>5, <2>2 DEF SameGeneration, Young, Trusted, Current, attempt_token_matches
  <2>4. token[c].probe_id # NoProbe
    BY <2>3 DEF TokenInv, PlainTokens
  <2>5. entry.open_until =< now /\ token[c].probe_id = entry.probe_owner
    BY <2>2, <2>3, <2>4 DEF TokenInv, ProbeTokens, Current, attempt_token_matches
  <2>6. circuit_state(TRUE, entry, now) = "half_open"
    BY <1>0, <2>5 DEF circuit_state
  <2>7. ASSUME finish_neutral(c) PROVE FALSE
    <3>1. entry' = release_probe_owner(entry, token[c])
      BY <2>2, <2>7 DEF finish_neutral, Settle
    <3> QED  BY <1>0, <1>1, <2>1, <3>1, ReleaseFields
  <2>8. ASSUME finish_failure(c) PROVE FALSE
    <3>1. entry' = after_failure(TRUE, entry, token[c], now)
      BY <2>1, <2>2, <2>8 DEF finish_failure, Settle
    <3>2. entry'.open_until > now /\ entry'.open_until \in Nat \cup {NoTime}
      BY <1>0, <2>1, <2>6, <3>1, FailureSettles DEF Settled, Entry
    <3> QED  BY <1>0, <2>5, <3>2 DEF NoTime
  <2>9. finish_success(c)
    BY <1>5, <2>7, <2>8 DEF Finish
  <2>10. entry' = after_success(TRUE, entry, token[c], now)
    BY <2>1, <2>2, <2>9 DEF finish_success, Settle
  <2> QED  BY <1>0, <1>1, <2>1, <2>5, <2>6, <2>9, <2>10, SuccessEarns
<1> QED  BY <1>2, <1>3, <1>4, <1>5 DEF Next

\* An open breaker's end is brought nearer only by the administrator, by a
\* caller that does not see this breaker, or by the last of the required
\* successful probes after it has cooled.
THEOREM EarnedRecoveryHolds == Spec => EarnedRecovery
<1>1. TypeOK /\ TokenInv /\ [Next]_vars =>
        [entry.open_until # NoTime /\ entry'.open_until < entry.open_until =>
           \/ reset
           \/ purge_provider
           \/ \E c \in Callers : Finish(c) /\ ~Trusted(c)
           \/ \E c \in Callers :
                /\ finish_success(c)
                /\ token[c].probe_id = entry.probe_owner
                /\ entry.open_until =< now
                /\ entry.half_open_successes + 1 >= HalfOpenThreshold]_vars
  BY RecoveryStep
<1> QED  BY <1>1, TypeCorrect, TokenInvariant, PTL DEF Spec, EarnedRecovery
============================================================================
