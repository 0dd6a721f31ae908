------------------------- MODULE HealthBookProofs -------------------------
(***************************************************************************)
(* Proofs about HealthBook for every set of ids and attempts, every        *)
(* threshold and duration, and every value of the bounds.                  *)
(***************************************************************************)
EXTENDS HealthBook, TLAPS

\* A cooldown is a positive stretch of time whatever was configured.
LEMMA CooldownPositive ==
  ASSUME NEW c \in Nat, NEW n \in Nat
  PROVE  cooldown(c, n) \in Nat \ {0}
<1> DEFINE base == MaxOf(c, CooldownBase)
           k == MinOf(MaxOf(n, 1), 11)
<1>1. base \in Nat \ {0}
  BY CooldownAssumption DEF MaxOf
<1>2. k \in 1 .. 11
  BY DEF MaxOf, MinOf
<1>3. Backoff(n) \in Nat \ {0}
  <2>1. Backoff(n) = Doubling[k]
    BY DEF Backoff
  <2>2. \A i \in 1 .. 11 : Doubling[i] \in Nat \ {0}
    BY DEF Doubling
  <2> QED  BY <2>1, <2>2, <1>2
<1>4. base * Backoff(n) \in Nat \ {0}
  <2> HIDE DEF base
  <2> QED  BY <1>1, <1>3
<1>5. MaxOf(CooldownMax, base) \in Nat \ {0}
  BY <1>1, CooldownAssumption DEF MaxOf
<1> HIDE DEF base, k
<1>6. MinOf(base * Backoff(n), MaxOf(CooldownMax, base)) \in Nat \ {0}
  BY <1>4, <1>5 DEF MinOf
<1> QED  BY <1>6 DEF cooldown, base

-----------------------------------------------------------------------------
(* What the operations on one entry return.                                *)

LEMMA AdvanceType ==
  ASSUME NEW x \in Entry
  PROVE  advance_generation(x) \in Entry
<1> DEFINE g == x.generation + 1
<1>1. g \in Nat
  BY DEF Entry
<1>2. advance_generation(x) = [x EXCEPT !.generation = g, !.probe_owner = NoProbe]
  BY DEF advance_generation
<1> HIDE DEF g
<1>3. [x EXCEPT !.generation = g, !.probe_owner = NoProbe] \in Entry
  BY <1>1 DEF Entry, NoProbe
<1> QED  BY <1>2, <1>3

LEMMA EntryOps ==
  ASSUME NEW e \in Entry, NEW tok \in Token, NEW t \in Nat
  PROVE  /\ release_probe_owner(e, tok) \in Entry
         /\ advance_generation(e) \in Entry
         /\ after_success(e, tok, t) \in Entry
         /\ after_failure(e, tok, t) \in Entry
<1>1. release_probe_owner(e, tok) \in Entry
  BY DEF release_probe_owner, Entry, Token, NoProbe
<1>2. \A x \in Entry : advance_generation(x) \in Entry
  BY AdvanceType
<1>3. after_success(e, tok, t) \in Entry
  <2> DEFINE closed == [release_probe_owner(e, tok) EXCEPT
                          !.consecutive_failures = 0, !.open_until = NoTime]
  <2>1. closed \in Entry
    BY <1>1 DEF Entry
  <2> QED  BY <1>2, <2>1 DEF after_success
<1>4. after_failure(e, tok, t) \in Entry
  <2> DEFINE failures == e.consecutive_failures + 1
             configured == IF failures >= MaxOf(FailureThreshold, 1)
                                \/ state_kind(e, t) = "half_open"
                             THEN MaxOf(OpenDuration, 1) ELSE 0
             opened == [release_probe_owner(e, tok) EXCEPT
                          !.consecutive_failures = failures,
                          !.open_until = t + cooldown(configured, failures)]
  <2>1. failures \in Nat
    BY DEF Entry
  <2>2. configured \in Nat
    BY HealthEntryAssumption DEF MaxOf
  <2>3. cooldown(configured, failures) \in Nat
    <3> HIDE DEF failures, configured
    <3> QED  BY <2>1, <2>2, CooldownPositive
  <2>4. opened \in Entry
    <3> DEFINE end == t + cooldown(configured, failures)
    <3>1. end \in Nat
      <4> HIDE DEF failures, configured
      <4> QED  BY <2>3
    <3>2. opened = [release_probe_owner(e, tok) EXCEPT
                      !.consecutive_failures = failures, !.open_until = end]
      OBVIOUS
    <3> HIDE DEF failures, configured, end, opened
    <3> QED  BY <1>1, <2>1, <3>1, <3>2 DEF Entry
  <2>5. after_failure(e, tok, t) = advance_generation(opened)
    BY DEF after_failure
  <2> QED  BY <1>2, <2>4, <2>5
<1> QED  BY <1>1, <1>2, <1>3, <1>4

LEMMA ReleaseFields ==
  ASSUME NEW e \in Entry, NEW tok \in Token
  PROVE  LET r == release_probe_owner(e, tok) IN
         /\ r.generation = e.generation
         /\ r.consecutive_failures = e.consecutive_failures
         /\ r.open_until = e.open_until
         /\ r.probe_owner = IF tok.probe_id # NoProbe /\ e.probe_owner = tok.probe_id
                              THEN NoProbe ELSE e.probe_owner
BY DEF release_probe_owner, Entry, Token

LEMMA AdvanceFields ==
  ASSUME NEW e \in Entry
  PROVE  LET r == advance_generation(e) IN
         /\ r.generation = e.generation + 1
         /\ r.consecutive_failures = e.consecutive_failures
         /\ r.open_until = e.open_until
         /\ r.probe_owner = NoProbe
BY DEF advance_generation, Entry

LEMMA SuccessFields ==
  ASSUME NEW e \in Entry, NEW tok \in Token, NEW t \in Nat
  PROVE  LET r == after_success(e, tok, t) IN
         /\ r.consecutive_failures = 0
         /\ r.open_until = NoTime
         /\ state_kind(e, t) = "half_open" =>
              r.generation = e.generation + 1 /\ r.probe_owner = NoProbe
         /\ state_kind(e, t) # "half_open" =>
              /\ r.generation = e.generation
              /\ r.probe_owner = release_probe_owner(e, tok).probe_owner
<1> DEFINE rel == release_probe_owner(e, tok)
           closed == [rel EXCEPT !.consecutive_failures = 0, !.open_until = NoTime]
<1>1. rel \in Entry /\ rel.generation = e.generation
  BY EntryOps, ReleaseFields
<1> HIDE DEF rel
<1>2. /\ closed \in Entry
      /\ closed.generation = rel.generation
      /\ closed.probe_owner = rel.probe_owner
      /\ closed.consecutive_failures = 0
      /\ closed.open_until = NoTime
  BY <1>1 DEF Entry
<1>3. after_success(e, tok, t) =
        IF state_kind(e, t) = "half_open" THEN advance_generation(closed) ELSE closed
  BY DEF after_success, rel
<1> HIDE DEF closed
<1> QED  BY <1>1, <1>2, <1>3, AdvanceFields DEF rel

LEMMA FailureFields ==
  ASSUME NEW e \in Entry, NEW tok \in Token, NEW t \in Nat
  PROVE  LET r == after_failure(e, tok, t) IN
         /\ r.generation = e.generation + 1
         /\ r.probe_owner = NoProbe
         /\ r.open_until \in Nat
         /\ r.open_until > t
<1> DEFINE failures == e.consecutive_failures + 1
           configured == IF failures >= MaxOf(FailureThreshold, 1)
                              \/ state_kind(e, t) = "half_open"
                           THEN MaxOf(OpenDuration, 1) ELSE 0
           end == t + cooldown(configured, failures)
           rel == release_probe_owner(e, tok)
           opened == [rel EXCEPT !.consecutive_failures = failures, !.open_until = end]
<1>1. after_failure(e, tok, t) = advance_generation(opened)
  BY DEF after_failure
<1>2. failures \in Nat /\ configured \in Nat
  BY HealthEntryAssumption DEF MaxOf, Entry
<1> HIDE DEF failures, configured
<1>3. end \in Nat /\ end > t
  <2> DEFINE d == cooldown(configured, failures)
  <2>1. d \in Nat \ {0}
    BY <1>2, CooldownPositive
  <2>2. end = t + d
    OBVIOUS
  <2> HIDE DEF d, end
  <2> QED  BY <2>1, <2>2
<1>4. rel \in Entry /\ rel.generation = e.generation
  BY EntryOps, ReleaseFields
<1> HIDE DEF rel, end
<1>5. /\ opened \in Entry
      /\ opened.generation = rel.generation
      /\ opened.open_until = end
  BY <1>2, <1>3, <1>4 DEF Entry
<1> HIDE DEF opened
<1> QED  BY <1>1, <1>3, <1>4, <1>5, AdvanceFields

LEMMA ResetFields ==
  ASSUME NEW e \in Entry
  PROVE  LET r == after_reset(e) IN
         /\ r \in Entry
         /\ r.generation = e.generation + 1
         /\ r.probe_owner = NoProbe
         /\ r.consecutive_failures = 0
         /\ r.open_until = NoTime
<1> DEFINE x == advance_generation(e)
<1>1. x \in Entry /\ x.generation = e.generation + 1 /\ x.probe_owner = NoProbe
  BY AdvanceType, AdvanceFields
<1>2. after_reset(e) = [x EXCEPT !.consecutive_failures = 0, !.open_until = NoTime]
  BY DEF after_reset
<1> DEFINE y == [x EXCEPT !.consecutive_failures = 0, !.open_until = NoTime]
<1> HIDE DEF x
<1>3. /\ y \in Entry
      /\ y.generation = x.generation
      /\ y.probe_owner = x.probe_owner
      /\ y.consecutive_failures = 0
      /\ y.open_until = NoTime
  BY <1>1 DEF Entry
<1> HIDE DEF y
<1> QED  BY <1>1, <1>2, <1>3 DEF y

LEMMA DeferFields ==
  ASSUME NEW e \in Entry, NEW until \in Nat
  PROVE  LET r == after_defer(e, until) IN
         /\ r \in Entry
         /\ r.generation = e.generation + 1
         /\ r.probe_owner = NoProbe
         /\ r.open_until \in Nat
         /\ r.open_until >= e.open_until
<1> DEFINE x == advance_generation(e)
           end == MaxOf(MaxOf(e.open_until, 0), until)
<1>1. x \in Entry /\ x.generation = e.generation + 1 /\ x.probe_owner = NoProbe
  BY AdvanceType, AdvanceFields
<1>2. end \in Nat /\ end >= e.open_until
  BY DEF MaxOf, Entry, NoTime
<1>3. after_defer(e, until) = [x EXCEPT !.open_until = end]
  BY DEF after_defer
<1> HIDE DEF x, end
<1> QED  BY <1>1, <1>2, <1>3 DEF Entry

-----------------------------------------------------------------------------
(* Type correctness.                                                       *)

LEMMA CallerClockType ==
  ASSUME now \in Nat, NEW t \in CallerClock
  PROVE  t \in Nat /\ t =< now
BY HealthAssumption DEF CallerClock, MaxOf

LEMMA TypeInit == Init => TypeOK
BY DEF Init, TypeOK, Entry, Token, DefaultEntry, NoTime, NoProbe

LEMMA TypeStep == TypeOK /\ [Next]_vars => TypeOK'
<1> SUFFICES ASSUME TypeOK, [Next]_vars PROVE TypeOK'
  OBVIOUS
<1> USE DEF TypeOK
<1>1. ASSUME NEW a \in Attempts, NEW t \in CallerClock, try_begin_attempt(a, t)
      PROVE  TypeOK'
  <2> DEFINE e == book[target[a]]
             probing == state_kind(e, t) = "half_open"
             probe == IF probing THEN e.next_probe_id + 1 ELSE NoProbe
             e2 == IF probing THEN [e EXCEPT !.next_probe_id = probe,
                                             !.probe_owner = probe] ELSE e
  <2>1. e \in Entry /\ probe \in Nat
    BY DEF Entry, NoProbe
  <2>2. book' = [book EXCEPT ![target[a]] = e2]
    BY <1>1 DEF try_begin_attempt, after_begin, begin_token
  <2>3. token' = [token EXCEPT ![a] = [generation |-> e.generation, probe_id |-> probe]]
    BY <1>1 DEF try_begin_attempt, begin_token
  <2>4. phase' = [phase EXCEPT ![a] = "active"] /\ UNCHANGED <<now, target>>
    BY <1>1 DEF try_begin_attempt
  <2> HIDE DEF e, probe, probing
  <2>5. e2 \in Entry
    BY <2>1 DEF Entry
  <2>6. [generation |-> e.generation, probe_id |-> probe] \in Token
    BY <2>1 DEF Entry, Token
  <2> HIDE DEF e2
  <2> QED  BY <2>2, <2>3, <2>4, <2>5, <2>6
<1>2. ASSUME NEW a \in Attempts, Finish(a)
      PROVE  TypeOK'
  <2>1. ASSUME NEW e \in Entry, Settle(a, e) PROVE TypeOK'
    BY <2>1 DEF Settle
  <2>2. book[target[a]] \in Entry /\ token[a] \in Token
    OBVIOUS
  <2> QED  BY <1>2, <2>1, <2>2, EntryOps, CallerClockType
           DEF Finish, finish_success, finish_failure, finish_neutral
<1>3. ASSUME NEW id \in Ids, reset(id) PROVE TypeOK'
  BY <1>3, ResetFields DEF reset
<1>4. ASSUME NEW id \in Ids, NEW until \in 0 .. MaxClock, defer_until(id, until)
      PROVE  TypeOK'
  BY <1>4, DeferFields, HealthAssumption DEF defer_until
<1>5. CASE Tick
  BY <1>5 DEF Tick
<1>6. CASE UNCHANGED vars
  BY <1>6 DEF vars
<1> QED  BY <1>1, <1>2, <1>3, <1>4, <1>5, <1>6 DEF Next

\* Every reachable state of the book and its guards is well typed, whatever
\* order begin, settlement, reset, defer_until and time come in.
THEOREM TypeCorrect == Spec => []TypeOK
BY TypeInit, TypeStep, PTL DEF Spec

-----------------------------------------------------------------------------
(* The token invariant.                                                    *)

\* A step that moves an entry to its next generation and hands out no token
\* makes every guard of that entry stale, so nothing about guards can break.
LEMMA NewGeneration ==
  ASSUME TypeOK, TypeOK', TokenInv,
         NEW id \in Ids, NEW e \in Entry,
         e.generation = book[id].generation + 1,
         e.probe_owner = NoProbe,
         e.open_until = NoTime => e.consecutive_failures = 0,
         book' = [book EXCEPT ![id] = e],
         \A b \in Attempts : phase'[b] = "active" => phase[b] = "active",
         \A b \in Attempts : phase[b] = "active" /\ target[b] # id => phase'[b] = "active",
         UNCHANGED <<now, target, token>>
  PROVE  TokenInv'
<1> USE DEF TypeOK, SameGeneration
<1>1. book'[id] = e /\ \A i \in Ids : i # id => book'[i] = book[i]
  OBVIOUS
<1>2. \A b \in Attempts : SameGeneration(b)' => target[b] # id /\ SameGeneration(b)
  BY <1>1 DEF TokenInv, GenerationBound, Entry, Token
<1>3. GenerationBound'
  BY <1>1 DEF TokenInv, GenerationBound, Entry, Token
<1>4. PlainTokens'
  BY <1>1, <1>2 DEF TokenInv, PlainTokens
<1>5. ProbeTokens'
  BY <1>1, <1>2 DEF TokenInv, ProbeTokens
<1>6. OneProbe'
  BY <1>2 DEF TokenInv, OneProbe
<1>7. ProbeHeld'
  <2> SUFFICES ASSUME NEW i \in Ids, book'[i].probe_owner # NoProbe
               PROVE  \E a \in Current(i)' : token'[a].probe_id = book'[i].probe_owner
    BY DEF ProbeHeld
  <2>1. i # id /\ book'[i] = book[i]
    BY <1>1
  <2>2. PICK a \in Current(i) : token[a].probe_id = book[i].probe_owner
    BY <2>1 DEF TokenInv, ProbeHeld
  <2>3. a \in Current(i)'
    BY <2>1, <2>2 DEF Current, is_current, attempt_token_matches
  <2> QED  BY <2>1, <2>2, <2>3
<1>8. ClosedForgets'
  BY <1>1 DEF TokenInv, ClosedForgets
<1> QED  BY <1>3, <1>4, <1>5, <1>6, <1>7, <1>8 DEF TokenInv

LEMMA TokenInvInit == Init => TokenInv
BY DEF Init, TokenInv, GenerationBound, PlainTokens, ProbeTokens, OneProbe, ProbeHeld,
       ClosedForgets, SameGeneration, DefaultEntry

\* Handing out a guard: plain while the breaker is closed, the one probe while
\* it is half open and unclaimed.
LEMMA TokenInvBegin ==
  ASSUME TypeOK, TypeOK', TokenInv,
         NEW a \in Attempts, NEW t \in CallerClock, try_begin_attempt(a, t)
  PROVE  TokenInv'
<1> DEFINE id == target[a]
           e == book[id]
           probing == state_kind(e, t) = "half_open"
           probe == IF probing THEN e.next_probe_id + 1 ELSE NoProbe
           e2 == IF probing THEN [e EXCEPT !.next_probe_id = probe,
                                           !.probe_owner = probe] ELSE e
<1> USE DEF TypeOK
<1>1. id \in Ids /\ e \in Entry /\ t \in Nat /\ t =< now
  BY CallerClockType
<1>2. /\ phase[a] = "new"
      /\ phase' = [phase EXCEPT ![a] = "active"]
      /\ token' = [token EXCEPT ![a] = [generation |-> e.generation, probe_id |-> probe]]
      /\ book' = [book EXCEPT ![id] = e2]
      /\ now' = now /\ target' = target
  BY DEF try_begin_attempt, after_begin, begin_token
<1>3. /\ probing => e.open_until # NoTime /\ e.open_until =< now
      /\ probing => e.probe_owner = NoProbe
      /\ ~probing => e.open_until = NoTime
  BY <1>1 DEF try_begin_attempt, available, state_kind, Entry
<1>4. probe \in Nat /\ (probing <=> probe # NoProbe)
  BY <1>1 DEF Entry, NoProbe
<1> HIDE DEF probe, probing
<1>5. /\ e2.generation = e.generation
      /\ e2.open_until = e.open_until
      /\ e2.consecutive_failures = e.consecutive_failures
      /\ probing => e2.probe_owner = probe
      /\ ~probing => e2 = e
  BY <1>1 DEF Entry
<1> HIDE DEF e2
<1>6. book'[id] = e2 /\ \A i \in Ids : i # id => book'[i] = book[i]
  BY <1>1, <1>2
<1>7. /\ phase'[a] = "active" /\ token'[a].generation = e.generation
      /\ token'[a].probe_id = probe
      /\ \A b \in Attempts : b # a => phase'[b] = phase[b] /\ token'[b] = token[b]
  BY <1>2
<1>8. \A b \in Attempts : b # a => (SameGeneration(b)' <=> SameGeneration(b))
  BY <1>2, <1>5, <1>6, <1>7 DEF SameGeneration
<1>9. \A b \in Attempts : SameGeneration(b) /\ target[b] = id /\ probing =>
         token[b].probe_id = NoProbe
  BY <1>3 DEF TokenInv, ProbeTokens
<1>10. \A b \in Attempts : SameGeneration(b) /\ target[b] = id =>
          (probing => FALSE)
  BY <1>3, <1>9 DEF TokenInv, PlainTokens
<1> HIDE DEF e, id
<1>11. GenerationBound'
  BY <1>1, <1>2, <1>5, <1>6, <1>7 DEF TokenInv, GenerationBound, Entry, e, id
<1>12. PlainTokens'
  BY <1>2, <1>3, <1>4, <1>5, <1>6, <1>7, <1>8 DEF TokenInv, PlainTokens, e, id
<1>13. ProbeTokens'
  BY <1>2, <1>3, <1>4, <1>5, <1>6, <1>7, <1>8, <1>10 DEF TokenInv, ProbeTokens, e, id
<1>14. OneProbe'
  BY <1>2, <1>4, <1>7, <1>8, <1>10 DEF TokenInv, OneProbe, id
<1>15. ProbeHeld'
  <2> SUFFICES ASSUME NEW i \in Ids, book'[i].probe_owner # NoProbe
               PROVE  \E b \in Current(i)' : token'[b].probe_id = book'[i].probe_owner
    BY DEF ProbeHeld
  <2>1. CASE i = id /\ probing
    <3>1. a \in Current(i)'
      BY <2>1, <1>2, <1>5, <1>6, <1>7
         DEF Current, is_current, attempt_token_matches, id
    <3> QED  BY <2>1, <3>1, <1>5, <1>6, <1>7
  <2>2. CASE ~(i = id /\ probing)
    <3>1. book'[i] = book[i]
      BY <2>2, <1>5, <1>6 DEF e
    <3>2. PICK b \in Current(i) : token[b].probe_id = book[i].probe_owner
      BY <3>1 DEF TokenInv, ProbeHeld
    <3>3. b \in Attempts /\ b # a
      BY <3>2, <1>2 DEF Current
    <3>4. b \in Current(i)'
      BY <3>1, <3>2, <3>3, <1>2, <1>7 DEF Current, is_current, attempt_token_matches
    <3> QED  BY <3>1, <3>2, <3>3, <3>4, <1>7
  <2> QED  BY <2>1, <2>2
<1>16. ClosedForgets'
  BY <1>5, <1>6 DEF TokenInv, ClosedForgets, e, id
<1> QED  BY <1>11, <1>12, <1>13, <1>14, <1>15, <1>16 DEF TokenInv

\* A current guard settled within its generation: it was the only probe, and
\* gives the claim back, or the breaker was closed and stays so.
LEMMA TokenInvRelease ==
  ASSUME TypeOK, TypeOK', TokenInv,
         NEW a \in Attempts, NEW e2 \in Entry, Settle(a, e2), is_current(a),
         e2.generation = book[target[a]].generation,
         e2.probe_owner = release_probe_owner(book[target[a]], token[a]).probe_owner,
         e2.open_until = book[target[a]].open_until \/ e2.open_until = NoTime,
         e2.open_until = NoTime => e2.consecutive_failures = 0
  PROVE  TokenInv'
<1> DEFINE id == target[a]
           e == book[id]
<1> USE DEF TypeOK
<1>1. id \in Ids /\ e \in Entry /\ token[a] \in Token
  OBVIOUS
<1>2. /\ phase[a] = "active" /\ SameGeneration(a)
      /\ token[a].probe_id # NoProbe => e.probe_owner = token[a].probe_id
      /\ phase' = [phase EXCEPT ![a] = "settled"]
      /\ book' = [book EXCEPT ![id] = e2]
      /\ now' = now /\ target' = target /\ token' = token
  BY DEF Settle, is_current, attempt_token_matches, SameGeneration
<1>3. e2.probe_owner = IF token[a].probe_id # NoProbe THEN NoProbe ELSE e.probe_owner
  BY <1>1, <1>2, ReleaseFields
<1>4. book'[id] = e2 /\ \A i \in Ids : i # id => book'[i] = book[i]
  BY <1>1, <1>2
<1>5. phase'[a] = "settled" /\ \A b \in Attempts : b # a => phase'[b] = phase[b]
  BY <1>2
<1>6. \A b \in Attempts : SameGeneration(b)' => b # a /\ SameGeneration(b)
  BY <1>2, <1>4, <1>5 DEF SameGeneration
<1>7. CASE token[a].probe_id # NoProbe
  <2>1. \A b \in Attempts : SameGeneration(b)' => target[b] # id
    BY <1>2, <1>6, <1>7 DEF TokenInv, PlainTokens, ProbeTokens, OneProbe
  <2>2. GenerationBound'
    BY <1>2, <1>4, <1>5 DEF TokenInv, GenerationBound
  <2>3. PlainTokens' /\ ProbeTokens' /\ OneProbe'
    BY <1>2, <1>4, <1>6, <2>1 DEF TokenInv, PlainTokens, ProbeTokens, OneProbe
  <2>4. ProbeHeld'
    <3> SUFFICES ASSUME NEW i \in Ids, book'[i].probe_owner # NoProbe
                 PROVE  \E b \in Current(i)' : token'[b].probe_id = book'[i].probe_owner
      BY DEF ProbeHeld
    <3>1. i # id /\ book'[i] = book[i]
      BY <1>3, <1>4, <1>7
    <3>2. PICK b \in Current(i) : token[b].probe_id = book[i].probe_owner
      BY <3>1 DEF TokenInv, ProbeHeld
    <3>3. b \in Current(i)'
      BY <1>2, <1>5, <3>1, <3>2 DEF Current, is_current, attempt_token_matches
    <3> QED  BY <1>2, <3>1, <3>2, <3>3
  <2>5. ClosedForgets'
    BY <1>4 DEF TokenInv, ClosedForgets
  <2> QED  BY <2>2, <2>3, <2>4, <2>5 DEF TokenInv
<1>8. CASE token[a].probe_id = NoProbe
  <2>1. e.open_until = NoTime /\ e2.open_until = NoTime /\ e2.probe_owner = e.probe_owner
    BY <1>2, <1>3, <1>8 DEF TokenInv, PlainTokens
  <2>2. GenerationBound'
    BY <1>2, <1>4, <1>5 DEF TokenInv, GenerationBound
  <2>3. PlainTokens' /\ ProbeTokens' /\ OneProbe'
    BY <1>2, <1>4, <1>6, <2>1 DEF TokenInv, PlainTokens, ProbeTokens, OneProbe
  <2>4. ProbeHeld'
    <3> SUFFICES ASSUME NEW i \in Ids, book'[i].probe_owner # NoProbe
                 PROVE  \E b \in Current(i)' : token'[b].probe_id = book'[i].probe_owner
      BY DEF ProbeHeld
    <3>1. book'[i].probe_owner = book[i].probe_owner
          /\ book'[i].generation = book[i].generation
      BY <1>4, <2>1
    <3>2. PICK b \in Current(i) : token[b].probe_id = book[i].probe_owner
      BY <3>1 DEF TokenInv, ProbeHeld
    <3>3. b \in Attempts /\ b # a
      BY <1>8, <3>1, <3>2 DEF Current
    <3>4. b \in Current(i)'
      BY <1>2, <1>5, <3>1, <3>2, <3>3 DEF Current, is_current, attempt_token_matches
    <3> QED  BY <1>2, <3>1, <3>2, <3>4
  <2>5. ClosedForgets'
    BY <1>4 DEF TokenInv, ClosedForgets
  <2> QED  BY <2>2, <2>3, <2>4, <2>5 DEF TokenInv
<1> QED  BY <1>7, <1>8

\* A stale guard settled, or time passing: the book itself is untouched.
LEMMA TokenInvStale ==
  ASSUME TypeOK, TypeOK', TokenInv,
         NEW a \in Attempts, NEW e2, Settle(a, e2), ~is_current(a)
  PROVE  TokenInv'
<1> USE DEF TypeOK
<1>1. /\ phase' = [phase EXCEPT ![a] = "settled"]
      /\ book' = book /\ now' = now /\ target' = target /\ token' = token
  BY DEF Settle
<1>2. \A b \in Attempts : phase'[b] = "active" => b # a /\ phase[b] = "active"
  BY <1>1
<1>3. \A b \in Attempts : SameGeneration(b)' => SameGeneration(b)
  BY <1>1, <1>2 DEF SameGeneration
<1>4. GenerationBound'
  BY <1>1, <1>2 DEF TokenInv, GenerationBound
<1>5. PlainTokens' /\ ProbeTokens' /\ OneProbe'
  BY <1>1, <1>3 DEF TokenInv, PlainTokens, ProbeTokens, OneProbe
<1>6. ProbeHeld'
  <2>1. \A i \in Ids : \A b \in Current(i) : b \in Current(i)'
    BY <1>1 DEF Current, is_current, attempt_token_matches
  <2> QED  BY <1>1, <2>1 DEF TokenInv, ProbeHeld
<1>7. ClosedForgets'
  BY <1>1 DEF TokenInv, ClosedForgets
<1> QED  BY <1>4, <1>5, <1>6, <1>7 DEF TokenInv

LEMMA TokenInvFinish ==
  ASSUME TypeOK, TypeOK', TokenInv, NEW a \in Attempts, Finish(a)
  PROVE  TokenInv'
<1> DEFINE id == target[a]
           e == book[id]
           tok == token[a]
<1>0. id \in Ids /\ e \in Entry /\ tok \in Token
  BY DEF TypeOK
<1>1. ASSUME NEW e2 \in Entry, Settle(a, e2), is_current(a),
             e2.generation = e.generation + 1,
             e2.probe_owner = NoProbe,
             e2.open_until = NoTime => e2.consecutive_failures = 0
      PROVE  TokenInv'
  <2>1. /\ book' = [book EXCEPT ![id] = e2]
        /\ phase' = [phase EXCEPT ![a] = "settled"]
        /\ UNCHANGED <<now, target, token>>
    BY <1>1 DEF Settle
  <2>2. \A b \in Attempts : phase'[b] = "active" => phase[b] = "active"
    BY <2>1 DEF TypeOK
  <2>3. \A b \in Attempts : phase[b] = "active" /\ target[b] # id => phase'[b] = "active"
    BY <2>1 DEF TypeOK
  <2> QED  BY <1>0, <1>1, <2>1, <2>2, <2>3, NewGeneration
<1>2. ASSUME NEW t \in CallerClock, finish_success(a, t), is_current(a)
      PROVE  TokenInv'
  <2> DEFINE e2 == after_success(e, tok, t)
  <2>1. t \in Nat /\ Settle(a, e2)
    BY <1>2, CallerClockType DEF finish_success, TypeOK
  <2>2. e2 \in Entry
    BY <1>0, <2>1, EntryOps
  <2>3. CASE state_kind(e, t) = "half_open"
    <3>1. /\ e2.generation = e.generation + 1 /\ e2.probe_owner = NoProbe
          /\ e2.consecutive_failures = 0
      BY <1>0, <2>1, <2>3, SuccessFields
    <3> HIDE DEF e2
    <3> QED  BY <1>1, <1>2, <2>1, <2>2, <3>1
  <2>4. CASE state_kind(e, t) # "half_open"
    <3>1. /\ e2.generation = e.generation
          /\ e2.probe_owner = release_probe_owner(e, tok).probe_owner
          /\ e2.consecutive_failures = 0
          /\ e2.open_until = NoTime
      BY <1>0, <2>1, <2>4, SuccessFields
    <3> HIDE DEF e2
    <3> QED  BY <1>2, <2>1, <2>2, <3>1, TokenInvRelease
  <2> QED  BY <2>3, <2>4
<1>3. ASSUME NEW t \in CallerClock, finish_failure(a, t), is_current(a)
      PROVE  TokenInv'
  <2> DEFINE e2 == after_failure(e, tok, t)
  <2>1. t \in Nat /\ Settle(a, e2)
    BY <1>3, CallerClockType DEF finish_failure, TypeOK
  <2>2. e2 \in Entry
    BY <1>0, <2>1, EntryOps
  <2>3. /\ e2.generation = e.generation + 1 /\ e2.probe_owner = NoProbe
        /\ e2.open_until # NoTime
    BY <1>0, <2>1, FailureFields DEF NoTime
  <2> HIDE DEF e2
  <2> QED  BY <1>1, <1>3, <2>1, <2>2, <2>3
<1>4. ASSUME finish_neutral(a), is_current(a) PROVE TokenInv'
  <2> DEFINE e2 == release_probe_owner(e, tok)
  <2>1. e2 \in Entry /\ Settle(a, e2)
    BY <1>0, <1>4, EntryOps, 0 \in Nat DEF finish_neutral
  <2>2. /\ e2.generation = e.generation
        /\ e2.open_until = e.open_until
        /\ e2.consecutive_failures = e.consecutive_failures
    BY <1>0, ReleaseFields
  <2>3. e2.open_until = NoTime => e2.consecutive_failures = 0
    BY <1>0, <2>2 DEF TokenInv, ClosedForgets
  <2> QED  BY <1>4, <2>1, <2>2, <2>3, TokenInvRelease
<1>5. ASSUME NEW e2, Settle(a, e2), ~is_current(a) PROVE TokenInv'
  BY <1>5, TokenInvStale
<1> QED  BY <1>2, <1>3, <1>4, <1>5 DEF Finish, finish_success, finish_failure, finish_neutral

LEMMA TokenInvStep == TypeOK /\ TypeOK' /\ TokenInv /\ [Next]_vars => TokenInv'
<1> SUFFICES ASSUME TypeOK, TypeOK', TokenInv, [Next]_vars PROVE TokenInv'
  OBVIOUS
<1>1. ASSUME NEW id \in Ids, reset(id) PROVE TokenInv'
  <2> DEFINE e2 == after_reset(book[id])
  <2>1. e2 \in Entry /\ e2.generation = book[id].generation + 1
        /\ e2.probe_owner = NoProbe /\ e2.consecutive_failures = 0
    BY ResetFields DEF TypeOK
  <2>2. book' = [book EXCEPT ![id] = e2] /\ UNCHANGED <<now, phase, target, token>>
    BY <1>1 DEF reset
  <2> HIDE DEF e2
  <2> QED  BY <2>1, <2>2, NewGeneration
<1>2. ASSUME NEW id \in Ids, NEW until \in 0 .. MaxClock, defer_until(id, until)
      PROVE  TokenInv'
  <2> DEFINE e2 == after_defer(book[id], until)
  <2>1. until \in Nat
    BY HealthAssumption
  <2>2. e2 \in Entry /\ e2.generation = book[id].generation + 1
        /\ e2.probe_owner = NoProbe /\ e2.open_until # NoTime
    BY <2>1, DeferFields DEF TypeOK, NoTime
  <2>3. book' = [book EXCEPT ![id] = e2] /\ UNCHANGED <<now, phase, target, token>>
    BY <1>2 DEF defer_until
  <2> HIDE DEF e2
  <2> QED  BY <2>2, <2>3, NewGeneration
<1>3. CASE Tick
  <2>1. now' = now + 1 /\ UNCHANGED <<book, phase, target, token>>
    BY <1>3 DEF Tick
  <2>2. \A b \in Attempts : SameGeneration(b)' <=> SameGeneration(b)
    BY <2>1 DEF SameGeneration
  <2>3. ProbeTokens'
    <3>1. \A id \in Ids : book[id].open_until \in Int /\ now \in Int
      BY DEF TypeOK, Entry, NoTime
    <3> QED  BY <2>1, <2>2, <3>1 DEF TokenInv, ProbeTokens, TypeOK
  <2>4. \A i \in Ids : Current(i)' = Current(i)
    BY <2>1 DEF Current, is_current, attempt_token_matches
  <2> QED  BY <2>1, <2>2, <2>3, <2>4
           DEF TokenInv, GenerationBound, PlainTokens, OneProbe, ProbeHeld, ClosedForgets
<1>4. CASE UNCHANGED vars
  BY <1>4 DEF vars, TokenInv, GenerationBound, PlainTokens, ProbeTokens, OneProbe,
              ProbeHeld, ClosedForgets, SameGeneration, Current, is_current,
              attempt_token_matches
<1> QED  BY <1>1, <1>2, <1>3, <1>4, TokenInvBegin, TokenInvFinish DEF Next

\* The invariant that ties every outstanding guard to its entry holds in every
\* reachable state.
THEOREM TokenInvariant == Spec => []TokenInv
<1>1. Init => TypeOK /\ TokenInv
  BY TypeInit, TokenInvInit
<1>2. TypeOK /\ TokenInv /\ [Next]_vars => (TypeOK /\ TokenInv)'
  BY TypeStep, TokenInvStep
<1> QED  BY <1>1, <1>2, PTL DEF Spec

-----------------------------------------------------------------------------
(* The properties that the runs check on small instances.                  *)

LEMMA SingleProbeFromInv == TypeOK /\ TokenInv => SingleProbe
<1> SUFFICES ASSUME TypeOK, TokenInv, NEW id \in Ids, book[id].open_until # NoTime,
                    NEW a \in Attempts, SameGeneration(a), target[a] = id,
                    NEW b \in Attempts, SameGeneration(b), target[b] = id
             PROVE  a = b
  BY DEF SingleProbe
<1>1. token[a].probe_id # NoProbe /\ token[b].probe_id # NoProbe
  BY DEF TokenInv, PlainTokens
<1> QED  BY <1>1 DEF TokenInv, OneProbe

\* However begins, late results, dropped guards, resets and deferrals
\* interleave, a breaker that is not closed has at most one attempt under way
\* that it would listen to, and lets no second one begin.
THEOREM SingleProbeHolds == Spec => []SingleProbe
BY TypeCorrect, TokenInvariant, SingleProbeFromInv, PTL

\* A claimed probe always has an owner that can give it back.
THEOREM ProbeHeldHolds == Spec => []ProbeHeld
<1>1. TokenInv => ProbeHeld
  BY DEF TokenInv
<1> QED  BY <1>1, TokenInvariant, PTL

\* A closed breaker carries no failures.
THEOREM ClosedForgetsHolds == Spec => []ClosedForgets
<1>1. TokenInv => ClosedForgets
  BY DEF TokenInv
<1> QED  BY <1>1, TokenInvariant, PTL

\* While a target cools nobody but the administrator shortens its cooldown:
\* any guard still out is stale, so its result cannot touch the entry.
LEMMA CooldownStep ==
  TypeOK /\ TokenInv /\ [Next]_vars =>
    [\A id \in Ids :
       book[id].open_until > now /\ book'[id].open_until < book[id].open_until
         => reset(id)]_vars
<1> SUFFICES ASSUME TypeOK, TokenInv, Next,
                    NEW id \in Ids, book[id].open_until > now,
                    book'[id].open_until < book[id].open_until
             PROVE  reset(id)
  OBVIOUS
<1>0. /\ book \in [Ids -> Entry] /\ now \in Nat
      /\ book[id].open_until \in Nat /\ book[id].open_until # NoTime
  BY DEF TypeOK, Entry, NoTime
<1>1. ASSUME NEW a \in Attempts, NEW t \in CallerClock, try_begin_attempt(a, t)
      PROVE  FALSE
  <2> DEFINE e == book[target[a]]
             probe == IF state_kind(e, t) = "half_open"
                        THEN e.next_probe_id + 1 ELSE NoProbe
             e2 == IF state_kind(e, t) = "half_open"
                     THEN [e EXCEPT !.next_probe_id = probe, !.probe_owner = probe]
                     ELSE e
  <2>1. target[a] \in Ids /\ e \in Entry
    BY DEF TypeOK
  <2>2. book' = [book EXCEPT ![target[a]] = e2]
    BY <1>1 DEF try_begin_attempt, after_begin, begin_token
  <2> HIDE DEF probe
  <2>3. e2.open_until = e.open_until
    BY <2>1 DEF Entry
  <2> HIDE DEF e2
  <2>4. book'[id].open_until = book[id].open_until
    BY <1>0, <2>1, <2>2, <2>3
  <2> QED  BY <1>0, <2>4
<1>2. ASSUME NEW a \in Attempts, Finish(a) PROVE FALSE
  <2>1. PICK e2 : Settle(a, e2)
    BY <1>2 DEF Finish, finish_success, finish_failure, finish_neutral
  <2>2. CASE is_current(a) /\ target[a] = id
    <3>1. SameGeneration(a)
      BY <2>1, <2>2 DEF Settle, SameGeneration, is_current, attempt_token_matches
    <3>2. book[id].open_until =< now
      BY <1>0, <2>2, <3>1 DEF TokenInv, PlainTokens, ProbeTokens
    <3> QED  BY <1>0, <3>2
  <2>3. CASE ~(is_current(a) /\ target[a] = id)
    <3>1. book'[id] = book[id]
      BY <1>0, <2>1, <2>3 DEF Settle, TypeOK
    <3> QED  BY <1>0, <3>1
  <2> QED  BY <2>2, <2>3
<1>3. ASSUME NEW i \in Ids, reset(i) PROVE reset(id)
  <2>1. CASE i # id
    <3>1. book'[id] = book[id]
      BY <1>0, <1>3, <2>1 DEF reset
    <3> QED  BY <1>0, <3>1
  <2> QED  BY <1>3, <2>1
<1>4. ASSUME NEW i \in Ids, NEW until \in 0 .. MaxClock, defer_until(i, until)
      PROVE  FALSE
  <2>1. until \in Nat
    BY HealthAssumption
  <2>2. book'[i] = after_defer(book[i], until)
        /\ (i # id => book'[id] = book[id])
    BY <1>0, <1>4 DEF defer_until
  <2>3. /\ after_defer(book[i], until).open_until \in Nat
        /\ after_defer(book[i], until).open_until >= book[i].open_until
    BY <1>0, <2>1, DeferFields
  <2>4. CASE i = id
    BY <1>0, <2>2, <2>3, <2>4
  <2>5. CASE i # id
    BY <1>0, <2>2, <2>5
  <2> QED  BY <2>4, <2>5
<1>5. ASSUME Tick PROVE FALSE
  BY <1>0, <1>5 DEF Tick
<1> QED  BY <1>1, <1>2, <1>3, <1>4, <1>5 DEF Next

\* The action property: Retry-After and cooldowns are never cut short.
THEOREM CooldownHonouredHolds == Spec => CooldownHonoured
BY TypeCorrect, TokenInvariant, CooldownStep, PTL DEF Spec, CooldownHonoured

-----------------------------------------------------------------------------
(* The book implements the abstract breaker.                               *)

Shut == [id \in Ids |-> book[id].open_until]
Prober == [id \in Ids |-> Probers(id)]

LEMMA AbstractState ==
  /\ Shut = [i \in Ids |-> Shut[i]] /\ Shut' = [i \in Ids |-> Shut'[i]]
  /\ Prober = [i \in Ids |-> Prober[i]] /\ Prober' = [i \in Ids |-> Prober'[i]]
  /\ \A i \in Ids : Shut[i] = book[i].open_until /\ Shut'[i] = book'[i].open_until
  /\ \A i \in Ids : Prober[i] = Probers(i)
  /\ \A i \in Ids : Prober'[i] = Probers(i)'
<1>1. /\ Shut = [i \in Ids |-> Shut[i]] /\ Shut' = [i \in Ids |-> Shut'[i]]
      /\ \A i \in Ids : Shut[i] = book[i].open_until /\ Shut'[i] = book'[i].open_until
  BY DEF Shut
<1>2. Prober = [i \in Ids |-> Prober[i]] /\ Prober' = [i \in Ids |-> Prober'[i]]
  BY DEF Prober, Probers, Current, is_current, attempt_token_matches
<1>3. \A i \in Ids : Prober[i] = Probers(i) /\ Prober'[i] = Probers(i)'
  BY DEF Prober, Probers, Current, is_current, attempt_token_matches
<1> QED  BY <1>1, <1>2, <1>3

\* Nobody holds a probe of an entry without an owner, and a closed entry has
\* no owner.
LEMMA NoProbers ==
  ASSUME TypeOK, TokenInv, NEW id \in Ids
  PROVE  /\ book[id].probe_owner = NoProbe => Probers(id) = {}
         /\ book[id].open_until = NoTime => book[id].probe_owner = NoProbe
<1>1. book[id].probe_owner = NoProbe => Probers(id) = {}
  BY DEF Probers
<1>2. ASSUME book[id].probe_owner # NoProbe PROVE book[id].open_until # NoTime
  <2>1. PICK a \in Current(id) : token[a].probe_id = book[id].probe_owner
    BY <1>2 DEF TokenInv, ProbeHeld
  <2>2. a \in Attempts /\ SameGeneration(a) /\ target[a] = id
    BY <2>1 DEF Current, SameGeneration, is_current, attempt_token_matches
  <2> QED  BY <1>2, <2>1, <2>2 DEF TokenInv, ProbeTokens
<1> QED  BY <1>1, <1>2

\* A current guard that probes is one of its entry's probers.
LEMMA ProberHolds ==
  ASSUME TypeOK, NEW a \in Attempts, phase[a] = "active", is_current(a),
         token[a].probe_id # NoProbe
  PROVE  Probers(target[a]) # {}
<1>1. a \in Probers(target[a])
  BY DEF Probers, Current, is_current, attempt_token_matches
<1> QED  BY <1>1

\* A step that writes the entry of id, leaves it without an owner and starts no
\* attempt changes the abstract state of id only, and takes its prober away.
LEMMA Unprobes ==
  ASSUME TypeOK, TypeOK', NEW id \in Ids, NEW e \in Entry,
         book' = [book EXCEPT ![id] = e], e.probe_owner = NoProbe,
         UNCHANGED <<target, token>>,
         \A b \in Attempts : target[b] # id => (phase'[b] = "active" <=> phase[b] = "active")
  PROVE  /\ Shut' = [Shut EXCEPT ![id] = e.open_until]
         /\ Prober' = [Prober EXCEPT ![id] = {}]
<1>1. book'[id] = e /\ \A i \in Ids : i # id => book'[i] = book[i]
  BY DEF TypeOK
<1>2. Probers(id)' = {}
  BY <1>1 DEF Probers
<1>3. \A i \in Ids : i # id => Probers(i)' = Probers(i)
  BY <1>1 DEF Probers, Current, is_current
<1>4. Shut' = [Shut EXCEPT ![id] = e.open_until]
  BY <1>1, AbstractState
<1>5. Prober' = [Prober EXCEPT ![id] = {}]
  <2>1. Prober'[id] = {} /\ \A i \in Ids : i # id => Prober'[i] = Prober[i]
    BY <1>2, <1>3, AbstractState
  <2> QED  BY <2>1, AbstractState
<1> QED  BY <1>4, <1>5

\* Beginning an attempt: nothing the abstract breaker sees while it is closed,
\* a claim once it has cooled.
LEMMA BeginImplements ==
  ASSUME TypeOK, TypeOK', TokenInv, TokenInv',
         NEW a \in Attempts, NEW t \in CallerClock, try_begin_attempt(a, t)
  PROVE  [Abstract!Next]_(Abstract!bvars)
<1>0. PICK id \in Ids : id = target[a]
  BY DEF TypeOK
<1> DEFINE e == book[id]
           half == state_kind(e, t) = "half_open"
           probe == IF half THEN e.next_probe_id + 1 ELSE NoProbe
           e2 == IF half THEN [e EXCEPT !.next_probe_id = probe,
                                        !.probe_owner = probe] ELSE e
           tok == [generation |-> e.generation, probe_id |-> probe]
<1>1. e \in Entry /\ now \in Nat /\ t \in Nat /\ t =< now
  BY CallerClockType DEF TypeOK
<1>2. /\ phase[a] = "new" /\ available(e, t)
      /\ book' = [book EXCEPT ![id] = e2]
      /\ token' = [token EXCEPT ![a] = tok]
      /\ phase' = [phase EXCEPT ![a] = "active"]
      /\ now' = now /\ target' = target
  BY <1>0 DEF try_begin_attempt, after_begin, begin_token
<1>3. probe \in Nat /\ (half => probe # NoProbe) /\ (~half => probe = NoProbe)
  BY <1>1 DEF Entry, NoProbe
<1>4. half => e.open_until # NoTime /\ e.open_until =< now /\ e.probe_owner = NoProbe
  BY <1>1, <1>2 DEF available, state_kind, Entry, NoTime
<1> HIDE DEF probe
<1>5. /\ e2.open_until = e.open_until /\ e2.generation = e.generation
      /\ half => e2.probe_owner = probe
      /\ ~half => e2 = e
      /\ tok.probe_id = probe /\ tok.generation = e.generation
  BY <1>1, <1>3 DEF Entry
<1> HIDE DEF e2, tok, half
<1>6. /\ book'[id] = e2 /\ \A i \in Ids : i # id => book'[i] = book[i]
      /\ token'[a] = tok /\ phase'[a] = "active"
      /\ \A b \in Attempts : b # a => token'[b] = token[b] /\ phase'[b] = phase[b]
  BY <1>1, <1>2 DEF TypeOK
<1>7. Shut' = Shut
  BY <1>5, <1>6 DEF Shut
<1>8. ASSUME NEW i \in Ids, i # id PROVE Prober'[i] = Prober[i]
  <2>1. Probers(i)' = Probers(i)
    BY <1>0, <1>2, <1>6, <1>8 DEF Probers, Current, is_current
  <2> QED  BY <2>1, AbstractState
<1>9. CASE ~half
  <2>1. Probers(id)' = Probers(id)
    BY <1>0, <1>2, <1>3, <1>5, <1>6, <1>9 DEF Probers, Current, is_current
  <2>2. \A i \in Ids : Prober'[i] = Prober[i]
    <3>1. Prober'[id] = Prober[id]
      BY <1>1, <2>1, AbstractState
    <3> QED  BY <1>8, <3>1
  <2>3. Prober' = Prober
    BY <2>2, AbstractState
  <2> QED  BY <1>2, <1>7, <2>3 DEF Abstract!bvars, Shut, Prober
<1>10. CASE half
  <2>1. Probers(id) = {}
    BY <1>1, <1>4, <1>10, NoProbers
  <2>2. a \in Probers(id)'
    BY <1>0, <1>2, <1>3, <1>5, <1>6, <1>10
       DEF Probers, Current, is_current, attempt_token_matches
  <2>3. \A b \in Probers(id)' : b = a
    BY <1>2, <2>2 DEF Probers, Current, is_current, attempt_token_matches,
                      TokenInv, OneProbe, SameGeneration
  <2>4. Probers(id)' = {a}
    BY <2>2, <2>3
  <2>5. Prober' = [Prober EXCEPT ![id] = {a}]
    <3>1. Prober'[id] = {a} /\ \A i \in Ids : i # id => Prober'[i] = Prober[i]
      <4>1. Prober'[id] = {a}
        BY <1>1, <2>4, AbstractState
      <4> QED  BY <1>8, <4>1
    <3> QED  BY <1>1, <3>1, AbstractState
  <2>6. Shut[id] # Abstract!InService /\ Shut[id] =< now /\ Prober[id] = {}
    BY <1>1, <1>4, <1>10, <2>1 DEF Shut, Prober, Abstract!InService, NoTime
  <2>7. Abstract!Claim(id, a)
    BY <1>2, <1>7, <2>5, <2>6 DEF Abstract!Claim, Shut, Prober
  <2> QED  BY <1>1, <2>7 DEF Abstract!Next
<1> QED  BY <1>9, <1>10

\* A step that the abstract breaker does not see.
LEMMA Invisible ==
  ASSUME now' = now, Shut' = Shut, Prober' = Prober
  PROVE  [Abstract!Next]_(Abstract!bvars)
BY DEF Abstract!bvars, Shut, Prober

\* A settlement by a guard that is stale, or that leaves the entry's end and
\* owner as they are.
LEMMA SettleUnseen ==
  ASSUME TypeOK, TypeOK', NEW a \in Attempts, NEW e \in Entry, Settle(a, e),
         ~is_current(a) \/ /\ token[a].probe_id = NoProbe
                           /\ e.open_until = book[target[a]].open_until
                           /\ e.probe_owner = book[target[a]].probe_owner
                           /\ e.generation = book[target[a]].generation
  PROVE  [Abstract!Next]_(Abstract!bvars)
<1>0. PICK id \in Ids : id = target[a]
  BY DEF TypeOK
<1>1. /\ now' = now /\ UNCHANGED <<target, token>>
      /\ phase' = [phase EXCEPT ![a] = "settled"]
      /\ book' = IF is_current(a) THEN [book EXCEPT ![id] = e] ELSE book
  BY <1>0 DEF Settle
<1>2. \A i \in Ids : /\ book'[i].open_until = book[i].open_until
                     /\ book'[i].probe_owner = book[i].probe_owner
                     /\ book'[i].generation = book[i].generation
  BY <1>0, <1>1 DEF TypeOK
<1>3. \A b \in Attempts : b # a => phase'[b] = phase[b]
  BY <1>1 DEF TypeOK
<1>4. ~is_current(a) \/ token[a].probe_id = NoProbe
  OBVIOUS
<1>5. phase'[a] = "settled"
  BY <1>1 DEF TypeOK
<1>6. ASSUME NEW i \in Ids PROVE Prober'[i] = Prober[i]
  <2>1. a \notin Probers(i) /\ a \notin Probers(i)'
    BY <1>4, <1>5 DEF Probers, Current
  <2>2. \A b \in Attempts : b # a => (b \in Probers(i)' <=> b \in Probers(i))
    BY <1>1, <1>2, <1>3 DEF Probers, Current, is_current, attempt_token_matches
  <2>3. Probers(i)' = Probers(i)
    BY <2>1, <2>2 DEF Probers, Current
  <2> QED  BY <2>3, AbstractState
<1>7. Prober' = Prober /\ Shut' = Shut
  BY <1>2, <1>6, AbstractState
<1> QED  BY <1>1, <1>7, Invisible

\* Settling a current guard so that its entry has no owner afterwards.
LEMMA SettleSeen ==
  ASSUME TypeOK, TypeOK', NEW a \in Attempts, NEW e \in Entry, Settle(a, e), is_current(a),
         e.probe_owner = NoProbe
  PROVE  \E id \in Ids :
           /\ id = target[a]
           /\ now' = now
           /\ Shut' = [Shut EXCEPT ![id] = e.open_until]
           /\ Prober' = [Prober EXCEPT ![id] = {}]
           /\ Shut'[id] = e.open_until
           /\ token[a].probe_id # NoProbe => Prober[id] # {}
<1>0. PICK id \in Ids : id = target[a]
  BY DEF TypeOK
<1>1. /\ now' = now /\ UNCHANGED <<target, token>>
      /\ phase[a] = "active" /\ phase' = [phase EXCEPT ![a] = "settled"]
      /\ book' = [book EXCEPT ![id] = e]
  BY <1>0 DEF Settle
<1>2. \A b \in Attempts : target[b] # id => (phase'[b] = "active" <=> phase[b] = "active")
  BY <1>0, <1>1 DEF TypeOK
<1>3. /\ Shut' = [Shut EXCEPT ![id] = e.open_until]
      /\ Prober' = [Prober EXCEPT ![id] = {}]
  BY <1>1, <1>2, Unprobes
<1>4. token[a].probe_id # NoProbe => Prober[id] # {}
  BY <1>0, <1>1, ProberHolds, AbstractState
<1>5. Shut'[id] = e.open_until
  BY <1>3, AbstractState
<1> QED  BY <1>0, <1>1, <1>3, <1>4, <1>5

\* What a settlement is to the abstract breaker: the verdict of the prober, the
\* failure of a target in service, a probe given back, or nothing.
LEMMA FinishImplements ==
  ASSUME TypeOK, TypeOK', TokenInv, NEW a \in Attempts, Finish(a)
  PROVE  [Abstract!Next]_(Abstract!bvars)
<1> DEFINE e == book[target[a]]
           tok == token[a]
<1>0. target[a] \in Ids /\ e \in Entry /\ tok \in Token /\ now \in Nat
  BY DEF TypeOK
<1>1. PICK t \in Nat : \/ Settle(a, after_success(e, tok, t))
                       \/ Settle(a, after_failure(e, tok, t))
                       \/ Settle(a, release_probe_owner(e, tok))
  <2>1. \A t \in CallerClock : t \in Nat
    BY <1>0, CallerClockType
  <2> QED  BY <2>1, 0 \in Nat DEF Finish, finish_success, finish_failure, finish_neutral
<1>2. CASE ~is_current(a)
  BY <1>0, <1>1, <1>2, EntryOps, SettleUnseen
<1>3. CASE is_current(a)
  <2>1. phase[a] = "active" /\ SameGeneration(a)
    BY <1>1, <1>3 DEF Settle, SameGeneration, is_current, attempt_token_matches
  <2>2. tok.probe_id = NoProbe => e.open_until = NoTime /\ e.probe_owner = NoProbe
    BY <1>0, <2>1, NoProbers DEF TokenInv, PlainTokens
  <2>3. release_probe_owner(e, tok).probe_owner = NoProbe
    BY <1>0, <1>3, <2>2, ReleaseFields DEF is_current, attempt_token_matches
  <2>4. CASE Settle(a, after_success(e, tok, t))
    <3> DEFINE s == after_success(e, tok, t)
    <3>1. s \in Entry /\ s.open_until = NoTime /\ s.probe_owner = NoProbe
      BY <1>0, <2>3, EntryOps, SuccessFields
    <3>2. CASE tok.probe_id # NoProbe
      <4>1. PICK id \in Ids :
              /\ now' = now /\ Shut' = [Shut EXCEPT ![id] = NoTime]
              /\ Prober' = [Prober EXCEPT ![id] = {}] /\ Prober[id] # {}
        BY <1>3, <2>4, <3>1, <3>2, SettleSeen
      <4>2. Abstract!Recover(id)
        BY <4>1 DEF Abstract!Recover, Abstract!Unprobed, Abstract!InService, NoTime,
                    Shut, Prober
      <4> QED  BY <4>2 DEF Abstract!Next
    <3>3. CASE tok.probe_id = NoProbe
      <4>1. state_kind(e, t) # "half_open"
        BY <2>2, <3>3 DEF state_kind
      <4>2. s.generation = e.generation
        BY <1>0, <4>1, SuccessFields
      <4> HIDE DEF s
      <4> QED  BY <2>2, <2>4, <3>1, <3>3, <4>2, SettleUnseen DEF s
    <3> QED  BY <3>2, <3>3
  <2>5. CASE Settle(a, after_failure(e, tok, t))
    <3> DEFINE s == after_failure(e, tok, t)
    <3>1. s \in Entry /\ s.open_until \in Nat /\ s.probe_owner = NoProbe
      BY <1>0, EntryOps, FailureFields
    <3> HIDE DEF s
    <3>2. Settle(a, s)
      BY <2>5 DEF s
    <3>3. PICK id \in Ids :
            /\ id = target[a]
            /\ now' = now /\ Shut' = [Shut EXCEPT ![id] = s.open_until]
            /\ Prober' = [Prober EXCEPT ![id] = {}] /\ Shut'[id] = s.open_until
            /\ tok.probe_id # NoProbe => Prober[id] # {}
      BY <1>3, <3>1, <3>2, SettleSeen
    <3>4. Shut[id] = Abstract!InService \/ Prober[id] # {}
      BY <2>2, <3>3, AbstractState DEF Abstract!InService, NoTime
    <3>5. Abstract!Trip(id)
      BY <3>1, <3>3, <3>4 DEF Abstract!Trip, Abstract!Unprobed, Abstract!ShutUntilAny,
                              Shut, Prober
    <3> QED  BY <3>5 DEF Abstract!Next
  <2>6. CASE Settle(a, release_probe_owner(e, tok))
    <3> DEFINE s == release_probe_owner(e, tok)
    <3>1. /\ s \in Entry /\ s.open_until = e.open_until /\ s.generation = e.generation
          /\ s.probe_owner = NoProbe
      BY <1>0, <2>3, EntryOps, ReleaseFields
    <3> HIDE DEF s
    <3>2. Settle(a, s)
      BY <2>6 DEF s
    <3>3. CASE tok.probe_id # NoProbe
      <4>1. PICK id \in Ids :
              /\ id = target[a]
              /\ now' = now /\ Shut' = [Shut EXCEPT ![id] = e.open_until]
              /\ Prober' = [Prober EXCEPT ![id] = {}] /\ Prober[id] # {}
        BY <1>3, <3>1, <3>2, <3>3, SettleSeen
      <4>2. Shut' = Shut
        <5>1. Shut[id] = e.open_until
          BY <4>1, AbstractState
        <5>2. \A i \in Ids : Shut'[i] = Shut[i]
          BY <4>1, <5>1, AbstractState
        <5> QED  BY <5>2, AbstractState
      <4>3. Abstract!Return(id)
        BY <4>1, <4>2 DEF Abstract!Return, Abstract!Unprobed, Shut, Prober
      <4> QED  BY <4>3 DEF Abstract!Next
    <3>4. CASE tok.probe_id = NoProbe
      BY <2>2, <3>1, <3>2, <3>4, SettleUnseen
    <3> QED  BY <3>3, <3>4
  <2> QED  BY <1>1, <2>4, <2>5, <2>6
<1> QED  BY <1>2, <1>3

LEMMA StepImplements ==
  TypeOK /\ TypeOK' /\ TokenInv /\ TokenInv' /\ [Next]_vars => [Abstract!Next]_(Abstract!bvars)
<1> SUFFICES ASSUME TypeOK, TypeOK', TokenInv, TokenInv', [Next]_vars
             PROVE  [Abstract!Next]_(Abstract!bvars)
  OBVIOUS
<1>1. ASSUME NEW id \in Ids, reset(id) PROVE [Abstract!Next]_(Abstract!bvars)
  <2> DEFINE e == after_reset(book[id])
  <2>1. e \in Entry /\ e.probe_owner = NoProbe /\ e.open_until = NoTime
    BY ResetFields DEF TypeOK
  <2>2. book' = [book EXCEPT ![id] = e] /\ UNCHANGED <<now, phase, target, token>>
    BY <1>1 DEF reset
  <2> HIDE DEF e
  <2>3. Shut' = [Shut EXCEPT ![id] = NoTime] /\ Prober' = [Prober EXCEPT ![id] = {}]
    BY <2>1, <2>2, Unprobes
  <2>4. Abstract!Override(id)
    BY <2>2, <2>3 DEF Abstract!Override, Abstract!Unprobed, Abstract!InService, NoTime,
                      Shut, Prober
  <2> QED  BY <2>4 DEF Abstract!Next
<1>2. ASSUME NEW id \in Ids, NEW until \in 0 .. MaxClock, defer_until(id, until)
      PROVE  [Abstract!Next]_(Abstract!bvars)
  <2> DEFINE e == after_defer(book[id], until)
  <2>0. until \in Nat
    BY HealthAssumption
  <2>1. /\ e \in Entry /\ e.probe_owner = NoProbe
        /\ e.open_until \in Nat /\ e.open_until >= book[id].open_until
    BY <2>0, DeferFields DEF TypeOK
  <2>2. book' = [book EXCEPT ![id] = e] /\ UNCHANGED <<now, phase, target, token>>
    BY <1>2 DEF defer_until
  <2> HIDE DEF e
  <2>3. /\ Shut' = [Shut EXCEPT ![id] = e.open_until]
        /\ Prober' = [Prober EXCEPT ![id] = {}]
    BY <2>1, <2>2, Unprobes
  <2>4. Shut'[id] = e.open_until /\ Shut[id] = book[id].open_until
    BY <2>3, AbstractState
  <2>5. Abstract!Extend(id)
    BY <2>1, <2>2, <2>3, <2>4 DEF Abstract!Extend, Abstract!Unprobed,
                                  Abstract!ShutUntilAny, Shut, Prober
  <2> QED  BY <2>5 DEF Abstract!Next
<1>3. CASE Tick
  <2>1. now' = now + 1 /\ UNCHANGED <<book, phase, target, token>>
    BY <1>3 DEF Tick
  <2>2. Shut' = Shut /\ Prober' = Prober
    BY <2>1 DEF Shut, Prober, Probers, Current, is_current, attempt_token_matches
  <2>3. Abstract!Tick
    BY <2>1, <2>2 DEF Abstract!Tick, Shut, Prober
  <2> QED  BY <2>3 DEF Abstract!Next
<1>4. CASE UNCHANGED vars
  <2>1. now' = now /\ Shut' = Shut /\ Prober' = Prober
    BY <1>4 DEF vars, Shut, Prober, Probers, Current, is_current, attempt_token_matches
  <2> QED  BY <2>1, Invisible
<1> QED  BY <1>1, <1>2, <1>3, <1>4, BeginImplements, FinishImplements DEF Next

\* The book of breakers with its tokens and generations implements the breaker
\* that knows only until when a target is shut and who may try it.
THEOREM BreakerRefined == Spec => ImplementsBreaker
<1>1. Init => Abstract!Init
  <2> SUFFICES ASSUME Init PROVE Abstract!Init
    OBVIOUS
  <2>1. \A i \in Ids : book[i].open_until = Abstract!InService
                       /\ book[i].probe_owner = NoProbe
    BY DEF Init, DefaultEntry, NoTime, Abstract!InService
  <2>2. \A i \in Ids : Probers(i) = {}
    BY <2>1 DEF Probers
  <2>3. \A i \in Ids : Shut[i] = Abstract!InService /\ Prober[i] = {}
    BY <2>1, <2>2, AbstractState
  <2>4. Shut = [i \in Ids |-> Abstract!InService] /\ Prober = [i \in Ids |-> {}]
    BY <2>3, AbstractState
  <2> QED  BY <2>4 DEF Init, Abstract!Init, Shut, Prober
<1> QED  BY <1>1, StepImplements, TypeCorrect, TokenInvariant, PTL
         DEF Spec, ImplementsBreaker, Abstract!Spec
============================================================================
