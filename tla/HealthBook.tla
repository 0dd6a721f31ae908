---------------------------- MODULE HealthBook ----------------------------
(***************************************************************************)
(* RuntimeHealthBook of backend/src/health.rs: the circuit breaker kept    *)
(* per upstream endpoint and per upstream key.  Callers hold an attempt    *)
(* guard between try_begin_attempt and its settlement, across network      *)
(* awaits, while other callers, the administrator's reset and the quota    *)
(* code's defer_until change the same entry.  Every operation takes the    *)
(* book's one write lock, so each is one atomic step.                      *)
(***************************************************************************)
EXTENDS HealthEntry

CONSTANTS
  Ids,            \* endpoint ids (or key ids) known to the gateway
  Attempts,       \* attempts callers make; each begins at most once
  MaxLag,         \* how old a caller's now_ms may be when it gets the lock
  MaxClock,       \* bound: the clock stops here once every breaker has cooled
  MaxGeneration   \* bound: no reset or defer_until at this generation

ASSUME HealthAssumption ==
  /\ MaxLag \in Nat
  /\ MaxClock \in Nat
  /\ MaxGeneration \in Nat \ {0}

VARIABLES
  now,      \* the wall clock
  book,     \* by_id: the breaker entry of every id
  phase,    \* where each attempt is: "new", "active" (holds a guard), "settled"
  target,   \* the id each attempt is routed to
  token     \* the RuntimeHealthAttemptToken of each active attempt

vars == <<now, book, phase, target, token>>

-----------------------------------------------------------------------------
(* Operations.                                                             *)

Init ==
  /\ now = 0
  /\ book = [id \in Ids |-> DefaultEntry]
  /\ phase = [a \in Attempts |-> "new"]
  /\ target \in [Attempts -> Ids]
  /\ token = [a \in Attempts |-> [generation |-> 0, probe_id |-> NoProbe]]

\* A caller reads the clock before it waits for the lock.
CallerClock == MaxOf(0, now - MaxLag) .. now

\* try_begin_attempt, when it grants a guard; a refusal changes nothing.
try_begin_attempt(a, t) ==
  LET e == book[target[a]]
  IN  /\ phase[a] = "new"
      /\ available(e, t)
      /\ book' = [book EXCEPT ![target[a]] = after_begin(e, t)]
      /\ token' = [token EXCEPT ![a] = begin_token(e, t)]
      /\ phase' = [phase EXCEPT ![a] = "active"]
      /\ UNCHANGED <<now, target>>

is_current(a) == attempt_token_matches(book[target[a]], token[a])

\* Every settlement consumes the guard; a stale one leaves the entry alone.
Settle(a, e) ==
  /\ phase[a] = "active"
  /\ book' = IF is_current(a) THEN [book EXCEPT ![target[a]] = e] ELSE book
  /\ phase' = [phase EXCEPT ![a] = "settled"]
  /\ UNCHANGED <<now, target, token>>

finish_success(a, t) == Settle(a, after_success(book[target[a]], token[a], t))

finish_failure(a, t) == Settle(a, after_failure(book[target[a]], token[a], t))

\* Mutant: Drop forgets the probe.
finish_neutral_keeps_probe(a) == Settle(a, book[target[a]])

\* finish_neutral: also what dropping an unsettled guard does, so a caller
\* that is cancelled, or returns early, settles its attempt this way.
finish_neutral(a) == Settle(a, release_probe_owner(book[target[a]], token[a]))

\* The administrator's reset.
reset(id) ==
  /\ book[id].generation < MaxGeneration
  /\ book' = [book EXCEPT ![id] = after_reset(book[id])]
  /\ UNCHANGED <<now, phase, target, token>>

\* A Retry-After, a 402/429 cooldown or a quota block.
defer_until(id, until) ==
  /\ book[id].generation < MaxGeneration
  /\ book' = [book EXCEPT ![id] = after_defer(book[id], until)]
  /\ UNCHANGED <<now, phase, target, token>>

Tick ==
  /\ now < MaxClock \/ \E id \in Ids : book[id].open_until > now
  /\ now' = now + 1
  /\ UNCHANGED <<book, phase, target, token>>

Finish(a) ==
  \/ \E t \in CallerClock : finish_success(a, t)
  \/ \E t \in CallerClock : finish_failure(a, t)
  \/ finish_neutral(a)

Next ==
  \/ \E a \in Attempts, t \in CallerClock : try_begin_attempt(a, t)
  \/ \E a \in Attempts : Finish(a)
  \/ \E id \in Ids : reset(id)
  \/ \E id \in Ids, until \in 0 .. MaxClock : defer_until(id, until)
  \/ Tick

Spec == Init /\ [][Next]_vars

\* Time passes, and every guard is settled: by its caller, by a timeout of the
\* request, or by Drop when the task holding it ends.
Fairness == WF_vars(Tick) /\ \A a \in Attempts : WF_vars(Finish(a))

FairSpec == Spec /\ Fairness

-----------------------------------------------------------------------------
(* Properties.                                                             *)

TypeOK ==
  /\ now \in Nat
  /\ book \in [Ids -> Entry]
  /\ phase \in [Attempts -> {"new", "active", "settled"}]
  /\ target \in [Attempts -> Ids]
  /\ token \in [Attempts -> Token]

\* The attempts on id whose result the breaker would still accept.
Current(id) == {a \in Attempts : phase[a] = "active" /\ target[a] = id /\ is_current(a)}

\* An attempt begun in the present generation of its entry.
SameGeneration(a) ==
  phase[a] = "active" /\ token[a].generation = book[target[a]].generation

\* README: once a target has cooled, "only one recovery probe" is let through.
\* While a breaker is not closed, at most one attempt begun since it opened is
\* under way, and no older one can change it, however resets, deferrals and
\* late results interleave.
SingleProbe ==
  \A id \in Ids : book[id].open_until # NoTime =>
    \A a, b \in {c \in Attempts : SameGeneration(c) /\ target[c] = id} : a = b

\* A claimed probe is held by an attempt that can still return it: no path
\* (stale result, dropped guard, reset) leaves probe_owner set with nobody to
\* clear it, which would bar the target for the life of the process.
ProbeHeld ==
  \A id \in Ids : book[id].probe_owner # NoProbe =>
    \E a \in Current(id) : token[a].probe_id = book[id].probe_owner

\* A closed breaker remembers no failures, so the next outage starts again at
\* the shortest cooldown.
ClosedForgets ==
  \A id \in Ids : book[id].open_until = NoTime =>
    book[id].consecutive_failures = 0

\* README: a Retry-After is never cut short, and a late success of an attempt
\* begun before the failure does not reopen the target.  While a breaker is
\* open only the administrator's reset brings its end nearer.
CooldownHonoured ==
  [][\A id \in Ids :
       book[id].open_until > now /\ book'[id].open_until < book[id].open_until
         => reset(id)]_vars

-----------------------------------------------------------------------------
(* The inductive invariant behind the properties above: what a token tells *)
(* about the entry it was issued for.                                      *)

\* No guard is ahead of its entry.
GenerationBound ==
  \A a \in Attempts : phase[a] = "active" =>
    token[a].generation =< book[target[a]].generation

\* A plain token of the present generation means the breaker is still closed.
PlainTokens ==
  \A a \in Attempts : SameGeneration(a) /\ token[a].probe_id = NoProbe =>
    book[target[a]].open_until = NoTime

\* A probe token of the present generation is the claimed probe, of a breaker
\* that has cooled.
ProbeTokens ==
  \A a \in Attempts : SameGeneration(a) /\ token[a].probe_id # NoProbe =>
    /\ book[target[a]].probe_owner = token[a].probe_id
    /\ book[target[a]].open_until # NoTime
    /\ book[target[a]].open_until =< now

\* Two guards of one entry and generation are never both probes.
OneProbe ==
  \A a, b \in Attempts :
    /\ SameGeneration(a) /\ token[a].probe_id # NoProbe
    /\ SameGeneration(b) /\ token[b].probe_id # NoProbe
    /\ target[a] = target[b]
    => a = b

TokenInv ==
  /\ GenerationBound
  /\ PlainTokens
  /\ ProbeTokens
  /\ OneProbe
  /\ ProbeHeld
  /\ ClosedForgets

-----------------------------------------------------------------------------
(* The abstract breaker: the entry's end of cooldown, and the holder of    *)
(* the claimed probe.                                                      *)

Probers(id) ==
  {a \in Current(id) : token[a].probe_id # NoProbe /\ token[a].probe_id = book[id].probe_owner}

Abstract == INSTANCE Breaker WITH
  Callers <- Attempts,
  shut <- [id \in Ids |-> book[id].open_until],
  prober <- [id \in Ids |-> Probers(id)]

\* Tokens and generations implement the breaker they stand for: however late
\* results, resets and deferrals interleave, a shut target changes only by the
\* verdict of the one caller that holds its probe, by reset, or to a later end.
ImplementsBreaker == Abstract!Spec

\* No breaker is shut for good: it cools, and whoever probes it, again and
\* again, gives the probe back.
Recovers == \A id \in Ids : []<>available(book[id], now)
============================================================================
