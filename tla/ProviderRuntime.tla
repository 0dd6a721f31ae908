-------------------------- MODULE ProviderRuntime --------------------------
(***************************************************************************)
(* ProviderRuntimeBook of backend/src/provider_runtime.rs for one          *)
(* provider, under concurrent callers.  A caller clones the provider's     *)
(* settings, takes a capacity permit, then begins attempts under it (one   *)
(* for an HTTP request, one per turn for a WebSocket connection), settles  *)
(* each, and drops the permit.  Meanwhile the administrator edits the      *)
(* settings, resets the breaker, or disables or deletes the provider,      *)
(* which purges its entry while permits and guards are still out.          *)
(***************************************************************************)
EXTENDS ProviderEntry, FiniteSets

CONSTANTS
  Callers,         \* requests and connections; each takes at most one permit
  Lingering,       \* those whose client may neither read on nor leave
  MaxConcurrency,  \* max_concurrency of the provider, the same in every clone
  MaxClock,        \* bound: the clock stops here once the breaker has cooled
  MaxAttempts,     \* bound: attempts all callers begin together
  MaxGeneration,   \* bound: no reset at this generation
  MaxPurges        \* bound: purges the administrator makes

ASSUME ProviderRuntimeAssumption ==
  /\ Lingering \subseteq Callers
  /\ MaxConcurrency \in Nat
  /\ MaxClock \in Nat
  /\ MaxAttempts \in Nat
  /\ MaxGeneration \in Nat
  /\ MaxPurges \in Nat

VARIABLES
  now,      \* the wall clock
  entry,    \* by_provider: the provider's entry
  breaker,  \* circuit_breaker_enabled in the cached configuration
  phase,    \* "idle", "permit", "active" (permit and guard), "done"
  clone,    \* circuit_breaker_enabled as each caller cloned it
  token,    \* the ProviderAttemptToken of each active caller
  begun,    \* attempts begun so far
  purges,   \* history: how many purges happened
  born,     \* history: the purges when each caller's guard was handed out
  crossed   \* history: a guard of a purged entry has settled the present one

vars == <<now, entry, breaker, phase, clone, token, begun, purges, born, crossed>>

-----------------------------------------------------------------------------
\* A caller without a guard.
NoToken == [generation |-> 0, probe_id |-> NoProbe]

Init ==
  /\ now = 0
  /\ entry = DefaultEntry
  /\ breaker = TRUE
  /\ phase = [c \in Callers |-> "idle"]
  /\ clone = [c \in Callers |-> TRUE]
  /\ token = [c \in Callers |-> NoToken]
  /\ begun = 0
  /\ purges = 0
  /\ born = [c \in Callers |-> 0]
  /\ crossed = FALSE

\* The caller works with a clone of the provider from the cached snapshot, and
\* keeps it whatever the administrator changes afterwards.
try_acquire_capacity(c) ==
  /\ phase[c] = "idle"
  /\ entry.in_flight < MaxConcurrency
  /\ entry' = [entry EXCEPT !.in_flight = @ + 1]
  /\ phase' = [phase EXCEPT ![c] = "permit"]
  /\ clone' = [clone EXCEPT ![c] = breaker]
  /\ UNCHANGED <<now, breaker, token, begun, purges, born, crossed>>

\* try_begin_attempt, when it grants a guard; a refusal changes nothing.
try_begin_attempt(c) ==
  /\ phase[c] = "permit"
  /\ begun < MaxAttempts
  /\ admits(clone[c], entry, now)
  /\ entry' = after_begin(clone[c], entry, now)
  /\ token' = [token EXCEPT ![c] = begin_token(clone[c], entry, now)]
  /\ phase' = [phase EXCEPT ![c] = "active"]
  /\ begun' = begun + 1
  /\ born' = [born EXCEPT ![c] = purges]
  /\ UNCHANGED <<now, breaker, clone, purges, crossed>>

Current(c) == phase[c] = "active" /\ attempt_token_matches(entry, token[c])

\* Settling a guard leaves the permit held; a stale guard changes nothing.
Settle(c, e) ==
  /\ phase[c] = "active"
  /\ entry' = IF Current(c) THEN e ELSE entry
  /\ phase' = [phase EXCEPT ![c] = "permit"]
  /\ token' = [token EXCEPT ![c] = NoToken]
  /\ born' = [born EXCEPT ![c] = 0]
  /\ crossed' = (crossed \/ (Current(c) /\ born[c] # purges))
  /\ UNCHANGED <<now, breaker, clone, begun, purges>>

finish_success(c) == Settle(c, after_success(clone[c], entry, token[c], now))

finish_failure(c) == Settle(c, after_failure(clone[c], entry, token[c], now))

\* finish_neutral: also what dropping an unsettled guard does.
finish_neutral(c) == Settle(c, release_probe_owner(entry, token[c]))

\* Mutant: the permit is dropped without giving capacity back.
release_capacity_forgets(c) ==
  /\ phase[c] = "permit"
  /\ phase' = [phase EXCEPT ![c] = "done"]
  /\ clone' = [clone EXCEPT ![c] = TRUE]
  /\ UNCHANGED <<now, entry, breaker, token, begun, purges, born, crossed>>

\* Drop of ProviderCapacityPermit: `saturating_sub(1)`.
release_capacity(c) ==
  /\ phase[c] = "permit"
  /\ entry' = [entry EXCEPT !.in_flight = MaxOf(@ - 1, 0)]
  /\ phase' = [phase EXCEPT ![c] = "done"]
  /\ clone' = [clone EXCEPT ![c] = TRUE]
  /\ UNCHANGED <<now, breaker, token, begun, purges, born, crossed>>

\* Mutant: reset starts from the default entry, its counter included.
reset_drops_capacity ==
  /\ entry.generation < MaxGeneration
  /\ entry' = [after_reset(entry) EXCEPT !.in_flight = 0]
  /\ UNCHANGED <<now, breaker, phase, clone, token, begun, purges, born, crossed>>

reset ==
  /\ entry.generation < MaxGeneration
  /\ entry' = after_reset(entry)
  /\ UNCHANGED <<now, breaker, phase, clone, token, begun, purges, born, crossed>>

\* Disabling or deleting the provider removes its entry; an enabled provider
\* starts again from the default one.
purge_provider ==
  /\ purges < MaxPurges
  /\ entry' = DefaultEntry
  /\ purges' = purges + 1
  /\ crossed' = FALSE
  /\ UNCHANGED <<now, breaker, phase, clone, token, begun, born>>

\* The administrator switches the breaker on or off; the cached snapshot is
\* invalidated, clones already made keep the old setting.
ToggleBreaker ==
  /\ breaker' = ~breaker
  /\ UNCHANGED <<now, entry, phase, clone, token, begun, purges, born, crossed>>

Tick ==
  /\ now < MaxClock \/ entry.open_until > now
  /\ now' = now + 1
  /\ UNCHANGED <<entry, breaker, phase, clone, token, begun, purges, born, crossed>>

Finish(c) == finish_success(c) \/ finish_failure(c) \/ finish_neutral(c)

Next ==
  \/ \E c \in Callers : try_acquire_capacity(c)
  \/ \E c \in Callers : try_begin_attempt(c)
  \/ \E c \in Callers : Finish(c)
  \/ \E c \in Callers : release_capacity(c)
  \/ reset
  \/ purge_provider
  \/ ToggleBreaker
  \/ Tick

Spec == Init /\ [][Next]_vars

\* Time passes; every guard is settled and every permit dropped, by the caller
\* or by Drop when its task ends.  But a reader waits for room in its client's
\* channel without a timeout (ProxyTapBody: sender.send), and a WebSocket session
\* for its client's next message: nothing ends a caller that lingers there.
Fairness ==
  /\ WF_vars(Tick)
  /\ \A c \in Callers \ Lingering : WF_vars(Finish(c)) /\ WF_vars(release_capacity(c))

FairSpec == Spec /\ Fairness

-----------------------------------------------------------------------------
(* Properties.                                                             *)

TypeOK ==
  /\ now \in Nat
  /\ entry \in Entry
  /\ breaker \in BOOLEAN
  /\ phase \in [Callers -> {"idle", "permit", "active", "done"}]
  /\ clone \in [Callers -> BOOLEAN]
  /\ token \in [Callers -> Token]
  /\ begun \in Nat
  /\ purges \in Nat
  /\ born \in [Callers -> Nat]
  /\ crossed \in BOOLEAN

Held == {c \in Callers : phase[c] \in {"permit", "active"}}

\* The in-flight counter never counts a permit nobody holds: every path that
\* took capacity gives it back, so a provider is never starved by a counter
\* that cannot fall.  Until an entry is purged the counter is exact, hence at
\* most max_concurrency permits are out.
CapacityAccounting ==
  /\ entry.in_flight =< Cardinality(Held)
  /\ purges = 0 => /\ entry.in_flight = Cardinality(Held)
                   /\ Cardinality(Held) =< MaxConcurrency

\* Guards handed out for the present entry to callers that see the breaker on.
Trusted(c) == clone[c] /\ born[c] = purges

\* While the breaker is not closed at most one of those callers is under way
\* since it opened, so one probe at a time reaches the provider.  A purge starts
\* generations and probe ids anew, so a guard left over from the purged entry
\* can carry the very token of the present probe: once such a guard has settled
\* the entry, the promise is off until the next purge.
SingleProbe ==
  entry.open_until # NoTime /\ ~crossed =>
    \A c, d \in {x \in Callers : /\ phase[x] = "active" /\ Trusted(x)
                                /\ token[x].generation = entry.generation} : c = d

\* A claimed probe is held by a caller that can still give it back, purges,
\* resets and switches of the breaker included.
ProbeHeld ==
  entry.probe_owner # NoProbe =>
    \E c \in Callers : Current(c) /\ token[c].probe_id = entry.probe_owner

\* An open breaker recovers only when it has cooled and
\* circuit_breaker_half_open_success_threshold probes succeeded.  The only
\* other ways out are the administrator's reset and purge, a caller that sees
\* the breaker switched off, and a guard left over from a purged entry.
EarnedRecovery ==
  [][entry.open_until # NoTime /\ entry'.open_until < entry.open_until =>
       \/ reset
       \/ purge_provider
       \/ \E c \in Callers : Finish(c) /\ ~Trusted(c)
       \/ \E c \in Callers :
            /\ finish_success(c)
            /\ token[c].probe_id = entry.probe_owner
            /\ entry.open_until =< now
            /\ entry.half_open_successes + 1 >= HalfOpenThreshold]_vars

\* A provider at its concurrency limit admits requests again, unless all its
\* permits are out with clients that neither read nor leave, which keep them as
\* long as they like: such a client takes its own place and no other.
FullProviderDrains ==
  (entry.in_flight = MaxConcurrency) ~>
    (entry.in_flight < MaxConcurrency \/ Cardinality(Held \cap Lingering) >= MaxConcurrency)

-----------------------------------------------------------------------------
(* The inductive invariant behind SingleProbe, ProbeHeld and               *)
(* EarnedRecovery: what a guard of the present entry tells about it.       *)

\* A guard handed out since the last purge.
Young(c) == phase[c] = "active" /\ born[c] = purges

\* It is not ahead of its entry.
TokenBound ==
  \A c \in Callers : Young(c) =>
    /\ token[c].generation =< entry.generation
    /\ token[c].probe_id =< entry.next_probe_id

\* Two of them never carry the same probe id.
DistinctProbes ==
  \A c, d \in Callers :
    Young(c) /\ Young(d) /\ token[c].probe_id = token[d].probe_id
      /\ token[c].probe_id # NoProbe => c = d

SameGeneration(c) == Young(c) /\ clone[c] /\ token[c].generation = entry.generation

\* A plain one of the present generation means the breaker is still closed.
PlainTokens ==
  \A c \in Callers : SameGeneration(c) /\ token[c].probe_id = NoProbe =>
    entry.open_until = NoTime

\* A probe of the present generation means it has closed, or is cooled; in the
\* latter case this is the claimed probe unless an older guard gave it back.
ProbeTokens ==
  \A c \in Callers :
    SameGeneration(c) /\ token[c].probe_id # NoProbe /\ entry.open_until # NoTime =>
      /\ entry.open_until =< now
      /\ ~crossed => entry.probe_owner = token[c].probe_id

TokenInv == TokenBound /\ DistinctProbes /\ PlainTokens /\ ProbeTokens /\ ProbeHeld
============================================================================
