---------------------------- MODULE Resilience ----------------------------
(***************************************************************************)
(* The process-local safeguards of backend/src/resilience.rs that every    *)
(* breaker shares: the exponential cooldown.  One unit of time is          *)
(* COOLDOWN_BASE_MS (30 s) in the code; here both bounds are parameters.   *)
(***************************************************************************)
EXTENDS Integers

CONSTANTS
  CooldownBase,   \* COOLDOWN_BASE_MS: no failure cools for less than this
  CooldownMax     \* COOLDOWN_MAX_MS: the cap, unless the base is larger

ASSUME CooldownAssumption ==
  /\ CooldownBase \in Nat \ {0}
  /\ CooldownMax \in Nat \ {0}

MaxOf(x, y) == IF x >= y THEN x ELSE y
MinOf(x, y) == IF x =< y THEN x ELSE y

\* `1_i64 << failures.saturating_sub(1).min(10)`: the shift never passes 10,
\* so the doubling is a table and the product never overflows.
Doubling == <<1, 2, 4, 8, 16, 32, 64, 128, 256, 512, 1024>>
Backoff(failures) == Doubling[MinOf(MaxOf(failures, 1), 11)]

\* How long a target cools after its `failures`-th consecutive failure.
cooldown(configured, failures) ==
  LET base == MaxOf(configured, CooldownBase)
  IN  MinOf(base * Backoff(failures), MaxOf(CooldownMax, base))
============================================================================
