------------------------------ MODULE MCProxy ------------------------------
(* Small instances of Proxy for TLC.                                       *)
EXTENDS Proxy, TLC

CONSTANTS p1, p2, e1, e2, k1, k2

\* One provider, a main and a spare endpoint that share a key.
OneProviderPlan ==
  <<[provider |-> p1, endpoint |-> e1, key |-> k1],
    [provider |-> p1, endpoint |-> e2, key |-> k1]>>

\* Two providers.
TwoProviderPlan ==
  <<[provider |-> p1, endpoint |-> e1, key |-> k1],
    [provider |-> p2, endpoint |-> e2, key |-> k2]>>

\* An exhausted request count that is reset one unit later.
Exhausted == [Q!NoHeaders EXCEPT !.requests = 0, !.reset_at = 1]
QuotaHeaders == {Exhausted}
PlainHeaders == {Q!NoHeaders}

NoRetryAfter == {H!NoTime}
RetryHints   == {2}

\* Requests are interchangeable in every safety property.
RequestSymmetry == Permutations(Requests)
============================================================================
