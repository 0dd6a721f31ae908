------------------------------ MODULE Affinity ------------------------------
(***************************************************************************)
(* Session affinity: AffinityBook of backend/src/affinity.rs and the       *)
(* requests that use it (proxy.rs over HTTP, responses_ws.rs over          *)
(* WebSocket).                                                             *)
(*                                                                         *)
(* The book binds a session to a target and remembers one provider that    *)
(* the session avoids.  A request looks its binding up, builds a plan      *)
(* without the avoided provider, claims a binding for the first target if  *)
(* it has none, tries targets, and when one has answered confirms,         *)
(* refreshes or moves the binding.  Each call locks the book on its own,   *)
(* so requests of the same session interleave between any two of them.     *)
(*                                                                         *)
(* Times are kept as ages: expires_at_ms is always last_seen_ms + ttl, so  *)
(* an entry is expired when it has not been seen for Ttl.  Which targets   *)
(* are available, and which the attempt loop skips, is left open here (see *)
(* Proxy); sessions of routes that are not sticky never reach the book.    *)
(***************************************************************************)
EXTENDS Naturals, FiniteSets, Functions

CONSTANTS
  Sessions,        \* AffinityKey: access key, session and model
  HttpRequests,    \* requests of proxy_openai
  WsRequests,      \* WebSocket connections of responses_ws
  Targets,         \* [provider, key, endpoint]: what plans may hold
  None,            \* no key, no endpoint
  Ttl,             \* SESSION_AFFINITY_TTL_MS
  MaxEntries,      \* SESSION_AFFINITY_MAX_ENTRIES
  AvoidFor,        \* circuit_breaker_open_ms
  MaxGeneration    \* bound: bindings made

Requests  == HttpRequests \cup WsRequests
Providers == {t.provider : t \in Targets}

ASSUME AffinityAssumption ==
  /\ Ttl \in Nat \ {0}
  /\ MaxEntries \in Nat \ {0}
  /\ AvoidFor \in Nat \ {0}
  /\ MaxGeneration \in Nat
  /\ IsFiniteSet(Sessions)

VARIABLES
  book,    \* AffinityState: entries, avoided, next_generation
  req,     \* each request
  served   \* history: the providers that have answered each session

vars == <<book, req, served>>

-----------------------------------------------------------------------------
(* The book.                                                               *)

Wildcard(p) == [provider |-> p, key |-> None, endpoint |-> None]
Bindable    == Targets \cup {Wildcard(p) : p \in Providers}
Binding     == [target: Bindable, generation: Nat \ {0}, confirmed: BOOLEAN]
NoBinding   == [target |-> Wildcard(None), generation |-> 0, confirmed |-> FALSE]

EmptyBook ==
  [entries |-> <<>>, avoided |-> <<>>, next_generation |-> 0]

Without(f, S) == Restrict(f, DOMAIN f \ S)
Put(f, s, x)  == [u \in DOMAIN f \cup {s} |-> IF u = s THEN x ELSE f[u]]

\* The entry of s is gone; it is as if just seen; it is replaced.
Forget(b, s)  == [b EXCEPT !.entries = Without(@, {s})]
Touch(b, s)   == [b EXCEPT !.entries[s].age = 0]
Unavoid(b, s) == [b EXCEPT !.avoided = Without(@, {s})]

Bound(b, s)   == s \in DOMAIN b.entries
Expired(b, s) == Bound(b, s) /\ b.entries[s].age >= Ttl

\* lookup: what it returns and what it leaves.
found(b, s) ==
  IF Bound(b, s) /\ ~ Expired(b, s) THEN b.entries[s].binding ELSE NoBinding

after_lookup(b, s) ==
  CASE Expired(b, s) -> Forget(b, s)
    [] Bound(b, s) /\ ~ Expired(b, s) -> Touch(b, s)
    [] OTHER -> b

\* The victims of ensure_*_capacity: the entries seen longest ago, as many as
\* must go for one more to fit.  Which of several is open: a HashMap's order.
Victims(f) ==
  {V \in SUBSET DOMAIN f :
     /\ IF Cardinality(DOMAIN f) < MaxEntries THEN V = {}
        ELSE Cardinality(V) = Cardinality(DOMAIN f) - MaxEntries + 1
     /\ \A v \in V, u \in DOMAIN f \ V : f[v].age >= f[u].age}

ensure_entry_capacity(b) ==
  IF Cardinality(DOMAIN b.entries) < MaxEntries THEN {b}
  ELSE LET live == Restrict(b.entries, {s \in DOMAIN b.entries : ~ Expired(b, s)})
       IN  {[b EXCEPT !.entries = Without(live, V), !.avoided = Without(@, V)] :
              V \in Victims(live)}

\* Mutant: failures are remembered without a limit.
ensure_avoid_nothing(b) == {b}

ensure_avoid_capacity(b) ==
  IF Cardinality(DOMAIN b.avoided) < MaxEntries THEN {b}
  ELSE LET live == Restrict(b.avoided, {s \in DOMAIN b.avoided : b.avoided[s].left > 0})
       IN  {[b EXCEPT !.avoided = Without(live, V)] : V \in Victims(live)}

\* A new binding, in a book that has room for it.
Insert(b, s, t, c) ==
  [b EXCEPT !.next_generation = @ + 1,
            !.entries = Put(@, s, [binding |-> [target |-> t, generation |-> b.next_generation + 1,
                                                confirmed |-> c],
                                   age |-> 0])]

\* claim, claim_target: the books it may leave; what it returns is then found.
claim_target(b, s, t) ==
  IF Bound(b, s) /\ ~ Expired(b, s) THEN {Touch(b, s)}
  ELSE {Insert(c, s, t, FALSE) : c \in ensure_entry_capacity(Forget(b, s))}

\* Mutant: the provider is not compared.
confirm_generation(b, s, x) ==
  IF Bound(b, s) /\ b.entries[s].binding.generation = x.generation
    THEN Unavoid([Touch(b, s) EXCEPT !.entries[s].binding.confirmed = TRUE], s)
    ELSE b

confirm(b, s, x) ==
  IF /\ Bound(b, s)
     /\ b.entries[s].binding.target.provider = x.target.provider
     /\ b.entries[s].binding.generation = x.generation
    THEN Unavoid([Touch(b, s) EXCEPT !.entries[s].binding.confirmed = TRUE], s)
    ELSE b

\* migrate, migrate_target.
migrate_target(b, s, t) ==
  {Unavoid(Insert(c, s, t, TRUE), s) :
     c \in IF Bound(b, s) THEN {b} ELSE ensure_entry_capacity(b)}

refresh_if_provider(b, s, p) ==
  IF Bound(b, s) /\ b.entries[s].binding.target.provider = p
    THEN [Touch(b, s) EXCEPT !.entries[s].binding.confirmed = TRUE]
    ELSE b

refresh_if_target(b, s, x) ==
  IF /\ Bound(b, s)
     /\ b.entries[s].binding.target = x.target
     /\ b.entries[s].binding.generation = x.generation
    THEN [Touch(b, s) EXCEPT !.entries[s].binding.confirmed = TRUE]
    ELSE b

clear_if_provider(b, s, p) ==
  IF Bound(b, s) /\ b.entries[s].binding.target.provider = p THEN Forget(b, s) ELSE b

mark_provider_failed(b, s, p) ==
  {[c EXCEPT !.avoided = Put(@, s, [provider |-> p, left |-> AvoidFor, age |-> 0])] :
     c \in LET d == clear_if_provider(b, s, p)
           IN  IF s \in DOMAIN d.avoided THEN {d} ELSE ensure_avoid_capacity(d)}

\* is_provider_avoided: its answer and what it leaves.
Avoids(b, s, p) ==
  /\ s \in DOMAIN b.avoided
  /\ b.avoided[s].left > 0
  /\ b.avoided[s].provider = p

\* Mutant: asking keeps the avoidance alive, the way lookup keeps a binding.
avoid_slides(b, s) ==
  IF s \notin DOMAIN b.avoided THEN b
  ELSE IF b.avoided[s].left = 0 THEN Unavoid(b, s)
  ELSE [b EXCEPT !.avoided[s].age = 0, !.avoided[s].left = AvoidFor]

after_avoid_check(b, s) ==
  IF s \notin DOMAIN b.avoided THEN b
  ELSE IF b.avoided[s].left = 0 THEN Unavoid(b, s)
  ELSE [b EXCEPT !.avoided[s].age = 0]

-----------------------------------------------------------------------------
(* A request up to its plan.                                               *)

Idle ==
  [pc |-> "idle", session |-> None, existing |-> NoBinding, todo |-> {},
   plan |-> {}, spill |-> FALSE, binding |-> NoBinding, at |-> None, faulted |-> FALSE]

Init ==
  /\ book = EmptyBook
  /\ req = [r \in Requests |-> Idle]
  /\ served = [s \in Sessions |-> {}]

At(r, label) == req[r].pc = label
Become(r, x) == req' = [req EXCEPT ![r] = x]

\* Bound: the book may number this many bindings.
BookBecomes(books) ==
  /\ book' \in books
  /\ book'.next_generation =< MaxGeneration

\* proxy_openai and connect_selected_upstream: the binding there is.
Lookup(r, s) ==
  /\ At(r, "idle")
  /\ Become(r, [Idle EXCEPT !.pc = "plan", !.session = s, !.existing = found(book, s)])
  /\ book' = after_lookup(book, s)
  /\ UNCHANGED served

\* build_upstream_plan, once it has its snapshot, looks again: what it finds
\* decides the order of the plan, which is left open here.
BeginPlan(r) ==
  /\ At(r, "plan")
  /\ Become(r, [req[r] EXCEPT !.pc = "providers", !.todo = Providers])
  /\ book' = after_lookup(book, req[r].session)
  /\ UNCHANGED served

\* ... and goes through the providers: an avoided one is left out, and so is
\* one that is unavailable; it matters whether the bound one is so for lack
\* of capacity or keys (transient_spill_provider_ids).  Of an available one
\* some targets join the plan.
PlanProvider(r, p) ==
  /\ At(r, "providers") /\ req[r].todo # {}
  /\ p = CHOOSE q \in req[r].todo : TRUE
  /\ book' = after_avoid_check(book, req[r].session)
  /\ LET mine == {t \in Targets : t.provider = p}
         done == [req[r] EXCEPT !.todo = @ \ {p}]
     IN  \/ Avoids(book, req[r].session, p) /\ Become(r, done)
         \/ /\ ~ Avoids(book, req[r].session, p)
            /\ \/ \E T \in SUBSET mine : Become(r, [done EXCEPT !.plan = @ \cup T])
               \/ /\ p = req[r].existing.target.provider
                  /\ Become(r, [done EXCEPT !.spill = TRUE])
  /\ UNCHANGED served

\* UpstreamPlan::prefer_target: the plan holds what the binding names.
Names(x, t) ==
  /\ x.target.provider = t.provider
  /\ x.target.key \in {None, t.key}
  /\ x.target.endpoint \in {None, t.endpoint}

prefer_target(r, x) == x # NoBinding /\ \E t \in req[r].plan : Names(x, t)

\* apply_affinity_to_plan: the binding is kept ...
KeepBinding(r) ==
  /\ At(r, "providers") /\ req[r].todo = {} /\ req[r].plan # {}
  /\ LET x == req[r].existing
     IN  /\ x # NoBinding
         /\ prefer_target(r, x) \/ req[r].spill
         /\ Become(r, [req[r] EXCEPT !.pc = "try", !.binding = x, !.existing = NoBinding, !.spill = FALSE])
  /\ UNCHANGED <<book, served>>

\* ... or dropped from the book, if it is still there ...
DropBinding(r) ==
  /\ At(r, "providers") /\ req[r].todo = {} /\ req[r].plan # {}
  /\ LET x == req[r].existing
     IN  /\ x # NoBinding
         /\ ~ prefer_target(r, x) /\ ~ req[r].spill
         /\ book' = clear_if_provider(book, req[r].session, x.target.provider)
  /\ Become(r, [req[r] EXCEPT !.existing = NoBinding])
  /\ UNCHANGED served

\* ... and a new one is claimed for the first target.  Someone else's claim
\* may have come first.
Claim(r) ==
  /\ At(r, "providers") /\ req[r].todo = {} /\ req[r].plan # {}
  /\ req[r].existing = NoBinding
  /\ \E t \in req[r].plan : BookBecomes(claim_target(book, req[r].session, t))
  /\ Become(r, [req[r] EXCEPT !.pc = "try", !.binding = found(book', req[r].session), !.spill = FALSE])
  /\ UNCHANGED served

\* No plan (a refused request, nothing available), no budget left, or nothing
\* more to try: the request ends with an error.
GiveUp(r) ==
  /\ req[r].pc \in {"plan", "providers", "try"}
  /\ Become(r, Idle)
  /\ UNCHANGED <<book, served>>

-----------------------------------------------------------------------------
(* Its attempts.  Sending touches nothing that is shared, so an attempt is *)
(* one step, taken when its outcome reaches the book.                      *)

\* prefer_target puts what the binding names first; the order of the rest is
\* left open.  The targets left after t: those before it were skipped.
Remaining(r, t) ==
  {u \in req[r].plan \ {t} : Names(req[r].binding, u) => Names(req[r].binding, t)}

Tries(r, t) == At(r, "try") /\ t \in req[r].plan

\* On to the next target, if there is one.  faulted_providers matters for the
\* bound provider only.
Retry(r, t, fault) ==
  Become(r, IF Remaining(r, t) = {} THEN Idle
            ELSE [req[r] EXCEPT !.plan = Remaining(r, t),
                                !.faulted = @ \/ (fault /\ req[r].binding.target.provider = t.provider)])

Serves(r, p) == served' = [served EXCEPT ![req[r].session] = @ \cup {p}]

\* note_affinity_failure, or finalize_tap of the last answer: the provider
\* failed (FailureScope Model or Provider).
HttpFails(r, t) ==
  /\ Tries(r, t) /\ r \in HttpRequests
  /\ book' \in mark_provider_failed(book, req[r].session, t.provider)
  /\ Retry(r, t, FALSE)
  /\ UNCHANGED served

\* A WebSocket could not be opened: the provider has failed once there is no
\* target of it left.
ConnectFails(r, t) ==
  /\ Tries(r, t) /\ r \in WsRequests
  /\ ~ \E u \in Remaining(r, t) : u.provider = t.provider
  /\ book' \in mark_provider_failed(book, req[r].session, t.provider)
  /\ Retry(r, t, TRUE)
  /\ UNCHANGED served

\* The same with FailureScope Key: the provider is at fault, not avoided.
ConnectRejected(r, t) ==
  /\ Tries(r, t) /\ r \in WsRequests
  /\ ~ \E u \in Remaining(r, t) : u.provider = t.provider
  /\ Retry(r, t, TRUE)
  /\ UNCHANGED <<book, served>>

\* Any other failure (a refused reservation, the client's own error, a quota,
\* one of several addresses) says nothing about the provider.
OtherFailure(r, t) ==
  /\ Tries(r, t)
  /\ Retry(r, t, FALSE)
  /\ UNCHANGED <<book, served>>

\* finalize_tap of an answer: the binding was right, or it moves.  (A request
\* whose target differs from its binding always has affinity_should_migrate.)
HttpSucceeds(r, t) ==
  /\ Tries(r, t) /\ r \in HttpRequests
  /\ LET s == req[r].session
         x == req[r].binding
     IN  IF x.target = t
           THEN book' = IF x.confirmed THEN refresh_if_target(book, s, x) ELSE confirm(book, s, x)
           ELSE BookBecomes(migrate_target(book, s, t))
  /\ Serves(r, t.provider)
  /\ Become(r, Idle)

Open(r, p) == [Idle EXCEPT !.pc = "open", !.session = req[r].session, !.at = p]

\* connect_selected_upstream, confirm_ws_affinity.
Connected(r, t) ==
  /\ Tries(r, t) /\ r \in WsRequests
  /\ LET s == req[r].session
         x == req[r].binding
     IN  IF x.target.provider = t.provider
           THEN book' = IF x.confirmed THEN refresh_if_provider(book, s, t.provider)
                        ELSE confirm(book, s, x)
           ELSE IF req[r].faulted
             THEN BookBecomes(migrate_target(book, s, Wildcard(t.provider)))
             ELSE UNCHANGED book
  /\ Serves(r, t.provider)
  /\ Become(r, Open(r, t.provider))

\* The provider has no WebSockets: turns go over HTTP, nothing is confirmed.
Bridged(r, t) ==
  /\ Tries(r, t) /\ r \in WsRequests
  /\ Become(r, Open(r, t.provider))
  /\ UNCHANGED <<book, served>>

Attempt(r, t) ==
  \/ HttpFails(r, t) \/ ConnectFails(r, t) \/ ConnectRejected(r, t) \/ OtherFailure(r, t)
  \/ HttpSucceeds(r, t) \/ Connected(r, t) \/ Bridged(r, t)

-----------------------------------------------------------------------------
(* The end of a turn on an open connection: three calls to the book.       *)

TurnFails(r) ==
  /\ At(r, "open")
  /\ book' \in mark_provider_failed(book, req[r].session, req[r].at)
  /\ UNCHANGED <<req, served>>

TurnSucceeds(r) ==
  /\ At(r, "open")
  /\ Become(r, [req[r] EXCEPT !.pc = "settle", !.binding = found(book, req[r].session)])
  /\ book' = after_lookup(book, req[r].session)
  /\ Serves(r, req[r].at)

Settled(r) == Open(r, req[r].at)

\* The session was bound: to this provider, or to another one.
SettleTurn(r) ==
  /\ At(r, "settle") /\ req[r].binding # NoBinding
  /\ LET s == req[r].session
         x == req[r].binding
         p == req[r].at
     IN  IF x.target.provider = p
           THEN book' = IF x.confirmed THEN refresh_if_provider(book, s, p) ELSE confirm(book, s, x)
           ELSE BookBecomes(migrate_target(book, s, Wildcard(p)))
  /\ Become(r, Settled(r))
  /\ UNCHANGED served

\* It was not: claim, then confirm if the claim was not beaten.
ClaimTurn(r) ==
  /\ At(r, "settle") /\ req[r].binding = NoBinding
  /\ BookBecomes(claim_target(book, req[r].session, Wildcard(req[r].at)))
  /\ LET x == found(book', req[r].session)
     IN  Become(r, IF x.target.provider = req[r].at
                     THEN [req[r] EXCEPT !.pc = "confirm", !.binding = x]
                     ELSE Settled(r))
  /\ UNCHANGED served

ConfirmTurn(r) ==
  /\ At(r, "confirm")
  /\ book' = confirm(book, req[r].session, req[r].binding)
  /\ Become(r, Settled(r))
  /\ UNCHANGED served

Close(r) ==
  /\ At(r, "open")
  /\ Become(r, Idle)
  /\ UNCHANGED <<book, served>>

-----------------------------------------------------------------------------
(* The administrator and time.                                             *)

Keep(f, ok(_)) == Restrict(f, {s \in DOMAIN f : ok(f[s])})

\* A provider is disabled or deleted.
purge_provider(p) ==
  book' = [book EXCEPT !.entries = Keep(@, LAMBDA e : e.binding.target.provider # p),
                       !.avoided = Keep(@, LAMBDA a : a.provider # p)]

\* An account or an address is deleted.
purge_upstream_key(k) ==
  book' = [book EXCEPT !.entries = Keep(@, LAMBDA e : e.binding.target.key # k)]

purge_endpoint(e) ==
  book' = [book EXCEPT !.entries = Keep(@, LAMBDA x : x.binding.target.endpoint # e)]

\* A route was changed.
clear == book' = EmptyBook

\* The console asks how many sessions each provider has.
binding_counts_by_provider ==
  book' = [book EXCEPT !.entries = Keep(@, LAMBDA e : e.age < Ttl),
                       !.avoided = Keep(@, LAMBDA a : a.left > 0)]

Admin ==
  /\ \/ \E t \in Targets :
          \/ purge_provider(t.provider)
          \/ purge_upstream_key(t.key)
          \/ purge_endpoint(t.endpoint)
     \/ clear
     \/ binding_counts_by_provider
  /\ UNCHANGED <<req, served>>

Older(age, limit) == IF age < limit THEN age + 1 ELSE age

AgedEntry(e) == [e EXCEPT !.age = Older(e.age, Ttl)]

AgedAvoidance(a) ==
  [a EXCEPT !.age = Older(a.age, AvoidFor), !.left = IF a.left = 0 THEN 0 ELSE a.left - 1]

Tick ==
  /\ book' = [book EXCEPT !.entries = [s \in DOMAIN @ |-> AgedEntry(@[s])],
                          !.avoided = [s \in DOMAIN @ |-> AgedAvoidance(@[s])]]
  /\ UNCHANGED <<req, served>>

-----------------------------------------------------------------------------
Next ==
  \/ \E r \in Requests :
       \/ (\E s \in Sessions : Lookup(r, s)) \/ BeginPlan(r) \/ (\E p \in Providers : PlanProvider(r, p))
       \/ KeepBinding(r) \/ DropBinding(r) \/ Claim(r) \/ GiveUp(r)
       \/ (\E t \in Targets : Attempt(r, t))
       \/ TurnFails(r) \/ TurnSucceeds(r) \/ SettleTurn(r) \/ ClaimTurn(r) \/ ConfirmTurn(r)
       \/ Close(r)
  \/ Admin
  \/ Tick

Spec == Init /\ [][Next]_vars

\* Only time is sure to go on.
FairSpec == Spec /\ WF_vars(Tick)

-----------------------------------------------------------------------------
(* Properties.                                                             *)

\* A map of some of the sessions.
MapTo(f, V) == DOMAIN f \subseteq Sessions /\ f \in [DOMAIN f -> V]

EntryState == [binding: Binding, age: 0 .. Ttl]
AvoidState == [provider: Providers, left: 0 .. AvoidFor, age: 0 .. AvoidFor]

BookOK(b) ==
  /\ b = [entries |-> b.entries, avoided |-> b.avoided, next_generation |-> b.next_generation]
  /\ MapTo(b.entries, EntryState)
  /\ MapTo(b.avoided, AvoidState)
  /\ b.next_generation \in Nat

RequestState ==
  [pc: {"idle", "plan", "providers", "try", "open", "settle", "confirm"},
   session: Sessions \cup {None}, existing: Binding \cup {NoBinding},
   todo: SUBSET Providers, plan: SUBSET Targets, spill: BOOLEAN,
   binding: Binding \cup {NoBinding}, at: Providers \cup {None}, faulted: BOOLEAN]

TypeOK ==
  /\ BookOK(book)
  /\ req \in [Requests -> RequestState]
  /\ \A r \in Requests :
       /\ ~ At(r, "idle") => req[r].session \in Sessions
       /\ req[r].pc \in {"open", "settle", "confirm"} => req[r].at \in Providers
       /\ req[r].pc \in {"try", "confirm"} => req[r].binding \in Binding
  /\ served \in [Sessions -> SUBSET Providers]

\* SESSION_AFFINITY_MAX_ENTRIES bounds both maps, whichever call inserts.
Bounded ==
  /\ Cardinality(DOMAIN book.entries) =< MaxEntries
  /\ Cardinality(DOMAIN book.avoided) =< MaxEntries

\* A confirmed binding names a provider that has answered this very session,
\* although confirmations of requests that began under an earlier binding, or
\* before the book was cleared and its generations began again, come late.
ConfirmedServed ==
  \A s \in DOMAIN book.entries :
    book.entries[s].binding.confirmed => book.entries[s].binding.target.provider \in served[s]

\* Behind it: what a turn is about to confirm is its own provider, which has
\* answered.
SettleInv ==
  \A r \in Requests :
    /\ req[r].pc \in {"settle", "confirm"} => req[r].at \in served[req[r].session]
    /\ At(r, "confirm") => req[r].binding.target.provider = req[r].at

\* The session has a WebSocket open to the provider.
OnSocket(s, p) ==
  \E r \in WsRequests : req[r].pc \in {"open", "settle", "confirm"} /\ req[r].session = s /\ req[r].at = p

\* A session is not kept off a provider for ever: whatever plans its requests
\* make meanwhile and whatever failures of earlier attempts still arrive, it
\* stops avoiding the provider.  One thing renews an avoidance without a plan:
\* each turn that fails on a WebSocket the session has open to the provider
\* (the end of a turn in responses_ws.rs), for as long as the connection lasts.
AvoidanceEnds ==
  \A s \in Sessions, p \in Providers :
    Avoids(book, s, p) ~> ~ Avoids(book, s, p) \/ OnSocket(s, p)
============================================================================
