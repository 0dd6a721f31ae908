# Codex Gate: a TLA+ model

Codex Gate is a gateway in front of several upstream providers of OpenAI-style
APIs. A client's request is authenticated, planned over the providers that may
serve its model, tried on one target after another, and its answer streamed
back. Decisions about availability (circuit breakers, capacity, quota, session
affinity, cached configuration) are kept in memory and shared by every request
in flight; configuration, credentials, usage, prices and notifications are kept
in a database that several gateways may share. This directory models both,
checks them with TLC on small instances and proves most safety properties for
instances of every size.

Source paths below are relative to `backend/src/` unless they start with `docs/`
or `frontend/`.

## 1. Inventory

| Component | State | Operations | Hard behaviour | What makes it correct |
|---|---|---|---|---|
| Target health books (`health.rs`) | per endpoint and per key: generation, probe owner, failures, end of cooldown | begin, success, failure, neutral (and Drop), reset, defer | results of old attempts arrive after the breaker has opened, was reset or deferred; the clock of a caller lags | one probe; cooldowns never cut short; no probe lost |
| Provider runtime (`provider_runtime.rs`) | per provider: permits in flight, breaker, half-open successes | acquire and release capacity, begin, settle, reset, purge | permits outlive a purge; requests work with clones of old settings | the counter equals the permits; one probe; recovery is earned |
| Key quota (`provider_runtime.rs`) | per key: remaining counts, reset time, cooldown | reserve, observe a response, set a cooldown, expire | answers are observed in any order | a blocked key is not used |
| Attempt budget (`resilience.rs`) | attempts used, sends per provider, deadline | begin, note a send | failover, replay and recovery all draw on it | one limit for all of them |
| HTTP attempt loop (`proxy.rs`) | per request: place in the plan, reservation, exclusions, last failure | choose, reserve, prepare, send, replay, recover, settle, stream | a reservation is five locks; the client may leave at any await; state changes between reservation and send | nothing leaked; nothing sent to a cooling target; every request ends |
| Session affinity (`affinity.rs`) | binding and avoided provider per session, generation counter | lookup, claim, confirm, migrate, refresh, mark failed, purge, clear | every call locks separately; late confirmations and failures; `clear` restarts generations | only what has served is confirmed; an avoidance ends; bounded maps |
| Configuration cache (`cache/upstream_cache.rs`) | snapshot and its age, refresh lock | get, load, invalidate | loads race with changes; a load fails or is dropped holding the lock | never backwards; old configuration does not stay |
| Client key cache (`cache/api_key_cache.rs`) | rows with their age | validate, insert, trim, clear | a row read before a change is inserted after the clear | a revoked key is refused in the end |
| Codex credentials (`codex_oauth*.rs`, `codex_catalog.rs`) | login sessions with runner and save gate; account rows with tokens and a refresh lease | start, poll, callback, cancel, save; refresh, report unauthorized, invalidate | rotating refresh tokens, expired leases, two gateways, cancel against save | no refresh overwrites newer tokens; a cancelled login is not saved; a login ends |
| Notifications (`notification/`) | rules with leases, alert state, runs, deliveries | evaluate, create a run, claim, send, record, retry, clean up, edit | a crash between two statements; two instances; an expired lease; a timeout after the receiver has accepted | windows leave no gap; a delivery repeats only after an error its sender saw; a firing alert is announced |
| Price synchronisation (`price_sync.rs`, `db/price_sync.rs`) | control row with lease and generation, jobs, prices | lease, download, compare, apply, preview, release, edit | lease lost under a worker; edits between comparison and apply | manual prices are kept; no older catalogue after a newer one; it catches up |
| Telemetry, log archive (`telemetry.rs`, `log_archive.rs`) | bounded queue, aggregates, buffers, tables, archive | reserve, submit, flush, rotate the day, archive, delete | one statement of several fails; restart; the worker's panic; a batch listed and another deleted | no count overwritten; with archiving on, only archived logs are deleted; every event counted or lost in a known way |
| Administration (`admin.rs`, `admin/upstreams.rs`) and its tables (`db.rs`, `db/provider_config.rs`, `db/upstream_config.rs`) | providers, endpoints, keys, models, aliases, routes, groups, client keys, permissions | create, change, delete, reorder, synchronise models | a handler is several transactions; two handlers interleave, on Postgres also within a transaction, or one fails half way | derived permissions follow the groups; hand-made ones stay; nothing refers to what is gone |
| Start and migration (`main.rs`, `db.rs`, `db/upstream_config.rs`) | schema, rows, one-time flags | create, add columns, rebuild tables, convert | cut short anywhere, repeated, two at once | no row lost; a serving gateway has what its statements need; it comes to serve |
| Route planning (`proxy.rs`, `selector.rs`, `routing_availability.rs`, `key_rotation.rs`) | rotation counters | filter, rank, order | reads several books one after the other | not modelled |
| Responses over WebSocket (`responses_ws.rs`, `responses_lite.rs`) | session, upstream connection, turn | connect, turn, bridge, close | connection replaced between turns | only its affinity calls are modelled |
| Encrypted-content recovery (`encrypted_content.rs`) | remembered rejections | strip, remember | bounded memory | an outcome in `Proxy` |
| Conversions (`responses_via_chat.rs`, `request_overrides.rs`, `response_events.rs`, `openai.rs`) | none | pure | none | unit tested |

Interactions. A request validates its key and takes a snapshot through the two
caches, looks up its session, plans, then for each target reserves provider
capacity, provider breaker, key breaker, endpoint breaker and quota, in this
order and each under its own lock. The reservation is a set of guards; dropping
them settles neutrally. An answer hands the reservation to a reader task, which
settles it when the body ends, and the request's event goes to the telemetry
queue. A Codex key's access token comes from `codex_oauth.rs` between reservation
and send. Administration handlers write the database in several transactions and
then clear the caches, purge entries and reset breakers. Notifications ask
telemetry to flush before they read statistics. All background loops of several
gateways meet in the database only: leases in rows keep them apart.

`PROJECT.json` lists every component with its status, and the hazards: what is
hard to test here, each at its line, with the properties that cover it.

## 2. Modules

| Module | Models | State ↔ code |
|---|---|---|
| `Resilience` | `cooldown_ms` | pure: doubling with a cap |
| `HealthEntry` | one `RuntimeHealthState` and what each operation does to it | `generation`, `next_probe_id`, `probe_owner`, `consecutive_failures`, `open_until` |
| `HealthBook` | `RuntimeHealthBook` with its guards | `book`, and per attempt its phase, target and token (`RuntimeHealthAttemptGuard`) |
| `Breaker` | abstract: what a breaker promises | `shut` (end of cooldown), `prober` (holder of the probe); no tokens, no generations |
| `ProviderEntry`, `ProviderRuntime` | `ProviderRuntimeBook` | `entry`; per caller its phase, its clone of the breaker setting, its token |
| `QuotaEntry` | `QuotaBook`'s entry | counts, reset, cooldown |
| `Proxy` | `proxy_openai`, `UpstreamAttemptReservation`, `finalize_tap`, over the three entry modules | the four books; per request its label, plan index, guards, budget, exclusions |
| `Affinity` | `AffinityBook` and its callers over HTTP and WebSocket | `book` is `AffinityState`; per request its plan and binding |
| `UpstreamCache` | `UpstreamCache` and an administrator | `cached`, `lock`, per reader its place in `get` |
| `ApiKeyCache` | `ApiKeyCache` and an administrator | `row` (database), `entries` (`by_hash`), per request its place in `validate` |
| `RequestCaches` | both caches in the order `proxy_openai` uses them, over one clock | the two modules' variables |
| `CodexAccount` | the statements on a row of `codex_oauth_accounts` | one operator per statement or transaction |
| `CodexRefresh` | `prepare_auth_with_status` and its callers, the authorization server | `rows`; per caller its step, base token and lease; `good` tokens of the server |
| `CodexLogin` | `CodexOAuthManager`'s sessions, over `CodexRefresh` | `session`, `runner`, `gate` (`save_gate`), tokens got |
| `NotificationStore` | statements of `store.rs`, schedule of `mod.rs`, the alert automaton | one operator per statement |
| `Notification` | the rule loop, delivery tasks and administrator over those rows | `rule`, `alert`, `runs` with deliveries; per instance its step, per delivery its sender; `sent`: deliveries sent without an error seen since |
| `PriceSync` | workers, previews, applies, the control row, the source | `control`, `price`, `jobs`; per worker its step and its copy of the job |
| `Telemetry` | queue, `TelemetryWorker`, tables, retention and archive | `archiving` (the setting), `queue`, `worker` (its aggregates and buffers), `daily`, `hourly`, `logs`, `archive` |
| `Catalogue` | administration handlers as lists of transactions, and the transactions | `cat` (the tables), per call the writes still to come and what its open transaction has found (`seen`) |
| `Startup` | `migrate` of both databases as a program of steps; serves `Catalogue` | `schema`, `rows`, flags; per gateway its place in the program and what it saw |
| `HealthBookProofs`, `ProviderRuntimeProofs`, `ProxyProofs`, `AffinityProofs`, `RequestCachesProofs`, `CodexProofs`, `NotificationProofs`, `StartupProofs` | theorems (section 4) | |
| `MC*` | instances for TLC that need definitions | |

`Proxy` composes `HealthEntry` (twice: endpoints and keys), `ProviderEntry` and
`QuotaEntry` through `INSTANCE`; `HealthBook` and `ProviderRuntime` use the same
entry modules, so what the loop does to an entry is what the books are checked
for. `CodexLogin` extends `CodexRefresh` extends `CodexAccount`; `RequestCaches`
conjoins the steps of two caches; `Startup` extends `Catalogue`, so that
migration and calls meet in one table. Definitions keep the names of the source
where they can; definitions whose comment starts with "Mutant" are deliberately
wrong variants of a definition, used to show that a property can fail.

### Abstractions

* Identifiers are model values, bodies and headers are left out unless a
  decision depends on them (status class, Retry-After, rate-limit counts).
* `HealthBook`: callers read the clock before they lock the book; `MaxLag` is
  how far their reading may lag.
* `ProviderRuntime` has one provider; a caller's breaker setting is that of the
  snapshot it cloned (`clone`), while `ToggleBreaker` changes the stored one.
  `max_concurrency` is read from the clone too (`provider_runtime.rs:154`); in the
  model it is the same in every clone.
* `Proxy`: the five steps of a reservation are separate steps; giving it back,
  settling it, and a reset are one step each: the code takes the books' locks
  one after the other without an await, and the model leaves out what another
  thread could do in between. The backoff sleep is the gap between `ChooseTarget`
  and `BeginAttempt`. All requests share one `Deadline`. `ReadQuota` stands for
  every reader that expires a quota entry.
* `Affinity` keeps ages instead of times (an entry's expiry is always its last
  use plus the TTL), leaves open which targets are available, and takes an
  attempt as one step when its outcome reaches the book: sending touches no
  shared state. The order of the plan behind the bound target is open.
* `UpstreamCache`: a table is the number of changes it has seen; a snapshot has
  an age. The dozen queries of `load_snapshot` are two. `ApiKeyCache`: a row is
  live, off or gone; an entry may be trimmed at any time, because the keys of
  other clients fill the map.
* Codex: tokens are numbers in the order the server issues them, and the server
  takes each refresh token once. Expiry and leases are what they are compared
  for. Quota windows, e-mail and plan are left out.
* `Notification`: one rule; a cron expression is the multiples of `Period`; for an
  alert, time is what it is compared for. A sending and what its sender hears of
  it are two steps; when the receiver takes it in, is open. Payloads, encryption and the displayed
  status of a run are left out.
* `PriceSync`: of a price the active row is kept; of `catalog_generation` a job
  keeps whether it is still the control row's. Parsing is what it decides: unique
  names, aliases that are unique and free, and models without a price.
* `Telemetry`: a row of statistics is the set of events it counts (a number per
  event for the hourly one, which is added to); one gateway. An event's text is
  left out but for whether cutting it panics.
* `Catalogue`: endpoints and keys of a provider are one kind of child; one model,
  one alias and two routes (the default and one model's). A handler reads and
  validates when it begins and then makes its writes one by one; any may fail. A
  transaction that reads what it changes (refresh, new provider, list of a key,
  groups, deletion of a group) is one step on SQLite (`BEGIN IMMEDIATE`, or a
  DELETE first); on Postgres (READ COMMITTED) each of its reading statements may
  be a step of its own (`Read`) that finds what is committed by then, and the
  commit (`Commit`) applies what was found. Row locks are what a statement waits
  for (`MayOpen`, `MayDelete`); a row deleted by another transaction is no longer
  there (`Rewritten`); unique and foreign keys refuse at the commit.
* `Startup`: columns that belong together have one name. A step looks at the schema
  and then acts, so another gateway may come in between; on SQLite there is one
  gateway and a rebuild is one transaction of four statements. Administration
  calls begin when all gateways serve, and may be under way when one restarts.

## 3. Runs

| Run | Instance | Shows |
|---|---|---|
| `HealthBook` | one target, three attempts, clock lag 1, three generations | `SingleProbe`: while a breaker is not closed one attempt at most is under way in its generation. `ProbeHeld`: a claimed probe has a living owner. `CooldownHonoured`: only a reset shortens a cooldown. `Recovers`: no breaker is shut for good. `ImplementsBreaker`: every step is a step of `Breaker`. |
| `ProviderRuntime` | three callers, two of which may linger behind a client, limit 2, one purge, half-open threshold 2 | `CapacityAccounting`, `SingleProbe`, `ProbeHeld`, `EarnedRecovery`, `FullProviderDrains`, with breaker settings that change under the callers and a purge under their permits. `FullProviderDrains`: a full provider admits again unless clients that neither read nor leave hold all its permits. |
| `Proxy` | two requests, two endpoints with one key, one reset | `AttemptCap`: one budget for failover, replay and recovery. `NothingLeaked`: every permit and probe belongs to a living request. `NoForwardWhileCooling`: nothing is sent while a breaker of its target is open, whatever happened since the reservation. |
| `ProxyLive` | two requests, two providers that admit one each | `EveryRequestEnds` |
| `Affinity` | an HTTP request and a WebSocket connection of one session, two providers | `ConfirmedServed`: a confirmed binding names a provider that answered this session, although generations restart when the book is cleared. |
| `AffinityShared` | a request and a WebSocket connection, two sessions, room for one | `Bounded`: both maps keep to the limit. `AvoidanceEnds`: the session comes back to a provider it avoids, whatever late failures arrive and however often it asks, or has a WebSocket open to it, whose failing turns renew the avoidance. |
| `UpstreamCache` | `RequestCaches`: two requests, one key, two tables, one change to each | `LockHeld`: every way out of a load gives the lock back. `NeverBackwards`: the cache does not return to an older configuration. `StaleEnds`: old configuration is not served for ever. `RevokedEnds`: nor is a revoked key accepted for ever, although a row read before the change may be remembered after it. |
| `CodexLogin` | a session in one gateway, a caller in another, two keys, two accounts | `LeaseProtects`: refreshed tokens are only written over those the lease was taken on. `CancelledNotSaved`: a login reported as cancelled never writes its credentials. `LoginEnds`: a login with a runner does not stay pending. |
| `Notification` | two instances, a report or an alert rule, one channel, two windows, one fault | `ResentAfterError`: a delivery goes out again only after an error that the sender of the last attempt saw; a crash, a failed update or a second instance does not repeat it. `NoGap`: once a rule has recorded an end, the next window begins no later. `AlertAnnounced`: a firing alert is announced although the state is stored before the run exists. |
| `PriceSync` | two workers, one price, two catalogues, three administrator's calls, one fault | `ManualKept`: a manual price gives way only where an administrator chose so for that very row. `AutomaticForward`: no automatic worker puts an older catalogue in the place of a newer one. `CatchesUp`: the last catalogue is applied in the end. |
| `Telemetry` | two events, queue of 2, two midnights, batches of one, two faults, archiving on or off at each start | `DailyKept`: a daily row, which is set and not added to, never loses a count. `LogsArchived`: while archiving is enabled, retention deletes only what it has archived. `Counted`: an event that was sent is counted by day and hour in the end, unless the process or its worker dies or the flush before a change of day fails. |
| `Startup` | two gateways on Postgres or one on SQLite, over no database, an old or a current one; two administrators, two calls whose statements interleave on Postgres, one crash | `UsageKept`: no start loses rows. `ReadyToServe`: a serving gateway has the columns, keys and one-time conversions its statements rely on. `Serves`: every gateway comes to serve, unless an old route is named `*`. `CompatFollows`: derived permissions are those of the groups, until a transaction commits over another one. `AdminDecides`: hand-made permissions and switches stay, but for a transaction that found the key before. `ReferencesHold`: nothing refers to a deleted provider but a route that raced with the deletion. |

The run of `HealthBook` checks its type invariant; in the other modules `TypeOK` is
part of the inductive invariants of section 4, each of which TLC has confirmed on
the instance of its run.

### Bounds and why they are enough

* `MaxGeneration` (health, provider): three generations are an opening, a reset
  or deferral after it, and a third to be stale against. Tokens are compared
  with the present generation only, so a fourth adds no new relation.
* Three attempts: a probe, a stale attempt from before, and one that is refused
  or comes after. `MaxAttempts` = 3 in `ProviderRuntime`: the failure that
  opens and the two successes that close (`HalfOpenThreshold` = 2).
* `MaxClock` (health, provider): the clock goes on past it as long as a cooldown
  has not ended, so every cooldown is seen to end; the values reach both sides of
  `CooldownMax`.
* `Proxy`: two requests are enough for one to change a book between two steps of
  the other; two targets for a failover, which share a key in `Proxy` and
  share nothing in `ProxyLive`. `MAX_ATTEMPTS` is 3 in the code; 2 makes the
  limit bite within the plan.
* `Affinity`: two generations are a claim and the migration after it; `clear`
  makes them start again, which is where generations repeat. `AvoidFor` = 2 lets
  a request ask between two ticks. `AffinityShared` has both kinds of caller and
  two sessions, so a connection of one renews what a request of another asks for.
* `UpstreamCache`: ages stop one past the grace period, so time is unbounded; one
  change per table makes a snapshot of two moments possible.
* `CodexLogin`: `MaxTokens` = 2 beyond the first are a refresh and a login, in
  either order. Waiters try `WaitAttempts` times.
* `Notification`: two windows (`MaxClock`) are what a gap needs, one fault what
  separates two statements; a second fault only repeats it. `TriggerAfter` = 2
  passes through `pending`. `FirstEnd` = 0: the rule has a recorded end.
* `PriceSync`: two catalogues and two workers are an older and a newer one in any
  order; `m1` is an alias in one and a name in the other.
* `Telemetry`: two events in batches of one make retention need a second batch and
  two flushes; two midnights separate a count, its row and its deletion; two faults
  are a failure or panic and a restart after it, in either order.
* `Startup`: one crash at any statement, with the restart after it, and a second
  gateway at any place of its own start. Two calls (`MaxEdits`) interleave; a
  transaction opens ahead of its commit (`Read`) only while another call is under
  way, since nothing can come between otherwise. Calls have no names and gateways
  that serve are alike, so a call is the first idle one, at the first gateway unless
  another call is under way.

### Fairness and why the code justifies it

* `HealthBook`, `ProviderRuntime`: time passes, and guards and permits are
  settled: they are RAII values of tasks that end or are dropped. The callers in
  `Lingering` are excepted: a reader waits for its client without a timeout
  (`proxy.rs:4101`), and a WebSocket connection, which holds a permit, for the
  client's next message; `FullProviderDrains` says how far that reaches.
* `Proxy` (`ProxyLive`): every step of a request that the code takes on its own
  is weakly fair, time passes; requests to an upstream end by
  `UPSTREAM_REQUEST_TIMEOUT_MS`. The reader sends to the client's channel without
  a timeout, so a client that neither reads nor leaves is excluded here (a
  hazard of its own in `PROJECT.json`).
* `Affinity`: only time is fair; a connection may fail turn after turn for ever,
  which `AvoidanceEnds` excepts in its own words (`OnSocket`).
* `RequestCaches`: queries end, requests go on, time passes, and the refresh lock
  is strongly fair because tokio's mutex serves waiters in order.
* `CodexLogin`: a session's time passes, its runner's HTTP requests (which have
  timeouts) and statements end.
* `Notification`: the loop polls, sends have timeouts, time passes and the lease of
  an instance that died ends. Crashes, failures and the administrator are not fair.
  `AlertAnnounced` assumes that the metric is seen above the threshold again.
* `PriceSync`: the loop of `spawn` runs, workers go on, an unrenewed lease ends.
* `Telemetry`: the worker goes on; its biased `select!` serves flush requests first,
  and since those come from notifications once a minute at most, events and ticks
  get their turn infinitely often (strong fairness). Nobody restarts a worker that
  panicked; only the process's restart does, and that is not fair.
* `Startup`: statements return and a gateway that failed is started again
  (`docker-compose.yml`: restart unless stopped). Calls are not fair.

`CHECK_DEADLOCK FALSE` stands where the instance may stop because its requests
are all served and its bounds used up.

## 4. Proofs

The theorems hold for every value of the constants: any number of targets,
requests, sessions, gateways or channels, any threshold, duration or bound. The
assumptions on constants are named, stand in the module that declares the
constant, and are evaluated by TLC with every run. Besides types of the settings
they say that `Nobody` (no owner) is not one of the owners (`ReadersAssumption`,
`OwnersAssumption`, `InstancesAssumption`; the code has `None` or NULL there), and
that the requests in flight and the sessions are finitely many, since permits and
entries of the maps are counted (`ProxyAssumption`, `AffinityAssumption`), and that
no id is the mark of "no provider" or "no policy" (`CatalogueAssumption`; ids are
numbers).

Few of the properties are inductive. The invariants that are, stand with the
properties in the component's module; the proof modules show that they hold at
first, that every action keeps them, and that they imply the property.

| Module | Theorems | Invariant, and why it is needed |
|---|---|---|
| `HealthBookProofs` | `TypeCorrect`, `TokenInvariant`, `SingleProbeHolds`, `ProbeHeldHolds`, `ClosedForgetsHolds`, `CooldownHonouredHolds`, `BreakerRefined` | `TokenInv`, below |
| `ProviderRuntimeProofs` | `TypeCorrect`, `CapacityHolds`, `TokenInvariant`, `SingleProbeHolds`, `ProbeHeldHolds`, `EarnedRecoveryHolds` | `TokenInv` of the provider: the same idea, restricted to guards handed out since the last purge (`Young`), with probe ids that are distinct among them; and that finitely many permits are out |
| `ProxyProofs` | `ProxyInvariant`, `TypeCorrect`, `AttemptCapHolds`, `NothingLeakedHolds`, `NoForwardWhileCoolingHolds` | `BudgetInv` (an attempt is drawn before it is sent, and a provider's limit is checked while its target is chosen), `GuardInv` (which label holds which guards), `CoolInv` (a token that still fits its entry is of a time when the breaker was not open) |
| `AffinityProofs` | `AffinityInvariant`, `TypeCorrect`, `BoundedHolds`, `ConfirmedServedHolds` | `SettleInv`: what a turn is about to confirm is its own provider, and that has answered |
| `RequestCachesProofs` | `TypeCorrect`, `LockHeldHolds`, `LoadInvariant`, `NeverBackwardsHolds` | `LoadInv`: each query of a load lies between what is installed and what is in the database, which only the refresh lock can ensure |
| `CodexProofs` | `TypeCorrect`, `LeaseInvariant`, `LeaseProtectsHolds`, `SaveInvariant`, `CancelledNotSavedHolds` | `LeaseInv`: while a call owns the lease the row has the credentials it began with; `SaveInv`: a runner that saves holds the gate, and a saved session that is still pending is beyond cancelling |
| `NotificationProofs` | `DeliveryInvariant`, `TypeCorrect`, `ResentAfterErrorHolds`, `ReportInvariant`, `NoGapHolds` | `DeliveryInv`: a task at work is the owner of its row, and a row that was sent without an error seen since is `sending` or `succeeded`; `ReportInv`: the recorded end, and every loop's copy of it, lie in the reported time, and a loop that completes a report has its run |
| `StartupProofs` | `StartupInvariant`, `TypeCorrect`, `ReadyToServeAlways`, `ReferencesHoldAlways`, `CompatFollowsAlways`, `UsageKeptAlways`, `AdminDecidesAlways` | `StartupInv` over `CatalogueInv`, below |

**Breakers.** `SingleProbe` is not inductive: a second plain token could exist when
the breaker opens. `TokenInv` says what a token tells about its entry: no token is
ahead of its entry (`GenerationBound`); a plain token of the present generation
means the breaker is closed (`PlainTokens`), because opening, resetting and
deferring all advance the generation; a probe token of the present generation is
the claimed probe of a breaker that has cooled (`ProbeTokens`); no two attempts
hold it (`OneProbe`); a claimed probe is held (`ProbeHeld`); and a closed breaker
has no failures (`ClosedForgets`). A late result either carries an old generation
and changes nothing, or is the probe's. With it each action of `HealthBook` is an
action of `Breaker` or a stutter, for each target (`BreakerRefined`).

**The attempt loop.** A step of a request changes the entries of its own target, and
each book only by what the guard it holds allows: the relation `Change` of an entry
and a token before and after. One lemma (`BookStep`) derives from `Change` that the
probes and tokens of all other requests on that entry stay sound; it is used for
providers, keys and endpoints alike. Each action is then shown to change a request
and its books in one of two shapes (it keeps its target, or gives up all its guards),
and resets, quota reads and time are treated apart.

**Notifications.** `NoGapHolds` assumes `FirstEnd # Null`, a rule that has recorded
an end; without it the property fails (section 5). The schedule enters through one
fact, that the occurrence before a time is earlier than it. `ResentAfterErrorHolds`
needs no such assumption: a sending begins with a claimed row, which was pending,
and by `DeliveryInv` a pending row has not been sent since its last error.

**Migration and administration.** One invariant covers both, since a gateway that
starts may do so while another serves. `StartupInv` has three parts.

* `StartsOK`: a start at step `n` has behind it what the steps before `n` establish
  (`Holds`): columns added, columns dropped, a table that needs no rebuild, the key,
  the version. That stays true while other gateways move, because tables only gain
  the columns a step looks for and only lose old ones (`Grows`); the two exceptions
  are part of it: what a rebuild of `request_logs` takes away again (`Lost`), and the
  key that another gateway has dropped and is about to make, or was cut short before
  making (`Between`, `cut`). A rebuild's transaction holds the rows it took from the
  table at each of its statements (`WorkOK`), so that its commit loses none. A
  gateway that serves has all 21 steps behind it: `ReadyToServe`.
* `Sound`: `ReferencesHold` with the types of the rows, and that rows exist only
  under ids that were given out. It is kept because what a call validated still
  holds when its write is made (`StillValid`), or the provider was deleted meanwhile
  and is in `raced`; ids are not given out twice (`NewIds`).
* `CompatFollowsOrWaits`: a key follows its groups unless a refresh that concerns it
  is the next write of some call. For a key that is being made this is the call that
  makes it, and for every other change of groups its call has the refresh right
  behind it (`CallOK`). `CompatFollows` alone says nothing about the states between
  the change and the refresh, so it is not inductive.

`SeenOK` says that a transaction is open only at a call whose next write reads, and
that what it found has the types of the rows. A commit is then shown to keep `Sound`
for anything that may have been found: what it inserts is checked against the rows
there are when it commits. That derived permissions agree is shown for a commit that
was not overtaken (`Overtaken`), where what was found is what there is; and a list of
a key stays for a commit whose statements did not find the key (`UntouchedKeys`).

Each of the writes is shown once as an operation on the tables (what it keeps of
`Sound`, which ids it gives out, whose list or switch it changes), and then as a step
of a call. `AdminDecides` and `UsageKept` come out of the same case analysis. Before
the first migration nobody is served (`Unserved`), which is why `Authorized` meets no
key that has a list of its own.

Only model-checked:

* liveness (`Recovers`, `FullProviderDrains`, `EveryRequestEnds`, `AvoidanceEnds`,
  `StaleEnds`, `RevokedEnds`, `LoginEnds`, `AlertAnnounced`, `CatchesUp`, `Counted`,
  `Serves`): fairness, `ENABLED` and induction over recursive definitions are beyond
  the proof system as installed;
* the safety properties of `PriceSync` (`ManualKept`, `AutomaticForward`) and
  `Telemetry` (`DailyKept`, `LogsArchived`), for which no proof has been written
  (section 6).

## 5. What the models show beside the properties

Places where the code does something a document says otherwise, or that a reader
of the properties should know of. The properties are stated so that they hold of
the code; these are the reasons for the exceptions they name.

Against a document:

* The repository's `README.md:418` says an upstream's answer is passed through. A
  retryable answer is dropped for the next target (`proxy.rs:1285`); its 5xx may
  open the breaker that makes every target left ineligible, and the client gets the
  gateway's own error.
* `frontend/src/i18n/en.ts:784` calls the limit "Maximum concurrency". Disabling a
  provider purges its entry with the in-flight counter (`provider_runtime.rs:312`,
  `admin.rs:2666`); enabled again, it admits as many again while the old requests
  still run. `CapacityAccounting` is therefore one-sided after a purge.
  The purge also starts generations and probe ids anew: a guard left over from the
  purged entry can carry the very token of the present probe and settle in its
  place, after which two attempts may be under way while the breaker is half open.
  This came up in the proof of `SingleProbe`, where the instance of the run had been
  too small to show it; the property now excepts it (`crossed`).
* `docs/codex-oauth.md:289` says a change takes effect for new requests. A load that
  began before the change installs its snapshot after the invalidation
  (`cache/upstream_cache.rs:264`) and new requests use it until the TTL ends.
  `StaleEnds` is what does hold.
* `docs/notifications.md:9` says a report's windows are adjacent. Run and end of
  window are written in two transactions (`notification/runtime.rs:139`, `:166`);
  for a rule without a recorded end, a failure of the second and two boundaries
  passing leave a gap. `NoGap` is about rules with a recorded end.

Consequences of the order of statements:

* Notifications: a delivery whose sender died stays `sending`, since only pending
  rows are claimed (`notification/store.rs:955`); it is the price of `ResentAfterError`. Delivery
  is at least once all the same: a timeout or lost connection is retried although
  the receiver may have accepted (`notification/transport.rs:327`, `:255`,
  `notification/runtime.rs:480`), under the same Message-ID and Idempotency-Key, as
  `docs/notifications.md:28`, `:51` and `:58` say.
* Prices: `prepare_sync` reads the generation after the download without checking
  the lease (`db/price_sync.rs:117`); the fence in `apply_sync` makes it harmless.
  Applying a preview twice overwrites the record of the applied job with a failure.
* Telemetry: hourly rows are added one by one outside a transaction and all tried
  again after a failure, so rows before the failure count twice (`db.rs:5006`). The
  error text is cut at byte 512 (`telemetry.rs:434`), which panics inside a
  multi-byte character and ends the worker for the life of the process: the queue,
  what was not written and every later event are lost (an exception of `Counted`).
  Archiving is off by default (`config.rs:159`), and retention then deletes logs
  that were never archived (`telemetry.rs:665`). Retention takes no lock, so `LogsArchived` is about one
  gateway on the database (`telemetry.rs:698`).
* Migration: a crash between adding `active` and setting it leaves no price active
  (`db.rs:6121`); a start that rebuilds `request_logs` drops the column
  `routing_trace_json` until the next start (`db.rs:6916`, added at `db.rs:5601`),
  so that every log written until then names a column that is missing and fails; of two Postgres gateways the
  second may drop the primary key the first has made and make it again
  (`db.rs:7154`); aliases that an administrator deleted are made again at each start
  (`db.rs:6295`). `ReadyToServe` names these as exceptions or does not cover
  them. An old route named `*` makes every start fail for good
  (`db/upstream_config.rs:113`, shown by the test at `:444`); `Serves` excepts it.
* Postgres: `refresh_compat_authorizations` (`db/upstream_config.rs:281`),
  `replace_allowed_providers` (`:255`) and `insert_provider_bundle`
  (`db/provider_config.rs:146`) run at READ COMMITTED and lock little. A refresh
  whose DELETE began before another one committed leaves a key a provider that no
  group gives it any more; or its INSERT meets a row the other made, and fails. A
  bundle that found a key following its groups adds the new provider after the key
  was given its own list, and one that ran against a change of groups leaves a grant
  out or over. But for that failure each of these calls reports success, and the next refresh that meets
  no other transaction repairs the compat keys, not the lists. The comment "Only
  compatibility-owned keys follow legacy group writes" (`db/upstream_config.rs:280`)
  holds up to this. `CompatFollows` and `AdminDecides` name the exceptions. A group
  may be deleted under a member that another call has just added (`db.rs:807`).
* Administration: PATCH handlers read a row, change it and write all of it
  (`admin.rs:1911`, `2462`, `2889`, `3355`), so of two at once the later undoes the
  earlier; the same holds of `RuntimeSettings::update` in memory
  (`runtime_settings.rs:228`).
* `find_api_key_by_hash` reads a key, its groups and its permissions in separate
  queries (`db.rs:183`).

## 6. Not modelled, and the plan

Next, in this order:

1. Theorems about prices (`ManualKept`, `AutomaticForward`) and about telemetry
   (`DailyKept`, `LogsArchived`).
2. `ResponsesWs`: session, turns, the HTTP bridge, the connection replaced between
   turns, and the budget's `begin_turn` and setup credit.
3. Planning and ordering (`build_upstream_plan`, `order_schedulable_providers`,
   `selector`) as operators checked against a reference definition.
4. The streaming channel with a client that stops reading; encrypted-content memory.
5. Telemetry and retention of two gateways; runtime settings.

Left out for good: row mapping and read-only queries, field validation, JSON and
SSE conversion, price arithmetic, encryption, metrics and display, the WebSocket
capability cache (a hint with a TTL), the web console, scripts and deployment: pure
code or I/O without shared state of their own. Their failures are outcomes in the
modules above.
