------------------------------ MODULE Startup ------------------------------
(***************************************************************************)
(* How a gateway starts: Database::connect and Database::migrate of        *)
(* backend/src/db.rs, called by main.rs before anything is served, and     *)
(* migrate_upstream_config of db/upstream_config.rs.                       *)
(*                                                                         *)
(* Every start runs the same program of steps over whatever an earlier     *)
(* version, or an earlier start that died half way, left in the database.  *)
(* A step that finds its work done does nothing.  SQLite has one gateway   *)
(* and rebuilds tables in transactions; Postgres may have several, which   *)
(* start at the same time and alter the tables statement by statement.     *)
(* Once started, a gateway serves the calls of Catalogue.                  *)
(*                                                                         *)
(* Columns that belong together are one name: "usage" (reasoning tokens,   *)
(* usage observed), "span" (kind, transport, parent, session), "price"     *)
(* (version and tier), "cost" (the three cost columns of old), "late"      *)
(* (ttft_source and after), "key" (the price is in the primary key).       *)
(***************************************************************************)
EXTENDS Catalogue

CONSTANTS
  Gateways,     \* processes
  MaxCrashes    \* bound: crashes and failures of the database under a start

ASSUME StartupAssumption ==
  /\ Gateways # {}
  /\ MaxCrashes \in Nat

VARIABLES
  schema,    \* the columns of each table
  rows,      \* are the rows of the old installation in the table?
  active,    \* is the latest price of the old installation the active one?
  migrated,  \* is version 1 in upstream_migrations?
  frozen,    \* how often the weights of alias targets were multiplied
  gate,      \* each gateway: the step it is at
  cut,       \* history: pairs of statements of which only the first ran
  crashes

startupVars == <<engine, schema, rows, active, migrated, frozen, gate, cut, crashes>>
vars == <<startupVars, catalogueVars>>

Tables == {"request_logs", "stats_events", "stats_hourly", "stats_daily", "model_prices",
           "upstream_providers", "provider_models"}

Missing == {"missing"}    \* the table does not exist

\* The tables as CREATE TABLE IF NOT EXISTS makes them.
created ==
  [request_logs |-> {"usage", "span", "trace", "format", "price"}, stats_events |-> {"usage", "price"},
   stats_hourly |-> {"usage", "price", "key"}, stats_daily |-> {"usage"}, model_prices |-> {"active"},
   upstream_providers |-> {"options"}, provider_models |-> {"available"}]

\* What the statements of a running gateway need.
Needed == [created EXCEPT !["request_logs"] = @ \cup {"late"}]

\* An installation from before prices had versions.
Legacy(e) ==
  LET usage == IF e = "postgres" THEN {"usage"} ELSE {}
  IN  [request_logs |-> {"cost"}, stats_events |-> {"cost"} \cup usage, stats_hourly |-> {"cost"} \cup usage,
       stats_daily |-> {"cost"}, model_prices |-> {"fk"}, upstream_providers |-> {}, provider_models |-> {}]

-----------------------------------------------------------------------------
(* The program.                                                            *)

Step(do, t, C) == [do |-> do, table |-> t, columns |-> C]
AddTo(t, C)    == Step("add", t, C)
DropFrom(t, C) == Step("drop", t, C)
Rebuild(t)     == Step("rebuild", t, {})
Run(do)        == Step(do, "all", {})

ensure_token_usage_columns == <<AddTo("request_logs", {"usage"}), AddTo("stats_daily", {"usage"})>>

ensure_upstream_providers_columns == <<AddTo("upstream_providers", {"options"})>>

ensure_request_log_span_columns == <<AddTo("request_logs", {"span", "trace"})>>

ensure_responses_via_chat_columns ==
  <<AddTo("provider_models", {"available"}), AddTo("request_logs", {"format"})>>

\* The same for both engines up to the storage of prices.
Prologue ==
  <<Run("tables")>> \o ensure_token_usage_columns \o ensure_upstream_providers_columns \o
  <<Run("default_group")>> \o ensure_request_log_span_columns \o ensure_responses_via_chat_columns \o
  <<Run("aliases")>>

migrate_sqlite_pricing_storage ==
  <<AddTo("stats_events", {"usage"}), AddTo("stats_hourly", {"usage"}), Rebuild("model_prices"),
    Rebuild("stats_daily"), Rebuild("stats_hourly"), Rebuild("request_logs"), Rebuild("stats_events")>>

migrate_postgres_pricing_storage ==
  <<DropFrom("model_prices", {"fk"}), AddTo("request_logs", {"price"}), DropFrom("request_logs", {"cost"}),
    AddTo("stats_events", {"price"}), DropFrom("stats_events", {"cost"}), DropFrom("stats_daily", {"cost"}),
    AddTo("stats_hourly", {"price"}), DropFrom("stats_hourly", {"cost"}), Run("key")>>

migrate_sqlite ==
  Prologue \o migrate_sqlite_pricing_storage \o
  <<Run("active")>> \o ensure_responses_via_chat_columns \o
  <<AddTo("request_logs", {"late"}), Run("upstream")>>

migrate_postgres ==
  Prologue \o migrate_postgres_pricing_storage \o
  <<Run("active"), AddTo("request_logs", {"late"}), Run("upstream")>>

Program == IF engine = "sqlite" THEN migrate_sqlite ELSE migrate_postgres

NeedsRebuild(t, columns) ==
  \/ columns \cap {"cost", "fk"} # {}
  \/ t \notin {"model_prices", "stats_daily"} /\ "price" \notin columns
  \/ t = "stats_hourly" /\ "key" \notin columns

\* Does the step find something to do in these tables?
HasWork(s, tables) ==
  \/ s.table = "all"
  \/ s.do = "add" /\ ~ (s.columns \subseteq tables[s.table])
  \/ s.do = "drop" /\ s.columns \cap tables[s.table] # {}
  \/ s.do = "rebuild" /\ NeedsRebuild(s.table, tables[s.table])

-----------------------------------------------------------------------------
(* A gateway: down, at statement n of a step, or serving.  `work` is the   *)
(* table that a transaction is putting together.                           *)

NoWork == [columns |-> Missing, rows |-> FALSE, old |-> FALSE]
Down   == [pc |-> 0, n |-> 0, work |-> NoWork, rebuilt |-> FALSE]

Running    == IF engine = "sqlite" THEN {CHOOSE g \in Gateways : TRUE} ELSE Gateways
Starting(g) == gate[g].pc \in 1 .. Len(Program)
Serving(g) == gate[g].pc = Len(Program) + 1
AtStep(g, do, n) == Starting(g) /\ Program[gate[g].pc].do = do /\ gate[g].n = n
TableOf(g) == Program[gate[g].pc].table

\* The step of g is done and leaves these tables: on to the next that has work.
\* What a step looks for is not undone by another, so those in between take no
\* time of their own.
NextStep(g, tables) ==
  LET todo == {i \in gate[g].pc + 1 .. Len(Program) : HasWork(Program[i], tables)} \cup {Len(Program) + 1}
  IN  gate' = [gate EXCEPT ![g].pc = CHOOSE i \in todo : \A j \in todo : i =< j, ![g].n = 0,
                           ![g].work = NoWork]

NextStatement(g) == gate' = [gate EXCEPT ![g].n = @ + 1]

GiveUp(g) == gate' = [gate EXCEPT ![g] = Down]

start(g) ==
  /\ g \in Running
  /\ gate[g] = Down
  /\ gate' = [gate EXCEPT ![g].pc = 1]
  /\ UNCHANGED <<catalogueVars, engine, schema, rows, active, migrated, frozen, cut, crashes>>

create_tables(g) ==
  /\ AtStep(g, "tables", 0)
  /\ schema' = [t \in Tables |-> IF schema[t] = Missing THEN created[t] ELSE schema[t]]
  /\ NextStep(g, schema')
  /\ UNCHANGED <<catalogueVars, engine, rows, active, migrated, frozen, cut, crashes>>

\* ensure_*_column(s): ADD COLUMN for what is not there, DROP COLUMN IF EXISTS.
ensure_columns(g) ==
  /\ AtStep(g, "add", 0) \/ AtStep(g, "drop", 0)
  /\ LET s == Program[gate[g].pc]
     IN  schema' = [schema EXCEPT ![s.table] = IF s.do = "add" THEN @ \cup s.columns ELSE @ \ s.columns]
  /\ NextStep(g, schema')
  /\ UNCHANGED <<catalogueVars, engine, rows, active, migrated, frozen, cut, crashes>>

\* Providers and access keys that are in no group join the default group.
ensure_default_provider_group(g) ==
  /\ AtStep(g, "default_group", 0)
  /\ LET lone == {DefaultGroup}
     IN  cat' = [cat EXCEPT
           !.groups = @ \cup lone,
           !.member = [p \in Providers |-> IF p \in cat.providers /\ @[p] = {} THEN lone ELSE @[p]],
           !.keygroup = [k \in Keys |-> IF k \in cat.keys /\ @[k] = {} THEN lone ELSE @[k]]]
  /\ missed' = (missed \/ (migrated /\ cat' # cat))
  /\ NextStep(g, schema)
  /\ UNCHANGED <<admin, seen, raced, edits, engine, schema, rows, active, migrated, frozen, cut, crashes>>

\* A target for every alias that a provider's model still carries.
migrate_provider_model_aliases(g) ==
  /\ AtStep(g, "aliases", 0)
  /\ cat' = [cat EXCEPT !.alias = @ \/ \E p \in cat.providers : cat.model[p].alias,
                         !.targets = @ \cup {p \in cat.providers : cat.model[p].alias}]
  /\ NextStep(g, schema)
  /\ UNCHANGED <<admin, seen, missed, raced, edits, engine, schema, rows, active, migrated, frozen, cut, crashes>>

-----------------------------------------------------------------------------
(* SQLite: a table is renamed, created anew, filled and the old one dropped *)
(* in one transaction.                                                     *)

Rebuilt(t) ==
  CASE t = "model_prices" -> {}
    [] t = "stats_daily"  -> {"usage"}
    [] t = "request_logs" -> {"usage", "span", "price"}
    [] t = "stats_hourly" -> {"usage", "price", "key"}
    [] t = "stats_events" -> {"usage", "price"}

\* The columns that INSERT ... SELECT takes from the old table.
Copied(t) == IF t = "model_prices" THEN {} ELSE Rebuilt(t) \cap {"usage", "span"}

\* rename, create, copy, drop
Statement(t, n, w) ==
  CASE n = 0 -> [columns |-> Missing, rows |-> FALSE, old |-> rows[t]]
    [] n = 1 -> [w EXCEPT !.columns = Rebuilt(t)]
    [] n = 2 -> [w EXCEPT !.rows = w.old]
    [] n = 3 -> [w EXCEPT !.old = FALSE]

\* Mutant: the statements run on the pool and not in a transaction.
rebuild_on_pool(g) ==
  \E n \in 0 .. 3 :
    /\ AtStep(g, "rebuild", n)
    /\ LET t == TableOf(g)
           w == Statement(t, n, gate[g].work)
       IN  /\ gate' = [gate EXCEPT ![g].n = n + 1, ![g].work = w]
           /\ schema' = [schema EXCEPT ![t] = w.columns]
           /\ rows' = [rows EXCEPT ![t] = w.rows]
    /\ UNCHANGED <<catalogueVars, engine, active, migrated, frozen, cut, crashes>>

rebuild_statement(g) ==
  \E n \in 0 .. 3 :
    /\ AtStep(g, "rebuild", n)
    /\ LET t == TableOf(g)
       IN  IF n = 2 /\ ~ (Copied(t) \subseteq schema[t]) THEN GiveUp(g)
           ELSE gate' = [gate EXCEPT ![g].n = n + 1, ![g].work = Statement(t, n, @),
                                            ![g].rebuilt = @ \/ t = "request_logs"]
    /\ UNCHANGED <<catalogueVars, engine, schema, rows, active, migrated, frozen, cut, crashes>>

rebuild_commit(g) ==
  /\ AtStep(g, "rebuild", 4)
  /\ LET t == TableOf(g)
     IN  /\ schema' = [schema EXCEPT ![t] = gate[g].work.columns]
         /\ rows' = [rows EXCEPT ![t] = gate[g].work.rows]
         /\ NextStep(g, schema')
  /\ UNCHANGED <<catalogueVars, engine, active, migrated, frozen, cut, crashes>>

-----------------------------------------------------------------------------
(* Check, then alter: two or three statements, none in a transaction.      *)

\* Postgres: the primary key of stats_hourly is dropped and made again.
ensure_primary_key(g) ==
  /\ \/ /\ AtStep(g, "key", 0)
        /\ IF "key" \in schema["stats_hourly"] THEN NextStep(g, schema) ELSE NextStatement(g)
        /\ UNCHANGED schema
     \/ /\ AtStep(g, "key", 1)
        /\ schema' = [schema EXCEPT !["stats_hourly"] = @ \ {"key"}]
        /\ NextStatement(g)
     \/ /\ AtStep(g, "key", 2)
        /\ IF "key" \in schema["stats_hourly"] THEN GiveUp(g) ELSE NextStep(g, schema)
        /\ schema' = [schema EXCEPT !["stats_hourly"] = @ \cup {"key"}]
  /\ UNCHANGED <<catalogueVars, engine, rows, active, migrated, frozen, cut, crashes>>

\* Mutant: the column is added without a look.
ensure_active_unchecked(g) ==
  /\ \/ AtStep(g, "active", 0) /\ NextStatement(g) /\ UNCHANGED <<schema, active>>
     \/ /\ AtStep(g, "active", 1)
        /\ IF "active" \in schema["model_prices"] THEN GiveUp(g) ELSE NextStatement(g)
        /\ schema' = [schema EXCEPT !["model_prices"] = @ \cup {"active"}]
        /\ UNCHANGED active
     \/ AtStep(g, "active", 2) /\ active' = TRUE /\ NextStep(g, schema) /\ UNCHANGED schema
  /\ UNCHANGED <<catalogueVars, engine, rows, migrated, frozen, cut, crashes>>

\* The column is added with no price active, then the latest ones are.
ensure_model_prices_active(g) ==
  /\ \/ /\ AtStep(g, "active", 0)
        /\ IF "active" \in schema["model_prices"] THEN NextStep(g, schema) ELSE NextStatement(g)
        /\ UNCHANGED <<schema, active>>
     \/ /\ AtStep(g, "active", 1)
        /\ IF "active" \in schema["model_prices"] THEN GiveUp(g) ELSE NextStatement(g)
        /\ schema' = [schema EXCEPT !["model_prices"] = @ \cup {"active"}]
        /\ UNCHANGED active
     \/ AtStep(g, "active", 2) /\ active' = TRUE /\ NextStep(g, schema) /\ UNCHANGED schema
  /\ UNCHANGED <<catalogueVars, engine, rows, migrated, frozen, cut, crashes>>

-----------------------------------------------------------------------------
(* migrate_upstream_config: once, in one transaction.                      *)

\* Grants become lists, the providers the default route, what the older table
\* had for a model a policy (until then `route` and `special` are that table),
\* and the weights of alias targets take in those of their providers.
Authorized(c) ==
  [c EXCEPT !.auth = [k \in Keys |-> IF k \in c.keys THEN "compat" ELSE @[k]],
            !.allowed = [k \in Keys |-> IF k \in c.keys THEN Union(c, k) ELSE {}],
            !.route = c.providers,
            !.special = IF @ \in {NoRoute, {}} THEN NoRoute ELSE @ \cap c.providers]

\* The older table names no model "*": that policy is taken by the default one,
\* and a second row for it is refused.  A route without providers is passed over.
Migratable(c) == c.route \in {NoRoute, {}}

\* Mutant: a second migration goes through.
migrate_upstream_again(g) ==
  /\ \/ /\ AtStep(g, "upstream", 0)
        /\ IF migrated THEN NextStep(g, schema) ELSE NextStatement(g)
        /\ UNCHANGED <<cat, migrated, frozen>>
     \/ /\ AtStep(g, "upstream", 1)
        /\ cat' = Authorized(cat)
        /\ migrated' = TRUE
        /\ frozen' = frozen + 1
        /\ NextStep(g, schema)
  /\ UNCHANGED <<admin, seen, missed, raced, edits, engine, schema, rows, active, cut, crashes>>

\* Two gateways may both find no version; the rows of the one that commits
\* first refuse those of the other, whose start fails.  So does every start over
\* an old route that is named "*", and nothing of it stays.
migrate_upstream_config(g) ==
  /\ \/ /\ AtStep(g, "upstream", 0)
        /\ IF migrated THEN NextStep(g, schema) ELSE NextStatement(g)
        /\ UNCHANGED <<cat, migrated, frozen>>
     \/ /\ AtStep(g, "upstream", 1)
        /\ ~ migrated /\ Migratable(cat)
        /\ cat' = Authorized(cat)
        /\ migrated' = TRUE
        /\ frozen' = frozen + 1
        /\ NextStep(g, schema)
     \/ /\ AtStep(g, "upstream", 1)
        /\ migrated \/ ~ Migratable(cat)
        /\ GiveUp(g)
        /\ UNCHANGED <<cat, migrated, frozen>>
  /\ UNCHANGED <<admin, seen, missed, raced, edits, engine, schema, rows, active, cut, crashes>>

-----------------------------------------------------------------------------
(* Crashes.                                                                *)

\* The process dies, or a statement of its start fails: the transaction is
\* rolled back, the calls it was serving are gone.
crash(g) ==
  /\ gate[g] # Down
  /\ crashes < MaxCrashes
  /\ crashes' = crashes + 1
  /\ cut' = cut \cup {s \in {"key", "active"} : AtStep(g, s, 2)}
  /\ GiveUp(g)
  /\ LET lost == {a \in Admins : admin[a].at = g}
     IN  /\ missed' = (missed \/ \E a \in lost : Due(a, "refresh"))
         /\ admin' = [a \in Admins |-> IF a \in lost THEN Idle ELSE admin[a]]
         /\ seen' = [a \in Admins |-> IF a \in lost THEN Nothing ELSE seen[a]]
  /\ UNCHANGED <<cat, raced, edits, engine, schema, rows, active, migrated, frozen>>

-----------------------------------------------------------------------------
\* Gateways that serve are alike: a call that finds no other one reaches the first.
Reached == IF \E b \in Admins : Busy(b) THEN Running ELSE {CHOOSE g \in Running : TRUE}

\* The administrator's calls reach a gateway that serves.  Bound: calls begin
\* when all gateways serve; one that dies starts again among their writes.
Serve(a) ==
  /\ \/ (\A h \in Running : Serving(h)) /\ \E g \in Reached : Call(a, g)
     \/ Read(a)
     \/ MakeWrite(a)
     \/ WriteFails(a)
  /\ UNCHANGED startupVars

Migrate(g) ==
  \/ start(g) \/ create_tables(g) \/ ensure_columns(g) \/ ensure_default_provider_group(g)
  \/ migrate_provider_model_aliases(g)
  \/ rebuild_statement(g) \/ rebuild_commit(g)
  \/ ensure_primary_key(g) \/ ensure_model_prices_active(g) \/ migrate_upstream_config(g)

Next ==
  \/ \E g \in Gateways : Migrate(g) \/ crash(g)
  \/ \E a \in Admins : Serve(a)

\* One provider with a route for a model, perhaps one named "*", and a model that
\* has an alias; and one access key.
LegacyCatalogue(p, k) ==
  [EmptyCatalogue EXCEPT !.groups = {}, !.providers = {p}, !.enabled = {p}, !.born = {p, k},
     !.keys = {k}, !.live = {k}, !.special = {p},
     !.model[p] = [present |-> TRUE, enabled |-> TRUE, available |-> TRUE, alias |-> TRUE]]

\* The same after its migration, with a second key that has its own list and
\* a child of the provider.
CurrentCatalogue(p, k, d, x) ==
  [LegacyCatalogue(p, k) EXCEPT !.groups = {DefaultGroup}, !.member[p] = {DefaultGroup},
     !.keys = {k, d}, !.live = {k, d}, !.born = {p, k, d, x},
     !.keygroup[k] = {DefaultGroup}, !.keygroup[d] = {DefaultGroup},
     !.auth[k] = "compat", !.auth[d] = "direct", !.allowed[k] = {p}, !.allowed[d] = {p},
     !.route = {p}, !.alias = TRUE, !.targets = {p}, !.child[x] = [of |-> p, enabled |-> TRUE, priority |-> 1]]

\* The database a first start may meet: none, one from long ago, one of this version.
Init ==
  /\ engine \in {"sqlite", "postgres"}
  /\ \E p \in Providers, k \in Keys, d \in Keys, x \in Children :
       /\ p = CHOOSE q \in Providers : TRUE
       /\ k = CHOOSE j \in Keys : TRUE
       /\ d # k
       /\ x = CHOOSE y \in Children : TRUE
       /\ \/ /\ schema = [t \in Tables |-> Missing]
             /\ cat = [EmptyCatalogue EXCEPT !.groups = {}]
             /\ active = TRUE
             /\ migrated = FALSE
          \/ /\ schema = Legacy(engine)
             /\ \E star \in {NoRoute, {p}} : cat = [LegacyCatalogue(p, k) EXCEPT !.route = star]
             /\ active = FALSE
             /\ migrated = FALSE
          \/ /\ schema = Needed
             /\ cat = CurrentCatalogue(p, k, d, x)
             /\ active = TRUE
             /\ migrated = TRUE
  /\ rows = [t \in Tables |-> schema[t] # Missing]
  /\ frozen = IF migrated THEN 1 ELSE 0
  /\ gate = [g \in Gateways |-> Down]
  /\ admin = [a \in Admins |-> Idle]
  /\ seen = [a \in Admins |-> Nothing]
  /\ missed = FALSE
  /\ raced = {}
  /\ edits = 0
  /\ cut = {}
  /\ crashes = 0

Spec == Init /\ [][Next]_vars

\* Statements return, and whoever runs the gateway starts it again
\* (docker-compose.yml: restart unless stopped).
FairSpec == Spec /\ \A g \in Gateways : WF_vars(Migrate(g))

-----------------------------------------------------------------------------
(* Properties.                                                             *)

TypeOK ==
  /\ CatalogueTypeOK
  /\ \A t \in Tables : schema[t] = Missing \/ "missing" \notin schema[t]
  /\ rows \in [Tables -> BOOLEAN]
  /\ gate \in [Gateways -> [pc: 0 .. Len(Program) + 1, n: 0 .. 4, rebuilt: BOOLEAN,
                            work: [columns: (SUBSET UNION {Needed[t] : t \in Tables}) \cup {Missing},
                                   rows: BOOLEAN, old: BOOLEAN]]]

\* No start loses the logs, statistics or prices of an earlier version,
\* wherever it is interrupted.
UsageKept == [][\A t \in Tables : rows[t] => rows'[t]]_rows

\* A gateway is inside a pair of statements of which the second is due.
Between(step) == \E g \in Gateways : AtStep(g, step, 2)

\* A gateway that serves has the columns its statements name and none that they
\* leave without a value, the key its upserts conflict on, the latest prices
\* active, and weights that were multiplied once: after any series of starts,
\* of one version or of two, together or cut short.  The exceptions are those
\* of the code: a start that rebuilds request_logs (SQLite) goes on without
\* routing_trace_json, and every log it writes until the next start names that
\* column and fails; a start that is, or was cut, between two statements.
ReadyToServe ==
  \A g \in Gateways : Serving(g) =>
    /\ \A t \in Tables :
         /\ Needed[t] \ (schema[t] \cup {"key"}) \subseteq (IF gate[g].rebuilt THEN {"trace"} ELSE {})
         /\ schema[t] \cap {"cost", "fk"} = {}
    /\ "key" \in schema["stats_hourly"] \/ Between("key") \/ "key" \in cut
    /\ active \/ Between("active") \/ "active" \in cut
    /\ migrated /\ frozen = 1

\* Every gateway comes to serve, however its starts were interrupted and
\* whichever other gateway got in its way; except over an old route named "*",
\* over which no start ever succeeds.
Serves == (~ migrated /\ ~ Migratable(cat)) \/ <>[](\A g \in Running : Serving(g))

-----------------------------------------------------------------------------
(* The inductive invariant behind them.                                    *)

\* Nothing but what a version of the program made: on Postgres the statistics
\* have had their usage columns from the start.
SchemaOK ==
  /\ schema = [t \in Tables |-> schema[t]]
  /\ \A t \in Tables : schema[t] # Missing => schema[t] \subseteq Needed[t] \cup Legacy(engine)[t]
  /\ engine = "postgres" =>
       \A t \in {"stats_events", "stats_hourly"} : schema[t] # Missing => "usage" \in schema[t]

\* What a rebuild of request_logs takes away from a step before it.
Lost(g, i) ==
  IF gate[g].rebuilt /\ \E j \in i .. Len(Program) : Program[j] = Rebuild("request_logs")
    THEN {"trace", "format"} ELSE {}

\* What step i leaves behind, as long as the gateway runs.
Holds(g, i) ==
  LET s == Program[i]
      C == schema[s.table]
  IN  /\ s.do = "tables"   => \A t \in Tables : schema[t] # Missing
      /\ s.do = "add"      => s.columns \ C \subseteq Lost(g, i)
      /\ s.do = "drop"     => s.columns \cap C = {}
      /\ s.do = "rebuild"  => ~ NeedsRebuild(s.table, C)
      /\ s.do = "key"      => "key" \in schema["stats_hourly"] \/ Between("key") \/ "key" \in cut
      /\ s.do = "active"   => "active" \in schema["model_prices"]
      /\ s.do = "upstream" => migrated

\* The transaction of a rebuild holds the rows that it took from the table.
WorkOK(g) ==
  LET w == gate[g].work
      t == TableOf(g)
      n == gate[g].n
  IN  (Starting(g) /\ Program[gate[g].pc].do = "rebuild") =>
        /\ n \in {1, 2} => w.old = rows[t]
        /\ n \in {3, 4} => w.rows = rows[t]
        /\ n \in 2 .. 4 => w.columns = Rebuilt(t)
        /\ (n \in 1 .. 4 /\ t = "request_logs") => gate[g].rebuilt

GateRows ==
  [pc: 0 .. Len(Program) + 1, n: 0 .. 4, rebuilt: BOOLEAN,
   work: [columns: (SUBSET UNION {Needed[t] : t \in Tables}) \cup {Missing}, rows: BOOLEAN, old: BOOLEAN]]

\* A start: only on a gateway that runs, with what its steps left so far.
GateOK(g) ==
  /\ gate[g] \in GateRows
  /\ g \notin Running => gate[g] = Down
  /\ engine = "postgres" => ~ gate[g].rebuilt
  /\ WorkOK(g)
  /\ AtStep(g, "active", 2) => "active" \in schema["model_prices"]
  /\ \A i \in 1 .. gate[g].pc - 1 : Holds(g, i)

StartsOK == \A g \in Gateways : GateOK(g)

\* Before the first migration nobody is served and no key is authorized.
Unserved ==
  ~ migrated => /\ \A a \in Admins : ~ Busy(a)
                /\ \A k \in Keys : cat.auth[k] = "none"

StartupInv ==
  /\ CatalogueInv
  /\ SeenOK
  /\ migrated => cat.route # NoRoute
  /\ Unserved
  /\ engine \in {"sqlite", "postgres"}
  /\ migrated \in BOOLEAN /\ frozen = IF migrated THEN 1 ELSE 0
  /\ SchemaOK
  /\ rows \in [Tables -> BOOLEAN]
  /\ gate = [g \in Gateways |-> gate[g]]
  /\ StartsOK
  /\ schema["model_prices"] = Missing => active
  /\ "active" \in schema["model_prices"] => active \/ Between("active") \/ "active" \in cut
============================================================================
