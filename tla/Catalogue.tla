----------------------------- MODULE Catalogue -----------------------------
(***************************************************************************)
(* The configuration an administrator edits: upstream providers with their *)
(* endpoints, keys, models and aliases, the access keys of clients and     *)
(* what each may use, groups and routes (backend/src/admin.rs,             *)
(* admin/upstreams.rs; the tables of db.rs, db/provider_config.rs,         *)
(* db/upstream_config.rs).                                                 *)
(*                                                                         *)
(* A handler reads and validates first and then runs its writes, each a    *)
(* statement or a transaction of its own, so the writes of two handlers    *)
(* interleave and any of them may be the last that happens.  The tables    *)
(* are one record; the operators on it are the transactions.  SQLite runs  *)
(* them one at a time.  On Postgres (READ COMMITTED) the statements of a   *)
(* transaction find what was committed when each began, and it commits     *)
(* later: `seen` is what they found.                                       *)
(*                                                                         *)
(* An access key follows the groups it is in (compat) until it is given    *)
(* its own list of providers, and from then on only that list (direct).    *)
(* Endpoints and keys of a provider are its children: both have a switch   *)
(* and a priority.  A model is listed for a provider, for one of its keys  *)
(* and for the gateway as a whole, with a switch in each place; one alias  *)
(* has targets at the providers.  Ids are never used again (AUTOINCREMENT, *)
(* BIGSERIAL).                                                             *)
(***************************************************************************)
EXTENDS Naturals, FiniteSets, Sequences, Functions

CONSTANTS
  Providers,      \* upstream_providers that may exist
  Keys,           \* api_keys
  Groups,         \* provider_groups
  DefaultGroup,   \* the group with is_default
  Children,       \* upstream_endpoints, upstream_keys
  Admins,         \* concurrent calls of the administration API
  MaxEdits        \* bound: calls made

\* Ids are numbers: none is the mark of "no provider" or "no policy".
ASSUME CatalogueAssumption ==
  /\ DefaultGroup \in Groups
  /\ MaxEdits \in Nat
  /\ "nobody" \notin Providers \cup Keys
  /\ "no policy" \notin Providers

VARIABLES
  engine,   \* Database::Sqlite or Database::Postgres
  cat,      \* the tables
  admin,    \* each call
  seen,     \* what the transaction of each call has found so far
  missed,   \* history: a change of groups whose refresh never ran, or a
            \* transaction that committed over another one
  raced,    \* history: providers deleted while a route that names them was on its way
  edits     \* calls made so far

catalogueVars == <<cat, admin, seen, missed, raced, edits>>

NoRoute == {"no policy"}          \* no row in model_route_policies
NoModel == [enabled |-> FALSE, available |-> FALSE, alias |-> FALSE, present |-> FALSE]
NoChild == [of |-> "nobody", enabled |-> FALSE, priority |-> 0]

\* provider_models, upstream_key_models, gateway_model_policies
Owners == Providers \cup Children \cup {"gateway"}

\* No rows but the default group's.
EmptyCatalogue ==
  [providers |-> {}, born |-> {}, enabled |-> {}, member |-> [p \in Providers |-> {}],
   groups |-> {DefaultGroup}, keys |-> {}, live |-> {}, keygroup |-> [k \in Keys |-> {}],
   auth |-> [k \in Keys |-> "none"], allowed |-> [k \in Keys |-> {}],
   route |-> NoRoute, special |-> NoRoute,
   model |-> [o \in Owners |-> NoModel], alias |-> FALSE, targets |-> {},
   child |-> [c \in Children |-> NoChild]]

-----------------------------------------------------------------------------
(* Transactions.  `found` is what the statements of one found: the keys     *)
(* without an authorization row, the rows its DELETE takes, those its       *)
(* INSERT ... SELECT makes, and the group rows its DELETE takes.           *)

NoRows  == [k \in Keys |-> {}]
Nothing == [n |-> 0, makes |-> {}, deletes |-> NoRows, inserts |-> NoRows, groups |-> {}]

\* What the groups of k give it.
Union(c, k) == {p \in c.providers : c.keygroup[k] \cap c.member[p] # {}}

\* The keys that follow their groups, those in `new` with a row just made.
Followers(c, new) == {k \in Keys : k \in new \/ c.auth[k] = "compat"}

\* Mutant: the keys with a list of their own are refreshed too.
refresh_everyone(c, found) ==
  [c EXCEPT !.auth = [k \in Keys |-> IF k \in c.keys /\ @[k] = "none" THEN "compat" ELSE @[k]],
            !.allowed = [k \in Keys |-> IF k \in c.keys THEN Union(c, k) ELSE @[k]]]

\* Keys without an authorization row get one; the rows of the keys that follow
\* their groups are deleted, and made again from what these give.
refresh_compat_authorizations(c, found) ==
  [c EXCEPT !.auth = [k \in Keys |-> IF k \in found.makes /\ @[k] = "none" THEN "compat" ELSE @[k]],
            !.allowed = [k \in Keys |-> (@[k] \ found.deletes[k]) \cup found.inserts[k]]]

\* Mutant: the new provider is left for the next refresh.
insert_bundle_only(c, p, G, found) ==
  [c EXCEPT !.providers = @ \cup {p}, !.born = @ \cup {p}, !.enabled = @ \cup {p},
            !.member[p] = G, !.route = @ \cup {p}]

\* A provider with its groups, its place in the default route, and its grant
\* to the keys that follow one of the groups.
insert_provider_bundle(c, p, G, found) ==
  [c EXCEPT !.providers = @ \cup {p}, !.born = @ \cup {p}, !.enabled = @ \cup {p},
            !.member[p] = G, !.route = @ \cup {p},
            !.allowed = [k \in Keys |-> @[k] \cup found.inserts[k]]]

replace_provider_group_memberships(c, p, G, found) ==
  [c EXCEPT !.member[p] = (@ \ found.groups) \cup G]

replace_api_key_provider_groups(c, k, G, found) ==
  [c EXCEPT !.keygroup[k] = (@ \ found.groups) \cup G]

replace_allowed_providers(c, k, A, found) ==
  [c EXCEPT !.auth[k] = "direct", !.allowed[k] = (@ \ found.deletes[k]) \cup A]

Sweep(policy, p) == IF policy = NoRoute THEN policy ELSE policy \ {p}

\* ON DELETE CASCADE: everything that hangs on the provider.
Cascade(c, p) ==
  [c EXCEPT !.providers = @ \ {p}, !.enabled = @ \ {p}, !.member[p] = {},
            !.allowed = [k \in Keys |-> @[k] \ {p}], !.targets = @ \ {p},
            !.model = [o \in Owners |-> IF o = p \/ (o \in Children /\ c.child[o].of = p) THEN NoModel ELSE @[o]],
            !.child = [x \in Children |-> IF @[x].of = p THEN NoChild ELSE @[x]]]

\* Mutant: only the default route is looked at.
delete_from_default(c, p) == [Cascade(c, p) EXCEPT !.route = Sweep(@, p)]

\* The provider leaves every route policy and goes.
delete_upstream_provider(c, p) ==
  [Cascade(c, p) EXCEPT !.route = Sweep(@, p), !.special = Sweep(@, p)]

delete_api_key(c, k) ==
  [c EXCEPT !.keys = @ \ {k}, !.live = @ \ {k}, !.keygroup[k] = {}, !.auth[k] = "none",
            !.allowed[k] = {}]

\* The target joins the default route, whether or not the provider still exists.
update_default_route_target(c, p) == [c EXCEPT !.route = @ \cup {p}]

\* What the upstream lists decides what is available, never what is enabled;
\* a model seen for the first time is enabled.
upsert_provider_models(c, p, listed) ==
  [c EXCEPT !.model[p] =
     LET row == c.model[p]
     IN  IF listed THEN [row EXCEPT !.present = TRUE, !.available = TRUE, !.enabled = @ \/ ~ row.present]
         ELSE [row EXCEPT !.available = FALSE]]

\* The models listed for a key of a provider are added and never withdrawn.
upsert_upstream_key_models(c, x) ==
  LET row == c.model[x]
  IN  [c EXCEPT !.model[x] = [row EXCEPT !.present = TRUE, !.available = TRUE, !.enabled = @ \/ ~ row.present]]

\* The new order of all children of p, or nothing if they are not these.
reorder_provider_children(c, p, order) ==
  IF {x \in Children : c.child[x].of = p} # DOMAIN order THEN c
  ELSE [c EXCEPT !.child = [x \in Children |->
          IF x \in DOMAIN order THEN [c.child[x] EXCEPT !.priority = order[x]] ELSE @[x]]]

-----------------------------------------------------------------------------
(* A call: its gateway, the writes it still has to make, and the access    *)
(* key it has made on the way.                                             *)

Nobody == "nobody"
Idle   == [at |-> Nobody, todo |-> <<>>, new |-> Nobody]

Write(do, id, arg) == [do |-> do, id |-> id, arg |-> arg]

Refresh == Write("refresh", "all", {})

Busy(a)      == admin[a].todo # <<>>
Due(a, do)   == Busy(a) /\ Head(admin[a].todo).do = do
Pending(b)   == {admin[b].todo[i] : i \in DOMAIN admin[b].todo}
Creating     == {w.id : w \in UNION {Pending(b) : b \in Admins}}

\* What was read and validated has gone into the writes of the call.  Calls have
\* no names: the first idle one of Admins stands for any.
Begin(a, g, todo) ==
  /\ ~ Busy(a)
  /\ a = CHOOSE b \in Admins : ~ Busy(b)
  /\ edits < MaxEdits
  /\ edits' = edits + 1
  /\ admin' = [admin EXCEPT ![a] = [at |-> g, todo |-> todo, new |-> Nobody]]
  /\ UNCHANGED <<cat, seen, missed, raced>>

\* validate_provider_group_ids, validate_allowed_upstreams
ValidGroups == (SUBSET cat.groups) \ {{}}
ValidAllowed == SUBSET cat.providers

create_provider(a, g) ==
  \E p \in Providers \ (cat.born \cup Creating), G \in ValidGroups :
    Begin(a, g, <<Write("bundle", p, G)>>)

\* A patch writes the whole row: the switch as given, or as it was read.
update_provider(a, g) ==
  \E p \in cat.providers :
    LET read == cat.enabled \cap {p}
    IN  \/ \E e \in SUBSET {p} : Begin(a, g, <<Write("provider", p, e)>>)
        \/ \E G \in ValidGroups :
             Begin(a, g, <<Write("provider", p, read), Write("memberships", p, G), Refresh>>)
        \/ Begin(a, g, <<Write("provider", p, read), Write("route_target", p, {}), Refresh>>)

delete_provider(a, g) ==
  \E p \in cat.providers : Begin(a, g, <<Write("delete_provider", p, {})>>)

\* A key for groups; or, in the default group at first, with a list of its own.
create_api_key(a, g) ==
  \E k \in Keys \ (cat.born \cup Creating) :
    \/ \E G \in ValidGroups :
         Begin(a, g, <<Write("insert_key", k, {}), Write("key_groups", k, G), Refresh>>)
    \/ \E A \in ValidAllowed :
         Begin(a, g, <<Write("insert_key", k, {}), Write("key_groups", k, {DefaultGroup}), Refresh,
                       Write("allowed", k, A)>>)

\* Groups are refused for a key that has its own list by now.
update_api_key(a, g) ==
  \E k \in cat.keys :
    LET read == cat.live \cap {k}
    IN  \/ \E e \in SUBSET {k} : Begin(a, g, <<Write("key", k, e)>>)
        \/ /\ cat.auth[k] # "direct"
           /\ \E G \in ValidGroups :
                Begin(a, g, <<Write("key", k, read), Write("key_groups", k, G), Refresh>>)
        \/ \E A \in ValidAllowed :
             Begin(a, g, <<Write("key", k, read), Write("allowed", k, A)>>)

remove_api_key(a, g) ==
  \E k \in cat.keys : Begin(a, g, <<Write("delete_key", k, {})>>)

create_provider_group(a, g) ==
  \E x \in Groups \ (cat.born \cup Creating \cup {DefaultGroup}) : Begin(a, g, <<Write("insert_group", x, {})>>)

Assigned(c, x) == (\E p \in Providers : x \in c.member[p]) \/ (\E k \in Keys : x \in c.keygroup[k])

delete_provider_group(a, g) ==
  \E x \in cat.groups \ {DefaultGroup} :
    ~ Assigned(cat, x) /\ Begin(a, g, <<Write("delete_group", x, {})>>)

\* PUT and DELETE of a policy: the default one ("*"), or one model's.
routes(a, g) ==
  \/ \E T \in ValidAllowed, id \in {"*", "model"} : Begin(a, g, <<Write("save_route", id, T)>>)
  \/ Begin(a, g, <<Write("save_route", "model", NoRoute)>>)

\* The older call for one model's route takes any ids.
upsert_route(a, g) ==
  \E ids \in SUBSET Providers, id \in {"*", "model"} :
    Begin(a, g, <<Write("model_route", id, ids), Write("adapt", id, ids)>>)

\* The upstream was asked for its models; a failed answer writes nothing here.
sync_provider_models(a, g) ==
  \E p \in cat.born \cap Providers, listed \in BOOLEAN :
    Begin(a, g, <<Write("models", p, listed)>>)

patch_provider_model(a, g) ==
  \E p \in {q \in Providers : cat.model[q].present}, field \in {"enabled", "alias"}, x \in BOOLEAN :
    Begin(a, g, <<Write(field, p, x)>>)

delete_provider_model(a, g) ==
  \E p \in {q \in Providers : cat.model[q].present} : Begin(a, g, <<Write("delete_model", p, {})>>)

\* sync_key_models asks the upstream, add_key_models the administrator.
sync_key_models(a, g) ==
  \E x \in Children \cap cat.born : Begin(a, g, <<Write("key_models", x, {})>>)

key_models(a, g) ==
  \E x \in {y \in Children : cat.model[y].present} :
    \/ \E on \in BOOLEAN : Begin(a, g, <<Write("enabled", x, on)>>)
    \/ Begin(a, g, <<Write("delete_model", x, {})>>)

patch_gateway_model(a, g) ==
  \E on \in BOOLEAN : Begin(a, g, <<Write("gateway", "gateway", on)>>)

model_aliases(a, g) ==
  \/ ~ cat.alias /\ Begin(a, g, <<Write("insert_alias", "alias", {})>>)
  \/ cat.alias /\ Begin(a, g, <<Write("delete_alias", "alias", {})>>)

model_alias_targets(a, g) ==
  \/ \E p \in cat.providers : Begin(a, g, <<Write("insert_target", p, {})>>)
  \/ \E p \in cat.targets : Begin(a, g, <<Write("delete_target", p, {})>>)

\* Endpoints and upstream keys.  Priority 1 stands for the default of 100.
create_child(a, g) ==
  \E x \in Children \ (cat.born \cup Creating), p \in cat.providers :
    Begin(a, g, <<Write("insert_child", x, [of |-> p, enabled |-> TRUE, priority |-> 1])>>)

update_child(a, g) ==
  \E x \in {y \in Children : cat.child[y] # NoChild}, e \in BOOLEAN :
    Begin(a, g, <<Write("child", x, [cat.child[x] EXCEPT !.enabled = e])>>)

delete_child(a, g) ==
  \E x \in {y \in Children : cat.child[y] # NoChild} : Begin(a, g, <<Write("delete_child", x, {})>>)

reorder_children(a, g) ==
  \E p \in cat.providers : \E S \in SUBSET Children :
    \E order \in {f \in [S -> 2 .. Cardinality(S) + 1] : IsInjective(f)} :
      Begin(a, g, <<Write("reorder", p, order)>>)

Call(a, g) ==
  \/ create_provider(a, g) \/ update_provider(a, g) \/ delete_provider(a, g)
  \/ create_api_key(a, g) \/ update_api_key(a, g) \/ remove_api_key(a, g)
  \/ create_provider_group(a, g) \/ delete_provider_group(a, g)
  \/ routes(a, g) \/ upsert_route(a, g)
  \/ sync_provider_models(a, g) \/ patch_provider_model(a, g) \/ delete_provider_model(a, g)
  \/ sync_key_models(a, g) \/ key_models(a, g) \/ patch_gateway_model(a, g)
  \/ model_aliases(a, g) \/ model_alias_targets(a, g)
  \/ create_child(a, g) \/ update_child(a, g) \/ delete_child(a, g) \/ reorder_children(a, g)

-----------------------------------------------------------------------------
(* What a transaction finds.                                               *)

Current(a) == Head(admin[a].todo)

\* The transactions that read the rows they change, by the number of snapshots.
Snapshots(do) ==
  CASE do = "refresh" -> 2
    [] do \in {"bundle", "allowed", "memberships", "key_groups", "delete_group"} -> 1
    [] OTHER -> 0

\* The first snapshot, of tables c.
Finds(w, c) ==
  CASE w.do = "refresh" ->
         LET new == {k \in c.keys : c.auth[k] = "none"}
         IN  [Nothing EXCEPT !.n = 1, !.makes = new,
                !.deletes = [k \in Keys |-> IF k \in Followers(c, new) THEN c.allowed[k] ELSE {}]]
    [] w.do = "bundle" ->
         [Nothing EXCEPT !.n = 1,
            !.inserts = [k \in Keys |-> IF k \in Followers(c, {}) /\ c.keygroup[k] \cap w.arg # {}
                                          THEN {w.id} ELSE {}]]
    [] w.do = "allowed"      -> [Nothing EXCEPT !.n = 1, !.deletes[w.id] = c.allowed[w.id]]
    [] w.do = "memberships"  -> [Nothing EXCEPT !.n = 1, !.groups = c.member[w.id]]
    [] w.do = "key_groups"   -> [Nothing EXCEPT !.n = 1, !.groups = c.keygroup[w.id]]
    [] w.do = "delete_group" -> [Nothing EXCEPT !.n = 1, !.groups = {x \in {w.id} : ~ Assigned(c, x)}]

\* The second one, of the refresh: what the groups give the keys that follow
\* them by now.
FindsMore(found, c) ==
  [found EXCEPT !.n = 2,
     !.inserts = [k \in Keys |-> IF k \in Followers(c, found.makes) THEN Union(c, k) ELSE {}]]

\* All of it in the tables c.
FindsAll(w, c) == IF w.do = "refresh" THEN FindsMore(Finds(w, c), c) ELSE Finds(w, c)

\* Nobody comes between the statements of a transaction that runs in one step:
\* on SQLite, all do.
Found(a) == IF seen[a].n = 0 THEN FindsAll(Current(a), cat) ELSE seen[a]

\* Another transaction committed between a snapshot of this one and its end.
Overtaken(a) == Found(a) # FindsAll(Current(a), cat)

\* The authorization rows that an open transaction has written, and those that
\* the first statement of a write meets: it waits for them.
Authorizing(b) == seen[b].makes \cup (IF seen[b].n > 0 /\ Due(b, "allowed") THEN {Current(b).id} ELSE {})
Meets(w)       == IF w.do = "refresh" THEN cat.keys ELSE IF w.do = "allowed" THEN {w.id} ELSE {}
MayOpen(a)     == \A b \in Admins \ {a} : Meets(Current(a)) \cap Authorizing(b) = {}

\* A DELETE waits for the transactions that deleted one of its rows; then the
\* row is gone, and one that was made instead stays.
MayDelete(a, found) ==
  \A b \in Admins \ {a} : seen[b].n = 2 => \A k \in Keys : found.deletes[k] \cap seen[b].deletes[k] = {}

\* Bound: only while another call is under way.
Read(a) ==
  /\ engine = "postgres"
  /\ Busy(a)
  /\ seen[a].n < Snapshots(Current(a).do)
  /\ \/ /\ seen[a].n = 0
        /\ MayOpen(a)
        /\ \E b \in Admins \ {a} : Busy(b)
        /\ seen' = [seen EXCEPT ![a] = Finds(Current(a), cat)]
     \/ /\ seen[a].n = 1
        /\ MayDelete(a, seen[a])
        /\ seen' = [seen EXCEPT ![a] = FindsMore(@, cat)]
  /\ UNCHANGED <<cat, admin, missed, raced, edits>>

-----------------------------------------------------------------------------
(* The writes.                                                             *)

\* The write is done: on to the next, or to the answer.
Done(a, tables) ==
  /\ cat' = tables
  /\ admin' = [admin EXCEPT ![a] = IF Len(@.todo) = 1 THEN Idle ELSE [admin[a] EXCEPT !.todo = Tail(@)]]

\* The call ends early.  A refresh that was next is not made up for.
Stops(a) ==
  /\ admin' = [admin EXCEPT ![a] = Idle]
  /\ missed' = (missed \/ Due(a, "refresh"))
  /\ UNCHANGED <<raced, edits>>

\* The database refuses the write, or fails: the call answers with the error.
\* create_api_key also removes the key it was making, if the database lets it.
Refused(a) ==
  /\ seen' = [seen EXCEPT ![a] = Nothing]
  /\ \/ cat' = cat /\ Stops(a)
     \/ /\ admin[a].new # Nobody
        /\ cat' = delete_api_key(cat, admin[a].new)
        /\ admin' = [admin EXCEPT ![a] = Idle]
        /\ UNCHANGED <<missed, raced, edits>>

\* One write of kind `do`; `legal`: the rows it refers to are there.
Make(a, do, legal, tables) ==
  /\ Due(a, do)
  /\ IF legal THEN Done(a, tables) /\ UNCHANGED <<seen, missed, raced, edits>> ELSE Refused(a)

\* The rows that a deletes are no longer there for the DELETE of another.
Rewritten(a, found) ==
  [b \in Admins |->
     IF b = a \/ seen[b] = Nothing THEN Nothing
     ELSE [seen[b] EXCEPT
             !.deletes = [k \in Keys |-> @[k] \ found.deletes[k]],
             !.groups = IF Due(b, Current(a).do) /\ Current(b).id = Current(a).id THEN @ \ found.groups
                        ELSE @]]

\* A write that read first; `lost`: whether some key is left without its refresh.
\* Foreign and primary keys are checked here: if an earlier statement was refused
\* for them, nothing of the transaction is seen either.
Commit(a, do, found, legal, tables, lost) ==
  /\ Due(a, do)
  /\ seen[a].n \in {0, Snapshots(do)}
  /\ seen[a].n = 0 => MayOpen(a)
  /\ MayDelete(a, found)
  /\ IF legal THEN Done(a, tables) /\ seen' = Rewritten(a, found) /\ missed' = lost /\ UNCHANGED <<raced, edits>>
     ELSE Refused(a)

Bundle(a) ==
  LET w     == Current(a)
      found == Found(a)
  IN  Commit(a, "bundle", found,
             /\ w.arg \subseteq cat.groups
             /\ \A k \in Keys : found.inserts[k] \subseteq (IF k \in cat.keys THEN {w.id} ELSE {}),
             insert_provider_bundle(cat, w.id, w.arg, found), missed \/ Overtaken(a))

update_upstream_provider(a) ==
  LET w == Current(a)
  IN  Make(a, "provider", TRUE, [cat EXCEPT !.enabled = (@ \ {w.id}) \cup (w.arg \cap cat.providers)])

Memberships(a) ==
  LET w     == Current(a)
      found == Found(a)
  IN  Commit(a, "memberships", found,
             /\ w.id \in cat.providers
             /\ w.arg \subseteq cat.groups
             /\ w.arg \cap cat.member[w.id] \subseteq found.groups,
             replace_provider_group_memberships(cat, w.id, w.arg, found), missed)

DefaultTarget(a) ==
  Make(a, "route_target", TRUE, update_default_route_target(cat, Current(a).id))

\* A row that is there already is refused, as is one of a key or a provider
\* that is gone.
RefreshAll(a) ==
  LET found == Found(a)
  IN  Commit(a, "refresh", found,
             /\ found.makes \subseteq cat.keys
             /\ \A k \in Keys :
                  /\ found.inserts[k] \subseteq (IF k \in cat.keys THEN cat.providers ELSE {})
                  /\ found.inserts[k] \cap cat.allowed[k] \subseteq found.deletes[k],
             refresh_compat_authorizations(cat, found), Overtaken(a))

\* Does this write put p into a route?
Routes(w, p) == (w.do = "save_route" /\ p \in w.arg) \/ (w.do = "route_target" /\ w.id = p)

DeleteProvider(a) ==
  /\ Due(a, "delete_provider")
  /\ LET p == Current(a).id
     IN  /\ Done(a, delete_upstream_provider(cat, p))
         /\ raced' = raced \cup {q \in {p} : \E b \in Admins : \E w \in Pending(b) : Routes(w, q)}
  /\ UNCHANGED <<seen, missed, edits>>

insert_api_key(a) ==
  /\ Due(a, "insert_key")
  /\ LET k == Current(a).id
     IN  /\ cat' = [cat EXCEPT !.keys = @ \cup {k}, !.born = @ \cup {k}, !.live = @ \cup {k}]
         /\ admin' = [admin EXCEPT ![a].todo = Tail(@), ![a].new = k]
  /\ UNCHANGED <<seen, missed, raced, edits>>

KeyGroups(a) ==
  LET w     == Current(a)
      found == Found(a)
  IN  Commit(a, "key_groups", found,
             /\ w.id \in cat.keys
             /\ w.arg \subseteq cat.groups
             /\ w.arg \cap cat.keygroup[w.id] \subseteq found.groups,
             replace_api_key_provider_groups(cat, w.id, w.arg, found), missed)

Allowed(a) ==
  LET w     == Current(a)
      found == Found(a)
  IN  Commit(a, "allowed", found,
             /\ w.id \in cat.keys
             /\ w.arg \subseteq cat.providers
             /\ w.arg \cap cat.allowed[w.id] \subseteq found.deletes[w.id],
             replace_allowed_providers(cat, w.id, w.arg, found), missed)

KeyRow(a) ==
  LET w == Current(a)
  IN  Make(a, "key", TRUE, [cat EXCEPT !.live = (@ \ {w.id}) \cup (w.arg \cap cat.keys)])

DeleteKey(a) == Make(a, "delete_key", TRUE, delete_api_key(cat, Current(a).id))

insert_provider_group(a) ==
  LET x == Current(a).id
  IN  Make(a, "insert_group", TRUE, [cat EXCEPT !.groups = @ \cup {x}, !.born = @ \cup {x}])

\* The statement looks again whether anything is assigned to the group.  What
\* another call assigns after that goes with it (ON DELETE CASCADE).
DeleteGroup(a) ==
  LET found == Found(a)
      gone  == found.groups
  IN  Commit(a, "delete_group", found, TRUE,
             [cat EXCEPT !.groups = @ \ gone, !.member = [p \in Providers |-> @[p] \ gone],
                         !.keygroup = [k \in Keys |-> @[k] \ gone]],
             missed \/ \E x \in gone : Assigned(cat, x))

save_route_policy(a) ==
  LET w == Current(a)
  IN  Make(a, "save_route", TRUE,
           IF w.id = "*" THEN [cat EXCEPT !.route = w.arg] ELSE [cat EXCEPT !.special = w.arg])

\* upsert_model_route: the older table; then the policy is derived from the
\* default one as it is read now, and saved in a later write.
ModelRoute(a) == Make(a, "model_route", Current(a).arg \subseteq cat.providers, cat)

adapt_legacy_route(a) ==
  /\ Due(a, "adapt")
  /\ LET w == Current(a)
     IN  IF w.arg = {} THEN Done(a, [cat EXCEPT !.special = IF w.id = "*" THEN @ ELSE NoRoute])
         ELSE /\ admin' = [admin EXCEPT ![a].todo = <<Write("save_route", w.id, cat.route \cap w.arg)>>]
              /\ cat' = cat
  /\ UNCHANGED <<seen, missed, raced, edits>>

ProviderModels(a) ==
  LET w == Current(a)
  IN  Make(a, "models", w.id \in cat.providers \/ ~ w.arg, upsert_provider_models(cat, w.id, w.arg))

\* A statement for each field; no row, no change.
update_provider_model(a) ==
  LET w == Current(a)
  IN  \/ Make(a, "enabled", TRUE, [cat EXCEPT !.model[w.id].enabled = w.arg /\ cat.model[w.id].present])
      \/ Make(a, "alias", TRUE, [cat EXCEPT !.model[w.id].alias = w.arg /\ cat.model[w.id].present])

DeleteModel(a) == Make(a, "delete_model", TRUE, [cat EXCEPT !.model[Current(a).id] = NoModel])

KeyModels(a) ==
  LET x == Current(a).id
  IN  Make(a, "key_models", cat.child[x] # NoChild, upsert_upstream_key_models(cat, x))

upsert_gateway_model_policy(a) ==
  LET w == Current(a)
  IN  Make(a, "gateway", TRUE, [cat EXCEPT !.model[w.id] = [NoModel EXCEPT !.present = TRUE, !.enabled = w.arg]])

\* The name of an alias is unique.
insert_model_alias(a) == Make(a, "insert_alias", ~ cat.alias, [cat EXCEPT !.alias = TRUE])

\* ON DELETE CASCADE: the targets go with the alias.
DeleteAlias(a) == Make(a, "delete_alias", TRUE, [cat EXCEPT !.alias = FALSE, !.targets = {}])

insert_model_alias_target(a) ==
  LET p == Current(a).id
  IN  Make(a, "insert_target", p \in cat.providers /\ cat.alias, [cat EXCEPT !.targets = @ \cup {p}])

delete_model_alias_target(a) ==
  Make(a, "delete_target", TRUE, [cat EXCEPT !.targets = @ \ {Current(a).id}])

insert_child(a) ==
  LET w == Current(a)
  IN  Make(a, "insert_child", w.arg.of \in cat.providers,
           [cat EXCEPT !.child[w.id] = w.arg, !.born = @ \cup {w.id}])

\* The row as it was read, with the patch: no row, no change.
update_child_row(a) ==
  LET w == Current(a)
  IN  Make(a, "child", TRUE, IF cat.child[w.id] = NoChild THEN cat ELSE [cat EXCEPT !.child[w.id] = w.arg])

DeleteChild(a) ==
  LET x == Current(a).id
  IN  Make(a, "delete_child", TRUE, [cat EXCEPT !.child[x] = NoChild, !.model[x] = NoModel])

Reorder(a) ==
  LET w == Current(a) IN Make(a, "reorder", TRUE, reorder_provider_children(cat, w.id, w.arg))

MakeWrite(a) ==
  \/ Bundle(a) \/ update_upstream_provider(a) \/ Memberships(a) \/ DefaultTarget(a) \/ RefreshAll(a)
  \/ DeleteProvider(a)
  \/ insert_api_key(a) \/ KeyGroups(a) \/ Allowed(a) \/ KeyRow(a) \/ DeleteKey(a)
  \/ insert_provider_group(a) \/ DeleteGroup(a)
  \/ save_route_policy(a) \/ ModelRoute(a) \/ adapt_legacy_route(a)
  \/ ProviderModels(a) \/ update_provider_model(a) \/ DeleteModel(a)
  \/ KeyModels(a) \/ upsert_gateway_model_policy(a)
  \/ insert_model_alias(a) \/ DeleteAlias(a) \/ insert_model_alias_target(a) \/ delete_model_alias_target(a)
  \/ insert_child(a) \/ update_child_row(a) \/ DeleteChild(a) \/ Reorder(a)

\* The database fails under the write.
WriteFails(a) == Busy(a) /\ Refused(a)

-----------------------------------------------------------------------------
(* Properties.                                                             *)

CatalogueTypeOK ==
  /\ cat.providers \subseteq cat.born
  /\ cat.keys \subseteq cat.born
  /\ cat.enabled \subseteq cat.providers
  /\ cat.live \subseteq cat.keys
  /\ cat.auth \in [Keys -> {"none", "compat", "direct"}]
  /\ cat.allowed \in [Keys -> SUBSET Providers]
  /\ \A a \in Admins : Busy(a) \/ (admin[a] = Idle /\ seen[a] = Nothing)

\* The keys whose rows the transaction of a deletes or makes.
Touches(a) == {k \in Keys : seen[a].deletes[k] \cup seen[a].inserts[k] # {}}

\* What the administrator set stays as he set it, whatever refreshes, syncs and
\* other calls run and however their statements interleave.  "Only
\* compatibility-owned keys follow legacy group writes": the list that a key was
\* given changes by a write to that key, or because a provider on it was deleted.
\* The exception is that of READ COMMITTED: on Postgres a refresh, or a new
\* provider, that found the key following its groups before it was given the list
\* commits after that.  A model that was switched off stays off, however often the
\* upstream's list is synchronised, until it is switched on or deleted.  (Aliases
\* are not covered: a start makes a deleted one again.)
AdminDecides ==
  [][/\ \A k \in cat.keys \cap cat'.keys : cat.auth[k] = "direct" =>
          /\ cat'.auth[k] = "direct"
          /\ \/ cat'.allowed[k] = cat.allowed[k] \cap cat'.providers
             \/ \E a \in Admins : Due(a, "allowed") /\ Current(a).id = k
             \/ \E a \in Admins : (Due(a, "refresh") \/ Due(a, "bundle")) /\ k \in Touches(a) /\ seen'[a] = Nothing
     /\ \A o \in Owners :
          (cat.model[o].present /\ ~ cat.model[o].enabled /\ cat'.model[o].enabled) =>
            \E a \in Admins : (Due(a, "enabled") \/ Due(a, "gateway")) /\ Current(a).id = o]_cat

\* Every other key may use exactly what its groups give, whatever writes to
\* providers, groups and keys went before and however they interleaved, once no
\* refresh is on its way and none was lost to an error or a crash.  On Postgres
\* the promise ends where the code's does: a refresh or a new provider that
\* committed over another transaction (Overtaken), or a group that was deleted
\* under a new member, leaves it open until a refresh runs without one.
CompatFollows ==
  (~ missed /\ ~ \E a \in Admins : Due(a, "refresh")) =>
    \A k \in cat.keys : cat.auth[k] = "compat" => cat.allowed[k] = Union(cat, k)

\* Nothing refers to a provider that is gone, except a route that was on its
\* way to the database when the provider was deleted.
ReferencesHold ==
  /\ \A k \in Keys : cat.allowed[k] \subseteq cat.providers
  /\ cat.targets \subseteq (IF cat.alias THEN cat.providers ELSE {})
  /\ \A x \in Children : cat.child[x] # NoChild => cat.child[x].of \in cat.providers
  /\ \A r \in {cat.route, cat.special} \ {NoRoute} : r \subseteq cat.providers \cup raced

-----------------------------------------------------------------------------
(* The inductive invariant behind them, in parts: the tables (c), the calls *)
(* (r) and what holds between the two.                                     *)

ModelRows == [enabled: BOOLEAN, available: BOOLEAN, alias: BOOLEAN, present: BOOLEAN]
ChildRows == [of: Providers, enabled: BOOLEAN, priority: Nat]
Policies  == (SUBSET Providers) \cup {NoRoute}

CatalogueRows ==
  [providers: SUBSET Providers, born: SUBSET (Providers \cup Keys \cup Groups \cup Children),
   enabled: SUBSET Providers, member: [Providers -> SUBSET Groups],
   groups: SUBSET Groups, keys: SUBSET Keys, live: SUBSET Keys, keygroup: [Keys -> SUBSET Groups],
   auth: [Keys -> {"none", "compat", "direct"}], allowed: [Keys -> SUBSET Providers],
   route: Policies, special: Policies,
   model: [Owners -> ModelRows], alias: BOOLEAN, targets: SUBSET Providers,
   child: [Children -> ChildRows \cup {NoChild}]]

\* Rows exist only under ids that were given out, switches and grants only
\* for rows that exist.
Rooted(c) ==
  /\ c.providers \subseteq c.born
  /\ c.keys \subseteq c.born
  /\ c.enabled \subseteq c.providers
  /\ c.live \subseteq c.keys
  /\ \A k \in Keys \ c.keys : c.auth[k] = "none"
  /\ \A x \in Children : c.child[x] # NoChild => x \in c.born

\* ReferencesHold, of tables c when the providers in rc were deleted under a route.
Refers(c, rc) ==
  /\ \A k \in Keys : c.allowed[k] \subseteq c.providers
  /\ c.targets \subseteq (IF c.alias THEN c.providers ELSE {})
  /\ \A x \in Children : c.child[x] # NoChild => c.child[x].of \in c.providers
  /\ \A r \in {c.route, c.special} \ {NoRoute} : r \subseteq c.providers \cup rc

Sound(c, rc) == c \in CatalogueRows /\ Rooted(c) /\ Refers(c, rc)

\* Writes that give out an id.
Creates == {"bundle", "insert_key", "insert_group", "insert_child"}

\* What each write carries.
WriteOK(w) ==
  /\ w = Write(w.do, w.id, w.arg)
  /\ w.do \in {"bundle", "memberships"} => w.id \in Providers /\ w.arg \in SUBSET Groups
  /\ w.do = "provider" => w.id \in Providers /\ w.arg \in SUBSET Providers
  /\ w.do \in {"route_target", "delete_provider", "insert_target", "delete_target"} => w.id \in Providers
  /\ w.do \in {"insert_key", "delete_key"} => w.id \in Keys
  /\ w.do = "key_groups" => w.id \in Keys /\ w.arg \in SUBSET Groups
  /\ w.do = "allowed" => w.id \in Keys /\ w.arg \in SUBSET Providers
  /\ w.do = "key" => w.id \in Keys /\ w.arg \in SUBSET Keys
  /\ w.do \in {"insert_group", "delete_group"} => w.id \in Groups
  /\ w.do = "save_route" => w.arg \in (IF w.id = "*" THEN SUBSET Providers ELSE Policies)
  /\ w.do \in {"model_route", "adapt"} => w.arg \in SUBSET Providers
  /\ w.do = "models" => w.id \in Providers /\ w.arg \in BOOLEAN
  /\ w.do \in {"enabled", "alias", "gateway"} => w.id \in Owners /\ w.arg \in BOOLEAN
  /\ w.do = "delete_model" => w.id \in Owners
  /\ w.do \in {"key_models", "delete_child"} => w.id \in Children
  /\ w.do \in {"insert_child", "child"} => w.id \in Children /\ w.arg \in ChildRows
  /\ w.do = "reorder" => w.id \in Providers /\ \E S \in SUBSET Children : w.arg \in [S -> Nat]

\* A change of groups has its refresh right behind it; a call that makes an
\* access key changes the groups of no other key.
CallOK(r) ==
  /\ r = [at |-> r.at, todo |-> r.todo, new |-> r.new]
  /\ r.todo \in Seq(Range(r.todo))
  /\ r.new \in Keys \cup {Nobody}
  /\ r.todo = <<>> => r = Idle
  /\ \A i \in DOMAIN r.todo :
       LET w == r.todo[i]
       IN  /\ WriteOK(w)
           /\ w.do \in {"memberships", "key_groups"} => i + 1 \in DOMAIN r.todo /\ r.todo[i + 1] = Refresh
           /\ w.do \in Creates => i = 1
           /\ w.do = "insert_key" => i + 1 \in DOMAIN r.todo
           /\ w.do = "memberships" => r.new = Nobody /\ r.todo[1].do # "insert_key"
           /\ w.do = "key_groups" => /\ r.new # Nobody => w.id = r.new
                                     /\ r.todo[1].do = "insert_key" => w.id = r.todo[1].id

\* What was validated and still holds when the write is made.
StillValid(w, c, rc) ==
  /\ w.do = "save_route" => w.arg = NoRoute \/ w.arg \subseteq c.providers \cup rc
  /\ w.do = "route_target" => w.id \in c.providers \cup rc
  /\ w.do = "child" => w.id \in c.born /\ (c.child[w.id] # NoChild => c.child[w.id].of = w.arg.of)
  /\ w.do \in Creates => w.id \notin c.born

CallsOK ==
  \A a \in Admins :
    /\ CallOK(admin[a])
    /\ \A i \in DOMAIN admin[a].todo : StillValid(admin[a].todo[i], cat, raced)

FoundRows ==
  [n: 0 .. 2, makes: SUBSET Keys, deletes: [Keys -> SUBSET Providers], inserts: [Keys -> SUBSET Providers],
   groups: SUBSET Groups]

\* Only a call whose next write reads first has a transaction open.
SeenOK ==
  /\ seen \in [Admins -> FoundRows]
  /\ \A a \in Admins : seen[a] = Nothing \/ (Busy(a) /\ Snapshots(Current(a).do) > 0)

\* No id is given out twice.
NewIds ==
  \A a, b \in Admins : (a # b /\ Busy(a) /\ Busy(b)) =>
    ~ (Current(a).do \in Creates /\ Current(b).do \in Creates /\ Current(a).id = Current(b).id)

\* The refresh that a new key waits for concerns that key alone.
Follows(c, k) == c.auth[k] = "compat" => c.allowed[k] = Union(c, k)

CompatFollowsOrWaits ==
  (~ missed /\ ~ \E a \in Admins : Due(a, "refresh") /\ admin[a].new = Nobody) =>
    \A k \in cat.keys : Follows(cat, k) \/ \E a \in Admins : Due(a, "refresh") /\ admin[a].new = k

CatalogueInv ==
  /\ Sound(cat, raced)
  /\ raced \in SUBSET Providers
  /\ admin = [a \in Admins |-> admin[a]]
  /\ CallsOK
  /\ NewIds
  /\ CompatFollowsOrWaits
============================================================================
